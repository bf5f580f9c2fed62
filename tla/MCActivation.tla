----------------------------- MODULE MCActivation ------------------------------
(* Model values, bounds and symmetry for TLC.                                  *)
EXTENDS Activation, TLC

CONSTANTS
  MaxVersion,    \* of one saga
  MaxVersions    \* of two sagas together

\* The provisioning is of an ADMIN, whose role can be revoked.
MCRole == [o \in Operations |-> IF o = Bootstrap THEN "SUPER_ADMIN" ELSE "ADMIN"]

Bounds ==
  /\ \A o \in Operations : sagas[o].version <= MaxVersion
  /\ \A o, p \in Operations : o # p => sagas[o].version + sagas[p].version <= MaxVersions

Interchangeable ==
  Permutations(Provisionings) \cup Permutations(Identities)
    \cup Permutations(Attestations) \cup Permutations(Calls)
===============================================================================

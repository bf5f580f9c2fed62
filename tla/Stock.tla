--------------------------------- MODULE Stock ---------------------------------
(***************************************************************************)
(* What module 05 promises about stock, without calls, versions, keys or    *)
(* ledger: each SKU has units on hand and units reserved, one of the two    *)
(* changes at a time, and more is never reserved than there is.             *)
(***************************************************************************)
EXTENDS Integers

CONSTANTS
  Skus,
  MaxUnits   \* what a quantity column holds

VARIABLES
  onHand,    \* [Skus -> 0..MaxUnits]
  reserved   \* [Skus -> 0..MaxUnits]

Init ==
  /\ onHand = [s \in Skus |-> 0]
  /\ reserved = [s \in Skus |-> 0]

\* Units come in, go out or are counted anew.
Move(s, units) ==
  /\ reserved[s] <= units
  /\ onHand' = [onHand EXCEPT ![s] = units]
  /\ UNCHANGED reserved

Reserve(s, quantity) ==
  /\ reserved[s] + quantity <= onHand[s]
  /\ reserved' = [reserved EXCEPT ![s] = @ + quantity]
  /\ UNCHANGED onHand

Release(s, quantity) ==
  /\ quantity <= reserved[s]
  /\ reserved' = [reserved EXCEPT ![s] = @ - quantity]
  /\ UNCHANGED onHand

Next ==
  \E s \in Skus, units \in 0..MaxUnits :
    \/ Move(s, units)
    \/ Reserve(s, units)
    \/ Release(s, units)

Spec == Init /\ [][Next]_<<onHand, reserved>>
===============================================================================

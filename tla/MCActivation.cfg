SPECIFICATION Spec
CONSTANTS
  Provisionings = {p1}
  Bootstrap = boot
  Role <- MCRole
  Identities = {ann, bob}
  Attestations = {a1, a2}
  Calls = {t1, t2}
  MaxVersion = 4
  MaxVersions = 6
CONSTRAINT Bounds
SYMMETRY Interchangeable
INVARIANTS
  PrivilegeFollowsSaga
  OneSagaPerIdentity
  InboxTellsTheTruth
CHECK_DEADLOCK FALSE

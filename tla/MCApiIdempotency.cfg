CONSTANTS
  Requests = {r1, r2, r3}
  Keys = {k1, k2}
  Fingerprints = {f1, f2}
  None = None
SPECIFICATION FairSpec
INVARIANTS
  TypeOK
  AtMostOneEffect
  FailureFreesTheKey
  ReplayMatchesRequest
PROPERTIES
  ImplementsAtMostOnce
  EveryCallAnswered
CHECK_DEADLOCK FALSE

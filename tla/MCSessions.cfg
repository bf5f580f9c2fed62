CONSTANTS
  SessionIds = {s1, s2}
  Tokens = {k1, k2, k3}
  Challenges = {c1, c2}
  Calls = {t1, t2}
  MaxAttempts = 2
  MaxVersion = 3
SPECIFICATION Spec
CONSTRAINT Bounds
SYMMETRY Interchangeable
INVARIANTS
  TypeOK
  TokensFormAChain
  OneResetPerChallenge
PROPERTY RevokedForGood
CHECK_DEADLOCK FALSE

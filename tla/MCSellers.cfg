CONSTANTS
  Sellers = {shop}
  Identities = {ann, bob, eve}
  Calls = {t1, t2}
  MaxVersion = 6
SPECIFICATION Spec
CONSTRAINT Bounds
SYMMETRY Interchangeable
INVARIANTS
  DecisionsAreSeparated
  LogTellsTheLife
PROPERTY DecidersAreOutsiders
CHECK_DEADLOCK FALSE

CONSTANTS
  Skus = {mug}
  Calls = {t1, t2}
  Keys = {k1}
  NoKey = NoKey
  MaxUnits = 2
  MaxMutationUnits = 2
  MaxVersion = 4
SPECIFICATION Spec
CONSTRAINT Bounds
SYMMETRY Interchangeable
INVARIANTS
  TypeOK
  NeverOversold
  LedgerExplainsStock
  MovementsActOnWhatWasSeen
  OneMovementPerKey
PROPERTY ImplementsStock
CHECK_DEADLOCK FALSE

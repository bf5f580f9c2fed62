CONSTANTS
  Customers = {ada}
  Skus = {mug, tea}
  Calls = {t1, t2}
  Correlations = {r1}
  NoCorrelation = none
  MaxQuantity = 2
  MaxLines = 2
  MaxItems = 2
  MaxUnits = 2
  MaxVersion = 3
  MaxConfirmed = 2
SPECIFICATION CartSpec
CONSTRAINT Bounds
SYMMETRY Interchangeable
INVARIANTS
  CartTypeOK
  TotalsMatchLines
  SnapshotIsTheCart
  LinesWereConfirmed
PROPERTY EndedCartsStay
CHECK_DEADLOCK FALSE

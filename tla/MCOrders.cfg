CONSTANTS
  ada = ada
  k1 = k1
  k2 = k2
  mug = mug
  tea = tea
  basket = basket
  Customers = {ada}
  OrderIds = {o1, o2}
  Skus = {mug, tea}
  Keys = {k1, k2}
  Calls = {t1, t2}
  Correlations = {r1}
  NoCorrelation = NoCorrelation
  Snapshots = {basket}
  Buyer <- MCBuyer
  Lines <- MCLines
SPECIFICATION Spec
CONSTRAINT Bounds
SYMMETRY Interchangeable
INVARIANTS
  TypeOK
  HistoryMatchesState
  OneOrderPerKey
  OrdersStandOnGrants
PROPERTY ImplementsOrderBook
CHECK_DEADLOCK FALSE

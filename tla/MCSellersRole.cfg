CONSTANTS
  Sellers = {shop}
  Identities = {ann, bob, eve}
  Calls = {t1, t2}
  MaxVersion = 5
SPECIFICATION Spec
CONSTRAINT Bounds
SYMMETRY Interchangeable
INVARIANT ActiveSellersHoldRole
CHECK_DEADLOCK FALSE

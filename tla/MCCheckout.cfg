CONSTANTS
  Customers = {ada}
  OrderIds = {o1, o2}
  Calls = {t1, t2}
  Amount = 2
  MaxTries = 2
SPECIFICATION Spec
SYMMETRY Interchangeable
INVARIANTS
  TypeOK
  PaymentHistoryMatches
  PaidOrdersWereAuthorized
  OneProviderOrder
  RefundRowsTellTheLife
CHECK_DEADLOCK FALSE

CONSTANTS
  Customers = {ada}
  OrderIds = {o1}
  Calls = {t1, t2}
  Amount = 2
  MaxTries = 2
SPECIFICATION FairSpec
PROPERTY CapturedOrdersGetPaid
CHECK_DEADLOCK FALSE

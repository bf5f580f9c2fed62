SPECIFICATION Spec
CONSTANTS
  Products = {mug}
  Skus = {k1, k2}
  Owner = owner
  Admins = {ann, owner}
  MediaLimit = 1
  Calls = {t1, t2}
  MaxVersion = 8
CONSTRAINT Bounds
SYMMETRY Interchangeable
INVARIANTS
  PublishedDataWasReviewed
PROPERTY PublishedSkusAreFrozen
CHECK_DEADLOCK FALSE

SPECIFICATION Spec
CONSTANTS
  c1 = c1 c2 = c2 c3 = c3 c4 = c4 c5 = c5 c6 = c6
  k1 = k1 k2 = k2 k3 = k3 k4 = k4 k5 = k5
  Key <- Keys
  Call <- Controlled4
  Controlled <- Controlled4
  Batch <- None
  DecodeKey <- SharedKeys
  MaxArgs <- None
  Barging = FALSE
INVARIANT ConcurrencyBound
CHECK_DEADLOCK FALSE

SPECIFICATION Spec
CONSTANTS
  c1 = c1 c2 = c2 c3 = c3 c4 = c4 c5 = c5 c6 = c6
  k1 = k1 k2 = k2 k3 = k3 k4 = k4 k5 = k5
  Key <- Keys
  Call <- Calls5
  Controlled = {c1, c2}
  Batch <- Batch3
  DecodeKey <- SeparateKeys
  MaxArgs <- None
  Barging = FALSE
INVARIANT BatchBound
CHECK_DEADLOCK FALSE

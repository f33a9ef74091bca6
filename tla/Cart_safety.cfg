CONSTANTS
  r1 = r1
  r2 = r2
  v1 = v1
  v2 = v2
  Request = {r1, r2}
  Variant = {v1, v2}
  NumCarts = 2
  Price = {2}
  Available <- Stock
  MaxQty = 2
  MaxLines = 2
  MaxMerge = 1
SPECIFICATION Spec
SYMMETRY Interchangeable
CHECK_DEADLOCK FALSE
INVARIANTS
  TypeOK
  TotalsMatchLines
  LinesCovered
  ActiveCartsBounded

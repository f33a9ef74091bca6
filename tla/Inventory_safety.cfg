CONSTANTS
  v1 = v1
  v2 = v2
  Variant = {v1, v2}
  Quantities = {1, 2}
  MaxInt = 4
SPECIFICATION InventorySpec
INVARIANTS
  StockIsSumOfMovements
  NeverOverstated

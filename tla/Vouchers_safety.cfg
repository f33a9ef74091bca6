CONSTANTS
  v1 = v1
  v2 = v2
  sale = sale
  o1 = o1
  o2 = o2
  o3 = o3
  ann = ann
  bob = bob
  Voucher = {v1, v2}
  Promotion = {sale}
  Order = {o1, o2, o3}
  User = {ann, bob}
  PromotionOf <- BothOfSale
  BuyerOf <- AnnTwice
  MaxLimit = 2
  MaxVoid = 1
SPECIFICATION Spec
SYMMETRY Interchangeable
INVARIANTS
  CountersExplained
PROPERTIES
  TotalLimitsKept

CONSTANTS
  a1 = a1
  a2 = a2
  NumPromotions = 2
  Admin = {a1, a2}
  Offers <- Kinds
  CartSubtotal = 200
  ShippingFee = 20
SPECIFICATION PromotionsSpec
SYMMETRY Interchangeable
INVARIANTS
  PromotionsTypeOK
  FlashSaleNotWithPercentage
  HigherPriorityFirst
  TotalsAddUp
PROPERTIES
  ArchivedStays

\* Two sessions over two variants, two order requests in flight, calls of expireCheckout, the
\* orders' moves.
CONSTANTS
  lamp = lamp
  bulb = bulb
  r1 = r1
  r2 = r2
  NumSessions = 2
  Variant = {lamp, bulb}
  Request = {r1, r2}
  InitialStock <- Shelf
  MaxInt = 2
  MaxQuantity = 1
  Deltas <- Corrections
  Sweeping = TRUE
SPECIFICATION StoreSpec
CONSTRAINT Followed
SYMMETRY Interchangeable
INVARIANTS
  LedgerEquation
  HoldFollowsSession
  OrderOwnsHold
  ReservedIsSumOfHolds
  OrderNumbersGapFree
  OwedUnitsSetAside
PROPERTIES
  ClosedHoldIsFinal
  ImplementsPromise

CONSTANTS
  c1 = c1
  c2 = c2
  h1 = h1
  h2 = h2
  d1 = d1
  x1 = x1
  x2 = x2
  x3 = x3
  Call = {c1, c2}
  Hook = {h1, h2}
  Decline = {d1}
  Charge = {x1, x2, x3}
  NoEvent = noEvent
  Flaky = TRUE
  SameTxn = {x1}
  Unmatched = {}
  Misstated = {x3}
SPECIFICATION FairSpec
CHECK_DEADLOCK FALSE
INVARIANTS
  CapturedOnce
  SuccessClosesOrder
  PaidWasCaptured
PROPERTIES
  SuccessSurvivesWebhooks
  ChargeNotLost

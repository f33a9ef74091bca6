\* A payment by PayPal: one event of the order, one of the capture.
CONSTANTS
  c1 = c1
  c2 = c2
  h1 = h1
  h2 = h2
  d1 = d1
  x1 = x1
  x2 = x2
  x3 = x3
  Call = {c1}
  Hook = {h1}
  Decline = {}
  Charge = {x1, x2}
  NoEvent = noEvent
  Flaky = FALSE
  SameTxn = {x1}
  Unmatched = {x2}
  Misstated = {}
SPECIFICATION FairSpec
CHECK_DEADLOCK FALSE
PROPERTIES
  ChargeBooked

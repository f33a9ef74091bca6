CONSTANTS
  c1 = c1
  c2 = c2
  h1 = h1
  h2 = h2
  Call = {c1}
  Hook = {h1}
  NoReport = noReport
  Flaky = FALSE
SPECIFICATION FairSpec
CHECK_DEADLOCK FALSE
PROPERTIES
  TransitRecorded

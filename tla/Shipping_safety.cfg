CONSTANTS
  c1 = c1
  c2 = c2
  h1 = h1
  h2 = h2
  Call = {c1, c2}
  Hook = {h1, h2}
  NoReport = noReport
  Flaky = TRUE
SPECIFICATION Spec
SYMMETRY Interchangeable
CHECK_DEADLOCK FALSE
INVARIANTS
  RegisteredOnce
PROPERTIES
  NeverRegresses

SPECIFICATION Spec
CONSTANTS
  b1 = b1
  t1 = t1
  t2 = t2
  r1 = r1
  r2 = r2
  MaxSessions = 3
  Browser = {b1}
  Tab = {t1, t2}
  NoTab = NoTab
  BrowserOf <- TwoTabs
  Request = {r1, r2}
  Cap = 1
SYMMETRY Interchangeable
INVARIANTS
  ActiveWithinCap
  RevokedIsDead
  NeverAccusedWrongly
CHECK_DEADLOCK FALSE

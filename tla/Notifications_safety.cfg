CONSTANTS
  n1 = n1
  n2 = n2
  w1 = w1
  r1 = r1
  Mail = {n1}
  Undeliverable = {n2}
  Worker = {w1}
  Request = {r1}
  NoNote = noNote
  MaxTries = 2
  MaxRetries = 1
  MaxFaults = 1
SPECIFICATION FairSpec
CHECK_DEADLOCK FALSE
INVARIANTS
  MailedOnce
  ProcessingIsOwned
  ScheduleMatchesTries
  TriesBounded
PROPERTIES
  EnqueuedSettles

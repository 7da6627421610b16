CONSTANTS
  s1 = s1
  s2 = s2
  p1 = p1
  p2 = p2
  Session = {s1, s2}
  Process = {p1, p2}
  ProcessOf <- OneProcess
  Character = {c1}
  Owned = {c1}
  Expiry = 1
  MaxClock = 1
  MaxGeneration = 2
  MailCap = 1
  Stoppable = {p1}
  Crashable = {}
SPECIFICATION FairSpec
INVARIANTS
  RestoreIsCurrent
  StoppedChannelAcceptsNothing
PROPERTY AwaitsEnd
CHECK_DEADLOCK FALSE

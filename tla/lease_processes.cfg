CONSTANTS
  s1 = s1
  s2 = s2
  p1 = p1
  p2 = p2
  Session = {s1, s2}
  Process = {p1, p2}
  ProcessOf <- TwoProcesses
  Character = {c1, c2}
  Owned = {c1}
  Expiry = 2
  MaxClock = 2
  MaxGeneration = 2
  MailCap = 1
  Stoppable = {}
  Crashable = {p1}
SPECIFICATION Spec
INVARIANTS
  TypeOK
  SingleAuthority
  RestoreIsCurrent
PROPERTY FencedSpec
CHECK_DEADLOCK FALSE

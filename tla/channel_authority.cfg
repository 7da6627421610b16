SPECIFICATION Spec
CONSTANTS
  p1 = p1
  p2 = p2
  i1 = i1
  Nobody = Nobody
  Process = {p1, p2}
  Crashable = {p1}
  Playing = {p1}
  Item = {i1}
  Expiry = 2
  MailCap = 1
  QueueCap = 1
  MaxClock = 2
  MaxGeneration = 2
CHECK_DEADLOCK FALSE
INVARIANTS
  ChannelIsSound
PROPERTIES
  ChannelIsFenced
  StartEnds

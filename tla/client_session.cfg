SPECIFICATION FairSession
CONSTANTS
  MaxAttempt = 3
  MaxCut = 3
  MaxObserver = 1
  CmdCap = 2
  EventCap = 2
  FrameCap = 2
INVARIANT SessionsAgree
PROPERTY WaitsEnd

SPECIFICATION SessionSpec
CONSTANTS
  MaxAttempt = 2
  MaxCut = 1
  MaxObserver = 1
  CmdCap = 2
  EventCap = 2
  FrameCap = 1
INVARIANT GameShowsActive

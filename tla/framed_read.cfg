CONSTANTS
  Frames = 2
  Pieces = 2
SPECIFICATION Spec
INVARIANT FramesArriveWhole
CHECK_DEADLOCK FALSE

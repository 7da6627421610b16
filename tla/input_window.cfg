SPECIFICATION FairSpec
CONSTANTS
  PendingCap = 2
  InputCap = 3
  QueueCap = 2
  Allowance = 2
  GateTicks = 1
  BackCap = 1
  MaxDebt = 2
  MaxSeq = 3
  MaxEpoch = 1
INVARIANT InputIsSound
PROPERTIES
  WindowIsOfOneEpoch
  BarrierIsLifted

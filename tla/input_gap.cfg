SPECIFICATION FairSpec
CONSTANTS
  PendingCap = 2
  InputCap = 4
  QueueCap = 2
  Allowance = 2
  GateTicks = 1
  BackCap = 1
  MaxDebt = 1
  MaxSeq = 3
  MaxEpoch = 0
PROPERTY
  WindowReopens

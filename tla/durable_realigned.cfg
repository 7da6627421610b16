CONSTANTS
  MaxCommands = 1
  QueueCap = 1
  MaxSaves = 1
  MaxLost = 1
  MaxFailures = 0
SPECIFICATION Spec
INVARIANT RejectedIsNotStored

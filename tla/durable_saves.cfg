CONSTANTS
  MaxCommands = 1
  QueueCap = 2
  MaxSaves = 2
  MaxLost = 1
  MaxFailures = 1
SPECIFICATION FairSpec
INVARIANTS
  CommittedIsStored
  LeaveStoresPlace
PROPERTIES
  SubmitsBehindNoSnapshot
  PlaceNeverOlder
  StagedSettles

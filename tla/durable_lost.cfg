CONSTANTS
  MaxCommands = 4
  QueueCap = 2
  MaxSaves = 0
  MaxLost = 2
  MaxFailures = 2
SPECIFICATION Spec
INVARIANTS
  TypeOK
  WorldMatchesStore
PROPERTY OnceSpec

SPECIFICATION FairSim
CONSTANTS
  p1 = p1
  p2 = p2
  h1 = h1
  h2 = h2
  Player = {p1, p2}
  Home = {h1, h2}
  Ability = {"strike", "dash"}
  Timing <- MCTiming
  RespawnDelay = 1
  Capacity = 4
  Ceiling = 2
  Budget = 1
  MaxNpc = 4
  MaxStarts = 2
INVARIANTS RuntimeIsSound PopulationIsKept
PROPERTY ServicesFinish

SPECIFICATION FairSpec
CONSTANTS
  Character = {c1}
  c1 = c1
  MaxItem = 2
  Carried = 1
  Lifetime = 1
  Window = 1
  WakeBatch = 2
  ReserveBatch = 1
  LowWater = 1
  MaxPlans = 1
  MaxRoll = 1
  Wander = TRUE
  Release = FALSE
INVARIANTS
  GroundIsSound
  GroundMatchesStore
PROPERTIES
  TakenWritesNothing
  DropsDisappear
CHECK_DEADLOCK FALSE

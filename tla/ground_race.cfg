SPECIFICATION Spec
CONSTANTS
  Character = {c1, c2}
  c1 = c1
  c2 = c2
  MaxItem = 2
  Carried = 2
  Lifetime = 1
  Window = 1
  WakeBatch = 2
  ReserveBatch = 1
  LowWater = 0
  MaxPlans = 0
  MaxRoll = 1
  Wander = TRUE
  Release = FALSE
INVARIANTS
  EveryDropIsTimed
  GroundMatchesStore
  HeldByOneCommand
PROPERTIES
  TakenWritesNothing
SYMMETRY Symmetry
CHECK_DEADLOCK FALSE

SPECIFICATION FairSpec
CONSTANTS
  Subject = {e1, e2}
  e1 = e1
  e2 = e2
  PipeCap = 2
  WireCap = 1
  Budgets = {1, 2}
  MaxChanges = 2
INVARIANTS
  StreamIsSound
  ChangesAreScheduled
PROPERTY ClientConverges

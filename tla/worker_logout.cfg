CONSTANTS
  c1 = c1
  c2 = c2
  Character = {c1}
  QueueCap = 1
  MaxRevision = 1
SPECIFICATION Spec
INVARIANT DrainedFinishedSnapshots
CHECK_DEADLOCK FALSE

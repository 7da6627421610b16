CONSTANTS
  c1 = c1
  c2 = c2
  Character = {c1, c2}
  QueueCap = 2
  MaxRevision = 2
SPECIFICATION FairSpec
INVARIANTS
  TypeOK
  AtMostOneLate
  ReleasedAfterSaves
PROPERTY HandedIsTried
CHECK_DEADLOCK FALSE

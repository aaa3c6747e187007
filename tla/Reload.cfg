\* Overlapping rebuilds, a reader and a recycled state; the bounded outside stops.
CONSTANTS
  Workers = 2
  Readers = {q1}
  MaxSaves = 1
  MaxHangups = 3
SPECIFICATION FairSpec
CHECK_DEADLOCK FALSE
INVARIANTS
  PoolAndDocsAgree
  NoNewPoolWithOldDocs
PROPERTIES
  PendingIsHonoured
  TasksEnd

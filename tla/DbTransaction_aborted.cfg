\* SQLite ends the transaction, the body goes on.
CONSTANTS
  Scopes = {s1, s2}
  Writes = {w1, w2}
  MaxDepth = 2
  MaxBatch = 1
  Aborts = TRUE
SPECIFICATION Spec
SYMMETRY Symmetry
CHECK_DEADLOCK FALSE
INVARIANT
  RollsBackWhenItErrors

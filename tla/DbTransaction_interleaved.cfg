\* A statement whose future was dropped runs late.
CONSTANTS
  Scopes = {s1, s2}
  Writes = {w1, w2}
  MaxDepth = 2
  MaxBatch = 2
  Aborts = FALSE
SPECIFICATION Spec
SYMMETRY Symmetry
CHECK_DEADLOCK FALSE
INVARIANT
  NeverInterleaves

\* A transaction, a savepoint in it and a second transaction, two statements; two
\* processes that migrate two files while the files change; two uploads at limits of a
\* few bytes, and a restart.
CONSTANTS
  Scopes = {s1, s2, s3}
  Writes = {w1, w2}
  MaxDepth = 2
  MaxBatch = 2
  Aborts = TRUE
  Runners = {r1, r2}
  Versions = {1, 2}
  Contents = {x, y}
  NoFile = NoFile
  Nobody = Nobody
  MaxEdits = 3
  Uploads = {q1, q2}
  Bodies <- MCBodies
  MaxBody = 2
  MaxParts = 2
  MaxField = 1
  MaxFile = 1
  MaxBoots = 2
SPECIFICATION DatabaseSpec
SYMMETRY Symmetry
CHECK_DEADLOCK FALSE
INVARIANTS
  ConnectionIsUsable
  RowsAreRight
  LedgerHolds
  UploadsAreWhole
  SpoolIsEmptied

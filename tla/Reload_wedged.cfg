\* The reload state's return to idle.
CONSTANTS
  Workers = 1
  Readers = {}
  MaxSaves = 0
  MaxHangups = 2
SPECIFICATION Spec
CHECK_DEADLOCK FALSE
INVARIANTS
  NeverWedged

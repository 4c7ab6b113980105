SPECIFICATION Spec
CONSTANTS
  k1 = k1
  k2 = k2
  p1 = p1
  p2 = p2
  Chunks = {k1, k2}
  Procs = {p1, p2}
  RecallLimit = 1
  MaxCrashes = 1
  MaxEdits = 1
  MaxBackups = 2
SYMMETRY Symmetry
INVARIANTS
  MemoriesStored
CHECK_DEADLOCK FALSE

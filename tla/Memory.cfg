SPECIFICATION Spec
CONSTANTS
  k1 = k1
  k2 = k2
  p1 = p1
  p2 = p2
  Chunks = {k1, k2}
  Procs = {p1, p2}
  RecallLimit = 1
  MaxCrashes = 1
  MaxEdits = 1
  MaxBackups = 1
SYMMETRY Symmetry
INVARIANTS
  TypeOK
  MigratedOnce
  LossExplained
  
CHECK_DEADLOCK FALSE

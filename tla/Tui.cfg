SPECIFICATION Spec
CONSTANTS
  s1 = s1
  s2 = s2
  t1 = t1
  t2 = t2
  x = x
  y = y
  None = None
  Sessions = {s1, s2}
  Unstored = {s2}
  Turns = {t1, t2}
  Contents = {x, y}
  Kind <- MCKind
  Capacity = 2
  MaxRunning = 2
  MaxLoads = 2
  MaxFaults = 1
INVARIANTS
  TypeOK
  TranscriptOwn
  ShownOnce
  AnswerAccounted
CHECK_DEADLOCK FALSE

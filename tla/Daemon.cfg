SPECIFICATION FairSpec
CONSTANTS
  c1 = c1
  c2 = c2
  c3 = c3
  None = None
  Torn = Torn
  Commands = {c1, c2, c3}
  Kinds <- AllKinds
  Serial = TRUE
  CarefulRuns = TRUE
  MaxDeaths = 1
INVARIANTS
  TypeOK
  ServerOnFile
  OneConnector
PROPERTIES
  ReportsTrue
  CommandsEnd
CHECK_DEADLOCK FALSE

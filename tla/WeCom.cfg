SPECIFICATION FairSpec
CONSTANTS
  Limits <- MCLimits
  Delay = 1
  MaxDelay = 3
  MaxConnections = 4
  MaxMessages = 1
INVARIANTS
  TypeOK
  RetryBudget
  HeartbeatsExplained
PROPERTIES
  AnsweredAcrossReconnects
CHECK_DEADLOCK FALSE

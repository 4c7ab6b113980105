SPECIFICATION FairSpec
CONSTANTS
  Torn = Torn
  Updates <- MCUpdates
  Own = "me"
  BatchLimit = 2
  MaxAccounts = 1
  MaxPollErrors = 1
  MaxErrors = 1
  MaxBlanks = 1
  MaxCrashes = 1
INVARIANTS
  TypeOK
  AtMostOnce
  InChannelOrder
  LossBounded
PROPERTIES
  Delivered
  LoginEnds
CHECK_DEADLOCK FALSE

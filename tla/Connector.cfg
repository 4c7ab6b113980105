SPECIFICATION FairSpec
CONSTANTS
  e1 = e1
  e2 = e2
  None = None
  Messages = {e1, e2}
  Serial = TRUE
  MaxFaults = 1
INVARIANTS
  TypeOK
  RightAnswer
  GaveUpForAReason
  NoOldReply
PROPERTIES
  AnswerFound
  WaitEnds
CHECK_DEADLOCK FALSE

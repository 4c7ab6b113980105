SPECIFICATION FairSpec
CONSTANTS
  e1 = e1
  e2 = e2
  e3 = e3
  c1 = c1
  None = None
  Requests = {e1, e2}
  Conversations = {c1}
  Workload <- ConversationWorkload
  ToolCallLimit = 1
  SerialClients = FALSE
  MaxFailures = 1
  MaxCrashes = 0
PROPERTIES
  AcceptedAnswered
CHECK_DEADLOCK FALSE

SPECIFICATION Spec
CONSTANTS
  e1 = e1
  e2 = e2
  e3 = e3
  c1 = c1
  None = None
  Requests = {e1, e2, e3}
  Conversations = {c1}
  Workload <- ChatWorkload
  ToolCallLimit = 2
  SerialClients = TRUE
  MaxFailures = 1
  MaxCrashes = 1
INVARIANTS
  StableConversation
  OwnMessagePrompted
CHECK_DEADLOCK FALSE

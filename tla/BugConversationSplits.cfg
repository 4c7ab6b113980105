SPECIFICATION Spec
CONSTANTS
  e1 = e1
  e2 = e2
  e3 = e3
  c1 = c1
  None = None
  Requests = {e1, e2}
  Conversations = {c1}
  Workload <- ChatWorkload
  ToolCallLimit = 1
  SerialClients = FALSE
  MaxFailures = 0
  MaxCrashes = 0
INVARIANTS
  StableConversation
CHECK_DEADLOCK FALSE

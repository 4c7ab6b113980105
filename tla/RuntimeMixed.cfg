SPECIFICATION Spec
CONSTANTS
  e1 = e1
  e2 = e2
  e3 = e3
  c1 = c1
  None = None
  Requests = {e1, e2}
  Conversations = {c1}
  Workload <- MixedWorkload
  ToolCallLimit = 1
  SerialClients = FALSE
  MaxFailures = 1
  MaxCrashes = 1
INVARIANTS
  TypeOK
  AcceptedDurable
  StoreWithinMemory
  GapsExplained
  BindingsLive
  ExchangesInOrder
  OneOutcome
PROPERTIES
  ImplementsDelivery
CHECK_DEADLOCK FALSE

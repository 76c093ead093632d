SPECIFICATION FairSpec
CONSTANTS
  a = a
  b = b
  Alive = Alive
  Agent = Agent
  NoRequest = NoRequest
  Cohs <- Hosts
  Results <- Packets1
  Calls <- Requests
  Slots = 2
  DeferResults = FALSE
  MaxOrders = 1
  MaxAgentCalls = 1
  MaxFaults = 1
INVARIANTS NotInvented Kept
PROPERTIES Delivered
CHECK_DEADLOCK FALSE

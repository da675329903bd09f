CONSTANTS
  Workers = {w1}
  Jobs <- Requests
  QueueSize = 1
  CreateFails = FALSE
  Clients = {c1}
  Nobody = Nobody
  MaxClients = 1
  Leaving = TRUE
  Signals = FALSE
SPECIFICATION ServerFairSpec
CHECK_DEADLOCK FALSE
PROPERTIES
  FullQueueReturns

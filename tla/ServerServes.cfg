CONSTANTS
  Workers = {w1, w2}
  Jobs <- Requests
  QueueSize = 2
  CreateFails = FALSE
  Clients = {c1, c2}
  Nobody = Nobody
  MaxClients = 2
  Leaving = FALSE
  Signals = FALSE
SPECIFICATION ServerFairSpec
CHECK_DEADLOCK FALSE
INVARIANTS
  OneRequestEach
PROPERTIES
  Answered

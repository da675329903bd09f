CONSTANTS
  Workers = {w1}
  Jobs <- Requests
  QueueSize = 1
  CreateFails = FALSE
  Clients = {c1, c2, c3}
  Nobody = Nobody
  MaxClients = 2
  Leaving = TRUE
  Signals = TRUE
SPECIFICATION ServerSpec
SYMMETRY Alike
CHECK_DEADLOCK FALSE
INVARIANTS
  ServerTypeOK
  RegisteredOnce
  ReadsOnlyReady
  NoWaiterForgotten

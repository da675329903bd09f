CONSTANTS
  Accounts = {"anna", "ben"}
  NoAccount = "nobody"
  Sizes = {0, 4}
  MaxPayload = 2
  MaxRequests = 4
  MaxBroadcasts = 1
  Ending = TRUE
SPECIFICATION Spec
CHECK_DEADLOCK FALSE
INVARIANTS
  LagsByBroadcasts
  ActsAsLoggedIn
PROPERTIES
  ReadReturns

CONSTANTS
  alice = alice
  bob = bob
  knife = knife
  rifle = rifle
  Items = {knife, rifle}
  Users = {alice, bob}
  Workers = {w1}
  MaxTrades = 2
  MaxRequests = 4
  Balances = {1, 2}
  Offers <- SerialOffers
  Opening <- NoOpening2
  QuestTarget = 2
  Faults = TRUE
  Crashes = TRUE
SPECIFICATION Spec
CHECK_DEADLOCK FALSE
INVARIANTS
  HeldOnce
PROPERTIES
  SettlesAsAWhole

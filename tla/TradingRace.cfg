CONSTANTS
  alice = alice
  bob = bob
  knife = knife
  rifle = rifle
  Items = {knife, rifle}
  Users = {alice, bob}
  Workers = {w1, w2}
  MaxTrades = 2
  MaxRequests = 3
  Balances = {1}
  Offers <- RaceOffers
  Opening <- RaceOpening
  QuestTarget = 1
  Faults = FALSE
  Crashes = TRUE
SPECIFICATION Spec
CHECK_DEADLOCK FALSE
INVARIANTS
  TypeOK
  BalancesNeverNegative
  OpenTransactionHasOwner
PROPERTIES
  NeverPendingAgain

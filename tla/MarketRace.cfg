CONSTANTS
  alice = alice
  bob = bob
  carol = carol
  knife = knife
  rifle = rifle
  Users = {alice, bob, carol}
  Items = {knife, rifle}
  Workers = {w1, w2}
  MaxListings = 2
  MaxRequests = 3
  Kinds = {"list", "buy"}
  Prices = {20}
  Opening <- KnifeOnSale
  Holder <- Holding
  Purse <- Purses
  QuestTarget = 5
  Faults = TRUE
  Crashes = TRUE
SPECIFICATION Spec
CHECK_DEADLOCK FALSE
INVARIANTS
  TypeOK
  BalancesNeverNegative
  TransactionsExclusive
PROPERTIES
  SaleIsWhole

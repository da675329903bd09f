CONSTANTS
  alice = alice
  bob = bob
  carol = carol
  knife = knife
  rifle = rifle
  Users = {alice, bob, carol}
  Items = {knife, rifle}
  Workers = {w1}
  MaxListings = 3
  MaxRequests = 4
  Kinds = {"list", "buy", "remove"}
  Prices = {20}
  Opening <- KnifeOnSale
  Holder <- Split
  Purse <- Purses
  QuestTarget = 2
  Faults = FALSE
  Crashes = FALSE
SPECIFICATION Spec
CHECK_DEADLOCK FALSE
INVARIANTS
  MoneyAccounted
  PurchasesCount

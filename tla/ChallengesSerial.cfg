CONSTANTS
  Workers = {w1}
  Users = {"anna", "ben"}
  Nobody = "nobody"
  Skins = {"glock", "knife"}
  RarityOf <- Rarity
  BasePrice <- Base
  RarityMultiplier <- ByRarity
  Wears = {"worn"}
  WearMultiplier <- ByWear
  Purse <- Purses
  Cases = {1}
  CaseSkins <- Content
  CasePrice <- Prices
  Dice = {0, 26}
  MaxItems = 2
  MaxChallenges = 1
  QuestTarget = 2
  Hours <- ThreeInstants
  Kinds = {"unbox", "create", "accept", "progress", "complete", "cancel"}
  MaxRequests = 5
  MaxMishaps = 1
  Faults = TRUE
SPECIFICATION Spec
CHECK_DEADLOCK FALSE
INVARIANTS
  BalancesNeverNegative
  TransactionsExclusive
  VotesDecide
PROPERTIES
  FinalIsFinal
  RewardWithCompletion
  PenaltyAfterADay
  UnboxIsWhole

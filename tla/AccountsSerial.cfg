CONSTANTS
  Workers = {w1}
  Names = {"anna", "ben"}
  NoName = ""
  MaxUsers = 2
  MaxQuests = 6
  QuestTypes = 2
  Target <- Targets
  QuestReward <- Rewards
  Achievements = {1}
  AchievementReward <- Trophies
  DayReward <- Week
  Hours <- Days3
  Kinds = {"register", "login", "logout", "progress", "quest", "unlock", "achievement", "daily"}
  MaxRequests = 4
  MaxMishaps = 1
  Faults = TRUE
  Clobbered = FALSE
SPECIFICATION Spec
CHECK_DEADLOCK FALSE
INVARIANTS
  TransactionsExclusive
  AccountsEquipped
PROPERTIES
  TokensUnshared
  QuestsLastADay
  BookKept

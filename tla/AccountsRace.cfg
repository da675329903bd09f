CONSTANTS
  Workers = {w1, w2}
  Names = {"anna"}
  NoName = ""
  MaxUsers = 1
  MaxQuests = 2
  QuestTypes = 2
  Target <- Targets
  QuestReward <- Rewards
  Achievements = {1}
  AchievementReward <- Trophies
  DayReward <- Week
  Hours <- Instant
  Kinds = {"register", "progress", "quest"}
  MaxRequests = 4
  MaxMishaps = 0
  Faults = FALSE
  Clobbered = FALSE
SPECIFICATION Spec
CHECK_DEADLOCK FALSE
INVARIANTS
  ClaimedIsPaid

CONSTANTS
  Workers = {w1, w2, w3}
  Jobs = {j1, j2}
  QueueSize = 3
  CreateFails = TRUE
SPECIFICATION FairSpec
CHECK_DEADLOCK FALSE
INVARIANTS
  TypeOK
  NoJobAmongSleepers
  SleepsOnlyWhenFull
  DrainedBeforeExit
PROPERTIES
  ImplementsQueue
  ShutdownReturns
  JobAccepted

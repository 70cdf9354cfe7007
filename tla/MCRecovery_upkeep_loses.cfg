SPECIFICATION Spec
CONSTANTS
  NumPackets = 3
  MaxRounds = 5
  QueueCapacity = 3
  Commands <- Upkeep
  SlaveKeepsUp = TRUE
  MasterIsLast = TRUE
  LossyReplay = FALSE
  LateAnswers = FALSE
  MasterMayFail = FALSE
  StopOnFailure = TRUE
CHECK_DEADLOCK FALSE
INVARIANT NothingLost

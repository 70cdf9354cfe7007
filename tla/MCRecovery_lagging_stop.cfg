SPECIFICATION Spec
CONSTANTS
  NumPackets = 2
  MaxRounds = 5
  QueueCapacity = 2
  Commands <- Failover
  SlaveKeepsUp = FALSE
  MasterIsLast = TRUE
  LossyReplay = FALSE
  LateAnswers = FALSE
  MasterMayFail = TRUE
  StopOnFailure = TRUE
CHECK_DEADLOCK FALSE
INVARIANT NothingStranded

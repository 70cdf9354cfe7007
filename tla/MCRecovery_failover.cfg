SPECIFICATION Spec
CONSTANTS
  NumPackets = 3
  MaxRounds = 6
  QueueCapacity = 3
  Commands <- Failover
  SlaveKeepsUp = TRUE
  MasterIsLast = TRUE
  LossyReplay = TRUE
  LateAnswers = TRUE
  MasterMayFail = TRUE
  StopOnFailure = TRUE
CHECK_DEADLOCK FALSE
INVARIANT NothingLost
INVARIANT NothingStranded
INVARIANT ReplaysWithPals
INVARIANT ReplayedOnce

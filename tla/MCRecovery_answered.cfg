SPECIFICATION FairSpec
CONSTANTS
  NumPackets = 3
  MaxRounds = 8
  QueueCapacity = 3
  Commands <- StopOnly
  SlaveKeepsUp = TRUE
  MasterIsLast = TRUE
  LossyReplay = FALSE
  LateAnswers = TRUE
  MasterMayFail = TRUE
  StopOnFailure = TRUE
CHECK_DEADLOCK FALSE
PROPERTY StopAnswered

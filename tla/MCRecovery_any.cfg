SPECIFICATION Spec
CONSTANTS
  NumPackets = 2
  MaxRounds = 3
  QueueCapacity = 2
  Commands <- AnyCommand
  SlaveKeepsUp = FALSE
  MasterIsLast = TRUE
  LossyReplay = TRUE
  LateAnswers = TRUE
  MasterMayFail = TRUE
  StopOnFailure = FALSE
CHECK_DEADLOCK FALSE
INVARIANT TypeOK
INVARIANT PacketAvailable
PROPERTY ClearKeepsUnreplayed

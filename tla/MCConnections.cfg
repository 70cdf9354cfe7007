SPECIFICATION MCSpec
CONSTANTS
  NumHosts = 2
  NumSockets = 2
  MaxConnects = 2
  MaxRequests = 4
  MaxPieces = 2
  MaxReplays = 3
  MaxReplayed = 2
CHECK_DEADLOCK FALSE
INVARIANT TypeOK
INVARIANT OneThreadPerHost
INVARIANT OnlyDeleterUses
INVARIANT AnswersInStep
INVARIANT ReplayedInOrder
PROPERTY ClientsServed
PROPERTY ReplaysAreRead

SPECIFICATION FairSpec
CONSTANTS
  ReportedLinks <- Links
  hostsThatSendPackets <- Senders
  middleboxToSwitchMapping <- Mbs
  masterToSlave <- Slaves
  FrontEnds = {fe1, fe2}
  Requests <- MCRequests
  MaxRefused = 1
  MaxPrompts = 4
  Careful = TRUE
CHECK_DEADLOCK FALSE
INVARIANT TypeOK
INVARIANT Steered
INVARIANT NoStrayRules
INVARIANT PcidsKnown
INVARIANT ReplacedEverywhere
PROPERTY FirstAnswered

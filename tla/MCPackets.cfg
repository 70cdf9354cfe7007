SPECIFICATION MCSpec
CONSTANTS
  MaxMasterLen = 4
  MaxSlaveLen = 4
  MasterLists <- MCMasterLists
  SlaveLists <- MCSlaveLists
  Producers = {2, 3}
  Starts <- MCStarts
  MaxPackets = 4
  MaxVersion = 30
CHECK_DEADLOCK FALSE
INVARIANT FirstVersionsAgree
INVARIANT UnprocessedAgree
INVARIANT CommonAgree
INVARIANT NeverOmitted
INVARIANT CountMatchesNames
INVARIANT ReadsStoredId
INVARIANT BasesDistinct

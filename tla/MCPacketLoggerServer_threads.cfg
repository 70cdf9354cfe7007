SPECIFICATION Spec
CONSTANTS
  NumBases = 2
  NumVersions = 3
  MaxIds = 2
  Addresses = {a1, a2, a3}
  InOrder = FALSE
  ManagerWaits = TRUE
SYMMETRY AddressSymmetry
INVARIANT TypeOK
INVARIANT NoUseOfFreed
INVARIANT NoLeak
INVARIANT LocksReleased
INVARIANT AnsweredStays
INVARIANT ReplayComplete
PROPERTY ImplementsPacketStore

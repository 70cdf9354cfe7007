SPECIFICATION Spec
CONSTANTS
  NumBases = 2
  NumVersions = 2
  MaxIds = 1
  Addresses = {a1, a2, a3}
  InOrder = TRUE
  ManagerWaits = FALSE
INVARIANT NeverPartial

CONSTANTS
  Endpoints <- MCEndpoints
  Listens = "v4"
  MaxTransfer = 2
  Capacity = 2
  Sizes = {0, 1, 3}
  MaxConnects = 3
  MaxBytes = 4
  Resets = TRUE
SPECIFICATION FairSpec
INVARIANTS WritesArrive OneConnectionOpen
PROPERTIES ConnectReaches WriteReturns EndIsSeen

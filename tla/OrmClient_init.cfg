CONSTANTS
  c1 = c1
  c2 = c2
  i1 = i1
  v1 = v1
  v2 = v2
  NoClient = NoClient
  None = None
  Clients <- MCClients
  IDs <- MCIDs
  Values <- MCValues
  MinEpoch = 1
  MaxCalls = 3
  MaxFaults = 0
SPECIFICATION Spec
SYMMETRY Symmetry
INVARIANT
  InitializeEpochSucceeds
CHECK_DEADLOCK FALSE

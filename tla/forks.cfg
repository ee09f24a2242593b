SPECIFICATION BESpec
CONSTANTS
  GenesisTime = 100
  None = None
  Values = {0, 1, 2}
  GasLimits = {150, 900}
  MaxWrites = 4
  NoTx = NoTx
  Geneses <- MCGeneses
  TargetBlobs = 1
  MaxBlobs = 2
  BlobCounts = {0, 2}
  MaxNumber = 9
  Gaps = {1, 2}
INVARIANTS
  NetMetering
  RoutesAgree
  CodeFollowsTheFork
  PeersOfOneChainMeet
  StalePeersPart
CHECK_DEADLOCK FALSE

CONSTANTS
  v1 = v1  v2 = v2  v3 = v3  c1 = c1
  NoAddress = NoAddress
  Validators <- MCValidators
  Contracts <- MCContracts
  Sets <- SetsPosdao
  PosdaoTransition = 1
  ParisBlock = 20
  GenesisActive <- GenesisTwo
  Unfinalized <- None
  NewSets <- Reordered
  EventSources <- ReceiptsOnly
  Eager <- None
  Quiet <- None
  MaxBlock = 6
  MaxFailures = 1
  Outsiders <- None
  Lookback = 4
  GenesisAuthor = genesisAuthor
  Pruned <- None
  AnyWindow = FALSE
  MaxRestarts = 1
SPECIFICATION RecoverySpec
CHECK_DEADLOCK FALSE
INVARIANTS RecoveryIsExact
PROPERTY CallSurvivesRestart

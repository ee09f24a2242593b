CONSTANTS
  v1 = v1  v2 = v2  v3 = v3  c1 = c1  c2 = c2
  NoAddress = NoAddress
  Validators <- MCValidators
  Contracts <- MCContracts
  Sets <- SetsPosdao
  PosdaoTransition = 1
  ParisBlock = 9
  GenesisActive <- GenesisThree
  Unfinalized <- None
  NewSets <- Reshapes
  EventSources <- RewardOnly
  Eager <- Overlapping
  Quiet <- None
  MaxBlock = 6
  MaxFailures = 0
  Outsiders <- None
SPECIFICATION Spec
CHECK_DEADLOCK FALSE
INVARIANTS TypeOK WindowIsRecent
PROPERTY ImplementsChange

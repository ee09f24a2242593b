CONSTANTS
  v1 = v1  v2 = v2  v3 = v3  c1 = c1  c2 = c2
  NoAddress = NoAddress
  Validators <- MCValidators
  Contracts <- MCContracts
  Sets <- SetsPosdao
  PosdaoTransition = 1
  ParisBlock = 4
  GenesisActive <- GenesisThree
  Unfinalized <- None
  NewSets <- Shrinks
  EventSources <- RewardOnly
  Eager <- None
  Quiet <- None
  MaxBlock = 4
  MaxFailures = 1
  Outsiders <- None
SPECIFICATION Spec
CHECK_DEADLOCK FALSE
INVARIANT NoChangeIsLost

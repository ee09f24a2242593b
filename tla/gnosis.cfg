CONSTANTS
  v1 = v1  v2 = v2  v3 = v3  c1 = c1  c2 = c2
  NoAddress = NoAddress
  Validators <- MCValidators
  Contracts <- MCContracts
  Sets <- SetsGnosis
  PosdaoTransition = 5
  ParisBlock = 8
  GenesisActive <- GenesisApart
  Unfinalized <- OnlyC1
  NewSets <- Rotates
  EventSources <- RewardOnly
  Eager <- AtCall
  Quiet <- AtTurns
  MaxBlock = 8
  MaxFailures = 0
  Outsiders <- OutsiderV1
SPECIFICATION Spec
CHECK_DEADLOCK FALSE
INVARIANTS CallsAreJustified NoChangeIsLost TrackerFollowsContract PendingIsTracked

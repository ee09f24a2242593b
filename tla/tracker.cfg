CONSTANTS
  v1 = v1  v2 = v2  v3 = v3  c1 = c1  c2 = c2
  NoAddress = NoAddress
  Validators <- MCValidators
  Contracts <- MCContracts
  Vectors <- MCVectors
  MaxBlock = 1
  MaxWindow = 4
SPECIFICATION Spec
INVARIANTS TypeOK WindowBelowMajority CensusExact PushIsTheLoop
PROPERTY NothingVanishes

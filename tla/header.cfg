CONSTANTS
  v1 = v1  v2 = v2  v3 = v3  c1 = c1
  NoAddress = NoAddress
  Signers <- MCSigners
  Sets <- MCSets
  ParisBlock = 5
  HasAuraConfig = TRUE
  MaxStep = 4
  MaxU128 = 6
  U256Size = 32
  GenesisDifficulty = 2
  Difficulties <- MCDifficulties
  MaxHeaders = 7
SPECIFICATION Spec
CHECK_DEADLOCK FALSE
INVARIANTS TypeOK PhaseIsMonotonic ScoreOrdersBranches SlotsRotate RoundsAreFair

SPECIFICATION PBSpec
CONSTANTS
  Accounts <- MCAccounts
  SystemAddress = "system"
  FeeCollector = "collector"
  Contracts = {"contract"}
  Deployed = {"contract"}
  Transactions <- MCTransactions
  Forks <- MCForks
  BlockGasLimit = 4
  BaseFeePerGas = 2
  BlobPrice = 1
  GenesisBalance <- MCGenesisBalance
  Rewards <- MCRewards
  Coinbases = {"author"}
  Payouts = {}
  RewardTransitions <- NoTransitions
  BlockRewardsAddress = "contract"
  DepositContract = "contract"
  HistoryContract = "contract"
  RootsContract = "contract"
  RequestsContract = "contract"
  None = None
  MaxBlobCount = 2
  MaxBlockSize = 2
  Beneficiaries = {"author", "ben"}
INVARIANTS
  TypeOK
  BuilderAgreesWithExecutor
  FeesAreEarned
  BestPayloadIsValid
CHECK_DEADLOCK FALSE

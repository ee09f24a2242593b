SPECIFICATION Spec
CONSTANTS
  Accounts <- MCAccounts
  SystemAddress = "system"
  FeeCollector = "collector"
  Contracts <- MCContracts
  Deployed <- MCDeployed
  Transactions <- MCTransactions
  Forks <- MCForks
  Coinbases = {"author", "reward"}
  BlockGasLimit = 4
  BaseFeePerGas = 2
  BlobPrice = 1
  GenesisBalance <- MCGenesisBalance
  Rewards <- MCRewards
  Payouts <- MCPayouts
  RewardTransitions <- MCRewardTransitions
  BlockRewardsAddress = "no_reward"
  DepositContract = "deposit"
  HistoryContract = "roots"
  RootsContract = "roots"
  RequestsContract = "roots"
  None = None
INVARIANTS
  SupplyIsAccounted
  RewardsAreRecorded
PROPERTIES
  SystemAccountIsKept
CHECK_DEADLOCK FALSE

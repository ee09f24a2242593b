--------------------------- MODULE BlockExecution ---------------------------
(***************************************************************************)
(* Executing a block: its system calls, its transactions and the routing   *)
(* of their fees (src/block.rs, src/evm/gnosis_evm.rs, src/evm_config.rs,  *)
(* src/gnosis.rs).                                                         *)
(*                                                                         *)
(* A transaction is a record of what decides its fees: sender, nonce,      *)
(* whether it is a dynamic-fee transaction, price (its gas price, or its   *)
(* maximal fee per gas), tip (its maximal priority fee, 0 when it has      *)
(* none), gas limit, the gas it uses, its blobs, and a transfer.  What     *)
(* else it does in the EVM is left out.  The validator calls of AuRa are   *)
(* in AuraExecution, the bytecode rewrites in BlockEnvironment.            *)
(***************************************************************************)
EXTENDS SystemCalls, Sequences, SequencesExt

CONSTANTS Transactions,   \* the transactions that senders may sign
          Forks,          \* the fork each block of the chain is in
          Coinbases,      \* the beneficiaries of blocks
          BlockGasLimit,
          BaseFeePerGas,  \* the base fee of the blocks from London on
          BlobPrice,
          GenesisBalance,
          Rewards,        \* what the reward contract may answer, by receiver
          Payouts,        \* what the deposit contract may pay, by receiver
          RewardTransitions,    \* block_reward_contract_transitions
          BlockRewardsAddress,  \* blockRewardsContract, their default
          DepositContract,
          HistoryContract,      \* called before the transactions from Prague on
          RootsContract,        \* called before them from Cancun on
          RequestsContract,     \* called after them from Prague on
          None

ForkOrder == <<"berlin", "london", "paris", "shanghai", "cancun", "prague", "osaka">>

TransactionType ==
  [from : Accounts, nonce : Nat, dynamic : BOOLEAN, price : Nat, tip : Nat,
   limit : Nat, used : Nat, blobs : Nat, to : Accounts \cup {None}, value : Nat]

ASSUME BlockExecutionAssumption ==
  /\ \A tx \in Transactions : /\ tx \in TransactionType
                              /\ tx.used <= tx.limit
                              /\ ~tx.dynamic => tx.tip = 0 /\ tx.blobs = 0
                              /\ tx.from # SystemAddress
                              /\ tx.to = None => tx.value = 0
  /\ Forks \in Seq(Range(ForkOrder))
  /\ Coinbases \subseteq Accounts
  /\ {BlockGasLimit, BaseFeePerGas, BlobPrice} \subseteq Nat
  /\ GenesisBalance \in [Accounts -> Nat]
  /\ Rewards \cup Payouts \subseteq [Accounts -> Nat]
  /\ DOMAIN RewardTransitions \subseteq Nat
  /\ Range(RewardTransitions) \cup {BlockRewardsAddress} \subseteq Contracts
  /\ {DepositContract, HistoryContract, RootsContract, RequestsContract} \subseteq Contracts
  /\ None \notin Accounts

VARIABLES number,   \* the blocks of the chain
          world,    \* the state after them
          block,    \* the block under execution, or None
          ledger    \* history: the money that came and went

execVars == <<number, world, block, ledger>>

-----------------------------------------------------------------------------
(* Forks and prices.                                                       *)

Active(f, since) ==
  \E i, j \in DOMAIN ForkOrder :
    i <= j /\ ForkOrder[i] = since /\ ForkOrder[j] = f

IsPreMerge(f) == ~Active(f, "paris")

BaseFee(f) == IF Active(f, "london") THEN BaseFeePerGas ELSE 0

\* get_cfg_env drops the base-fee check of the blocks that may hold service
\* transactions, for every transaction they hold.
ChecksBaseFee(f) == ~(IsPreMerge(f) /\ Active(f, "london"))

EffectiveGasPrice(tx, f) ==
  IF tx.dynamic THEN Min({tx.price, BaseFee(f) + tx.tip}) ELSE tx.price

BlobFee(tx) == tx.blobs * BlobPrice

\* A transaction that names no price at all.
IsFree(tx) == tx.price = 0 /\ tx.tip = 0

-----------------------------------------------------------------------------
(* One transaction.                                                        *)

\* What the EVM asks of a transaction before it runs it.
NonceTooLow(w, tx) == tx.nonce < w.nonce[tx.from]

ValidateTransaction(w, tx, f) ==
  /\ tx.dynamic => Active(f, "london")
  /\ tx.blobs > 0 => Active(f, "cancun")
  /\ ChecksBaseFee(f) => tx.price >= BaseFee(f)
  /\ tx.tip <= tx.price
  /\ tx.nonce = w.nonce[tx.from]
  /\ w.balance[tx.from] >= tx.limit * tx.price + BlobFee(tx) + tx.value

\* Slip: the blob fee reaches the collector from Cancun on.
DeductCallerSinceCancun(balance, tx, f) ==
  LET charged == [balance EXCEPT ![tx.from] =
                    @ - tx.used * EffectiveGasPrice(tx, f) - BlobFee(tx)]
  IN  IF Active(f, "cancun")
      THEN [charged EXCEPT ![FeeCollector] = @ + BlobFee(tx)]
      ELSE charged

\* The sender pays for the gas it will have used (the EVM charges the limit
\* and hands back the rest) and for its blobs; from Prague on the collector
\* gets the blob fee.
DeductCaller(balance, tx, f) ==
  LET charged == [balance EXCEPT ![tx.from] =
                    @ - tx.used * EffectiveGasPrice(tx, f) - BlobFee(tx)]
  IN  IF Active(f, "prague")
      THEN [charged EXCEPT ![FeeCollector] = @ + BlobFee(tx)]
      ELSE charged

\* The part of the price that is the beneficiary's; it saturates at zero.
CoinbaseGasPrice(tx, f) == Max({0, EffectiveGasPrice(tx, f) - BaseFee(f)})

\* The beneficiary is paid its part and the collector the base fee, unless
\* the transaction is free.
RewardBeneficiary(balance, tx, f, coinbase) ==
  LET tipped == [balance EXCEPT ![coinbase] = @ + tx.used * CoinbaseGasPrice(tx, f)]
  IN  IF Active(f, "london") /\ ~IsFree(tx)
      THEN [tipped EXCEPT ![FeeCollector] = @ + tx.used * BaseFee(f)]
      ELSE tipped

Transfer(balance, tx) ==
  IF tx.to = None THEN balance
  ELSE [[balance EXCEPT ![tx.from] = @ - tx.value] EXCEPT ![tx.to] = @ + tx.value]

\* A transaction that touches SYSTEM_ADDRESS and leaves it empty purges it.
Transact(w, tx, f, coinbase) ==
  LET balance == RewardBeneficiary(DeductCaller(Transfer(w.balance, tx), tx, f),
                                   tx, f, coinbase)
  IN  [w EXCEPT !.balance = balance,
                !.nonce[tx.from] = @ + 1,
                !.present = IF SystemAddress \in {tx.to, coinbase}
                            THEN balance[SystemAddress] > 0 ELSE @]

-----------------------------------------------------------------------------
(* A block under execution.                                                *)

ContractCalled(w, contract, coinbase) ==
  SystemCallAndCommit(w, contract,
    Effect(IF contract \in Deployed THEN 1 ELSE 0, Nothing), coinbase)

\* apply_pre_execution_changes, as far as it does not concern validators: the
\* block hashes and the beacon root.
ApplyPreExecutionChanges(w, f, coinbase) ==
  LET hashed == IF Active(f, "prague")
                THEN ContractCalled(w, HistoryContract, coinbase) ELSE w
  IN  IF Active(f, "cancun")
      THEN ContractCalled(hashed, RootsContract, coinbase) ELSE hashed

NewBlock(f, coinbase) ==
  [fork |-> f, coinbase |-> coinbase,
   world |-> ApplyPreExecutionChanges(world, f, coinbase),
   gas |-> 0, blobs |-> 0, txs |-> <<>>]

HasGasFor(b, tx) == tx.limit <= BlockGasLimit - b.gas

Executable(b, tx) == HasGasFor(b, tx) /\ ValidateTransaction(b.world, tx, b.fork)

\* execute_transaction_without_commit and commit_transaction.
CommitTransaction(b, tx) ==
  [b EXCEPT !.world = Transact(@, tx, b.fork, b.coinbase),
            !.gas   = @ + tx.used,
            !.blobs = @ + (IF Active(b.fork, "cancun") THEN tx.blobs ELSE 0),
            !.txs   = Append(@, tx)]

\* The reward contract in force: the last transition, or the default.
RewardContractAt(n) ==
  LET past == {b \in DOMAIN RewardTransitions : b <= n}
  IN  IF past = {} THEN BlockRewardsAddress ELSE RewardTransitions[Max(past)]

\* apply_post_block_system_calls, after the requests of Prague: from Shanghai
\* on the withdrawals go to the deposit contract, and the reward contract is
\* called last.
PostBlockSystemCalls(b, n, payout, rewards) ==
  LET requested == IF Active(b.fork, "prague")
                   THEN ContractCalled(b.world, RequestsContract, b.coinbase)
                   ELSE b.world
      withdrawn == IF Active(b.fork, "shanghai")
                   THEN SystemCallAndCommit(requested, DepositContract,
                          Effect(IF DepositContract \in Deployed THEN 1 ELSE 0, payout),
                          b.coinbase)
                   ELSE requested
  IN  RewardCall(withdrawn, RewardContractAt(n), rewards, b.coinbase)

\* What the deposit contract can pay: nothing without code or balance, nor to
\* an account that the clean-up of a system call takes out of the diff.
CanPay(b, payout) ==
  payout # Nothing =>
    /\ Active(b.fork, "shanghai") /\ DepositContract \in Deployed
    /\ b.world.balance[DepositContract] >= Total(payout)
    /\ \A a \in {SystemAddress, FeeCollector, b.coinbase} : payout[a] = 0
    /\ DepositContract # b.coinbase

\* The blob fees of a transaction that nobody is paid.
BurntBy(f, tx) == IF Active(f, "prague") THEN 0 ELSE BlobFee(tx)

\* The base fee that the collector is credited with and the sender not charged:
\* of a transaction below the base fee, where that is not checked.
UnpaidBy(f, tx) ==
  IF Active(f, "london") /\ ~IsFree(tx)
  THEN tx.used * Max({0, BaseFee(f) - EffectiveGasPrice(tx, f)}) ELSE 0

SumOver(Amount(_, _), b) ==
  FoldLeft(LAMBDA total, tx : total + Amount(b.fork, tx), 0, b.txs)

\* The finished block becomes the head.
Adopt(b, payout, rewards) ==
  LET outcome == PostBlockSystemCalls(b, number + 1, payout, rewards)
  IN  /\ CanPay(b, payout)
      /\ number' = number + 1
      /\ world' = IncrementBalances(outcome.world, outcome.rewards)
      /\ ledger' = [issued |-> ledger.issued + Total(outcome.rewards),
                    burnt  |-> ledger.burnt + SumOver(BurntBy, b),
                    unpaid |-> ledger.unpaid + SumOver(UnpaidBy, b)]

NextFork == Forks[number + 1]

-----------------------------------------------------------------------------
(* The executor on its own: blocks that others have built.                 *)

Init ==
  /\ number = 0
  /\ world = [balance |-> GenesisBalance, nonce |-> Nothing,
              storage |-> [c \in Contracts |-> 0], present |-> FALSE]
  /\ block = None
  /\ ledger = [issued |-> 0, burnt |-> 0, unpaid |-> 0]

OpenBlock(coinbase) ==
  /\ block = None /\ number < Len(Forks)
  /\ block' = NewBlock(NextFork, coinbase)
  /\ UNCHANGED <<number, world, ledger>>

ExecuteTransaction(tx) ==
  /\ block # None /\ Executable(block, tx)
  /\ block' = CommitTransaction(block, tx)
  /\ UNCHANGED <<number, world, ledger>>

\* An invalid transaction, a system call that fails, or one of the deposit or
\* reward contract that reverts, ends the block: nothing of it is kept, the
\* calls that were committed before included.
FailBlock ==
  /\ block # None
  /\ block' = None
  /\ UNCHANGED <<number, world, ledger>>

FinishBlock(payout, rewards) ==
  /\ block # None
  /\ Adopt(block, payout, rewards)
  /\ block' = None

Next ==
  \/ \E a \in Coinbases : OpenBlock(a)
  \/ \E tx \in Transactions : ExecuteTransaction(tx)
  \/ FailBlock
  \/ \E payout \in Payouts, rewards \in Rewards : FinishBlock(payout, rewards)

Spec == Init /\ [][Next]_execVars

-----------------------------------------------------------------------------
Supply(w) == Total(w.balance)

\* Money appears only as the reward contract mints it and disappears only as
\* blob fees of the time before Prague: what senders pay for gas (deducted by
\* revm) is exactly what the beneficiary (revm) and the fee collector
\* (GnosisEvmHandler::reward_beneficiary) receive, what the deposit contract
\* pays arrives although system calls are cleaned up, and from Prague on blob
\* fees reach the collector.  One thing is added to that: before the merge a
\* transaction below the base fee makes the collector's part out of nothing.
SupplyIsAccounted ==
  Supply(world) = Total(GenesisBalance) + ledger.issued - ledger.burnt + ledger.unpaid

RewardContracts == Range(RewardTransitions) \cup {BlockRewardsAddress}

\* The rewards that accounts were credited with (increment_balances) are those
\* that the reward contracts have in their storage: apply_block_rewards_contract_call
\* pays if and only if it commits, also when the beneficiary of the block is the
\* contract itself and the clean-up drops it.
RewardsAreRecorded ==
  ledger.issued =
    MapThenSumSet(LAMBDA c : world.storage[c],
                  RewardContracts \ {DepositContract, HistoryContract, RootsContract,
                                     RequestsContract})

\* The block ends with a system call that is committed and leaves SYSTEM_ADDRESS.
EndsWithCall(b, n) ==
  /\ b.coinbase # SystemAddress
  /\ \/ Active(b.fork, "shanghai")
     \/ RewardContractAt(n) \in Deployed \ {b.coinbase, FeeCollector}

\* SYSTEM_ADDRESS stays in the state as it was, whatever transactions do to it
\* (transact_system_call, "EIP-158 disabled for system calls"): its nonce is
\* never raised, and a block that ends with a committed system call leaves it
\* there even if a transaction has purged it.
SystemAccountIsKept ==
  [][/\ world'.nonce[SystemAddress] = 0
     /\ number' # number /\ block # None /\ EndsWithCall(block, number')
        => world'.present]_execVars
=============================================================================

# TLA+ development of reth_gnosis

Specifications, model-checking configurations and machine-checked proofs for
reth_gnosis, an execution client for the Gnosis and Chiado chains built on
reth. Paths below are relative to the repository's `src/` directory unless they
begin with `docs/`.

- [1. The system](#1-the-system)
- [2. From code to modules](#2-from-code-to-modules)
- [3. Runs](#3-runs)
- [4. Proofs](#4-proofs)
- [5. What the checks disagree with](#5-what-the-checks-disagree-with)
- [6. What is not modelled](#6-what-is-not-modelled)
- [7. Plan](#7-plan)

## 1. The system

Gnosis began as a proof-of-authority chain: until the merge its blocks are
sealed in turns by a validator set that first is a list of the chain
specification, then the storage of a contract, then that of a contract of the
POSDAO regime. Reth knows none of this. What this repository adds to it is
below; the last column says what makes the part correct.

| Component | State it keeps | Operations | What is hard | What makes it correct |
|---|---|---|---|---|
| **Rolling finality** `aura/finality.rs` | validators, window of unfinalized blocks, count per signer, pending changes, scheduled call | `push`, `set_validators`, `add_pending_transition`, `set_immediate_finalize`, `take_finalize_change`, `from_recovered` | methods called in any order under a mutex; one push pops several blocks | the window never holds a majority, counts are those of the window, no pending change disappears |
| **Validator sets** `aura/validators.rs`, `evm_config.rs` | none (chain specification) | `kind_at`, `contract_address_at`, `expected_proposer`, `compute_finalize_change_address_from_validators` | off-by-one at each activation block | seen through headers and execution |
| **AuRa block execution** `block.rs`, `evm_config.rs` | the block in progress, contract storage, the shared tracker | `context_for_block`, `apply_pre_execution_changes`, `finish` | tracker changes survive a block that fails; set, call and event each one block apart | `finalizeChange` is called when, and only when, an announced change is final; the tracker counts against the set in force |
| **Finality recovery** `aura/recovery.rs`, `lib.rs` | none; reads headers and receipts | `reconstruct_finality_state`, `build_evm` | crash at any point; 32 blocks of history stand for all of it | a restarted node makes the calls of one that never stopped |
| **AuRa headers** `aura/mod.rs`, `aura/seal.rs` | none; the tree of accepted headers | `validate_header`, `validate_header_against_parent` | steps of 256 bits, branches, changes of list, the merge | phases do not mix, difficulty is a score, slots rotate |
| **Execution and fees** `block.rs`, `evm/gnosis_evm.rs`, `gnosis.rs` | balances, gas and blob counters of a block | `execute_transaction_without_commit`, `commit_transaction`, `reward_beneficiary`, `deduct_caller`, balance increments | fees are split in three places, by fork | nothing is minted or lost on the way from payer to payee |
| **Payload builder** `payload.rs`, `payload_builder.rs` | iterator, gas, blobs, fees, sidecars; best payload | `default_ethereum_payload`, `is_better_payload` | pool and blob store change while a block is built | the node accepts its own block, with the right sidecars, and its value is true |
| **Post-merge state import** `initialize/`, `main.rs` | files, database, `imported.flag` | `download_and_import_init_state`, `ensure_state`, `import_state` | a crash or an error between any two effects on the disk | the flag tells the truth, the node never runs on half a state, and it gets there |
| **ERA import** `cli/era.rs`, `cli/import_era.rs` | database, static files, downloaded files, channel | `import`, `process`, `process_iter`, `build_index` | two tasks, restarts in the middle of a file | no gap, completion, an index of every block unless interrupted |
| **System calls** `evm/factory.rs`, `gnosis.rs` | none; the state of the block in progress | `transact_system_call`, the calls before and after the transactions, the reward call | the state diff of a call holds accounts it must not change, and EIP-161 would purge its caller | nothing but the call's own effects is committed, rewards are paid if and only if the contract has recorded them |
| **Storage gas before Istanbul** `evm/gnosis_evm.rs`, `evm_config.rs`, `evm/factory.rs` | value, gas and refund of a transaction | `sstore_eip1283`, `get_cfg_env`, `create_evm` | prices in one place, the instruction in another, neither with an upstream test | Constantinople meters net, as EIP-1283 has it |
| **Block environments** `evm_config.rs`, `build.rs`, `block.rs` | none | `evm_env`, `next_evm_env`, `evm_env_for_payload`, `context_for_*`, `assemble_block`, the rewrites of code | three routes to the environment of one block | builder and validators execute one block alike; code changes at its fork and only there |
| **Chain specification** `spec/gnosis_spec.rs`, `evm_config.rs` | none | `forks_iter`, `fork_id`, `fork_filter`, `gnosis_revm_spec` | block and time forks, several at one point, a fork of Gnosis' own | nodes of one chain meet, nodes that miss a fork part |
| Engine validator, pool, network, RPC, CLI, primitives, test harness | none of their own | glue to reth | — | not modelled |

How they interact. `lib.rs::build_evm` makes one `GnosisEvmConfig`, puts a
tracker in it behind `Arc<Mutex<..>>` (recovered or fresh), and every executor
shares it. A header is accepted by `GnosisConsensus` before its block is
executed. For an execution `context_for_block` takes the due call from the
tracker, `apply_pre_execution_changes` makes it and reads the set back, and
`finish` notes announcements and pushes the signer. All calls to contracts go
through `transact_system_call`, in an environment that `evm_config.rs` has made
of the chain specification. The payload builder drives
the same executor with transactions of the pool. The state import and the ERA
import run before the node does, on the directories it will open.

## 2. From code to modules

| Module | Models | Built on |
|---|---|---|
| `AuraAddress` | the absent address | |
| `RollingFinality` | the tracker as a value: one operator per method | `AuraAddress` |
| `FinalityTracker` | the tracker behind its mutex: any method, any argument, any order | `RollingFinality` |
| `ValidatorSet` | sets by block, proposer, boundary call | `AuraAddress` |
| `ValidatorChange` | abstract: what a change of the set promises, without a tracker | |
| `AuraExecution` | blocks through their four steps, failing and rejected blocks, the contract | `RollingFinality`, `ValidatorSet`; implements `ValidatorChange` |
| `AuraRecovery` | a crash and the replay of receipts | `AuraExecution` |
| `AuraHeader` | the tree of accepted headers | `ValidatorSet` |
| `SystemCalls` | the diff of a system call, its clean-up, the commit, the reward call | |
| `BlockExecution` | a block's system calls and transactions: gas, blobs, fees, rewards | `SystemCalls` |
| `StoreMetering` | the gas of storage writes before Istanbul | |
| `ChainForks` | the forks of a genesis, what is active where, fork identifiers | |
| `BlockEnvironment` | environments, assembled headers, rewrites of code along a chain | `ChainForks`, `StoreMetering` |
| `PayloadBuilder` | jobs, builds, pool and blob store, import of the result | `BlockExecution` |
| `InitState` | the download and import of the post-merge state | |
| `EraImport` | the import of ERA files | |
| `MC*` | values of the constants for TLC | |
| `AuraInvariant` | what tracker, block in progress and chain say about each other: the inductive invariant of the executor, in layers | `AuraExecution` |
| `RollingFinality_proofs` | lemmas about every method of the tracker | `RollingFinality` |
| `FinalityTracker_proofs`, `AuraExecution_proofs`, `AuraHeader_proofs`, `InitState_proofs`, `EraImport_proofs`, `BlockEnvironment_proofs`, `PayloadBuilder_proofs` | the theorems of section 4; `AuraExecution_proofs` also those of `AuraRecovery`, the last one also those of `BlockExecution` | the module they are named after |

`PROJECT.json` maps each definition to the lines it stands for. What follows is
how to read the larger modules against the code.

**RollingFinality.** A tracker is a record with the fields of
`RollingFinality`. `push` is a loop in the code; here `PoppedBy` is the length of
the shortest prefix of the window whose removal leaves no majority, and
`PopFinalized` is the effect of the whole loop. That closed form is what the
proofs reason with. `FinalityTracker` has both loops of the code turn by turn, as
recursive functions (`PopLoop`, `ScheduleLoop`, `PushByLoops`); the run `tracker`
checks and `PushIsAlwaysTheLoop` proves that the two agree on every tracker the
methods can produce.

**AuraExecution.** `rf` is the tracker in the shared mutex and `exec` is the
executor of a block; `contracts` is the committed storage of the validator
contracts and `chain` the committed blocks with what happened in them. One
action per step of the caller. A failure drops `exec` and keeps `rf`, as the code
does: the state changes of a block are thrown away, changes of the tracker are
not. `FailPreExecution` may come before, between or after the two changes the
code makes to the tracker there. The contract is external: an `InitiateChange`
announces a set, `finalizeChange` makes the announced set the active one and
reverts if nothing is announced, `getValidators` answers the active one. `Eager`
and `Quiet` say when it may announce (`Eager` also while another change is open,
or in the very block of its `finalizeChange`), `EventSources` where the event is
seen (receipts, or logs of the reward call), `Outsiders` who may seal without
being in a set: under a contract no code of the node compares a sealer with the
set. `push` drops a block of such a sealer, and what that means for a change the
block announced is why `NoChangeIsLost` and `PendingIsTracked` have the condition
`SealedByMember`.

**AuraRecovery.** `Restart` may happen in any phase of a block. It rebuilds the
tracker as `reconstruct_finality_state` does: start of the window, discovered
signers, then `take`, note, `push` for each block, and installs it as `build_evm`
does. `Representative` is the condition under which 32 blocks can tell what a
node that never stopped knows; it is what `RecoveryIsExact` assumes, together with
no block having failed: what a rejected block leaves in the live tracker is in no
chain.

**AuraHeader.** A header names its parent by position. A field that decides
nothing but acceptance by itself is folded into `sound`; the address recovered
from the seal is the field `signer`. A header's step is a 256-bit number on the
wire: offers go past `MaxStep`, and the difficulty is computed modulo `U256Size`.

**SystemCalls.** A state diff is a function of the accounts it touches.
`TransactedDiff` is what revm returns, `CleanUp` what `transact_system_call` makes
of it: the beneficiary and the fee collector go, `SYSTEM_ADDRESS` gets back what
it was and stays. Contracts are external: a call adds to the storage of its
contract and may pay out of its balance (`Effect`). The reward contract's storage
counts what it answered, which is what `RewardsAreRecorded` compares the credits
with. `CanPay` is what `evm/factory.rs:194` relies on: a contract pays nobody that
the clean-up takes out. No code enforces it.

**BlockExecution.** A transaction is what decides its fees and its place, and a
transfer, which may touch `SYSTEM_ADDRESS`: that account is empty, so EIP-161
purges it, and the next committed system call puts it back. What revm does is
written as the code relies on it: validation, deduction for gas used at the
effective price, the beneficiary's part saturating at zero. The calls of a block
are in the order of the code: block hashes and beacon root before the
transactions, then the requests of Prague (`RequestsContract` stands for both
request contracts), withdrawals, rewards. `ledger` is a history variable: money
`issued` by rewards, `burnt` as blob fees before Prague, and `unpaid`, the base
fee that is credited and not charged (section 5).

**StoreMetering.** One transaction that writes one slot, with the gas in
hundreds; every slot is metered by itself, so one is enough. `GasParams` is what
the configuration sets, `IsNetMetered` whether the factory replaces the
instruction, and `NetCost` what the writes should cost by the EIP.

**ChainForks.** The hash of a fork identifier is a checksum over the genesis hash
and the points applied so far; here it is the sequence of these points, which is
as injective as one takes a checksum to be. `ForkFilter` and `Accepts` are
external, alloy's rules of EIP-2124.

**BlockEnvironment.** A chain of headers of which only what environments depend
on is kept. The next header is what consensus accepts; the properties compare
with it what each route would have made at that block. The header of the parent
may be found or not, in which case its time is zero (`ParentTimestamp`).
`GenesesAssumption` states what the code relies on and the shipped specifications
have: forks listed in the order of their points, time forks after genesis, block
forks not after the merge and, as every block, at a number below the time of
genesis, no Prague without Cancun, a rewrite of AuRa before the merge, and a last
reward override that is the default contract and not after the merge.

**PayloadBuilder.** The `best` payload
of a job is what `is_better_payload` keeps. A builder takes a snapshot of what
the pool offers at its start; the pool and the blob store then change under it.
From Osaka on the code limits the encoded size of a block, which is modelled
with every transaction of size one. The blob limit is the protocol's: the node's
builder configuration sets no lower one. Builder and executor use one
environment here, as in the code.

**InitState.** One action between two effects on the disk, and a crash at each
of them. A file is absent, bad or good, and the checks of the code are about
just that. Where the code drops the error of a removal (`.ok()`), the file may
stay and the import goes on. `Forgets` says whether the operator may start the node without the
option after a half import.

**EraImport.** `job` is the process (both tasks and the channel), the other
variables are on disk. Numbers of blocks are small and file boundaries are where
the code has them. `ERA_STEP` is the number of blocks of a file and
`height..=height + ERA_STEP` has both ends, so the range covers one block more
than a file holds.

**Slips.** An operator with a comment that begins with "slip" is not part of the
model. It is the form a definition after it would have after a plausible
mistake. Each property of a passing run is paired with one in `PROJECT.json`
("mutants"): with the slip in place of the definition, that run refutes that
property. It shows the property is about the code and not about the model.

## 3. Runs

`tlc -config <name>.cfg <module>`. Deadlock is not checked where the system may
really stop or a bound ends it; `CHECK_DEADLOCK FALSE` is in those files.

| Run | Module | Properties | States | Shows |
|---|---|---|---|---|
| `tracker` | `MCFinalityTracker` | `TypeOK` `WindowBelowMajority` `CensusExact` `PushIsTheLoop` `NothingVanishes` | 70,974 | the tracker under any use |
| `posdao` | `MCAuraExecution` | `TypeOK` `WindowIsRecent` `ImplementsChange` | 106,959 | the life of overlapping changes, and that execution implements the abstract one |
| `gnosis` | `MCAuraExecution` | `CallsAreJustified` `NoChangeIsLost` `TrackerFollowsContract` `PendingIsTracked` | 669,755 | list, contract, POSDAO, merge in one chain, with a sealer the set no longer has |
| `recovery` | `MCAuraRecovery` | `RecoveryIsExact` `CallSurvivesRestart` | 128,812 | restarts, and one failed or rejected block |
| `header` | `MCAuraHeader` | `TypeOK` `PhaseIsMonotonic` `ScoreOrdersBranches` `SlotsRotate` `RoundsAreFair` | 19,217 | all trees of up to seven headers |
| `payload` | `MCPayloadBuilder` | `TypeOK` `BuilderAgreesWithExecutor` `FeesAreEarned` `BestPayloadIsValid` | 113,386 | building under a changing pool, Cancun then Osaka |
| `execution` | `MCBlockExecution` | `SupplyIsAccounted` `RewardsAreRecorded` `SystemAccountIsKept` | 30,970 | blocks of every fork from Berlin to Prague with their system calls |
| `forks` | `MCBlockEnvironment` | `NetMetering` `RoutesAgree` `CodeFollowsTheFork` `PeersOfOneChainMeet` `StalePeersPart` | 18,380 | every chain of four specifications |
| `initstate` | `InitState` | `TypeOK` `FlagMeansImported` `NodeRunsOnWholeState` `VerifiedDownloadIsKept` `EventuallyRuns` | 466 | three faults anywhere |
| `eraimport` | `EraImport` | `TypeOK` `FilesFollowOn` `IndexedUnlessInterrupted` `EventuallyImported` | 2,320 | two interruptions anywhere |
| `retry` | `MCAuraExecution` | `NoChangeIsLost`, violated | | section 5 |
| `recreward` | `MCAuraRecovery` | `RecoveryIsExact`, violated | | section 5 |

### Bounds

- `tracker`: three signers, two contracts, block numbers 0 and 1, at most four
  headers in the window. The tracker compares block numbers only for equality
  and with the target of a call, so two numbers give every coincidence (equal,
  before, after), and four headers over three validators pass the majority with
  a signer that repeats. The vectors include an empty one and one with a
  repetition. The proofs of section 4 need none of these bounds.
- `posdao`: six blocks and sets of three, two and one validators, whose majorities
  differ. A change needs its announcement, a majority (at most two blocks) and its
  call; six blocks hold one whole change and a second one that overlaps it. No
  block fails here: the properties that relate the window to the chain are about
  blocks that succeed.
- `gnosis`: eight blocks: the boundary call at 2, pre-POSDAO changes, the switch
  of contract and regime at 5, two POSDAO blocks with a change in progress, and
  the merge at 8. Blocks 1 and 4 announce nothing (`Quiet <- AtTurns`), the block
  before the boundary call and the one before the switch: the next block would
  answer with the call, or the set, of another contract. It is the condition
  `QuietTurns` of the theorems (section 4).
  Validator `v1` may seal in or out of the set, and the contract may announce in
  the block of its own `finalizeChange`.
- `recovery`: six blocks and a window of four, so the window's start moves over
  the chain. A validator set of two that is reordered or replaced: a
  reordered set keeps the window representative with a call inside it, so that the
  replay has to take as well as to push. One restart, one failure.
- `header`: `MaxStep` 4 and `MaxU128` 6 stand for 2^64-1 and 2^128-1; the code
  needs `MaxStep < MaxU128` and no overflow of their sum, which is the assumption
  on the constants. Two list sets (two, then three validators), a contract and
  the merge fall into the first five block numbers, seven headers make branches
  on both sides of each.
- `payload`: two blocks, one of each format of sidecars, four transactions of two
  senders with a dependent pair each, a gas limit that not all fit, a blob limit
  that one of them fills, and a beneficiary that may be a sender.
- `execution`: five blocks, one per fork in which a fee or a call differs; at most
  three transactions of six kinds, in any order: a service transaction, one below
  the base fee, two that pay it (a transfer and a tip), one with a blob, one that
  touches `SYSTEM_ADDRESS`. The beneficiary may be the reward contract itself,
  which the clean-up then drops; the default reward contract has no code, the
  one from block 2 on has.
- `forks`: at most nine blocks, gaps of one or two seconds, so that a block may
  step over a time fork, blobs none or two where the target is one. The
  specifications: forks around a merge with one of Gnosis' own before and after;
  all block forks in genesis and two time forks at one time; after the merge from
  the start and Prague with Cancun; never merged. Storage: values 0, 1 and 2 give
  every relation of the value before the transaction, the present one and the
  new one, and 150 or 900 (hundreds of) gas run out in the middle or not.
- `initstate`, `eraimport`: faults are bounded, everything else is the code's.
  Three faults cover a bad download, a crash, and a removal that fails in what
  cleans up after it. ERA files hold three blocks, the last file is short, and the
  maximal height is in the middle of a file, on a boundary or past the end.

### Fairness

Stated in two modules, in the others nothing has to happen (a block may never
come, so their properties are safety).

- `InitState`: weak fairness of the import's own steps (one thread that runs until
  it ends), of a launch with the option and of the deletion the operator is
  told to do. `EventuallyRuns` therefore says: no state of the disk defeats a
  persistent operator. Faults are finite by their bound; a link that is too slow
  for the client's total timeout is not excluded by it.
- `EraImport`: weak fairness of both tasks (tokio schedules both, the channel
  wakes them) and of a new start when the process has ended before it was done.

## 4. Proofs

All are checked by TLAPS for every value of the constants allowed by the named
assumptions, and use no bound of section 3.

| Theorem | States | If |
|---|---|---|
| `FinalityTracker_proofs!TypeCorrect` | `Spec => []TypeOK` | |
| `…!NeverAMajority` | `Spec => []WindowBelowMajority` | |
| `…!CensusIsExact` | `Spec => []CensusExact` | |
| `…!NothingIsForgotten` | `Spec => NothingVanishes` | |
| `…!PushIsAlwaysTheLoop` | `Spec => []PushIsTheLoop` | |
| `AuraExecution_proofs!TypeCorrect`, `NeverAMajority`, `CensusIsExact` | the same of the executor, contract, failures and rejected blocks included | |
| `…!WindowStaysRecent` | `Spec => []WindowIsRecent` | |
| `…!CallsHaveTheirCause` | `Spec => []CallsAreJustified` | (a) |
| `…!TrackerFollows` | `Spec => []TrackerFollowsContract` | (a) |
| `…!NoChangeGetsLost` | `Spec => []NoChangeIsLost` | (a) |
| `…!PendingStaysTracked` | `Spec => []PendingIsTracked` | (a), `"overlapping" \notin Eager` |
| `…!ImplementsValidatorChange` | `Spec => ImplementsChange` | (b) |
| `…!RecoveryGetsItRight` | `RecoverySpec => []RecoveryIsExact` | (d) |
| `…!CallsSurviveRestarts` | `RecoverySpec => CallSurvivesRestart` | (d), `AnyWindow = FALSE` |
| `AuraHeader_proofs!TypeCorrect` | `Spec => []TypeOK` | |
| `…!PhasesDoNotMix` | `Spec => []PhaseIsMonotonic` | |
| `…!SlotsAlwaysRotate` | `Spec => []SlotsRotate` | |
| `…!ScoreAlwaysOrders` | `Spec => []ScoreOrdersBranches` | |
| `…!RoundsAreAlwaysFair` | `Spec => []RoundsAreFair` | |
| `BlockEnvironment_proofs!AllRoutesAgree` | `BESpec => []RoutesAgree` | |
| `…!CodeIsRewrittenInTime` | `BESpec => []CodeFollowsTheFork` | |
| `…!PeersMeet` | `BESpec => []PeersOfOneChainMeet` | |
| `…!StalePeersArePartedFrom` | `BESpec => []StalePeersPart` | |
| `…!ChainIsNetMetered` | `BESpec => []NetMetering` | |
| `…!StoresTypeCorrect`, `NetMeteringHolds` | types and `NetMetering` of `StoreMetering` by itself | |
| `PayloadBuilder_proofs!SystemCallLeavesAlone` | a system call changes neither balance nor nonce of `SYSTEM_ADDRESS`, the beneficiary and the fee collector | |
| `…!SystemAccountStays` | `Spec => SystemAccountIsKept` | |
| `…!MoneyIsAccounted` | `Spec => []SupplyIsAccounted` | `DepositContract # FeeCollector` |
| `…!RewardsRecorded` | `Spec => []RewardsAreRecorded` | (c) |
| `…!BuilderTypes` | `PBSpec => []TypeOK` | |
| `…!CountersAgree` | `PBSpec => []BuilderAgreesWithExecutor` | |
| `…!FeesEarned` | `PBSpec => []FeesAreEarned` | |
| `…!BestIsValid` | `PBSpec => []BestPayloadIsValid` | |
| `InitState_proofs!TypeCorrect` | `Spec => []TypeOK` | |
| `…!FlagNeverLies` | `Spec => []FlagMeansImported` | |
| `…!NodeNeverRunsOnHalfAState` | `Spec => []NodeRunsOnWholeState` | `Forgets = FALSE` |
| `…!DownloadIsKept` | `Spec => VerifiedDownloadIsKept` | |
| `EraImport_proofs!TypeCorrect` | `Spec => []TypeOK` | |
| `…!IndexIsWhole` | `Spec => []IndexedUnlessInterrupted` | |
| `…!FilesComeInOrder` | `Spec => []FilesFollowOn` | `EraSize <= EraStep` |

(a) `MaxFailures = 0`, `OneContract` and `QuietTurns`; (b) `MaxFailures = 0`,
`PosdaoThroughout`, `Outsiders = {}` and `"at_call" \notin Eager`; (c) the reward
contracts are none of the deposit, history, roots and requests contracts; (d)
`OneContract`, `QuietTurns`, `QuietTakeover`, `Outsiders = {}`, `Eager = {}`,
`EventSources \subseteq {"receipts"}` and `Pruned = {}`.

### Why the hypotheses

- `MaxFailures = 0`. A block that fails or is rejected leaves its changes in the
  tracker and none in the chain. That breaks the properties and not only the
  proof: run `retry` is the counterexample. `WindowStaysRecent` needs no such
  hypothesis because the property has it.
- `OneContract`: from the POSDAO transition to the merge one contract is in
  force. The specification of Gnosis has it: its list ends with the contract of
  block 9186425, the POSDAO transition. That of Chiado has POSDAO from genesis
  and lists only, so no contract is ever in force there, no change is ever
  announced, and these theorems say nothing about it.
- `QuietTurns`: no announcement in the block before a call that the
  specification makes due by itself, nor in the one before POSDAO takes over with
  a new contract; on Gnosis these are two blocks of history. No code handles an
  announcement made there. Before a boundary call it is answered by that call,
  and then once more: the scheduled one stays in the slot and is made one block
  later. Before POSDAO takes over, its call is made by the first block of the new
  contract, which then refreshes the tracker with the set of the old one. With
  `Quiet <- None` in `gnosis.cfg` TLC finds both: the second violates
  `TrackerFollowsContract`; the first needs `Eager <- Overlapping`, too, and
  violates `CallsAreJustified`.
- `"overlapping" \notin Eager`: a contract that announces a second change while
  one is open can leave a pending entry that nothing in the window finds any more.
- (b) is what the abstract specification is about: one contract throughout. An
  outsider's block, and an announcement in the block of a `finalizeChange`, are
  outside of `ValidatorChange` (finding 5 of section 5); run `gnosis` has both.
- (d) is what recovery itself relies on, and run `recovery` has all of it. It
  reads receipts, and all of them: `EventSources` and `Pruned` (run `recreward` is
  the counterexample). It replays an announcement with the block that made it, so
  that block must be one that `push` counts: no outsider seals (`Outsiders`), no
  block both loses its sealer and announces (`Eager`), and the first POSDAO block,
  which a member of the set before seals, announces nothing (`QuietTakeover`, one
  more block of history on Gnosis). Two changes at a time are excluded as in
  `PendingStaysTracked`. Failures are not: both properties are about a node that
  had none so far, whatever `MaxFailures` is. `AnyWindow` is the model's switch for
  heads whose window is not representative, where no replay can be exact.
- `DepositContract # FeeCollector` and (c) hold in the shipped specifications. A
  deposit contract that collected fees would be paid and drained in one account;
  a reward contract that also was, say, the history contract would have calls on
  record that reward nobody.
- `EraSize <= EraStep`: `ERA_STEP` is 8192 (`src/cli/era.rs:37`), which is what the
  format of ERA files has as the greatest number of blocks of a file. With larger
  files the range of one file would skip the end of another.

### How the proofs go

**The tracker.** "No majority in the window" is not inductive by itself: after a
`push` it depends on the counts being those of the window, otherwise popping a
header need not lower them, and the loop could end with an empty window and a
majority of stale counts. The inductive invariant (`InOrder` in
`RollingFinality_proofs`) is therefore: well typed, counts exact, only validators
are counted, no majority. `RollingFinality_proofs` shows each method keeps it.
The work is in `push`: `CountAfterIsCensus` (removing a prefix from the counts
gives the census of the rest), `PoppedByStops` (the loop stops, and without a
majority, as an empty window has empty counts), and `CountedKeeps`. Whether a
step forgets a pending change is shown by `PopFinalizedSchedules`.

**The loops of `push`.** A recursive function is `CHOOSE` of something that
satisfies its equation, which says nothing until such a thing is known to exist.
The closed form satisfies the equation (`IsMap`, `RunAfter`, `ScheduledTo`), so one
exists; and two that satisfy it agree, by the least turn at which they would
differ. `LoopsPopFinalized` is the result. It needs that `pending_transitions`
never has an entry of no contract (`AlwaysMap`).

**The executor.** Types, counts and phases use the tracker only through its
methods; there is one lemma per action. The rest is about three things that
change at different moments, the tracker, the block in progress and the chain.
`AuraInvariant` says what they mean to each other, in layers, each inductive on
top of the ones before. All are stated of `Executed`, the chain with the block
that has just finished, because `finish` changes the tracker and the commit only
moves the block.

1. `BlocksInv`: the window is in order and of executed POSDAO blocks with their
   signers, a pending transition is of one with an event, and the last block's
   set is what the contract answers now. `WindowStaysRecent` is this layer.
2. `LifecycleInv`, a state machine of one announcement: it is in the window until
   a majority has sealed over it, then it is scheduled for the next block, then
   it is called. `Settled` says so between blocks, `InMotion` within one, when
   the due call is in the hands of the executor and in nobody else's. The part
   that is hard to see is `Covered`: from its first block on the window has
   *every* block of a validator, so that sealers of the chain are sealers of
   the window. It gives `CallsHaveTheirCause` (never early), `NoChangeGetsLost`
   (never late, never forgotten) and `TrackerFollows`.
3. `PendingInv`: with one announcement at a time nothing pending is out of the
   window. The contract itself must know what waits (`AnnouncedIn`), since it is
   what refuses a second announcement.
4. `ChangeInv`: the steps of `ValidatorChange`. Only the commit is visible to the
   abstract specification, so what the block will do to the contract is stated
   before, while the block is in progress.

**Recovery.** The replay starts from nothing at the first block of its window,
and counts against all who sealed in it, so its window of unfinalized blocks is
not the live one. What the two share is `Alike`: the same is pending, the same is
scheduled, and from a pending block on the windows are equal. That is enough
because what a push takes out depends only on what is behind it: a block leaves
exactly if a majority is (`PushExactly`), so pushing, noting and taking keep two
trackers alike (`PushesAlike`, `NotesAlike`, `TakesAlike`). `EchoInv` says that the
live tracker is echoed by the replay from *every* start that is representative so
far; a block more is one turn of that replay, or, if it is where the window
begins, nothing waits and both are empty (`NothingToReplay`). Inside a block the
replay has its due call taken, too (`EchoedIn`). It needs two more layers of the
invariant, of the executor: `RecordedInv` (every announcement is in the chain with
a block that counts) and `PendingInv`. For a restart in the middle of a block the
tracker has moved on, but the chain has not: `Recalls` says of the chain alone
that the replay ends with the due call, and is carried along until a commit.
That the recursive function of the replay exists is `SimulationExists`, and that
it is the replay of the chain, `RecoveryReplays`.

**Headers.** The inductive invariant has that every accepted header agrees with
its phase, was sealed in turn, and follows its parent (`Follows`): next number,
later step, difficulty of the two steps. `SlotsRotate` follows because the
proposer is a function of the step modulo the length of the list, and the list
has no repetitions. The score telescopes: along a branch the total difficulty is
that of genesis, plus `MaxU128` for each block, minus the step of the tip
(`ScoreOfHeader`), and a step is below `MaxU128`, so length decides first and the
step second. Steps grow along a branch (`StepsGrow`), so two slots of one signer,
which are whole rounds apart, are at least one round apart. `TotalDifficulty` and
`Branch` are recursive functions over the tree; that they exist (`Recursions`) is
shown along the behaviour: an import adds one value, and the old ones stay
(`ImportGrows`).

**Storage gas.** "The refund is never negative" is not inductive: a write may take
back a refund that an earlier one gave. `NetInv` says that the refund is at least
what the next write may take back (`ToTakeBack`), and that gas spent less refund
is what the EIP charges; `NetWrite` shows that one write keeps both, for every
original, present and new value. In a chain it also needs that no block with net
metering in force is after the merge.

**Block environments.** `ChainInv` says that the tip is a header that consensus
accepts after its parent, and that code is what the forks up to the tip make it.
The three routes are then compared field by field; the work is in the activation
of forks (a fork by time that is active at the parent is active at the tip) and in the
excess of blobs at the first block of Cancun.

**Fork identifiers.** The hash of `fork_id`, a fold over the listed forks, is the
strictly increasing sequence of the points that are past (`ForkIdIs`): the listing
is in order, so skipping a point that was just applied skips every repetition. The
filter sorts what it is given, and its past is the same sequence (`FilterIs`),
since two increasing sequences with the same members are equal (`SameSequence`).
What a peer announces elsewhere on the chain is then a prefix of it, or it of the
peer's, which `Accepts` takes (`Meet`); without a fork that has a point of its own
the two sequences differ at that point (`Part`). `PhasesInv` adds that no fork by
time is active before the merge; without it block and time forks would not be past
in the order in which they are listed. Folds are recursive functions, so what one
step of a fold does is shown first (`FoldsExist`, `FoldsRun`), by the least index
at which it would be something else.

**System calls, money and rewards.** `SystemCallLeavesAlone` needs nothing but the
types: it follows from what `CleanUp` removes and restores, whatever the contract
does. That `SYSTEM_ADDRESS` keeps its nonce rests on the assumption that nobody
has a key of that address (no transaction is from it); that it is present after
a block is shown of the last system call the block commits. Sums over accounts
and folds over the transactions of a block are recursive functions of the community
modules: that they exist (`SumsExist`, `FoldsExist`), and what they are at a set
with one element more (`SumChanges`, `FoldAppend`), is shown by the size of the
set, as there is no smallest counterexample. `SupplyInv` says of the state, and
of the block in progress, that the supply is what `ledger` accounts for; a call
only moves money that its contract has. `RecordInv` does the same for the reward
contracts' storage.

**Payload builder.** `JobInv` is that the block under construction is the
executor's run of its transactions on the head (`Building`), that the counters of
the loop are the executor's, that every prefix of these transactions can be
executed, and the same of the best payload (`Kept`).
The head does not move while a job is open, so importing the payload runs the
same function on the same arguments. `BuilderTypes` includes that no balance is
negative, which is the check of the sender's balance at work.

**State import.** The invariant `Progress` says what is on the disk at each step of
the import, `Kept` which of the files may be removed at each; the rest follows by
reading them at the step in question. No `.part` file of an earlier process is
beside the import with fewer than two faults, since without any fault there is
none to remove (`NoLeftovers`, which also says that only a verified file is
unpacked).

**ERA import.** The invariant relates the tasks, the channel and the disk: a file
in the channel is downloaded and next in order, and heights of database and
static files differ only inside one block of work. `Order` adds that ranges of
files follow each other; it needs the hypothesis on the size of a file, as
`height..=height + ERA_STEP` must reach the end of it.

### Only model-checked

`EventuallyRuns` and `EventuallyImported`: liveness under fairness is out of the
prover's reach. Every other property that a run checks and that holds is stated by
a theorem of the table.

## 5. What the checks disagree with

Details, with the lines, are under "findings" in `PROJECT.json`.

1. `retry`: a block that fails after its context was made has used up the
   scheduled `finalizeChange`; executed again, it does not make the call.
2. `recreward`: recovery reads stored receipts, while POSDAO announces changes in
   logs of the reward system call, which no receipt holds.
3. Recovery keeps a pending change and drops the window in which it waits, so
   that change is never final (`aura/finality.rs:68`). With `NoChangeIsLost` as the
   invariant of `recovery.cfg` and `MaxFailures = 0` TLC shows it.
4. Before the merge, from London on, the check of the base fee is off for every
   transaction, not only for those with price zero; one with a price between the
   two has the collector credited with more than its sender pays
   (`evm_config.rs:112`). Run `execution` accounts for it: `SupplyIsAccounted` has
   the term `ledger.unpaid`, without which it is violated.
5. A block that removes its own sealer by the `finalizeChange` it makes and
   announces the next change at once loses that change: `finish` notes it, and
   `push` then drops the block (`aura/finality.rs:111`). `NoChangeIsLost` without
   `SealedByMember` is violated by it, with `Eager <- AtCall` in `posdao.cfg`.
6. `next_evm_env` has no blob price for the first block with blobs when Cancun and
   Prague are active from one block on (`evm_config.rs:360`): the exception
   `SkipsCancun` of `RoutesAgree`.
7. `context_for_payload` has no reward override, which a comment says every
   context has (`evm_config.rs:584`). It makes no difference as long as the last
   override is the default contract; `RoutesAgree` is violated without that
   assumption.
8. Comments that say something else than the code, without a run: what makes a
   block final (`aura/finality.rs:12`), when the boundary call is made
   (`evm_config.rs:234`), how the tracker comes back after a restart
   (`aura/finality.rs:24`), where a contract's proposers are checked
   (`aura/mod.rs:276`), total difficulty in the ERA import (`cli/era.rs:180`), and
   the options `--path` and `--url` of `import-era` (`cli/import_era.rs:54`).

Things that are so, and contradict no document: an interrupted ERA import leaves
the blocks it imported out of the hash index for good (`IndexedUnlessInterrupted`
states what does hold), the signer of a rejected block stays in the window and
may complete a majority, a node started without the import option on a
half-imported database runs on it (`Forgets`), and a transaction that sends
nothing to `SYSTEM_ADDRESS` purges it until the next committed system call.

## 6. What is not modelled

- The EVM, the trie, the database, the network, the engine API and the pool of
  reth: they appear as what this code relies on.
- Parsing of chain specifications and genesis files, and blob schedules whose
  target and maximum differ by fork; `latest_fork_id`, which hands on to the
  Ethereum specification.
- Roots, hashes and the bloom of an assembled header; randomness, gas limit and
  beneficiary, which environments hand on as they are.
- The withdrawals a payload lists: the deposit contract pays what it pays.
- Recovery across a change of the validator contract: events of the contract
  before it are not looked for (`lib.rs:208`), so the replay is not exact there.
- That the beneficiary of a header is its sealer: no code compares the two.
- Encoding, hashing and recovery of a seal: `signer` is what recovery yields.
- A revert of `finalizeChange` other than for want of an announcement, and a
  poisoned mutex.
- Command line, version, logging, RPC types, the conformance test harness.

## 7. Plan

Done, in the order in which it was done: tracker, validator sets, execution with
its abstract specification, recovery, headers, state import, ERA import,
execution of transactions, payload builder; proofs of the tracker, the executor,
headers and the state import; then fork identifiers, block environments and
assembly, system calls with rewards and withdrawals, storage gas before Istanbul,
sealers outside the set; proofs of system calls and storage gas; then the life of
a change and the refinement, scores and rounds, the loops of `push`, money and
rewards, the payload builder, block environments and the ERA import, the replay
of recovery, and fork identifiers.

Next, most important first:

1. Headers and execution composed: the signer that was checked and the
   beneficiary that is counted.
2. Blob schedules by fork in `BlockEnvironment`.

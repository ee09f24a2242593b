-------------------------- MODULE BlockEnvironment --------------------------
(***************************************************************************)
(* The environment in which a block is executed, by the three routes that  *)
(* make one (src/evm_config.rs), the header of a block built here          *)
(* (src/build.rs), and the rewrites of code at a fork (src/block.rs,       *)
(* src/gnosis.rs).                                                         *)
(*                                                                         *)
(* A block is executed from its header (a synced block), from a payload of *)
(* the engine API, or while it is built, from its parent and attributes.   *)
(* All must agree: a builder and a validator who differ part ways.  The    *)
(* model keeps what of a header the environment is made of; gas limit,     *)
(* beneficiary, base fee and randomness are handed on as they are.         *)
(*                                                                         *)
(* To the genesis of ChainForks it adds rewards, the reward contracts of   *)
(* the AuRa configuration by block, defaultReward, the contract for when   *)
(* there is none, rewriteAt, the block at which AuRa rewrites code, or     *)
(* None, and last, the bound on the blocks of its chain.                   *)
(***************************************************************************)
EXTENDS ChainForks, StoreMetering

CONSTANTS Geneses,      \* the chain specifications
          TargetBlobs,  \* target_blob_count and max_blob_count, of every fork
          MaxBlobs,
          BlobCounts,   \* the blobs a block may have
          MaxNumber,    \* bound: the blocks of a chain
          Gaps          \* the seconds there may be between two blocks

ASSUME BlockEnvironmentAssumption ==
  /\ {TargetBlobs, MaxBlobs, MaxNumber, GenesisTime} \subseteq Nat /\ None \notin Nat
  /\ TargetBlobs <= MaxBlobs /\ BlobCounts \subseteq 0..MaxBlobs
  /\ MaxNumber < GenesisTime
  /\ Gaps \subseteq Nat \ {0}

ListedInOrder(at, forks) ==
  \A i, j \in DOMAIN forks :
    i <= j /\ {forks[i], forks[j]} \subseteq DOMAIN at => at[forks[i]] <= at[forks[j]]

\* Conditions the routes rely on: forks are listed in the order of their points,
\* those by time are after genesis, those by block not after the merge, at
\* numbers that do not look like a time; AuRa rewrites code before the merge, and
\* after the last reward contract of its configuration comes none but the
\* default one.
ASSUME GenesesAssumption ==
  \A g \in Geneses :
    /\ DOMAIN g = {"at", "merge", "rewards", "defaultReward", "rewriteAt", "last"}
    /\ g.at \in [DOMAIN g.at -> Nat] /\ {g.merge, g.rewriteAt} \subseteq Nat \cup {None}
    /\ DOMAIN g.at \subseteq Range(BlockForks) \cup Range(TimeForks)
    /\ ListedInOrder(g.at, BlockForks) /\ ListedInOrder(g.at, TimeForks)
    /\ \A f \in DOMAIN g.at \cap Range(TimeForks) : GenesisTime < g.at[f]
    /\ \A f \in DOMAIN g.at \cap Range(BlockForks) :
         g.at[f] < GenesisTime /\ (g.merge # None => g.at[f] <= g.merge)
    /\ g.last <= MaxNumber
    /\ "cancun" \notin DOMAIN g.at => {"prague", "osaka"} \cap DOMAIN g.at = {}
    /\ g.rewriteAt # None => 0 < g.rewriteAt /\ (g.merge # None => g.rewriteAt < g.merge)
    /\ g.rewards # <<>> =>
         /\ g.merge # None /\ DOMAIN g.rewards \subseteq 0..g.merge
         /\ g.rewards[Max(DOMAIN g.rewards)] = g.defaultReward

VARIABLES genesis,  \* the chain specification
          chain,    \* the headers after genesis
          code      \* the code of the accounts that forks rewrite

vars == <<genesis, chain, code, stores>>

GenesisHeader ==
  [number |-> 0, timestamp |-> GenesisTime, preMerge |-> ~ParisActiveAtBlock(genesis, 0),
   excess |-> None, blobs |-> None, withdrawals |-> FALSE, requests |-> FALSE]

HeaderAt(n) == IF n = 0 THEN GenesisHeader ELSE chain[n]

Tip == HeaderAt(Len(chain))

-----------------------------------------------------------------------------
(* Blobs.                                                                  *)

HasBlobParams(g, timestamp) == ActiveAt(g, "cancun", timestamp)

\* next_block_excess_blob_gas, counted in blobs.
NextExcess(excess, blobs) == Max({0, excess + blobs - TargetBlobs})

\* maybe_next_block_excess_blob_gas
MaybeNextBlockExcess(parent, hasParams) ==
  IF hasParams /\ parent.excess # None THEN NextExcess(parent.excess, parent.blobs) ELSE None

-----------------------------------------------------------------------------
(* The environment.                                                        *)

\* get_cfg_env and what its callers add.
CfgEnv(g, spec, timestamp, isPreMerge) ==
  [spec           |-> spec,
   codeSizeLimit  |-> ActiveAt(g, "shanghai", timestamp),
   disableBaseFee |-> isPreMerge /\ SpecAtLeast(spec, "london"),
   gasParams      |-> GasParams(spec, isPreMerge),
   maxBlobsPerTx  |-> IF HasBlobParams(g, timestamp) THEN MaxBlobs ELSE None,
   txGasCap       |-> ActiveAt(g, "osaka", timestamp)]

\* The block: excess stands for the blob price, a function of it.
BlockEnv(number, timestamp, hasRandao, excess) ==
  [number |-> number, timestamp |-> timestamp, hasRandao |-> hasRandao, excess |-> excess]

\* evm_env
EnvOfHeader(g, h) ==
  LET spec == GnosisRevmSpec(g, h)
  IN  [cfg   |-> CfgEnv(g, spec, h.timestamp, h.preMerge),
       block |-> BlockEnv(h.number, h.timestamp, SpecAtLeast(spec, "merge"),
                          IF HasBlobParams(g, h.timestamp) THEN h.excess ELSE None)]

\* evm_env_for_payload
EnvOfPayload(g, h) ==
  LET spec == RevmSpecByTimestampAndBlockNumber(g, h.timestamp, h.number)
  IN  [cfg   |-> CfgEnv(g, spec, h.timestamp, FALSE),
       block |-> BlockEnv(h.number, h.timestamp, SpecAtLeast(spec, "merge"),
                          IF HasBlobParams(g, h.timestamp) THEN h.excess ELSE None)]

\* Slip: the first block with blobs is not thought of.
NextEvmEnvWithoutDefault(g, parent, timestamp) ==
  LET number == parent.number + 1
      spec   == RevmSpecByTimestampAndBlockNumber(g, timestamp, number)
  IN  [cfg   |-> CfgEnv(g, spec, timestamp, FALSE),
       block |-> BlockEnv(number, timestamp, TRUE,
                          MaybeNextBlockExcess(parent, HasBlobParams(g, timestamp)))]

\* next_evm_env
NextEvmEnv(g, parent, timestamp) ==
  LET number == parent.number + 1
      spec   == RevmSpecByTimestampAndBlockNumber(g, timestamp, number)
      next   == MaybeNextBlockExcess(parent, HasBlobParams(g, timestamp))
  IN  [cfg   |-> CfgEnv(g, spec, timestamp, FALSE),
       block |-> BlockEnv(number, timestamp, TRUE,
                          IF next = None /\ spec = "cancun" THEN 0 ELSE next)]

\* assemble_block, from the environment and the blobs of the execution.
AssembleBlock(g, parent, env, blobs) ==
  LET timestamp == env.block.timestamp
      cancun    == ActiveAt(g, "cancun", timestamp)
  IN  [number      |-> env.block.number,
       timestamp   |-> timestamp,
       preMerge    |-> FALSE,
       excess      |-> IF ~cancun THEN None
                       ELSE IF ActiveAt(g, "cancun", parent.timestamp)
                       THEN MaybeNextBlockExcess(parent, HasBlobParams(g, timestamp))
                       ELSE NextExcess(0, 0),
       blobs       |-> IF cancun THEN blobs ELSE None,
       withdrawals |-> ActiveAt(g, "shanghai", timestamp),
       requests    |-> ActiveAt(g, "prague", timestamp)]

-----------------------------------------------------------------------------
(* The context: the reward contract and the parent's time.                 *)

RewardsOverride(g, number) ==
  LET past == {n \in DOMAIN g.rewards : n <= number}
  IN  IF past = {} THEN None ELSE g.rewards[Max(past)]

\* finish
RewardContract(g, override) == IF override = None THEN g.defaultReward ELSE override

\* The lookup finds the header of the parent, or it does not (NoopHeaderLookup).
ParentTimestamp(parent, found) == IF found THEN parent.timestamp ELSE 0

-----------------------------------------------------------------------------
(* Execution, as far as it changes code.                                   *)

\* Slip: of the two only the parent is looked at.
BalancerRewriteIfNotBefore(g, timestamp, parentTimestamp) ==
  ~ActiveAt(g, "balancer", parentTimestamp)

\* The rewrite is due in the block that activates the fork, and in every later
\* one whose parent is not known.
BalancerRewriteIsDue(g, timestamp, parentTimestamp) ==
  ActiveAt(g, "balancer", timestamp) /\ ~ActiveAt(g, "balancer", parentTimestamp)

\* rewrite_aura_bytecodes at its block, rewrite_bytecodes at its time; both
\* leave alone what has the code already.
AfterRewrites(g, old, h, parentTimestamp) ==
  [aura     |-> IF h.preMerge /\ h.number = g.rewriteAt THEN "new" ELSE old.aura,
   balancer |-> IF BalancerRewriteIsDue(g, h.timestamp, parentTimestamp)
                THEN "new" ELSE old.balancer]

\* The header's phase is what consensus accepts (AuraHeader); time forks come
\* after the merge.
Phase(number, timestamp) ==
  IF ParisActiveAtBlock(genesis, number) THEN "post"
  ELSE IF \A f \in Range(TimeForks) : ~ActiveAt(genesis, f, timestamp) THEN "pre" ELSE "none"

BEInit ==
  /\ genesis \in Geneses
  /\ chain = <<>>
  /\ code = [aura |-> "old", balancer |-> "old"]
  /\ StoreInit

Execute(h, found) ==
  /\ chain' = Append(chain, h)
  /\ code' = AfterRewrites(genesis, code, h, ParentTimestamp(Tip, found))
  /\ UNCHANGED <<genesis, stores>>

\* A block before the merge, as it is synced.
SyncPreMergeBlock(gap, found) ==
  LET timestamp == Tip.timestamp + gap
  IN  /\ stores = NoTx /\ Len(chain) < genesis.last
      /\ Phase(Len(chain) + 1, timestamp) = "pre"
      /\ Execute([GenesisHeader EXCEPT !.number = Len(chain) + 1, !.timestamp = timestamp,
                                       !.preMerge = TRUE], found)

\* What the consensus rules ask of a header after the merge.
ValidHeader(parent, timestamp, blobs) ==
  [number      |-> parent.number + 1,
   timestamp   |-> timestamp,
   preMerge    |-> FALSE,
   excess      |-> IF ~ActiveAt(genesis, "cancun", timestamp) THEN None
                   ELSE IF parent.excess = None THEN 0
                   ELSE NextExcess(parent.excess, parent.blobs),
   blobs       |-> IF ActiveAt(genesis, "cancun", timestamp) THEN blobs ELSE None,
   withdrawals |-> ActiveAt(genesis, "shanghai", timestamp),
   requests    |-> ActiveAt(genesis, "prague", timestamp)]

\* A block after the merge, of this node or another.
ExtendPostMerge(gap, blobs, found) ==
  LET timestamp == Tip.timestamp + gap
  IN  /\ stores = NoTx /\ Len(chain) < genesis.last
      /\ Phase(Len(chain) + 1, timestamp) = "post"
      /\ blobs > 0 => ActiveAt(genesis, "cancun", timestamp)
      /\ Execute(ValidHeader(Tip, timestamp, blobs), found)

\* The transaction of StoreMetering, in the last block if that is one of those
\* it is about.
HeadEnvs ==
  LET spec == GnosisRevmSpec(genesis, Tip)
  IN  IF chain = <<>> \/ SpecAtLeast(spec, "istanbul") THEN {}
      ELSE {[spec |-> spec, preMerge |-> Tip.preMerge]}

BENext ==
  \/ \E gap \in Gaps, found \in BOOLEAN :
       \/ SyncPreMergeBlock(gap, found)
       \/ \E blobs \in BlobCounts : ExtendPostMerge(gap, blobs, found)
  \/ /\ StoreNext(HeadEnvs)
     /\ UNCHANGED <<genesis, chain, code>>

BESpec == BEInit /\ [][BENext]_vars

-----------------------------------------------------------------------------
(* Properties.                                                             *)

Parent == HeaderAt(Len(chain) - 1)

\* The first block with blobs on a chain that has no block of just Cancun.
SkipsCancun(parent, h) ==
  /\ h.excess # None /\ parent.excess = None
  /\ GnosisRevmSpec(genesis, h) # "cancun"

\* A block after the merge is executed alike from its header (evm_env), from its
\* payload (evm_env_for_payload) and while it is built (next_evm_env), what
\* assemble_block makes of the latter is a header that the consensus rules
\* accept, and the reward contract is the one of the context, override or not.
\* next_evm_env has no blob price for a first block that skips Cancun.
RoutesAgree ==
  chain # <<>> /\ ~Tip.preMerge =>
    LET env   == EnvOfHeader(genesis, Tip)
        built == NextEvmEnv(genesis, Parent, Tip.timestamp)
        blobs == IF Tip.blobs = None THEN 0 ELSE Tip.blobs
    IN  /\ EnvOfPayload(genesis, Tip) = env
        /\ built = env \/ SkipsCancun(Parent, Tip)
        /\ AssembleBlock(genesis, Parent, built, blobs) = Tip
        /\ RewardContract(genesis, RewardsOverride(genesis, Tip.number))
             = RewardContract(genesis, None)

\* The accounts that the forks rewrite have their new code from the activation
\* on and not before, whether the header of a parent is found or not
\* (context_for_block with a database, or NoopHeaderLookup).
CodeFollowsTheFork ==
  /\ code.balancer = IF ActiveAt(genesis, "balancer", Tip.timestamp) THEN "new" ELSE "old"
  /\ code.aura = IF genesis.rewriteAt # None /\ Len(chain) >= genesis.rewriteAt
                 THEN "new" ELSE "old"

HeadOf(n) == [number |-> n, timestamp |-> HeaderAt(n).timestamp]

\* Two nodes of one chain accept each other's fork identifier whatever blocks
\* of it they are at (fork_id against fork_filter), and the identifier that
\* network.rs announces, that of the filter, is fork_id.
PeersOfOneChainMeet ==
  LET filter == ForkFilter(genesis, HeadOf(Len(chain)))
      id     == ForkId(genesis, HeadOf(Len(chain)))
  IN  /\ filter.id = id
      /\ \A n \in 0..Len(chain) :
           /\ Accepts(filter, ForkId(genesis, HeadOf(n)))
           /\ Accepts(ForkFilter(genesis, HeadOf(n)), id)

Without(g, fork) == [g EXCEPT !.at = RestrictDomain(@, LAMBDA f : f # fork)]

IsPassed(fork) ==
  ActiveAt(genesis, fork, IF fork \in Range(TimeForks) THEN Tip.timestamp ELSE Len(chain))

HasPointOfItsOwn(fork) ==
  /\ genesis.at[fork] > 0
  /\ \A f \in DOMAIN genesis.at \ {fork} : genesis.at[f] # genesis.at[fork]

\* A node that does not know a fork the chain has passed, be it one of Gnosis'
\* own, and a node that does, refuse each other.
StalePeersPart ==
  LET head   == HeadOf(Len(chain))
      filter == ForkFilter(genesis, head)
      id     == ForkId(genesis, head)
  IN  \A fork \in DOMAIN genesis.at :
        HasPointOfItsOwn(fork) /\ IsPassed(fork) =>
          /\ ~Accepts(filter, ForkId(Without(genesis, fork), head))
          /\ ~Accepts(ForkFilter(Without(genesis, fork), head), id)
=============================================================================

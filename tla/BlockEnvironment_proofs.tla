----------------------- MODULE BlockEnvironment_proofs -----------------------
(***************************************************************************)
(* For any chain specification of the named kind, and any chain on it: the *)
(* routes to an environment agree, code is rewritten when its fork is      *)
(* activated, net metering charges what EIP-1283 says, and fork            *)
(* identifiers hold the peers of one chain together and tell stale ones.   *)
(***************************************************************************)
EXTENDS BlockEnvironment, FiniteSetTheorems, WellFoundedInduction, TLAPS

(***************************************************************************)
(* Storage gas.                                                            *)
(***************************************************************************)
\* A slot that was cleared can be written again, which takes its refund back.
ToTakeBack(original, present) ==
  IF original # 0 /\ present = 0 THEN 150 ELSE 0

IsNet(t) == t.env.spec = "constantinople"

\* The account of the writes so far.
Balanced(t) ==
  /\ t.spent - t.refund = 2 * t.writes + NetCost(t.original, t.present)
  /\ t.refund >= ToTakeBack(t.original, t.present)

(***************************************************************************)
(* The inductive invariant: that a refund is never negative holds because  *)
(* it covers what the next write may take back.                            *)
(***************************************************************************)
NetInv == StoresTypeOK /\ (stores # NoTx /\ IsNet(stores) => Balanced(stores))

NetParams ==
  [static |-> 2, set |-> 198, reset |-> 48, setRefund |-> 198, resetRefund |-> 48,
   clear |-> 150]


(* One write.                                                              *)

\* What a write costs, less its refund, is 200 gas and the difference it makes
\* to the net cost; its refund makes up for what may be taken back after it.
LEMMA NetWrite ==
  ASSUME NEW o \in Nat, NEW p \in Nat, NEW n \in Nat
  PROVE  /\ DynamicGas(NetParams, TRUE, o, p, n) \in Nat
         /\ Refund(NetParams, TRUE, o, p, n) \in Int
         /\ DynamicGas(NetParams, TRUE, o, p, n) - Refund(NetParams, TRUE, o, p, n)
              = NetCost(o, n) - NetCost(o, p)
         /\ Refund(NetParams, TRUE, o, p, n) >= ToTakeBack(o, n) - ToTakeBack(o, p)
<1>1. CASE n = p
  BY <1>1 DEF NetParams, DynamicGas, Refund, NetRefund, NetCost, ToTakeBack
<1>2. CASE n # p /\ o = 0
  BY <1>2 DEF NetParams, DynamicGas, Refund, NetRefund, NetCost, ToTakeBack
<1>3. CASE n # p /\ o # 0 /\ p = o
  BY <1>3 DEF NetParams, DynamicGas, Refund, NetRefund, NetCost, ToTakeBack
<1>4. CASE n # p /\ o # 0 /\ p # o
  BY <1>4 DEF NetParams, DynamicGas, Refund, NetRefund, NetCost, ToTakeBack
<1> QED BY <1>1, <1>2, <1>3, <1>4

\* Outside Constantinople too, gas and refunds are whole numbers of gas.
LEMMA WriteType ==
  ASSUME NEW spec, NEW o \in Nat, NEW p \in Nat, NEW n \in Nat
  PROVE  /\ GasParams(spec, TRUE).static \in Nat
         /\ DynamicGas(GasParams(spec, TRUE), IsNetMetered(spec), o, p, n) \in Nat
         /\ Refund(GasParams(spec, TRUE), IsNetMetered(spec), o, p, n) \in Int
<1>1. CASE spec = "constantinople"
  <2>1. GasParams(spec, TRUE) = NetParams /\ IsNetMetered(spec) = TRUE
    BY <1>1 DEF GasParams, NetParams, IsNetMetered
  <2>2. NetParams.static \in Nat
    BY DEF NetParams
  <2>3. /\ DynamicGas(NetParams, TRUE, o, p, n) \in Nat
        /\ Refund(NetParams, TRUE, o, p, n) \in Int
    BY NetWrite
  <2> QED BY ONLY <2>1, <2>2, <2>3
<1>2. CASE spec # "constantinople"
  BY <1>2 DEF GasParams, IsNetMetered, DynamicGas, Refund
<1> QED BY <1>1, <1>2


(* The steps.                                                              *)

LEMMA BeginInv ==
  ASSUME NetInv, NEW env \in Envs, NEW o \in Values, NEW limit \in GasLimits,
         BeginStores(env, o, limit)
  PROVE  NetInv'
BY StoreMeteringAssumption
   DEF BeginStores, NetInv, StoresTypeOK, IsNet, Balanced, NetCost, ToTakeBack

LEMMA StoreInv ==
  ASSUME NetInv, NEW new \in Values, Store(new)
  PROVE  NetInv'
<1> DEFINE t == stores
           net == IsNetMetered(t.env.spec)
           params == GasParams(t.env.spec, t.env.preMerge)
           gas == DynamicGas(params, net, t.original, t.present, new)
           refund == Refund(params, net, t.original, t.present, new)
<1>1. /\ t \in [env : Envs, original : Values, present : Values, left : Nat,
                spent : Nat, refund : Int, writes : Nat]
      /\ t.left >= Cost(t, new)
      /\ stores' = Sstore(t, new)
      /\ t # NoTx
  BY DEF NetInv, StoresTypeOK, Store
<1>2. /\ t.original \in Nat /\ t.present \in Nat /\ new \in Nat
      /\ t.env.preMerge = TRUE
  BY <1>1, StoreMeteringAssumption DEF Envs
<1>3. params.static \in Nat /\ gas \in Nat /\ refund \in Int
  BY <1>2, WriteType
<1>4. Cost(t, new) = params.static + gas
  BY DEF Cost
<1>5. stores' = [t EXCEPT !.present = new,
                          !.left    = t.left - (params.static + gas),
                          !.spent   = t.spent + (params.static + gas),
                          !.refund  = t.refund + refund,
                          !.writes  = t.writes + 1]
  BY <1>1, <1>4 DEF Sstore
<1>6. StoresTypeOK'
  <2>1. /\ t.left - (params.static + gas) \in Nat
        /\ t.spent + (params.static + gas) \in Nat
        /\ t.refund + refund \in Int
        /\ t.writes + 1 \in Nat
    BY <1>1, <1>3, <1>4
  <2> HIDE DEF params, gas, refund
  <2> QED BY <1>1, <1>5, <2>1 DEF StoresTypeOK
<1>7. ASSUME stores' # NoTx, IsNet(stores')
      PROVE  Balanced(stores')
  <2>1. stores'.env = t.env /\ stores'.original = t.original
    BY <1>1, <1>5
  <2>2. IsNet(t) /\ Balanced(t)
    BY <1>1, <1>7, <2>1 DEF NetInv, IsNet
  <2>3. params = NetParams /\ net = TRUE
    BY <1>2, <2>2 DEF GasParams, NetParams, IsNetMetered, IsNet
  <2>4. /\ gas - refund = NetCost(t.original, new) - NetCost(t.original, t.present)
        /\ refund >= ToTakeBack(t.original, new) - ToTakeBack(t.original, t.present)
    BY <1>2, <2>3, NetWrite
  <2>5. params.static = 2
    BY <2>3 DEF NetParams
  <2>6. /\ stores'.present = new
        /\ stores'.spent = t.spent + (2 + gas)
        /\ stores'.refund = t.refund + refund
        /\ stores'.writes = t.writes + 1
    <3> HIDE DEF gas, refund, params
    <3> QED BY <1>1, <1>5, <2>5
  <2>7. /\ NetCost(t.original, new) \in Int /\ NetCost(t.original, t.present) \in Int
        /\ ToTakeBack(t.original, new) \in Int /\ ToTakeBack(t.original, t.present) \in Int
    BY DEF NetCost, ToTakeBack
  <2>8. /\ t.spent \in Int /\ t.refund \in Int /\ t.writes \in Int
        /\ gas \in Int /\ refund \in Int
    BY <1>1, <1>3
  <2>9. /\ t.spent - t.refund = 2 * t.writes + NetCost(t.original, t.present)
        /\ t.refund >= ToTakeBack(t.original, t.present)
    BY <2>2 DEF Balanced
  <2>10. /\ (t.spent + (2 + gas)) - (t.refund + refund)
              = 2 * (t.writes + 1) + NetCost(t.original, new)
         /\ t.refund + refund >= ToTakeBack(t.original, new)
    <3> DEFINE spent    == t.spent
               refunded == t.refund
               writes   == t.writes
               before   == NetCost(t.original, t.present)
               after    == NetCost(t.original, new)
               owed     == ToTakeBack(t.original, t.present)
               owes     == ToTakeBack(t.original, new)
    <3>1. /\ spent \in Int /\ refunded \in Int /\ writes \in Int
          /\ gas \in Int /\ refund \in Int
          /\ before \in Int /\ after \in Int /\ owed \in Int /\ owes \in Int
      BY ONLY <2>7, <2>8
    <3>2. /\ gas - refund = after - before /\ refund >= owes - owed
          /\ spent - refunded = 2 * writes + before /\ refunded >= owed
      BY ONLY <2>4, <2>9
    <3> SUFFICES /\ (spent + (2 + gas)) - (refunded + refund) = 2 * (writes + 1) + after
                 /\ refunded + refund >= owes
      OBVIOUS
    <3> HIDE DEF gas, refund, spent, refunded, writes, before, after, owed, owes
    <3> QED BY ONLY <3>1, <3>2
  <2> QED BY <2>1, <2>6, <2>10 DEF Balanced
<1> QED BY <1>6, <1>7 DEF NetInv

LEMMA StepInv ==
  ASSUME NetInv, [StoreNext(Envs)]_stores
  PROVE  NetInv'
<1>1. CASE UNCHANGED stores
  BY <1>1 DEF NetInv, StoresTypeOK, IsNet, Balanced
<1>2. CASE \E env \in Envs, o \in Values, limit \in GasLimits : BeginStores(env, o, limit)
  BY <1>2, BeginInv
<1>3. CASE \E new \in Values : Store(new)
  BY <1>3, StoreInv
<1>4. CASE (\E new \in Values : OutOfGas(new)) \/ EndStores
  BY <1>4 DEF OutOfGas, EndStores, NetInv, StoresTypeOK
<1> QED BY <1>1, <1>2, <1>3, <1>4 DEF StoreNext

\* A refund that covers what may be taken back is not negative.
LEMMA NetInvSuffices == NetInv => NetMetering
<1> SUFFICES ASSUME NetInv, stores # NoTx, IsNet(stores)
             PROVE  /\ stores.spent - stores.refund =
                         2 * stores.writes + NetCost(stores.original, stores.present)
                    /\ stores.refund >= 0
  BY DEF NetMetering, IsNet
<1>1. Balanced(stores) /\ stores.refund \in Int
  BY DEF NetInv, StoresTypeOK
<1> QED BY <1>1 DEF Balanced, ToTakeBack

\* The account of every transaction is well typed, and its gas never overdrawn.
THEOREM StoresTypeCorrect == StoreSpec => []StoresTypeOK
<1>1. StoreInit => NetInv
  BY DEF StoreInit, NetInv, StoresTypeOK
<1>2. NetInv => StoresTypeOK
  BY DEF NetInv
<1> QED BY <1>1, <1>2, StepInv, PTL DEF StoreSpec

\* The same of net metering, in any block before Istanbul.
THEOREM NetMeteringHolds == StoreSpec => []NetMetering
<1>1. StoreInit => NetInv
  BY DEF StoreInit, NetInv, StoresTypeOK
<1> QED BY <1>1, StepInv, NetInvSuffices, PTL DEF StoreSpec

(***************************************************************************)
(* Specifications.                                                         *)
(***************************************************************************)
AfterMerge == {"merge", "shanghai", "cancun", "prague", "osaka"}

BeforeIstanbul ==
  {"frontier", "homestead", "tangerine", "spurious_dragon", "byzantium",
   "constantinople", "petersburg"}

\* A few numbers have a greatest one.
LEMMA MaxOfFew ==
  ASSUME NEW S \in SUBSET (1..10), S # {}
  PROVE  Max(S) \in S
<1> DEFINE UpTo(k) == \A y \in S : k >= y
<1>1. UpTo(10) /\ ~UpTo(0)
  <2>1. PICK x \in S : TRUE
    OBVIOUS
  <2>2. ~(0 >= x)
    BY <2>1
  <2> QED BY <2>2
<1>2. \A k \in 1..10 : UpTo(k) => k \in S \/ UpTo(k - 1)
  OBVIOUS
<1>3. \E k \in 1..10 : k \in S /\ UpTo(k)
  <2> HIDE DEF UpTo
  <2>1. UpTo(0) \/ UpTo(5) \/ \E k \in 6..10 : k \in S /\ UpTo(k)
    BY <1>1, <1>2
  <2>2. UpTo(5) => UpTo(0) \/ \E k \in 1..5 : k \in S /\ UpTo(k)
    BY <1>2
  <2> QED BY <1>1, <2>1, <2>2
<1> QED BY <1>3 DEF Max

\* LatestActive gives one of its names, which is active unless it is the first.
LEMMA LatestIsActive ==
  ASSUME NEW g, NEW names, NEW here, DOMAIN names \subseteq 1..10, 1 \in DOMAIN names
  PROVE  \E i \in DOMAIN names :
           /\ LatestActive(g, names, here) = names[i]
           /\ i = 1 \/ ActiveAt(g, names[i], here)
<1> DEFINE S == {1} \cup {i \in DOMAIN names : ActiveAt(g, names[i], here)}
<1>1. S \in SUBSET (1..10) /\ S # {}
  OBVIOUS
<1>2. Max(S) \in S
  <2> HIDE DEF S
  <2> QED BY <1>1, MaxOfFew
<1> QED BY <1>2 DEF LatestActive

LEMMA SpecOrder ==
  /\ DOMAIN SpecIds = 1..15
  /\ SpecIds[8] = "istanbul" /\ SpecIds[9] = "berlin" /\ SpecIds[10] = "london"
  /\ SpecIds[11] = "merge" /\ SpecIds[12] = "shanghai" /\ SpecIds[13] = "cancun"
  /\ SpecIds[14] = "prague" /\ SpecIds[15] = "osaka"
<1>1. DOMAIN SpecIds = 1..15
  BY DEF SpecIds, PreMergeSpecs
<1>2. /\ SpecIds[8] = "istanbul" /\ SpecIds[9] = "berlin" /\ SpecIds[10] = "london"
      /\ SpecIds[11] = "merge" /\ SpecIds[12] = "shanghai"
  BY DEF SpecIds, PreMergeSpecs
<1>3. SpecIds[13] = "cancun" /\ SpecIds[14] = "prague" /\ SpecIds[15] = "osaka"
  BY DEF SpecIds, PreMergeSpecs
<1> QED BY <1>1, <1>2, <1>3

LEMMA MergeIsLate ==
  ASSUME NEW spec \in AfterMerge
  PROVE  SpecAtLeast(spec, "merge") /\ SpecAtLeast(spec, "istanbul")
<1>1. \E j \in 11..15 : SpecIds[j] = spec
  BY SpecOrder DEF AfterMerge
<1> QED BY <1>1, SpecOrder DEF SpecAtLeast

\* After the merge of the genesis, the time decides.
LEMMA SpecAfterMerge ==
  ASSUME NEW g, NEW timestamp, NEW number, ParisActiveAtBlock(g, number),
         NEW spec, spec = RevmSpecByTimestampAndBlockNumber(g, timestamp, number)
  PROVE  spec \in AfterMerge /\ (spec = "cancun" => ActiveAt(g, "cancun", timestamp))
<1> DEFINE names == <<"merge", "shanghai", "cancun", "prague", "osaka">>
<1>1. DOMAIN names = 1..5
  OBVIOUS
<1>2. PICK i \in DOMAIN names :
        /\ LatestActive(g, names, timestamp) = names[i]
        /\ i = 1 \/ ActiveAt(g, names[i], timestamp)
  <2> HIDE DEF names
  <2> QED BY <1>1, LatestIsActive
<1>3. spec = names[i]
  BY <1>2 DEF RevmSpecByTimestampAndBlockNumber
<1>4. names[i] \in AfterMerge /\ (names[i] = "cancun" => i # 1)
  BY <1>1 DEF AfterMerge
<1> QED BY <1>2, <1>3, <1>4

LEMMA SpecBeforeMerge ==
  ASSUME NEW g, NEW number, NEW spec, spec = LatestActive(g, PreMergeSpecs, number),
         ~SpecAtLeast(spec, "istanbul")
  PROVE  spec \in BeforeIstanbul
<1>1. DOMAIN PreMergeSpecs = 1..10
  BY DEF PreMergeSpecs
<1>2. PICK i \in 1..10 : spec = PreMergeSpecs[i]
  BY <1>1, LatestIsActive
<1>3. SpecAtLeast("istanbul", "istanbul") /\ SpecAtLeast("berlin", "istanbul")
        /\ SpecAtLeast("london", "istanbul")
  <2>1. {8, 9, 10} \subseteq DOMAIN SpecIds /\ 8 <= 8 /\ 8 <= 9 /\ 8 <= 10
    BY SpecOrder
  <2>2. SpecAtLeast("istanbul", "istanbul")
    BY <2>1, SpecOrder DEF SpecAtLeast
  <2>3. SpecAtLeast("berlin", "istanbul")
    BY <2>1, SpecOrder DEF SpecAtLeast
  <2>4. SpecAtLeast("london", "istanbul")
    BY <2>1, SpecOrder DEF SpecAtLeast
  <2> QED BY <2>2, <2>3, <2>4
<1> QED BY <1>2, <1>3 DEF PreMergeSpecs, BeforeIstanbul

(***************************************************************************)
(* The chain: what a block says of itself, and the code it leaves.         *)
(***************************************************************************)
Headers ==
  [number : Nat, timestamp : Nat, preMerge : BOOLEAN,
   excess : Nat \cup {None}, blobs : Nat \cup {None},
   withdrawals : BOOLEAN, requests : BOOLEAN]

\* number, phase and blobs of the n-th header are those of its place and time
InPlace(h, n) ==
  /\ h \in Headers
  /\ h.number = n /\ GenesisTime <= h.timestamp
  /\ h.preMerge <=> ~ParisActiveAtBlock(genesis, n)
  /\ h.excess # None <=> ActiveAt(genesis, "cancun", h.timestamp)
  /\ h.blobs # None <=> ActiveAt(genesis, "cancun", h.timestamp)

IsValid(h, parent) ==
  ~h.preMerge => \E blobs \in Nat : h = ValidHeader(parent, h.timestamp, blobs)

(***************************************************************************)
(* The inductive invariant.                                                *)
(***************************************************************************)
ChainInv ==
  /\ genesis \in Geneses
  /\ chain \in Seq(Headers)
  /\ InPlace(Tip, Len(chain))
  /\ chain # <<>> => InPlace(Parent, Len(chain) - 1) /\ IsValid(Tip, Parent)
  /\ CodeFollowsTheFork

LEMMA TimeForksLater ==
  ASSUME genesis \in Geneses, NEW f \in {"cancun", "balancer"}
  PROVE  /\ ~ActiveAt(genesis, f, 0) /\ ~ActiveAt(genesis, f, GenesisTime)
         /\ f \in Range(TimeForks)
<1>1. f \in Range(TimeForks)
  <2>1. DOMAIN TimeForks = 1..5 /\ TimeForks[2] = "cancun" /\ TimeForks[4] = "balancer"
    BY DEF TimeForks
  <2> QED BY <2>1 DEF Range
<1>2. f \in DOMAIN genesis.at => GenesisTime < genesis.at[f] /\ genesis.at[f] \in Nat
  BY <1>1, GenesesAssumption
<1> QED BY <1>1, <1>2, BlockEnvironmentAssumption DEF ActiveAt

\* What is active stays so.
LEMMA ActiveStays ==
  ASSUME genesis \in Geneses, NEW f, NEW s \in Nat, NEW t \in Nat, s <= t,
         ActiveAt(genesis, f, s)
  PROVE  ActiveAt(genesis, f, t)
BY GenesesAssumption DEF ActiveAt

LEMMA InitChain == BEInit => ChainInv
<1> SUFFICES ASSUME BEInit PROVE ChainInv
  OBVIOUS
<1>1. genesis \in Geneses /\ chain = <<>> /\ Len(chain) = 0
      /\ code = [aura |-> "old", balancer |-> "old"]
  BY DEF BEInit
<1>2. Tip = GenesisHeader
  BY <1>1 DEF Tip, HeaderAt
<1>3. ~ActiveAt(genesis, "cancun", GenesisTime) /\ ~ActiveAt(genesis, "balancer", GenesisTime)
  BY <1>1, TimeForksLater
<1>4. GenesisTime \in Nat
  BY BlockEnvironmentAssumption
<1>5. InPlace(GenesisHeader, 0)
  <2>1. ParisActiveAtBlock(genesis, 0) \in BOOLEAN
    BY DEF ParisActiveAtBlock
  <2>2. GenesisHeader \in Headers
    BY <1>4, <2>1 DEF GenesisHeader, Headers
  <2>3. /\ GenesisHeader.number = 0 /\ GenesisHeader.timestamp = GenesisTime
        /\ GenesisHeader.excess = None /\ GenesisHeader.blobs = None
    BY DEF GenesisHeader
  <2>4. GenesisHeader.preMerge = ~ParisActiveAtBlock(genesis, 0)
    BY Zenon DEF GenesisHeader
  <2>5. GenesisTime <= GenesisTime
    BY <1>4
  <2> QED BY <1>3, <2>2, <2>3, <2>4, <2>5 DEF InPlace
<1>6. genesis.rewriteAt # None => genesis.rewriteAt \in Nat /\ 0 < genesis.rewriteAt
  BY <1>1, GenesesAssumption
<1>7. CodeFollowsTheFork
  <2>1. Tip.timestamp = GenesisTime
    BY <1>2 DEF GenesisHeader
  <2>2. ~(genesis.rewriteAt # None /\ Len(chain) >= genesis.rewriteAt)
    BY <1>1, <1>6
  <2> QED BY <1>1, <1>3, <2>1, <2>2 DEF CodeFollowsTheFork
<1> QED BY <1>1, <1>2, <1>5, <1>7 DEF ChainInv

\* A block appended to the chain is its tip, and the old tip its parent.
LEMMA Appended ==
  ASSUME ChainInv, NEW h \in Headers, chain' = Append(chain, h), genesis' = genesis
  PROVE  /\ Len(chain) \in Nat /\ Len(chain') = Len(chain) + 1
         /\ chain' \in Seq(Headers) /\ chain' # <<>>
         /\ Tip' = h /\ Parent' = Tip
<1>1. chain \in Seq(Headers)
  BY DEF ChainInv
<1>2. /\ Len(chain) \in Nat /\ Len(chain') = Len(chain) + 1
      /\ chain' \in Seq(Headers)
      /\ chain'[Len(chain) + 1] = h
      /\ \A n \in 1..Len(chain) : chain'[n] = chain[n]
  BY <1>1
<1>3. Tip' = h
  BY <1>2 DEF Tip, HeaderAt
<1>4. Parent' = Tip
  <2>1. Parent' = IF Len(chain) = 0 THEN GenesisHeader ELSE chain'[Len(chain)]
    BY <1>2 DEF Parent, HeaderAt, GenesisHeader, ParisActiveAtBlock
  <2>2. Len(chain) # 0 => Len(chain) \in 1..Len(chain)
    BY <1>2
  <2> QED BY <1>2, <2>1, <2>2 DEF Tip, HeaderAt
<1> QED BY <1>2, <1>3, <1>4

\* A well-placed block executed on top keeps the invariant: what it does to the
\* code depends on whether its parent's header is found, the result does not.
LEMMA ExecuteChain ==
  ASSUME ChainInv, NEW h \in Headers, NEW found \in BOOLEAN, Execute(h, found),
         InPlace(h, Len(chain) + 1), IsValid(h, Tip), Tip.timestamp <= h.timestamp
  PROVE  ChainInv'
<1>1. /\ chain' = Append(chain, h) /\ genesis' = genesis
      /\ code' = AfterRewrites(genesis, code, h, ParentTimestamp(Tip, found))
  BY DEF Execute
<1>2. /\ Len(chain) \in Nat /\ Len(chain') = Len(chain) + 1
      /\ chain' \in Seq(Headers) /\ chain' # <<>>
      /\ Tip' = h /\ Parent' = Tip
  BY <1>1, Appended
<1>3. genesis \in Geneses /\ InPlace(Tip, Len(chain)) /\ CodeFollowsTheFork
  BY DEF ChainInv
<1>4. (Len(chain') - 1) = Len(chain)
  BY <1>2
<1>5. InPlace(Tip, Len(chain))' /\ InPlace(Parent, Len(chain) - 1)'
  BY <1>1, <1>2, <1>3, <1>4 DEF InPlace, ParisActiveAtBlock
<1>6. IsValid(Tip, Parent)'
  BY <1>1, <1>2 DEF IsValid, ValidHeader
<1>7. code'.balancer = IF ActiveAt(genesis, "balancer", h.timestamp) THEN "new" ELSE "old"
  <2> DEFINE parentTime == ParentTimestamp(Tip, found)
  <2>1. Tip.timestamp \in Nat /\ h.timestamp \in Nat
    BY <1>3 DEF InPlace, Headers
  <2>2. ~ActiveAt(genesis, "balancer", 0)
    BY <1>3, TimeForksLater
  <2>3. ActiveAt(genesis, "balancer", Tip.timestamp) => ActiveAt(genesis, "balancer", h.timestamp)
    BY <1>3, <2>1, ActiveStays
  <2>4. code.balancer = IF ActiveAt(genesis, "balancer", Tip.timestamp) THEN "new" ELSE "old"
    BY <1>3 DEF CodeFollowsTheFork
  <2>5. code'.balancer = IF BalancerRewriteIsDue(genesis, h.timestamp, parentTime)
                         THEN "new" ELSE code.balancer
    BY <1>1 DEF AfterRewrites
  <2>6. parentTime = IF found THEN Tip.timestamp ELSE 0
    BY DEF ParentTimestamp
  <2> QED BY <2>2, <2>3, <2>4, <2>5, <2>6 DEF BalancerRewriteIsDue
<1>8. code'.aura = IF genesis.rewriteAt # None /\ Len(chain) + 1 >= genesis.rewriteAt
                   THEN "new" ELSE "old"
  <2>1. code'.aura = IF h.preMerge /\ h.number = genesis.rewriteAt THEN "new" ELSE code.aura
    BY <1>1 DEF AfterRewrites
  <2>2. h.number = Len(chain) + 1 /\ (h.preMerge <=> ~ParisActiveAtBlock(genesis, Len(chain) + 1))
    BY DEF InPlace
  <2>3. code.aura = IF genesis.rewriteAt # None /\ Len(chain) >= genesis.rewriteAt
                    THEN "new" ELSE "old"
    BY <1>3 DEF CodeFollowsTheFork
  <2>4. /\ genesis.rewriteAt \in Nat \cup {None} /\ genesis.merge \in Nat \cup {None}
        /\ None \notin Nat
        /\ genesis.rewriteAt # None /\ genesis.merge # None => genesis.rewriteAt < genesis.merge
    BY <1>3, GenesesAssumption, BlockEnvironmentAssumption
  <2>5. Len(chain) + 1 = genesis.rewriteAt => ~ParisActiveAtBlock(genesis, Len(chain) + 1)
    BY <1>2, <2>4 DEF ParisActiveAtBlock
  <2>6. CASE Len(chain) + 1 = genesis.rewriteAt
    BY <1>2, <2>1, <2>2, <2>4, <2>5, <2>6
  <2>7. CASE Len(chain) + 1 # genesis.rewriteAt
    BY <1>2, <2>1, <2>2, <2>3, <2>4, <2>7
  <2> QED BY <2>6, <2>7
<1>9. CodeFollowsTheFork'
  BY <1>1, <1>2, <1>7, <1>8 DEF CodeFollowsTheFork, ActiveAt
<1> QED BY <1>1, <1>2, <1>3, <1>5, <1>6, <1>9 DEF ChainInv

LEMMA ExcessType ==
  ASSUME NEW e \in Nat, NEW b \in Nat
  PROVE  NextExcess(e, b) \in Nat /\ NextExcess(0, 0) = 0
<1>1. ASSUME NEW a \in Int PROVE Max({0, a}) = IF a > 0 THEN a ELSE 0
  BY DEF Max
<1>2. TargetBlobs \in Nat
  BY BlockEnvironmentAssumption
<1>3. e + b - TargetBlobs \in Int /\ 0 + 0 - TargetBlobs \in Int
  BY <1>2
<1>4. NextExcess(e, b) = IF e + b - TargetBlobs > 0 THEN e + b - TargetBlobs ELSE 0
  BY <1>1, <1>3 DEF NextExcess
<1>5. NextExcess(0, 0) = IF 0 + 0 - TargetBlobs > 0 THEN 0 + 0 - TargetBlobs ELSE 0
  BY <1>1, <1>3 DEF NextExcess
<1> QED BY <1>2, <1>3, <1>4, <1>5

LEMMA NextTime ==
  ASSUME ChainInv, NEW gap \in Gaps, NEW t, t = Tip.timestamp + gap
  PROVE  t \in Nat /\ Tip.timestamp <= t /\ GenesisTime <= t
<1>1. gap \in Nat /\ GenesisTime \in Nat
  BY BlockEnvironmentAssumption
<1>2. Tip.timestamp \in Nat /\ GenesisTime <= Tip.timestamp
  BY DEF ChainInv, InPlace, Headers
<1> QED BY <1>1, <1>2

LEMMA SyncChain ==
  ASSUME ChainInv, NEW gap \in Gaps, NEW found \in BOOLEAN, SyncPreMergeBlock(gap, found)
  PROVE  ChainInv'
<1> DEFINE t == Tip.timestamp + gap
           n == Len(chain) + 1
           h == [GenesisHeader EXCEPT !.number = n, !.timestamp = t, !.preMerge = TRUE]
<1>1. t \in Nat /\ Tip.timestamp <= t /\ GenesisTime <= t
  BY NextTime
<1>2. n \in Nat /\ Len(chain) \in Nat
  BY DEF ChainInv
<1>3. Phase(n, t) = "pre" /\ Execute(h, found)
  BY DEF SyncPreMergeBlock
<1>4. ~ParisActiveAtBlock(genesis, n) /\ ~ActiveAt(genesis, "cancun", t)
  <2>1. genesis \in Geneses
    BY DEF ChainInv
  <2> QED BY <1>3, <2>1, TimeForksLater DEF Phase
<1>5. /\ h.number = n /\ h.timestamp = t /\ h.preMerge = TRUE
      /\ h.excess = None /\ h.blobs = None /\ h \in Headers
  BY <1>1, <1>2 DEF GenesisHeader, Headers
<1>6. InPlace(h, n) /\ IsValid(h, Tip)
  BY <1>1, <1>4, <1>5 DEF InPlace, IsValid
<1> HIDE DEF h
<1> QED BY <1>1, <1>3, <1>5, <1>6, ExecuteChain

LEMMA ExtendChain ==
  ASSUME ChainInv, NEW gap \in Gaps, NEW found \in BOOLEAN, NEW blobs \in BlobCounts,
         ExtendPostMerge(gap, blobs, found)
  PROVE  ChainInv'
<1> DEFINE t == Tip.timestamp + gap
           n == Len(chain) + 1
           h == ValidHeader(Tip, t, blobs)
           cancun == ActiveAt(genesis, "cancun", t)
<1>1. t \in Nat /\ Tip.timestamp <= t /\ GenesisTime <= t
  BY NextTime
<1>2. n \in Nat /\ Len(chain) \in Nat /\ blobs \in Nat /\ None \notin Nat
  BY BlockEnvironmentAssumption DEF ChainInv
<1>3. Phase(n, t) = "post" /\ Execute(h, found)
  BY DEF ExtendPostMerge
<1>4. ParisActiveAtBlock(genesis, n)
  BY <1>3 DEF Phase
<1>5. /\ Tip.number = Len(chain)
      /\ Tip.excess \in Nat \cup {None} /\ Tip.blobs \in Nat \cup {None}
      /\ Tip.excess # None <=> Tip.blobs # None
  BY DEF ChainInv, InPlace, Headers
<1>6. Tip.excess # None => NextExcess(Tip.excess, Tip.blobs) \in Nat
  BY <1>5, ExcessType
<1>7. /\ h.number = n /\ h.timestamp = t /\ h.preMerge = FALSE
      /\ h.excess = IF ~cancun THEN None ELSE IF Tip.excess = None THEN 0
                    ELSE NextExcess(Tip.excess, Tip.blobs)
      /\ h.blobs = IF cancun THEN blobs ELSE None
  BY <1>5 DEF ValidHeader
<1>8. h.excess \in Nat \cup {None} /\ (h.excess # None <=> cancun)
  BY <1>2, <1>6, <1>7
<1>9. h.blobs \in Nat \cup {None} /\ (h.blobs # None <=> cancun)
  BY <1>2, <1>7
<1>10. h \in Headers
  <2>1. ActiveAt(genesis, "shanghai", t) \in BOOLEAN /\ ActiveAt(genesis, "prague", t) \in BOOLEAN
    BY DEF ActiveAt
  <2>2. h = [number |-> h.number, timestamp |-> h.timestamp, preMerge |-> FALSE,
             excess |-> h.excess, blobs |-> h.blobs,
             withdrawals |-> ActiveAt(genesis, "shanghai", t),
             requests |-> ActiveAt(genesis, "prague", t)]
    BY DEF ValidHeader
  <2>3. h.number \in Nat /\ h.timestamp \in Nat
    BY <1>1, <1>2, <1>7
  <2>4. \A number, timestamp \in Nat, excess, blob \in Nat \cup {None},
           withdrawals, requests \in BOOLEAN :
          [number |-> number, timestamp |-> timestamp, preMerge |-> FALSE,
           excess |-> excess, blobs |-> blob,
           withdrawals |-> withdrawals, requests |-> requests] \in Headers
    BY DEF Headers
  <2> HIDE DEF h, t
  <2> QED BY <1>8, <1>9, <2>1, <2>2, <2>3, <2>4
<1>11. InPlace(h, n) /\ IsValid(h, Tip)
  <2>1. h = ValidHeader(Tip, h.timestamp, blobs)
    BY <1>7
  <2> HIDE DEF h
  <2> QED BY <1>1, <1>2, <1>4, <1>7, <1>8, <1>9, <1>10, <2>1 DEF InPlace, IsValid
<1> HIDE DEF h
<1> QED BY <1>1, <1>3, <1>7, <1>10, <1>11, ExecuteChain

LEMMA NextChain ==
  ASSUME ChainInv, [BENext]_vars
  PROVE  ChainInv'
<1>1. CASE \E gap \in Gaps, found \in BOOLEAN : SyncPreMergeBlock(gap, found)
  BY <1>1, SyncChain
<1>2. CASE \E gap \in Gaps, found \in BOOLEAN, blobs \in BlobCounts :
             ExtendPostMerge(gap, blobs, found)
  BY <1>2, ExtendChain
<1>3. CASE UNCHANGED <<genesis, chain, code>>
  <2>1. Tip' = Tip /\ Parent' = Parent
    BY <1>3 DEF Tip, Parent, HeaderAt, GenesisHeader, ParisActiveAtBlock
  <2>2. CodeFollowsTheFork'
    BY <1>3, <2>1 DEF ChainInv, CodeFollowsTheFork, ActiveAt
  <2>3. ASSUME NEW h, NEW n PROVE InPlace(h, n)' = InPlace(h, n)
    BY <1>3 DEF InPlace, ParisActiveAtBlock, ActiveAt
  <2>4. ASSUME NEW h, NEW parent PROVE IsValid(h, parent)' = IsValid(h, parent)
    BY <1>3 DEF IsValid, ValidHeader
  <2> QED BY <1>3, <2>1, <2>2, <2>3, <2>4 DEF ChainInv
<1> QED BY <1>1, <1>2, <1>3 DEF BENext, vars

\* Accounts have their new code from the fork on and not before, whether or not
\* the header of a parent is found (rewrite_bytecodes, context_for_block).
THEOREM CodeIsRewrittenInTime == BESpec => []CodeFollowsTheFork
<1>1. ChainInv => CodeFollowsTheFork
  BY DEF ChainInv
<1> QED BY <1>1, InitChain, NextChain, PTL DEF BESpec

(***************************************************************************)
(* The three routes to an environment.                                     *)
(***************************************************************************)
\* While it is built, a block has the price of blobs it has in its header.
LEMMA BuiltExcess ==
  ASSUME ChainInv, chain # <<>>, ~Tip.preMerge,
         NEW spec, spec = RevmSpecByTimestampAndBlockNumber(genesis, Tip.timestamp, Tip.number),
         NEW next, next = MaybeNextBlockExcess(Parent, HasBlobParams(genesis, Tip.timestamp))
  PROVE  /\ \/ (IF next = None /\ spec = "cancun" THEN 0 ELSE next)
               = IF HasBlobParams(genesis, Tip.timestamp) THEN Tip.excess ELSE None
            \/ Tip.excess # None /\ Parent.excess = None /\ spec # "cancun"
         /\ ActiveAt(genesis, "cancun", Tip.timestamp) /\ Parent.excess # None
              => next = Tip.excess
<1>1. /\ InPlace(Tip, Len(chain)) /\ InPlace(Parent, Len(chain) - 1) /\ IsValid(Tip, Parent)
      /\ None \notin Nat
  BY BlockEnvironmentAssumption DEF ChainInv
<1>2. PICK blobs \in Nat : Tip = ValidHeader(Parent, Tip.timestamp, blobs)
  BY <1>1 DEF IsValid
<1> DEFINE cancun == ActiveAt(genesis, "cancun", Tip.timestamp)
<1>3. Tip.excess = IF ~cancun THEN None ELSE IF Parent.excess = None THEN 0
                   ELSE NextExcess(Parent.excess, Parent.blobs)
  BY <1>2 DEF ValidHeader
<1>4. Parent.excess # None => NextExcess(Parent.excess, Parent.blobs) \in Nat
  BY <1>1, ExcessType DEF InPlace, Headers
<1>5. next = IF cancun /\ Parent.excess # None
             THEN NextExcess(Parent.excess, Parent.blobs) ELSE None
  BY DEF MaybeNextBlockExcess, HasBlobParams
<1>6. spec = "cancun" => cancun
  <2>1. ParisActiveAtBlock(genesis, Tip.number)
    BY <1>1 DEF InPlace
  <2> QED BY <2>1, SpecAfterMerge
<1> QED BY <1>1, <1>3, <1>4, <1>5, <1>6 DEF HasBlobParams

\* What assemble_block makes of the environment is the header.
LEMMA Assembled ==
  ASSUME ChainInv, chain # <<>>, ~Tip.preMerge
  PROVE  AssembleBlock(genesis, Parent, NextEvmEnv(genesis, Parent, Tip.timestamp),
                       IF Tip.blobs = None THEN 0 ELSE Tip.blobs) = Tip
<1>1. /\ InPlace(Tip, Len(chain)) /\ InPlace(Parent, Len(chain) - 1) /\ IsValid(Tip, Parent)
      /\ None \notin Nat /\ genesis \in Geneses
  BY BlockEnvironmentAssumption DEF ChainInv
<1>2. PICK blobs \in Nat : Tip = ValidHeader(Parent, Tip.timestamp, blobs)
  BY <1>1 DEF IsValid
<1> DEFINE t      == Tip.timestamp
           env    == NextEvmEnv(genesis, Parent, t)
           cancun == ActiveAt(genesis, "cancun", t)
           next   == MaybeNextBlockExcess(Parent, HasBlobParams(genesis, t))
           b      == IF Tip.blobs = None THEN 0 ELSE Tip.blobs
           excess == IF ~cancun THEN None
                     ELSE IF ActiveAt(genesis, "cancun", Parent.timestamp) THEN next
                     ELSE NextExcess(0, 0)
<1>3. env.block.number = Parent.number + 1 /\ env.block.timestamp = t
  BY DEF NextEvmEnv, BlockEnv
<1>4. AssembleBlock(genesis, Parent, env, b) =
        [number |-> Parent.number + 1, timestamp |-> t, preMerge |-> FALSE,
         excess |-> excess, blobs |-> IF cancun THEN b ELSE None,
         withdrawals |-> ActiveAt(genesis, "shanghai", t),
         requests |-> ActiveAt(genesis, "prague", t)]
  BY <1>3 DEF AssembleBlock
<1>5. Tip = [number |-> Parent.number + 1, timestamp |-> t, preMerge |-> FALSE,
             excess |-> Tip.excess, blobs |-> IF cancun THEN blobs ELSE None,
             withdrawals |-> ActiveAt(genesis, "shanghai", t),
             requests |-> ActiveAt(genesis, "prague", t)]
  <2> HIDE DEF t
  <2>1. Tip.excess = ValidHeader(Parent, t, blobs).excess /\ Tip = ValidHeader(Parent, t, blobs)
    BY <1>2 DEF t
  <2> QED BY <2>1 DEF ValidHeader
<1>6. cancun => b = blobs
  BY <1>1, <1>5
<1>7. excess = Tip.excess
  <2>1. /\ Parent.excess # None <=> ActiveAt(genesis, "cancun", Parent.timestamp)
        /\ Tip.excess # None <=> cancun
    BY <1>1 DEF InPlace
  <2>2. cancun /\ Parent.excess # None => next = Tip.excess
    BY BuiltExcess
  <2>3. cancun /\ Parent.excess = None => Tip.excess = 0
    BY <1>2 DEF ValidHeader
  <2>4. NextExcess(0, 0) = 0
    BY ExcessType
  <2> QED BY <2>1, <2>2, <2>3, <2>4
<1> QED BY <1>4, <1>5, <1>6, <1>7

\* The override is the default contract, if there is one at all.
LEMMA RewardsAlike ==
  ASSUME ChainInv, ParisActiveAtBlock(genesis, Len(chain))
  PROVE  RewardContract(genesis, RewardsOverride(genesis, Len(chain)))
           = RewardContract(genesis, None)
<1>1. genesis \in Geneses /\ Len(chain) \in Nat
  BY DEF ChainInv
<1> DEFINE past == {n \in DOMAIN genesis.rewards : n <= Len(chain)}
<1>2. CASE past = {}
  BY <1>2 DEF RewardsOverride
<1>3. CASE past # {}
  <2>1. genesis.rewards # <<>>
    BY <1>3
  <2>2. /\ genesis.merge # None /\ genesis.merge \in Nat
        /\ DOMAIN genesis.rewards \subseteq 0..genesis.merge
        /\ genesis.rewards[Max(DOMAIN genesis.rewards)] = genesis.defaultReward
    BY <1>1, <2>1, GenesesAssumption
  <2>3. genesis.merge <= Len(chain)
    BY DEF ParisActiveAtBlock
  <2>4. past = DOMAIN genesis.rewards
    BY <1>1, <2>2, <2>3
  <2>5. RewardsOverride(genesis, Len(chain)) = genesis.defaultReward
    BY <1>3, <2>2, <2>4 DEF RewardsOverride
  <2> QED BY <2>5 DEF RewardContract
<1> QED BY <1>2, <1>3

\* A synced block, a payload and a block that is built have one environment (but
\* for the blob price of a first block that skips Cancun), assemble_block makes
\* the header that consensus accepts, and the context's reward contract is the
\* one without an override.
THEOREM AllRoutesAgree == BESpec => []RoutesAgree
<1>1. ChainInv => RoutesAgree
  <2> SUFFICES ASSUME ChainInv, chain # <<>>, ~Tip.preMerge
               PROVE  /\ EnvOfPayload(genesis, Tip) = EnvOfHeader(genesis, Tip)
                      /\ \/ NextEvmEnv(genesis, Parent, Tip.timestamp) = EnvOfHeader(genesis, Tip)
                         \/ SkipsCancun(Parent, Tip)
                      /\ AssembleBlock(genesis, Parent, NextEvmEnv(genesis, Parent, Tip.timestamp),
                                       IF Tip.blobs = None THEN 0 ELSE Tip.blobs) = Tip
                      /\ RewardContract(genesis, RewardsOverride(genesis, Tip.number))
                           = RewardContract(genesis, None)
    BY DEF RoutesAgree
  <2>1. /\ InPlace(Tip, Len(chain)) /\ InPlace(Parent, Len(chain) - 1) /\ Len(chain) \in Nat
    BY DEF ChainInv
  <2>2. /\ Tip.preMerge = FALSE /\ Tip.number = Len(chain) /\ Parent.number + 1 = Tip.number
        /\ ParisActiveAtBlock(genesis, Tip.number)
    BY <2>1 DEF InPlace, Headers
  <2> DEFINE spec == RevmSpecByTimestampAndBlockNumber(genesis, Tip.timestamp, Tip.number)
             next == MaybeNextBlockExcess(Parent, HasBlobParams(genesis, Tip.timestamp))
  <2>3. GnosisRevmSpec(genesis, Tip) = spec
    BY <2>2 DEF GnosisRevmSpec
  <2>4. EnvOfPayload(genesis, Tip) = EnvOfHeader(genesis, Tip)
    BY <2>2, <2>3 DEF EnvOfPayload, EnvOfHeader
  <2>5. SpecAtLeast(spec, "merge") = TRUE
    <3>1. spec \in AfterMerge
      BY <2>2, SpecAfterMerge
    <3>2. SpecAtLeast(spec, "merge") \in BOOLEAN
      BY DEF SpecAtLeast
    <3> HIDE DEF spec
    <3> QED BY <3>1, <3>2, MergeIsLate
  <2>6. EnvOfHeader(genesis, Tip) =
          [cfg   |-> CfgEnv(genesis, spec, Tip.timestamp, FALSE),
           block |-> BlockEnv(Tip.number, Tip.timestamp, TRUE,
                              IF HasBlobParams(genesis, Tip.timestamp) THEN Tip.excess ELSE None)]
    BY <2>2, <2>3, <2>5 DEF EnvOfHeader
  <2>7. NextEvmEnv(genesis, Parent, Tip.timestamp) =
          [cfg   |-> CfgEnv(genesis, spec, Tip.timestamp, FALSE),
           block |-> BlockEnv(Tip.number, Tip.timestamp, TRUE,
                              IF next = None /\ spec = "cancun" THEN 0 ELSE next)]
    BY <2>2 DEF NextEvmEnv
  <2>8. \/ (IF next = None /\ spec = "cancun" THEN 0 ELSE next)
             = IF HasBlobParams(genesis, Tip.timestamp) THEN Tip.excess ELSE None
        \/ SkipsCancun(Parent, Tip)
    BY <2>3, BuiltExcess DEF SkipsCancun
  <2> QED BY <2>2, <2>4, <2>6, <2>7, <2>8, Assembled, RewardsAlike
<1> QED BY <1>1, InitChain, NextChain, PTL DEF BESpec


\* A block of the chain in which net metering is in question is before the merge.
LEMMA HeadIsOld ==
  ASSUME ChainInv
  PROVE  HeadEnvs \subseteq Envs
<1> SUFFICES ASSUME NEW e \in HeadEnvs PROVE e \in Envs
  OBVIOUS
<1> DEFINE spec == GnosisRevmSpec(genesis, Tip)
<1>0. /\ ~SpecAtLeast(spec, "istanbul")
      /\ e = [spec |-> spec, preMerge |-> Tip.preMerge]
  BY DEF HeadEnvs
<1>1. InPlace(Tip, Len(chain)) /\ Tip.preMerge \in BOOLEAN
  BY DEF ChainInv, InPlace, Headers
<1>2. CASE Tip.preMerge = TRUE
  <2>1. spec = LatestActive(genesis, PreMergeSpecs, Tip.number)
    BY <1>2 DEF GnosisRevmSpec
  <2>2. spec \in BeforeIstanbul
    BY <1>0, <2>1, SpecBeforeMerge
  <2> HIDE DEF spec
  <2> QED BY <1>0, <1>2, <2>2 DEF Envs, BeforeIstanbul
<1>3. CASE Tip.preMerge = FALSE
  <2>1. ParisActiveAtBlock(genesis, Tip.number)
    BY <1>1, <1>3 DEF InPlace
  <2>2. spec = RevmSpecByTimestampAndBlockNumber(genesis, Tip.timestamp, Tip.number)
    BY <1>3 DEF GnosisRevmSpec
  <2>3. spec \in AfterMerge
    BY <2>1, <2>2, SpecAfterMerge
  <2> QED BY <1>0, <2>3, MergeIsLate
<1> QED BY <1>1, <1>2, <1>3

\* In every block of every chain, a transaction's writes in Constantinople cost
\* 200 gas each and what the change of the slot costs from beginning to end, and
\* are never refunded less than nothing (sstore_eip1283 with get_cfg_env).
THEOREM ChainIsNetMetered == BESpec => []NetMetering
<1>1. BEInit => ChainInv /\ NetInv
  BY InitChain DEF BEInit, StoreInit, NetInv, StoresTypeOK
<1>2. ChainInv /\ NetInv /\ [BENext]_vars => (ChainInv /\ NetInv)'
  <2> SUFFICES ASSUME ChainInv, NetInv, [BENext]_vars PROVE NetInv'
    BY NextChain
  <2>1. CASE StoreNext(HeadEnvs)
    <3>1. StoreNext(Envs)
      BY <2>1, HeadIsOld DEF StoreNext
    <3> QED BY <3>1, StepInv
  <2>2. CASE UNCHANGED stores
    BY <2>2, StepInv
  <2>3. StoreNext(HeadEnvs) \/ UNCHANGED stores
    BY DEF BENext, vars, SyncPreMergeBlock, ExtendPostMerge, Execute
  <2> QED BY <2>1, <2>2, <2>3
<1>3. NetInv => NetMetering
  BY NetInvSuffices
<1> QED BY <1>1, <1>2, <1>3, PTL DEF BESpec

(***************************************************************************)
(* Folds over the forks.                                                   *)
(*                                                                         *)
(* A fold is a recursive function that CHOOSE picks: first that there is   *)
(* one, then what it gives from one point to the next.                     *)
(***************************************************************************)
Picking(S) == [of |-> "pick", S |-> S]

Adding == [of |-> "add"]

\* what a fold makes of t with its next element
Taken(k, t, x) ==
  IF k.of = "pick" THEN (IF x \in k.S THEN Append(t, x) ELSE t)
  ELSE IF x = CurrentApplied(t) THEN t ELSE Append(t, x)

FoldsTo(k, base, it, seq, n) ==
  it = [s \in SUBSET (1..n) |->
          IF s = {} THEN base ELSE Taken(k, it[s \ {Max(s)}], seq[Max(s)])]

\* t is what the fold has made of the first i elements, for i from 0 to n
IsRun(k, base, seq, t) ==
  /\ t[0] = base
  /\ \A i \in 1..Len(seq) : t[i] = Taken(k, t[i - 1], seq[i])

\* A non-empty set of numbers has a least element.
LEMMA LeastNumber ==
  ASSUME NEW T \in SUBSET Nat, T # {}
  PROVE  \E x \in T : \A y \in T : x <= y
<1> DEFINE R == {ss \in Nat \X Nat : ss[1] < ss[2]}
<1>1. IsWellFoundedOn(R, Nat)
  BY NatLessThanWellFounded DEF OpToRel
<1>2. PICK x \in T : \A y \in T : ~(<<y, x>> \in R)
  <2> HIDE DEF R
  <2> QED BY <1>1, WFMin
<1>3. ASSUME NEW y \in T PROVE x <= y
  <2>1. <<y, x>> \notin R BY <1>2
  <2>2. <<y, x>> \in Nat \X Nat OBVIOUS
  <2> QED BY <2>1, <2>2
<1> QED BY <1>3

\* Induction up to n, over the set of numbers that have the property.
LEMMA UpTo ==
  ASSUME NEW n \in Nat, NEW S, 0 \in S, \A i \in 1..n : i - 1 \in S => i \in S
  PROVE  0..n \subseteq S
<1> SUFFICES ASSUME NEW m \in 0..n, m \notin S PROVE FALSE
  OBVIOUS
<1> DEFINE T == {i \in 0..n : i \notin S}
<1>1. T \in SUBSET Nat /\ T # {}
  OBVIOUS
<1>2. PICK i \in T : \A j \in T : i <= j
  <2> HIDE DEF T
  <2> QED BY <1>1, LeastNumber
<1>3. i # 0 /\ i \in 1..n
  BY <1>2
<1>4. i - 1 \in 0..n /\ i - 1 \notin T
  BY <1>2, <1>3
<1> QED BY <1>2, <1>3, <1>4

\* Least and greatest of a set of numbers.
LEMMA MinIs ==
  ASSUME NEW S \in SUBSET Nat, S # {}
  PROVE  Min(S) \in S /\ \A y \in S : Min(S) <= y
<1>1. \E x \in S : \A y \in S : x =< y
  BY LeastNumber
<1> QED BY <1>1 DEF Min

LEMMA MaxIs ==
  ASSUME NEW n \in Nat, NEW S \in SUBSET (0..n), S # {}
  PROVE  Max(S) \in S /\ \A y \in S : y <= Max(S)
<1> DEFINE T == {n - i : i \in S}
<1>1. T \in SUBSET Nat /\ T # {}
  <2>1. \A i \in S : n - i \in Nat OBVIOUS
  <2>2. T \subseteq Nat BY <2>1
  <2>3. PICK i \in S : TRUE OBVIOUS
  <2>4. n - i \in T BY <2>3
  <2> QED BY <2>2, <2>4
<1>2. PICK d \in T : \A e \in T : d <= e
  <2> HIDE DEF T
  <2> QED BY <1>1, LeastNumber
<1>3. PICK x \in S : d = n - x BY <1>2
<1>4. ASSUME NEW y \in S PROVE x >= y
  <2>1. n - y \in T OBVIOUS
  <2>2. n - x <= n - y BY <1>2, <1>3, <2>1
  <2> QED BY <2>2
<1>5. \E m \in S : \A y \in S : m >= y
  BY <1>4
<1> QED BY <1>5 DEF Max

\* The recursion is well founded: the greatest index goes last.
LEMMA FoldsExist ==
  ASSUME NEW k, NEW base, NEW seq, NEW n \in Nat
  PROVE  \E it : FoldsTo(k, base, it, seq, n)
<1> DEFINE Step(it, s) == IF s = {} THEN base ELSE Taken(k, it[s \ {Max(s)}], seq[Max(s)])
           P(m) == \E it : it = [s \in SUBSET (1..m) |-> Step(it, s)]
           S == {m \in Nat : P(m)}
<1>1. P(0)
  <2> DEFINE it == [s \in SUBSET (1..0) |-> base]
  <2>1. \A s \in SUBSET (1..0) : Step(it, s) = base
    OBVIOUS
  <2>2. it = [s \in SUBSET (1..0) |-> Step(it, s)]
    <3> HIDE DEF Step
    <3> QED BY <2>1
  <2> QED BY <2>2
<1>2. ASSUME NEW m \in Nat, P(m) PROVE P(m + 1)
  <2>1. PICK it : it = [s \in SUBSET (1..m) |-> Step(it, s)]
    BY <1>2
  <2> DEFINE it2 == [s \in SUBSET (1..(m + 1)) |-> Step(it, s)]
  <2>2. ASSUME NEW s \in SUBSET (1..m) PROVE it2[s] = it[s]
    <3>1. s \in SUBSET (1..(m + 1))
      OBVIOUS
    <3> HIDE DEF Step
    <3> QED BY <2>1, <3>1
  <2>3. ASSUME NEW s \in SUBSET (1..(m + 1)) PROVE Step(it, s) = Step(it2, s)
    <3>1. CASE s = {}
      BY <3>1
    <3>2. CASE s # {}
      <4>1. Max(s) \in s /\ \A y \in s : y <= Max(s)
        <5>1. s \in SUBSET (0..(m + 1)) /\ m + 1 \in Nat
          OBVIOUS
        <5> QED BY <3>2, <5>1, MaxIs
      <4>2. s \ {Max(s)} \in SUBSET (1..m)
        <5> SUFFICES ASSUME NEW y \in s, y # Max(s) PROVE y \in 1..m
          OBVIOUS
        <5>1. y \in 1..(m + 1) /\ Max(s) \in 1..(m + 1) /\ y <= Max(s)
          BY <4>1
        <5> QED BY <5>1
      <4>3. it2[s \ {Max(s)}] = it[s \ {Max(s)}]
        BY <2>2, <4>2
      <4> HIDE DEF it2
      <4> QED BY <4>3
    <3> QED BY <3>1, <3>2
  <2>4. it2 = [s \in SUBSET (1..(m + 1)) |-> Step(it2, s)]
    <3>1. \A s \in SUBSET (1..(m + 1)) : Step(it, s) = Step(it2, s)
      BY <2>3
    <3> HIDE DEF Step
    <3> QED BY <3>1
  <2> QED BY <2>4
<1>3. 0..n \subseteq S
  <2> HIDE DEF P
  <2>1. 0 \in S
    BY <1>1
  <2>2. ASSUME NEW i \in 1..n, i - 1 \in S PROVE i \in S
    <3>1. i - 1 \in Nat /\ (i - 1) + 1 = i /\ P(i - 1)
      BY <2>2
    <3>2. P((i - 1) + 1)
      BY <1>2, <3>1
    <3> QED BY <3>1, <3>2
  <2> HIDE DEF S
  <2> QED BY <2>1, <2>2, UpTo
<1>4. PICK it : it = [s \in SUBSET (1..n) |-> Step(it, s)]
  <2>1. n \in S
    <3> HIDE DEF S
    <3> QED BY <1>3
  <2>2. P(n)
    <3> HIDE DEF P
    <3> QED BY <2>1
  <2> HIDE DEF Step
  <2> QED BY <2>2
<1> QED BY <1>4 DEF FoldsTo

\* It goes through the elements in their order.
LEMMA FoldsRun ==
  ASSUME NEW k, NEW base, NEW seq, Len(seq) \in Nat, NEW it,
         FoldsTo(k, base, it, seq, Len(seq))
  PROVE  IsRun(k, base, seq, [i \in 0..Len(seq) |-> it[1..i]])
<1> DEFINE n == Len(seq)
           t == [i \in 0..n |-> it[1..i]]
<1>1. t[0] = base
  <2>1. 1..0 = {} /\ {} \in SUBSET (1..n) /\ t[0] = it[1..0]
    OBVIOUS
  <2> QED BY <2>1 DEF FoldsTo
<1>2. ASSUME NEW i \in 1..n PROVE t[i] = Taken(k, t[i - 1], seq[i])
  <2>1. 1..i \in SUBSET (1..n) /\ 1..i # {} /\ i \in 1..i
    OBVIOUS
  <2>2. Max(1..i) = i
    <3>1. 1..i \in SUBSET (0..i) /\ i \in Nat
      OBVIOUS
    <3>2. Max(1..i) \in 1..i /\ i <= Max(1..i)
      BY <2>1, <3>1, MaxIs
    <3> QED BY <3>2
  <2>3. (1..i) \ {i} = 1..(i - 1)
    OBVIOUS
  <2>4. it[1..i] = Taken(k, it[(1..i) \ {Max(1..i)}], seq[Max(1..i)])
    BY <2>1 DEF FoldsTo
  <2>5. t[i] = it[1..i] /\ t[i - 1] = it[1..(i - 1)]
    OBVIOUS
  <2> QED BY <2>2, <2>3, <2>4, <2>5
<1> QED BY <1>1, <1>2 DEF IsRun

\* The folds of the module.
LEMMA PickedRuns ==
  ASSUME NEW X, NEW seq \in Seq(X), NEW S
  PROVE  \E t : IsRun(Picking(S), <<>>, seq, t) /\ Picked(seq, S) = t[Len(seq)]
<1> DEFINE Step(it, s) ==
             IF s = {} THEN <<>>
             ELSE IF seq[Max(s)] \in S THEN Append(it[s \ {Max(s)}], seq[Max(s)])
                                       ELSE it[s \ {Max(s)}]
           kind == Picking(S)
           n == Len(seq)
<1>1. n \in Nat /\ DOMAIN seq = 1..n
  OBVIOUS
<1>2. Picked(seq, S) = (CHOOSE it : it = [s \in SUBSET DOMAIN seq |-> Step(it, s)])[DOMAIN seq]
  BY DEF Picked, FoldLeft, MapThenFoldSet
<1>3. \A it, s : Step(it, s) =
        IF s = {} THEN <<>> ELSE Taken(kind, it[s \ {Max(s)}], seq[Max(s)])
  BY DEF Taken, Picking
<1>4. PICK it : FoldsTo(kind, <<>>, it, seq, n)
  <2> HIDE DEF kind
  <2> QED BY <1>1, FoldsExist
<1> DEFINE result == CHOOSE r : r = [s \in SUBSET DOMAIN seq |-> Step(r, s)]
<1> HIDE DEF Step, kind
<1>5. it = [s \in SUBSET DOMAIN seq |-> Step(it, s)]
  BY <1>1, <1>3, <1>4 DEF FoldsTo
<1>6. result = [s \in SUBSET DOMAIN seq |-> Step(result, s)]
  BY <1>5
<1>7. Picked(seq, S) = result[1..n]
  BY <1>1, <1>2
<1> HIDE DEF result
<1>8. FoldsTo(kind, <<>>, result, seq, n)
  BY <1>1, <1>3, <1>6 DEF FoldsTo
<1>9. IsRun(kind, <<>>, seq, [i \in 0..n |-> result[1..i]])
  BY <1>1, <1>8, FoldsRun
<1>10. [i \in 0..n |-> result[1..i]][n] = result[1..n]
  BY <1>1
<1> QED BY <1>7, <1>9, <1>10 DEF kind

LEMMA AddPointsRuns ==
  ASSUME NEW X, NEW points \in Seq(X), NEW hash
  PROVE  \E t : IsRun(Adding, hash, points, t) /\ AddPoints(hash, points) = t[Len(points)]
<1> DEFINE Step(it, s) ==
             IF s = {} THEN hash
             ELSE IF points[Max(s)] = CurrentApplied(it[s \ {Max(s)}]) THEN it[s \ {Max(s)}]
                  ELSE Append(it[s \ {Max(s)}], points[Max(s)])
           n == Len(points)
<1>1. n \in Nat /\ DOMAIN points = 1..n
  OBVIOUS
<1>2. AddPoints(hash, points) =
        (CHOOSE it : it = [s \in SUBSET DOMAIN points |-> Step(it, s)])[DOMAIN points]
  BY DEF AddPoints, FoldLeft, MapThenFoldSet
<1>3. \A it, s : Step(it, s) =
        IF s = {} THEN hash ELSE Taken(Adding, it[s \ {Max(s)}], points[Max(s)])
  BY DEF Taken, Adding
<1>4. PICK it : FoldsTo(Adding, hash, it, points, n)
  BY <1>1, FoldsExist
<1> DEFINE result == CHOOSE r : r = [s \in SUBSET DOMAIN points |-> Step(r, s)]
<1> HIDE DEF Step
<1>5. it = [s \in SUBSET DOMAIN points |-> Step(it, s)]
  BY <1>1, <1>3, <1>4 DEF FoldsTo
<1>6. result = [s \in SUBSET DOMAIN points |-> Step(result, s)]
  BY <1>5
<1>7. AddPoints(hash, points) = result[1..n]
  BY <1>1, <1>2
<1> HIDE DEF result
<1>8. FoldsTo(Adding, hash, result, points, n)
  BY <1>1, <1>3, <1>6 DEF FoldsTo
<1>9. IsRun(Adding, hash, points, [i \in 0..n |-> result[1..i]])
  BY <1>1, <1>8, FoldsRun
<1>10. [i \in 0..n |-> result[1..i]][n] = result[1..n]
  BY <1>1
<1> QED BY <1>7, <1>9, <1>10

\* t is what is in S of the first n elements; pos says where each was
PickedBy(pos, t, seq, S, n) ==
  /\ pos \in [1..Len(t) -> 1..n]
  /\ \A i \in 1..Len(t) : t[i] = seq[pos[i]] /\ seq[pos[i]] \in S
  /\ \A i, j \in 1..Len(t) : i < j => pos[i] < pos[j]
  /\ \A m \in 1..n : seq[m] \in S => \E i \in 1..Len(t) : pos[i] = m

LEMMA PickedIs ==
  ASSUME NEW X, NEW seq \in Seq(X), NEW S
  PROVE  /\ Picked(seq, S) \in Seq(X)
         /\ \E pos : PickedBy(pos, Picked(seq, S), seq, S, Len(seq))
<1> DEFINE n == Len(seq)
           Q(i, t) == t \in Seq(X) /\ \E pos : PickedBy(pos, t, seq, S, i)
<1>1. n \in Nat /\ \A i \in 1..n : seq[i] \in X
  OBVIOUS
<1>2. PICK t : IsRun(Picking(S), <<>>, seq, t) /\ Picked(seq, S) = t[n]
  BY PickedRuns
<1>3. /\ t[0] = <<>>
      /\ \A i \in 1..n : t[i] = IF seq[i] \in S THEN Append(t[i - 1], seq[i]) ELSE t[i - 1]
  BY <1>2 DEF IsRun, Taken, Picking
<1>4. Q(0, t[0])
  <2>1. PickedBy(<<>>, <<>>, seq, S, 0)
    BY DEF PickedBy
  <2> QED BY <1>3, <2>1
<1>5. ASSUME NEW i \in 1..n, Q(i - 1, t[i - 1]) PROVE Q(i, t[i])
  <2>1. PICK pos : PickedBy(pos, t[i - 1], seq, S, i - 1)
    BY <1>5
  <2>2. t[i - 1] \in Seq(X)
    BY <1>5
  <2> DEFINE u == t[i - 1]
             l == Len(u)
  <2>3. l \in Nat /\ u \in Seq(X)
    BY <2>2
  <2>4. /\ pos \in [1..l -> 1..(i - 1)]
        /\ \A k \in 1..l : u[k] = seq[pos[k]] /\ seq[pos[k]] \in S
        /\ \A k, j \in 1..l : k < j => pos[k] < pos[j]
        /\ \A m \in 1..(i - 1) : seq[m] \in S => \E k \in 1..l : pos[k] = m
    BY <2>1 DEF PickedBy
  <2>5. CASE seq[i] \notin S
    <3>1. t[i] = u
      BY <1>3, <2>5
    <3>2. PickedBy(pos, u, seq, S, i)
      <4>1. pos \in [1..l -> 1..i]
        BY <2>4
      <4>2. \A m \in 1..i : seq[m] \in S => \E k \in 1..l : pos[k] = m
        <5> SUFFICES ASSUME NEW m \in 1..i, seq[m] \in S PROVE \E k \in 1..l : pos[k] = m
          OBVIOUS
        <5> HIDE DEF l, u
        <5>1. m \in 1..(i - 1)
          BY <2>5
        <5> QED BY <2>4, <5>1
      <4> HIDE DEF u
      <4> QED BY <2>4, <4>1, <4>2 DEF PickedBy
    <3> QED BY <2>3, <3>1, <3>2
  <2>6. CASE seq[i] \in S
    <3> DEFINE v == Append(u, seq[i])
               pos2 == [k \in 1..(l + 1) |-> IF k = l + 1 THEN i ELSE pos[k]]
    <3>1. t[i] = v
      BY <1>3, <2>6
    <3>2. seq[i] \in X
      BY <1>1
    <3> HIDE DEF u
    <3>3. /\ v \in Seq(X) /\ Len(v) = l + 1 /\ v[l + 1] = seq[i]
          /\ \A k \in 1..l : v[k] = u[k]
      BY <2>3, <3>2
    <3> HIDE DEF v, l
    <3>4. pos2 \in [1..(l + 1) -> 1..i]
      <4>1. ASSUME NEW k \in 1..(l + 1), k # l + 1 PROVE pos[k] \in 1..i
        BY <2>3, <2>4, <4>1
      <4>2. i \in 1..i
        OBVIOUS
      <4> QED BY <4>1, <4>2
    <3>5. pos2[l + 1] = i /\ \A k \in 1..l : pos2[k] = pos[k]
      BY <2>3
    <3> HIDE DEF pos2
    <3>6. \A k \in 1..(l + 1) : v[k] = seq[pos2[k]] /\ seq[pos2[k]] \in S
      <4> SUFFICES ASSUME NEW k \in 1..(l + 1) PROVE v[k] = seq[pos2[k]] /\ seq[pos2[k]] \in S
        OBVIOUS
      <4>1. CASE k = l + 1
        BY <2>6, <3>3, <3>5, <4>1
      <4>2. CASE k \in 1..l
        BY <2>4, <3>3, <3>5, <4>2
      <4> QED BY <2>3, <4>1, <4>2
    <3>7. \A k, j \in 1..(l + 1) : k < j => pos2[k] < pos2[j]
      <4> SUFFICES ASSUME NEW k \in 1..(l + 1), NEW j \in 1..(l + 1), k < j PROVE pos2[k] < pos2[j]
        OBVIOUS
      <4>1. k \in 1..l /\ pos[k] \in 1..(i - 1) /\ pos2[k] = pos[k]
        BY <2>3, <2>4, <3>5
      <4>2. j = l + 1 \/ (j \in 1..l /\ pos[k] < pos[j])
        BY <2>3, <2>4, <4>1
      <4> QED BY <3>5, <4>1, <4>2
    <3>8. \A m \in 1..i : seq[m] \in S => \E k \in 1..(l + 1) : pos2[k] = m
      <4> SUFFICES ASSUME NEW m \in 1..i, seq[m] \in S PROVE \E k \in 1..(l + 1) : pos2[k] = m
        OBVIOUS
      <4>1. l + 1 \in 1..(l + 1) /\ 1..l \subseteq 1..(l + 1)
        BY <2>3
      <4>2. CASE m = i
        BY <3>5, <4>1, <4>2
      <4>3. CASE m # i
        <5>1. PICK k \in 1..l : pos[k] = m
          BY <2>4, <4>3
        <5> QED BY <3>5, <4>1, <5>1
      <4> QED BY <4>2, <4>3
    <3>9. PickedBy(pos2, v, seq, S, i)
      BY <3>3, <3>4, <3>6, <3>7, <3>8 DEF PickedBy
    <3> QED BY <3>1, <3>3, <3>9
  <2> QED BY <2>5, <2>6
<1> DEFINE P == {i \in Nat : Q(i, t[i])}
<1>6. 0..n \subseteq P
  <2> HIDE DEF Q
  <2>1. 0 \in P
    BY <1>4
  <2>2. ASSUME NEW i \in 1..n, i - 1 \in P PROVE i \in P
    BY <1>5, <2>2
  <2> HIDE DEF P
  <2> QED BY <1>1, <2>1, <2>2, UpTo
<1>7. Q(n, t[n])
  <2> HIDE DEF Q
  <2> QED BY <1>1, <1>6
<1> QED BY <1>2, <1>7


(* Sequences of points.                                                    *)

Sorted(s) ==
  /\ s \in Seq(Nat)
  /\ \A i, j \in 1..Len(s) : i < j => s[i] <= s[j]

Increasing(s) ==
  /\ s \in Seq(Nat)
  /\ \A i, j \in 1..Len(s) : i < j => s[i] < s[j]

\* The parts of a sequence of points.
LEMMA SequenceParts ==
  ASSUME NEW s \in Seq(Nat)
  PROVE  Len(s) \in Nat /\ DOMAIN s = 1..Len(s) /\ \A i \in 1..Len(s) : s[i] \in Nat
OBVIOUS

\* What is picked of sorted points is sorted.
LEMMA PickedSorted ==
  ASSUME NEW s, Sorted(s), NEW S
  PROVE  Sorted(Picked(s, S)) /\ Range(Picked(s, S)) = Range(s) \cap S
<1> DEFINE t == Picked(s, S)
<1>1. s \in Seq(Nat) /\ Len(s) \in Nat /\ DOMAIN s = 1..Len(s)
  BY DEF Sorted
<1>2. t \in Seq(Nat) /\ \E pos : PickedBy(pos, t, s, S, Len(s))
  BY <1>1, PickedIs
<1>3. PICK pos : PickedBy(pos, t, s, S, Len(s))
  BY <1>2
<1> HIDE DEF t
<1>4. Len(t) \in Nat /\ DOMAIN t = 1..Len(t)
  BY <1>2
<1>5. /\ pos \in [1..Len(t) -> 1..Len(s)]
      /\ \A i \in 1..Len(t) : t[i] = s[pos[i]] /\ s[pos[i]] \in S
      /\ \A i, j \in 1..Len(t) : i < j => pos[i] < pos[j]
      /\ \A m \in 1..Len(s) : s[m] \in S => \E i \in 1..Len(t) : pos[i] = m
  BY <1>3 DEF PickedBy
<1>6. \A i, j \in 1..Len(t) : i < j => t[i] <= t[j]
  <2> SUFFICES ASSUME NEW i \in 1..Len(t), NEW j \in 1..Len(t), i < j PROVE t[i] <= t[j]
    OBVIOUS
  <2>1. pos[i] \in 1..Len(s) /\ pos[j] \in 1..Len(s) /\ pos[i] < pos[j]
        /\ t[i] = s[pos[i]] /\ t[j] = s[pos[j]]
    BY <1>5
  <2>2. \A m, k \in 1..Len(s) : m < k => s[m] <= s[k]
    BY DEF Sorted
  <2> QED BY <2>1, <2>2
<1>7. Range(t) = Range(s) \cap S
  <2>1. ASSUME NEW i \in 1..Len(t) PROVE t[i] \in Range(s) \cap S
    BY <1>1, <1>5 DEF Range
  <2>2. ASSUME NEW m \in 1..Len(s), s[m] \in S PROVE s[m] \in Range(t)
    <3>1. PICK i \in 1..Len(t) : pos[i] = m
      BY <1>5, <2>2
    <3> QED BY <1>4, <1>5, <3>1 DEF Range
  <2> QED BY <1>1, <1>4, <2>1, <2>2 DEF Range
<1> QED BY <1>2, <1>6, <1>7 DEF Sorted, t

\* The point applied last is the greatest.
LEMMA LastIsGreatest ==
  ASSUME NEW s, Increasing(s)
  PROVE  /\ CurrentApplied(s) \in Nat
         /\ s # <<>> => CurrentApplied(s) \in Range(s)
         /\ \A p \in Range(s) : p \in Nat /\ p <= CurrentApplied(s)
<1>1. s \in Seq(Nat) /\ Len(s) \in Nat /\ DOMAIN s = 1..Len(s)
  BY DEF Increasing
<1>2. CASE s = <<>>
  BY <1>2 DEF CurrentApplied, Range
<1>3. CASE s # <<>>
  <2>1. Len(s) \in 1..Len(s) /\ CurrentApplied(s) = s[Len(s)]
    BY <1>1, <1>3 DEF CurrentApplied, Last
  <2>2. ASSUME NEW i \in 1..Len(s) PROVE s[i] \in Nat /\ s[i] <= s[Len(s)]
    BY <1>1, <2>1 DEF Increasing
  <2> QED BY <1>1, <2>1, <2>2 DEF Range
<1> QED BY <1>2, <1>3

\* One point more.
LEMMA AddOne ==
  ASSUME NEW s, Increasing(s), 0 \notin Range(s), NEW x \in Nat, CurrentApplied(s) <= x,
         NEW t, t = Taken(Adding, s, x)
  PROVE  /\ Increasing(t) /\ CurrentApplied(t) = x
         /\ Range(t) = Range(s) \cup ({x} \ {0})
<1>1. s \in Seq(Nat) /\ Len(s) \in Nat /\ DOMAIN s = 1..Len(s)
  BY DEF Increasing
<1>2. /\ CurrentApplied(s) \in Nat
      /\ s # <<>> => CurrentApplied(s) \in Range(s)
      /\ \A p \in Range(s) : p \in Nat /\ p <= CurrentApplied(s)
  BY LastIsGreatest
<1>3. t = IF x = CurrentApplied(s) THEN s ELSE Append(s, x)
  BY DEF Taken, Adding
<1>4. CASE x = CurrentApplied(s)
  <2>1. t = s
    BY <1>3, <1>4
  <2>2. s = <<>> => x = 0
    BY <1>4 DEF CurrentApplied
  <2>3. x \in Range(s) \/ x = 0
    BY <1>2, <1>4, <2>2
  <2> QED BY <1>4, <2>1, <2>3
<1>5. CASE x # CurrentApplied(s)
  <2>1. /\ t \in Seq(Nat) /\ Len(t) = Len(s) + 1 /\ t[Len(s) + 1] = x /\ t # <<>>
        /\ \A i \in 1..Len(s) : t[i] = s[i]
    BY <1>1, <1>3, <1>5
  <2>2. CurrentApplied(t) = x
    BY <2>1 DEF CurrentApplied, Last
  <2>3. CurrentApplied(s) < x /\ x # 0
    BY <1>2, <1>5
  <2>4. ASSUME NEW i \in 1..Len(s) PROVE s[i] < x
    <3>1. s[i] \in Range(s)
      BY <1>1 DEF Range
    <3> QED BY <1>2, <2>3, <3>1
  <2>5. Increasing(t)
    <3> SUFFICES ASSUME NEW i \in 1..Len(t), NEW j \in 1..Len(t), i < j PROVE t[i] < t[j]
      BY <2>1 DEF Increasing
    <3>0. Len(s) \in Nat /\ i \in 1..(Len(s) + 1) /\ j \in 1..(Len(s) + 1)
      BY <1>1, <2>1
    <3>1. i \in 1..Len(s) /\ t[i] = s[i]
      <4>1. i \in 1..Len(s)
        BY <3>0
      <4> QED BY <2>1, <4>1
    <3>2. CASE j = Len(s) + 1
      <4>1. s[i] < x /\ t[j] = x
        BY <2>1, <2>4, <3>1, <3>2
      <4> QED BY <3>1, <4>1
    <3>3. CASE j \in 1..Len(s)
      <4>1. t[j] = s[j]
        BY <2>1, <3>3
      <4>2. \A m, k \in 1..Len(s) : m < k => s[m] < s[k]
        BY DEF Increasing
      <4> QED BY <3>1, <3>3, <4>1, <4>2
    <3>4. j \in 1..Len(s) \/ j = Len(s) + 1
      BY <3>0
    <3> QED BY <3>2, <3>3, <3>4
  <2>6. Range(t) = Range(s) \cup {x}
    <3>1. DOMAIN t = 1..(Len(s) + 1)
      BY <2>1
    <3>2. 1..(Len(s) + 1) = 1..Len(s) \cup {Len(s) + 1}
      BY <1>1
    <3> QED BY <1>1, <2>1, <3>1, <3>2 DEF Range
  <2> QED BY <2>2, <2>3, <2>5, <2>6
<1> QED BY <1>4, <1>5

\* Sorted points are added once each, in their order, but for zero.
LEMMA AddPointsIs ==
  ASSUME NEW hash, Increasing(hash), 0 \notin Range(hash),
         NEW points, Sorted(points),
         \A i \in 1..Len(points) : CurrentApplied(hash) <= points[i]
  PROVE  /\ Increasing(AddPoints(hash, points))
         /\ Range(AddPoints(hash, points)) = Range(hash) \cup (Range(points) \ {0})
<1> DEFINE n == Len(points)
           First(i) == {points[j] : j \in 1..i}
           Q(i, t) == /\ Increasing(t)
                      /\ Range(t) = Range(hash) \cup (First(i) \ {0})
                      /\ CurrentApplied(t) = IF i = 0 THEN CurrentApplied(hash) ELSE points[i]
<1>1. points \in Seq(Nat) /\ n \in Nat /\ DOMAIN points = 1..n
  BY DEF Sorted
<1>2. PICK t : IsRun(Adding, hash, points, t) /\ AddPoints(hash, points) = t[n]
  BY <1>1, AddPointsRuns
<1>3. t[0] = hash /\ \A i \in 1..n : t[i] = Taken(Adding, t[i - 1], points[i])
  BY <1>2 DEF IsRun
<1>4. Q(0, t[0])
  <2>1. First(0) = {}
    OBVIOUS
  <2> HIDE DEF First
  <2> QED BY <1>3, <2>1
<1>5. ASSUME NEW i \in 1..n, Q(i - 1, t[i - 1]) PROVE Q(i, t[i])
  <2>1. /\ Increasing(t[i - 1])
        /\ Range(t[i - 1]) = Range(hash) \cup (First(i - 1) \ {0})
        /\ CurrentApplied(t[i - 1]) = IF i - 1 = 0 THEN CurrentApplied(hash) ELSE points[i - 1]
    BY <1>5
  <2>2. 0 \notin Range(t[i - 1])
    BY <2>1
  <2>3. points[i] \in Nat /\ CurrentApplied(t[i - 1]) <= points[i]
    <3>1. i # 1 => i - 1 \in 1..n /\ i - 1 < i
      BY <1>1
    <3> QED BY <1>1, <2>1, <3>1 DEF Sorted
  <2>4. /\ Increasing(t[i]) /\ CurrentApplied(t[i]) = points[i]
        /\ Range(t[i]) = Range(t[i - 1]) \cup ({points[i]} \ {0})
    BY <1>3, <2>1, <2>2, <2>3, AddOne
  <2>5. First(i) = First(i - 1) \cup {points[i]}
    <3>1. 1..i = 1..(i - 1) \cup {i}
      BY <1>1
    <3> QED BY <3>1
  <2> HIDE DEF First
  <2> QED BY <2>1, <2>4, <2>5
<1> DEFINE P == {i \in Nat : Q(i, t[i])}
<1>6. 0..n \subseteq P
  <2> HIDE DEF Q
  <2>1. 0 \in P
    BY <1>4
  <2>2. ASSUME NEW i \in 1..n, i - 1 \in P PROVE i \in P
    BY <1>5, <2>2
  <2> HIDE DEF P
  <2> QED BY <1>1, <2>1, <2>2, UpTo
<1>7. Q(n, t[n])
  <2> HIDE DEF Q
  <2> QED BY <1>1, <1>6
<1>8. First(n) = Range(points)
  BY <1>1 DEF Range
<1> HIDE DEF First
<1> QED BY <1>2, <1>7, <1>8

\* Two increasing sequences of the same points are one.
LEMMA SamePrefix ==
  ASSUME NEW s, Increasing(s), NEW t, Increasing(t), Range(s) = Range(t)
  PROVE  \A i \in 1..Len(s) : i <= Len(t) /\ s[i] = t[i]
<1>1. /\ s \in Seq(Nat) /\ Len(s) \in Nat /\ DOMAIN s = 1..Len(s)
      /\ t \in Seq(Nat) /\ Len(t) \in Nat /\ DOMAIN t = 1..Len(t)
  BY DEF Increasing
<1> DEFINE T == {i \in 1..Len(s) : ~(i <= Len(t) /\ s[i] = t[i])}
<1>2. T = {}
  <2> SUFFICES ASSUME T # {} PROVE FALSE
    OBVIOUS
  <2>1. PICK i \in T : \A j \in T : i <= j
    <3>1. T \in SUBSET Nat
      BY <1>1
    <3> HIDE DEF T
    <3> QED BY <3>1, LeastNumber
  <2>2. i \in 1..Len(s) /\ ~(i <= Len(t) /\ s[i] = t[i])
    BY <2>1
  <2>3. \A j \in 1..Len(s) : j < i => j <= Len(t) /\ s[j] = t[j]
    <3> SUFFICES ASSUME NEW j \in 1..Len(s), j < i PROVE j \notin T
      OBVIOUS
    <3>1. i \in Nat /\ j \in Nat /\ ~(i <= j)
      BY <1>1, <2>2
    <3> HIDE DEF T
    <3> QED BY <2>1, <3>1
  <2>4. PICK k \in 1..Len(t) : t[k] = s[i]
    <3>1. s[i] \in Range(t)
      BY <1>1, <2>2 DEF Range
    <3> QED BY <1>1, <3>1 DEF Range
  <2>5. ~(k < i)
    <3> SUFFICES ASSUME k < i PROVE FALSE
      OBVIOUS
    <3>1. k \in 1..Len(s) /\ s[k] = t[k] /\ s[k] \in Nat
      BY <1>1, <2>2, <2>3
    <3> QED BY <1>1, <2>2, <2>4, <3>1 DEF Increasing
  <2>6. i <= Len(t) /\ i # k /\ i < k
    <3>1. i \in Nat /\ k \in Nat /\ k <= Len(t) /\ Len(t) \in Nat
      BY <1>1, <2>2, <2>4
    <3>2. i # k
      BY <2>2, <2>4, <3>1
    <3>3. i < k
      BY <2>5, <3>1, <3>2
    <3> QED BY <3>1, <3>2, <3>3
  <2>7. t[i] < s[i] /\ t[i] \in Nat /\ s[i] \in Nat
    BY <1>1, <2>2, <2>4, <2>6 DEF Increasing
  <2>8. PICK m \in 1..Len(s) : s[m] = t[i]
    <3>1. i \in 1..Len(t)
      BY <1>1, <2>2, <2>6
    <3>2. t[i] \in Range(s)
      BY <1>1, <3>1 DEF Range
    <3> QED BY <1>1, <3>2 DEF Range
  <2>9. m < i
    <3> SUFFICES ASSUME ~(m < i) PROVE FALSE
      OBVIOUS
    <3>1. m = i \/ i < m
      BY <1>1, <2>2
    <3>2. i < m => s[i] < s[m]
      BY <2>2 DEF Increasing
    <3> QED BY <1>1, <2>7, <2>8, <3>1, <3>2
  <2>10. s[m] = t[m] /\ m \in 1..Len(t)
    BY <1>1, <2>3, <2>9
  <2>11. t[m] < t[i]
    BY <1>1, <2>2, <2>6, <2>9, <2>10 DEF Increasing
  <2> QED BY <1>1, <2>7, <2>8, <2>10, <2>11
<1> QED BY <1>2

LEMMA SameSequence ==
  ASSUME NEW s, Increasing(s), NEW t, Increasing(t), Range(s) = Range(t)
  PROVE  s = t
<1>1. s \in Seq(Nat) /\ t \in Seq(Nat) /\ Len(s) \in Nat /\ Len(t) \in Nat
  BY DEF Increasing
<1>2. /\ \A i \in 1..Len(s) : i <= Len(t) /\ s[i] = t[i]
      /\ \A i \in 1..Len(t) : i <= Len(s) /\ t[i] = s[i]
  BY SamePrefix
<1>3. Len(s) = Len(t)
  <2>1. Len(s) # 0 => Len(s) \in 1..Len(s)
    BY <1>1
  <2>2. Len(t) # 0 => Len(t) \in 1..Len(t)
    BY <1>1
  <2>3. Len(s) <= Len(t)
    BY <1>1, <1>2, <2>1
  <2>4. Len(t) <= Len(s)
    BY <1>1, <1>2, <2>2
  <2> QED BY <1>1, <2>3, <2>4
<1> QED BY <1>1, <1>2, <1>3

(***************************************************************************)
(* The points of a genesis.                                                *)
(***************************************************************************)
\* What fork identifiers need of a genesis (GenesesAssumption).
WellFormed(g) ==
  /\ g.at \in [DOMAIN g.at -> Nat]
  /\ DOMAIN g.at \subseteq Range(BlockForks) \cup Range(TimeForks)
  /\ ListedInOrder(g.at, BlockForks) /\ ListedInOrder(g.at, TimeForks)
  /\ \A f \in DOMAIN g.at \cap Range(TimeForks) : GenesisTime < g.at[f]
  /\ \A f \in DOMAIN g.at \cap Range(BlockForks) : g.at[f] < GenesisTime

NamesOf(kind) == IF kind = "block" THEN BlockForks ELSE TimeForks

Points(g, kind) == {g.at[f] : f \in DOMAIN g.at \cap Range(NamesOf(kind))}

AllConditions == [kind : {"block", "time"}, point : Nat]

LEMMA NamesAre ==
  ASSUME NEW kind
  PROVE  /\ NamesOf(kind) \in Seq(Range(NamesOf(kind))) /\ Len(NamesOf(kind)) \in Nat
         /\ DOMAIN NamesOf(kind) = 1..Len(NamesOf(kind))
<1> DEFINE names == NamesOf(kind)
<1>1. BlockForks = [i \in 1..11 |-> BlockForks[i]] /\ Len(BlockForks) = 11
  BY DEF BlockForks
<1>2. TimeForks = [i \in 1..5 |-> TimeForks[i]] /\ Len(TimeForks) = 5
  BY DEF TimeForks
<1>3. \E n \in Nat : Len(names) = n /\ names = [i \in 1..n |-> names[i]]
  BY <1>1, <1>2 DEF NamesOf
<1> HIDE DEF names
<1>4. PICK n \in Nat : Len(names) = n /\ names = [i \in 1..n |-> names[i]]
  BY <1>3
<1>5. DOMAIN names = 1..n
  BY <1>4
<1>6. \A i \in 1..n : names[i] \in Range(names)
  BY <1>5 DEF Range
<1>7. names \in Seq(Range(names))
  <2>1. [i \in 1..n |-> names[i]] \in Seq(Range(names))
    BY <1>6
  <2> QED BY <1>4, <2>1
<1> QED BY <1>4, <1>5, <1>7 DEF names

\* The conditions of one kind are in the order of their points.
LEMMA ConditionsAre ==
  ASSUME NEW g, WellFormed(g), NEW kind \in {"block", "time"},
         NEW c, c = Conditions(g, kind, NamesOf(kind))
  PROVE  /\ c \in Seq(AllConditions) /\ Len(c) \in Nat /\ DOMAIN c = 1..Len(c)
         /\ \A i \in 1..Len(c) : c[i].kind = kind /\ c[i].point \in Nat
         /\ \A i, j \in 1..Len(c) : i < j => c[i].point <= c[j].point
         /\ Range(c) = {Condition(kind, p) : p \in Points(g, kind)}
<1> DEFINE names == NamesOf(kind)
           named == Picked(names, DOMAIN g.at)
<1>1. names \in Seq(Range(names)) /\ Len(names) \in Nat /\ DOMAIN names = 1..Len(names)
  BY NamesAre
<1>2. named \in Seq(Range(names)) /\ \E pos : PickedBy(pos, named, names, DOMAIN g.at, Len(names))
  <2> HIDE DEF names
  <2> QED BY <1>1, PickedIs
<1>3. PICK pos : PickedBy(pos, named, names, DOMAIN g.at, Len(names))
  BY <1>2
<1>4. c = [i \in DOMAIN named |-> Condition(kind, g.at[named[i]])]
  BY DEF Conditions
<1>5. ListedInOrder(g.at, names) /\ g.at \in [DOMAIN g.at -> Nat]
  BY DEF WellFormed, NamesOf
<1>6. Points(g, kind) = {g.at[f] : f \in DOMAIN g.at \cap Range(names)}
  BY DEF Points
<1> HIDE DEF named, names
<1>7. Len(named) \in Nat /\ DOMAIN named = 1..Len(named)
  BY <1>2
<1>8. /\ pos \in [1..Len(named) -> 1..Len(names)]
      /\ \A i \in 1..Len(named) : named[i] = names[pos[i]] /\ names[pos[i]] \in DOMAIN g.at
      /\ \A i, j \in 1..Len(named) : i < j => pos[i] < pos[j]
      /\ \A m \in 1..Len(names) : names[m] \in DOMAIN g.at => \E i \in 1..Len(named) : pos[i] = m
  BY <1>3 DEF PickedBy
<1>9. \A i \in 1..Len(named) : named[i] \in DOMAIN g.at \cap Range(names)
                               /\ g.at[named[i]] \in Nat
  BY <1>1, <1>5, <1>8 DEF Range
<1>10. \A i \in 1..Len(named) : c[i] = Condition(kind, g.at[named[i]]) /\ c[i] \in AllConditions
  BY <1>4, <1>7, <1>9 DEF Condition, AllConditions
<1>11. c \in Seq(AllConditions) /\ Len(c) = Len(named) /\ DOMAIN c = 1..Len(named)
  BY <1>4, <1>7, <1>10
<1>12. \A i \in 1..Len(c) : c[i].kind = kind /\ c[i].point = g.at[named[i]] /\ c[i].point \in Nat
  BY <1>9, <1>10, <1>11 DEF Condition
<1>13. ASSUME NEW i \in 1..Len(c), NEW j \in 1..Len(c), i < j
       PROVE  c[i].point <= c[j].point
  <2>0. i \in 1..Len(named) /\ j \in 1..Len(named)
    BY <1>7, <1>11
  <2>1. /\ named[i] = names[pos[i]] /\ named[j] = names[pos[j]]
        /\ pos[i] \in DOMAIN names /\ pos[j] \in DOMAIN names /\ pos[i] <= pos[j]
        /\ {names[pos[i]], names[pos[j]]} \subseteq DOMAIN g.at
    BY <1>1, <1>8, <1>13, <2>0
  <2>2. g.at[names[pos[i]]] <= g.at[names[pos[j]]]
    BY <1>5, <2>1 DEF ListedInOrder
  <2> QED BY <1>12, <2>1, <2>2
<1>14. Range(c) = {Condition(kind, p) : p \in Points(g, kind)}
  <2>1. ASSUME NEW i \in 1..Len(c) PROVE c[i] \in {Condition(kind, p) : p \in Points(g, kind)}
    BY <1>6, <1>9, <1>10, <1>11
  <2>2. ASSUME NEW f \in DOMAIN g.at \cap Range(names) PROVE Condition(kind, g.at[f]) \in Range(c)
    <3>1. PICK m \in 1..Len(names) : names[m] = f
      BY <1>1 DEF Range
    <3>2. PICK i \in 1..Len(named) : pos[i] = m
      BY <1>8, <3>1
    <3>3. c[i] = Condition(kind, g.at[f])
      BY <1>8, <1>10, <3>1, <3>2
    <3> QED BY <1>11, <3>2, <3>3 DEF Range
  <2> QED BY <1>6, <1>11, <2>1, <2>2 DEF Range
<1> QED BY <1>7, <1>11, <1>12, <1>13, <1>14

LEMMA ForksIterIs ==
  ASSUME NEW g, WellFormed(g), NEW all, all = ForksIter(g),
         NEW b, b = Conditions(g, "block", BlockForks),
         NEW t, t = Conditions(g, "time", TimeForks)
  PROVE  /\ all \in Seq(AllConditions)
         /\ Len(b) \in Nat /\ Len(t) \in Nat /\ Len(all) = Len(b) + Len(t)
         /\ \A i \in 1..Len(b) : all[i] = b[i]
         /\ \A i \in 1..Len(t) : all[Len(b) + i] = t[i]
         /\ Range(all) = Range(b) \cup Range(t)
<1>1. b = Conditions(g, "block", NamesOf("block")) /\ t = Conditions(g, "time", NamesOf("time"))
  BY DEF NamesOf
<1>2. /\ b \in Seq(AllConditions) /\ Len(b) \in Nat /\ DOMAIN b = 1..Len(b)
      /\ t \in Seq(AllConditions) /\ Len(t) \in Nat /\ DOMAIN t = 1..Len(t)
  BY <1>1, ConditionsAre
<1>3. all = b \o t
  BY DEF ForksIter
<1>4. /\ all \in Seq(AllConditions) /\ Len(all) = Len(b) + Len(t)
      /\ DOMAIN all = 1..(Len(b) + Len(t))
      /\ \A i \in 1..Len(b) : all[i] = b[i]
      /\ \A i \in 1..Len(t) : all[Len(b) + i] = t[i]
  BY <1>2, <1>3
<1>5. Range(all) = Range(b) \cup Range(t)
  <2>1. ASSUME NEW i \in 1..(Len(b) + Len(t)) PROVE all[i] \in Range(b) \cup Range(t)
    <3>1. CASE i \in 1..Len(b)
      BY <1>2, <1>4, <3>1 DEF Range
    <3>2. CASE i \notin 1..Len(b)
      <4>1. i - Len(b) \in 1..Len(t) /\ Len(b) + (i - Len(b)) = i
        BY <1>2, <3>2
      <4>2. all[i] = t[i - Len(b)]
        BY <1>4, <4>1
      <4> QED BY <1>2, <4>1, <4>2 DEF Range
    <3> QED BY <3>1, <3>2
  <2>2. ASSUME NEW i \in 1..Len(b) PROVE b[i] \in Range(all)
    <3>1. i \in DOMAIN all /\ all[i] = b[i]
      BY <1>2, <1>4
    <3> QED BY <3>1 DEF Range
  <2>3. ASSUME NEW i \in 1..Len(t) PROVE t[i] \in Range(all)
    <3>1. Len(b) + i \in DOMAIN all /\ all[Len(b) + i] = t[i]
      BY <1>2, <1>4
    <3> QED BY <3>1 DEF Range
  <2>4. Range(all) \subseteq Range(b) \cup Range(t)
    BY <1>4, <2>1 DEF Range
  <2>5. Range(b) \subseteq Range(all)
    BY <1>2, <2>2 DEF Range
  <2>6. Range(t) \subseteq Range(all)
    BY <1>2, <2>3 DEF Range
  <2> QED BY <2>4, <2>5, <2>6
<1> QED BY <1>2, <1>4, <1>5

\* The points of one kind, sorted.
LEMMA PointsOfIs ==
  ASSUME NEW g, WellFormed(g), NEW kind \in {"block", "time"}
  PROVE  Sorted(PointsOf(g, kind)) /\ Range(PointsOf(g, kind)) = Points(g, kind)
<1> DEFINE all == ForksIter(g)
           b == Conditions(g, "block", BlockForks)
           t == Conditions(g, "time", TimeForks)
           mine == IF kind = "block" THEN b ELSE t
           from == IF kind = "block" THEN 0 ELSE Len(b)
           S == [kind : {kind}, point : Nat]
           chosen == Picked(all, S)
           points == PointsOf(g, kind)
<1>1. /\ all \in Seq(AllConditions)
      /\ Len(b) \in Nat /\ Len(t) \in Nat /\ Len(all) = Len(b) + Len(t)
      /\ \A i \in 1..Len(b) : all[i] = b[i]
      /\ \A i \in 1..Len(t) : all[Len(b) + i] = t[i]
  BY ForksIterIs
<1>2. /\ \A i \in 1..Len(b) : b[i].kind = "block"
      /\ \A i \in 1..Len(t) : t[i].kind = "time"
  <2>1. b = Conditions(g, "block", NamesOf("block")) /\ t = Conditions(g, "time", NamesOf("time"))
    BY DEF NamesOf
  <2> HIDE DEF b, t
  <2> QED BY <2>1, ConditionsAre
<1>3. /\ Len(mine) \in Nat /\ DOMAIN mine = 1..Len(mine)
      /\ \A i \in 1..Len(mine) : mine[i] \in S /\ mine[i].point \in Nat
      /\ \A i, j \in 1..Len(mine) : i < j => mine[i].point <= mine[j].point
      /\ Range(mine) = {Condition(kind, p) : p \in Points(g, kind)}
  <2>1. mine = Conditions(g, kind, NamesOf(kind))
    BY DEF NamesOf
  <2> HIDE DEF mine
  <2>2. /\ mine \in Seq(AllConditions) /\ Len(mine) \in Nat /\ DOMAIN mine = 1..Len(mine)
        /\ \A i \in 1..Len(mine) : mine[i].kind = kind /\ mine[i].point \in Nat
        /\ \A i, j \in 1..Len(mine) : i < j => mine[i].point <= mine[j].point
        /\ Range(mine) = {Condition(kind, p) : p \in Points(g, kind)}
    BY <2>1, ConditionsAre
  <2>3. ASSUME NEW i \in 1..Len(mine) PROVE mine[i] \in S
    <3>1. mine[i] \in AllConditions
      BY <2>2
    <3> QED BY <2>2, <3>1 DEF AllConditions
  <2> QED BY <2>2, <2>3
<1>4. chosen \in Seq(AllConditions) /\ \E pos : PickedBy(pos, chosen, all, S, Len(all))
  <2> HIDE DEF all, S
  <2> QED BY <1>1, PickedIs
<1>5. PICK pos : PickedBy(pos, chosen, all, S, Len(all))
  BY <1>4
<1>6. points = [i \in DOMAIN chosen |-> chosen[i].point]
  BY DEF PointsOf
<1> HIDE DEF chosen, all, b, t, S, points
<1>7. Len(chosen) \in Nat /\ DOMAIN chosen = 1..Len(chosen)
  BY <1>4
<1>8. /\ pos \in [1..Len(chosen) -> 1..Len(all)]
      /\ \A i \in 1..Len(chosen) : chosen[i] = all[pos[i]] /\ all[pos[i]] \in S
      /\ \A i, j \in 1..Len(chosen) : i < j => pos[i] < pos[j]
      /\ \A m \in 1..Len(all) : all[m] \in S => \E i \in 1..Len(chosen) : pos[i] = m
  BY <1>5 DEF PickedBy
<1>9. from \in Nat /\ \A i \in 1..Len(mine) : from + i \in 1..Len(all) /\ all[from + i] = mine[i]
  BY <1>1
<1>10. ASSUME NEW i \in 1..Len(chosen)
       PROVE  pos[i] - from \in 1..Len(mine) /\ chosen[i] = mine[pos[i] - from]
  <2>1. pos[i] \in 1..Len(all) /\ chosen[i] = all[pos[i]] /\ all[pos[i]].kind = kind
    BY <1>8 DEF S
  <2>2. pos[i] \in 1..Len(b) => all[pos[i]].kind = "block"
    BY <1>1, <1>2
  <2>3. pos[i] \notin 1..Len(b) =>
           /\ pos[i] - Len(b) \in 1..Len(t) /\ Len(b) + (pos[i] - Len(b)) = pos[i]
    BY <1>1, <2>1
  <2>4. pos[i] \notin 1..Len(b) => all[pos[i]].kind = "time"
    <3> SUFFICES ASSUME pos[i] \notin 1..Len(b) PROVE all[pos[i]].kind = "time"
      OBVIOUS
    <3> DEFINE k == pos[i] - Len(b)
    <3>1. k \in 1..Len(t) /\ Len(b) + k = pos[i]
      BY <2>3
    <3> HIDE DEF k
    <3>2. all[Len(b) + k] = t[k]
      BY <1>1, <3>1
    <3> QED BY <1>2, <3>1, <3>2
  <2>5. pos[i] - from \in 1..Len(mine)
    BY <1>1, <2>1, <2>2, <2>3, <2>4
  <2>6. from + (pos[i] - from) = pos[i]
    BY <1>9, <2>1
  <2> QED BY <1>9, <2>1, <2>5, <2>6
<1> HIDE DEF mine, from
<1>11. /\ Len(points) = Len(chosen) /\ DOMAIN points = 1..Len(chosen)
       /\ \A i \in 1..Len(chosen) : points[i] = mine[pos[i] - from].point /\ points[i] \in Nat
       /\ points \in Seq(Nat)
  BY <1>3, <1>6, <1>7, <1>10
<1>12. \A i, j \in 1..Len(points) : i < j => points[i] <= points[j]
  <2> SUFFICES ASSUME NEW i \in 1..Len(chosen), NEW j \in 1..Len(chosen), i < j
               PROVE  points[i] <= points[j]
    BY <1>11
  <2>1. pos[i] - from < pos[j] - from
    <3>1. pos[i] \in Nat /\ pos[j] \in Nat
      <4>1. pos[i] \in 1..Len(all) /\ pos[j] \in 1..Len(all)
        BY <1>8
      <4> QED BY <4>1
    <3>2. pos[i] < pos[j]
      BY <1>8
    <3>3. from \in Nat
      BY <1>9
    <3>4. \A x, y, z \in Nat : x < y => x - z < y - z
      OBVIOUS
    <3> QED BY <3>1, <3>2, <3>3, <3>4
  <2> QED BY <1>3, <1>10, <1>11, <2>1
<1>13. Range(points) = Points(g, kind)
  <2>1. ASSUME NEW i \in 1..Len(chosen) PROVE points[i] \in Points(g, kind)
    <3>1. mine[pos[i] - from] \in Range(mine)
      BY <1>3, <1>10 DEF Range
    <3>2. PICK p \in Points(g, kind) : mine[pos[i] - from] = Condition(kind, p)
      BY <1>3, <3>1
    <3>3. points[i] = p
      BY <1>11, <3>2 DEF Condition
    <3> QED BY <3>3
  <2>2. ASSUME NEW p \in Points(g, kind) PROVE p \in Range(points)
    <3>1. Condition(kind, p) \in Range(mine)
      BY <1>3
    <3>2. PICK m \in 1..Len(mine) : mine[m] = Condition(kind, p)
      BY <1>3, <3>1 DEF Range
    <3>3. from + m \in 1..Len(all) /\ all[from + m] = mine[m] /\ mine[m] \in S
      BY <1>3, <1>9
    <3>4. PICK i \in 1..Len(chosen) : pos[i] = from + m
      BY <1>8, <3>3
    <3>5. pos[i] - from = m
      BY <1>9, <3>4
    <3>6. points[i] = p
      BY <1>11, <3>2, <3>5 DEF Condition
    <3> QED BY <1>11, <3>6 DEF Range
  <2> QED BY <1>11, <2>1, <2>2 DEF Range
<1>14. Sorted(points)
  BY <1>11, <1>12 DEF Sorted
<1> QED BY <1>13, <1>14 DEF points

(* Fork identifiers: fork_id.                                              *)

ForkPoints(g) == (Points(g, "block") \ {0}) \cup Points(g, "time")

IsPast(p, head) == p <= IF p > GenesisTime THEN head.timestamp ELSE head.number

PastPoints(g, head) == {p \in ForkPoints(g) : IsPast(p, head)}

\* next is the least of the points ahead, or 0
IsNext(next, g, head) ==
  \/ next = 0 /\ PastPoints(g, head) = ForkPoints(g)
  \/ /\ next \in ForkPoints(g) \ PastPoints(g, head)
     /\ \A p \in ForkPoints(g) \ PastPoints(g, head) : next <= p

\* No fork by time is past while one by block is ahead: time forks come after
\* the merge.
Fits(g, head) ==
  /\ head.number \in Nat /\ head.timestamp \in Nat
  /\ \A b \in Points(g, "block"), t \in Points(g, "time") :
       t <= head.timestamp => b <= head.number

LEMMA PointsAre ==
  ASSUME NEW g, WellFormed(g)
  PROVE  /\ GenesisTime \in Nat
         /\ \A p \in Points(g, "block") : p \in Nat /\ p < GenesisTime
         /\ \A p \in Points(g, "time") : p \in Nat /\ GenesisTime < p
<1>1. GenesisTime \in Nat
  BY BlockEnvironmentAssumption
<1> QED BY <1>1 DEF WellFormed, Points, NamesOf

\* The points up to the first that is ahead, and that one.
LEMMA ReachedIs ==
  ASSUME NEW points, Sorted(points), NEW here \in Nat
  PROVE  /\ Sorted(Reached(points, here))
         /\ Range(Reached(points, here)) = {p \in Range(points) : p <= here}
         /\ \/ /\ Upcoming(points, here) = 0
               /\ \A p \in Range(points) : p <= here
            \/ /\ Upcoming(points, here) \in Range(points)
               /\ Upcoming(points, here) > here
               /\ \A p \in Range(points) : p > here => Upcoming(points, here) <= p
<1> DEFINE ahead == {i \in DOMAIN points : points[i] > here}
           r == Reached(points, here)
           u == Upcoming(points, here)
<1>1. points \in Seq(Nat) /\ Len(points) \in Nat /\ DOMAIN points = 1..Len(points)
  BY DEF Sorted
<1>2. CASE ahead = {}
  <2>1. r = points /\ u = 0
    BY <1>2 DEF Reached, Upcoming
  <2>2. \A p \in Range(points) : p <= here
    <3>1. ASSUME NEW i \in 1..Len(points) PROVE points[i] <= here
      <4>1. i \notin ahead /\ points[i] \in Nat
        BY <1>1, <1>2
      <4> QED BY <1>1, <4>1
    <3> QED BY <1>1, <3>1 DEF Range
  <2> QED BY <2>1, <2>2
<1>3. CASE ahead # {}
  <2> DEFINE m == Min(ahead)
  <2>1. m \in ahead /\ \A i \in ahead : m <= i
    <3>1. ahead \in SUBSET Nat
      BY <1>1
    <3> HIDE DEF ahead
    <3> QED BY <1>3, <3>1, MinIs
  <2>2. r = SubSeq(points, 1, m - 1) /\ u = points[m]
    BY <1>3 DEF Reached, Upcoming
  <2> HIDE DEF m
  <2>3. m \in 1..Len(points) /\ points[m] > here /\ points[m] \in Nat
    BY <1>1, <2>1
  <2>4. \A i \in 1..(m - 1) : i \in 1..Len(points) /\ points[i] <= here
    <3> SUFFICES ASSUME NEW i \in 1..(m - 1) PROVE i \in 1..Len(points) /\ points[i] <= here
      OBVIOUS
    <3>1. i \in 1..Len(points) /\ ~(m <= i) /\ points[i] \in Nat
      BY <1>1, <2>3
    <3>2. i \notin ahead
      BY <2>1, <3>1
    <3> QED BY <1>1, <3>1, <3>2
  <2> HIDE DEF ahead, r, u
  <2>5. /\ r \in Seq(Nat) /\ Len(r) = m - 1 /\ DOMAIN r = 1..(m - 1)
        /\ \A i \in 1..(m - 1) : r[i] = points[i]
    <3>1. 1 \in 1..(Len(points) + 1) /\ m - 1 \in 0..Len(points)
      BY <1>1, <2>3
    <3>2. \A i \in 1..(m - 1) : points[i] \in Nat
      BY <1>1, <2>4
    <3> QED BY <1>1, <2>2, <2>3, <3>1, <3>2
  <2>6. Sorted(r)
    BY <1>1, <2>4, <2>5 DEF Sorted
  <2>7. \A i \in 1..Len(points) : i \notin 1..(m - 1) => u <= points[i] /\ points[i] > here
    <3> SUFFICES ASSUME NEW i \in 1..Len(points), i \notin 1..(m - 1)
                 PROVE  u <= points[i] /\ points[i] > here
      OBVIOUS
    <3>1. i = m \/ m < i
      BY <1>1, <2>3
    <3>2. points[m] <= points[i] /\ points[i] \in Nat
      BY <1>1, <2>3, <3>1 DEF Sorted
    <3> QED BY <2>2, <2>3, <3>2
  <2>8. Range(r) = {p \in Range(points) : p <= here}
    <3>1. ASSUME NEW i \in 1..(m - 1) PROVE r[i] \in Range(points) /\ r[i] <= here
      <4>1. i \in DOMAIN points /\ r[i] = points[i] /\ points[i] <= here
        BY <1>1, <2>4, <2>5
      <4> QED BY <4>1 DEF Range
    <3>2. ASSUME NEW i \in 1..Len(points), points[i] <= here PROVE points[i] \in Range(r)
      <4>1. i \in 1..(m - 1)
        <5>1. points[i] \in Nat
          BY <1>1
        <5> QED BY <2>7, <3>2, <5>1
      <4>2. i \in DOMAIN r /\ r[i] = points[i]
        BY <2>5, <4>1
      <4> QED BY <4>2 DEF Range
    <3>3. Range(r) \subseteq {p \in Range(points) : p <= here}
      BY <2>5, <3>1 DEF Range
    <3>4. {p \in Range(points) : p <= here} \subseteq Range(r)
      BY <1>1, <3>2 DEF Range
    <3> QED BY <3>3, <3>4
  <2>9. /\ u \in Range(points) /\ u > here
        /\ \A p \in Range(points) : p > here => u <= p
    <3>1. u \in Range(points)
      BY <1>1, <2>2, <2>3 DEF Range
    <3>2. ASSUME NEW i \in 1..Len(points), points[i] > here PROVE u <= points[i]
      <4>1. i \notin 1..(m - 1)
        BY <1>1, <2>4, <3>2
      <4> QED BY <2>7, <4>1
    <3>3. \A p \in Range(points) : p > here => u <= p
      BY <1>1, <3>2 DEF Range
    <3> QED BY <2>2, <2>3, <3>1, <3>3
  <2> QED BY <2>6, <2>8, <2>9 DEF r, u
<1> QED BY <1>2, <1>3

\* The hash is made of the points that are past, each once and in their order.
LEMMA ForkIdIs ==
  ASSUME NEW g, WellFormed(g), NEW head, Fits(g, head)
  PROVE  /\ ForkId(g, head) = [hash |-> ForkId(g, head).hash, next |-> ForkId(g, head).next]
         /\ Increasing(ForkId(g, head).hash)
         /\ Range(ForkId(g, head).hash) = PastPoints(g, head)
         /\ IsNext(ForkId(g, head).next, g, head)
<1> DEFINE blocks == PointsOf(g, "block")
           times  == Picked(PointsOf(g, "time"), {t \in Nat : t > GenesisTime})
           rb     == Reached(blocks, head.number)
           rt     == Reached(times, head.timestamp)
           hash   == AddPoints(<<>>, rb)
           full   == AddPoints(hash, rt)
           nb     == Upcoming(blocks, head.number)
           nt     == Upcoming(times, head.timestamp)
           B      == Points(g, "block")
           T      == Points(g, "time")
<1>1. head.number \in Nat /\ head.timestamp \in Nat
  BY DEF Fits
<1>2. /\ GenesisTime \in Nat
      /\ \A p \in B : p \in Nat /\ p < GenesisTime
      /\ \A p \in T : p \in Nat /\ GenesisTime < p
  BY PointsAre
<1>3. Sorted(blocks) /\ Range(blocks) = B
  BY PointsOfIs
<1>4. Sorted(times) /\ Range(times) = T
  <2>1. Sorted(PointsOf(g, "time")) /\ Range(PointsOf(g, "time")) = T
    BY PointsOfIs
  <2>2. Sorted(times) /\ Range(times) = T \cap {t \in Nat : t > GenesisTime}
    BY <2>1, PickedSorted
  <2> HIDE DEF times, T
  <2> QED BY <1>2, <2>2
<1>5. ForkId(g, head) = IF nb # 0 THEN [hash |-> hash, next |-> nb]
                                  ELSE [hash |-> full, next |-> nt]
  BY DEF ForkId
<1> HIDE DEF blocks, times, B, T
<1>6. /\ Sorted(rb) /\ Range(rb) = {p \in B : p <= head.number}
      /\ \/ nb = 0 /\ \A p \in B : p <= head.number
         \/ nb \in B /\ nb > head.number /\ \A p \in B : p > head.number => nb <= p
  BY <1>1, <1>3, ReachedIs
<1>7. /\ Sorted(rt) /\ Range(rt) = {p \in T : p <= head.timestamp}
      /\ \/ nt = 0 /\ \A p \in T : p <= head.timestamp
         \/ nt \in T /\ nt > head.timestamp /\ \A p \in T : p > head.timestamp => nt <= p
  BY <1>1, <1>4, ReachedIs
<1> HIDE DEF rb, rt, nb, nt
<1>8. Increasing(hash) /\ Range(hash) = {p \in B : p <= head.number} \ {0}
  <2>1. Increasing(<<>>) /\ Range(<<>>) = {} /\ CurrentApplied(<<>>) = 0
    BY DEF Increasing, Range, CurrentApplied
  <2>2. \A i \in 1..Len(rb) : 0 <= rb[i]
    BY <1>6 DEF Sorted
  <2> QED BY <1>6, <2>1, <2>2, AddPointsIs
<1> HIDE DEF hash
<1>9. Increasing(full) /\ Range(full) = Range(hash) \cup {p \in T : p <= head.timestamp}
  <2>1. CurrentApplied(hash) \in Nat /\ CurrentApplied(hash) <= GenesisTime
    <3>1. /\ CurrentApplied(hash) \in Nat
          /\ hash # <<>> => CurrentApplied(hash) \in Range(hash)
      BY <1>8, LastIsGreatest
    <3>2. hash = <<>> => CurrentApplied(hash) = 0
      BY DEF CurrentApplied
    <3>3. CurrentApplied(hash) \in Range(hash) => CurrentApplied(hash) < GenesisTime
      BY <1>2, <1>8
    <3> QED BY <1>2, <3>1, <3>2, <3>3
  <2>2. \A i \in 1..Len(rt) : rt[i] \in T
    <3>1. DOMAIN rt = 1..Len(rt)
      BY <1>7 DEF Sorted
    <3>2. \A i \in 1..Len(rt) : rt[i] \in Range(rt)
      BY <3>1 DEF Range
    <3> QED BY <1>7, <3>2
  <2>3. \A i \in 1..Len(rt) : CurrentApplied(hash) <= rt[i]
    BY <1>2, <2>1, <2>2
  <2>4. 0 \notin Range(hash)
    BY <1>8
  <2>5. Increasing(full) /\ Range(full) = Range(hash) \cup (Range(rt) \ {0})
    BY <1>7, <1>8, <2>3, <2>4, AddPointsIs
  <2>6. 0 \notin T
    BY <1>2
  <2> HIDE DEF full
  <2> QED BY <1>7, <2>5, <2>6
<1> HIDE DEF full
<1>10. ForkPoints(g) = (B \ {0}) \cup T
  BY DEF ForkPoints, B, T
<1>11. /\ \A p \in B : IsPast(p, head) <=> p <= head.number
       /\ \A p \in T : IsPast(p, head) <=> p <= head.timestamp
  <2>1. \A p \in B : ~(p > GenesisTime)
    BY <1>2
  <2>2. \A p \in T : p > GenesisTime
    BY <1>2
  <2> QED BY <2>1, <2>2 DEF IsPast
<1>12. PastPoints(g, head) = ({p \in B : p <= head.number} \ {0})
                               \cup {p \in T : p <= head.timestamp}
  BY <1>10, <1>11 DEF PastPoints
<1>13. CASE nb # 0
  <2>1. nb \in B /\ nb > head.number /\ \A p \in B : p > head.number => nb <= p
    BY <1>6, <1>13
  <2>2. \A p \in T : ~(p <= head.timestamp)
    <3>1. ~(nb <= head.number)
      BY <1>1, <1>2, <2>1
    <3> QED BY <2>1, <3>1 DEF Fits, B, T
  <2>3. PastPoints(g, head) = Range(hash)
    BY <1>8, <1>12, <2>2
  <2>4. IsNext(nb, g, head)
    <3>1. nb \in ForkPoints(g) \ PastPoints(g, head)
      BY <1>1, <1>2, <1>10, <1>12, <1>13, <2>1, <2>2
    <3>2. ASSUME NEW p \in ForkPoints(g) \ PastPoints(g, head) PROVE nb <= p
      <4>1. p \in T => nb <= p
        BY <1>2, <2>1
      <4>2. p \in B => nb <= p
        BY <1>1, <1>2, <1>10, <1>12, <2>1, <3>2
      <4> QED BY <1>10, <4>1, <4>2
    <3> QED BY <3>1, <3>2 DEF IsNext
  <2>5. ForkId(g, head) = [hash |-> hash, next |-> nb]
    BY <1>5, <1>13
  <2> QED BY <1>8, <2>3, <2>4, <2>5
<1>14. CASE nb = 0
  <2>1. \A p \in B : p <= head.number
    BY <1>1, <1>2, <1>6, <1>14
  <2>2. PastPoints(g, head) = Range(full)
    BY <1>8, <1>9, <1>12
  <2>3. ForkPoints(g) \ PastPoints(g, head) = {p \in T : ~(p <= head.timestamp)}
    <3>1. \A p \in T : p # 0
      BY <1>2
    <3> QED BY <1>10, <1>11, <2>1, <3>1 DEF PastPoints
  <2>4. IsNext(nt, g, head)
    <3>1. CASE nt = 0 /\ \A p \in T : p <= head.timestamp
      <4>1. ForkPoints(g) \ PastPoints(g, head) = {}
        BY <2>3, <3>1
      <4> QED BY <3>1, <4>1 DEF IsNext, PastPoints
    <3>2. CASE nt \in T /\ nt > head.timestamp /\ \A p \in T : p > head.timestamp => nt <= p
      <4>1. nt \in ForkPoints(g) \ PastPoints(g, head)
        BY <1>1, <1>2, <2>3, <3>2
      <4>2. \A p \in ForkPoints(g) \ PastPoints(g, head) : nt <= p
        BY <1>1, <1>2, <2>3, <3>2
      <4> QED BY <4>1, <4>2 DEF IsNext
    <3> QED BY <1>7, <3>1, <3>2
  <2>5. ForkId(g, head) = [hash |-> full, next |-> nt]
    BY <1>5, <1>14
  <2> QED BY <1>9, <2>2, <2>4, <2>5
<1> QED BY <1>13, <1>14

(* Fork identifiers: fork_filter.                                          *)

\* the keys before c in the order of ForkFilter, which is that of their points
BelowKey(keys, c) == {d \in keys : d.point < c.point}

\* Ranked by their points, distinct keys have the ranks from 0 up.
LEMMA RanksAre ==
  ASSUME NEW keys, IsFiniteSet(keys), \A c \in keys : c.point \in Nat,
         \A c, d \in keys : c.point = d.point => c = d,
         NEW rank, rank = [c \in keys |-> Cardinality(BelowKey(keys, c)) + 1]
  PROVE  /\ Cardinality(keys) \in Nat
         /\ \A c \in keys : rank[c] \in 1..Cardinality(keys)
         /\ \A c, d \in keys : c.point < d.point => rank[c] < rank[d]
         /\ \A i \in 1..Cardinality(keys) : \E c \in keys : rank[c] = i
<1> DEFINE n == Cardinality(keys)
<1>1. n \in Nat
  BY FS_CardinalityType
<1>2. ASSUME NEW c \in keys
      PROVE  /\ IsFiniteSet(BelowKey(keys, c)) /\ Cardinality(BelowKey(keys, c)) \in Nat
             /\ Cardinality(BelowKey(keys, c)) < n
  <2> DEFINE S == BelowKey(keys, c)
  <2>1. S \in SUBSET keys /\ S # keys
    BY DEF BelowKey
  <2>2. IsFiniteSet(S) /\ Cardinality(S) <= n /\ (n = Cardinality(S) => keys = S)
    BY <2>1, FS_Subset
  <2>3. Cardinality(S) \in Nat
    BY <2>2, FS_CardinalityType
  <2> QED BY <1>1, <2>1, <2>2, <2>3
<1>3. ASSUME NEW c \in keys, NEW d \in keys, c.point < d.point
      PROVE  rank[c] < rank[d]
  <2> DEFINE S == BelowKey(keys, c)
             T == BelowKey(keys, d)
  <2>1. S \in SUBSET T /\ c \in T /\ c \notin S
    BY <1>3 DEF BelowKey
  <2>2. Cardinality(S) <= Cardinality(T) /\ (Cardinality(T) = Cardinality(S) => T = S)
    BY <1>2, <2>1, FS_Subset
  <2>3. Cardinality(S) < Cardinality(T)
    BY <1>2, <2>1, <2>2
  <2> QED BY <1>2, <2>3
<1>4. ASSUME NEW c \in keys PROVE rank[c] \in 1..n
  BY <1>1, <1>2
<1>5. rank \in Injection(keys, 1..n)
  <2>1. rank \in [keys -> 1..n]
    BY <1>4
  <2>2. ASSUME NEW c \in keys, NEW d \in keys, rank[c] = rank[d] PROVE c = d
    <3>1. ~(rank[c] < rank[d]) /\ ~(rank[d] < rank[c])
      BY <1>1, <1>4, <2>2
    <3>2. ~(c.point < d.point) /\ ~(d.point < c.point)
      BY <1>3, <3>1
    <3> QED BY <3>2
  <2> QED BY <2>1, <2>2 DEF Injection, IsInjective
<1>6. IsFiniteSet(1..n) /\ Cardinality(1..n) = n
  BY <1>1, FS_Interval
<1>7. rank \in Surjection(keys, 1..n)
  BY <1>5, <1>6, FS_Injection
<1>8. \A i \in 1..n : \E c \in keys : rank[c] = i
  BY <1>7 DEF Surjection
<1> QED BY <1>1, <1>3, <1>4, <1>8

\* the points of the keys, as fork_filter sorts them
KeyPoints(g) == [i \in DOMAIN ForkFilterKeys(g) |-> ForkFilterKeys(g)[i].point]

LEMMA KeysAre ==
  ASSUME NEW g, WellFormed(g), NEW K, K = KeyPoints(g),
         NEW sorted, sorted = ForkFilterKeys(g)
  PROVE  /\ Increasing(K) /\ Range(K) = ForkPoints(g)
         /\ Len(sorted) = Len(K) /\ Len(K) \in Nat
         /\ \A i \in 1..Len(K) : /\ sorted[i].point = K[i]
                                 /\ sorted[i].kind = "block" <=> ~(K[i] > GenesisTime)
<1> DEFINE all  == ForksIter(g)
           keys == {c \in Range(all) :
                      IF c.kind = "block" THEN c.point > 0 ELSE c.point > GenesisTime}
           n    == Cardinality(keys)
           B    == Points(g, "block")
           T    == Points(g, "time")
           Before(c, d) == IF c.kind = d.kind THEN c.point < d.point ELSE c.kind = "block"
<1>1. /\ GenesisTime \in Nat
      /\ \A p \in B : p \in Nat /\ p < GenesisTime
      /\ \A p \in T : p \in Nat /\ GenesisTime < p
  BY PointsAre
<1>2. /\ all \in Seq(AllConditions)
      /\ Range(all) = {Condition("block", p) : p \in B} \cup {Condition("time", p) : p \in T}
  <2> DEFINE b == Conditions(g, "block", NamesOf("block"))
             t == Conditions(g, "time", NamesOf("time"))
  <2>1. /\ Range(b) = {Condition("block", p) : p \in B}
        /\ Range(t) = {Condition("time", p) : p \in T}
    BY ConditionsAre
  <2>2. b = Conditions(g, "block", BlockForks) /\ t = Conditions(g, "time", TimeForks)
    BY DEF NamesOf
  <2>3. all \in Seq(AllConditions) /\ Range(all) = Range(b) \cup Range(t)
    <3> HIDE DEF all, b, t
    <3> QED BY <2>2, ForksIterIs DEF all
  <2> QED BY <2>1, <2>3
<1>3. sorted = [i \in 1..n |-> CHOOSE c \in keys :
                                 Cardinality({d \in keys : Before(d, c)}) = i - 1]
  BY DEF ForkFilterKeys
<1>4. IsFiniteSet(keys)
  <2>1. Len(all) \in Nat /\ DOMAIN all = 1..Len(all)
    BY <1>2
  <2>2. all \in Surjection(1..Len(all), Range(all))
    <3> HIDE DEF all
    <3>1. all \in [1..Len(all) -> Range(all)]
      BY <1>2, <2>1 DEF Range
    <3>2. \A x \in Range(all) : \E i \in 1..Len(all) : all[i] = x
      BY <2>1 DEF Range
    <3> QED BY <3>1, <3>2 DEF Surjection
  <2>3. IsFiniteSet(1..Len(all))
    BY <2>1, FS_Interval
  <2>4. IsFiniteSet(Range(all))
    <3> HIDE DEF all
    <3> QED BY <2>2, <2>3, FS_Surjection
  <2>5. keys \in SUBSET Range(all)
    OBVIOUS
  <2> HIDE DEF keys, all
  <2> QED BY <2>4, <2>5, FS_Subset
<1>5. /\ \A c \in keys : \/ \E p \in B \ {0} : c = Condition("block", p)
                         \/ \E p \in T : c = Condition("time", p)
      /\ \A p \in B \ {0} : Condition("block", p) \in keys
      /\ \A p \in T : Condition("time", p) \in keys
  <2> HIDE DEF all, B, T
  <2>1. ASSUME NEW c \in keys
        PROVE  \/ \E p \in B \ {0} : c = Condition("block", p)
               \/ \E p \in T : c = Condition("time", p)
    <3>1. CASE \E p \in B : c = Condition("block", p)
      <4>1. PICK p \in B : c = Condition("block", p)
        BY <3>1
      <4>2. c.kind = "block" /\ c.point = p
        BY <4>1 DEF Condition
      <4>3. p > 0
        BY <4>2
      <4> QED BY <1>1, <4>1, <4>3
    <3>2. CASE \E p \in T : c = Condition("time", p)
      BY <3>2
    <3> QED BY <1>2, <3>1, <3>2
  <2>2. ASSUME NEW p \in B \ {0} PROVE Condition("block", p) \in keys
    <3>1. Condition("block", p).kind = "block" /\ Condition("block", p).point = p
      BY DEF Condition
    <3>2. p > 0 /\ Condition("block", p) \in Range(all)
      BY <1>1, <1>2
    <3> QED BY <3>1, <3>2
  <2>3. ASSUME NEW p \in T PROVE Condition("time", p) \in keys
    <3>1. Condition("time", p).kind = "time" /\ Condition("time", p).point = p
      BY DEF Condition
    <3>2. p > GenesisTime /\ Condition("time", p) \in Range(all)
      BY <1>1, <1>2
    <3> QED BY <3>1, <3>2
  <2> QED BY <2>1, <2>2, <2>3
<1> HIDE DEF keys, all, B, T, n
<1>6. ASSUME NEW c \in keys
      PROVE  /\ c.point \in ForkPoints(g) /\ c.point \in Nat
             /\ c = Condition(c.kind, c.point)
             /\ c.kind = "block" \/ c.kind = "time"
             /\ c.kind = "block" <=> ~(c.point > GenesisTime)
  <2>1. CASE \E p \in B \ {0} : c = Condition("block", p)
    <3>1. PICK p \in B \ {0} : c = Condition("block", p)
      BY <2>1
    <3>2. c.kind = "block" /\ c.point = p
      BY <3>1 DEF Condition
    <3> QED BY <1>1, <3>1, <3>2 DEF ForkPoints, B
  <2>2. CASE \E p \in T : c = Condition("time", p)
    <3>1. PICK p \in T : c = Condition("time", p)
      BY <2>2
    <3>2. c.kind = "time" /\ c.point = p
      BY <3>1 DEF Condition
    <3> QED BY <1>1, <3>1, <3>2 DEF ForkPoints, T
  <2> QED BY <1>5, <2>1, <2>2
<1>7. \A c, d \in keys : c.point = d.point => c = d
  BY <1>6
<1>8. \A c, d \in keys : Before(d, c) <=> d.point < c.point
  BY <1>1, <1>6
<1> DEFINE rank == [c \in keys |-> Cardinality(BelowKey(keys, c)) + 1]
<1>9. /\ n \in Nat
      /\ \A c \in keys : rank[c] \in 1..n
      /\ \A c, d \in keys : c.point < d.point => rank[c] < rank[d]
      /\ \A i \in 1..n : \E c \in keys : rank[c] = i
  <2>1. \A c \in keys : c.point \in Nat
    BY <1>6
  <2>2. rank = [c \in keys |-> Cardinality(BelowKey(keys, c)) + 1]
    OBVIOUS
  <2> HIDE DEF rank
  <2> QED BY <1>4, <1>7, <2>1, <2>2, RanksAre DEF n
<1>10. ASSUME NEW i \in 1..n PROVE sorted[i] \in keys /\ rank[sorted[i]] = i
  <2> DEFINE P(c) == Cardinality({d \in keys : Before(d, c)}) = i - 1
  <2>1. ASSUME NEW c \in keys PROVE P(c) <=> rank[c] = i
    <3>1. {d \in keys : Before(d, c)} = BelowKey(keys, c)
      <4> HIDE DEF Before
      <4> QED BY <1>8 DEF BelowKey
    <3>2. rank[c] = Cardinality(BelowKey(keys, c)) + 1 /\ rank[c] \in Nat
      BY <1>9
    <3>3. Cardinality(BelowKey(keys, c)) \in Nat
      <4>1. BelowKey(keys, c) \in SUBSET keys
        BY DEF BelowKey
      <4> QED BY <1>4, <4>1, FS_Subset, FS_CardinalityType
    <3> HIDE DEF Before, rank
    <3> QED BY <3>1, <3>2, <3>3
  <2>2. sorted[i] = CHOOSE c \in keys : P(c)
    BY <1>3
  <2>3. \E c \in keys : P(c)
    BY <1>9, <2>1
  <2> HIDE DEF P
  <2>4. sorted[i] \in keys /\ P(sorted[i])
    BY <2>2, <2>3
  <2> QED BY <2>1, <2>4
<1> HIDE DEF rank
<1>11. /\ sorted \in Seq(keys) /\ Len(sorted) = n /\ DOMAIN sorted = 1..n
  <2> DEFINE Nth(i) == CHOOSE c \in keys : Cardinality({d \in keys : Before(d, c)}) = i - 1
  <2>1. sorted = [i \in 1..n |-> Nth(i)]
    BY <1>3
  <2> HIDE DEF Nth
  <2>2. \A i \in 1..n : Nth(i) \in keys
    BY <1>10, <2>1
  <2> QED BY <1>9, <2>1, <2>2
<1>12. K = [i \in 1..n |-> sorted[i].point]
  BY <1>11 DEF KeyPoints
<1>13. \A i \in 1..n : K[i] = sorted[i].point /\ K[i] \in Nat
  BY <1>6, <1>10, <1>12
<1>14. K \in Seq(Nat) /\ Len(K) = n /\ DOMAIN K = 1..n
  BY <1>9, <1>12, <1>13
<1>15. \A i, j \in 1..n : i < j => K[i] < K[j]
  <2> SUFFICES ASSUME NEW i \in 1..n, NEW j \in 1..n, i < j PROVE K[i] < K[j]
    OBVIOUS
  <2> DEFINE c == sorted[i]
             d == sorted[j]
  <2>1. c \in keys /\ d \in keys /\ rank[c] = i /\ rank[d] = j
    BY <1>10
  <2> HIDE DEF c, d
  <2>2. ~(d.point < c.point)
    BY <1>9, <2>1
  <2>3. c.point # d.point
    BY <1>7, <1>9, <2>1
  <2>4. c.point \in Nat /\ d.point \in Nat
    BY <1>6, <2>1
  <2> QED BY <1>13, <2>2, <2>3, <2>4 DEF c, d
<1>16. Range(K) = ForkPoints(g)
  <2>1. ASSUME NEW i \in 1..n PROVE K[i] \in ForkPoints(g)
    BY <1>6, <1>10, <1>13
  <2>2. ASSUME NEW c \in keys PROVE c.point \in Range(K)
    <3> DEFINE i == rank[c]
               d == sorted[i]
    <3>1. i \in 1..n /\ d \in keys /\ rank[d] = i
      BY <1>9, <1>10
    <3>2. c.point = d.point
      <4>1. ~(rank[c] < rank[d]) /\ ~(rank[d] < rank[c])
        BY <1>9, <3>1
      <4>2. ~(c.point < d.point) /\ ~(d.point < c.point)
        BY <1>9, <3>1, <4>1
      <4> QED BY <1>6, <3>1, <4>2
    <3>3. K[i] = c.point
      BY <1>13, <3>1, <3>2
    <3> QED BY <1>14, <3>1, <3>3 DEF Range
  <2>3. ASSUME NEW p \in ForkPoints(g) PROVE p \in Range(K)
    <3>1. CASE p \in B \ {0}
      <4>1. Condition("block", p) \in keys /\ Condition("block", p).point = p
        BY <1>5, <3>1 DEF Condition
      <4> QED BY <2>2, <4>1
    <3>2. CASE p \in T
      <4>1. Condition("time", p) \in keys /\ Condition("time", p).point = p
        BY <1>5, <3>2 DEF Condition
      <4> QED BY <2>2, <4>1
    <3> QED BY <3>1, <3>2 DEF ForkPoints, B, T
  <2>4. Range(K) \subseteq ForkPoints(g)
    BY <1>14, <2>1 DEF Range
  <2> QED BY <2>3, <2>4
<1>17. \A i \in 1..n : sorted[i].kind = "block" <=> ~(K[i] > GenesisTime)
  BY <1>6, <1>10, <1>13
<1>18. Increasing(K)
  BY <1>14, <1>15 DEF Increasing
<1> QED BY <1>9, <1>11, <1>13, <1>14, <1>16, <1>17, <1>18

\* The hash at the i-th key is that of the points up to it.
Prefix(K, i) == [j \in 1..i |-> K[j]]

\* f is the filter over the points K, the first k of which are past.
IsFilter(f, K, k, g, head) ==
  /\ Increasing(K) /\ Range(K) = ForkPoints(g) /\ k \in 0..Len(K)
  /\ \A i \in 1..Len(K) : IsPast(K[i], head) <=> i <= k
  /\ f.head = head /\ f.past = 0..k
  /\ \A i \in 1..Len(K) : f.keys[i].point = K[i]
  /\ f.hashes = [i \in 0..Len(K) |-> Prefix(K, i)]
  /\ f.id = [hash |-> Prefix(K, k), next |-> IF k = Len(K) THEN 0 ELSE K[k + 1]]

LEMMA PrefixIs ==
  ASSUME NEW K, Increasing(K), NEW i \in 0..Len(K)
  PROVE  /\ Increasing(Prefix(K, i)) /\ Len(Prefix(K, i)) = i
         /\ \A x : x \in Range(Prefix(K, i)) <=> \E j \in 1..i : x = K[j]
<1> DEFINE s == Prefix(K, i)
<1>1. K \in Seq(Nat) /\ Len(K) \in Nat /\ DOMAIN K = 1..Len(K)
  BY DEF Increasing
<1>2. \A j \in 1..i : j \in 1..Len(K) /\ K[j] \in Nat
  BY <1>1
<1>3. /\ s \in Seq(Nat) /\ Len(s) = i /\ DOMAIN s = 1..i
      /\ \A j \in 1..i : s[j] = K[j]
  BY <1>1, <1>2 DEF Prefix
<1> HIDE DEF s
<1>4. Increasing(s)
  BY <1>2, <1>3 DEF Increasing
<1>5. \A x : x \in Range(s) <=> \E j \in 1..i : x = K[j]
  BY <1>3 DEF Range
<1> QED BY <1>3, <1>4, <1>5 DEF s

\* What is past of sorted keys comes first.
LEMMA PastComesFirst ==
  ASSUME NEW g, WellFormed(g), NEW head, Fits(g, head),
         NEW p \in ForkPoints(g), NEW q \in ForkPoints(g), p < q, IsPast(q, head)
  PROVE  IsPast(p, head)
<1>1. /\ GenesisTime \in Nat
      /\ \A x \in Points(g, "block") : x \in Nat /\ x < GenesisTime
      /\ \A x \in Points(g, "time") : x \in Nat /\ GenesisTime < x
  BY PointsAre
<1>2. p \in Nat /\ q \in Nat /\ head.number \in Nat /\ head.timestamp \in Nat
  BY <1>1 DEF ForkPoints, Fits
<1>3. CASE q \in Points(g, "block")
  <2>1. ~(q > GenesisTime) /\ ~(p > GenesisTime)
    BY <1>1, <1>2, <1>3
  <2> QED BY <1>2, <2>1 DEF IsPast
<1>4. CASE q \in Points(g, "time") /\ p \in Points(g, "time")
  BY <1>1, <1>2, <1>4 DEF IsPast
<1>5. CASE q \in Points(g, "time") /\ p \in Points(g, "block")
  <2>1. q <= head.timestamp /\ ~(p > GenesisTime)
    BY <1>1, <1>2, <1>5 DEF IsPast
  <2>2. p <= head.number
    BY <1>5, <2>1 DEF Fits
  <2> QED BY <2>1, <2>2 DEF IsPast
<1> QED BY <1>3, <1>4, <1>5 DEF ForkPoints

LEMMA FilterIs ==
  ASSUME NEW g, WellFormed(g), NEW head, Fits(g, head)
  PROVE  \E k : IsFilter(ForkFilter(g, head), KeyPoints(g), k, g, head)
<1> DEFINE f      == ForkFilter(g, head)
           K      == KeyPoints(g)
           keys   == ForkFilterKeys(g)
           n      == Len(keys)
           hashes == [i \in 0..n |-> [j \in 1..i |-> keys[j].point]]
           isPast == [i \in 0..n |->
                        i = 0 \/ keys[i].point <= (IF keys[i].kind = "block" THEN head.number
                                                                           ELSE head.timestamp)]
           past   == {i \in 0..n : isPast[i]}
           ahead  == {i \in 0..n : ~isPast[i]}
<1>1. f = [head |-> head, keys |-> keys, hashes |-> hashes, past |-> past,
           id |-> [hash |-> hashes[Max(past)],
                   next |-> IF ahead = {} THEN 0 ELSE keys[Min(ahead)].point]]
  BY DEF ForkFilter
<1>2. /\ Increasing(K) /\ Range(K) = ForkPoints(g)
      /\ n = Len(K) /\ n \in Nat
      /\ \A i \in 1..n : /\ keys[i].point = K[i]
                         /\ keys[i].kind = "block" <=> ~(K[i] > GenesisTime)
  <2> HIDE DEF K, keys
  <2>1. /\ Increasing(K) /\ Range(K) = ForkPoints(g)
        /\ Len(keys) = Len(K) /\ Len(K) \in Nat
        /\ \A i \in 1..Len(K) : /\ keys[i].point = K[i]
                                /\ keys[i].kind = "block" <=> ~(K[i] > GenesisTime)
    BY KeysAre DEF K, keys
  <2> QED BY <2>1
<1> HIDE DEF K, keys, f
<1>3. K \in Seq(Nat) /\ DOMAIN K = 1..n
  BY <1>2 DEF Increasing
<1>4. isPast[0] /\ \A i \in 1..n : isPast[i] <=> IsPast(K[i], head)
  <2>1. isPast[0]
    <3> DEFINE v(i) == IF keys[i].kind = "block" THEN head.number ELSE head.timestamp
    <3>1. isPast = [i \in 0..n |-> i = 0 \/ keys[i].point <= v(i)]
      OBVIOUS
    <3>2. 0 \in 0..n
      BY <1>2
    <3> HIDE DEF isPast, v
    <3>3. isPast[0] = (0 = 0 \/ keys[0].point <= v(0))
      BY <3>1, <3>2
    <3> QED BY Zenon, <3>3
  <2>2. ASSUME NEW i \in 1..n PROVE isPast[i] <=> IsPast(K[i], head)
    <3>1. i \in 0..n /\ i # 0
      BY <1>2
    <3>2. isPast[i] <=> K[i] <= (IF keys[i].kind = "block" THEN head.number ELSE head.timestamp)
      BY <1>2, <3>1
    <3> QED BY <1>2, <3>2 DEF IsPast
  <2> QED BY <2>1, <2>2
<1> HIDE DEF isPast
<1>5. \A i, j \in 1..n : i < j /\ isPast[j] => isPast[i]
  <2> SUFFICES ASSUME NEW i \in 1..n, NEW j \in 1..n, i < j, isPast[j] PROVE isPast[i]
    OBVIOUS
  <2>1. K[i] \in ForkPoints(g) /\ K[j] \in ForkPoints(g)
    <3>1. K[i] \in Range(K) /\ K[j] \in Range(K)
      BY <1>3 DEF Range
    <3> QED BY <1>2, <3>1
  <2>2. K[i] < K[j] /\ IsPast(K[j], head)
    BY <1>2, <1>4 DEF Increasing
  <2>3. IsPast(K[i], head)
    BY <2>1, <2>2, PastComesFirst
  <2> QED BY <1>4, <2>3
<1> DEFINE k == Max(past)
<1>6. k \in past /\ \A i \in past : i <= k
  <2>1. past \in SUBSET (0..n) /\ 0 \in past
    BY <1>2, <1>4
  <2>2. past # {}
    BY <2>1
  <2> HIDE DEF past
  <2> QED BY <1>2, <2>1, <2>2, MaxIs
<1> HIDE DEF k
<1>7. k \in 0..n /\ isPast[k]
  BY <1>6
<1>8. ASSUME NEW i \in 0..n PROVE isPast[i] <=> i <= k
  <2>1. isPast[i] => i <= k
    BY <1>6
  <2>2. i <= k => isPast[i]
    <3>1. i = 0 \/ i = k \/ (i < k => i \in 1..n /\ k \in 1..n)
      BY <1>2, <1>7
    <3> QED BY <1>2, <1>4, <1>5, <1>7, <3>1
  <2> QED BY <2>1, <2>2
<1>9. past = 0..k
  BY <1>2, <1>7, <1>8
<1>10. ahead = (k + 1)..n
  BY <1>2, <1>7, <1>8
<1>11. \A i \in 1..n : IsPast(K[i], head) <=> i <= k
  BY <1>2, <1>4, <1>8
<1>12. hashes = [i \in 0..n |-> Prefix(K, i)]
  <2>1. ASSUME NEW i \in 0..n PROVE [j \in 1..i |-> keys[j].point] = Prefix(K, i)
    <3>1. \A j \in 1..i : keys[j].point = K[j]
      BY <1>2
    <3> QED BY <3>1 DEF Prefix
  <2> QED BY <2>1
<1>13. (IF ahead = {} THEN 0 ELSE keys[Min(ahead)].point) = IF k = n THEN 0 ELSE K[k + 1]
  <2>1. CASE k = n
    <3>1. ahead = {}
      BY <1>2, <1>10, <2>1
    <3> QED BY <2>1, <3>1
  <2>2. CASE k # n
    <3>1. k + 1 \in ahead /\ ahead \in SUBSET Nat /\ \A i \in ahead : k + 1 <= i
      BY <1>2, <1>7, <1>10, <2>2
    <3> HIDE DEF ahead
    <3>2. Min(ahead) \in ahead /\ \A i \in ahead : Min(ahead) <= i
      <4>1. ahead # {}
        BY <3>1
      <4> QED BY <3>1, <4>1, MinIs
    <3>3. Min(ahead) = k + 1
      <4>1. Min(ahead) \in Nat /\ k + 1 \in Nat /\ Min(ahead) <= k + 1 /\ k + 1 <= Min(ahead)
        BY <3>1, <3>2
      <4> QED BY <4>1
    <3>4. keys[k + 1].point = K[k + 1]
      BY <1>2, <1>7, <2>2
    <3> QED BY <2>2, <3>1, <3>3, <3>4
  <2> QED BY <2>1, <2>2
<1> HIDE DEF hashes, past, ahead
<1>14. /\ f.head = head /\ f.past = past /\ f.keys = keys /\ f.hashes = hashes
       /\ f.id = [hash |-> hashes[k], next |-> IF ahead = {} THEN 0 ELSE keys[Min(ahead)].point]
  BY <1>1 DEF k
<1>15. hashes[k] = Prefix(K, k)
  BY <1>7, <1>12
<1>16. f.id = [hash |-> Prefix(K, k), next |-> IF k = Len(K) THEN 0 ELSE K[k + 1]]
  BY <1>2, <1>13, <1>14, <1>15
<1>17. f.hashes = [i \in 0..Len(K) |-> Prefix(K, i)]
  BY <1>2, <1>12, <1>14
<1>18. IsFilter(f, K, k, g, head)
  BY <1>2, <1>7, <1>9, <1>11, <1>14, <1>16, <1>17 DEF IsFilter
<1> QED BY <1>18 DEF f, K

\* What a filter announces is fork_id.
LEMMA FilterAnnounces ==
  ASSUME NEW g, WellFormed(g), NEW head, Fits(g, head),
         NEW f, NEW K, NEW k, IsFilter(f, K, k, g, head)
  PROVE  f.id = ForkId(g, head) /\ Range(f.id.hash) = PastPoints(g, head)
<1> DEFINE id == ForkId(g, head)
           n == Len(K)
<1>1. /\ Increasing(K) /\ Range(K) = ForkPoints(g) /\ k \in 0..n
      /\ \A i \in 1..n : IsPast(K[i], head) <=> i <= k
      /\ f.id = [hash |-> Prefix(K, k), next |-> IF k = n THEN 0 ELSE K[k + 1]]
  BY DEF IsFilter
<1>2. K \in Seq(Nat) /\ n \in Nat /\ DOMAIN K = 1..n
  BY <1>1 DEF Increasing
<1>3. \A x : x \in ForkPoints(g) <=> \E i \in 1..n : x = K[i]
  BY <1>1, <1>2 DEF Range
<1>4. /\ Increasing(Prefix(K, k))
      /\ \A x : x \in Range(Prefix(K, k)) <=> \E j \in 1..k : x = K[j]
  BY <1>1, PrefixIs
<1>5. \A x : x \in PastPoints(g, head) <=> \E j \in 1..k : x = K[j]
  <2>1. ASSUME NEW x \in PastPoints(g, head) PROVE \E j \in 1..k : x = K[j]
    <3>1. x \in ForkPoints(g) /\ IsPast(x, head)
      BY DEF PastPoints
    <3>2. PICK i \in 1..n : x = K[i]
      BY <1>3, <3>1
    <3>3. i \in 1..k
      <4>1. IsPast(K[i], head)
        BY <3>1, <3>2
      <4>2. IsPast(K[i], head) => i <= k
        BY <1>1
      <4>3. k \in Nat
        BY <1>1
      <4> QED BY <4>1, <4>2, <4>3
    <3> QED BY <3>2, <3>3
  <2>2. ASSUME NEW j \in 1..k PROVE K[j] \in PastPoints(g, head)
    <3>1. j \in 1..n /\ j <= k
      <4>1. k \in Nat /\ n \in Nat /\ k <= n
        BY <1>1, <1>2
      <4> QED BY <4>1
    <3>2. IsPast(K[j], head) /\ K[j] \in ForkPoints(g)
      BY <1>1, <1>3, <3>1
    <3> QED BY <3>2 DEF PastPoints
  <2> QED BY <2>1, <2>2
<1>6. Range(Prefix(K, k)) = PastPoints(g, head)
  BY <1>4, <1>5
<1>7. /\ id = [hash |-> id.hash, next |-> id.next]
      /\ Increasing(id.hash) /\ Range(id.hash) = PastPoints(g, head)
      /\ IsNext(id.next, g, head)
  BY ForkIdIs
<1> HIDE DEF id
<1>8. id.hash = Prefix(K, k)
  BY <1>4, <1>6, <1>7, SameSequence
<1>9. id.next = IF k = n THEN 0 ELSE K[k + 1]
  <2>1. CASE k = n
    <3>1. ForkPoints(g) \ PastPoints(g, head) = {}
      BY <1>3, <1>5, <2>1
    <3> QED BY <1>7, <2>1, <3>1 DEF IsNext
  <2>2. CASE k # n
    <3>1. k + 1 \in 1..n /\ K[k + 1] \in Nat
      BY <1>1, <1>2, <2>2
    <3>2. K[k + 1] \in ForkPoints(g) \ PastPoints(g, head)
      <4>1. ~(k + 1 <= k)
        BY <1>1
      <4>2. ~IsPast(K[k + 1], head)
        BY <1>1, <3>1, <4>1
      <4> QED BY <1>3, <3>1, <4>2 DEF PastPoints
    <3>3. id.next \in ForkPoints(g) \ PastPoints(g, head) /\ id.next <= K[k + 1]
      BY <1>7, <3>2 DEF IsNext
    <3>4. PICK i \in 1..n : id.next = K[i]
      BY <1>3, <3>3
    <3>5. ~(i <= k)
      <4>1. ~IsPast(K[i], head)
        BY <3>3, <3>4 DEF PastPoints
      <4> QED BY <1>1, <4>1
    <3>6. i = k + 1 \/ k + 1 < i
      BY <1>1, <3>5
    <3>7. K[k + 1] <= K[i] /\ K[i] \in Nat
      <4>1. K[i] \in Nat
        BY <1>2
      <4>2. k + 1 < i => K[k + 1] < K[i]
        BY <1>1, <3>1 DEF Increasing
      <4> QED BY <3>1, <3>6, <4>1, <4>2
    <3>8. id.next = K[k + 1]
      BY <3>1, <3>3, <3>4, <3>7
    <3> QED BY <2>2, <3>8
  <2> QED BY <2>1, <2>2
<1>10. f.id = id
  BY <1>1, <1>7, <1>8, <1>9
<1>11. f.id.hash = Prefix(K, k)
  BY <1>1
<1> QED BY <1>6, <1>10, <1>11 DEF id

\* Prefixes of one list are told apart by their length.
LEMMA PrefixesDiffer ==
  ASSUME NEW K, Increasing(K), NEW i \in 0..Len(K), NEW j \in 0..Len(K)
  PROVE  Prefix(K, i) = Prefix(K, j) <=> i = j
<1>1. Len(Prefix(K, i)) = i /\ Len(Prefix(K, j)) = j
  BY PrefixIs
<1> QED BY <1>1

\* Two nodes of one genesis meet, be the one behind, ahead or at the same forks.
LEMMA Meet ==
  ASSUME NEW g, WellFormed(g), NEW h1, Fits(g, h1), NEW h2,
         NEW K, NEW f1, NEW k1, IsFilter(f1, K, k1, g, h1),
         NEW f2, NEW k2, IsFilter(f2, K, k2, g, h2)
  PROVE  Accepts(f1, f2.id)
<1> DEFINE n == Len(K)
           id == f2.id
<1>1. /\ Increasing(K) /\ Range(K) = ForkPoints(g) /\ k1 \in 0..n
      /\ \A i \in 1..n : IsPast(K[i], h1) <=> i <= k1
      /\ f1.head = h1 /\ f1.past = 0..k1
      /\ \A i \in 1..n : f1.keys[i].point = K[i]
      /\ f1.hashes = [i \in 0..n |-> Prefix(K, i)]
      /\ f1.id.hash = Prefix(K, k1)
  BY DEF IsFilter
<1>2. /\ k2 \in 0..n
      /\ id.hash = Prefix(K, k2)
      /\ id.next = IF k2 = n THEN 0 ELSE K[k2 + 1]
  BY DEF IsFilter
<1>3. K \in Seq(Nat) /\ n \in Nat
  BY <1>1 DEF Increasing
<1>4. k1 \in Nat /\ k2 \in Nat /\ k1 <= n /\ k2 <= n
  BY <1>1, <1>2, <1>3
<1>5. h1.number \in Nat /\ h1.timestamp \in Nat /\ GenesisTime \in Nat
  BY PointsAre DEF Fits
<1>6. \A i \in 0..n : f1.hashes[i] = id.hash <=> i = k2
  BY <1>1, <1>2, PrefixesDiffer
<1>7. f1.id.hash = id.hash <=> k1 = k2
  BY <1>1, <1>2, PrefixesDiffer
<1> DEFINE here  == IF id.next > GenesisTime THEN f1.head.timestamp ELSE f1.head.number
           older == {i \in f1.past : f1.hashes[i] = id.hash /\ \E j \in f1.past : j > i}
<1>8. CASE k1 = k2
  <2>1. id.next = 0 \/ here < id.next
    <3>1. CASE k2 = n
      BY <1>2, <3>1
    <3>2. CASE k2 # n
      <4>1. k2 + 1 \in 1..n /\ id.next = K[k2 + 1] /\ K[k2 + 1] \in Nat
        BY <1>2, <1>3, <1>4, <3>2
      <4>2. ~IsPast(K[k2 + 1], h1)
        <5>1. ~(k2 + 1 <= k1)
          BY <1>4, <1>8
        <5> QED BY <1>1, <4>1, <5>1
      <4>3. ~(K[k2 + 1] <= IF K[k2 + 1] > GenesisTime THEN h1.timestamp ELSE h1.number)
        BY <4>2 DEF IsPast
      <4>4. here = IF K[k2 + 1] > GenesisTime THEN h1.timestamp ELSE h1.number
        BY <1>1, <4>1
      <4> QED BY <1>5, <4>1, <4>3, <4>4
    <3> QED BY <3>1, <3>2
  <2> QED BY <1>7, <1>8, <2>1 DEF Accepts
<1>9. CASE k2 < k1
  <2>1. older = {k2}
    <3>1. k2 \in 0..k1 /\ k1 \in 0..k1 /\ k1 > k2 /\ 0..k1 \subseteq 0..n
      BY <1>3, <1>4, <1>9
    <3>2. \A i \in 0..k1 : f1.hashes[i] = id.hash <=> i = k2
      BY <1>6, <3>1
    <3> QED BY <1>1, <3>1, <3>2
  <2>2. Min(older) = k2
    <3>1. older \in SUBSET Nat /\ older # {}
      BY <1>4, <2>1
    <3>2. Min(older) \in older
      <4> HIDE DEF older
      <4> QED BY <3>1, MinIs
    <3> QED BY <2>1, <3>2
  <2> DEFINE later == {j \in f1.past : j > Min(older)}
  <2>3. Min(later) = k2 + 1
    <3>0. later = {j \in 0..k1 : j > k2}
      <4> HIDE DEF older
      <4> QED BY <1>1, <2>2
    <3>1. k2 + 1 \in later /\ later \in SUBSET Nat /\ \A j \in later : k2 + 1 <= j
      <4> HIDE DEF later
      <4> QED BY <1>4, <1>9, <3>0
    <3> HIDE DEF later
    <3>2. Min(later) \in later /\ \A j \in later : Min(later) <= j
      <4>1. later # {}
        BY <3>1
      <4> QED BY <3>1, <4>1, MinIs
    <3>3. Min(later) \in Nat /\ Min(later) <= k2 + 1 /\ k2 + 1 <= Min(later)
      BY <3>1, <3>2
    <3> QED BY <1>4, <3>3
  <2>4. f1.keys[k2 + 1].point = K[k2 + 1] /\ id.next = K[k2 + 1]
    <3>1. k2 + 1 \in 1..n /\ k2 # n
      BY <1>3, <1>4, <1>9
    <3> QED BY <1>1, <1>2, <3>1
  <2>5. ~(f1.id.hash = id.hash)
    BY <1>4, <1>7, <1>9
  <2>6. older # {}
    BY <2>1
  <2>7. f1.keys[Min(later)].point = id.next
    <3> HIDE DEF later
    <3> QED BY <2>3, <2>4
  <2> QED BY <2>5, <2>6, <2>7 DEF Accepts
<1>10. CASE k1 < k2
  <2>1. older = {}
    <3>1. \A i \in 0..k1 : i \in 0..n /\ i # k2
      BY <1>3, <1>4, <1>10
    <3> QED BY <1>1, <1>6, <3>1
  <2>2. ~(f1.id.hash = id.hash)
    BY <1>4, <1>7, <1>10
  <2>3. k2 \in DOMAIN f1.hashes \ f1.past
    BY <1>1, <1>2, <1>4, <1>10
  <2>4. f1.hashes[k2] = id.hash
    BY <1>2, <1>6
  <2> QED BY <2>1, <2>2, <2>3, <2>4 DEF Accepts
<1> QED BY <1>4, <1>8, <1>9, <1>10

\* Two nodes part when only the first knows a point that both are past.
LEMMA Part ==
  ASSUME NEW g, NEW g2, NEW head,
         NEW K, NEW f, NEW k, IsFilter(f, K, k, g, head),
         Range(f.id.hash) = PastPoints(g, head),
         NEW K2, NEW f2, NEW k2, IsFilter(f2, K2, k2, g2, head),
         Range(f2.id.hash) = PastPoints(g2, head),
         NEW p \in PastPoints(g, head), p # 0, ForkPoints(g2) = ForkPoints(g) \ {p}
  PROVE  ~Accepts(f, f2.id) /\ ~Accepts(f2, f.id)
<1> DEFINE n == Len(K)
           n2 == Len(K2)
<1>1. /\ Increasing(K) /\ Range(K) = ForkPoints(g) /\ k \in 0..n
      /\ \A i \in 1..n : IsPast(K[i], head) <=> i <= k
      /\ f.past = 0..k
      /\ \A i \in 1..n : f.keys[i].point = K[i]
      /\ f.hashes = [i \in 0..n |-> Prefix(K, i)]
      /\ f.id.hash = Prefix(K, k)
  BY DEF IsFilter
<1>2. /\ Increasing(K2) /\ Range(K2) = ForkPoints(g2) /\ k2 \in 0..n2
      /\ f2.past = 0..k2
      /\ f2.hashes = [i \in 0..n2 |-> Prefix(K2, i)]
      /\ f2.id.hash = Prefix(K2, k2)
      /\ f2.id.next = IF k2 = n2 THEN 0 ELSE K2[k2 + 1]
  BY DEF IsFilter
<1>3. /\ n \in Nat /\ DOMAIN K = 1..n /\ \A i \in 1..n : K[i] \in Nat
      /\ n2 \in Nat /\ DOMAIN K2 = 1..n2 /\ \A i \in 1..n2 : K2[i] \in Nat
  <2>1. K \in Seq(Nat) /\ K2 \in Seq(Nat)
    BY <1>1, <1>2 DEF Increasing
  <2> QED BY <2>1, SequenceParts, Zenon
<1>4. k \in Nat /\ k <= n /\ k2 \in Nat /\ k2 <= n2
  <2> HIDE DEF n, n2
  <2>1. k \in 0..n /\ n \in Nat BY <1>1, <1>3
  <2>2. k2 \in 0..n2 /\ n2 \in Nat BY <1>2, <1>3
  <2>3. k \in Nat /\ k <= n BY ONLY <2>1
  <2>4. k2 \in Nat /\ k2 <= n2 BY ONLY <2>2
  <2> QED BY <2>3, <2>4
<1>5. PastPoints(g2, head) = PastPoints(g, head) \ {p}
  BY DEF PastPoints
<1>6. /\ \A i \in 0..n : \A x : x \in Range(Prefix(K, i)) <=> \E j \in 1..i : x = K[j]
      /\ \A i \in 0..n2 : \A x : x \in Range(Prefix(K2, i)) <=> \E j \in 1..i : x = K2[j]
  BY <1>1, <1>2, PrefixIs
<1>7. p \in Range(f.id.hash) /\ p \notin Range(f2.id.hash)
  BY <1>5
<1>8. \A i \in 1..n2 : K2[i] # p
  <2> SUFFICES ASSUME NEW i \in 1..n2 PROVE K2[i] # p
    OBVIOUS
  <2>1. K2[i] \in Range(K2)
    BY <1>3 DEF Range
  <2> QED BY <1>2, <2>1
<1>9. PICK m \in 1..k : K[m] = p
  BY <1>1, <1>6, <1>7
<1>10. ~Accepts(f2, f.id)
  <2>1. \A i \in 0..n2 : f2.hashes[i] # f.id.hash
    <3> SUFFICES ASSUME NEW i \in 0..n2, f2.hashes[i] = f.id.hash PROVE FALSE
      OBVIOUS
    <3>1. p \in Range(Prefix(K2, i))
      BY <1>2, <1>7
    <3>2. PICK j \in 1..i : p = K2[j]
      BY <1>6, <3>1
    <3>3. j \in 1..n2
      BY <1>3, <3>2
    <3> QED BY <1>8, <3>2, <3>3
  <2>2. f2.id.hash # f.id.hash
    BY <1>7
  <2>3. \A i \in f2.past : f2.hashes[i] # f.id.hash
    <3>1. \A i \in 0..k2 : i \in 0..n2
      BY <1>3, <1>4
    <3>2. f2.past = 0..k2
      BY <1>2
    <3> HIDE DEF n2
    <3> QED BY <2>1, <3>1, <3>2
  <2>4. \A i \in DOMAIN f2.hashes : f2.hashes[i] # f.id.hash
    BY <1>2, <2>1
  <2> QED BY <2>2, <2>3, <2>4 DEF Accepts
<1> DEFINE older == {i \in f.past : f.hashes[i] = f2.id.hash /\ \E j \in f.past : j > i}
           later == {j \in f.past : j > Min(older)}
<1>11. \A i \in DOMAIN f.hashes \ f.past : f.hashes[i] # f2.id.hash
  <2> SUFFICES ASSUME NEW i \in 0..n, i \notin 0..k, f.hashes[i] = f2.id.hash PROVE FALSE
    BY <1>1
  <2>1. m \in 1..i
    BY <1>3, <1>4, <1>9
  <2>2. p \in Range(Prefix(K, i))
    BY <1>6, <1>9, <2>1
  <2> QED BY <1>1, <1>7, <2>2
<1>12. older # {} => f.keys[Min(later)].point = p
  <2> SUFFICES ASSUME older # {} PROVE f.keys[Min(later)].point = p
    OBVIOUS
  <2> DEFINE i == Min(older)
  <2>1. i \in older
    <3>1. older \in SUBSET Nat
      BY <1>1, <1>4
    <3> HIDE DEF older
    <3> QED BY <3>1, MinIs
  <2>2. i \in 0..k /\ f.hashes[i] = f2.id.hash /\ i < k
    <3>1. i \in 0..k /\ f.hashes[i] = f2.id.hash /\ \E j \in 0..k : j > i
      BY <1>1, <2>1
    <3> HIDE DEF i
    <3> QED BY <1>4, <3>1
  <2> HIDE DEF i
  <2>3. i \in 0..n /\ Range(Prefix(K, i)) = PastPoints(g, head) \ {p}
    BY <1>1, <1>3, <1>4, <1>5, <2>2
  <2>4. \A l \in 1..k : l > i => K[l] = p
    <3> SUFFICES ASSUME NEW l \in 1..k, l > i, K[l] # p PROVE FALSE
      OBVIOUS
    <3>1. l \in 1..n /\ l <= k
      BY <1>3, <1>4
    <3>2. K[l] \in Range(f.id.hash)
      BY <1>1, <1>6
    <3>3. K[l] \in Range(Prefix(K, i))
      BY <2>3, <3>2
    <3>4. PICK j \in 1..i : K[l] = K[j]
      BY <1>6, <2>3, <3>3
    <3>5. j \in 1..n /\ j < l
      BY <1>3, <2>2, <3>1
    <3>6. K[j] < K[l]
      BY <1>1, <3>1, <3>5 DEF Increasing
    <3> QED BY <1>3, <3>1, <3>4, <3>5, <3>6
  <2>5. Min(later) \in later
    <3>1. k \in later /\ later \in SUBSET Nat
      BY <1>1, <1>4, <2>2 DEF i
    <3>2. later # {}
      BY <3>1
    <3> HIDE DEF later
    <3> QED BY <3>1, <3>2, MinIs
  <2> DEFINE l == Min(later)
  <2>6. l \in 0..k /\ l > i
    BY <1>1, <2>5 DEF i
  <2> HIDE DEF l
  <2>7. l \in 1..k /\ l \in 1..n
    BY <1>3, <1>4, <2>2, <2>6
  <2>8. f.keys[l].point = p
    BY <1>1, <2>4, <2>6, <2>7
  <2> QED BY <2>8 DEF l
<1>13. f2.id.next # p
  <2>1. CASE k2 = n2
    BY <1>2, <2>1
  <2>2. CASE k2 # n2
    <3>1. k2 + 1 \in 1..n2
      <4>1. n2 \in Nat
        BY <1>3
      <4> HIDE DEF n2
      <4> QED BY <1>4, <2>2, <4>1
    <3> QED BY <1>2, <1>8, <2>2, <3>1
  <2> QED BY <2>1, <2>2
<1>14. ~Accepts(f, f2.id)
  <2>1. f.id.hash # f2.id.hash
    BY <1>7
  <2>2. older # {} => f2.id.next # f.keys[Min(later)].point
    BY <1>12, <1>13
  <2> QED BY <1>11, <2>1, <2>2 DEF Accepts
<1> QED BY <1>10, <1>14

(* Fork identifiers along a chain.                                         *)

\* No block of the chain is at a place where the phases contradict each other.
PhasesInv ==
  \A n \in 1..Len(chain) : Phase(n, chain[n].timestamp) # "none"

LEMMA GenesisIsFormed ==
  ASSUME genesis \in Geneses
  PROVE  WellFormed(genesis)
BY GenesesAssumption DEF WellFormed

LEMMA NextPhases ==
  ASSUME ChainInv, PhasesInv, [BENext]_vars
  PROVE  PhasesInv'
<1>1. ASSUME NEW h \in Headers, NEW found \in BOOLEAN, Execute(h, found),
             Phase(Len(chain) + 1, h.timestamp) # "none"
      PROVE  PhasesInv'
  <2>1. chain' = Append(chain, h) /\ genesis' = genesis /\ chain \in Seq(Headers)
    BY <1>1 DEF Execute, ChainInv
  <2>2. /\ Len(chain) \in Nat /\ Len(chain') = Len(chain) + 1
        /\ chain'[Len(chain) + 1] = h /\ \A n \in 1..Len(chain) : chain'[n] = chain[n]
    BY <2>1
  <2>3. ASSUME NEW n \in 1..Len(chain') PROVE Phase(n, chain'[n].timestamp) # "none"
    <3>1. n \in 1..Len(chain) \/ n = Len(chain) + 1
      BY <2>2
    <3> QED BY <1>1, <2>2, <3>1 DEF PhasesInv
  <2>4. \A n, t : Phase(n, t)' = Phase(n, t)
    BY <2>1 DEF Phase, ParisActiveAtBlock, ActiveAt
  <2> QED BY <2>3, <2>4 DEF PhasesInv, Phase, ParisActiveAtBlock, ActiveAt
<1>2. CASE \E gap \in Gaps, found \in BOOLEAN : SyncPreMergeBlock(gap, found)
  <2>1. PICK gap \in Gaps, found \in BOOLEAN : SyncPreMergeBlock(gap, found)
    BY <1>2
  <2> DEFINE t == Tip.timestamp + gap
             n == Len(chain) + 1
             h == [GenesisHeader EXCEPT !.number = n, !.timestamp = t, !.preMerge = TRUE]
  <2>2. Phase(n, t) = "pre" /\ Execute(h, found)
    BY <2>1 DEF SyncPreMergeBlock
  <2>3. t \in Nat /\ n \in Nat
    BY NextTime DEF ChainInv
  <2>4. h.timestamp = t /\ h \in Headers
    BY <2>3 DEF GenesisHeader, Headers
  <2> HIDE DEF h
  <2> QED BY <1>1, <2>2, <2>4
<1>3. CASE \E gap \in Gaps, found \in BOOLEAN, blobs \in BlobCounts :
             ExtendPostMerge(gap, blobs, found)
  <2>1. PICK gap \in Gaps, found \in BOOLEAN, blobs \in BlobCounts :
               ExtendPostMerge(gap, blobs, found)
    BY <1>3
  <2> DEFINE t == Tip.timestamp + gap
             h == ValidHeader(Tip, t, blobs)
  <2>2. Phase(Len(chain) + 1, t) = "post" /\ Execute(h, found)
    BY <2>1 DEF ExtendPostMerge
  <2>3. h.timestamp = t
    BY DEF ValidHeader
  <2>4. h \in Headers
    <3>1. ChainInv' /\ chain' = Append(chain, h) /\ chain \in Seq(Headers)
      BY <2>1, <2>2, ExtendChain DEF Execute, ChainInv
    <3>2. chain' \in Seq(Headers) /\ Len(chain') = Len(chain) + 1 /\ chain'[Len(chain) + 1] = h
          /\ Len(chain) \in Nat
      <4> HIDE DEF h
      <4> QED BY <3>1 DEF ChainInv
    <3>3. Len(chain) + 1 \in 1..Len(chain')
      BY <3>2
    <3> HIDE DEF h
    <3> QED BY <3>2, <3>3
  <2> HIDE DEF h
  <2> QED BY <1>1, <2>2, <2>3, <2>4
<1>4. CASE UNCHANGED <<genesis, chain, code>>
  BY <1>4 DEF PhasesInv, Phase, ParisActiveAtBlock, ActiveAt
<1> QED BY <1>2, <1>3, <1>4 DEF BENext, vars

\* The heads of a chain fit its genesis.
LEMMA HeadsFit ==
  ASSUME ChainInv, PhasesInv, NEW n \in 0..Len(chain)
  PROVE  Fits(genesis, HeadOf(n))
<1> DEFINE t == HeaderAt(n).timestamp
<1>1. /\ genesis \in Geneses /\ chain \in Seq(Headers) /\ Len(chain) \in Nat
      /\ WellFormed(genesis) /\ None \notin Nat
  BY GenesisIsFormed, BlockEnvironmentAssumption DEF ChainInv
<1>2. HeadOf(n).number = n /\ HeadOf(n).timestamp = t
  BY DEF HeadOf
<1>3. /\ GenesisTime \in Nat
      /\ \A p \in Points(genesis, "time") : p \in Nat /\ GenesisTime < p
  BY <1>1, PointsAre
<1>4. n \in Nat /\ t \in Nat
  <2>1. CASE n = 0
    BY <1>3, <2>1 DEF HeaderAt, GenesisHeader
  <2>2. CASE n # 0
    <3>1. n \in 1..Len(chain) /\ HeaderAt(n) = chain[n]
      BY <1>1, <2>2 DEF HeaderAt
    <3>2. chain[n] \in Headers
      BY <1>1, <3>1
    <3> QED BY <1>1, <3>1, <3>2 DEF Headers
  <2> QED BY <2>1, <2>2
<1>5. ASSUME NEW b \in Points(genesis, "block"), NEW p \in Points(genesis, "time"), p <= t
      PROVE  b <= n
  <2>1. PICK f \in DOMAIN genesis.at \cap Range(BlockForks) : b = genesis.at[f]
    BY DEF Points, NamesOf
  <2>2. PICK f2 \in DOMAIN genesis.at \cap Range(TimeForks) : p = genesis.at[f2]
    BY DEF Points, NamesOf
  <2>3. n # 0
    <3> SUFFICES ASSUME n = 0 PROVE FALSE
      OBVIOUS
    <3>1. t = GenesisTime
      BY DEF HeaderAt, GenesisHeader
    <3> QED BY <1>3, <1>5, <3>1
  <2>4. Phase(n, t) # "none"
    <3>1. n \in 1..Len(chain) /\ HeaderAt(n) = chain[n]
      BY <1>1, <2>3 DEF HeaderAt
    <3> QED BY <3>1 DEF PhasesInv
  <2>5. ActiveAt(genesis, f2, t)
    BY <1>5, <2>2 DEF ActiveAt
  <2>6. ParisActiveAtBlock(genesis, n)
    BY <2>2, <2>4, <2>5 DEF Phase
  <2>7. /\ genesis.merge # None /\ genesis.merge <= n
        /\ genesis.merge \in Nat /\ b \in Nat /\ b <= genesis.merge
    <3>1. genesis.merge # None /\ genesis.merge <= n
      BY <2>6 DEF ParisActiveAtBlock
    <3>2. genesis.merge \in Nat \cup {None} /\ b <= genesis.merge
      BY <1>1, <2>1, <3>1, GenesesAssumption
    <3> QED BY <1>1, <3>1, <3>2, PointsAre
  <2> QED BY <1>4, <2>7
<1> HIDE DEF t
<1> QED BY <1>2, <1>4, <1>5 DEF Fits

LEMMA InitPhases == BEInit => ChainInv /\ PhasesInv
BY InitChain DEF BEInit, PhasesInv

\* Wherever two nodes of one chain are, each accepts the fork identifier of the
\* other, and the identifier a filter announces is fork_id (fork_id, fork_filter
\* and network.rs).
THEOREM PeersMeet == BESpec => []PeersOfOneChainMeet
<1>1. ASSUME ChainInv, PhasesInv PROVE PeersOfOneChainMeet
  <2> DEFINE head   == HeadOf(Len(chain))
             filter == ForkFilter(genesis, head)
             id     == ForkId(genesis, head)
             K      == KeyPoints(genesis)
  <2>1. WellFormed(genesis) /\ Len(chain) \in 0..Len(chain)
    BY <1>1, GenesisIsFormed DEF ChainInv
  <2>2. Fits(genesis, head)
    BY <1>1, <2>1, HeadsFit
  <2> HIDE DEF head, K
  <2>3. PICK k : IsFilter(filter, K, k, genesis, head)
    BY <2>1, <2>2, FilterIs DEF K
  <2>4. filter.id = id
    BY <2>1, <2>2, <2>3, FilterAnnounces
  <2>5. ASSUME NEW n \in 0..Len(chain)
        PROVE  /\ Accepts(filter, ForkId(genesis, HeadOf(n)))
               /\ Accepts(ForkFilter(genesis, HeadOf(n)), id)
    <3> DEFINE other == ForkFilter(genesis, HeadOf(n))
    <3>1. Fits(genesis, HeadOf(n))
      BY <1>1, HeadsFit
    <3>2. PICK l : IsFilter(other, K, l, genesis, HeadOf(n))
      BY <2>1, <3>1, FilterIs DEF K
    <3>3. other.id = ForkId(genesis, HeadOf(n))
      BY <2>1, <3>1, <3>2, FilterAnnounces
    <3> HIDE DEF other, filter, id
    <3>4. Accepts(filter, other.id)
      BY <2>1, <2>2, <2>3, <3>2, Meet
    <3>5. Accepts(other, filter.id)
      BY <2>1, <2>3, <3>1, <3>2, Meet
    <3> QED BY <2>4, <3>3, <3>4, <3>5 DEF other
  <2> QED BY <2>4, <2>5 DEF PeersOfOneChainMeet, head
<1>2. ChainInv /\ PhasesInv /\ [BENext]_vars => (ChainInv /\ PhasesInv)'
  BY NextChain, NextPhases
<1> QED BY <1>1, <1>2, InitPhases, PTL DEF BESpec

\* A genesis without one fork is in order if it was so with it.
LEMMA WithoutIs ==
  ASSUME NEW g \in Geneses, WellFormed(g), NEW fork \in DOMAIN g.at,
         \A f \in DOMAIN g.at \ {fork} : g.at[f] # g.at[fork]
  PROVE  /\ WellFormed(Without(g, fork))
         /\ \A kind : Points(Without(g, fork), kind) = Points(g, kind) \ {g.at[fork]}
<1> DEFINE at == Without(g, fork).at
<1>1. /\ DOMAIN at = DOMAIN g.at \ {fork}
      /\ \A f \in DOMAIN g.at \ {fork} : at[f] = g.at[f]
      /\ at \in [DOMAIN at -> Nat]
  <2>1. "at" \in DOMAIN g
    BY GenesesAssumption
  <2>2. at = [f \in DOMAIN g.at \ {fork} |-> g.at[f]]
    <3>1. {x \in DOMAIN g.at : x # fork} = DOMAIN g.at \ {fork}
      OBVIOUS
    <3> QED BY <2>1, <3>1 DEF Without, RestrictDomain, Restrict
  <2> HIDE DEF at
  <2> QED BY <2>2 DEF WellFormed
<1> HIDE DEF at
<1>2. /\ DOMAIN at \subseteq Range(BlockForks) \cup Range(TimeForks)
      /\ \A f \in DOMAIN at \cap Range(TimeForks) : GenesisTime < at[f]
      /\ \A f \in DOMAIN at \cap Range(BlockForks) : at[f] < GenesisTime
  BY <1>1 DEF WellFormed
<1>3. ASSUME NEW names, ListedInOrder(g.at, names) PROVE ListedInOrder(at, names)
  BY <1>1, <1>3 DEF ListedInOrder
<1>4. WellFormed(Without(g, fork))
  BY <1>1, <1>2, <1>3 DEF WellFormed, at
<1>5. ASSUME NEW kind PROVE Points(Without(g, fork), kind) = Points(g, kind) \ {g.at[fork]}
  BY <1>1 DEF Points, at
<1> QED BY <1>4, <1>5

\* A node that has not heard of a fork which the chain has passed, and one that
\* has, refuse each other (fork_filter, with the forks of Gnosis' own in it).
THEOREM StalePeersArePartedFrom == BESpec => []StalePeersPart
<1>1. ASSUME ChainInv, PhasesInv PROVE StalePeersPart
  <2> DEFINE head   == HeadOf(Len(chain))
             filter == ForkFilter(genesis, head)
             id     == ForkId(genesis, head)
  <2>1. genesis \in Geneses /\ WellFormed(genesis) /\ Len(chain) \in 0..Len(chain)
    BY <1>1, GenesisIsFormed DEF ChainInv
  <2>2. Fits(genesis, head)
    BY <1>1, <2>1, HeadsFit
  <2>3. head.number = Len(chain) /\ head.timestamp = Tip.timestamp
    BY DEF HeadOf, Tip
  <2> HIDE DEF head
  <2>4. ASSUME NEW fork \in DOMAIN genesis.at, HasPointOfItsOwn(fork), IsPassed(fork)
        PROVE  /\ ~Accepts(filter, ForkId(Without(genesis, fork), head))
               /\ ~Accepts(ForkFilter(Without(genesis, fork), head), id)
    <3> DEFINE g2    == Without(genesis, fork)
               other == ForkFilter(g2, head)
               K     == KeyPoints(genesis)
               K2    == KeyPoints(g2)
               p     == genesis.at[fork]
    <3>1. p > 0 /\ \A f \in DOMAIN genesis.at \ {fork} : genesis.at[f] # p
      BY <2>4 DEF HasPointOfItsOwn
    <3>2. /\ WellFormed(g2)
          /\ \A kind : Points(g2, kind) = Points(genesis, kind) \ {p}
      BY <2>1, <3>1, WithoutIs
    <3> HIDE DEF g2
    <3>3. Fits(g2, head)
      BY <2>2, <3>2 DEF Fits
    <3>4. ForkPoints(g2) = ForkPoints(genesis) \ {p}
      BY <3>2 DEF ForkPoints
    <3>5. p \in PastPoints(genesis, head) /\ p # 0
      <4>1. p \in Nat /\ p # 0 /\ GenesisTime \in Nat
        BY <2>1, <3>1, PointsAre DEF WellFormed
      <4>2. CASE fork \in Range(TimeForks)
        <5>1. p \in Points(genesis, "time") /\ p > GenesisTime
          BY <2>1, <4>2 DEF Points, NamesOf, WellFormed
        <5>2. p <= Tip.timestamp
          BY <2>4, <4>2 DEF IsPassed, ActiveAt
        <5> QED BY <2>3, <4>1, <5>1, <5>2 DEF PastPoints, ForkPoints, IsPast
      <4>3. CASE fork \notin Range(TimeForks)
        <5>1. fork \in Range(BlockForks)
          BY <2>1, <4>3 DEF WellFormed
        <5>2. p \in Points(genesis, "block") /\ ~(p > GenesisTime)
          BY <2>1, <4>1, <5>1 DEF Points, NamesOf, WellFormed
        <5>3. p <= Len(chain)
          BY <2>4, <4>3 DEF IsPassed, ActiveAt
        <5> QED BY <2>3, <4>1, <5>2, <5>3 DEF PastPoints, ForkPoints, IsPast
      <4> QED BY <4>2, <4>3
    <3> HIDE DEF p, filter, other, K, K2, id
    <3>6. PICK k : IsFilter(filter, K, k, genesis, head)
      BY <2>1, <2>2, FilterIs DEF filter, K
    <3>7. PICK k2 : IsFilter(other, K2, k2, g2, head)
      BY <3>2, <3>3, FilterIs DEF other, K2
    <3>8. filter.id = id /\ Range(filter.id.hash) = PastPoints(genesis, head)
      BY <2>1, <2>2, <3>6, FilterAnnounces DEF id
    <3>9. other.id = ForkId(g2, head) /\ Range(other.id.hash) = PastPoints(g2, head)
      BY <3>2, <3>3, <3>7, FilterAnnounces
    <3>10. ~Accepts(filter, other.id) /\ ~Accepts(other, filter.id)
      BY <3>4, <3>5, <3>6, <3>7, <3>8, <3>9, Part
    <3> QED BY <3>8, <3>9, <3>10 DEF other, g2
  <2> QED BY <2>4 DEF StalePeersPart, head
<1>2. ChainInv /\ PhasesInv /\ [BENext]_vars => (ChainInv /\ PhasesInv)'
  BY NextChain, NextPhases
<1> QED BY <1>1, <1>2, InitPhases, PTL DEF BESpec
=============================================================================

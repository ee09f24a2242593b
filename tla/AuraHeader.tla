------------------------------ MODULE AuraHeader ------------------------------
(***************************************************************************)
(* Header validation of GnosisConsensus (src/aura/mod.rs): the AuRa checks *)
(* before the merge, the dispatch to the beacon checks after it.           *)
(*                                                                         *)
(* headers is the tree of accepted headers: a header names its parent by   *)
(* its place in headers, which stands for the parent hash.  The number of  *)
(* a header is one more than its parent's                                  *)
(* (validate_against_parent_hash_number).  sound stands for the fields the *)
(* properties do not tell apart: empty ommers, extra data, gas used, base  *)
(* fee, timestamp after the parent's, no withdrawals root and no blob      *)
(* fields before their forks.  signer is the address recovered from the    *)
(* seal, NoAddress when there is no seal or recovery fails.                *)
(***************************************************************************)
EXTENDS ValidatorSet

CONSTANTS
  Signers,          \* addresses that may sign a seal
  Sets,             \* the chain spec's validators: activation block -> kind
  ParisBlock,       \* first post-merge block
  HasAuraConfig,    \* does genesis have an aura section
  MaxStep,          \* u64::MAX
  MaxU128,          \* U256::MAX >> 128
  U256Size,         \* 2^256
  GenesisDifficulty, \* difficulty of the genesis block in the chain spec
  Difficulties,     \* bound: difficulties a peer may offer
  MaxHeaders        \* bound: size of the tree

ASSUME AuraHeaderAssumption ==
  /\ NoAddress \notin Signers
  /\ ParisBlock \in Nat \ {0}
  /\ HasAuraConfig \in BOOLEAN
  /\ MaxStep \in Nat
  /\ MaxU128 \in Nat /\ MaxStep < MaxU128
  /\ U256Size \in Nat /\ MaxU128 + MaxStep < U256Size
  /\ GenesisDifficulty \in Nat
  /\ Difficulties \subseteq Nat
  /\ MaxHeaders \in Nat
  /\ DOMAIN Sets \subseteq Nat
  /\ \A b \in DOMAIN Sets : Sets[b].type = "list" => Sets[b].list \in Seq(Signers)

VARIABLE headers

Genesis == [parent |-> 1, number |-> 0, has_step |-> TRUE, step |-> 0,
            difficulty |-> GenesisDifficulty, signer |-> NoAddress, sound |-> TRUE]

Init == headers = <<Genesis>>

\* what a peer may offer: steps are U256, so they may exceed u64
Offers(p) ==
  [parent : {p}, number : {headers[p].number + 1}, has_step : {TRUE},
   step : 0..(MaxStep + 1), difficulty : Difficulties,
   signer : Signers \cup {NoAddress}, sound : BOOLEAN]
  \cup
  [parent : {p}, number : {headers[p].number + 1}, has_step : {FALSE},
   step : {0}, difficulty : Difficulties, signer : {NoAddress}, sound : BOOLEAN]
-----------------------------------------------------------------------------
(***************************************************************************)
(* is_aura_block: the phase is that of the block number, and the fields of *)
(* the header must agree with it.                                          *)
(***************************************************************************)
IsPreMerge(h) == h.number < ParisBlock

\* slip: the header decides which checks it gets
PhaseAgreesAlways(h) == TRUE

PhaseAgrees(h) == IsPreMerge(h) <=> h.has_step

(***************************************************************************)
(* calculate_aura_difficulty, in 256 bits.                                 *)
(***************************************************************************)
\* slip: operands swapped
CalculateAuraDifficultySwapped(parentStep, currentStep) ==
  (MaxU128 + currentStep - parentStep) % U256Size

CalculateAuraDifficulty(parentStep, currentStep) ==
  (MaxU128 + parentStep - currentStep) % U256Size

\* try_into::<u64>()
FitsU64(step) == step <= MaxStep

\* slip: two blocks in one step
StepAdvancesOrStays(parentStep, currentStep) == currentStep >= parentStep

StepAdvances(parentStep, currentStep) == currentStep > parentStep

\* the address that signed the seal hash, every field but step and seal
RecoverSealAuthor(h) == h.signer

\* slip: any validator may seal at any step
SealedByMember(h) ==
  LET lookup == h.number - 1 IN
  /\ RecoverSealAuthor(h) # NoAddress
  /\ HasListAt(Sets, lookup) => RecoverSealAuthor(h) \in Range(ListAt(Sets, lookup))

\* the proposer check: by the list in force at the parent; under a contract
\* nothing is checked ("deferred to execution")
SealedInTurn(h) ==
  LET lookup == h.number - 1 IN
  /\ RecoverSealAuthor(h) # NoAddress
  /\ HasListAt(Sets, lookup) =>
       /\ ListAt(Sets, lookup) # <<>>
       /\ RecoverSealAuthor(h) = ExpectedProposer(h.step, ListAt(Sets, lookup))

\* slip: a step of any size is taken
ValidateAuraHeaderAgainstParentAnyWidth(h, p) ==
  /\ HasAuraConfig
  /\ h.has_step /\ p.has_step
  /\ StepAdvances(p.step, h.step)
  /\ h.difficulty = CalculateAuraDifficulty(p.step, h.step)
  /\ SealedInTurn(h)

\* validate_aura_header_against_parent
ValidateAuraHeaderAgainstParent(h, p) ==
  /\ HasAuraConfig
  /\ h.has_step /\ FitsU64(h.step)
  /\ p.has_step /\ FitsU64(p.step)
  /\ StepAdvances(p.step, h.step)
  /\ h.difficulty = CalculateAuraDifficulty(p.step, h.step)
  /\ SealedInTurn(h)

\* EthBeaconConsensus (external): a post-merge header has no difficulty
ValidateBeaconHeader(h) == h.difficulty = 0

\* validate_header and validate_header_against_parent; what depends on sound
\* is checked in both phases
ValidateHeader(h) ==
  LET p == headers[h.parent] IN
  /\ h.sound
  /\ PhaseAgrees(h)
  /\ IF IsPreMerge(h)
     THEN ValidateAuraHeaderAgainstParent(h, p)
     ELSE ValidateBeaconHeader(h)

ImportHeader(p) ==
  /\ Len(headers) < MaxHeaders
  /\ \E h \in Offers(p) :
       /\ ValidateHeader(h)
       /\ h \notin Range(headers)
       /\ headers' = Append(headers, h)

Next == \E p \in DOMAIN headers : ImportHeader(p)

Spec == Init /\ [][Next]_headers
-----------------------------------------------------------------------------
Header ==
  [parent : Nat, number : Nat, has_step : BOOLEAN, step : Nat, difficulty : Nat,
   signer : Signers \cup {NoAddress}, sound : BOOLEAN]

\* The type invariant: a tree with its parents first, and every step of an AuRa
\* header fits in 64 bits.
TypeOK ==
  /\ headers \in Seq(Header)
  /\ headers # <<>>
  /\ headers[1] = Genesis
  /\ \A i \in DOMAIN headers \ {1} :
       /\ headers[i].parent \in 1..(i - 1)
       /\ headers[i].number = headers[headers[i].parent].number + 1
       /\ headers[i].has_step => FitsU64(headers[i].step)

\* The phase is monotonic by block number: on every branch AuRa headers come
\* first, the first header without a step is the one at ParisBlock, and the
\* parent of an AuRa header always has a step to compare with (the comment at
\* src/aura/mod.rs:222 relies on it).
PhaseIsMonotonic ==
  \A i \in DOMAIN headers \ {1} :
    LET h == headers[i]
        p == headers[h.parent]
    IN /\ h.has_step => p.has_step /\ h.number < ParisBlock
       /\ p.has_step /\ ~h.has_step => h.number = ParisBlock

(***************************************************************************)
(* Branches.                                                               *)
(***************************************************************************)
\* the indices of a header and its ancestors
Branch ==
  LET up[i \in DOMAIN headers] ==
        IF i = 1 THEN {1} ELSE {i} \cup up[headers[i].parent]
  IN up

\* total difficulty
TotalDifficulty ==
  LET td[i \in DOMAIN headers] ==
        headers[i].difficulty + IF i = 1 THEN 0 ELSE td[headers[i].parent]
  IN td

\* AuRa difficulty is a score: of two AuRa branches the longer one has more of
\* it however many steps it skipped, and of two as long the one whose tip has
\* the earlier step; nothing else of the branches matters.
ScoreOrdersBranches ==
  \A i, j \in DOMAIN headers :
    headers[i].has_step /\ headers[j].has_step =>
      (TotalDifficulty[i] > TotalDifficulty[j]
         <=> \/ headers[i].number > headers[j].number
             \/ /\ headers[i].number = headers[j].number
                /\ headers[i].step < headers[j].step)

\* i and j were both checked against the list that took over at the same block
List(i) == ListAt(Sets, headers[i].number - 1)
Listed(i) == i # 1 /\ headers[i].has_step /\ HasListAt(Sets, headers[i].number - 1)
IsInjectiveList(s) == \A a, b \in DOMAIN s : s[a] = s[b] => a = b
SameList(i, j) ==
  Listed(i) /\ Listed(j) /\ List(i) = List(j) /\ IsInjectiveList(List(i))

\* The slots rotate: under one list two headers anywhere in the tree have the
\* same signer exactly when their steps are a number of whole rounds apart, so
\* two headers of one step come from one validator that sealed twice.
SlotsRotate ==
  \A i, j \in DOMAIN headers :
    SameList(i, j) =>
      (headers[i].signer = headers[j].signer
         <=> headers[i].step % Len(List(i)) = headers[j].step % Len(List(i)))

\* No validator seals twice in a round: two blocks of a branch with one signer
\* are at least a whole round of steps apart, so any majority of the list takes
\* at least that many steps of distinct validators.
RoundsAreFair ==
  \A i \in DOMAIN headers : \A j \in Branch[i] \ {i} :
    SameList(i, j) /\ headers[i].signer = headers[j].signer =>
      headers[i].step >= headers[j].step + Len(List(i))
=============================================================================

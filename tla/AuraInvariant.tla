----------------------------- MODULE AuraInvariant -----------------------------
(***************************************************************************)
(* Why a finalizeChange is neither early, nor late, nor forgotten: what    *)
(* the tracker, the block being executed and the chain say about each      *)
(* other in every state, with no block failing.  The layers are            *)
(* inductive one on top of the other (AuraExecution_proofs).               *)
(*                                                                         *)
(* The chain is taken with the block that has just finished, so that the   *)
(* commit, which changes no tracker, changes nothing here either.          *)
(***************************************************************************)
EXTENDS AuraExecution

(***************************************************************************)
(* What a chain spec must be like.                                         *)
(***************************************************************************)
\* one contract from the POSDAO transition to the merge
OneContract ==
  \A n \in Nat : IsPosdao(n) /\ IsPreMerge(n) =>
    /\ ContractOf(n) = ContractOf(PosdaoTransition)
    /\ ContractOf(n) # NoAddress

\* no announcement in the block before a call that a list makes due, nor in
\* the block before POSDAO if POSDAO brings a contract of its own: such a block
\* is followed by another contract's call, or by another contract's set
QuietTurns ==
  \A n \in Nat :
    IsPreMerge(n + 1)
      /\ \/ AtBoundary(n + 1)
         \/ n + 1 = PosdaoTransition /\ ContractOf(n) # ContractOf(n + 1)
    => n \in Quiet

\* no announcement in the first POSDAO block if POSDAO brings a contract of its
\* own: a member of the set before seals it, and the tracker does not count it
QuietTakeover ==
  PosdaoTransition > 0
    /\ ContractOf(PosdaoTransition - 1) # ContractOf(PosdaoTransition)
  => PosdaoTransition \in Quiet

\* POSDAO with one contract from the genesis block on, and no merge
PosdaoThroughout ==
  /\ PosdaoTransition <= 1 /\ MaxBlock < ParisBlock
  /\ \A n \in Nat : ContractOf(n) = Contract
  /\ Contract # NoAddress /\ Contract \notin Unfinalized

(***************************************************************************)
(* The executed blocks, and what they say about an announcement.           *)
(***************************************************************************)
Executed == IF exec.phase = "finished" THEN Append(chain, Block) ELSE chain

MidBlock == exec.phase \in {"context", "pre_execution"}

WaitsIn(ch, b, n) ==
  /\ ch[b].event # "none"
  /\ \A m \in (b+1)..n : ch[m].called # ContractOf(b)

SealersIn(ch, b, n) == {ch[i].signer : i \in b..n}

MajorityIn(ch, b, n) ==
  Cardinality(SealersIn(ch, b, n) \cap Range(ch[n].active)) * 2 > Len(ch[n].active)

SealedIn(ch, b) == ch[b].signer \in Range(ch[b].active)

\* after block n, the announcement of block b is cause enough for a call
Justifies(ch, b, n, address) ==
  /\ b \in 1..n
  /\ WaitsIn(ch, b, n)
  /\ ContractOf(b) = address
  /\ IF IsPosdao(b) THEN MajorityIn(ch, b, n) ELSE n = b

Justified(ch, n) ==
  ch[n].called # NoAddress /\ ~AtBoundary(n) =>
    \E b \in 1..(n-1) : Justifies(ch, b, n - 1, ch[n].called)

(***************************************************************************)
(* Layer 1: the window and the pending transitions are of executed blocks. *)
(***************************************************************************)
InWindow(t, b) == \E i \in DOMAIN t.headers : t.headers[i].num = b

\* a header of the window is of an executed POSDAO block and names its signer
WindowOf(t, ch) ==
  /\ WindowOrdered(t)
  /\ \A i \in DOMAIN t.headers :
       /\ t.headers[i].num \in 1..Len(ch)
       /\ IsPosdao(t.headers[i].num)
       /\ ch[t.headers[i].num].signer = t.headers[i].signer

\* a pending transition is of an executed POSDAO block with an event
PendingOf(t, ch) ==
  \A b \in DOMAIN t.pending_transitions :
    /\ b \in 1..Len(ch)
    /\ IsPosdao(b) /\ IsPreMerge(b)
    /\ ch[b].event # "none"
    /\ t.pending_transitions[b] = ContractOf(b)

BlocksInv ==
  /\ exec.phase # "idle" => exec.n = head + 1
  /\ exec.phase \in {"idle", "context"} => exec.evm = contracts
  /\ exec.phase # "pre_execution" =>
       LET n == Len(Executed) IN
       n > 0 /\ ContractOf(n) # NoAddress =>
         Executed[n].active = GetValidators(exec.evm, ContractOf(n))
  /\ \A b \in 1..Len(Executed) :
       Executed[b].event # "none" => b \notin Quiet /\ ContractOf(b) # NoAddress
  /\ WindowOf(rf, Executed)
  /\ PendingOf(rf, Executed)

(***************************************************************************)
(* Layer 2: an announcement is in the window until a majority has sealed,  *)
(* then it is scheduled, then it is called.                                *)
(***************************************************************************)
\* no block of the window was answered
NoCallSince(t, ch) ==
  \A i \in DOMAIN t.headers : \A m \in (t.headers[i].num + 1)..Len(ch) :
    ch[m].called # ContractOf(t.headers[i].num)

\* from its first block on, the window has every block of a validator
Covered(t, ch) ==
  \A i \in DOMAIN t.headers : \A m \in t.headers[i].num..Len(ch) :
    ch[m].signer \in Range(t.validators) => InWindow(t, m)

Tracked(t, b) == b \in DOMAIN t.pending_transitions /\ InWindow(t, b)

\* the tracker counts against the set that the last block left active
Followed(t, ch) ==
  LET n == Len(ch) IN
  IF n > 0 /\ IsPosdao(n)
  THEN t.validators_sealed /\ t.validators = ch[n].active
  ELSE t.validators = <<>>

\* a scheduled call is due at the next block and has a cause that has left
ScheduleOf(t, ch) ==
  Scheduled(t) =>
    /\ t.finalize_change_at.at = Len(ch) + 1
    /\ \E b \in 1..Len(ch) :
         /\ Justifies(ch, b, Len(ch), t.finalize_change_at.address)
         /\ b \notin DOMAIN t.pending_transitions

\* every announcement not answered yet is waited for
Awaited(t, ch) ==
  \A b \in 1..Len(ch) : WaitsIn(ch, b, Len(ch)) =>
    IF IsPosdao(b)
    THEN SealedIn(ch, b) => Scheduled(t) \/ Tracked(t, b)
    ELSE b = Len(ch) /\ Scheduled(t)

\* between two blocks
Settled(t, ch) ==
  /\ Followed(t, ch)
  /\ NoCallSince(t, ch)
  /\ Covered(t, ch)
  /\ ScheduleOf(t, ch)
  /\ Awaited(t, ch)

\* in a block: its call, if it makes one, answers whatever waits
InMotion(t, ch, call) ==
  /\ ~Scheduled(t)
  /\ NoCallSince(t, ch)
  /\ Covered(t, ch)
  /\ \A b \in 1..Len(ch) : WaitsIn(ch, b, Len(ch)) =>
       IF call = NoAddress
       THEN IsPosdao(b) /\ (SealedIn(ch, b) => Tracked(t, b))
       ELSE ContractOf(b) = call

\* the call of a block has a cause
CallOf(ch, n, call) ==
  call # NoAddress =>
    /\ IsPreMerge(n)
    /\ IsPosdao(n) => call = ContractOf(n)
    /\ AtBoundary(n) \/ \E b \in 1..Len(ch) : Justifies(ch, b, Len(ch), call)

LifecycleInv ==
  /\ \A n \in 1..Len(Executed) : Justified(Executed, n)
  /\ MidBlock => CallOf(chain, exec.n, exec.finalize)
  /\ ~MidBlock /\ IsPreMerge(Len(Executed)) => Settled(rf, Executed)
  /\ MidBlock /\ IsPreMerge(exec.n) => InMotion(rf, chain, exec.finalize)
  /\ exec.phase = "context" /\ IsPreMerge(exec.n) => Followed(rf, chain)
  /\ exec.phase = "pre_execution" /\ IsPreMerge(exec.n) =>
       /\ IF IsPosdao(exec.n)
          THEN /\ rf.validators_sealed
               /\ rf.validators = GetValidators(exec.evm, ContractOf(exec.n))
          ELSE rf.validators = <<>>
       /\ exec.finalize # NoAddress => rf.headers = <<>>

(***************************************************************************)
(* Layer 3: with one announcement at a time, nothing pending is ever out   *)
(* of the window.                                                          *)
(***************************************************************************)
OneWaits(ch) ==
  \A a, b \in 1..Len(ch) :
    IsPosdao(a) /\ IsPosdao(b) /\ WaitsIn(ch, a, Len(ch)) /\ WaitsIn(ch, b, Len(ch))
    => a = b

\* the contract knows of what waits
AnnouncedIn(ch, store) ==
  \A b \in 1..Len(ch) :
    IsPosdao(b) /\ WaitsIn(ch, b, Len(ch)) => store[ContractOf(b)].announced

PendingInv ==
  /\ \A b \in DOMAIN rf.pending_transitions :
       SealedIn(Executed, b) => InWindow(rf, b)
  /\ IsPreMerge(Len(Executed)) => OneWaits(Executed)
  /\ IsPreMerge(Len(Executed)) /\ (exec.phase = "pre_execution" => exec.finalize = NoAddress)
       => AnnouncedIn(Executed, exec.evm)
  /\ MidBlock /\ exec.finalize # NoAddress /\ IsPosdao(exec.n) =>
       \A b \in DOMAIN rf.pending_transitions : ~SealedIn(chain, b)

(***************************************************************************)
(* For the recovery: the chain records every announcement, where a replay  *)
(* finds it, and every announcement of a POSDAO block is one that push     *)
(* counts.                                                                 *)
(***************************************************************************)
IsMap(f) == f = [x \in DOMAIN f |-> f[x]]

\* a tracker is the value of its fields
Plain(t) ==
  /\ IsMap(t.pending_transitions)
  /\ ~Scheduled(t) => t.finalize_change_at = NotScheduled

\* who announces is counted
AnnouncersCount(ch) ==
  \A b \in 1..Len(ch) :
    IsPosdao(b) /\ IsPreMerge(b) /\ ch[b].event # "none" => SealedIn(ch, b)

RecordedInv ==
  /\ exec.phase = "pre_execution" /\ exec.finalize = NoAddress => exec.evm = contracts
  /\ \A b \in 1..Len(Executed) : Executed[b].event \in EventSources \cup {"none"}
  /\ AnnouncersCount(Executed)
  /\ Plain(rf)

(***************************************************************************)
(* Layer 4: the steps of the abstract specification, with POSDAO           *)
(* throughout.  What the block does to the contract is known before it is  *)
(* committed.                                                              *)
(***************************************************************************)
\* the contracts once the call of the block is made
Called ==
  IF exec.finalize # NoAddress THEN FinalizeChange(contracts, exec.finalize) ELSE contracts

ChangeInv ==
  /\ exec.phase # "idle" =>
       /\ exec.finalize # NoAddress =>
            /\ exec.finalize = Contract
            /\ \E b \in 1..head : WaitsIn(chain, b, head) /\ MajorityIn(chain, b, head)
       /\ exec.finalize = NoAddress =>
            \A b \in 1..head : WaitsIn(chain, b, head) => ~MajorityIn(chain, b, head)
  /\ exec.phase = "pre_execution" => exec.evm = Called
  /\ exec.phase = "finished" =>
       IF exec.event = "none"
       THEN exec.evm = Called
       ELSE /\ exec.finalize = NoAddress
            /\ \E next \in NewSets : exec.evm = Announce(contracts, Contract, next)
  /\ \A b \in 1..Len(Executed) : Executed[b].event # "none" => SealedIn(Executed, b)
  /\ head > 0 => chain[head].active = contracts[Contract].active
  /\ contracts[Contract].announced <=> \E b \in 1..head : WaitsIn(chain, b, head)
=============================================================================

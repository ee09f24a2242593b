----------------------------- MODULE AuraExecution -----------------------------
(***************************************************************************)
(* Execution of AuRa blocks (src/evm_config.rs context_for_block,          *)
(* src/block.rs GnosisBlockExecutor) with the rolling finality tracker     *)
(* they share through an Arc<Mutex<..>>.                                   *)
(*                                                                         *)
(* One block goes through four steps: its context is built (which consumes *)
(* a scheduled finalizeChange), apply_pre_execution_changes runs the       *)
(* validator system calls, finish scans for InitiateChange and pushes the  *)
(* signer, and the caller commits the result.  A step can fail; the EVM    *)
(* changes of the block are then dropped, the tracker's are not.           *)
(*                                                                         *)
(* The validator contracts are external: what the code relies on is that   *)
(* getValidators() returns the active set, that an InitiateChange          *)
(* announces the next set, and that finalizeChange() makes it active.      *)
(***************************************************************************)
EXTENDS RollingFinality, ValidatorSet

CONSTANTS
  Validators,         \* addresses that may seal a block
  Outsiders,          \* those that may seal whatever set is active
  Contracts,          \* addresses of validator contracts
  Sets,               \* the chain spec's validators: activation block -> kind
  PosdaoTransition,   \* posdao_transition of the chain spec
  ParisBlock,         \* first post-merge block
  GenesisActive,      \* contract -> the set getValidators() returns at first
  Unfinalized,        \* contracts whose first finalizeChange is still due
  NewSets,            \* the sets a contract may announce
  EventSources,       \* where an InitiateChange shows up: receipts, reward logs
  Eager,              \* announcements beyond the usual: before the last one is
                      \* finalized, in the block that finalizes the last one
  Quiet,              \* blocks without an InitiateChange
  MaxBlock,           \* bound: blocks of the chain
  MaxFailures         \* bound: failed executions

ASSUME AuraExecutionAssumption ==
  /\ NoAddress \notin Contracts
  /\ Outsiders \subseteq Validators
  /\ Unfinalized \subseteq Contracts
  /\ PosdaoTransition \in Nat
  /\ ParisBlock \in Nat
  /\ MaxBlock \in Nat
  /\ MaxFailures \in Nat
  /\ Eager \subseteq {"overlapping", "at_call"}
  /\ Quiet \subseteq Nat
  /\ EventSources \subseteq {"receipts", "reward"}
  /\ NewSets \subseteq Seq(Validators)
  /\ GenesisActive \in [Contracts -> Seq(Validators)]
  /\ DOMAIN Sets \subseteq Nat
  /\ \A b \in DOMAIN Sets :
       \/ /\ Sets[b].type = "contract"
          /\ Sets[b].contract \in Contracts
       \/ /\ Sets[b].type = "list"
          /\ Sets[b].list \in Seq(Validators)
          /\ Sets[b].contract = NoAddress

VARIABLES
  chain,      \* committed blocks 1 .. head
  contracts,  \* committed storage of the validator contracts
  rf,         \* GnosisEvmConfig.rolling_finality
  exec,       \* the block being executed
  faults      \* failed executions and restarts so far

vars == <<chain, contracts, rf, exec, faults>>

head == Len(chain)

\* the chain spec's view of a block
IsPreMerge(n) == n < ParisBlock
IsPosdao(n)   == n >= PosdaoTransition
ContractOf(n) == ContractAddressAt(Sets, n)

Idle == [phase |-> "idle", n |-> 0, finalize |-> NoAddress,
         evm |-> contracts, signer |-> NoAddress, event |-> "none"]
-----------------------------------------------------------------------------
(***************************************************************************)
(* The validator contracts (external).                                     *)
(***************************************************************************)
\* emits InitiateChange: next is announced and waits for finalizeChange
Announce(store, c, next) ==
  [store EXCEPT ![c] = [@ EXCEPT !.announced = TRUE, !.next = next]]

\* finalizeChange(): reverts, and changes nothing, when nothing is announced
FinalizeChange(store, c) ==
  IF store[c].announced
  THEN [store EXCEPT ![c] = [active |-> @.next, announced |-> FALSE, next |-> @.next]]
  ELSE store

GetValidators(store, c) == store[c].active

\* who may seal block n: the set active in its parent's state
\* (validate_aura_header_against_parent looks the proposer up at n - 1)
MaySeal(n) ==
  Outsiders \cup
  IF HasListAt(Sets, n - 1) THEN Range(ListAt(Sets, n - 1))
  ELSE IF ContractOf(n - 1) # NoAddress
    THEN Range(GetValidators(contracts, ContractOf(n - 1)))
  ELSE {}
-----------------------------------------------------------------------------
Init ==
  /\ chain = <<>>
  /\ contracts = [c \in Contracts |->
       [active |-> GenesisActive[c], announced |-> c \in Unfinalized,
        next |-> GenesisActive[c]]]
  /\ rf = New(<<>>)
  /\ exec = Idle
  /\ faults = [failed |-> 0, restarts |-> 0]

(***************************************************************************)
(* context_for_block: the finalizeChange address is the list-to-contract   *)
(* one if there is one, otherwise whatever the tracker has scheduled.      *)
(* Taking it happens here, before anything of the block has run.           *)
(***************************************************************************)
ContextForBlock ==
  LET n        == head + 1
      boundary == ComputeFinalizeChangeAddress(Sets, n)
      takes    == IsPreMerge(n) /\ boundary = NoAddress
      address  == IF ~IsPreMerge(n) THEN NoAddress
                  ELSE IF boundary # NoAddress THEN boundary
                  ELSE IF FinalizeDue(rf, n) THEN rf.finalize_change_at.address
                  ELSE NoAddress
  IN /\ exec.phase = "idle"
     /\ head < MaxBlock
     /\ exec' = [Idle EXCEPT !.phase = "context", !.n = n, !.finalize = address]
     /\ rf' = IF takes THEN TakeFinalizeChange(rf, n) ELSE rf
     /\ UNCHANGED <<chain, contracts, faults>>

(***************************************************************************)
(* apply_pre_execution_changes.  POSDAO blocks fill an empty validator set *)
(* first; finalizeChange runs next, its result (even a revert) is ignored; *)
(* in POSDAO the set is then read back from the contract just called.      *)
(***************************************************************************)
NeedsInit(n) ==
  /\ IsPreMerge(n) /\ IsPosdao(n)
  /\ ContractOf(n) # NoAddress
  /\ Len(rf.validators) = 0

AfterInit ==
  IF NeedsInit(exec.n)
  THEN SetValidators(rf, GetValidators(exec.evm, ContractOf(exec.n)))
  ELSE rf

EvmAfterFinalizeChange ==
  IF exec.finalize # NoAddress
  THEN FinalizeChange(exec.evm, exec.finalize)
  ELSE exec.evm

\* slip: the new set is not read back
AfterRefreshOmitted == AfterInit

AfterRefresh ==
  IF exec.finalize # NoAddress /\ IsPosdao(exec.n)
  THEN SetValidators(AfterInit, GetValidators(EvmAfterFinalizeChange, exec.finalize))
  ELSE AfterInit

ApplyPreExecutionChanges ==
  /\ exec.phase = "context"
  /\ rf' = AfterRefresh
  /\ exec' = [exec EXCEPT !.phase = "pre_execution", !.evm = EvmAfterFinalizeChange]
  /\ UNCHANGED <<chain, contracts, faults>>

(***************************************************************************)
(* finish: an InitiateChange of the contract in force is recorded first,   *)
(* then the signer is pushed.                                              *)
(***************************************************************************)
\* slip: finality is not waited for
NoteEventAtOnce(n, event) ==
  IF event = "none" THEN rf ELSE SetImmediateFinalize(rf, n + 1, ContractOf(n))

NoteEvent(n, event) ==
  IF event = "none" THEN rf
  ELSE IF IsPosdao(n) THEN AddPendingTransition(rf, n, ContractOf(n))
  ELSE SetImmediateFinalize(rf, n + 1, ContractOf(n))

AfterFinish(n, event, signer) ==
  IF ~IsPreMerge(n) THEN rf
  ELSE IF IsPosdao(n) THEN Push(NoteEvent(n, event), n, signer)
  ELSE NoteEvent(n, event)

\* finish of a block sealed by signer whose execution makes event appear
Finished(signer, event, store) ==
  /\ rf' = AfterFinish(exec.n, event, signer)
  /\ exec' = [exec EXCEPT !.phase = "finished", !.signer = signer,
                          !.event = event, !.evm = store]
  /\ UNCHANGED <<chain, contracts, faults>>

Finish(signer) ==
  /\ exec.phase = "pre_execution"
  /\ signer \in MaySeal(exec.n)
  /\ Finished(signer, "none", exec.evm)

FinishWithInitiateChange(signer, source, next) ==
  LET c == ContractOf(exec.n) IN
  /\ exec.phase = "pre_execution"
  /\ signer \in MaySeal(exec.n)
  /\ c # NoAddress
  /\ exec.n \notin Quiet
  /\ "overlapping" \in Eager \/ ~exec.evm[c].announced
  /\ "at_call" \in Eager \/ exec.finalize = NoAddress
  /\ Finished(signer, source, Announce(exec.evm, c, next))

(***************************************************************************)
(* The caller validates the outcome and commits block and state.           *)
(***************************************************************************)
Block ==
  [signer |-> exec.signer, event |-> exec.event, called |-> exec.finalize,
   active |-> IF ContractOf(exec.n) = NoAddress THEN <<>>
              ELSE GetValidators(exec.evm, ContractOf(exec.n))]

Commit ==
  /\ exec.phase = "finished"
  /\ chain' = Append(chain, Block)
  /\ contracts' = exec.evm
  /\ exec' = [Idle EXCEPT !.evm = exec.evm]
  /\ UNCHANGED <<rf, faults>>

(***************************************************************************)
(* Failures.  Nothing of the block is committed; the tracker keeps every   *)
(* change made to it so far.                                               *)
(***************************************************************************)
Abandon ==
  /\ faults.failed < MaxFailures
  /\ faults' = [faults EXCEPT !.failed = @ + 1]
  /\ exec' = Idle
  /\ UNCHANGED <<chain, contracts>>

\* getValidators(), finalizeChange() or a later system call of
\* apply_pre_execution_changes returns Err
FailPreExecution ==
  /\ exec.phase = "context"
  /\ rf' \in {rf, AfterInit, AfterRefresh}
  /\ Abandon

\* a transaction or a post-block system call returns Err
FailExecution ==
  /\ exec.phase = "pre_execution"
  /\ Abandon /\ UNCHANGED rf

\* increment_balances fails, or the caller rejects the result
RejectBlock ==
  /\ exec.phase = "finished"
  /\ Abandon /\ UNCHANGED rf

Next ==
  \/ ContextForBlock
  \/ ApplyPreExecutionChanges
  \/ \E signer \in Validators : Finish(signer)
  \/ \E signer \in Validators, source \in EventSources, next \in NewSets :
       FinishWithInitiateChange(signer, source, next)
  \/ Commit
  \/ FailPreExecution
  \/ FailExecution
  \/ RejectBlock

Spec == Init /\ [][Next]_vars
-----------------------------------------------------------------------------
(***************************************************************************)
(* Types.                                                                  *)
(***************************************************************************)
AddressOrNone == Contracts \cup {NoAddress}
ContractStore ==
  [Contracts -> [active : Seq(Validators), announced : BOOLEAN, next : Seq(Validators)]]
Phases == {"idle", "context", "pre_execution", "finished"}
Events == {"none", "receipts", "reward"}
Faults == [failed : 0..MaxFailures, restarts : Nat]

\* The type invariant: what each variable may hold.
TypeOK ==
  /\ chain \in Seq([signer : Validators, event : Events,
                    called : AddressOrNone, active : Seq(Validators)])
  /\ contracts \in ContractStore
  /\ IsTracker(rf, Validators, Contracts)
  /\ exec \in [phase : Phases, n : Nat, finalize : AddressOrNone,
               evm : ContractStore, signer : Validators \cup {NoAddress}, event : Events]
  /\ exec.phase = "finished" => exec.signer \in Validators
  /\ faults \in Faults
-----------------------------------------------------------------------------
(***************************************************************************)
(* Safety of the window.                                                   *)
(***************************************************************************)
\* Whatever fails and whatever order the handlers run in, the window of
\* unfinalized blocks never holds a majority of the validators it is counted
\* against: a block that is final has left the window (push's loop), and a
\* change of the set never leaves an old census behind (set_validators).
WindowBelowMajority == NoMajority(rf)

\* sign_count is the census of headers, and counts validators only: push,
\* take_finalize_change and set_validators keep the two in step.
CensusExact == CountsWindow(rf) /\ SignersKnown(rf)

\* Without failed executions the blocks of the window are in increasing order
\* and already executed (the append-only assumption of RollingFinality).
WindowIsRecent ==
  MaxFailures = 0 =>
    /\ WindowOrdered(rf)
    /\ \A i \in DOMAIN rf.headers :
         rf.headers[i].num \in 1 .. IF exec.phase = "finished" THEN head + 1 ELSE head
-----------------------------------------------------------------------------
(***************************************************************************)
(* Safety of the InitiateChange -> finalizeChange lifecycle, stated about  *)
(* the committed chain.                                                    *)
(***************************************************************************)
Sealers(b, n) == {chain[i].signer : i \in b..n}

MajoritySince(b, n) ==
  Cardinality(Sealers(b, n) \cap Range(chain[n].active)) * 2 > Len(chain[n].active)

\* by a member of the set that is active after the block
SealedByMember(b) == chain[b].signer \in Range(chain[b].active)

\* block b announced a change and its contract was not called in b+1 .. n
Waits(b, n) ==
  /\ chain[b].event # "none"
  /\ \A m \in (b+1)..n : chain[m].called # ContractOf(b)

AtBoundary(n) == ComputeFinalizeChangeAddress(Sets, n) # NoAddress

\* finalizeChange is never called early or without cause: a POSDAO call at
\* block n answers an InitiateChange of an earlier block b not answered yet,
\* and a majority of the active set sealed b .. n-1; a pre-POSDAO
\* InitiateChange is answered by the block right after it.
CallsAreJustified ==
  \A n \in 1..head :
    chain[n].called # NoAddress /\ ~AtBoundary(n) =>
      \E b \in 1..(n-1) :
        /\ Waits(b, n - 1)
        /\ ContractOf(b) = chain[n].called
        /\ IF IsPosdao(b) THEN MajoritySince(b, n - 1) ELSE n = b + 1

\* finalizeChange is never late or forgotten: once a majority of the active
\* set has sealed since an unanswered InitiateChange, the call is scheduled
\* for the very next block, in every state between two blocks.  A POSDAO block
\* whose signer is not in the set the block leaves active is excepted: push
\* does not count it, so its event is never found.
NoChangeIsLost ==
  exec.phase = "idle" /\ head > 0 /\ IsPreMerge(head) =>
    \A b \in 1..head :
      Waits(b, head) /\ (IsPosdao(b) => SealedByMember(b) /\ MajoritySince(b, head)) =>
        rf.finalize_change_at = [at |-> head + 1, address |-> ContractOf(b)]

\* Between two POSDAO blocks the tracker counts against the set that is
\* active in the committed state of the contract in force.
TrackerFollowsContract ==
  exec.phase = "idle" /\ head > 0 /\ IsPreMerge(head) /\ IsPosdao(head)
    /\ ContractOf(head) # NoAddress
  => /\ rf.validators_sealed
     /\ rf.validators = GetValidators(contracts, ContractOf(head))

\* A transition that still waits for finality is always in the window, where
\* push can find it, if its block was sealed by a member of the set.
PendingIsTracked ==
  exec.phase = "idle" =>
    \A b \in DOMAIN rf.pending_transitions :
      SealedByMember(b) => \E i \in DOMAIN rf.headers : rf.headers[i].num = b
-----------------------------------------------------------------------------
(***************************************************************************)
(* The abstract specification, seen in the committed chain: one contract,  *)
(* the one in force at block 1.                                            *)
(***************************************************************************)
Contract == ContractOf(1)

WaitingBlocks == {b \in 1..head : Waits(b, head)}

Support == UNION {Sealers(b, head) : b \in WaitingBlocks}

Change == INSTANCE ValidatorChange WITH
  Genesis   <- GenesisActive[Contract],
  active    <- contracts[Contract].active,
  announced <- contracts[Contract].announced,
  next      <- contracts[Contract].next,
  support   <- Support

\* Every committed POSDAO block does what the abstract specification allows:
\* the set changes at the first block after a majority, never before, and no
\* other block changes it.
ImplementsChange == Change!Spec

=============================================================================

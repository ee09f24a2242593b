----------------------------- MODULE AuraRecovery -----------------------------
(***************************************************************************)
(* Crash and restart of the node (src/aura/recovery.rs, build_evm of       *)
(* src/lib.rs).  The committed chain and contract storage survive, the     *)
(* tracker and the block being executed do not: the tracker is rebuilt     *)
(* from the headers and receipts of the last Lookback blocks.              *)
(***************************************************************************)
EXTENDS AuraExecution, SequencesExt

CONSTANTS
  Lookback,        \* reconstruction_lookback(), 32 in the code
  GenesisAuthor,   \* beneficiary of the genesis header
  Pruned,          \* blocks whose receipts are gone
  AnyWindow,       \* may the node stop when its window is not representative
  MaxRestarts      \* bound: restarts

ASSUME AuraRecoveryAssumption ==
  /\ Lookback \in Nat \ {0}
  /\ Pruned \subseteq Nat
  /\ AnyWindow \in BOOLEAN
  /\ MaxRestarts \in Nat

-----------------------------------------------------------------------------
Beneficiary(n) == IF n = 0 THEN GenesisAuthor ELSE chain[n].signer

\* start ..= head, with saturating_sub
WindowStart == IF head < Lookback THEN 0 ELSE head - (Lookback - 1)

\* receipts_contain_initiate_change: missing receipts count as none
ReceiptsShowChange(n, contract) ==
  /\ n > 0 /\ n \notin Pruned
  /\ chain[n].event = "receipts"
  /\ ContractOf(n) = contract

\* pass 1: the signers of the window stand in for the validators
Discovered == {Beneficiary(n) : n \in WindowStart..head}

\* slip: no take
ReplayBlockWithoutTake(sim, n, contract) ==
  LET noted == IF ~ReceiptsShowChange(n, contract) THEN sim
               ELSE IF IsPosdao(n) THEN AddPendingTransition(sim, n, contract)
               ELSE SetImmediateFinalize(sim, n + 1, contract)
  IN Push(noted, n, Beneficiary(n))

\* pass 2, one block: take, scan, push (before POSDAO too)
ReplayBlock(sim, n, contract) ==
  LET taken == TakeFinalizeChange(sim, n)
      noted == IF ~ReceiptsShowChange(n, contract) THEN taken
               ELSE IF IsPosdao(n) THEN AddPendingTransition(taken, n, contract)
               ELSE SetImmediateFinalize(taken, n + 1, contract)
  IN Push(noted, n, Beneficiary(n))

Replayed(contract) ==
  LET start == WindowStart
      sim[k \in 0..(head - start + 1)] ==
        IF k = 0 THEN SetValidators(New(<<>>), SetToSeq(Discovered))
        ELSE ReplayBlock(sim[k - 1], start + k - 1, contract)
  IN sim[head - start + 1]

ReconstructFinalityState ==
  LET contract == ContractOf(head) IN
  IF contract = NoAddress THEN FromRecovered(EmptyMap, NotScheduled)
  ELSE FromRecovered(Replayed(contract).pending_transitions,
                     Replayed(contract).finalize_change_at)

\* slip: a schedule alone is thought to say nothing
RestartedTrackerIfPending ==
  LET recovered == ReconstructFinalityState IN
  IF IsPreMerge(head) /\ DOMAIN recovered.pending_transitions # {}
  THEN recovered ELSE New(<<>>)

\* build_evm: the recovered tracker replaces the fresh one if it says anything
RestartedTracker ==
  LET recovered == ReconstructFinalityState IN
  IF IsPreMerge(head)
     /\ (DOMAIN recovered.pending_transitions # {} \/ Scheduled(recovered))
  THEN recovered ELSE New(<<>>)

(***************************************************************************)
(* The window is representative when replaying it can in principle give    *)
(* the same answers: it lies in POSDAO under one contract, every set in    *)
(* force during it has the same members, each of them sealed a block of    *)
(* it, and no change that is older than the window was open when it        *)
(* began.  A change that only reorders the set may happen inside.          *)
(***************************************************************************)
Representative ==
  LET start == WindowStart IN
  /\ start > 0
  /\ IsPosdao(start) /\ IsPreMerge(head)
  /\ ContractOf(start) = ContractOf(head) /\ ContractOf(head) # NoAddress
  /\ \A n \in start..head :
       /\ Range(chain[n].active) = Discovered
       /\ Len(chain[n].active) = Cardinality(Discovered)
  /\ \A b \in 1..(start - 1) : ~Waits(b, start - 1)

Restart ==
  /\ faults.restarts < MaxRestarts
  /\ AnyWindow \/ Representative
  /\ faults' = [faults EXCEPT !.restarts = @ + 1]
  /\ rf' = RestartedTracker
  /\ exec' = Idle
  /\ UNCHANGED <<chain, contracts>>

RecoveryNext == Next \/ Restart

RecoverySpec == Init /\ [][RecoveryNext]_vars
-----------------------------------------------------------------------------
\* neither restarted nor failed: what a rejected block leaves in the tracker is
\* not in the chain, so no replay can find it
NoFaultsYet == faults = [failed |-> 0, restarts |-> 0]

\* As long as the process has not restarted and no execution failed, replaying
\* a representative window gives exactly the transitions that wait and the
\* call that is scheduled in the live tracker: recovery's take, scan and push
\* run in the order of live execution.
RecoveryIsExact ==
  NoFaultsYet /\ exec.phase = "idle" /\ head > 0 /\ Representative =>
    /\ ReconstructFinalityState.pending_transitions = rf.pending_transitions
    /\ ReconstructFinalityState.finalize_change_at = rf.finalize_change_at

\* Wherever in the life of a block the node stops - also after the scheduled
\* call was taken from the tracker and before the block was committed - the
\* restarted tracker has a call that the head made due for the next block.
CallSurvivesRestart ==
  [][Restart /\ NoFaultsYet =>
       \A b \in WindowStart..head :
         /\ b > 0 /\ Waits(b, head) /\ MajoritySince(b, head)
         /\ b = head \/ ~MajoritySince(b, head - 1)
         =>
           rf'.finalize_change_at = [at |-> head + 1, address |-> ContractOf(b)]
    ]_vars
=============================================================================

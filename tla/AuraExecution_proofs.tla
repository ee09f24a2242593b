------------------------- MODULE AuraExecution_proofs -------------------------
(***************************************************************************)
(* Safety of block execution, for every chain spec, every set of           *)
(* validators and contracts, and any number of blocks: of the window,      *)
(* whatever fails; and, when nothing fails and the chain spec meets the    *)
(* conditions of AuraInvariant, of the change of validators: a             *)
(* finalizeChange is neither early, nor late, nor forgotten; and what the  *)
(* replay of a representative window finds is what the node knew.          *)
(***************************************************************************)
EXTENDS AuraRecovery, AuraInvariant, RollingFinality_proofs

(***************************************************************************)
(* What the chain spec and the contracts return.                           *)
(***************************************************************************)
\* contract_address_at returns a contract of the spec, or None.
LEMMA ContractOfType ==
  ASSUME NEW n \in Nat
  PROVE  ContractAddressAt(Sets, n) \in AddressOrNone
<1> DEFINE active == {b \in DOMAIN Sets : b <= n}
           top    == CHOOSE b \in active : \A c \in active : c <= b
<1>1. active \in SUBSET Nat /\ \A b \in active : b <= n
  BY AuraExecutionAssumption
<1>2. CASE active = {}
  BY <1>2 DEF ContractAddressAt, KindAt, NoKind, AddressOrNone
<1>3. CASE active # {}
  <2>1. \E b \in active : \A c \in active : c <= b
    <3> HIDE DEF active
    <3> QED BY <1>1, <1>3, GreatestNumber
  <2>2. top \in DOMAIN Sets
    <3>1. top \in active
      <4> HIDE DEF active
      <4> QED BY <2>1
    <3> QED BY <3>1
  <2>3. Sets[top].contract \in AddressOrNone
    BY <2>2, AuraExecutionAssumption DEF AddressOrNone
  <2>4. ContractAddressAt(Sets, n) = Sets[top].contract
    BY <1>3 DEF ContractAddressAt, KindAt
  <2> QED BY <2>3, <2>4
<1> QED BY <1>2, <1>3

\* So does the list-to-contract rule.
LEMMA BoundaryType ==
  ASSUME NEW n \in Nat
  PROVE  ComputeFinalizeChangeAddress(Sets, n) \in AddressOrNone
<1>1. ContractAddressAt(Sets, n) \in AddressOrNone BY ContractOfType
<1> QED BY <1>1 DEF ComputeFinalizeChangeAddress, AddressOrNone

\* The contracts stay well-typed, and so does what getValidators() returns.
LEMMA StoreTypes ==
  ASSUME NEW store \in ContractStore, NEW c \in Contracts
  PROVE  /\ GetValidators(store, c) \in Seq(Validators)
         /\ FinalizeChange(store, c) \in ContractStore
         /\ \A next \in Seq(Validators) : Announce(store, c, next) \in ContractStore
BY DEF ContractStore, GetValidators, FinalizeChange, Announce

(***************************************************************************)
(* The inductive invariant: types, and the tracker in order.  The executor *)
(* needs no property of its own for this: it only has to call the methods  *)
(* with validators and contracts.                                          *)
(***************************************************************************)
Inv == TypeOK /\ InOrder(rf, Validators, Contracts)

\* What the three stages of apply_pre_execution_changes make of the tracker.
LEMMA PreExecutionTypes ==
  ASSUME Inv
  PROVE  /\ EvmAfterFinalizeChange \in ContractStore
         /\ InOrder(AfterInit, Validators, Contracts)
         /\ InOrder(AfterRefresh, Validators, Contracts)
<1>1. /\ exec.n \in Nat /\ exec.evm \in ContractStore
      /\ exec.finalize \in Contracts \cup {NoAddress}
      /\ InOrder(rf, Validators, Contracts)
  BY DEF Inv, TypeOK, AddressOrNone
<1>2. EvmAfterFinalizeChange \in ContractStore
  BY <1>1, StoreTypes DEF EvmAfterFinalizeChange
<1>3. InOrder(AfterInit, Validators, Contracts)
  <2>1. CASE NeedsInit(exec.n)
    <3>1. ContractOf(exec.n) \in Contracts
      BY <1>1, <2>1, ContractOfType DEF NeedsInit, ContractOf, AddressOrNone
    <3>2. GetValidators(exec.evm, ContractOf(exec.n)) \in Seq(Validators)
      BY <1>1, <3>1, StoreTypes
    <3> QED BY <1>1, <2>1, <3>2, SetValidatorsKeeps DEF AfterInit
  <2>2. CASE ~ NeedsInit(exec.n)
    BY <1>1, <2>2 DEF AfterInit
  <2> QED BY <2>1, <2>2
<1>4. InOrder(AfterRefresh, Validators, Contracts)
  <2>1. CASE exec.finalize # NoAddress /\ IsPosdao(exec.n)
    <3>1. GetValidators(EvmAfterFinalizeChange, exec.finalize) \in Seq(Validators)
      BY <1>1, <1>2, <2>1, StoreTypes
    <3> QED BY <1>3, <2>1, <3>1, SetValidatorsKeeps DEF AfterRefresh
  <2>2. CASE ~ (exec.finalize # NoAddress /\ IsPosdao(exec.n))
    BY <1>3, <2>2 DEF AfterRefresh
  <2> QED BY <2>1, <2>2
<1> QED BY <1>2, <1>3, <1>4

\* finish keeps the tracker in order, with or without an InitiateChange.
LEMMA AfterFinishKeeps ==
  ASSUME Inv, NEW signer \in Validators, NEW event,
         event # "none" => ContractOf(exec.n) \in Contracts
  PROVE  InOrder(AfterFinish(exec.n, event, signer), Validators, Contracts)
<1>1. exec.n \in Nat /\ exec.n + 1 \in Nat /\ InOrder(rf, Validators, Contracts)
  BY DEF Inv, TypeOK
<1>2. InOrder(NoteEvent(exec.n, event), Validators, Contracts)
  <2>1. CASE event = "none"
    BY <1>1, <2>1 DEF NoteEvent
  <2>2. CASE event # "none" /\ IsPosdao(exec.n)
    BY <1>1, <2>2, AddPendingTransitionKeeps DEF NoteEvent
  <2>3. CASE event # "none" /\ ~IsPosdao(exec.n)
    BY <1>1, <2>3, SetImmediateFinalizeKeeps DEF NoteEvent
  <2> QED BY <2>1, <2>2, <2>3
<1>3. InOrder(Push(NoteEvent(exec.n, event), exec.n, signer), Validators, Contracts)
  BY <1>1, <1>2, PushKeeps
<1> QED BY <1>1, <1>2, <1>3 DEF AfterFinish

\* Between two blocks nothing is being executed.
LEMMA IdleType ==
  ASSUME TypeOK
  PROVE  Idle \in [phase : {"idle"}, n : Nat, finalize : AddressOrNone,
                   evm : ContractStore, signer : {NoAddress}, event : Events]
BY DEF TypeOK, Idle, AddressOrNone, Events

(***************************************************************************)
(* Preservation, action by action.                                         *)
(***************************************************************************)
LEMMA InitInv == Init => Inv
<1> SUFFICES ASSUME Init PROVE Inv
  OBVIOUS
<1> USE AuraExecutionAssumption
<1>1. <<>> \in Seq(Validators) OBVIOUS
<1>2. InOrder(rf, Validators, Contracts)
  BY <1>1, NewInOrder DEF Init
<1>3. contracts \in ContractStore
  BY DEF Init, ContractStore
<1>4. exec \in [phase : Phases, n : Nat, finalize : AddressOrNone,
                evm : ContractStore, signer : Validators \cup {NoAddress}, event : Events]
      /\ exec.phase = "idle"
  BY <1>3 DEF Init, Idle, Phases, AddressOrNone, Events
<1>5. TypeOK
  <2>1. IsTracker(rf, Validators, Contracts) BY <1>2 DEF InOrder
  <2>2. faults \in Faults BY DEF Init, Faults
  <2>3. chain \in Seq([signer : Validators, event : Events,
                       called : AddressOrNone, active : Seq(Validators)])
    BY DEF Init
  <2> QED BY <1>3, <1>4, <2>1, <2>2, <2>3 DEF TypeOK
<1> QED BY <1>2, <1>5 DEF Inv

\* An action that leaves chain and contracts alone.
LEMMA ExecutorStep ==
  ASSUME Inv, UNCHANGED <<chain, contracts>>,
         InOrder(rf', Validators, Contracts),
         exec' \in [phase : Phases, n : Nat, finalize : AddressOrNone,
                    evm : ContractStore, signer : Validators \cup {NoAddress},
                    event : Events],
         exec'.phase = "finished" => exec'.signer \in Validators,
         faults' \in Faults
  PROVE  Inv'
BY DEF Inv, TypeOK, InOrder

LEMMA ContextForBlockInv == Inv /\ ContextForBlock => Inv'
<1> SUFFICES ASSUME Inv, ContextForBlock PROVE Inv'
  OBVIOUS
<1> DEFINE n        == head + 1
           boundary == ComputeFinalizeChangeAddress(Sets, n)
           address  == IF ~IsPreMerge(n) THEN NoAddress
                       ELSE IF boundary # NoAddress THEN boundary
                       ELSE IF FinalizeDue(rf, n) THEN rf.finalize_change_at.address
                       ELSE NoAddress
<1>1. n \in Nat BY DEF Inv, TypeOK, head
<1>2. boundary \in AddressOrNone BY <1>1, BoundaryType
<1>3. rf.finalize_change_at.address \in AddressOrNone
  BY DEF Inv, InOrder, IsTracker, AddressOrNone
<1>4. address \in AddressOrNone
  <2> HIDE DEF boundary, n
  <2> QED BY <1>2, <1>3 DEF AddressOrNone
<1>5. exec' = [Idle EXCEPT !.phase = "context", !.n = n, !.finalize = address]
  BY DEF ContextForBlock
<1>6. InOrder(rf', Validators, Contracts)
  <2>1. InOrder(rf, Validators, Contracts) BY DEF Inv
  <2>2. InOrder(TakeFinalizeChange(rf, n), Validators, Contracts)
    BY <2>1, TakeFinalizeChangeKeeps
  <2>3. rf' = rf \/ rf' = TakeFinalizeChange(rf, n)
    BY DEF ContextForBlock
  <2> QED BY <2>1, <2>2, <2>3
<1> HIDE DEF n, address
<1>7. exec' \in [phase : {"context"}, n : Nat, finalize : AddressOrNone,
                 evm : ContractStore, signer : {NoAddress}, event : Events]
  BY <1>1, <1>4, <1>5, IdleType DEF Inv
<1>8. UNCHANGED <<chain, contracts, faults>> BY DEF ContextForBlock
<1>9. faults' \in Faults BY <1>8 DEF Inv, TypeOK
<1> QED BY <1>6, <1>7, <1>8, <1>9, ExecutorStep DEF Phases

LEMMA ApplyPreExecutionChangesInv == Inv /\ ApplyPreExecutionChanges => Inv'
<1> SUFFICES ASSUME Inv, ApplyPreExecutionChanges PROVE Inv'
  OBVIOUS
<1>1. InOrder(rf', Validators, Contracts)
  BY PreExecutionTypes DEF ApplyPreExecutionChanges
<1>2. exec' = [exec EXCEPT !.phase = "pre_execution", !.evm = EvmAfterFinalizeChange]
      /\ EvmAfterFinalizeChange \in ContractStore
  BY PreExecutionTypes DEF ApplyPreExecutionChanges
<1>3. exec' \in [phase : {"pre_execution"}, n : Nat, finalize : AddressOrNone,
                 evm : ContractStore, signer : Validators \cup {NoAddress},
                 event : Events]
  BY <1>2 DEF Inv, TypeOK
<1>4. UNCHANGED <<chain, contracts, faults>> BY DEF ApplyPreExecutionChanges
<1>5. faults' \in Faults BY <1>4 DEF Inv, TypeOK
<1> QED BY <1>1, <1>3, <1>4, <1>5, ExecutorStep DEF Phases

\* Both finish actions.
LEMMA FinishedInv ==
  ASSUME Inv, NEW signer \in Validators, NEW event \in Events,
         NEW store \in ContractStore,
         event # "none" => ContractOf(exec.n) \in Contracts,
         Finished(signer, event, store)
  PROVE  Inv'
<1>1. InOrder(rf', Validators, Contracts)
  BY AfterFinishKeeps DEF Finished
<1>2. exec' = [exec EXCEPT !.phase = "finished", !.signer = signer,
                           !.event = event, !.evm = store]
  BY DEF Finished
<1>3. exec' \in [phase : {"finished"}, n : Nat, finalize : AddressOrNone,
                 evm : ContractStore, signer : Validators, event : Events]
  BY <1>2 DEF Inv, TypeOK
<1>4. UNCHANGED <<chain, contracts, faults>> BY DEF Finished
<1>5. faults' \in Faults BY <1>4 DEF Inv, TypeOK
<1> QED BY <1>1, <1>3, <1>4, <1>5, ExecutorStep DEF Phases

LEMMA FinishInv ==
  ASSUME Inv, NEW signer \in Validators, Finish(signer)
  PROVE  Inv'
<1>1. exec.evm \in ContractStore /\ "none" \in Events BY DEF Inv, TypeOK, Events
<1> QED BY <1>1, FinishedInv DEF Finish

LEMMA FinishWithInitiateChangeInv ==
  ASSUME Inv, NEW signer \in Validators, NEW source \in EventSources,
         NEW next \in NewSets, FinishWithInitiateChange(signer, source, next)
  PROVE  Inv'
<1> DEFINE c == ContractOf(exec.n)
           store == Announce(exec.evm, c, next)
<1>1. exec.n \in Nat /\ exec.evm \in ContractStore BY DEF Inv, TypeOK
<1>2. c \in Contracts
  <2>1. c \in AddressOrNone BY <1>1, ContractOfType DEF ContractOf
  <2>2. c # NoAddress BY DEF FinishWithInitiateChange
  <2> QED BY <2>1, <2>2 DEF AddressOrNone
<1>3. store \in ContractStore
  <2>1. next \in Seq(Validators) BY AuraExecutionAssumption
  <2> HIDE DEF c
  <2> QED BY <1>1, <1>2, <2>1, StoreTypes
<1>4. source \in Events BY AuraExecutionAssumption DEF Events
<1>5. Finished(signer, source, store) BY DEF FinishWithInitiateChange
<1> HIDE DEF store
<1> QED BY <1>2, <1>3, <1>4, <1>5, FinishedInv

\* The block that has just finished can be appended to the chain.
LEMMA BlockType ==
  ASSUME Inv, exec.phase = "finished"
  PROVE  Block \in [signer : Validators, event : Events,
                    called : AddressOrNone, active : Seq(Validators)]
<1>1. /\ exec.n \in Nat /\ exec.evm \in ContractStore /\ exec.signer \in Validators
      /\ exec.event \in Events /\ exec.finalize \in AddressOrNone
  BY DEF Inv, TypeOK
<1>2. CASE ContractOf(exec.n) = NoAddress
  <2>1. <<>> \in Seq(Validators) OBVIOUS
  <2> QED BY <1>1, <1>2, <2>1 DEF Block
<1>3. CASE ContractOf(exec.n) # NoAddress
  <2>1. ContractOf(exec.n) \in Contracts
    BY <1>1, <1>3, ContractOfType DEF ContractOf, AddressOrNone
  <2>2. GetValidators(exec.evm, ContractOf(exec.n)) \in Seq(Validators)
    BY <1>1, <2>1, StoreTypes
  <2> QED BY <1>1, <1>3, <2>2 DEF Block
<1> QED BY <1>2, <1>3

LEMMA CommitInv == Inv /\ Commit => Inv'
<1> SUFFICES ASSUME Inv, Commit PROVE Inv'
  OBVIOUS
<1> DEFINE B == [signer : Validators, event : Events,
                 called : AddressOrNone, active : Seq(Validators)]
<1>1. /\ exec.n \in Nat /\ exec.evm \in ContractStore /\ exec.signer \in Validators
      /\ exec.event \in Events /\ exec.finalize \in AddressOrNone
  BY DEF Inv, TypeOK, Commit
<1>2. Block \in B
  BY BlockType DEF Commit
<1>3. chain' \in Seq(B)
  <2>1. chain \in Seq(B) BY DEF Inv, TypeOK
  <2>2. chain' = Append(chain, Block) BY DEF Commit
  <2> HIDE DEF B
  <2> QED BY <1>2, <2>1, <2>2
<1>4. exec' = [Idle EXCEPT !.evm = exec.evm] /\ UNCHANGED <<rf, faults>>
      /\ contracts' = exec.evm
  BY DEF Commit
<1>5. exec' \in [phase : {"idle"}, n : Nat, finalize : AddressOrNone,
                 evm : ContractStore, signer : {NoAddress}, event : Events]
  BY <1>1, <1>4, IdleType DEF Inv
<1>6. exec' \in [phase : Phases, n : Nat, finalize : AddressOrNone,
                 evm : ContractStore, signer : Validators \cup {NoAddress},
                 event : Events]
      /\ exec'.phase # "finished"
  BY <1>5 DEF Phases
<1>7. TypeOK'
  <2>1. contracts' \in ContractStore BY <1>1, <1>4
  <2>2. IsTracker(rf', Validators, Contracts) /\ faults' \in Faults
    BY <1>4 DEF Inv, TypeOK
  <2> QED BY <1>3, <1>6, <2>1, <2>2 DEF TypeOK
<1>8. InOrder(rf', Validators, Contracts) BY <1>4 DEF Inv
<1> QED BY <1>7, <1>8 DEF Inv

\* A failure keeps whatever the tracker holds at that moment.
LEMMA AbandonInv ==
  ASSUME Inv, Abandon, InOrder(rf', Validators, Contracts)
  PROVE  Inv'
<1>1. exec' \in [phase : {"idle"}, n : Nat, finalize : AddressOrNone,
                 evm : ContractStore, signer : {NoAddress}, event : Events]
  BY IdleType DEF Inv, Abandon
<1>2. faults' \in Faults
  <2>1. faults \in Faults /\ faults.failed < MaxFailures /\ MaxFailures \in Nat
    BY AuraExecutionAssumption DEF Inv, TypeOK, Abandon
  <2>2. faults.failed + 1 \in 0..MaxFailures
    BY <2>1 DEF Faults
  <2>3. faults' = [faults EXCEPT !.failed = faults.failed + 1]
    BY DEF Abandon
  <2> QED BY <2>1, <2>2, <2>3 DEF Faults
<1>3. UNCHANGED <<chain, contracts>> BY DEF Abandon
<1> QED BY <1>1, <1>2, <1>3, ExecutorStep DEF Phases

LEMMA NextInv == Inv /\ [Next]_vars => Inv'
<1> SUFFICES ASSUME Inv, [Next]_vars PROVE Inv'
  OBVIOUS
<1>1. CASE ContextForBlock
  BY <1>1, ContextForBlockInv
<1>2. CASE ApplyPreExecutionChanges
  BY <1>2, ApplyPreExecutionChangesInv
<1>3. ASSUME NEW signer \in Validators, Finish(signer) PROVE Inv'
  BY <1>3, FinishInv
<1>4. ASSUME NEW signer \in Validators, NEW source \in EventSources, NEW next \in NewSets,
             FinishWithInitiateChange(signer, source, next)
      PROVE  Inv'
  BY <1>4, FinishWithInitiateChangeInv
<1>5. CASE Commit
  BY <1>5, CommitInv
<1>6. CASE FailPreExecution
  <2>1. InOrder(rf', Validators, Contracts)
    BY <1>6, PreExecutionTypes DEF FailPreExecution, Inv
  <2> QED BY <1>6, <2>1, AbandonInv DEF FailPreExecution
<1>7. CASE FailExecution
  BY <1>7, AbandonInv DEF FailExecution, Inv
<1>8. CASE RejectBlock
  BY <1>8, AbandonInv DEF RejectBlock, Inv
<1>9. CASE UNCHANGED vars
  BY <1>9 DEF vars, Inv, TypeOK, ContractStore
<1> QED BY <1>1, <1>2, <1>3, <1>4, <1>5, <1>6, <1>7, <1>8, <1>9 DEF Next

LEMMA AlwaysInv == Spec => []Inv
BY InitInv, NextInv, PTL DEF Spec

\* Execution, failures included, keeps every variable in its type.
THEOREM TypeCorrect == Spec => []TypeOK
<1>1. Inv => TypeOK BY DEF Inv
<1> QED BY <1>1, AlwaysInv, PTL

\* No failure and no interleaving of context_for_block, apply_pre_execution_changes
\* and finish leaves a majority of the validators in the window.
THEOREM NeverAMajority == Spec => []WindowBelowMajority
<1>1. Inv => WindowBelowMajority BY DEF Inv, InOrder, WindowBelowMajority
<1> QED BY <1>1, AlwaysInv, PTL

\* The executor's window is always counted right, and counts validators only.
THEOREM CensusIsExact == Spec => []CensusExact
<1>1. Inv => CensusExact BY DEF Inv, InOrder, CensusExact
<1> QED BY <1>1, AlwaysInv, PTL

(***************************************************************************)
(* Layer 1 of AuraInvariant, and what the lemmas about chains are made of. *)
(***************************************************************************)
Blocks == [signer : Validators, event : Events,
           called : AddressOrNone, active : Seq(Validators)]

(***************************************************************************)
(* A chain and the same chain one block later.                             *)
(***************************************************************************)
OneMore(ch, ch2) ==
  /\ ch \in Seq(Blocks) /\ ch2 \in Seq(Blocks)
  /\ Len(ch) \in Nat
  /\ Len(ch2) = Len(ch) + 1
  /\ \A i \in 1..Len(ch) : ch2[i] = ch[i]

\* That is what a commit appends.
LEMMA AppendIsOneMore ==
  ASSUME NEW ch \in Seq(Blocks), NEW x \in Blocks
  PROVE  OneMore(ch, Append(ch, x)) /\ Append(ch, x)[Len(ch) + 1] = x
BY DEF OneMore

\* What the chain says up to its end does not change.
LEMMA SameHistory ==
  ASSUME NEW ch, NEW ch2, OneMore(ch, ch2), NEW n \in 1..Len(ch), NEW b \in 1..n
  PROVE  /\ WaitsIn(ch2, b, n) <=> WaitsIn(ch, b, n)
         /\ SealersIn(ch2, b, n) = SealersIn(ch, b, n)
         /\ MajorityIn(ch2, b, n) <=> MajorityIn(ch, b, n)
         /\ SealedIn(ch2, b) <=> SealedIn(ch, b)
         /\ \A a : Justifies(ch2, b, n, a) <=> Justifies(ch, b, n, a)
<1>1. b \in 1..Len(ch) /\ ch2[b] = ch[b] /\ ch2[n] = ch[n]
  BY DEF OneMore
<1>2. \A i \in b..n : i \in 1..Len(ch) /\ ch2[i] = ch[i]
  BY DEF OneMore
<1>3. WaitsIn(ch2, b, n) <=> WaitsIn(ch, b, n)
  <2>1. \A m \in (b+1)..n : ch2[m].called = ch[m].called BY <1>2
  <2> QED BY <1>1, <2>1 DEF WaitsIn
<1>4. SealersIn(ch2, b, n) = SealersIn(ch, b, n)
  BY <1>2 DEF SealersIn
<1>5. MajorityIn(ch2, b, n) <=> MajorityIn(ch, b, n)
  BY <1>1, <1>4 DEF MajorityIn
<1>6. SealedIn(ch2, b) <=> SealedIn(ch, b)
  BY <1>1 DEF SealedIn
<1> QED BY <1>3, <1>4, <1>5, <1>6 DEF Justifies

\* An announcement waits on unless the new block calls its contract.
LEMMA WaitsOn ==
  ASSUME NEW ch, NEW ch2, OneMore(ch, ch2)
  PROVE  /\ \A b \in 1..Len(ch) :
              WaitsIn(ch2, b, Len(ch2))
                <=> WaitsIn(ch, b, Len(ch)) /\ ch2[Len(ch2)].called # ContractOf(b)
         /\ WaitsIn(ch2, Len(ch2), Len(ch2)) <=> ch2[Len(ch2)].event # "none"
<1> DEFINE n == Len(ch2)
<1>1. Len(ch) \in Nat /\ n = Len(ch) + 1
  BY DEF OneMore
<1>2. ASSUME NEW b \in 1..Len(ch)
      PROVE  WaitsIn(ch2, b, n)
               <=> WaitsIn(ch, b, Len(ch)) /\ ch2[n].called # ContractOf(b)
  <2>1. b \in 1..Len(ch) /\ Len(ch) \in 1..Len(ch) BY <1>1
  <2>2. WaitsIn(ch2, b, Len(ch)) <=> WaitsIn(ch, b, Len(ch))
    BY <2>1, SameHistory
  <2>3. (b+1)..n = ((b+1)..Len(ch)) \cup {n} BY <1>1
  <2> QED BY <2>2, <2>3 DEF WaitsIn
<1>3. WaitsIn(ch2, n, n) <=> ch2[n].event # "none"
  <2>1. (n+1)..n = {} BY <1>1
  <2> QED BY <2>1 DEF WaitsIn
<1> QED BY <1>2, <1>3

(***************************************************************************)
(* The window after push.                                                  *)
(***************************************************************************)
\* hs is the window of t with the header of the chain's last block behind it
Extended(t, hs, ch2) ==
  /\ hs \in Seq([num : Nat, signer : Validators])
  /\ Len(hs) = Len(t.headers) + 1 /\ Len(t.headers) \in Nat
  /\ DOMAIN hs = 1..Len(hs) /\ DOMAIN t.headers = 1..Len(t.headers)
  /\ \A i \in 1..Len(t.headers) : hs[i] = t.headers[i]
  /\ hs[Len(hs)].num = Len(ch2)
  /\ \A i, j \in 1..Len(hs) : i < j <=> hs[i].num < hs[j].num
  /\ \A i \in 1..Len(hs) :
       /\ hs[i].num \in 1..Len(ch2)
       /\ IsPosdao(hs[i].num)
       /\ ch2[hs[i].num].signer = hs[i].signer

\* A header pushed for a new block, before anything is popped.
LEMMA PushedWindow ==
  ASSUME NEW ch, NEW ch2, OneMore(ch, ch2),
         NEW t, IsTracker(t, Validators, Contracts), WindowOf(t, ch),
         NEW signer \in Validators, ch2[Len(ch2)].signer = signer, IsPosdao(Len(ch2)),
         NEW h, h = [num |-> Len(ch2), signer |-> signer],
         NEW hs, hs = Append(t.headers, h)
  PROVE  Extended(t, hs, ch2)
<1> DEFINE m == Len(t.headers)
<1>1. Len(ch) \in Nat /\ Len(ch2) = Len(ch) + 1 /\ Len(ch2) \in Nat
  BY DEF OneMore
<1>2. t.headers \in Seq([num : Nat, signer : Validators]) /\ m \in Nat
  BY DEF IsTracker
<1>3. h \in [num : Nat, signer : Validators]
  BY <1>1
<1>4. /\ hs \in Seq([num : Nat, signer : Validators])
      /\ Len(hs) = m + 1
      /\ DOMAIN hs = 1..Len(hs) /\ DOMAIN t.headers = 1..m
      /\ \A i \in 1..m : hs[i] = t.headers[i]
      /\ hs[Len(hs)] = h
  BY <1>2, <1>3
<1>5. h.num = Len(ch2) /\ h.signer = signer
  OBVIOUS
<1>6. ASSUME NEW i \in 1..Len(hs)
      PROVE  /\ hs[i].num \in 1..Len(ch2)
             /\ IsPosdao(hs[i].num)
             /\ ch2[hs[i].num].signer = hs[i].signer
             /\ i < Len(hs) => hs[i].num \in 1..Len(ch)
  <2>1. CASE i \in 1..m
    <3>1. /\ hs[i].num \in 1..Len(ch)
          /\ IsPosdao(hs[i].num)
          /\ ch[hs[i].num].signer = hs[i].signer
      <4>1. i \in DOMAIN t.headers /\ hs[i] = t.headers[i] BY <1>4, <2>1
      <4>2. /\ t.headers[i].num \in 1..Len(ch)
            /\ IsPosdao(t.headers[i].num)
            /\ ch[t.headers[i].num].signer = t.headers[i].signer
        BY <4>1 DEF WindowOf
      <4> QED BY <4>1, <4>2, Zenon
    <3>2. i \in Nat BY <2>1
    <3> QED BY <1>1, <3>1, <3>2 DEF OneMore
  <2>2. CASE i = Len(hs)
    <3>1. hs[i].num = Len(ch2) /\ hs[i].signer = signer
      BY <1>4, <1>5, <2>2
    <3>2. Len(ch2) \in 1..Len(ch2)
      BY <1>1
    <3> QED BY <2>2, <3>1, <3>2
  <2>3. i \in 1..m \/ i = Len(hs)
    BY <1>2, <1>4
  <2> QED BY <2>1, <2>2, <2>3
<1>7. ASSUME NEW i \in 1..Len(hs), NEW j \in 1..Len(hs), i < j
      PROVE  hs[i].num < hs[j].num
  <2>1. CASE j \in 1..m
    <3>1. i \in 1..m BY <1>2, <1>7, <2>1
    <3>2. t.headers[i].num < t.headers[j].num
      <4>1. WindowOrdered(t) BY DEF WindowOf
      <4>2. i \in DOMAIN t.headers /\ j \in DOMAIN t.headers BY <1>4, <2>1, <3>1
      <4> QED BY <1>7, <4>1, <4>2 DEF WindowOrdered
    <3>3. hs[i] = t.headers[i] /\ hs[j] = t.headers[j] BY <1>4, <2>1, <3>1
    <3> QED BY <3>2, <3>3, Zenon
  <2>2. CASE j = Len(hs)
    <3>1. hs[i].num \in 1..Len(ch) BY <1>6, <1>7, <2>2
    <3>2. hs[j].num = Len(ch2) BY <1>4, <1>5, <2>2
    <3>3. Len(ch2) = Len(ch) + 1 /\ Len(ch) \in Nat BY <1>1
    <3> QED BY ONLY <3>1, <3>2, <3>3
  <2>3. j \in 1..m \/ j = Len(hs) BY <1>2, <1>4
  <2> QED BY <2>1, <2>2, <2>3
<1>8. ASSUME NEW i \in 1..Len(hs), NEW j \in 1..Len(hs), hs[i].num < hs[j].num
      PROVE  i < j
  <2>1. CASE i = j
    <3>1. hs[i].num \in 1..Len(ch2) BY <1>6
    <3> QED BY <1>1, <1>8, <2>1, <3>1
  <2>2. CASE j < i
    <3>1. hs[j].num < hs[i].num BY <1>7, <2>2
    <3>2. hs[i].num \in 1..Len(ch2) /\ hs[j].num \in 1..Len(ch2) BY <1>6
    <3> QED BY <1>1, <1>8, <3>1, <3>2
  <2> QED BY <1>2, <1>4, <2>1, <2>2
<1>9. /\ \A i \in 1..Len(hs) :
           /\ hs[i].num \in 1..Len(ch2)
           /\ IsPosdao(hs[i].num)
           /\ ch2[hs[i].num].signer = hs[i].signer
      /\ \A i, j \in 1..Len(hs) : i < j <=> hs[i].num < hs[j].num
  <2>1. \A i \in 1..Len(hs) :
           /\ hs[i].num \in 1..Len(ch2)
           /\ IsPosdao(hs[i].num)
           /\ ch2[hs[i].num].signer = hs[i].signer
    BY <1>6
  <2>2. \A i, j \in 1..Len(hs) : i < j => hs[i].num < hs[j].num
    BY <1>7, Zenon
  <2>3. \A i, j \in 1..Len(hs) : hs[i].num < hs[j].num => i < j
    BY <1>8, Zenon
  <2>4. ASSUME NEW i \in 1..Len(hs), NEW j \in 1..Len(hs)
        PROVE  i < j <=> hs[i].num < hs[j].num
    <3>1. i < j => hs[i].num < hs[j].num
      BY <2>2, <2>4, Zenon
    <3>2. hs[i].num < hs[j].num => i < j
      BY <2>3, <2>4, Zenon
    <3> QED BY ONLY <3>1, <3>2, Zenon
  <2> QED BY <2>1, <2>4, Zenon
<1> QED BY <1>2, <1>4, <1>5, <1>9 DEF Extended

\* The window of a tracker is in the chain one block later.
LEMMA WindowLater ==
  ASSUME NEW ch, NEW ch2, OneMore(ch, ch2), NEW t, WindowOf(t, ch)
  PROVE  WindowOf(t, ch2)
BY DEF WindowOf, OneMore

\* what is pending and in the window stays there or leaves for a schedule; so
\* does block n, if its signer is counted
StaysOrLeaves(t, u, n, signer) ==
  \A b \in DOMAIN t.pending_transitions :
    InWindow(t, b) \/ (b = n /\ signer \in Range(u.validators)) =>
      \/ Tracked(u, b)
      \/ (Scheduled(u) /\ b \notin DOMAIN u.pending_transitions)

\* the schedule changes only for a transition that leaves under a majority
SchedulesFor(t, u, ch, n) ==
  \/ u.finalize_change_at = t.finalize_change_at
  \/ /\ u.finalize_change_at.at = n + 1
     /\ \E b \in DOMAIN t.pending_transitions :
          /\ u.finalize_change_at.address = t.pending_transitions[b]
          /\ b \notin DOMAIN u.pending_transitions
          /\ InWindow(t, b) \/ b = n
          /\ Cardinality(SealersIn(ch, b, n) \cap Range(u.validators)) * 2
               > Len(u.validators)

\* u is t once block n is pushed: hs, of length l, is the window of t with the
\* header of n behind it, and the first k headers of hs are popped
Cuts(t, u, hs, l, k, ch2, n) ==
  /\ Pops(t, u, hs, n, k)
  /\ k \in Nat /\ l \in Nat /\ k <= l /\ l = Len(hs)
  /\ \A i, j \in 1..l : i < j <=> hs[i].num < hs[j].num
  /\ \A i \in 1..l :
       /\ hs[i].num \in 1..n
       /\ IsPosdao(hs[i].num)
       /\ ch2[hs[i].num].signer = hs[i].signer
       /\ hs[i].signer \in Range(u.validators)
  /\ DOMAIN u.headers = 1..(l - k)
  /\ \A i \in 1..(l - k) : u.headers[i] = hs[k + i]
  /\ \A b : InWindow(u, b) <=> \E i \in (k+1)..l : hs[i].num = b
  /\ \A b : InWindow(t, b) \/ b = n <=> \E i \in 1..l : hs[i].num = b

\* A block that is counted is pushed behind the window, and a prefix is popped.
LEMMA PushCuts ==
  ASSUME NEW ch, NEW ch2, OneMore(ch, ch2),
         NEW t, InOrder(t, Validators, Contracts),
         WindowOf(t, ch),
         NEW signer \in Validators, ch2[Len(ch2)].signer = signer,
         IsPosdao(Len(ch2)),
         ~ (t.validators_sealed /\ signer \notin Range(t.validators)),
         NEW n, n = Len(ch2), NEW u, u = Push(t, n, signer)
  PROVE  /\ signer \in Range(t.validators) => u.validators = t.validators
         /\ u.validators_sealed = t.validators_sealed
         /\ signer \in Range(u.validators)
         /\ \E hs, l, k : Cuts(t, u, hs, l, k, ch2, n)
<1>1. n \in Nat BY DEF OneMore
<1>0. PICK h, hs, l : /\ h = [num |-> n, signer |-> signer]
                     /\ hs = Append(t.headers, h)
                     /\ l = Len(hs)
  OBVIOUS
<1>2. IsTracker(t, Validators, Contracts) BY DEF InOrder
<1>3. /\ hs \in Seq([num : Nat, signer : Validators])
      /\ l = Len(t.headers) + 1 /\ Len(t.headers) \in Nat
      /\ DOMAIN hs = 1..l /\ DOMAIN t.headers = 1..Len(t.headers)
      /\ \A i \in 1..Len(t.headers) : hs[i] = t.headers[i]
      /\ hs[l].num = n
      /\ \A i, j \in 1..l : i < j <=> hs[i].num < hs[j].num
      /\ \A i \in 1..l :
           /\ hs[i].num \in 1..n
           /\ IsPosdao(hs[i].num)
           /\ ch2[hs[i].num].signer = hs[i].signer
  <2>1. Extended(t, hs, ch2) BY <1>0, <1>2, PushedWindow
  <2>2. l = Len(hs) /\ n = Len(ch2) BY <1>0
  <2>3. /\ hs \in Seq([num : Nat, signer : Validators])
        /\ l = Len(t.headers) + 1 /\ Len(t.headers) \in Nat
        /\ DOMAIN hs = 1..l /\ DOMAIN t.headers = 1..Len(t.headers)
        /\ \A i \in 1..Len(t.headers) : hs[i] = t.headers[i]
        /\ hs[l].num = n
    BY <2>1, <2>2 DEF Extended
  <2>4. /\ \A i, j \in 1..l : i < j <=> hs[i].num < hs[j].num
        /\ \A i \in 1..l :
             /\ hs[i].num \in 1..n
             /\ IsPosdao(hs[i].num)
             /\ ch2[hs[i].num].signer = hs[i].signer
    BY <2>1, <2>2 DEF Extended
  <2> QED BY <2>3, <2>4
<1>4. /\ signer \in Range(t.validators) => u.validators = t.validators
      /\ u.validators_sealed = t.validators_sealed
      /\ signer \in Range(u.validators)
      /\ \A i \in DOMAIN hs : hs[i].signer \in Range(u.validators)
      /\ PopsSome(t, u, hs, n)
  <2>1. hs = WindowWith(t, n, signer) BY <1>0 DEF WindowWith
  <2>2. /\ signer \in Range(t.validators) => u.validators = t.validators
        /\ u.validators_sealed = t.validators_sealed
        /\ signer \in Range(u.validators)
    BY <1>1, <2>1, PushPops
  <2>3. \A i \in DOMAIN hs : hs[i].signer \in Range(u.validators)
    BY <1>1, <2>1, PushPops
  <2>4. PopsSome(t, u, hs, n)
    BY <1>1, <2>1, PushPops
  <2> QED BY <2>2, <2>3, <2>4
<1>5. PICK k \in 0..l : Pops(t, u, hs, n, k)
  BY <1>0, <1>4 DEF PopsSome
<1>6. h.num = n BY <1>0
<1>8. /\ k \in Nat /\ l \in Nat /\ k <= l
      /\ DOMAIN u.headers = 1..(l - k)
      /\ \A i \in 1..(l - k) : u.headers[i] = hs[k + i]
  <2>1. k \in Nat /\ l \in Nat /\ k <= l BY <1>3, <1>5
  <2>0. u.headers = SubSeq(hs, k + 1, l) BY <1>0, <1>5 DEF Pops
  <2>2. k + 1 \in 1..(l+1) /\ l \in 0..l BY <2>1
  <2>3. Len(SubSeq(hs, k+1, l)) = l - k BY <1>3, <2>1
  <2> QED BY <1>3, <2>0, <2>1, <2>2, <2>3
<1>9. /\ \A i \in (k+1)..l : i - k \in DOMAIN u.headers /\ u.headers[i - k] = hs[i]
      /\ \A j \in DOMAIN u.headers : k + j \in (k+1)..l /\ u.headers[j] = hs[k + j]
  <2>1. ASSUME NEW i \in (k+1)..l
        PROVE  i - k \in 1..(l-k) /\ k + (i - k) = i
    BY <1>8
  <2> QED BY <1>8, <2>1
<1>10. \A b : InWindow(u, b) <=> \E i \in (k+1)..l : hs[i].num = b
  BY <1>9 DEF InWindow
<1>11. \A b : InWindow(t, b) \/ b = n <=> \E i \in 1..l : hs[i].num = b
  <2>1. ASSUME NEW b, InWindow(t, b) \/ b = n PROVE \E i \in 1..l : hs[i].num = b
    <3>1. CASE b = n
      <4>1. l \in 1..l BY <1>8, <1>3
      <4> QED BY <1>3, <3>1, <4>1
    <3>2. CASE InWindow(t, b)
      <4>1. PICK i \in 1..Len(t.headers) : t.headers[i].num = b
        BY <1>3, <3>2 DEF InWindow
      <4>2. hs[i].num = b BY <1>3, <4>1
      <4>3. i \in 1..l BY <1>3, <1>8
      <4> QED BY <4>2, <4>3
    <3> QED BY <2>1, <3>1, <3>2
  <2>2. ASSUME NEW b, NEW i \in 1..l, hs[i].num = b PROVE InWindow(t, b) \/ b = n
    <3>1. i \in 1..Len(t.headers) \/ i = l BY <1>3, <1>8
    <3> QED BY <1>3, <1>6, <2>2, <3>1 DEF InWindow
  <2> QED BY <2>1, <2>2
<1>12. DOMAIN hs = 1..l /\ l \in Nat BY <1>3
<1>13. Cuts(t, u, hs, l, k, ch2, n)
  <2>1. Pops(t, u, hs, n, k) /\ l = Len(hs)
    BY <1>0, <1>5
  <2>2. \A i \in 1..l : hs[i].signer \in Range(u.validators)
    BY <1>3, <1>4
  <2>3. /\ \A i, j \in 1..l : i < j <=> hs[i].num < hs[j].num
        /\ \A i \in 1..l :
             /\ hs[i].num \in 1..n
             /\ IsPosdao(hs[i].num)
             /\ ch2[hs[i].num].signer = hs[i].signer
             /\ hs[i].signer \in Range(u.validators)
    BY <1>3, <2>2
  <2> QED BY <1>8, <1>10, <1>11, <2>1, <2>3 DEF Cuts
<1> QED BY <1>4, <1>13

\* A block that is counted: what push keeps.
LEMMA PushKeepsWindow ==
  ASSUME NEW ch, NEW ch2, OneMore(ch, ch2),
         NEW t, InOrder(t, Validators, Contracts),
         WindowOf(t, ch), PendingOf(t, ch2),
         NEW signer \in Validators, ch2[Len(ch2)].signer = signer,
         IsPosdao(Len(ch2)),
         ~ (t.validators_sealed /\ signer \notin Range(t.validators)),
         NEW n, n = Len(ch2), NEW u, u = Push(t, n, signer)
  PROVE  /\ signer \in Range(t.validators) => u.validators = t.validators
         /\ u.validators_sealed = t.validators_sealed
         /\ WindowOf(u, ch2)
         /\ PendingOf(u, ch2)
         /\ DOMAIN u.pending_transitions \subseteq DOMAIN t.pending_transitions
         /\ NoCallSince(t, ch2) => NoCallSince(u, ch2)
         /\ u.validators = t.validators /\ Covered(t, ch) => Covered(u, ch2)
         /\ StaysOrLeaves(t, u, n, signer)
         /\ SchedulesFor(t, u, ch2, n)
<1>1. n \in Nat BY DEF OneMore
<1>2. IsTracker(t, Validators, Contracts) BY DEF InOrder
<1>4. /\ signer \in Range(t.validators) => u.validators = t.validators
      /\ u.validators_sealed = t.validators_sealed
      /\ signer \in Range(u.validators)
  BY PushCuts
<1>0. PICK hs, l, k : Cuts(t, u, hs, l, k, ch2, n)
  BY PushCuts
<1>3. /\ \A i, j \in 1..l : i < j <=> hs[i].num < hs[j].num
      /\ \A i \in 1..l :
           /\ hs[i].num \in 1..n
           /\ IsPosdao(hs[i].num)
           /\ ch2[hs[i].num].signer = hs[i].signer
           /\ hs[i].signer \in Range(u.validators)
  BY <1>0 DEF Cuts
<1>5. Pops(t, u, hs, n, k) /\ l = Len(hs) BY <1>0 DEF Cuts
<1> DEFINE pt == t.pending_transitions
           pu == u.pending_transitions
           vs == u.validators
<1>7. /\ DOMAIN pu = {b \in DOMAIN pt : \A i \in 1..k : hs[i].num # b}
      /\ \A b \in DOMAIN pu : pu[b] = pt[b]
  BY <1>5 DEF Restrict, Pops
<1>8. /\ k \in Nat /\ l \in Nat /\ k <= l
      /\ DOMAIN u.headers = 1..(l - k)
      /\ \A i \in 1..(l - k) : u.headers[i] = hs[k + i]
  BY <1>0 DEF Cuts
<1>9. \A j \in DOMAIN u.headers : k + j \in (k+1)..l /\ u.headers[j] = hs[k + j]
  BY <1>8
<1>10. \A b : InWindow(u, b) <=> \E i \in (k+1)..l : hs[i].num = b
  BY <1>0 DEF Cuts
<1>11. \A b : InWindow(t, b) \/ b = n <=> \E i \in 1..l : hs[i].num = b
  BY <1>0 DEF Cuts
<1>12. WindowOf(u, ch2)
  <2>1. WindowOrdered(u)
    <3>1. ASSUME NEW i \in DOMAIN u.headers, NEW j \in DOMAIN u.headers, i < j
          PROVE  u.headers[i].num < u.headers[j].num
      <4>1. k + i < k + j /\ k + i \in 1..l /\ k + j \in 1..l BY <1>8, <3>1
      <4>2. hs[k + i].num < hs[k + j].num BY <1>3, <4>1
      <4> QED BY <1>9, <4>2
    <3> QED BY <3>1 DEF WindowOrdered
  <2>2. ASSUME NEW j \in DOMAIN u.headers
        PROVE  /\ u.headers[j].num \in 1..n
               /\ IsPosdao(u.headers[j].num)
               /\ ch2[u.headers[j].num].signer = u.headers[j].signer
    <3>1. k + j \in 1..l BY <1>8, <1>9
    <3> QED BY <1>3, <1>9, <3>1
  <2> QED BY <2>1, <2>2 DEF WindowOf
<1>13. PendingOf(u, ch2)
  BY <1>7 DEF PendingOf
<1>14. \A b : InWindow(u, b) => InWindow(t, b) \/ b = n
  <2>1. \A i \in (k+1)..l : i \in 1..l BY <1>8
  <2> QED BY <1>10, <1>11, <2>1
<1>15. NoCallSince(t, ch2) => NoCallSince(u, ch2)
  <2> SUFFICES ASSUME NoCallSince(t, ch2), NEW j \in DOMAIN u.headers,
                      NEW m \in (u.headers[j].num + 1)..n
               PROVE  ch2[m].called # ContractOf(u.headers[j].num)
    BY DEF NoCallSince
  <2> DEFINE b == u.headers[j].num
  <2>1. b # n BY <1>1
  <2>2. InWindow(u, b) BY DEF InWindow
  <2>3. InWindow(t, b) BY <1>14, <2>1, <2>2
  <2>4. PICK i \in DOMAIN t.headers : t.headers[i].num = b BY <2>3 DEF InWindow
  <2> QED BY <2>4 DEF NoCallSince
<1>16. vs = t.validators /\ Covered(t, ch) => Covered(u, ch2)
  <2> SUFFICES ASSUME vs = t.validators, Covered(t, ch), NEW j \in DOMAIN u.headers,
                      NEW m \in u.headers[j].num..n,
                      ch2[m].signer \in Range(vs)
               PROVE  InWindow(u, m)
    BY DEF Covered
  <2> DEFINE i == k + j
  <2>1. i \in (k+1)..l /\ i \in 1..l /\ u.headers[j] = hs[i] BY <1>8, <1>9
  <2>2. InWindow(t, m) \/ m = n
    <3> SUFFICES ASSUME m # n PROVE InWindow(t, m)
      OBVIOUS
    <3>1. Len(ch) \in Nat /\ n = Len(ch) + 1 BY DEF OneMore
    <3>2. hs[i].num \in 1..n BY <1>3, <2>1
    <3>3. m \in hs[i].num..Len(ch) /\ m \in 1..Len(ch) BY <2>1, <3>1, <3>2
    <3>4. hs[i].num # n BY <3>1, <3>3
    <3>5. InWindow(t, hs[i].num) BY <1>11, <2>1, <3>4
    <3>6. PICK x \in DOMAIN t.headers : t.headers[x].num = hs[i].num
      BY <3>5 DEF InWindow
    <3>7. ch[m].signer \in Range(vs) BY <3>3 DEF OneMore
    <3> QED BY <3>3, <3>6, <3>7 DEF Covered
  <2>3. PICK x \in 1..l : hs[x].num = m BY <1>11, <2>2
  <2>4. ~ (x < i)
    <3>1. ~ (hs[x].num < hs[i].num)
      <4>1. hs[i].num \in 1..n BY <1>3, <2>1
      <4> QED BY <1>1, <2>1, <2>3, <4>1
    <3> QED BY <1>3, <2>1, <3>1
  <2>5. x \in (k+1)..l BY <1>8, <2>1, <2>4
  <2> QED BY <1>10, <2>3, <2>5
<1>17. \A i, j \in 1..l : hs[i].num = hs[j].num => i = j
  <2> SUFFICES ASSUME NEW i \in 1..l, NEW j \in 1..l, hs[i].num = hs[j].num, i # j
               PROVE  FALSE
    OBVIOUS
  <2>1. hs[i].num \in 1..n BY <1>3
  <2>2. i < j \/ j < i BY <1>8
  <2> QED BY <1>1, <1>3, <2>1, <2>2
<1>18. ASSUME NEW b \in DOMAIN pt, InWindow(t, b) \/ b = n
       PROVE  Tracked(u, b) \/ (Scheduled(u) /\ b \notin DOMAIN pu)
  <2>1. PICK i \in 1..l : hs[i].num = b BY <1>11, <1>18
  <2>2. CASE i \in 1..k
    <3>1. b \notin DOMAIN pu BY <1>7, <2>1, <2>2
    <3>2. PICK x \in 1..k :
            /\ hs[x].num \in DOMAIN pt
            /\ u.finalize_change_at = [at |-> n + 1, address |-> pt[hs[x].num]]
      BY <1>5, <2>1, <2>2 DEF Pops
    <3>3. pt[hs[x].num] \in Contracts BY <1>2, <3>2 DEF IsTracker
    <3>4. Scheduled(u) BY <3>2, <3>3, AuraExecutionAssumption DEF Scheduled
    <3> QED BY <3>1, <3>4
  <2>3. CASE i \in (k+1)..l
    <3>1. InWindow(u, b) BY <1>10, <2>1, <2>3
    <3>2. \A x \in 1..k : hs[x].num # b
      <4>1. \A x \in 1..k : x \in 1..l /\ x # i BY <1>8, <2>3
      <4> QED BY <1>17, <2>1, <4>1
    <3>3. b \in DOMAIN pu BY <1>7, <3>2
    <3> QED BY <3>1, <3>3 DEF Tracked
  <2> QED BY <1>8, <2>2, <2>3
<1>19. \/ u.finalize_change_at = t.finalize_change_at
       \/ /\ u.finalize_change_at.at = n + 1
          /\ \E b \in DOMAIN pt :
               /\ u.finalize_change_at.address = pt[b]
               /\ b \notin DOMAIN pu
               /\ InWindow(t, b) \/ b = n
               /\ Cardinality(SealersIn(ch2, b, n) \cap Range(vs)) * 2 > Len(vs)
  <2> SUFFICES ASSUME NEW i \in 1..k,
                      hs[i].num \in DOMAIN pt,
                      u.finalize_change_at = [at |-> n + 1, address |-> pt[hs[i].num]]
               PROVE  /\ u.finalize_change_at.at = n + 1
                      /\ \E b \in DOMAIN pt :
                           /\ u.finalize_change_at.address = pt[b]
                           /\ b \notin DOMAIN pu
                           /\ InWindow(t, b) \/ b = n
                           /\ Cardinality(SealersIn(ch2, b, n) \cap Range(vs)) * 2 > Len(vs)
    BY <1>5 DEF Pops
  <2> DEFINE b == hs[i].num
             S == {hs[j].signer : j \in i..l}
             T == SealersIn(ch2, b, n) \cap Range(vs)
  <2>1. i \in 1..l BY <1>8
  <2>2. b \notin DOMAIN pu BY <1>7
  <2>3. InWindow(t, b) \/ b = n BY <1>11, <2>1
  <2>4. S \subseteq T
    <3> SUFFICES ASSUME NEW j \in i..l
                 PROVE  hs[j].signer \in SealersIn(ch2, b, n) /\ hs[j].signer \in Range(vs)
      OBVIOUS
    <3>1. j \in 1..l BY <1>8, <2>1
    <3>2. ~ (hs[j].num < b) BY <1>3, <1>8, <2>1, <3>1
    <3>3. b \in 1..n /\ hs[j].num \in 1..n /\ ch2[hs[j].num].signer = hs[j].signer
      BY <1>3, <2>1, <3>1
    <3>4. hs[j].num \in b..n BY <1>1, <3>2, <3>3
    <3>5. hs[j].signer \in Range(vs) BY <1>3, <3>1
    <3> QED BY <3>3, <3>4, <3>5 DEF SealersIn
  <2>5. IsFiniteSet(T) /\ Len(vs) \in Nat
    <3>0. InOrder(u, Validators, Contracts) BY <1>1, PushKeeps
    <3>1. vs \in Seq(Validators) BY <3>0 DEF InOrder, IsTracker
    <3>2. IsFiniteSet(Range(vs)) BY <3>1, RangeFinite
    <3> QED BY <3>1, <3>2, FS_Subset
  <2>6. Cardinality(T) * 2 > Len(vs)
    <3> HIDE DEF T, S
    <3>1. Cardinality(S) * 2 > Len(vs) BY <1>5 DEF S, Pops
    <3> QED BY <2>4, <2>5, <3>1, MajorityGrows
  <2>7. u.finalize_change_at.at = n + 1 /\ u.finalize_change_at.address = pt[b]
    OBVIOUS
  <2>8. b \in DOMAIN pt OBVIOUS
  <2> HIDE DEF b
  <2> QED BY <2>2, <2>3, <2>6, <2>7, <2>8
<1>20. DOMAIN pu \subseteq DOMAIN pt BY <1>7
<1>21. StaysOrLeaves(t, u, n, signer)
  BY <1>18 DEF StaysOrLeaves
<1>22. SchedulesFor(t, u, ch2, n)
  BY <1>19 DEF SchedulesFor
<1> QED BY <1>4, <1>12, <1>13, <1>15, <1>16, <1>20, <1>21, <1>22

\* Any block: a stranger's leaves the tracker alone.
LEMMA PushKeepsChain ==
  ASSUME NEW ch, NEW ch2, OneMore(ch, ch2),
         NEW t, InOrder(t, Validators, Contracts),
         WindowOf(t, ch), PendingOf(t, ch2),
         NEW signer \in Validators, ch2[Len(ch2)].signer = signer,
         IsPosdao(Len(ch2)),
         NEW n, n = Len(ch2), NEW u, u = Push(t, n, signer)
  PROVE  /\ t.validators_sealed => u.validators = t.validators
         /\ u.validators_sealed = t.validators_sealed
         /\ WindowOf(u, ch2)
         /\ PendingOf(u, ch2)
         /\ DOMAIN u.pending_transitions \subseteq DOMAIN t.pending_transitions
         /\ NoCallSince(t, ch2) => NoCallSince(u, ch2)
         /\ u.validators = t.validators /\ Covered(t, ch) => Covered(u, ch2)
         /\ StaysOrLeaves(t, u, n, signer)
         /\ SchedulesFor(t, u, ch2, n)
<1>1. CASE ~ (t.validators_sealed /\ signer \notin Range(t.validators))
  BY <1>1, PushKeepsWindow
<1>2. CASE t.validators_sealed /\ signer \notin Range(t.validators)
  <2>1. u = t BY <1>2, PushDrops
  <2>2. WindowOf(t, ch2) BY WindowLater
  <2>3. Covered(t, ch) => Covered(t, ch2)
    <3> SUFFICES ASSUME Covered(t, ch), NEW i \in DOMAIN t.headers,
                        NEW m \in t.headers[i].num..Len(ch2),
                        ch2[m].signer \in Range(t.validators)
                 PROVE  InWindow(t, m)
      BY DEF Covered
    <3>1. m # Len(ch2) BY <1>2
    <3>2. t.headers[i].num \in 1..Len(ch) BY DEF WindowOf
    <3>3. m \in t.headers[i].num..Len(ch) /\ m \in 1..Len(ch)
      BY <3>1, <3>2 DEF OneMore
    <3>4. ch[m].signer \in Range(t.validators) BY <3>3 DEF OneMore
    <3> QED BY <3>3, <3>4 DEF Covered
  <2>4. StaysOrLeaves(t, t, n, signer) BY <1>2 DEF StaysOrLeaves, Tracked
  <2>5. SchedulesFor(t, t, ch2, n) BY DEF SchedulesFor
  <2> QED BY <2>1, <2>2, <2>3, <2>4, <2>5
<1> QED BY <1>1, <1>2

(***************************************************************************)
(* What each action does.                                                  *)
(***************************************************************************)
\* Without failures no execution is abandoned.
LEMMA NothingFails ==
  ASSUME Inv, MaxFailures = 0
  PROVE  ~Abandon
BY DEF Inv, TypeOK, Faults, Abandon

\* context_for_block takes the call of the next block.
LEMMA ContextEffect ==
  ASSUME Inv, ContextForBlock
  PROVE  LET n == head + 1 IN
         /\ exec.phase = "idle" /\ exec'.phase = "context"
         /\ n \in Nat /\ exec'.n = n /\ exec'.evm = contracts
         /\ UNCHANGED <<chain, contracts>>
         /\ Executed = chain /\ Executed' = chain
         /\ \/ /\ ~IsPreMerge(n) /\ exec'.finalize = NoAddress /\ rf' = rf
            \/ /\ IsPreMerge(n) /\ AtBoundary(n)
               /\ exec'.finalize = ComputeFinalizeChangeAddress(Sets, n) /\ rf' = rf
            \/ /\ IsPreMerge(n) /\ ~AtBoundary(n)
               /\ exec'.finalize = IF FinalizeDue(rf, n)
                                   THEN rf.finalize_change_at.address ELSE NoAddress
               /\ rf' = TakeFinalizeChange(rf, n)
<1> DEFINE n        == head + 1
           boundary == ComputeFinalizeChangeAddress(Sets, n)
           address  == IF ~IsPreMerge(n) THEN NoAddress
                       ELSE IF boundary # NoAddress THEN boundary
                       ELSE IF FinalizeDue(rf, n) THEN rf.finalize_change_at.address
                       ELSE NoAddress
<1>1. n \in Nat BY DEF Inv, TypeOK, head
<1>2. exec' = [Idle EXCEPT !.phase = "context", !.n = n, !.finalize = address]
  BY DEF ContextForBlock
<1>3. exec'.phase = "context" /\ exec'.n = n /\ exec'.finalize = address
      /\ exec'.evm = contracts
  <2> HIDE DEF n, address
  <2> QED BY <1>2 DEF Idle
<1>4. exec.phase = "idle" /\ UNCHANGED <<chain, contracts>>
  BY DEF ContextForBlock
<1>5. Executed = chain /\ Executed' = chain
  BY <1>3, <1>4 DEF Executed
<1>6. rf' = IF IsPreMerge(n) /\ boundary = NoAddress THEN TakeFinalizeChange(rf, n) ELSE rf
  BY DEF ContextForBlock
<1>7. AtBoundary(n) <=> boundary # NoAddress BY DEF AtBoundary
<1>8. \/ ~IsPreMerge(n) /\ address = NoAddress /\ rf' = rf
      \/ /\ IsPreMerge(n) /\ AtBoundary(n)
         /\ address = boundary /\ rf' = rf
      \/ /\ IsPreMerge(n) /\ ~AtBoundary(n)
         /\ address = IF FinalizeDue(rf, n) THEN rf.finalize_change_at.address ELSE NoAddress
         /\ rf' = TakeFinalizeChange(rf, n)
  <2> HIDE DEF n, boundary
  <2> QED BY <1>6, <1>7
<1> HIDE DEF address
<1> QED BY <1>1, <1>3, <1>4, <1>5, <1>8

\* apply_pre_execution_changes calls, and leaves the chain alone.
LEMMA PreExecutionEffect ==
  ASSUME Inv, ApplyPreExecutionChanges
  PROVE  /\ exec.phase = "context" /\ exec'.phase = "pre_execution"
         /\ exec'.n = exec.n /\ exec'.finalize = exec.finalize
         /\ exec'.evm = EvmAfterFinalizeChange /\ rf' = AfterRefresh
         /\ UNCHANGED <<chain, contracts>>
         /\ Executed = chain /\ Executed' = chain
<1>1. exec' = [exec EXCEPT !.phase = "pre_execution", !.evm = EvmAfterFinalizeChange]
  BY DEF ApplyPreExecutionChanges
<1>2. /\ exec'.phase = "pre_execution" /\ exec'.n = exec.n
      /\ exec'.finalize = exec.finalize /\ exec'.evm = EvmAfterFinalizeChange
  BY <1>1 DEF Inv, TypeOK
<1> QED BY <1>2 DEF ApplyPreExecutionChanges, Executed

\* finish appends a block to what has been executed.
LEMMA FinishEffect ==
  ASSUME Inv, NEW signer \in Validators, NEW event \in Events,
         NEW store \in ContractStore,
         exec.phase = "pre_execution", Finished(signer, event, store)
  PROVE  LET block == Executed'[Len(chain) + 1] IN
         /\ exec'.phase = "finished" /\ exec'.n = exec.n
         /\ exec'.finalize = exec.finalize /\ exec'.evm = store
         /\ rf' = AfterFinish(exec.n, event, signer)
         /\ UNCHANGED <<chain, contracts>>
         /\ Executed = chain /\ OneMore(chain, Executed')
         /\ block.signer = signer /\ block.event = event /\ block.called = exec.finalize
         /\ block.active = IF ContractOf(exec.n) = NoAddress THEN <<>>
                           ELSE GetValidators(store, ContractOf(exec.n))
<1>1. exec' = [exec EXCEPT !.phase = "finished", !.signer = signer,
                           !.event = event, !.evm = store]
  BY DEF Finished
<1>2. /\ exec'.phase = "finished" /\ exec'.n = exec.n /\ exec'.signer = signer
      /\ exec'.finalize = exec.finalize /\ exec'.event = event /\ exec'.evm = store
  BY <1>1 DEF Inv, TypeOK
<1>3. exec.n \in Nat /\ exec.finalize \in AddressOrNone /\ chain \in Seq(Blocks)
  BY DEF Inv, TypeOK, Blocks
<1> DEFINE active == IF ContractOf(exec.n) = NoAddress THEN <<>>
                     ELSE GetValidators(store, ContractOf(exec.n))
           block  == [signer |-> signer, event |-> event,
                      called |-> exec.finalize, active |-> active]
<1>4. active \in Seq(Validators)
  <2>1. CASE ContractOf(exec.n) = NoAddress
    BY <2>1
  <2>2. CASE ContractOf(exec.n) # NoAddress
    <3>1. ContractOf(exec.n) \in Contracts
      BY <1>3, <2>2, ContractOfType DEF ContractOf, AddressOrNone
    <3> QED BY <2>2, <3>1, StoreTypes
  <2> QED BY <2>1, <2>2
<1>5. Block' = block
  BY <1>2 DEF Block, ContractOf, GetValidators
<1>6. UNCHANGED <<chain, contracts>> /\ rf' = AfterFinish(exec.n, event, signer)
  BY DEF Finished
<1>7. Executed = chain /\ Executed' = Append(chain, block)
  BY <1>2, <1>5, <1>6 DEF Executed
<1> HIDE DEF active
<1>8. block \in Blocks
  BY <1>3, <1>4 DEF Blocks
<1>9. /\ block.signer = signer /\ block.event = event
      /\ block.called = exec.finalize /\ block.active = active
  OBVIOUS
<1> HIDE DEF block
<1>10. OneMore(chain, Executed') /\ Executed'[Len(chain) + 1] = block
  BY <1>3, <1>7, <1>8, AppendIsOneMore
<1> QED BY <1>2, <1>6, <1>7, <1>9, <1>10 DEF active

\* The commit changes no more than where the block is kept.
LEMMA CommitEffect ==
  ASSUME Inv, Commit
  PROVE  /\ exec.phase = "finished" /\ exec'.phase = "idle"
         /\ exec'.evm = exec.evm /\ contracts' = exec.evm
         /\ chain' = Executed /\ Executed' = Executed /\ rf' = rf
<1>1. exec' = [Idle EXCEPT !.evm = exec.evm] BY DEF Commit
<1>2. exec'.phase = "idle" /\ exec'.evm = exec.evm
  BY <1>1 DEF Idle
<1> QED BY <1>2 DEF Commit, Executed

(***************************************************************************)
(* Layer 1.                                                                *)
(***************************************************************************)
\* Emptying the window keeps what is said about it.
LEMMA EmptyWindow ==
  ASSUME NEW t, t.headers = <<>>, NEW ch
  PROVE  WindowOf(t, ch) /\ NoCallSince(t, ch) /\ Covered(t, ch)
<1>1. DOMAIN t.headers = {} OBVIOUS
<1> QED BY <1>1 DEF WindowOf, WindowOrdered, NoCallSince, Covered

\* The stages of apply_pre_execution_changes.
LEMMA PreExecutionFields ==
  ASSUME Inv
  PROVE  /\ AfterRefresh.pending_transitions = rf.pending_transitions
         /\ AfterRefresh.finalize_change_at = rf.finalize_change_at
         /\ AfterRefresh.headers = rf.headers \/ AfterRefresh.headers = <<>>
         /\ IF exec.finalize # NoAddress /\ IsPosdao(exec.n)
            THEN /\ AfterRefresh.validators_sealed
                 /\ AfterRefresh.validators = GetValidators(EvmAfterFinalizeChange, exec.finalize)
                 /\ AfterRefresh.headers = <<>>
            ELSE IF NeedsInit(exec.n)
            THEN /\ AfterRefresh.validators_sealed
                 /\ AfterRefresh.validators = GetValidators(exec.evm, ContractOf(exec.n))
            ELSE AfterRefresh = rf
<1>1. IsTracker(rf, Validators, Contracts)
      /\ IsTracker(AfterInit, Validators, Contracts)
  BY PreExecutionTypes DEF Inv, InOrder
<1>2. /\ AfterInit.pending_transitions = rf.pending_transitions
      /\ AfterInit.finalize_change_at = rf.finalize_change_at
      /\ NeedsInit(exec.n) =>
           /\ AfterInit.validators_sealed
           /\ AfterInit.validators = GetValidators(exec.evm, ContractOf(exec.n))
           /\ AfterInit.headers = <<>>
      /\ ~NeedsInit(exec.n) => AfterInit = rf
  BY <1>1, SetValidatorsFields DEF AfterInit
<1>3. CASE exec.finalize # NoAddress /\ IsPosdao(exec.n)
  <2>1. AfterRefresh =
          SetValidators(AfterInit, GetValidators(EvmAfterFinalizeChange, exec.finalize))
    BY <1>3 DEF AfterRefresh
  <2> QED BY <1>1, <1>2, <1>3, <2>1, SetValidatorsFields
<1>4. CASE ~ (exec.finalize # NoAddress /\ IsPosdao(exec.n))
  <2>1. AfterRefresh = AfterInit BY <1>4 DEF AfterRefresh
  <2>2. AfterInit.headers = rf.headers \/ AfterInit.headers = <<>> BY <1>2
  <2> QED BY <1>2, <1>4, <2>1, <2>2
<1> QED BY <1>3, <1>4

\* What is said about the window and the pending transitions is said about
\* these fields.
LEMMA SameWindow ==
  ASSUME NEW t, NEW u, u.headers = t.headers, NEW ch
  PROVE  /\ WindowOf(t, ch) => WindowOf(u, ch)
         /\ NoCallSince(t, ch) => NoCallSince(u, ch)
         /\ u.validators = t.validators /\ Covered(t, ch) => Covered(u, ch)
         /\ \A b : InWindow(u, b) <=> InWindow(t, b)
BY DEF WindowOf, WindowOrdered, NoCallSince, Covered, InWindow

LEMMA SamePending ==
  ASSUME NEW t, NEW u, u.pending_transitions = t.pending_transitions, NEW ch
  PROVE  PendingOf(t, ch) => PendingOf(u, ch)
BY DEF PendingOf

\* The pending transitions of a tracker are in the chain one block later.
LEMMA PendingLater ==
  ASSUME NEW ch, NEW ch2, OneMore(ch, ch2), NEW t, PendingOf(t, ch)
  PROVE  PendingOf(t, ch2)
BY DEF PendingOf, OneMore

\* What finish notes of an InitiateChange.
LEMMA NoteEventFields ==
  ASSUME Inv, NEW event \in Events, event # "none" => ContractOf(exec.n) \in Contracts,
         NEW n, n = exec.n, NEW t, t = NoteEvent(n, event)
  PROVE  /\ n \in Nat /\ InOrder(t, Validators, Contracts)
         /\ t.validators = rf.validators
         /\ t.validators_sealed = rf.validators_sealed
         /\ t.headers = rf.headers
         /\ event = "none" => t = rf
         /\ event # "none" /\ IsPosdao(n) =>
              /\ t.finalize_change_at = rf.finalize_change_at
              /\ DOMAIN t.pending_transitions = DOMAIN rf.pending_transitions \cup {n}
              /\ t.pending_transitions[n] = ContractOf(n)
              /\ \A b \in DOMAIN rf.pending_transitions :
                   b # n => t.pending_transitions[b] = rf.pending_transitions[b]
         /\ event # "none" /\ ~IsPosdao(n) =>
              /\ t.finalize_change_at.at = n + 1
              /\ t.finalize_change_at.address = ContractOf(n)
              /\ t.pending_transitions = rf.pending_transitions
<1>1. n \in Nat /\ n + 1 \in Nat /\ InOrder(rf, Validators, Contracts)
      /\ IsTracker(rf, Validators, Contracts)
  BY DEF Inv, TypeOK, InOrder
<1>2. CASE event = "none"
  BY <1>1, <1>2 DEF NoteEvent
<1>3. CASE event # "none" /\ IsPosdao(n)
  <2>1. t = AddPendingTransition(rf, n, ContractOf(n)) BY <1>3 DEF NoteEvent
  <2>2. InOrder(t, Validators, Contracts)
    BY <1>1, <1>3, <2>1, AddPendingTransitionKeeps
  <2> QED BY <1>1, <1>3, <2>1, <2>2, AddPendingTransitionFields
<1>4. CASE event # "none" /\ ~IsPosdao(n)
  <2>1. t = SetImmediateFinalize(rf, n + 1, ContractOf(n)) BY <1>4 DEF NoteEvent
  <2>2. InOrder(t, Validators, Contracts)
    BY <1>1, <1>4, <2>1, SetImmediateFinalizeKeeps
  <2> QED BY <1>1, <1>4, <2>1, <2>2, SetImmediateFinalizeFields
<1> QED BY <1>2, <1>3, <1>4

\* A transition that finish notes is of the block that it appends.
LEMMA NotedPending ==
  ASSUME Inv, NEW event \in Events, event # "none" => ContractOf(exec.n) \in Contracts,
         NEW n, n = exec.n, IsPreMerge(n), NEW t, t = NoteEvent(n, event),
         NEW ch, NEW ch2, OneMore(ch, ch2), Len(ch2) = n, ch2[n].event = event,
         PendingOf(rf, ch)
  PROVE  PendingOf(t, ch2)
<1>1. PendingOf(rf, ch2) BY PendingLater
<1>2. CASE event # "none" /\ IsPosdao(n)
  <2>1. /\ DOMAIN t.pending_transitions = DOMAIN rf.pending_transitions \cup {n}
        /\ t.pending_transitions[n] = ContractOf(n)
        /\ \A b \in DOMAIN rf.pending_transitions :
             b # n => t.pending_transitions[b] = rf.pending_transitions[b]
    BY <1>2, NoteEventFields
  <2>2. n \in 1..Len(ch2) BY DEF OneMore
  <2> QED BY <1>1, <1>2, <2>1, <2>2 DEF PendingOf
<1>3. CASE ~ (event # "none" /\ IsPosdao(n))
  <2>1. t.pending_transitions = rf.pending_transitions
    BY <1>3, NoteEventFields
  <2> QED BY <1>1, <2>1, SamePending
<1> QED BY <1>2, <1>3

\* finish keeps the window and the pending transitions of executed blocks.
LEMMA FinishKeepsBlocks ==
  ASSUME Inv, NEW signer \in Validators, NEW event \in Events,
         event # "none" => ContractOf(exec.n) \in Contracts,
         NEW n, n = exec.n,
         NEW ch, NEW ch2, OneMore(ch, ch2), Len(ch2) = n,
         ch2[n].event = event, ch2[n].signer = signer,
         WindowOf(rf, ch), PendingOf(rf, ch),
         NEW u, u = AfterFinish(n, event, signer)
  PROVE  WindowOf(u, ch2) /\ PendingOf(u, ch2)
<1> DEFINE t == NoteEvent(n, event)
<1>1. InOrder(t, Validators, Contracts) /\ t.headers = rf.headers
  BY NoteEventFields
<1>2. WindowOf(t, ch) /\ WindowOf(t, ch2) /\ WindowOf(rf, ch2)
  <2> HIDE DEF t
  <2>1. WindowOf(t, ch) BY <1>1, SameWindow
  <2> QED BY <2>1, WindowLater
<1>3. CASE ~IsPreMerge(n)
  <2>1. u = rf BY <1>3 DEF AfterFinish
  <2> QED BY <1>2, <2>1, PendingLater
<1>4. CASE IsPreMerge(n) /\ ~IsPosdao(n)
  <2>1. u = t BY <1>4 DEF AfterFinish
  <2>2. PendingOf(t, ch2) BY <1>4, NotedPending
  <2> QED BY <1>2, <2>1, <2>2
<1>5. CASE IsPreMerge(n) /\ IsPosdao(n)
  <2>1. u = Push(t, n, signer) BY <1>5 DEF AfterFinish
  <2>2. PendingOf(t, ch2) BY <1>5, NotedPending
  <2> HIDE DEF t
  <2> QED BY <1>1, <1>2, <1>5, <2>1, <2>2, PushKeepsChain
<1> QED BY <1>3, <1>4, <1>5

\* finish, with or without an InitiateChange
Finishes(signer, event, store) ==
  LET c == ContractOf(exec.n) IN
  /\ exec.phase = "pre_execution"
  /\ signer \in MaySeal(exec.n)
  /\ Finished(signer, event, store)
  /\ \/ event = "none" /\ store = exec.evm
     \/ /\ event # "none" /\ event \in EventSources /\ c \in Contracts
        /\ exec.n \notin Quiet
        /\ "overlapping" \in Eager \/ ~exec.evm[c].announced
        /\ "at_call" \in Eager \/ exec.finalize = NoAddress
        /\ \E next \in NewSets : store = Announce(exec.evm, c, next)

\* Unless an execution is abandoned there are four kinds of steps.
LEMMA StepCases ==
  ASSUME Inv, ~Abandon, [Next]_vars
  PROVE  \/ ContextForBlock
         \/ ApplyPreExecutionChanges
         \/ \E signer \in Validators, event \in Events, store \in ContractStore :
              Finishes(signer, event, store)
         \/ Commit
         \/ UNCHANGED vars
<1>1. exec.n \in Nat /\ exec.evm \in ContractStore BY DEF Inv, TypeOK
<1>2. ASSUME NEW signer \in Validators, Finish(signer)
      PROVE  Finishes(signer, "none", exec.evm)
  BY <1>2 DEF Finish, Finishes
<1>3. ASSUME NEW signer \in Validators, NEW source \in EventSources, NEW next \in NewSets,
             FinishWithInitiateChange(signer, source, next)
      PROVE  \E event \in Events, store \in ContractStore : Finishes(signer, event, store)
  <2> DEFINE c == ContractOf(exec.n)
             store == Announce(exec.evm, c, next)
  <2>1. source \in Events /\ source # "none" /\ next \in Seq(Validators)
    BY AuraExecutionAssumption DEF Events
  <2>2. c \in Contracts
    <3>1. c \in AddressOrNone BY <1>1, ContractOfType DEF ContractOf
    <3> QED BY <1>3, <3>1 DEF FinishWithInitiateChange, AddressOrNone
  <2>3. store \in ContractStore
    <3> HIDE DEF c
    <3> QED BY <1>1, <2>1, <2>2, StoreTypes
  <2>4. Finishes(signer, source, store)
    <3>1. Finished(signer, source, store) /\ exec.phase = "pre_execution"
          /\ signer \in MaySeal(exec.n) /\ exec.n \notin Quiet
      BY <1>3 DEF FinishWithInitiateChange
    <3>2. /\ "overlapping" \in Eager \/ ~exec.evm[c].announced
          /\ "at_call" \in Eager \/ exec.finalize = NoAddress
      BY <1>3 DEF FinishWithInitiateChange
    <3>3. \E x \in NewSets : store = Announce(exec.evm, c, x) OBVIOUS
    <3> HIDE DEF store
    <3> QED BY <2>1, <2>2, <3>1, <3>2, <3>3 DEF Finishes
  <2> HIDE DEF store
  <2> QED BY <2>1, <2>3, <2>4
<1>4. ~FailPreExecution /\ ~FailExecution /\ ~RejectBlock
  BY DEF FailPreExecution, FailExecution, RejectBlock
<1>5. "none" \in Events BY DEF Events
<1> QED BY <1>1, <1>2, <1>3, <1>4, <1>5 DEF Next

\* The layer holds at first, and each kind of step keeps it.
LEMMA InitBlocks == Init => BlocksInv
<1> SUFFICES ASSUME Init PROVE BlocksInv
  OBVIOUS
<1>1. chain = <<>> /\ exec.phase = "idle" /\ exec.evm = contracts
      /\ rf = New(<<>>)
  BY DEF Init, Idle
<1>2. Executed = <<>> /\ Len(Executed) = 0
  BY <1>1 DEF Executed
<1>3. rf.headers = <<>> /\ DOMAIN rf.pending_transitions = {}
  BY <1>1 DEF New, EmptyMap
<1>4. WindowOf(rf, Executed) BY <1>3, EmptyWindow
<1>5. PendingOf(rf, Executed) BY <1>3 DEF PendingOf
<1> QED BY <1>1, <1>2, <1>4, <1>5 DEF BlocksInv

LEMMA ContextForBlockBlocks ==
  ASSUME Inv, BlocksInv, ContextForBlock
  PROVE  BlocksInv'
<1>1. /\ exec.phase = "idle" /\ exec'.phase = "context"
      /\ exec'.n = head + 1 /\ exec'.evm = contracts
      /\ UNCHANGED <<chain, contracts>>
      /\ Executed = chain /\ Executed' = chain
      /\ rf' = rf \/ rf' = TakeFinalizeChange(rf, head + 1)
  BY ContextEffect
<1>2. WindowOf(rf, chain) /\ PendingOf(rf, chain) BY <1>1 DEF BlocksInv
<1>3. WindowOf(rf', chain) /\ PendingOf(rf', chain)
  <2>1. IsTracker(rf, Validators, Contracts) BY DEF Inv, InOrder
  <2>2. CASE rf' = TakeFinalizeChange(rf, head + 1) /\ rf' # rf
    <3>1. rf'.headers = <<>> /\ rf'.pending_transitions = rf.pending_transitions
      BY <2>1, <2>2, TakeFinalizeChangeFields
    <3> QED BY <1>2, <3>1, EmptyWindow, SamePending
  <2> QED BY <1>1, <1>2, <2>2
<1>4. head' = head BY <1>1 DEF head
<1>5. \A n : ContractOf(n)' = ContractOf(n) BY DEF ContractOf
<1> QED BY <1>1, <1>3, <1>4, <1>5 DEF BlocksInv, GetValidators, ContractOf

LEMMA PreExecutionBlocks ==
  ASSUME Inv, BlocksInv, ApplyPreExecutionChanges
  PROVE  BlocksInv'
<1>1. /\ exec.phase = "context" /\ exec'.phase = "pre_execution"
      /\ exec'.n = exec.n /\ rf' = AfterRefresh
      /\ UNCHANGED <<chain, contracts>>
      /\ Executed = chain /\ Executed' = chain
  BY PreExecutionEffect
<1>2. /\ rf'.pending_transitions = rf.pending_transitions
      /\ rf'.headers = rf.headers \/ rf'.headers = <<>>
  BY <1>1, PreExecutionFields
<1>3. WindowOf(rf, chain) /\ PendingOf(rf, chain) BY <1>1 DEF BlocksInv
<1>4. WindowOf(rf', chain) /\ PendingOf(rf', chain)
  BY <1>2, <1>3, EmptyWindow, SameWindow, SamePending
<1>5. head' = head BY <1>1 DEF head
<1> QED BY <1>1, <1>4, <1>5 DEF BlocksInv, ContractOf

LEMMA FinishBlocks ==
  ASSUME Inv, BlocksInv, NEW signer \in Validators, NEW event \in Events,
         NEW store \in ContractStore, Finishes(signer, event, store)
  PROVE  BlocksInv'
<1> DEFINE n == Len(chain) + 1
<1>1. exec.phase = "pre_execution" /\ Finished(signer, event, store)
      /\ (event # "none" => ContractOf(exec.n) \in Contracts /\ exec.n \notin Quiet)
  BY DEF Finishes
<1>2. /\ exec'.phase = "finished" /\ exec'.n = exec.n /\ exec'.evm = store
      /\ rf' = AfterFinish(exec.n, event, signer)
      /\ UNCHANGED <<chain, contracts>>
      /\ Executed = chain /\ OneMore(chain, Executed')
      /\ Executed'[n].signer = signer /\ Executed'[n].event = event
      /\ Executed'[n].active = IF ContractOf(exec.n) = NoAddress THEN <<>>
                               ELSE GetValidators(store, ContractOf(exec.n))
  BY <1>1, FinishEffect
<1>3. exec.n = n /\ Len(Executed') = n /\ Len(chain) \in Nat
      /\ \A b \in 1..Len(chain) : Executed'[b] = chain[b]
  BY <1>1, <1>2 DEF BlocksInv, head, OneMore
<1>4. WindowOf(rf, chain) /\ PendingOf(rf, chain) BY <1>2 DEF BlocksInv
<1>5. WindowOf(rf', Executed') /\ PendingOf(rf', Executed')
  BY <1>1, <1>2, <1>3, <1>4, FinishKeepsBlocks
<1>6. \A b \in 1..n : Executed'[b].event # "none" => b \notin Quiet /\ ContractOf(b) # NoAddress
  <2>1. \A b \in 1..Len(chain) :
          chain[b].event # "none" => b \notin Quiet /\ ContractOf(b) # NoAddress
    BY <1>2 DEF BlocksInv
  <2>2. event # "none" => n \notin Quiet /\ ContractOf(n) # NoAddress
    BY <1>1, <1>3, AuraExecutionAssumption
  <2>3. \A b \in 1..n : b \in 1..Len(chain) \/ b = n BY <1>3
  <2> QED BY <1>2, <1>3, <2>1, <2>2, <2>3
<1>7. head' = head BY <1>2 DEF head
<1> HIDE DEF n
<1> QED BY <1>2, <1>3, <1>5, <1>6, <1>7 DEF BlocksInv, ContractOf, GetValidators, head, n

LEMMA CommitBlocks ==
  ASSUME Inv, BlocksInv, Commit
  PROVE  BlocksInv'
<1>1. /\ exec.phase = "finished" /\ exec'.phase = "idle"
      /\ exec'.evm = exec.evm /\ contracts' = exec.evm
      /\ Executed' = Executed /\ rf' = rf
  BY CommitEffect
<1> QED BY <1>1 DEF BlocksInv, ContractOf, GetValidators

LEMMA BlocksInvStep ==
  ASSUME Inv, BlocksInv, ~Abandon, [Next]_vars
  PROVE  BlocksInv'
<1>1. CASE UNCHANGED vars
  BY <1>1 DEF vars, BlocksInv, Executed, Block, head, ContractOf, GetValidators
<1> QED BY <1>1, StepCases, ContextForBlockBlocks, PreExecutionBlocks, FinishBlocks,
           CommitBlocks

LEMMA AlwaysBlocks ==
  ASSUME MaxFailures = 0
  PROVE  Spec => [](Inv /\ BlocksInv)
<1>1. Init => Inv /\ BlocksInv
  BY InitInv, InitBlocks
<1>2. (Inv /\ BlocksInv) /\ [Next]_vars => (Inv /\ BlocksInv)'
  BY NextInv, NothingFails, BlocksInvStep
<1> QED BY <1>1, <1>2, PTL DEF Spec

\* The window of unfinalized blocks is in block order and of blocks that were
\* executed (the append-only assumption of RollingFinality), unless an
\* execution failed.
THEOREM WindowStaysRecent == Spec => []WindowIsRecent
<1>1. CASE MaxFailures = 0
  <2>1. Inv /\ BlocksInv => WindowIsRecent
    <3> SUFFICES ASSUME Inv, BlocksInv PROVE WindowIsRecent
      OBVIOUS
    <3>1. Len(chain) \in Nat /\ Len(Executed) = IF exec.phase = "finished" THEN head + 1 ELSE head
      <4>1. chain \in Seq(Blocks) BY DEF Inv, TypeOK, Blocks
      <4> QED BY <4>1 DEF Executed, head
    <3> QED BY <3>1 DEF BlocksInv, WindowOf, WindowIsRecent
  <2> QED BY <1>1, <2>1, AlwaysBlocks, PTL
<1>2. CASE MaxFailures # 0
  <2>1. WindowIsRecent BY <1>2 DEF WindowIsRecent
  <2> QED BY <2>1, PTL
<1> QED BY <1>1, <1>2

(***************************************************************************)
(* Layer 2: what a chain spec like ours gives.                             *)
(***************************************************************************)
\* Block b is in POSDAO, or is the last one: what can still wait after n.
Recent(b, n) == b \in 1..n /\ (IsPosdao(b) \/ b = n)

\* All that can wait waits for the same contract.
LEMMA SameContract ==
  ASSUME OneContract, NEW n \in Nat, IsPreMerge(n),
         NEW a, Recent(a, n), NEW b, Recent(b, n)
  PROVE  ContractOf(a) = ContractOf(b)
<1>1. a \in Nat /\ b \in Nat /\ n \in Nat /\ a <= n /\ b <= n
      /\ PosdaoTransition \in Nat /\ ParisBlock \in Nat
  BY AuraExecutionAssumption DEF Recent
<1>2. IsPreMerge(a) /\ IsPreMerge(b) BY <1>1 DEF IsPreMerge
<1>3. CASE IsPosdao(a) /\ IsPosdao(b)
  BY <1>1, <1>2, <1>3 DEF OneContract
<1>4. CASE ~IsPosdao(a) \/ ~IsPosdao(b)
  <2>1. a = n /\ b = n BY <1>1, <1>4 DEF Recent, IsPosdao
  <2> QED BY <2>1
<1> QED BY <1>3, <1>4

\* A POSDAO block before the merge has the contract in force.
LEMMA PosdaoContract ==
  ASSUME OneContract, NEW n \in Nat, IsPosdao(n), IsPreMerge(n)
  PROVE  ContractOf(n) = ContractOf(PosdaoTransition) /\ ContractOf(n) # NoAddress
BY DEF OneContract

\* An event after which POSDAO begins, or goes on, is of the contract that
\* POSDAO has.
LEMMA ContractGoesOn ==
  ASSUME OneContract, QuietTurns, NEW n \in Nat, IsPreMerge(n + 1), IsPosdao(n + 1),
         NEW b, Recent(b, n), b \notin Quiet
  PROVE  ContractOf(b) = ContractOf(n + 1)
<1>1. b \in Nat /\ b <= n /\ n + 1 \in Nat
      /\ PosdaoTransition \in Nat /\ ParisBlock \in Nat
  BY AuraExecutionAssumption DEF Recent
<1>2. CASE IsPosdao(b)
  <2>1. IsPreMerge(b) BY <1>1 DEF IsPreMerge
  <2> QED BY <1>1, <1>2, <2>1 DEF OneContract
<1>3. CASE ~IsPosdao(b)
  <2>1. b = n /\ n + 1 = PosdaoTransition BY <1>1, <1>3 DEF Recent, IsPosdao
  <2> QED BY <1>1, <2>1 DEF QuietTurns
<1> QED BY <1>2, <1>3

\* Nothing can wait where a list has just given way to a contract.
LEMMA NothingBeforeBoundary ==
  ASSUME OneContract, QuietTurns, NEW n \in Nat, IsPreMerge(n + 1), AtBoundary(n + 1),
         NEW b, Recent(b, n), b \notin Quiet
  PROVE  FALSE
<1>1. b \in Nat /\ b >= 1 /\ b <= n /\ n + 1 \in Nat
      /\ PosdaoTransition \in Nat /\ ParisBlock \in Nat
  BY AuraExecutionAssumption DEF Recent
<1>2. n \in Quiet BY <1>1 DEF QuietTurns
<1>3. b # n /\ IsPosdao(b) BY <1>2 DEF Recent
<1>4. b <= n - 1 /\ n - 1 \in Nat BY <1>1, <1>3
<1>5. IsPosdao(n - 1) /\ IsPreMerge(n - 1)
  BY <1>1, <1>3, <1>4 DEF IsPosdao, IsPreMerge
<1>6. ContractOf(n - 1) # NoAddress BY <1>4, <1>5 DEF OneContract
<1>7. (n + 1) - 2 = n - 1 BY <1>1
<1>8. n + 1 # 0 BY <1>1
<1>9. ContractAddressAt(Sets, (n + 1) - 2) = NoAddress
  BY <1>8 DEF AtBoundary, ComputeFinalizeChangeAddress
<1> QED BY <1>6, <1>7, <1>9 DEF ContractOf

\* The list-to-contract call is of the contract in force.
LEMMA BoundaryCalls ==
  ASSUME NEW n, AtBoundary(n)
  PROVE  ComputeFinalizeChangeAddress(Sets, n) = ContractOf(n)
BY DEF AtBoundary, ComputeFinalizeChangeAddress, ContractOf

\* Without validators there is no window.
LEMMA NobodyNoWindow ==
  ASSUME NEW t, InOrder(t, Validators, Contracts), t.validators = <<>>
  PROVE  t.headers = <<>>
<1>1. Range(t.validators) = {} BY DEF Range
<1>2. DOMAIN t.sign_count = {} BY <1>1 DEF InOrder, SignersKnown
<1>3. DOMAIN t.headers = {} BY <1>2 DEF InOrder, CountsWindow
<1>4. t.headers \in Seq([num : Nat, signer : Validators]) BY DEF InOrder, IsTracker
<1>5. t.headers # <<>> => 1 \in DOMAIN t.headers BY <1>4
<1> QED BY <1>3, <1>5

\* What a justified call answers has not been silent.
LEMMA CauseIsRecent ==
  ASSUME NEW ch, NEW n, NEW b, NEW address, Justifies(ch, b, n, address)
  PROVE  Recent(b, n) /\ ch[b].event # "none" /\ ContractOf(b) = address
BY DEF Justifies, Recent, WaitsIn

\* Nor has what is awaited.
LEMMA AwaitedIsRecent ==
  ASSUME NEW t, NEW ch, Awaited(t, ch), NEW b \in 1..Len(ch), WaitsIn(ch, b, Len(ch))
  PROVE  Recent(b, Len(ch)) /\ ch[b].event # "none"
BY DEF Awaited, Recent, WaitsIn

(***************************************************************************)
(* Layer 2, step by step.                                                  *)
(***************************************************************************)
LEMMA InitLifecycle == Init => LifecycleInv
<1> SUFFICES ASSUME Init PROVE LifecycleInv
  OBVIOUS
<1>1. chain = <<>> /\ exec.phase = "idle" /\ rf = New(<<>>)
  BY DEF Init, Idle
<1>2. Executed = <<>> /\ Len(Executed) = 0
  BY <1>1 DEF Executed
<1>3. rf.headers = <<>> /\ rf.validators = <<>> /\ ~Scheduled(rf)
  BY <1>1 DEF New, NotScheduled, Scheduled
<1>4. NoCallSince(rf, Executed) /\ Covered(rf, Executed) BY <1>3, EmptyWindow
<1>5. Followed(rf, Executed) BY <1>2, <1>3 DEF Followed
<1>6. ScheduleOf(rf, Executed) BY <1>3 DEF ScheduleOf
<1>7. Awaited(rf, Executed) BY <1>2 DEF Awaited
<1> QED BY <1>1, <1>2, <1>4, <1>5, <1>6, <1>7 DEF LifecycleInv, Settled, MidBlock

\* The context of a pre-merge block with a list-to-contract call.
LEMMA BoundaryInMotion ==
  ASSUME OneContract, QuietTurns, Inv, BlocksInv, exec.phase = "idle",
         NEW n, n = head + 1, IsPreMerge(n), AtBoundary(n), Settled(rf, chain)
  PROVE  InMotion(rf, chain, ContractOf(n))
<1>1. Executed = chain /\ Len(chain) \in Nat /\ head = Len(chain)
  BY DEF Executed, Inv, TypeOK, head
<1>2. ASSUME NEW b, Recent(b, Len(chain)), chain[b].event # "none" PROVE FALSE
  <2>1. b \in 1..Len(chain) BY <1>2 DEF Recent
  <2>2. b \notin Quiet BY <1>1, <1>2, <2>1 DEF BlocksInv
  <2> QED BY <1>1, <1>2, <2>2, NothingBeforeBoundary
<1>3. ~Scheduled(rf)
  <2> SUFFICES ASSUME Scheduled(rf) PROVE FALSE
    OBVIOUS
  <2>1. PICK b : Justifies(chain, b, Len(chain), rf.finalize_change_at.address)
    BY DEF Settled, ScheduleOf
  <2> QED BY <1>2, <2>1, CauseIsRecent
<1>4. ASSUME NEW b \in 1..Len(chain), WaitsIn(chain, b, Len(chain)) PROVE FALSE
  BY <1>2, <1>4, AwaitedIsRecent DEF Settled
<1> QED BY <1>3, <1>4 DEF InMotion, Settled

\* The context of a pre-merge block with a call the tracker has scheduled.
LEMMA ScheduledInMotion ==
  ASSUME OneContract, QuietTurns, Inv, BlocksInv, exec.phase = "idle",
         NEW n, n = head + 1, IsPreMerge(n), Settled(rf, chain), Scheduled(rf),
         NEW call, call = rf.finalize_change_at.address,
         NEW u, u = TakeFinalizeChange(rf, n)
  PROVE  InMotion(u, chain, call) /\ Followed(u, chain) /\ CallOf(chain, n, call)
<1>1. Executed = chain /\ Len(chain) \in Nat /\ head = Len(chain)
      /\ IsTracker(rf, Validators, Contracts)
  BY DEF Executed, Inv, TypeOK, head
<1>2. PICK b : Justifies(chain, b, Len(chain), call)
  BY DEF Settled, ScheduleOf
<1>3. Recent(b, Len(chain)) /\ chain[b].event # "none" /\ ContractOf(b) = call
  BY <1>2, CauseIsRecent
<1>4. b \in 1..Len(chain) /\ b \notin Quiet
  <2>1. b \in 1..Len(chain) BY <1>3 DEF Recent
  <2> QED BY <1>1, <1>3, <2>1 DEF BlocksInv
<1>5. rf.finalize_change_at.at = n /\ call # NoAddress
  BY <1>1 DEF Settled, ScheduleOf, Scheduled
<1>6. FinalizeDue(rf, n)
  BY <1>1, <1>5 DEF FinalizeDue
<1>7. /\ u.validators = rf.validators /\ u.validators_sealed = rf.validators_sealed
      /\ ~Scheduled(u) /\ u.headers = <<>>
  BY <1>1, <1>6, TakeFinalizeChangeFields
<1>8. IsPreMerge(Len(chain))
  BY <1>1, AuraExecutionAssumption DEF IsPreMerge
<1>9. ASSUME NEW a \in 1..Len(chain), WaitsIn(chain, a, Len(chain))
      PROVE  ContractOf(a) = call
  <2>1. Recent(a, Len(chain)) BY <1>9, AwaitedIsRecent DEF Settled
  <2> QED BY <1>1, <1>3, <1>8, <2>1, SameContract
<1>10. InMotion(u, chain, call)
  <2>1. NoCallSince(u, chain) /\ Covered(u, chain) BY <1>7, EmptyWindow
  <2> QED BY <1>5, <1>7, <1>9, <2>1 DEF InMotion
<1>11. Followed(u, chain) BY <1>7 DEF Settled, Followed
<1>12. CallOf(chain, n, call)
  <2>1. IsPosdao(n) => call = ContractOf(n)
    BY <1>1, <1>3, <1>4, ContractGoesOn
  <2> QED BY <1>2, <1>4, <2>1 DEF CallOf
<1> QED BY <1>10, <1>11, <1>12

\* The context of a pre-merge block without a call.
LEMMA NothingInMotion ==
  ASSUME Inv, Settled(rf, chain), ~Scheduled(rf)
  PROVE  InMotion(rf, chain, NoAddress)
BY DEF Settled, Awaited, InMotion

LEMMA ContextForBlockLifecycle ==
  ASSUME OneContract, QuietTurns, Inv, BlocksInv, LifecycleInv, ContextForBlock
  PROVE  LifecycleInv'
<1> DEFINE n == head + 1
           call == exec'.finalize
<1>1. /\ exec.phase = "idle" /\ exec'.phase = "context"
      /\ n \in Nat /\ exec'.n = n /\ exec'.evm = contracts
      /\ UNCHANGED <<chain, contracts>>
      /\ Executed = chain /\ Executed' = chain
  BY ContextEffect
<1>2. \/ /\ ~IsPreMerge(n) /\ call = NoAddress /\ rf' = rf
      \/ /\ IsPreMerge(n) /\ AtBoundary(n)
         /\ call = ComputeFinalizeChangeAddress(Sets, n) /\ rf' = rf
      \/ /\ IsPreMerge(n) /\ ~AtBoundary(n)
         /\ call = IF FinalizeDue(rf, n) THEN rf.finalize_change_at.address ELSE NoAddress
         /\ rf' = TakeFinalizeChange(rf, n)
  BY ContextEffect
<1>3. Len(chain) \in Nat /\ head = Len(chain) /\ IsTracker(rf, Validators, Contracts)
  BY DEF Inv, TypeOK, head
<1>4. IsPreMerge(n) => Settled(rf, chain)
  <2>1. IsPreMerge(n) => IsPreMerge(Len(chain))
    BY <1>3, AuraExecutionAssumption DEF IsPreMerge
  <2> QED BY <1>1, <2>1 DEF LifecycleInv, MidBlock
<1>5. /\ CallOf(chain, n, call)
      /\ IsPreMerge(n) => InMotion(rf', chain, call) /\ Followed(rf', chain)
  <2> HIDE DEF n, call
  <2>1. CASE ~IsPreMerge(n) /\ call = NoAddress /\ rf' = rf
    BY <2>1 DEF CallOf
  <2>2. CASE /\ IsPreMerge(n) /\ AtBoundary(n)
             /\ call = ComputeFinalizeChangeAddress(Sets, n) /\ rf' = rf
    <3>1. call = ContractOf(n) BY <2>2, BoundaryCalls
    <3>2. InMotion(rf, chain, call)
      BY <1>1, <1>4, <2>2, <3>1, BoundaryInMotion DEF n
    <3>3. Followed(rf, chain) BY <1>4, <2>2 DEF Settled
    <3> QED BY <2>2, <3>1, <3>2, <3>3 DEF CallOf
  <2>3. CASE /\ IsPreMerge(n) /\ ~AtBoundary(n)
             /\ call = IF FinalizeDue(rf, n) THEN rf.finalize_change_at.address ELSE NoAddress
             /\ rf' = TakeFinalizeChange(rf, n)
    <3>1. CASE Scheduled(rf)
      <4>1. rf.finalize_change_at.at = n
        BY <1>3, <1>4, <2>3, <3>1 DEF Settled, ScheduleOf, n
      <4>2. FinalizeDue(rf, n) BY <1>1, <3>1, <4>1 DEF FinalizeDue, n
      <4> QED BY <1>1, <1>4, <2>3, <3>1, <4>2, ScheduledInMotion DEF n
    <3>2. CASE ~Scheduled(rf)
      <4>1. ~FinalizeDue(rf, n) BY <3>2 DEF FinalizeDue
      <4>2. rf' = rf /\ call = NoAddress
        BY <1>3, <2>3, <4>1, TakeFinalizeChangeFields
      <4>3. InMotion(rf, chain, NoAddress) BY <1>4, <2>3, <3>2, NothingInMotion
      <4>4. Followed(rf, chain) BY <1>4, <2>3 DEF Settled
      <4> QED BY <4>2, <4>3, <4>4 DEF CallOf
    <3> QED BY <3>1, <3>2
  <2> QED BY <1>2, <2>1, <2>2, <2>3 DEF call
<1>6. \A k \in 1..Len(chain) : Justified(chain, k)
  BY <1>1 DEF LifecycleInv
<1>7. MidBlock' /\ exec'.phase = "context" BY <1>1 DEF MidBlock
<1> HIDE DEF n, call
<1> QED BY <1>1, <1>5, <1>6, <1>7 DEF LifecycleInv, call

\* What apply_pre_execution_changes leaves in a POSDAO block.
LEMMA PosdaoPreExecution ==
  ASSUME OneContract, Inv, BlocksInv, exec.phase = "context",
         NEW n, n = exec.n, IsPreMerge(n), IsPosdao(n),
         NEW call, call = exec.finalize, CallOf(chain, n, call),
         InMotion(rf, chain, call), Followed(rf, chain),
         NEW u, u = AfterRefresh
  PROVE  /\ InMotion(u, chain, call)
         /\ u.validators_sealed
         /\ u.validators = GetValidators(EvmAfterFinalizeChange, ContractOf(n))
         /\ call # NoAddress => u.headers = <<>>
<1>1. /\ Executed = chain /\ Len(chain) \in Nat /\ n = Len(chain) + 1 /\ n \in Nat
      /\ InOrder(rf, Validators, Contracts)
      /\ PosdaoTransition \in Nat /\ ParisBlock \in Nat
  BY AuraExecutionAssumption DEF Executed, Inv, TypeOK, BlocksInv, head
<1>2. ContractOf(n) # NoAddress /\ ContractOf(n) = ContractOf(PosdaoTransition)
  BY <1>1, PosdaoContract
<1>3. /\ u.pending_transitions = rf.pending_transitions
      /\ u.finalize_change_at = rf.finalize_change_at
      /\ u.headers = rf.headers \/ u.headers = <<>>
  BY PreExecutionFields
<1>4. ~Scheduled(u) BY <1>3 DEF InMotion, Scheduled
<1>5. CASE call # NoAddress
  <2>1. /\ u.validators_sealed
        /\ u.validators = GetValidators(EvmAfterFinalizeChange, call)
        /\ u.headers = <<>>
    BY <1>5, PreExecutionFields
  <2>2. call = ContractOf(n) BY <1>5 DEF CallOf
  <2>3. NoCallSince(u, chain) /\ Covered(u, chain) BY <2>1, EmptyWindow
  <2>4. InMotion(u, chain, call) BY <1>4, <1>5, <2>3 DEF InMotion
  <2> QED BY <2>1, <2>2, <2>4
<1>6. CASE call = NoAddress /\ NeedsInit(n)
  <2>1. /\ u.validators_sealed
        /\ u.validators = GetValidators(exec.evm, ContractOf(n))
    BY <1>6, PreExecutionFields
  <2>2. EvmAfterFinalizeChange = exec.evm BY <1>6 DEF EvmAfterFinalizeChange
  <2>3. rf.validators = <<>>
    <3>1. Len(rf.validators) = 0 BY <1>6 DEF NeedsInit
    <3>2. rf.validators \in Seq(Validators) BY <1>1 DEF InOrder, IsTracker
    <3> QED BY <3>1, <3>2
  <2>4. rf.headers = <<>> /\ u.headers = <<>> BY <1>1, <1>3, <2>3, NobodyNoWindow
  <2>5. NoCallSince(u, chain) /\ Covered(u, chain) BY <2>4, EmptyWindow
  <2>6. \A b : ~Tracked(rf, b) BY <2>4 DEF Tracked, InWindow
  <2>7. InMotion(u, chain, call) BY <1>4, <1>6, <2>5, <2>6 DEF InMotion
  <2> QED BY <1>6, <2>1, <2>2, <2>7
<1>7. CASE call = NoAddress /\ ~NeedsInit(n)
  <2>1. u = rf BY <1>7, PreExecutionFields
  <2>2. EvmAfterFinalizeChange = exec.evm BY <1>7 DEF EvmAfterFinalizeChange
  <2>3. rf.validators # <<>> BY <1>2, <1>7 DEF NeedsInit
  <2>4. /\ Len(chain) > 0 /\ IsPosdao(Len(chain))
        /\ rf.validators_sealed /\ rf.validators = chain[Len(chain)].active
    BY <2>3 DEF Followed
  <2>5. IsPreMerge(Len(chain)) BY <1>1 DEF IsPreMerge
  <2>6. /\ ContractOf(Len(chain)) = ContractOf(n)
        /\ ContractOf(Len(chain)) # NoAddress
    BY <1>1, <1>2, <2>4, <2>5, PosdaoContract
  <2>7. chain[Len(chain)].active = GetValidators(exec.evm, ContractOf(Len(chain)))
    BY <1>1, <2>4, <2>6 DEF BlocksInv
  <2> QED BY <1>7, <2>1, <2>2, <2>4, <2>6, <2>7
<1> QED BY <1>5, <1>6, <1>7

\* Before POSDAO it leaves the tracker alone.
LEMMA EarlyPreExecution ==
  ASSUME Inv, BlocksInv, exec.phase = "context",
         NEW n, n = exec.n, ~IsPosdao(n), Followed(rf, chain)
  PROVE  AfterRefresh = rf /\ rf.validators = <<>> /\ rf.headers = <<>>
<1>1. /\ Executed = chain /\ Len(chain) \in Nat /\ n = Len(chain) + 1
      /\ InOrder(rf, Validators, Contracts) /\ PosdaoTransition \in Nat
  BY AuraExecutionAssumption DEF Executed, Inv, TypeOK, BlocksInv, head
<1>2. AfterRefresh = rf
  BY PreExecutionFields DEF NeedsInit
<1>3. ~IsPosdao(Len(chain)) BY <1>1 DEF IsPosdao
<1>4. rf.validators = <<>> BY <1>3 DEF Followed
<1> QED BY <1>1, <1>2, <1>4, NobodyNoWindow

LEMMA PreExecutionLifecycle ==
  ASSUME OneContract, Inv, BlocksInv, LifecycleInv, ApplyPreExecutionChanges
  PROVE  LifecycleInv'
<1> DEFINE n == exec.n
           call == exec.finalize
<1>1. /\ exec.phase = "context" /\ exec'.phase = "pre_execution"
      /\ exec'.n = n /\ exec'.finalize = call
      /\ exec'.evm = EvmAfterFinalizeChange /\ rf' = AfterRefresh
      /\ UNCHANGED <<chain, contracts>>
      /\ Executed = chain /\ Executed' = chain
  BY PreExecutionEffect
<1>2. MidBlock /\ MidBlock' BY <1>1 DEF MidBlock
<1>3. /\ \A k \in 1..Len(chain) : Justified(chain, k)
      /\ CallOf(chain, n, call)
      /\ IsPreMerge(n) => InMotion(rf, chain, call) /\ Followed(rf, chain)
  BY <1>1, <1>2 DEF LifecycleInv
<1>4. IsPreMerge(n) =>
        /\ InMotion(rf', chain, call)
        /\ IF IsPosdao(n)
           THEN /\ rf'.validators_sealed
                /\ rf'.validators = GetValidators(EvmAfterFinalizeChange, ContractOf(n))
           ELSE rf'.validators = <<>>
        /\ call # NoAddress => rf'.headers = <<>>
  <2> SUFFICES ASSUME IsPreMerge(n)
               PROVE  /\ InMotion(rf', chain, call)
                      /\ IF IsPosdao(n)
                         THEN /\ rf'.validators_sealed
                              /\ rf'.validators = GetValidators(EvmAfterFinalizeChange, ContractOf(n))
                         ELSE rf'.validators = <<>>
                      /\ call # NoAddress => rf'.headers = <<>>
    OBVIOUS
  <2> HIDE DEF n, call
  <2>1. CASE IsPosdao(n)
    BY <1>1, <1>3, <2>1, PosdaoPreExecution DEF n, call
  <2>2. CASE ~IsPosdao(n)
    BY <1>1, <1>3, <2>2, EarlyPreExecution DEF n, call
  <2> QED BY <2>1, <2>2
<1>5. \A s, c : GetValidators(s, c)' = GetValidators(s, c)
  BY DEF GetValidators
<1> HIDE DEF n, call
<1> QED BY <1>1, <1>2, <1>3, <1>4, <1>5 DEF LifecycleInv, GetValidators, ContractOf

\* A block that finishes, and the call it made, in the words of the chain.
Executes(ch, ch2, n, call, event) ==
  /\ OneMore(ch, ch2) /\ Len(ch2) = n /\ n \in Nat /\ n = Len(ch) + 1
  /\ ch2[n].called = call /\ ch2[n].event = event

\* What waits after a block either waited before it or is of the block.
LEMMA StillWaits ==
  ASSUME NEW t, NEW ch, NEW ch2, NEW n, NEW call, NEW event,
         Executes(ch, ch2, n, call, event), InMotion(t, ch, call),
         NEW b \in 1..n, WaitsIn(ch2, b, n)
  PROVE  \/ b = n /\ event # "none"
         \/ /\ b \in 1..Len(ch) /\ IsPosdao(b)
            /\ call = NoAddress
            /\ SealedIn(ch2, b) => Tracked(t, b)
<1>1. CASE b = n
  BY <1>1 DEF Executes, WaitsIn
<1>2. CASE b # n
  <2>1. b \in 1..Len(ch) /\ Len(ch) \in 1..Len(ch) BY <1>2 DEF Executes
  <2>2. WaitsIn(ch, b, Len(ch)) /\ call # ContractOf(b)
    BY <2>1, WaitsOn DEF Executes
  <2>3. call = NoAddress /\ IsPosdao(b) /\ (SealedIn(ch, b) => Tracked(t, b))
    BY <2>1, <2>2 DEF InMotion
  <2>4. b \in 1..Len(ch) => (SealedIn(ch2, b) <=> SealedIn(ch, b))
    BY <2>1, SameHistory DEF Executes
  <2> QED BY <2>1, <2>3, <2>4
<1> QED BY <1>1, <1>2

\* Before POSDAO an InitiateChange is scheduled for the next block.
LEMMA EarlyFinish ==
  ASSUME Inv, NEW n, n = exec.n, ~IsPosdao(n),
         NEW event \in Events, event # "none" => ContractOf(n) \in Contracts,
         NEW call, NEW ch, NEW ch2, Executes(ch, ch2, n, call, event),
         InMotion(rf, ch, call), rf.validators = <<>>, rf.headers = <<>>,
         NEW u, u = NoteEvent(n, event), PendingOf(u, ch2)
  PROVE  Settled(u, ch2)
<1>0. PosdaoTransition \in Nat BY AuraExecutionAssumption
<1>1. /\ u.validators = <<>> /\ u.headers = <<>>
      /\ event = "none" => u = rf
      /\ event # "none" => /\ u.finalize_change_at.at = n + 1
                           /\ u.finalize_change_at.address = ContractOf(n)
  BY NoteEventFields
<1>2. Followed(u, ch2) BY <1>1 DEF Followed, Executes
<1>3. NoCallSince(u, ch2) /\ Covered(u, ch2) BY <1>1, EmptyWindow
<1>4. event # "none" <=> Scheduled(u)
  BY <1>1, AuraExecutionAssumption DEF Scheduled, InMotion
<1>5. ScheduleOf(u, ch2)
  <2> SUFFICES ASSUME Scheduled(u)
               PROVE  /\ u.finalize_change_at.at = n + 1
                      /\ n \in 1..n
                      /\ Justifies(ch2, n, n, u.finalize_change_at.address)
                      /\ n \notin DOMAIN u.pending_transitions
    BY DEF ScheduleOf, Executes
  <2>1. n \in 1..n BY DEF Executes
  <2>2. WaitsIn(ch2, n, n) BY <1>4, WaitsOn DEF Executes
  <2>3. n \notin DOMAIN u.pending_transitions BY DEF PendingOf
  <2>4. /\ u.finalize_change_at.at = n + 1
        /\ u.finalize_change_at.address = ContractOf(n)
    BY <1>1, <1>4
  <2> QED BY <2>1, <2>2, <2>3, <2>4 DEF Justifies
<1>6. Awaited(u, ch2)
  <2> SUFFICES ASSUME NEW b \in 1..n, WaitsIn(ch2, b, n)
               PROVE  ~IsPosdao(b) /\ b = n /\ Scheduled(u)
    BY DEF Awaited, Executes
  <2>1. \/ b = n /\ event # "none"
        \/ b \in 1..Len(ch) /\ IsPosdao(b)
    BY StillWaits
  <2>2. ~IsPosdao(b) BY <1>0 DEF IsPosdao, Executes
  <2> QED BY <1>4, <2>1, <2>2
<1> QED BY <1>2, <1>3, <1>5, <1>6 DEF Settled

\* No block of the window is answered by the block that finishes.
LEMMA WindowUnanswered ==
  ASSUME OneContract, NEW ch, NEW ch2, NEW n, NEW call, NEW event,
         Executes(ch, ch2, n, call, event), IsPreMerge(n),
         NEW t, WindowOf(t, ch), NoCallSince(t, ch),
         call # NoAddress => t.headers = <<>>
  PROVE  NoCallSince(t, ch2)
<1>1. CASE call # NoAddress
  BY <1>1, EmptyWindow
<1>2. CASE call = NoAddress
  <2> SUFFICES ASSUME NEW i \in DOMAIN t.headers, NEW m \in (t.headers[i].num + 1)..n
               PROVE  ch2[m].called # ContractOf(t.headers[i].num)
    BY DEF NoCallSince, Executes
  <2>0. PICK b : b = t.headers[i].num OBVIOUS
  <2>1. b \in 1..Len(ch) /\ IsPosdao(b) BY <2>0 DEF WindowOf
  <2>2. IsPreMerge(b) /\ b \in Nat
    BY <2>1, AuraExecutionAssumption DEF Executes, IsPreMerge
  <2>3. ContractOf(b) # NoAddress BY <2>1, <2>2, PosdaoContract
  <2>4. CASE m = n BY <1>2, <2>0, <2>3, <2>4 DEF Executes
  <2>5. CASE m # n
    <3>1. m \in (b+1)..Len(ch) /\ m \in 1..Len(ch) BY <2>0, <2>1, <2>5 DEF Executes
    <3>2. ch[m].called # ContractOf(b) BY <2>0, <3>1 DEF NoCallSince
    <3>3. ch2[m] = ch[m] BY <3>1 DEF Executes, OneMore
    <3> QED BY <2>0, <3>2, <3>3
  <2> QED BY <2>4, <2>5
<1> QED BY <1>1, <1>2

\* the tracker counts against this set
Counts(t, set) == t.validators_sealed /\ t.validators = set

\* In POSDAO push schedules what a majority has sealed and keeps the rest.
LEMMA PosdaoFinish ==
  ASSUME OneContract, Inv, NEW n, n = exec.n, IsPosdao(n), IsPreMerge(n),
         NEW event \in Events, event # "none" => ContractOf(n) \in Contracts,
         NEW call, NEW ch, NEW ch2, Executes(ch, ch2, n, call, event),
         InMotion(rf, ch, call), call # NoAddress => rf.headers = <<>>,
         WindowOf(rf, ch), PendingOf(rf, ch),
         NEW signer \in Validators, ch2[n].signer = signer,
         Counts(rf, ch2[n].active),
         NEW t, t = NoteEvent(n, event), NEW u, u = Push(t, n, signer)
  PROVE  Settled(u, ch2)
<1>1. /\ n \in Nat /\ InOrder(t, Validators, Contracts)
      /\ t.validators = rf.validators
      /\ t.validators_sealed = rf.validators_sealed
      /\ t.headers = rf.headers
  BY NoteEventFields
<1>2. /\ t.finalize_change_at = rf.finalize_change_at
      /\ event = "none" => DOMAIN t.pending_transitions = DOMAIN rf.pending_transitions
      /\ event # "none" =>
           DOMAIN t.pending_transitions = DOMAIN rf.pending_transitions \cup {n}
  <2>1. CASE event = "none"
    BY <2>1, NoteEventFields
  <2>2. CASE event # "none" /\ IsPosdao(n)
    BY <2>2, NoteEventFields
  <2> QED BY <2>1, <2>2
<1>3. PendingOf(t, ch2) BY NotedPending DEF Executes
<1>4. WindowOf(t, ch) /\ NoCallSince(t, ch) /\ Covered(t, ch)
      /\ \A b : InWindow(t, b) <=> InWindow(rf, b)
  BY <1>1, SameWindow DEF InMotion
<1>5. OneMore(ch, ch2) /\ n = Len(ch2) BY DEF Executes
<1>6. /\ u.validators_sealed /\ u.validators = rf.validators
      /\ Covered(u, ch2)
      /\ NoCallSince(t, ch2) => NoCallSince(u, ch2)
      /\ StaysOrLeaves(t, u, n, signer)
      /\ SchedulesFor(t, u, ch2, n)
  <2>1. IsPosdao(Len(ch2)) /\ ch2[Len(ch2)].signer = signer BY <1>5
  <2>2. /\ t.validators_sealed => u.validators = t.validators
        /\ u.validators_sealed = t.validators_sealed
        /\ u.validators = t.validators /\ Covered(t, ch) => Covered(u, ch2)
        /\ NoCallSince(t, ch2) => NoCallSince(u, ch2)
        /\ StaysOrLeaves(t, u, n, signer)
        /\ SchedulesFor(t, u, ch2, n)
    BY <1>1, <1>3, <1>4, <1>5, <2>1, PushKeepsChain
  <2>3. rf.validators_sealed BY DEF Counts
  <2> QED BY <1>1, <1>4, <2>2, <2>3, Zenon
<1>7. NoCallSince(t, ch2) BY <1>1, <1>4, WindowUnanswered
<1>0. rf.validators = ch2[n].active BY DEF Counts
<1>8. Followed(u, ch2)
  <2>1. Len(ch2) > 0 BY <1>5 DEF Executes
  <2> QED BY <1>0, <1>5, <1>6, <2>1 DEF Followed
<1>9. ScheduleOf(u, ch2)
  <2> SUFFICES ASSUME Scheduled(u)
               PROVE  /\ u.finalize_change_at.at = n + 1
                      /\ \E b \in 1..n :
                           /\ Justifies(ch2, b, n, u.finalize_change_at.address)
                           /\ b \notin DOMAIN u.pending_transitions
    BY <1>5 DEF ScheduleOf
  <2>1. u.finalize_change_at # t.finalize_change_at
    BY <1>2 DEF InMotion, Scheduled
  <2>2. /\ u.finalize_change_at.at = n + 1
        /\ \E b \in DOMAIN t.pending_transitions :
             /\ u.finalize_change_at.address = t.pending_transitions[b]
             /\ b \notin DOMAIN u.pending_transitions
             /\ InWindow(t, b) \/ b = n
             /\ Cardinality(SealersIn(ch2, b, n) \cap Range(u.validators)) * 2
                  > Len(u.validators)
    BY <1>6, <2>1 DEF SchedulesFor
  <2>3. PICK b \in DOMAIN t.pending_transitions :
             /\ u.finalize_change_at.address = t.pending_transitions[b]
             /\ b \notin DOMAIN u.pending_transitions
             /\ InWindow(t, b) \/ b = n
             /\ Cardinality(SealersIn(ch2, b, n) \cap Range(u.validators)) * 2
                  > Len(u.validators)
    BY <2>2
  <2>4. /\ b \in 1..n /\ IsPosdao(b) /\ ch2[b].event # "none"
        /\ u.finalize_change_at.address = ContractOf(b)
    BY <1>3, <1>5, <2>3 DEF PendingOf
  <2>5. MajorityIn(ch2, b, n) BY <1>0, <1>6, <2>3 DEF MajorityIn
  <2>6. WaitsIn(ch2, b, n)
    <3>1. CASE b = n BY <1>5, <2>4, <3>1, WaitsOn
    <3>2. CASE InWindow(t, b)
      <4>1. \A m \in (b+1)..n : ch2[m].called # ContractOf(b)
        BY <1>5, <1>7, <3>2 DEF InWindow, NoCallSince
      <4> QED BY <2>4, <4>1 DEF WaitsIn
    <3> QED BY <2>3, <3>1, <3>2
  <2>7. Justifies(ch2, b, n, u.finalize_change_at.address)
    BY <2>4, <2>5, <2>6 DEF Justifies
  <2> QED BY <2>2, <2>3, <2>4, <2>7
<1>10. Awaited(u, ch2)
  <2> SUFFICES ASSUME NEW b \in 1..n, WaitsIn(ch2, b, n)
               PROVE  IsPosdao(b) /\ (SealedIn(ch2, b) => Scheduled(u) \/ Tracked(u, b))
    BY <1>5 DEF Awaited
  <2>1. CASE b = n /\ event # "none"
    <3>1. b \in DOMAIN t.pending_transitions BY <1>2, <2>1
    <3>2. SealedIn(ch2, b) => signer \in Range(u.validators)
      BY <1>0, <1>6, <2>1 DEF SealedIn
    <3> QED BY <1>6, <2>1, <3>1, <3>2 DEF StaysOrLeaves
  <2>2. CASE IsPosdao(b) /\ (SealedIn(ch2, b) => Tracked(rf, b))
    <3>1. Tracked(rf, b) => Tracked(t, b) BY <1>2, <1>4 DEF Tracked
    <3>2. Tracked(t, b) => Tracked(u, b) \/ Scheduled(u)
      BY <1>6 DEF StaysOrLeaves, Tracked
    <3> QED BY <2>2, <3>1, <3>2
  <2> QED BY <2>1, <2>2, StillWaits
<1> QED BY <1>6, <1>7, <1>8, <1>9, <1>10 DEF Settled

\* The call of the block that finishes has its cause in the blocks before it.
LEMMA FinishJustified ==
  ASSUME NEW ch, NEW ch2, NEW n, NEW call, NEW event,
         Executes(ch, ch2, n, call, event), CallOf(ch, n, call),
         \A k \in 1..Len(ch) : Justified(ch, k)
  PROVE  \A k \in 1..n : Justified(ch2, k)
<1> SUFFICES ASSUME NEW k \in 1..n, ch2[k].called # NoAddress, ~AtBoundary(k)
             PROVE  \E b \in 1..(k-1) : Justifies(ch2, b, k - 1, ch2[k].called)
  BY DEF Justified
<1>1. ASSUME NEW b, Justifies(ch, b, k - 1, ch2[k].called)
      PROVE  b \in 1..(k-1) /\ Justifies(ch2, b, k - 1, ch2[k].called)
  <2>1. b \in 1..(k-1) BY <1>1 DEF Justifies
  <2>2. k - 1 \in 1..Len(ch) BY <2>1 DEF Executes
  <2> QED BY <1>1, <2>1, <2>2, SameHistory DEF Executes
<1>2. CASE k = n
  <2>1. k - 1 = Len(ch) /\ ch2[k].called = call BY <1>2 DEF Executes
  <2>2. PICK b \in 1..Len(ch) : Justifies(ch, b, Len(ch), call)
    BY <1>2, <2>1 DEF CallOf
  <2> QED BY <1>1, <2>1, <2>2
<1>3. CASE k # n
  <2>1. k \in 1..Len(ch) /\ ch2[k] = ch[k] BY <1>3 DEF Executes, OneMore
  <2>2. PICK b \in 1..(k-1) : Justifies(ch, b, k - 1, ch[k].called)
    BY <2>1 DEF Justified
  <2> QED BY <1>1, <2>1, <2>2
<1> QED BY <1>2, <1>3

\* What a block finishes with.
LEMMA FinishFacts ==
  ASSUME OneContract, Inv, BlocksInv, LifecycleInv, NEW signer \in Validators,
         NEW event \in Events, NEW store \in ContractStore,
         Finishes(signer, event, store),
         NEW n, n = exec.n, NEW call, call = exec.finalize, NEW ch2, ch2 = Executed'
  PROVE  /\ exec.phase = "pre_execution" /\ MidBlock
         /\ exec'.phase = "finished" /\ ~MidBlock' /\ exec'.evm = store
         /\ event # "none" => ContractOf(n) \in Contracts
         /\ rf' = AfterFinish(n, event, signer)
         /\ UNCHANGED <<chain, contracts>>
         /\ Executed = chain
         /\ Executes(chain, ch2, n, call, event) /\ ch2[n].signer = signer
         /\ WindowOf(rf, chain) /\ PendingOf(rf, chain)
         /\ WindowOf(rf', ch2) /\ PendingOf(rf', ch2)
         /\ CallOf(chain, n, call)
         /\ IsPreMerge(n) =>
              /\ InMotion(rf, chain, call)
              /\ ~IsPosdao(n) => rf.validators = <<>>
              /\ IsPosdao(n) => Counts(rf, ch2[n].active)
              /\ call # NoAddress => rf.headers = <<>>
<1>1. exec.phase = "pre_execution" /\ Finished(signer, event, store)
      /\ (event # "none" => ContractOf(exec.n) \in Contracts)
  BY DEF Finishes
<1>3. n = Len(chain) + 1 /\ Len(chain) \in Nat /\ n \in Nat
  BY <1>1 DEF BlocksInv, head, Inv, TypeOK
<1>4. /\ exec'.phase = "finished" /\ exec'.evm = store
      /\ rf' = AfterFinish(n, event, signer)
      /\ UNCHANGED <<chain, contracts>>
      /\ Executed = chain /\ OneMore(chain, ch2)
      /\ ch2[n].signer = signer /\ ch2[n].event = event /\ ch2[n].called = call
      /\ ch2[n].active = IF ContractOf(n) = NoAddress THEN <<>>
                         ELSE GetValidators(store, ContractOf(n))
  BY <1>1, <1>3, FinishEffect
<1>5. Executes(chain, ch2, n, call, event)
  BY <1>3, <1>4 DEF Executes, OneMore
<1>6. MidBlock /\ ~MidBlock' BY <1>1, <1>4 DEF MidBlock
<1>7. /\ CallOf(chain, n, call)
      /\ IsPreMerge(n) =>
           /\ InMotion(rf, chain, call)
           /\ IF IsPosdao(n)
              THEN Counts(rf, GetValidators(exec.evm, ContractOf(n)))
              ELSE rf.validators = <<>>
           /\ call # NoAddress => rf.headers = <<>>
  BY <1>1, <1>4, <1>6 DEF LifecycleInv, Counts
<1>8. WindowOf(rf, chain) /\ PendingOf(rf, chain) BY <1>4 DEF BlocksInv
<1>9. WindowOf(rf', ch2) /\ PendingOf(rf', ch2)
  BY <1>1, <1>4, <1>5, <1>8, FinishKeepsBlocks DEF Executes
<1>10. ASSUME IsPreMerge(n), IsPosdao(n) PROVE Counts(rf, ch2[n].active)
  <2>1. ContractOf(n) # NoAddress BY <1>3, <1>10, PosdaoContract
  <2>2. GetValidators(store, ContractOf(n)) = GetValidators(exec.evm, ContractOf(n))
    <3>1. store = exec.evm
          \/ \E next : store = Announce(exec.evm, ContractOf(n), next)
      BY DEF Finishes
    <3>2. exec.evm \in ContractStore BY DEF Inv, TypeOK
    <3>3. ContractOf(n) \in Contracts
      BY <1>3, <2>1, ContractOfType DEF ContractOf, AddressOrNone
    <3>4. PICK c : c = ContractOf(n) OBVIOUS
    <3>5. \A next : GetValidators(Announce(exec.evm, c, next), c) = GetValidators(exec.evm, c)
      BY <3>2, <3>3, <3>4 DEF GetValidators, Announce, ContractStore
    <3> QED BY <3>1, <3>4, <3>5
  <2> QED BY <1>4, <1>7, <1>10, <2>1, <2>2
<1> QED BY <1>1, <1>4, <1>5, <1>6, <1>7, <1>8, <1>9, <1>10

LEMMA FinishLifecycle ==
  ASSUME OneContract, Inv, BlocksInv, LifecycleInv, NEW signer \in Validators,
         NEW event \in Events, NEW store \in ContractStore,
         Finishes(signer, event, store)
  PROVE  LifecycleInv'
<1>1. PICK n, call, ch2 : n = exec.n /\ call = exec.finalize /\ ch2 = Executed'
  OBVIOUS
<1>2. /\ MidBlock /\ ~MidBlock' /\ exec'.phase = "finished"
      /\ event # "none" => ContractOf(n) \in Contracts
      /\ rf' = AfterFinish(n, event, signer)
      /\ Executed = chain
      /\ Executes(chain, ch2, n, call, event) /\ ch2[n].signer = signer
      /\ WindowOf(rf, chain) /\ PendingOf(rf, chain)
      /\ PendingOf(rf', ch2)
      /\ CallOf(chain, n, call)
      /\ IsPreMerge(n) =>
           /\ InMotion(rf, chain, call)
           /\ ~IsPosdao(n) => rf.validators = <<>>
           /\ IsPosdao(n) => Counts(rf, ch2[n].active)
           /\ call # NoAddress => rf.headers = <<>>
  BY <1>1, FinishFacts
<1>3. \A k \in 1..n : Justified(ch2, k)
  BY <1>2, FinishJustified DEF LifecycleInv
<1>4. ASSUME IsPreMerge(n) PROVE Settled(rf', ch2)
  <2>1. CASE ~IsPosdao(n)
    <3>1. rf' = NoteEvent(n, event) BY <1>2, <1>4, <2>1 DEF AfterFinish
    <3>2. rf.validators = <<>> BY <1>2, <1>4, <2>1
    <3>3. rf.headers = <<>> BY <3>2, NobodyNoWindow DEF Inv
    <3> QED BY <1>1, <1>2, <1>4, <2>1, <3>1, <3>2, <3>3, EarlyFinish
  <2>2. CASE IsPosdao(n)
    <3>1. rf' = Push(NoteEvent(n, event), n, signer) BY <1>2, <1>4, <2>2 DEF AfterFinish
    <3> QED BY <1>1, <1>2, <1>4, <2>2, <3>1, PosdaoFinish
  <2> QED BY <2>1, <2>2
<1>5. Len(ch2) = n BY <1>2 DEF Executes
<1> QED BY <1>1, <1>2, <1>3, <1>4, <1>5 DEF LifecycleInv

LEMMA CommitLifecycle ==
  ASSUME Inv, LifecycleInv, Commit
  PROVE  LifecycleInv'
<1>1. exec.phase = "finished" /\ exec'.phase = "idle"
      /\ Executed' = Executed /\ rf' = rf
  BY CommitEffect
<1>2. ~MidBlock /\ ~MidBlock' BY <1>1 DEF MidBlock
<1> QED BY <1>1, <1>2 DEF LifecycleInv

LEMMA LifecycleInvStep ==
  ASSUME OneContract, QuietTurns, ~Abandon,
         Inv, BlocksInv, LifecycleInv, [Next]_vars
  PROVE  LifecycleInv'
<1>1. CASE UNCHANGED vars
  <2>1. UNCHANGED <<chain, exec, rf>> BY <1>1 DEF vars
  <2>2. Executed' = Executed /\ MidBlock' = MidBlock
    BY <2>1 DEF Executed, Block, MidBlock, ContractOf, GetValidators
  <2> QED BY <2>1, <2>2 DEF LifecycleInv
<1> QED BY <1>1, StepCases, ContextForBlockLifecycle, PreExecutionLifecycle,
           FinishLifecycle, CommitLifecycle

LEMMA AlwaysLifecycle ==
  ASSUME MaxFailures = 0, OneContract, QuietTurns
  PROVE  Spec => [](Inv /\ BlocksInv /\ LifecycleInv)
<1>1. Init => Inv /\ BlocksInv /\ LifecycleInv
  BY InitInv, InitBlocks, InitLifecycle
<1>2. (Inv /\ BlocksInv /\ LifecycleInv) /\ [Next]_vars => (Inv /\ BlocksInv /\ LifecycleInv)'
  BY NextInv, NothingFails, BlocksInvStep, LifecycleInvStep
<1> QED BY <1>1, <1>2, PTL DEF Spec

(***************************************************************************)
(* What the layer says of the committed chain.                             *)
(***************************************************************************)
\* The committed chain and what the properties say about it.
LEMMA CommittedChain ==
  ASSUME Inv
  PROVE  /\ head = Len(chain) /\ head \in Nat /\ chain \in Seq(Blocks)
         /\ \A b, n : /\ Waits(b, n) <=> WaitsIn(chain, b, n)
                      /\ MajoritySince(b, n) <=> MajorityIn(chain, b, n)
                      /\ Sealers(b, n) = SealersIn(chain, b, n)
         /\ \A b : SealedByMember(b) <=> SealedIn(chain, b)
         /\ exec.phase = "idle" => Executed = chain
         /\ exec.phase = "finished" => OneMore(chain, Executed)
<1>1. head = Len(chain) /\ head \in Nat /\ chain \in Seq(Blocks)
  BY DEF Inv, TypeOK, Blocks, head
<1>2. \A b, n : Sealers(b, n) = SealersIn(chain, b, n)
  BY DEF Sealers, SealersIn
<1>3. \A b, n : MajoritySince(b, n) <=> MajorityIn(chain, b, n)
  BY <1>2 DEF MajoritySince, MajorityIn
<1>4. \A b, n : Waits(b, n) <=> WaitsIn(chain, b, n)
  BY DEF Waits, WaitsIn
<1>5. \A b : SealedByMember(b) <=> SealedIn(chain, b)
  BY DEF SealedByMember, SealedIn
<1>6. exec.phase = "idle" => Executed = chain
  BY DEF Executed
<1>7. exec.phase = "finished" => OneMore(chain, Executed)
  BY <1>1, BlockType, AppendIsOneMore DEF Executed, Blocks
<1> QED BY <1>1, <1>2, <1>3, <1>4, <1>5, <1>6, <1>7

\* Every committed call has its cause, whatever is being executed.
LEMMA CommittedJustified ==
  ASSUME Inv, LifecycleInv, NEW n \in 1..head
  PROVE  Justified(chain, n)
<1>1. head = Len(chain) /\ head \in Nat BY CommittedChain
<1>2. CASE exec.phase # "finished"
  <2>1. Executed = chain BY <1>2 DEF Executed
  <2> QED BY <1>1, <2>1 DEF LifecycleInv
<1>3. CASE exec.phase = "finished"
  <2>1. OneMore(chain, Executed) BY <1>3, CommittedChain
  <2>2. n \in 1..Len(Executed) /\ Executed[n] = chain[n] BY <1>1, <2>1 DEF OneMore
  <2>3. Justified(Executed, n) BY <2>2 DEF LifecycleInv
  <2> SUFFICES ASSUME chain[n].called # NoAddress, ~AtBoundary(n)
               PROVE  \E b \in 1..(n-1) : Justifies(chain, b, n - 1, chain[n].called)
    BY DEF Justified
  <2>4. PICK b \in 1..(n-1) : Justifies(Executed, b, n - 1, chain[n].called)
    BY <2>2, <2>3 DEF Justified
  <2>5. n - 1 \in 1..Len(chain) /\ b \in 1..(n-1) BY <1>1, <2>4
  <2> QED BY <2>1, <2>4, <2>5, SameHistory
<1> QED BY <1>2, <1>3

\* No finalizeChange is early or without cause: what take_finalize_change
\* hands to a block was scheduled for an announcement that a majority has
\* sealed over, or, before POSDAO, by the block just before.
THEOREM CallsHaveTheirCause ==
  ASSUME MaxFailures = 0, OneContract, QuietTurns
  PROVE  Spec => []CallsAreJustified
<1>1. Inv /\ LifecycleInv => CallsAreJustified
  <2> SUFFICES ASSUME Inv, LifecycleInv, NEW n \in 1..head,
                      chain[n].called # NoAddress, ~AtBoundary(n)
               PROVE  \E b \in 1..(n-1) :
                        /\ Waits(b, n - 1)
                        /\ ContractOf(b) = chain[n].called
                        /\ IF IsPosdao(b) THEN MajoritySince(b, n - 1) ELSE n = b + 1
    BY DEF CallsAreJustified
  <2>1. PICK b \in 1..(n-1) : Justifies(chain, b, n - 1, chain[n].called)
    BY CommittedJustified DEF Justified
  <2>2. n \in Nat /\ b \in Nat BY CommittedChain
  <2>3. /\ WaitsIn(chain, b, n - 1)
        /\ ContractOf(b) = chain[n].called
        /\ IF IsPosdao(b) THEN MajorityIn(chain, b, n - 1) ELSE n - 1 = b
    BY <2>1 DEF Justifies
  <2>4. n - 1 = b => n = b + 1 BY <2>2
  <2> QED BY <2>3, <2>4, CommittedChain
<1> QED BY <1>1, AlwaysLifecycle, PTL

\* Between two POSDAO blocks the tracker counts against the contract's set.
THEOREM TrackerFollows ==
  ASSUME MaxFailures = 0, OneContract, QuietTurns
  PROVE  Spec => []TrackerFollowsContract
<1>1. Inv /\ BlocksInv /\ LifecycleInv => TrackerFollowsContract
  <2> SUFFICES ASSUME Inv, BlocksInv, LifecycleInv,
                      exec.phase = "idle", head > 0, IsPreMerge(head), IsPosdao(head),
                      ContractOf(head) # NoAddress
               PROVE  /\ rf.validators_sealed
                      /\ rf.validators = GetValidators(contracts, ContractOf(head))
    BY DEF TrackerFollowsContract
  <2>1. Executed = chain /\ head = Len(chain) BY CommittedChain
  <2>2. Followed(rf, chain) BY <2>1 DEF LifecycleInv, MidBlock, Settled
  <2>3. rf.validators_sealed /\ rf.validators = chain[head].active
    BY <2>1, <2>2 DEF Followed
  <2>4. chain[head].active = GetValidators(contracts, ContractOf(head))
    BY <2>1 DEF BlocksInv
  <2> QED BY <2>3, <2>4
<1> QED BY <1>1, AlwaysLifecycle, PTL

\* A window that has every block of the set since b shows b's majority.
LEMMA NoMajorityWaits ==
  ASSUME NEW ch \in Seq(Blocks), NEW n, n = Len(ch),
         NEW t, InOrder(t, Validators, Contracts), WindowOf(t, ch), Covered(t, ch),
         t.validators = ch[n].active, NEW b, InWindow(t, b)
  PROVE  ~MajorityIn(ch, b, n)
<1> DEFINE T == DOMAIN t.sign_count
           S == SealersIn(ch, b, n) \cap Range(t.validators)
<1>1. PICK i \in DOMAIN t.headers : t.headers[i].num = b
  BY DEF InWindow
<1>2. S \subseteq T
  <2> SUFFICES ASSUME NEW m \in b..n, ch[m].signer \in Range(t.validators)
               PROVE  ch[m].signer \in T
    BY DEF SealersIn
  <2>1. InWindow(t, m) BY <1>1 DEF Covered
  <2>2. PICK j \in DOMAIN t.headers : t.headers[j].num = m BY <2>1 DEF InWindow
  <2>3. t.headers[j].signer = ch[m].signer BY <2>2 DEF WindowOf
  <2> QED BY <2>2, <2>3 DEF InOrder, CountsWindow
<1>3. IsFiniteSet(T) /\ Len(t.validators) \in Nat
  <2>1. t.validators \in Seq(Validators) BY DEF InOrder, IsTracker
  <2>2. IsFiniteSet(Range(t.validators)) BY <2>1, RangeFinite
  <2>3. T \subseteq Range(t.validators) BY DEF InOrder, SignersKnown
  <2> QED BY <2>1, <2>2, <2>3, FS_Subset
<1>4. ~ (Cardinality(T) * 2 > Len(t.validators))
  BY DEF InOrder, NoMajority, IsFinalized
<1>5. ~ (Cardinality(S) * 2 > Len(t.validators))
  <2> HIDE DEF T, S
  <2> QED BY <1>2, <1>3, <1>4, MajorityGrows
<1> QED BY <1>5 DEF MajorityIn

\* No finalizeChange is late or forgotten: push schedules it with the block
\* that completes the majority, and nothing unschedules it but its call.
THEOREM NoChangeGetsLost ==
  ASSUME MaxFailures = 0, OneContract, QuietTurns
  PROVE  Spec => []NoChangeIsLost
<1>1. Inv /\ BlocksInv /\ LifecycleInv => NoChangeIsLost
  <2> SUFFICES ASSUME Inv, BlocksInv, LifecycleInv,
                      exec.phase = "idle", head > 0, IsPreMerge(head),
                      NEW b \in 1..head, Waits(b, head),
                      IsPosdao(b) => SealedByMember(b) /\ MajoritySince(b, head)
               PROVE  rf.finalize_change_at = [at |-> head + 1, address |-> ContractOf(b)]
    BY DEF NoChangeIsLost
  <2>1. Executed = chain /\ head = Len(chain) BY CommittedChain
  <2>2. head \in Nat /\ chain \in Seq(Blocks) BY CommittedChain
  <2>3. WaitsIn(chain, b, head) BY CommittedChain
  <2>4. IsPosdao(b) => SealedIn(chain, b) /\ MajorityIn(chain, b, head)
    BY CommittedChain
  <2>5. Settled(rf, chain) BY <2>1 DEF LifecycleInv, MidBlock
  <2>6. Awaited(rf, chain) /\ ScheduleOf(rf, chain) /\ Covered(rf, chain)
        /\ Followed(rf, chain)
    BY <2>5 DEF Settled
  <2>7. Recent(b, head) BY <2>1, <2>3, <2>6, AwaitedIsRecent
  <2>8. Scheduled(rf)
    <3> SUFFICES ASSUME ~Scheduled(rf) PROVE FALSE
      OBVIOUS
    <3>1. IsPosdao(b) /\ (SealedIn(chain, b) => Tracked(rf, b))
      BY <2>1, <2>3, <2>6 DEF Awaited
    <3>2. InWindow(rf, b) BY <2>4, <3>1 DEF Tracked
    <3>3. IsPosdao(head)
      BY <2>2, <3>1, AuraExecutionAssumption DEF IsPosdao
    <3>4. rf.validators = chain[head].active
      BY <2>1, <2>6, <3>3 DEF Followed
    <3>5. InOrder(rf, Validators, Contracts) /\ WindowOf(rf, chain)
      BY <2>1 DEF Inv, BlocksInv
    <3>6. ~MajorityIn(chain, b, head)
      BY <2>1, <2>2, <2>6, <3>2, <3>4, <3>5, NoMajorityWaits
    <3> QED BY <2>4, <3>1, <3>6
  <2>9. rf.finalize_change_at.at = head + 1
    BY <2>1, <2>6, <2>8 DEF ScheduleOf
  <2>10. rf.finalize_change_at.address = ContractOf(b)
    <3>1. PICK a : Justifies(chain, a, head, rf.finalize_change_at.address)
      BY <2>1, <2>6, <2>8 DEF ScheduleOf
    <3>2. Recent(a, head) /\ ContractOf(a) = rf.finalize_change_at.address
      BY <3>1, CauseIsRecent
    <3> QED BY <2>2, <2>7, <3>2, SameContract
  <2>11. rf.finalize_change_at \in [at : Nat, address : Contracts \cup {NoAddress}]
    BY DEF Inv, InOrder, IsTracker
  <2> QED BY <2>9, <2>10, <2>11
<1> QED BY <1>1, AlwaysLifecycle, PTL

(***************************************************************************)
(* Layer 3: with one announcement at a time.                               *)
(***************************************************************************)
\* what is pending of a block of the set is in the window
PendingInWindow(t, ch) ==
  \A b \in DOMAIN t.pending_transitions : SealedIn(ch, b) => InWindow(t, b)

NothingSealedPends(t, ch) ==
  \A b \in DOMAIN t.pending_transitions : ~SealedIn(ch, b)

LEMMA InitPending == Init => PendingInv
<1> SUFFICES ASSUME Init PROVE PendingInv
  OBVIOUS
<1>1. chain = <<>> /\ exec.phase = "idle" /\ rf = New(<<>>)
  BY DEF Init, Idle
<1>2. Executed = <<>> /\ Len(Executed) = 0
  BY <1>1 DEF Executed
<1>3. DOMAIN rf.pending_transitions = {} BY <1>1 DEF New, EmptyMap
<1>4. OneWaits(Executed) /\ AnnouncedIn(Executed, exec.evm)
  BY <1>2 DEF OneWaits, AnnouncedIn
<1> QED BY <1>1, <1>3, <1>4 DEF PendingInv, MidBlock

\* Once a call is due, nothing sealed by the set is pending: it would still be
\* waiting, and what waits is what the call answers.
LEMMA TakenPends ==
  ASSUME NEW ch, NEW t, Len(ch) \in Nat, Settled(t, ch), Scheduled(t),
         PendingOf(t, ch), PendingInWindow(t, ch), OneWaits(ch)
  PROVE  NothingSealedPends(t, ch)
<1> SUFFICES ASSUME NEW b \in DOMAIN t.pending_transitions, SealedIn(ch, b)
             PROVE  FALSE
  BY DEF NothingSealedPends
<1>1. b \in 1..Len(ch) /\ IsPosdao(b) /\ ch[b].event # "none"
  BY DEF PendingOf
<1>2. WaitsIn(ch, b, Len(ch))
  <2>1. InWindow(t, b) BY DEF PendingInWindow
  <2>2. \A m \in (b+1)..Len(ch) : ch[m].called # ContractOf(b)
    BY <2>1 DEF InWindow, Settled, NoCallSince
  <2> QED BY <1>1, <2>2 DEF WaitsIn
<1>3. PICK a \in 1..Len(ch) :
        /\ Justifies(ch, a, Len(ch), t.finalize_change_at.address)
        /\ a \notin DOMAIN t.pending_transitions
  BY DEF Settled, ScheduleOf
<1>4. IsPosdao(a) /\ WaitsIn(ch, a, Len(ch))
  <2>1. PosdaoTransition \in Nat /\ b \in Nat /\ a \in Nat /\ b <= Len(ch)
    BY <1>1, <1>3, AuraExecutionAssumption
  <2> QED BY <1>1, <1>3, <2>1 DEF Justifies, IsPosdao
<1>5. a = b BY <1>1, <1>2, <1>3, <1>4 DEF OneWaits
<1> QED BY <1>3, <1>5

\* Nor is anything pending where a list has just given way to a contract.
LEMMA BoundaryPends ==
  ASSUME OneContract, QuietTurns, Inv, BlocksInv, exec.phase = "idle",
         NEW n, n = head + 1, IsPreMerge(n), AtBoundary(n)
  PROVE  NothingSealedPends(rf, chain)
<1>1. Executed = chain /\ Len(chain) \in Nat /\ head = Len(chain)
  BY DEF Executed, Inv, TypeOK, head
<1>2. ASSUME NEW b \in DOMAIN rf.pending_transitions PROVE FALSE
  <2>1. b \in 1..Len(chain) /\ IsPosdao(b) /\ chain[b].event # "none"
    BY <1>1, <1>2 DEF BlocksInv, PendingOf
  <2>2. b \notin Quiet /\ Recent(b, Len(chain))
    BY <1>1, <2>1 DEF BlocksInv, Recent
  <2> QED BY <1>1, <2>2, NothingBeforeBoundary
<1> QED BY <1>2 DEF NothingSealedPends

LEMMA ContextForBlockPending ==
  ASSUME OneContract, QuietTurns, Inv, BlocksInv, LifecycleInv, PendingInv,
         ContextForBlock
  PROVE  PendingInv'
<1>0. PICK n, call : n = head + 1 /\ call = exec'.finalize
  OBVIOUS
<1>1. /\ exec.phase = "idle" /\ exec'.phase = "context"
      /\ n \in Nat /\ exec'.n = n /\ exec'.evm = contracts
      /\ UNCHANGED <<chain, contracts>>
      /\ Executed = chain /\ Executed' = chain
      /\ \/ /\ ~IsPreMerge(n) /\ call = NoAddress /\ rf' = rf
         \/ /\ IsPreMerge(n) /\ AtBoundary(n)
            /\ call = ComputeFinalizeChangeAddress(Sets, n) /\ rf' = rf
         \/ /\ IsPreMerge(n) /\ ~AtBoundary(n)
            /\ call = IF FinalizeDue(rf, n) THEN rf.finalize_change_at.address ELSE NoAddress
            /\ rf' = TakeFinalizeChange(rf, n)
  BY <1>0, ContextEffect
<1>2. Len(chain) \in Nat /\ n = Len(chain) + 1 /\ IsTracker(rf, Validators, Contracts)
  BY <1>0 DEF Inv, TypeOK, head
<1>3. MidBlock' /\ ~MidBlock /\ exec.evm = contracts
  BY <1>1 DEF MidBlock, BlocksInv
<1>4. /\ PendingInWindow(rf, chain) /\ PendingOf(rf, chain)
      /\ IsPreMerge(Len(chain)) => OneWaits(chain) /\ AnnouncedIn(chain, contracts)
  BY <1>1, <1>3 DEF PendingInv, PendingInWindow, BlocksInv
<1>5. IsPreMerge(n) => IsPreMerge(Len(chain)) /\ Settled(rf, chain)
  <2>1. IsPreMerge(n) => IsPreMerge(Len(chain))
    BY <1>2, AuraExecutionAssumption DEF IsPreMerge
  <2> QED BY <1>1, <1>3, <2>1 DEF LifecycleInv
<1>6. PendingInWindow(rf', chain) /\ (call # NoAddress => NothingSealedPends(rf', chain))
  <2>1. CASE ~IsPreMerge(n) /\ call = NoAddress /\ rf' = rf
    BY <1>4, <2>1
  <2>2. CASE IsPreMerge(n) /\ AtBoundary(n) /\ rf' = rf
    BY <1>0, <1>1, <1>4, <2>2, BoundaryPends
  <2>3. CASE /\ IsPreMerge(n) /\ ~AtBoundary(n)
             /\ call = IF FinalizeDue(rf, n) THEN rf.finalize_change_at.address ELSE NoAddress
             /\ rf' = TakeFinalizeChange(rf, n)
    <3>1. CASE FinalizeDue(rf, n)
      <4>1. NothingSealedPends(rf, chain)
        BY <1>2, <1>4, <1>5, <2>3, <3>1, TakenPends DEF FinalizeDue
      <4>2. rf'.pending_transitions = rf.pending_transitions
        BY <1>2, <2>3, TakeFinalizeChangeFields
      <4> QED BY <4>1, <4>2 DEF NothingSealedPends, PendingInWindow
    <3>2. CASE ~FinalizeDue(rf, n)
      BY <1>2, <1>4, <2>3, <3>2, TakeFinalizeChangeFields
    <3> QED BY <3>1, <3>2
  <2> QED BY <1>1, <2>1, <2>2, <2>3
<1> QED BY <1>0, <1>1, <1>3, <1>4, <1>6
     DEF PendingInv, PendingInWindow, NothingSealedPends

LEMMA PreExecutionPending ==
  ASSUME OneContract, Inv, BlocksInv, LifecycleInv, PendingInv, ApplyPreExecutionChanges
  PROVE  PendingInv'
<1>1. /\ exec.phase = "context" /\ exec'.phase = "pre_execution"
      /\ exec'.n = exec.n /\ exec'.finalize = exec.finalize
      /\ exec'.evm = EvmAfterFinalizeChange /\ rf' = AfterRefresh
      /\ UNCHANGED <<chain, contracts>>
      /\ Executed = chain /\ Executed' = chain
  BY PreExecutionEffect
<1>2. MidBlock /\ MidBlock' BY <1>1 DEF MidBlock
<1>3. rf'.pending_transitions = rf.pending_transitions
      /\ (rf'.headers = rf.headers \/ rf'.headers = <<>>)
  BY <1>1, PreExecutionFields
<1>4. /\ PendingInWindow(rf, chain)
      /\ exec.finalize # NoAddress /\ IsPosdao(exec.n) => NothingSealedPends(rf, chain)
      /\ IsPreMerge(Len(chain)) => OneWaits(chain) /\ AnnouncedIn(chain, exec.evm)
  BY <1>1, <1>2 DEF PendingInv, PendingInWindow, NothingSealedPends
<1>5. PendingInWindow(rf', chain)
  <2>1. CASE exec.finalize # NoAddress /\ IsPosdao(exec.n)
    BY <1>3, <1>4, <2>1 DEF PendingInWindow, NothingSealedPends
  <2>2. CASE ~(exec.finalize # NoAddress /\ IsPosdao(exec.n)) /\ NeedsInit(exec.n)
    <3>1. rf.validators = <<>>
      <4>1. Len(rf.validators) = 0 BY <2>2 DEF NeedsInit
      <4>2. rf.validators \in Seq(Validators) BY DEF Inv, InOrder, IsTracker
      <4> QED BY <4>1, <4>2
    <3>2. rf.headers = <<>> BY <3>1, NobodyNoWindow DEF Inv
    <3>3. rf'.headers = rf.headers BY <1>3, <3>2
    <3> QED BY <1>3, <1>4, <3>3 DEF PendingInWindow, InWindow
  <2>3. CASE ~(exec.finalize # NoAddress /\ IsPosdao(exec.n)) /\ ~NeedsInit(exec.n)
    <3>1. rf' = rf BY <1>1, <2>3, PreExecutionFields
    <3> QED BY <1>4, <3>1
  <2> QED BY <2>1, <2>2, <2>3
<1>6. exec.finalize # NoAddress /\ IsPosdao(exec.n) => NothingSealedPends(rf', chain)
  BY <1>3, <1>4 DEF NothingSealedPends
<1>7. exec.finalize = NoAddress => exec'.evm = exec.evm
  BY <1>1 DEF EvmAfterFinalizeChange
<1> QED BY <1>1, <1>2, <1>4, <1>5, <1>6, <1>7
     DEF PendingInv, PendingInWindow, NothingSealedPends

\* What waits after a POSDAO block that has made no call, or is of it.
LEMMA StillWaitsAlone ==
  ASSUME OneContract, NEW t, NEW ch, NEW ch2, NEW n, NEW call, NEW event,
         Executes(ch, ch2, n, call, event), InMotion(t, ch, call), IsPreMerge(n),
         OneWaits(ch), NEW old, call = NoAddress => AnnouncedIn(ch, old),
         NEW b \in 1..n, IsPosdao(b), WaitsIn(ch2, b, n)
  PROVE  /\ ContractOf(b) = ContractOf(n)
         /\ \/ b = n /\ event # "none"
            \/ /\ b \in 1..Len(ch) /\ WaitsIn(ch, b, Len(ch))
               /\ old[ContractOf(n)].announced
<1>1. /\ PosdaoTransition \in Nat /\ ParisBlock \in Nat
      /\ n \in Nat /\ Len(ch) \in Nat /\ n = Len(ch) + 1 /\ OneMore(ch, ch2) /\ Len(ch2) = n
  BY AuraExecutionAssumption DEF Executes, OneMore
<1>2. IsPosdao(n) /\ IsPreMerge(b) /\ b \in Nat
  BY <1>1 DEF IsPosdao, IsPreMerge
<1>3. ContractOf(b) = ContractOf(n) BY <1>1, <1>2, PosdaoContract
<1>4. CASE b = n /\ event # "none"
  BY <1>3, <1>4
<1>5. CASE b \in 1..Len(ch) /\ call = NoAddress
  <2>1. WaitsIn(ch, b, Len(ch)) BY <1>1, <1>5, WaitsOn
  <2>2. old[ContractOf(b)].announced BY <1>5, <2>1 DEF AnnouncedIn
  <2> QED BY <1>3, <1>5, <2>1, <2>2
<1> QED BY <1>4, <1>5, StillWaits

\* The contract takes no second announcement before it is finalized, so no
\* second block waits, and the one that waits is known to it.
LEMMA FinishWaits ==
  ASSUME OneContract, "overlapping" \notin Eager, Inv, BlocksInv,
         NEW signer \in Validators, NEW event \in Events, NEW store \in ContractStore,
         Finishes(signer, event, store),
         NEW n, n = exec.n, NEW call, call = exec.finalize, NEW ch2,
         Executes(chain, ch2, n, call, event), InMotion(rf, chain, call), IsPreMerge(n),
         OneWaits(chain), call = NoAddress => AnnouncedIn(chain, exec.evm)
  PROVE  OneWaits(ch2) /\ AnnouncedIn(ch2, store)
<1>0. PICK c : c = ContractOf(n) OBVIOUS
<1>1. n \in Nat /\ Len(ch2) = n /\ n = Len(chain) + 1 BY DEF Executes
<1>2. /\ event = "none" => store = exec.evm
      /\ event # "none" => /\ c \in Contracts
                           /\ ~exec.evm[c].announced
                           /\ \E next : store = Announce(exec.evm, c, next)
  BY <1>0 DEF Finishes
<1>3. exec.evm \in ContractStore /\ store \in ContractStore BY DEF Inv, TypeOK
<1>4. event # "none" => store[c].announced
  BY <1>2, <1>3 DEF Announce, ContractStore
<1>5. ASSUME NEW b \in 1..n, IsPosdao(b), WaitsIn(ch2, b, n)
      PROVE  /\ ContractOf(b) = c
             /\ \/ b = n /\ event # "none"
                \/ /\ b \in 1..Len(chain) /\ WaitsIn(chain, b, Len(chain))
                   /\ exec.evm[c].announced
  BY <1>0, <1>5, StillWaitsAlone
<1>6. AnnouncedIn(ch2, store)
  <2> SUFFICES ASSUME NEW b \in 1..n, IsPosdao(b), WaitsIn(ch2, b, n)
               PROVE  store[c].announced /\ ContractOf(b) = c
    BY <1>1 DEF AnnouncedIn
  <2>1. CASE event # "none"
    BY <1>4, <1>5, <2>1
  <2>2. CASE event = "none"
    <3>1. store = exec.evm BY <1>2, <2>2
    <3>2. exec.evm[c].announced BY <1>5, <2>2
    <3> QED BY <1>5, <3>1, <3>2
  <2> QED BY <2>1, <2>2
<1>7. OneWaits(ch2)
  <2> SUFFICES ASSUME NEW a \in 1..n, IsPosdao(a), WaitsIn(ch2, a, n),
                      NEW b \in 1..n, IsPosdao(b), WaitsIn(ch2, b, n)
               PROVE  a = b
    BY <1>1 DEF OneWaits
  <2>1. CASE event # "none"
    <3>1. ~exec.evm[c].announced BY <1>2, <2>1
    <3> QED BY <1>5, <3>1
  <2>2. CASE event = "none"
    <3>1. /\ a \in 1..Len(chain) /\ WaitsIn(chain, a, Len(chain))
          /\ b \in 1..Len(chain) /\ WaitsIn(chain, b, Len(chain))
      BY <1>5, <2>2
    <3> QED BY <3>1 DEF OneWaits
  <2> QED BY <2>1, <2>2
<1> QED BY <1>6, <1>7

\* push leaves what is pending of a block of the set in the window.
LEMMA PosdaoPends ==
  ASSUME Inv, NEW n, n = exec.n, IsPosdao(n), IsPreMerge(n),
         NEW event \in Events, event # "none" => ContractOf(n) \in Contracts,
         NEW call, NEW ch, NEW ch2, Executes(ch, ch2, n, call, event),
         WindowOf(rf, ch), PendingOf(rf, ch), PendingInWindow(rf, ch),
         NEW signer \in Validators, ch2[n].signer = signer,
         Counts(rf, ch2[n].active),
         NEW t, t = NoteEvent(n, event), NEW u, u = Push(t, n, signer)
  PROVE  PendingInWindow(u, ch2)
<1>1. /\ n \in Nat /\ InOrder(t, Validators, Contracts)
      /\ t.validators = rf.validators
      /\ t.validators_sealed = rf.validators_sealed
      /\ t.headers = rf.headers
  BY NoteEventFields
<1>2. /\ event = "none" => DOMAIN t.pending_transitions = DOMAIN rf.pending_transitions
      /\ event # "none" =>
           DOMAIN t.pending_transitions = DOMAIN rf.pending_transitions \cup {n}
  <2>1. CASE event = "none"
    BY <2>1, NoteEventFields
  <2>2. CASE event # "none" /\ IsPosdao(n)
    BY <2>2, NoteEventFields
  <2> QED BY <2>1, <2>2
<1>3. PendingOf(t, ch2) BY NotedPending DEF Executes
<1>4. WindowOf(t, ch) /\ \A b : InWindow(t, b) <=> InWindow(rf, b)
  BY <1>1, SameWindow
<1>5. OneMore(ch, ch2) /\ n = Len(ch2) /\ n = Len(ch) + 1 /\ Len(ch) \in Nat
  BY DEF Executes, OneMore
<1>6. /\ u.validators = rf.validators
      /\ DOMAIN u.pending_transitions \subseteq DOMAIN t.pending_transitions
      /\ StaysOrLeaves(t, u, n, signer)
  <2>1. IsPosdao(Len(ch2)) /\ ch2[Len(ch2)].signer = signer BY <1>5
  <2>2. /\ DOMAIN u.pending_transitions \subseteq DOMAIN t.pending_transitions
        /\ StaysOrLeaves(t, u, n, signer)
    BY <1>1, <1>3, <1>4, <1>5, <2>1, PushKeepsChain, Zenon
  <2>3. rf.validators_sealed /\ rf.validators = ch2[n].active BY DEF Counts
  <2>4. t.validators_sealed /\ t.validators = ch2[n].active BY <1>1, <2>3, Zenon
  <2>5. u.validators = t.validators BY <1>1, <2>4, PushKeepsSet
  <2> QED BY <2>2, <2>3, <2>4, <2>5, Zenon
<1> SUFFICES ASSUME NEW b \in DOMAIN u.pending_transitions, SealedIn(ch2, b)
             PROVE  InWindow(u, b)
  BY DEF PendingInWindow
<1>7. b \in DOMAIN t.pending_transitions /\ b \in 1..n
  BY <1>3, <1>5, <1>6 DEF PendingOf
<1>8. InWindow(t, b) \/ (b = n /\ signer \in Range(u.validators))
  <2>1. CASE b = n
    <3>1. rf.validators = ch2[n].active BY DEF Counts
    <3>2. signer \in Range(u.validators) BY <1>6, <2>1, <3>1 DEF SealedIn
    <3> QED BY <2>1, <3>2
  <2>2. CASE b # n
    <3>1. b \in DOMAIN rf.pending_transitions BY <1>2, <1>7, <2>2
    <3>2. Len(ch) \in 1..Len(ch) /\ b \in 1..Len(ch) BY <1>5, <1>7, <2>2
    <3>3. SealedIn(ch, b) BY <1>5, <3>2, SameHistory
    <3> QED BY <1>4, <3>1, <3>3 DEF PendingInWindow
  <2> QED BY <2>1, <2>2
<1> QED BY <1>6, <1>7, <1>8 DEF StaysOrLeaves, Tracked

LEMMA FinishPending ==
  ASSUME OneContract, "overlapping" \notin Eager,
         Inv, BlocksInv, LifecycleInv, PendingInv,
         NEW signer \in Validators, NEW event \in Events, NEW store \in ContractStore,
         Finishes(signer, event, store)
  PROVE  PendingInv'
<1>1. PICK n, call, ch2 : n = exec.n /\ call = exec.finalize /\ ch2 = Executed'
  OBVIOUS
<1>2. /\ exec.phase = "pre_execution" /\ MidBlock
      /\ ~MidBlock' /\ exec'.phase = "finished" /\ exec'.evm = store
      /\ event # "none" => ContractOf(n) \in Contracts
      /\ rf' = AfterFinish(n, event, signer)
      /\ Executed = chain
      /\ Executes(chain, ch2, n, call, event) /\ ch2[n].signer = signer
      /\ WindowOf(rf, chain) /\ PendingOf(rf, chain)
      /\ PendingOf(rf', ch2)
      /\ IsPreMerge(n) =>
           /\ InMotion(rf, chain, call)
           /\ IsPosdao(n) => Counts(rf, ch2[n].active)
  BY <1>1, FinishFacts
<1>3. n \in Nat /\ Len(chain) \in Nat /\ n = Len(chain) + 1 /\ Len(ch2) = n
      /\ OneMore(chain, ch2)
  BY <1>2 DEF Executes, OneMore
<1>4. IsPreMerge(n) => IsPreMerge(Len(chain))
  BY <1>3, AuraExecutionAssumption DEF IsPreMerge
<1>5. /\ PendingInWindow(rf, chain)
      /\ IsPreMerge(n) => /\ OneWaits(chain)
                          /\ call = NoAddress => AnnouncedIn(chain, exec.evm)
  BY <1>1, <1>2, <1>4 DEF PendingInv, PendingInWindow
<1>6. IsPreMerge(n) => OneWaits(ch2) /\ AnnouncedIn(ch2, store)
  BY <1>1, <1>2, <1>5, FinishWaits
<1>7. PendingInWindow(rf', ch2)
  <2>1. CASE ~IsPreMerge(n)
    <3>1. rf' = rf BY <1>2, <2>1 DEF AfterFinish
    <3> SUFFICES ASSUME NEW b \in DOMAIN rf.pending_transitions, SealedIn(ch2, b)
                 PROVE  InWindow(rf, b)
      BY <3>1 DEF PendingInWindow
    <3>2. b \in 1..Len(chain) /\ Len(chain) \in 1..Len(chain)
      BY <1>2, <1>3 DEF PendingOf
    <3>3. SealedIn(chain, b) BY <1>3, <3>2, SameHistory
    <3> QED BY <1>5, <3>3 DEF PendingInWindow
  <2>2. CASE IsPreMerge(n) /\ ~IsPosdao(n)
    <3>1. ASSUME NEW b \in DOMAIN rf'.pending_transitions PROVE FALSE
      <4>1. b \in 1..n /\ IsPosdao(b) BY <1>2, <1>3, <3>1 DEF PendingOf
      <4> QED BY <1>3, <2>2, <4>1, AuraExecutionAssumption DEF IsPosdao
    <3> QED BY <3>1 DEF PendingInWindow
  <2>3. CASE IsPreMerge(n) /\ IsPosdao(n)
    <3>1. rf' = Push(NoteEvent(n, event), n, signer) BY <1>2, <2>3 DEF AfterFinish
    <3> QED BY <1>1, <1>2, <1>5, <2>3, <3>1, PosdaoPends
  <2> QED BY <2>1, <2>2, <2>3
<1> QED BY <1>1, <1>2, <1>3, <1>6, <1>7 DEF PendingInv, PendingInWindow

LEMMA CommitPending ==
  ASSUME Inv, PendingInv, Commit
  PROVE  PendingInv'
<1>1. exec.phase = "finished" /\ exec'.phase = "idle" /\ exec'.evm = exec.evm
      /\ Executed' = Executed /\ rf' = rf
  BY CommitEffect
<1>2. ~MidBlock /\ ~MidBlock' BY <1>1 DEF MidBlock
<1> QED BY <1>1, <1>2 DEF PendingInv

LEMMA PendingInvStep ==
  ASSUME OneContract, QuietTurns, ~Abandon, "overlapping" \notin Eager,
         Inv, BlocksInv, LifecycleInv, PendingInv, [Next]_vars
  PROVE  PendingInv'
<1>1. CASE UNCHANGED vars
  <2>1. UNCHANGED <<chain, exec, rf>> BY <1>1 DEF vars
  <2>2. Executed' = Executed /\ MidBlock' = MidBlock
    BY <2>1 DEF Executed, Block, MidBlock, ContractOf, GetValidators
  <2> QED BY <2>1, <2>2 DEF PendingInv
<1> QED BY <1>1, StepCases, ContextForBlockPending, PreExecutionPending,
           FinishPending, CommitPending

\* A transition that waits for finality stays where push can find it, as long
\* as the contracts announce one change at a time.
THEOREM PendingStaysTracked ==
  ASSUME MaxFailures = 0, OneContract, QuietTurns, "overlapping" \notin Eager
  PROVE  Spec => []PendingIsTracked
<1> DEFINE I == Inv /\ BlocksInv /\ LifecycleInv /\ PendingInv
<1>1. Init => I
  BY InitInv, InitBlocks, InitLifecycle, InitPending
<1>2. I /\ [Next]_vars => I'
  BY NextInv, NothingFails, BlocksInvStep, LifecycleInvStep, PendingInvStep
<1>3. I => PendingIsTracked
  BY CommittedChain DEF PendingInv, PendingIsTracked, InWindow
<1> QED BY <1>1, <1>2, <1>3, PTL DEF Spec

(***************************************************************************)
(* Layer 4, and the abstract specification.                                *)
(***************************************************************************)
\* Such a chain spec meets both conditions, and no list gives way to anything.
LEMMA PosdaoConditions ==
  ASSUME PosdaoThroughout
  PROVE  /\ OneContract /\ QuietTurns
         /\ Contract \in Contracts
         /\ \A n \in Nat : ContractOf(n) = Contract
         /\ \A n \in Nat : n > 0 => IsPosdao(n) /\ ~AtBoundary(n)
         /\ \A n \in Nat : n <= MaxBlock => IsPreMerge(n)
<1>1. PosdaoTransition \in Nat /\ ParisBlock \in Nat /\ MaxBlock \in Nat
  BY AuraExecutionAssumption
<1>2. \A n \in Nat : ContractOf(n) = Contract
  BY DEF PosdaoThroughout
<1>3. Contract # NoAddress BY DEF PosdaoThroughout
<1>4. ASSUME NEW n \in Nat, n > 0 PROVE IsPosdao(n) /\ ~AtBoundary(n)
  <2>1. IsPosdao(n) BY <1>1, <1>4 DEF IsPosdao, PosdaoThroughout
  <2>2. n >= 2 => n - 2 \in Nat BY <1>4
  <2>3. n >= 2 => ContractAddressAt(Sets, n - 2) # NoAddress
    BY <1>2, <1>3, <2>2 DEF ContractOf
  <2>4. ~AtBoundary(n)
    BY <1>4, <2>3 DEF AtBoundary, ComputeFinalizeChangeAddress
  <2> QED BY <2>1, <2>4
<1>5. \A n \in Nat : n <= MaxBlock => IsPreMerge(n)
  BY <1>1 DEF IsPreMerge, PosdaoThroughout
<1>6. OneContract BY <1>1, <1>2, <1>3 DEF OneContract
<1>7. QuietTurns
  <2>1. \A n \in Nat : n + 1 \in Nat /\ n + 1 > 0 OBVIOUS
  <2> QED BY <1>2, <1>4, <2>1 DEF QuietTurns
<1>8. Contract \in Contracts
  <2>1. Contract \in AddressOrNone BY ContractOfType DEF Contract, ContractOf
  <2> QED BY <1>3, <2>1 DEF AddressOrNone
<1> QED BY <1>2, <1>4, <1>5, <1>6, <1>7, <1>8

\* Where a contract is in force there is no list.
LEMMA ContractNoList ==
  ASSUME NEW n \in Nat, ContractOf(n) # NoAddress
  PROVE  ~HasListAt(Sets, n)
<1> DEFINE active == {b \in DOMAIN Sets : b <= n}
           top    == CHOOSE b \in active : \A c \in active : c <= b
<1>1. active \in SUBSET Nat /\ \A b \in active : b <= n
  BY AuraExecutionAssumption
<1>2. CASE active = {}
  BY <1>2 DEF HasListAt, KindAt, NoKind
<1>3. CASE active # {}
  <2>1. \E b \in active : \A c \in active : c <= b
    <3> HIDE DEF active
    <3> QED BY <1>1, <1>3, GreatestNumber
  <2>2. top \in DOMAIN Sets
    <3>1. top \in active
      <4> HIDE DEF active
      <4> QED BY <2>1
    <3> QED BY <3>1
  <2>3. KindAt(Sets, n) = Sets[top] BY <1>3 DEF KindAt
  <2> HIDE DEF top
  <2>4. Sets[top].contract # NoAddress BY <2>3 DEF ContractOf, ContractAddressAt
  <2>5. Sets[top].type # "list" BY <2>2, <2>4, AuraExecutionAssumption
  <2> QED BY <2>3, <2>5 DEF HasListAt
<1> QED BY <1>2, <1>3

\* So a block is sealed by a member of the contract's set.
LEMMA SealerIsMember ==
  ASSUME PosdaoThroughout, Outsiders = {}, NEW n \in Nat, n > 0, NEW signer \in MaySeal(n)
  PROVE  signer \in Range(GetValidators(contracts, Contract))
<1>1. n - 1 \in Nat OBVIOUS
<1>2. ContractOf(n - 1) = Contract /\ Contract # NoAddress
  BY <1>1 DEF PosdaoThroughout
<1>3. ~HasListAt(Sets, n - 1) BY <1>1, <1>2, ContractNoList
<1> QED BY <1>2, <1>3 DEF MaySeal

LEMMA InitChange == ASSUME PosdaoThroughout PROVE Init => ChangeInv
<1> SUFFICES ASSUME Init PROVE ChangeInv
  OBVIOUS
<1>1. chain = <<>> /\ exec.phase = "idle"
  BY DEF Init, Idle
<1>2. Executed = <<>> /\ Len(Executed) = 0 /\ head = 0
  BY <1>1 DEF Executed, head
<1>3. ~contracts[Contract].announced
  BY PosdaoConditions DEF Init, PosdaoThroughout
<1> QED BY <1>1, <1>2, <1>3 DEF ChangeInv

\* The next block makes a call exactly if a majority has sealed since an
\* announcement that waits.
LEMMA ContextForBlockChange ==
  ASSUME PosdaoThroughout, Inv, BlocksInv, LifecycleInv, ChangeInv, ContextForBlock
  PROVE  ChangeInv'
<1>0. PICK n, call : n = head + 1 /\ call = exec'.finalize
  OBVIOUS
<1>1. /\ exec.phase = "idle" /\ exec'.phase = "context"
      /\ n \in Nat /\ exec'.n = n
      /\ UNCHANGED <<chain, contracts>>
      /\ Executed = chain /\ Executed' = chain
      /\ \/ /\ ~IsPreMerge(n) /\ call = NoAddress /\ rf' = rf
         \/ /\ IsPreMerge(n) /\ AtBoundary(n)
            /\ call = ComputeFinalizeChangeAddress(Sets, n) /\ rf' = rf
         \/ /\ IsPreMerge(n) /\ ~AtBoundary(n)
            /\ call = IF FinalizeDue(rf, n) THEN rf.finalize_change_at.address ELSE NoAddress
            /\ rf' = TakeFinalizeChange(rf, n)
  BY <1>0, ContextEffect
<1>2. /\ head = Len(chain) /\ head \in Nat /\ chain \in Seq(Blocks)
      /\ n = head + 1 /\ n > 0 /\ n <= MaxBlock /\ MaxBlock \in Nat
  <2>1. head < MaxBlock BY DEF ContextForBlock
  <2> QED BY <1>0, <2>1, CommittedChain, AuraExecutionAssumption
<1>3. /\ OneContract /\ QuietTurns /\ IsPosdao(n) /\ ~AtBoundary(n)
      /\ IsPreMerge(n) /\ IsPreMerge(head) /\ ContractOf(n) = Contract
      /\ \A k \in Nat : k > 0 => IsPosdao(k)
  BY <1>2, PosdaoConditions
<1>4. Settled(rf, chain)
  BY <1>1, <1>2, <1>3 DEF LifecycleInv, MidBlock
<1>5. ASSUME call # NoAddress
      PROVE  /\ call = Contract
             /\ \E b \in 1..head : WaitsIn(chain, b, head) /\ MajorityIn(chain, b, head)
  <2>1. CallOf(chain, n, call)
    <3>1. LifecycleInv' BY <1>3, ContextForBlockLifecycle
    <3> QED BY <1>0, <1>1, <3>1 DEF LifecycleInv, MidBlock
  <2>2. call = Contract /\ \E b \in 1..head : Justifies(chain, b, head, call)
    BY <1>2, <1>3, <1>5, <2>1 DEF CallOf
  <2>3. PICK b \in 1..head : Justifies(chain, b, head, call) BY <2>2
  <2>4. IsPosdao(b) BY <1>2, <1>3
  <2> QED BY <2>2, <2>3, <2>4 DEF Justifies
<1>6. ASSUME call = NoAddress, NEW b \in 1..head, WaitsIn(chain, b, head)
      PROVE  ~MajorityIn(chain, b, head)
  <2>1. ~Scheduled(rf)
    <3> SUFFICES ASSUME Scheduled(rf) PROVE FALSE
      OBVIOUS
    <3>1. rf.finalize_change_at.at = n
      BY <1>2, <1>4 DEF Settled, ScheduleOf
    <3>2. FinalizeDue(rf, n) BY <1>1, <3>1 DEF FinalizeDue
    <3> QED BY <1>1, <1>3, <1>6, <3>2 DEF Scheduled
  <2>2. b \in Nat /\ b > 0 /\ head > 0 BY <1>2
  <2>3. IsPosdao(b) /\ IsPosdao(head) BY <1>2, <1>3, <2>2
  <2>4. SealedIn(chain, b)
    <3>1. chain[b].event # "none" BY <1>6 DEF WaitsIn
    <3> QED BY <1>1, <1>2, <3>1 DEF ChangeInv
  <2>5. InWindow(rf, b)
    BY <1>2, <1>4, <1>6, <2>1, <2>3, <2>4 DEF Settled, Awaited, Tracked
  <2>6. rf.validators = chain[head].active
    BY <1>2, <1>4, <2>2, <2>3 DEF Settled, Followed
  <2>7. InOrder(rf, Validators, Contracts) /\ WindowOf(rf, chain) /\ Covered(rf, chain)
    BY <1>1, <1>4 DEF Inv, BlocksInv, Settled
  <2> QED BY <1>2, <2>5, <2>6, <2>7, NoMajorityWaits
<1>7. head' = head BY <1>1 DEF head
<1>8. \A b \in 1..Len(Executed) : Executed[b].event # "none" => SealedIn(Executed, b)
  BY DEF ChangeInv
<1>9. /\ head > 0 => chain[head].active = contracts[Contract].active
      /\ contracts[Contract].announced <=> \E b \in 1..head : WaitsIn(chain, b, head)
  BY DEF ChangeInv
<1>10. Contract' = Contract BY DEF Contract, ContractOf
<1> QED BY <1>0, <1>1, <1>5, <1>6, <1>7, <1>8, <1>9, <1>10 DEF ChangeInv

LEMMA PreExecutionChange ==
  ASSUME Inv, BlocksInv, ChangeInv, ApplyPreExecutionChanges
  PROVE  ChangeInv'
<1>1. /\ exec.phase = "context" /\ exec'.phase = "pre_execution"
      /\ exec'.finalize = exec.finalize
      /\ exec'.evm = EvmAfterFinalizeChange
      /\ UNCHANGED <<chain, contracts>>
      /\ Executed' = Executed
  BY PreExecutionEffect
<1>2. head' = head BY <1>1 DEF head
<1>3. exec'.evm = Called' /\ Called' = Called
  <2>1. exec.evm = contracts BY <1>1 DEF BlocksInv
  <2>2. Called' = Called BY <1>1 DEF Called, FinalizeChange
  <2> QED BY <1>1, <2>1, <2>2 DEF Called, EvmAfterFinalizeChange
<1>4. Contract' = Contract BY DEF Contract, ContractOf
<1> QED BY <1>1, <1>2, <1>3, <1>4 DEF ChangeInv

\* What a block that finishes has done to the contract.
LEMMA FinishChange ==
  ASSUME PosdaoThroughout, Outsiders = {}, "at_call" \notin Eager,
         Inv, BlocksInv, LifecycleInv, ChangeInv,
         NEW signer \in Validators, NEW event \in Events, NEW store \in ContractStore,
         Finishes(signer, event, store)
  PROVE  ChangeInv'
<1>1. PICK n, call, ch2 : n = exec.n /\ call = exec.finalize /\ ch2 = Executed'
  OBVIOUS
<1>2. exec.phase = "pre_execution" /\ signer \in MaySeal(n) /\ Finished(signer, event, store)
  BY <1>1 DEF Finishes
<1>3. /\ exec'.phase = "finished" /\ exec'.n = n /\ exec'.finalize = call
      /\ exec'.evm = store
      /\ UNCHANGED <<chain, contracts>>
      /\ Executed = chain
  BY <1>1, <1>2, FinishEffect
<1>4. /\ Len(chain) \in Nat /\ n = Len(chain) + 1 /\ n \in Nat /\ n > 0 /\ head = Len(chain)
  BY <1>1, <1>2 DEF BlocksInv, head, Inv, TypeOK
<1>5. OneMore(chain, ch2) /\ Len(ch2) = n /\ ch2[n].signer = signer /\ ch2[n].event = event
      /\ ch2[n].active = IF ContractOf(n) = NoAddress THEN <<>>
                         ELSE GetValidators(store, ContractOf(n))
  BY <1>1, <1>2, <1>4, FinishEffect DEF OneMore
<1>6. ContractOf(n) = Contract /\ Contract \in Contracts /\ Contract # NoAddress
  BY <1>4, PosdaoConditions DEF PosdaoThroughout
<1>7. IF event = "none" THEN store = Called
      ELSE /\ call = NoAddress
           /\ \E next \in NewSets : store = Announce(contracts, Contract, next)
  <2>1. exec.evm = Called BY <1>2 DEF ChangeInv
  <2>2. CASE event = "none"
    BY <2>1, <2>2 DEF Finishes
  <2>3. CASE event # "none"
    <3>1. call = NoAddress /\ \E next \in NewSets : store = Announce(exec.evm, Contract, next)
      BY <1>1, <1>6, <2>3 DEF Finishes
    <3>2. exec.evm = contracts BY <1>1, <2>1, <3>1 DEF Called
    <3> QED BY <2>3, <3>1, <3>2
  <2> QED BY <2>2, <2>3
<1>8. exec'.event = event
  <2>1. exec' = [exec EXCEPT !.phase = "finished", !.signer = signer,
                             !.event = event, !.evm = store]
    BY <1>2 DEF Finished
  <2> QED BY <2>1 DEF Inv, TypeOK
<1>9. ASSUME NEW b \in 1..n, ch2[b].event # "none" PROVE SealedIn(ch2, b)
  <2>1. CASE b = n
    <3>1. PICK next \in NewSets : store = Announce(contracts, Contract, next)
      BY <1>5, <1>7, <1>9, <2>1
    <3>2. contracts \in ContractStore BY DEF Inv, TypeOK
    <3>3. GetValidators(store, Contract) = GetValidators(contracts, Contract)
      BY <1>6, <3>1, <3>2 DEF GetValidators, Announce, ContractStore
    <3>4. signer \in Range(GetValidators(contracts, Contract))
      BY <1>2, <1>4, SealerIsMember
    <3> QED BY <1>5, <1>6, <2>1, <3>3, <3>4 DEF SealedIn
  <2>2. CASE b # n
    <3>1. b \in 1..Len(chain) /\ Len(chain) \in 1..Len(chain) BY <1>4, <2>2
    <3>2. chain[b].event # "none" BY <1>5, <1>9, <3>1 DEF OneMore
    <3>3. SealedIn(chain, b) BY <1>3, <3>1, <3>2 DEF ChangeInv
    <3> QED BY <1>5, <3>1, <3>3, SameHistory
  <2> QED BY <2>1, <2>2
<1>10. head' = head BY <1>3 DEF head
<1>11. Contract' = Contract BY DEF Contract, ContractOf
<1>12. Called' = Called BY <1>1, <1>3 DEF Called, FinalizeChange
<1>13. IF event = "none" THEN store = Called'
       ELSE /\ call = NoAddress
            /\ \E next \in NewSets : store = Announce(contracts', Contract, next)
  BY <1>3, <1>7, <1>12
<1>14. /\ call # NoAddress =>
            /\ call = Contract
            /\ \E b \in 1..head : WaitsIn(chain, b, head) /\ MajorityIn(chain, b, head)
       /\ call = NoAddress =>
            \A b \in 1..head : WaitsIn(chain, b, head) => ~MajorityIn(chain, b, head)
       /\ head > 0 => chain[head].active = contracts[Contract].active
       /\ contracts[Contract].announced <=> \E b \in 1..head : WaitsIn(chain, b, head)
  BY <1>1, <1>2 DEF ChangeInv
<1> QED BY <1>1, <1>3, <1>5, <1>8, <1>9, <1>10, <1>11, <1>13, <1>14 DEF ChangeInv, Announce

\* What a block that is committed has done: nothing, announce, or call.
Committed(n, signer, event, call) ==
  /\ n = head + 1 /\ head' = n
  /\ OneMore(chain, chain') /\ Len(chain') = n
  /\ chain'[n].signer = signer /\ signer \in Validators
  /\ chain'[n].event = event /\ chain'[n].called = call
  /\ chain'[n].active = contracts'[Contract].active

LEMMA CommitFacts ==
  ASSUME PosdaoThroughout, Inv, BlocksInv, Commit,
         NEW n, n = head + 1, NEW signer, signer = exec.signer,
         NEW event, event = exec.event, NEW call, call = exec.finalize
  PROVE  Committed(n, signer, event, call)
<1>1. exec.phase = "finished" /\ contracts' = exec.evm /\ chain' = Executed
  BY CommitEffect
<1>2. head = Len(chain) /\ head \in Nat /\ chain \in Seq(Blocks) /\ OneMore(chain, chain')
  BY <1>1, CommittedChain
<1>3. exec.n = n BY <1>1 DEF BlocksInv
<1>4. Len(chain') = n BY <1>2 DEF OneMore
<1>5. head' = n BY <1>4 DEF head
<1>6. Block \in Blocks BY <1>1, BlockType DEF Blocks
<1>7. chain'[n] = Block
  BY <1>1, <1>2, <1>6, AppendIsOneMore DEF Executed
<1>8. n \in Nat /\ ContractOf(n) = Contract /\ Contract # NoAddress
  BY <1>2 DEF PosdaoThroughout
<1>9. signer \in Validators BY <1>1 DEF Inv, TypeOK
<1> QED BY <1>1, <1>2, <1>3, <1>4, <1>5, <1>7, <1>8, <1>9 DEF Committed, Block, GetValidators

LEMMA CommitWaits ==
  ASSUME PosdaoThroughout, Inv,
         NEW n, NEW signer, NEW event, NEW call, Committed(n, signer, event, call)
  PROVE  /\ \A b \in 1..head :
              WaitsIn(chain', b, n) <=> WaitsIn(chain, b, head) /\ call # Contract
         /\ WaitsIn(chain', n, n) <=> event # "none"
<1>1. head = Len(chain) /\ head \in Nat BY CommittedChain
<1>2. \A b \in 1..head : ContractOf(b) = Contract BY <1>1 DEF PosdaoThroughout
<1> QED BY <1>1, <1>2, WaitsOn DEF Committed

\* The three things it can have done to the contract.
MajorityWaits == \E b \in 1..head : WaitsIn(chain, b, head) /\ MajorityIn(chain, b, head)

CallsContract(event, call) ==
  /\ call = Contract /\ event = "none"
  /\ MajorityWaits /\ contracts[Contract].announced
  /\ contracts'[Contract] = [active |-> contracts[Contract].next, announced |-> FALSE,
                             next |-> contracts[Contract].next]

LeavesContract(event, call) ==
  /\ call = NoAddress /\ event = "none"
  /\ ~MajorityWaits
  /\ contracts' = contracts

AnnouncesNext(event, call) ==
  /\ call = NoAddress /\ event # "none"
  /\ ~MajorityWaits
  /\ \E next \in NewSets :
       contracts'[Contract] = [active |-> contracts[Contract].active, announced |-> TRUE,
                               next |-> next]

LEMMA CommitStore ==
  ASSUME PosdaoThroughout, Inv, ChangeInv, Commit,
         NEW event, event = exec.event, NEW call, call = exec.finalize
  PROVE  \/ CallsContract(event, call)
         \/ LeavesContract(event, call)
         \/ AnnouncesNext(event, call)
<1>1. exec.phase = "finished" /\ contracts' = exec.evm
  BY CommitEffect
<1>2. Contract \in Contracts /\ Contract # NoAddress /\ contracts \in ContractStore
  BY PosdaoConditions DEF PosdaoThroughout, Inv, TypeOK
<1>3. CASE call # NoAddress
  <2>1. call = Contract /\ MajorityWaits
    BY <1>1, <1>3 DEF ChangeInv, MajorityWaits
  <2>2. event = "none" /\ contracts' = Called BY <1>1, <1>3 DEF ChangeInv
  <2>3. contracts[Contract].announced BY <2>1 DEF ChangeInv, MajorityWaits
  <2>4. contracts' = FinalizeChange(contracts, Contract) BY <1>3, <2>1, <2>2 DEF Called
  <2>5. contracts'[Contract] =
          [active |-> contracts[Contract].next, announced |-> FALSE,
           next |-> contracts[Contract].next]
    BY <1>2, <2>3, <2>4 DEF FinalizeChange, ContractStore
  <2> QED BY <2>1, <2>2, <2>3, <2>5 DEF CallsContract
<1>4. CASE call = NoAddress
  <2>1. ~MajorityWaits
    BY <1>1, <1>4 DEF ChangeInv, MajorityWaits
  <2>2. CASE event = "none"
    <3>1. contracts' = Called BY <1>1, <2>2 DEF ChangeInv
    <3> QED BY <1>4, <2>1, <2>2, <3>1 DEF Called, LeavesContract
  <2>3. CASE event # "none"
    <3>1. PICK next \in NewSets : contracts' = Announce(contracts, Contract, next)
      BY <1>1, <2>3 DEF ChangeInv
    <3>2. contracts'[Contract] =
            [active |-> contracts[Contract].active, announced |-> TRUE, next |-> next]
      BY <1>2, <3>1 DEF Announce, ContractStore
    <3> QED BY <1>4, <2>1, <2>3, <3>2 DEF AnnouncesNext
  <2> QED BY <2>2, <2>3
<1> QED BY <1>3, <1>4

LEMMA CommitChange ==
  ASSUME PosdaoThroughout, Inv, BlocksInv, ChangeInv, Commit
  PROVE  ChangeInv'
<1>1. PICK n, signer, event, call :
        n = head + 1 /\ signer = exec.signer /\ event = exec.event /\ call = exec.finalize
  OBVIOUS
<1>2. Committed(n, signer, event, call) BY <1>1, CommitFacts
<1>3. exec.phase = "finished" /\ exec'.phase = "idle"
      /\ chain' = Executed /\ Executed' = Executed
  BY CommitEffect
<1>4. /\ \A b \in 1..head :
           WaitsIn(chain', b, n) <=> WaitsIn(chain, b, head) /\ call # Contract
      /\ WaitsIn(chain', n, n) <=> event # "none"
  BY <1>2, CommitWaits
<1>5. head \in Nat /\ n \in 1..n /\ \A b : b \in 1..n <=> b \in 1..head \/ b = n
  BY <1>1, CommittedChain
<1>6. Contract' = Contract BY DEF Contract, ContractOf
<1>7. head' = n BY <1>2 DEF Committed
<1>8. Contract # NoAddress BY DEF PosdaoThroughout
<1>9. contracts[Contract].announced <=> \E b \in 1..head : WaitsIn(chain, b, head)
  BY DEF ChangeInv
<1>10. contracts'[Contract].announced <=> \E b \in 1..n : WaitsIn(chain', b, n)
  <2>1. CASE CallsContract(event, call)
    <3>1. call = Contract /\ event = "none" /\ ~contracts'[Contract].announced
      BY <2>1 DEF CallsContract
    <3>2. \A b \in 1..n : ~WaitsIn(chain', b, n) BY <1>4, <1>5, <3>1
    <3> QED BY <3>1, <3>2
  <2>2. CASE LeavesContract(event, call)
    <3>1. call = NoAddress /\ event = "none" /\ contracts' = contracts
      BY <2>2 DEF LeavesContract
    <3> QED BY <1>4, <1>5, <1>8, <1>9, <3>1
  <2>3. CASE AnnouncesNext(event, call)
    <3>1. event # "none" /\ contracts'[Contract].announced BY <2>3 DEF AnnouncesNext
    <3>2. WaitsIn(chain', n, n) BY <1>4, <3>1
    <3> QED BY <1>5, <3>1, <3>2
  <2> QED BY <1>1, <2>1, <2>2, <2>3, CommitStore
<1>11. head' > 0 => chain'[head'].active = contracts'[Contract].active
  BY <1>2 DEF Committed
<1>12. \A b \in 1..Len(Executed) : Executed[b].event # "none" => SealedIn(Executed, b)
  BY DEF ChangeInv
<1> QED BY <1>3, <1>6, <1>7, <1>10, <1>11, <1>12 DEF ChangeInv

LEMMA ChangeInvStep ==
  ASSUME PosdaoThroughout, Outsiders = {}, "at_call" \notin Eager, ~Abandon,
         Inv, BlocksInv, LifecycleInv, ChangeInv, [Next]_vars
  PROVE  ChangeInv'
<1>1. CASE UNCHANGED vars
  <2>1. UNCHANGED <<chain, contracts, exec>> BY <1>1 DEF vars
  <2>2. Executed' = Executed /\ head' = head /\ Called' = Called /\ Contract' = Contract
    BY <2>1 DEF Executed, Block, ContractOf, GetValidators, head, Called, FinalizeChange,
                Contract
  <2> QED BY <2>1, <2>2 DEF ChangeInv, Announce
<1> QED BY <1>1, StepCases, ContextForBlockChange, PreExecutionChange,
           FinishChange, CommitChange

\* Who sealed since the first announcement that waits.
InSupport(ch, a) ==
  \E b \in 1..Len(ch) : WaitsIn(ch, b, Len(ch)) /\ \E i \in b..Len(ch) : ch[i].signer = a

SupportIn(ch) ==
  UNION {SealersIn(ch, b, Len(ch)) : b \in {c \in 1..Len(ch) : WaitsIn(ch, c, Len(ch))}}

LEMMA SupportMembers ==
  ASSUME NEW ch, NEW a
  PROVE  a \in SupportIn(ch) <=> InSupport(ch, a)
<1>1. \A b : a \in SealersIn(ch, b, Len(ch)) <=> \E i \in b..Len(ch) : ch[i].signer = a
  BY DEF SealersIn
<1> QED BY <1>1 DEF SupportIn, InSupport

LEMMA SupportOfChain == Support = SupportIn(chain) /\ Support' = SupportIn(chain')
<1>1. /\ \A b, n : Waits(b, n) <=> WaitsIn(chain, b, n)
      /\ \A b, n : Sealers(b, n) = SealersIn(chain, b, n)
  BY DEF Waits, WaitsIn, Sealers, SealersIn
<1>2. Support = SupportIn(chain)
  BY <1>1 DEF Support, SupportIn, WaitingBlocks, head
<1>3. /\ \A b, n : Waits(b, n)' <=> WaitsIn(chain', b, n)
      /\ \A b, n : Sealers(b, n)' = SealersIn(chain', b, n)
  BY DEF Waits, WaitsIn, Sealers, SealersIn, ContractOf
<1>4. Support' = SupportIn(chain')
  BY <1>3 DEF Support, SupportIn, WaitingBlocks, head
<1> QED BY <1>2, <1>4

LEMMA NoSupport ==
  ASSUME Inv, \A b \in 1..head : ~WaitsIn(chain, b, head)
  PROVE  Support = {}
<1>1. head = Len(chain) BY CommittedChain
<1>2. \A a : ~InSupport(chain, a) BY <1>1 DEF InSupport
<1> QED BY <1>2, SupportOfChain, SupportMembers

LEMMA SealersFinite ==
  ASSUME NEW ch, NEW b \in Int, NEW n \in Int
  PROVE  IsFiniteSet(SealersIn(ch, b, n))
<1> DEFINE f == [i \in b..n |-> ch[i].signer]
           T == SealersIn(ch, b, n)
<1>1. T = {f[i] : i \in b..n} BY DEF SealersIn
<1>2. IsFiniteSet(T)
  <2> HIDE DEF f, T
  <2> QED BY <1>1, ValuesFinite
<1> QED BY <1>2

\* The abstract majority is the majority since one of the announcements.
LEMMA SupportIsMajority ==
  ASSUME Inv, ChangeInv
  PROVE  Change!Due <=> MajorityWaits
<1>1. /\ head = Len(chain) /\ head \in Nat /\ chain \in Seq(Blocks)
      /\ \A b, n : Waits(b, n) <=> WaitsIn(chain, b, n)
      /\ \A b, n : Sealers(b, n) = SealersIn(chain, b, n)
  BY CommittedChain
<1>2. PICK active, members : active = contracts[Contract].active /\ members = Range(active)
  OBVIOUS
<1>3. Change!Due <=> /\ contracts[Contract].announced
                     /\ Cardinality(Support \cap members) * 2 > Len(active)
  <2>1. \A S : Change!Cardinality(S) = Cardinality(S)
    BY DEF Change!Cardinality, Cardinality
  <2>2. Change!Range(active) = members BY <1>2 DEF Change!Range, Range
  <2> QED BY <1>2, <2>1, <2>2 DEF Change!Due
<1>4. contracts[Contract].announced <=> \E b \in 1..head : WaitsIn(chain, b, head)
  BY DEF ChangeInv
<1>5. CASE \A b \in 1..head : ~WaitsIn(chain, b, head)
  BY <1>3, <1>4, <1>5 DEF MajorityWaits
<1>6. CASE \E b \in 1..head : WaitsIn(chain, b, head)
  <2>1. WaitingBlocks = {b \in 1..head : WaitsIn(chain, b, head)}
    BY <1>1 DEF WaitingBlocks
  <2>2. WaitingBlocks \in SUBSET Nat /\ WaitingBlocks # {}
    BY <1>6, <2>1
  <2>3. PICK first \in WaitingBlocks : \A b \in WaitingBlocks : first <= b
    BY <2>2, LeastNumber
  <2>4. first \in 1..head /\ WaitsIn(chain, first, head) BY <2>1, <2>3
  <2>5. \A b \in WaitingBlocks : SealersIn(chain, b, head) \subseteq SealersIn(chain, first, head)
    BY <1>1, <2>1, <2>3 DEF SealersIn
  <2>6. Support = SealersIn(chain, first, head)
    BY <1>1, <2>3, <2>5 DEF Support
  <2>7. head > 0 /\ chain[head].active = active BY <1>1, <1>2, <2>4 DEF ChangeInv
  <2>8. \A b : MajorityIn(chain, b, head)
                <=> Cardinality(SealersIn(chain, b, head) \cap members) * 2 > Len(active)
    BY <1>2, <2>7 DEF MajorityIn
  <2>9. MajorityIn(chain, first, head) => MajorityWaits
    BY <2>4 DEF MajorityWaits
  <2>10. MajorityWaits => MajorityIn(chain, first, head)
    <3> SUFFICES ASSUME NEW b \in 1..head, WaitsIn(chain, b, head), MajorityIn(chain, b, head)
                 PROVE  MajorityIn(chain, first, head)
      BY DEF MajorityWaits
    <3>1. SealersIn(chain, b, head) \subseteq SealersIn(chain, first, head)
      BY <2>1, <2>5
    <3>2. IsFiniteSet(SealersIn(chain, first, head))
      BY <1>1, <2>4, SealersFinite
    <3>3. PICK S, T : S = SealersIn(chain, b, head) \cap members
                      /\ T = SealersIn(chain, first, head) \cap members
      OBVIOUS
    <3>4. IsFiniteSet(T) BY <3>2, <3>3, FS_Intersection
    <3>5. S \in SUBSET T BY <3>1, <3>3
    <3>6. Len(active) \in Nat
      <4>1. chain[head] \in Blocks BY <1>1, <2>7
      <4>2. active \in Seq(Validators) BY <2>7, <4>1 DEF Blocks
      <4> QED BY <4>2
    <3>7. Cardinality(S) * 2 > Len(active) BY <2>8, <3>3
    <3>8. Cardinality(T) * 2 > Len(active) BY <3>4, <3>5, <3>6, <3>7, MajorityGrows
    <3> QED BY <2>8, <3>3, <3>8
  <2> QED BY <1>3, <1>4, <1>6, <2>6, <2>8, <2>9, <2>10
<1> QED BY <1>5, <1>6

\* What a block adds to the support.
LEMMA SupportGrows ==
  ASSUME PosdaoThroughout, Inv, NEW n, NEW signer, NEW event, NEW call,
         Committed(n, signer, event, call), call # Contract
  PROVE  Support' = IF event = "none" /\ \A b \in 1..head : ~WaitsIn(chain, b, head)
                    THEN {} ELSE Support \cup {signer}
<1>1. /\ head = Len(chain) /\ head \in Nat /\ n = head + 1
      /\ OneMore(chain, chain') /\ Len(chain') = n /\ chain'[n].signer = signer
  BY CommittedChain DEF Committed
<1>2. /\ \A b \in 1..head : WaitsIn(chain', b, n) <=> WaitsIn(chain, b, head)
      /\ WaitsIn(chain', n, n) <=> event # "none"
  BY CommitWaits
<1>3. \A a : a \in Support <=> InSupport(chain, a)
  BY SupportOfChain, SupportMembers
<1>4. \A a : a \in Support' <=> InSupport(chain', a)
  BY SupportOfChain, SupportMembers
<1>5. \A b : b \in 1..n <=> b \in 1..head \/ b = n BY <1>1
<1>6. \A i \in 1..head : chain'[i].signer = chain[i].signer BY <1>1 DEF OneMore
<1>7. ASSUME NEW b \in 1..head, NEW a
      PROVE  (\E i \in b..n : chain'[i].signer = a)
               <=> (\E i \in b..head : chain[i].signer = a) \/ a = signer
  <2>1. \A i : i \in b..n <=> i \in b..head \/ i = n BY <1>1
  <2>2. \A i \in b..head : i \in 1..head BY <1>1
  <2> QED BY <1>1, <1>6, <2>1, <2>2
<1>8. ASSUME NEW a
      PROVE  (\E i \in n..n : chain'[i].signer = a) <=> a = signer
  BY <1>1
<1>9. ASSUME NEW a
      PROVE  InSupport(chain', a)
               <=> \/ InSupport(chain, a)
                   \/ a = signer /\ \E b \in 1..head : WaitsIn(chain, b, head)
                   \/ a = signer /\ event # "none"
  <2>1. InSupport(chain', a)
          <=> \/ \E b \in 1..head : WaitsIn(chain, b, head) /\ \E i \in b..n : chain'[i].signer = a
              \/ event # "none" /\ \E i \in n..n : chain'[i].signer = a
    BY <1>1, <1>2, <1>5 DEF InSupport
  <2>2. \A b \in 1..head :
          (\E i \in b..n : chain'[i].signer = a)
            <=> (\E i \in b..head : chain[i].signer = a) \/ a = signer
    BY <1>7
  <2>3. InSupport(chain, a)
          <=> \E b \in 1..head : WaitsIn(chain, b, head) /\ \E i \in b..head : chain[i].signer = a
    BY <1>1 DEF InSupport
  <2> HIDE DEF InSupport
  <2> QED BY <1>8, <2>1, <2>2, <2>3
<1>10. CASE event = "none" /\ \A b \in 1..head : ~WaitsIn(chain, b, head)
  <2>1. \A a : ~InSupport(chain, a) BY <1>1, <1>10 DEF InSupport
  <2>2. \A a : ~InSupport(chain', a) BY <1>9, <1>10, <2>1
  <2> QED BY <1>4, <1>10, <2>2
<1>11. CASE event # "none" \/ \E b \in 1..head : WaitsIn(chain, b, head)
  <2>1. \A a : InSupport(chain', a) <=> InSupport(chain, a) \/ a = signer BY <1>9, <1>11
  <2>2. \A a : a \in Support' <=> a \in Support \cup {signer} BY <1>3, <1>4, <2>1
  <2> QED BY <1>11, <2>2
<1> QED BY <1>10, <1>11

LEMMA InitImplements ==
  ASSUME PosdaoThroughout, Init
  PROVE  Change!Init
<1>1. Contract \in Contracts /\ Contract \notin Unfinalized
  BY PosdaoConditions DEF PosdaoThroughout
<1>2. /\ contracts[Contract].active = GenesisActive[Contract]
      /\ contracts[Contract].next = GenesisActive[Contract]
  BY <1>1 DEF Init
<1>4. contracts[Contract].announced = FALSE
  <2>1. contracts[Contract].announced = (Contract \in Unfinalized)
    BY <1>1, Zenon DEF Init
  <2>2. (Contract \in Unfinalized) = FALSE BY <1>1
  <2> QED BY <2>1, <2>2, Zenon
<1>3. Support = {}
  <2>1. Len(chain) = 0 BY DEF Init
  <2>2. \A a : ~InSupport(chain, a) BY <2>1 DEF InSupport
  <2> QED BY <2>2, SupportOfChain, SupportMembers
<1> QED BY <1>2, <1>3, <1>4 DEF Change!Init

\* A block that calls activates the announced set.
LEMMA CallActivates ==
  ASSUME PosdaoThroughout, Inv, ChangeInv,
         NEW n, NEW signer, NEW event, NEW call, Committed(n, signer, event, call),
         CallsContract(event, call)
  PROVE  Change!Activate
<1>1. /\ call = Contract /\ event = "none" /\ MajorityWaits
      /\ contracts'[Contract] = [active |-> contracts[Contract].next, announced |-> FALSE,
                                 next |-> contracts[Contract].next]
  BY DEF CallsContract
<1>2. Change!Due BY <1>1, SupportIsMajority
<1>3. Support' = {}
  <2>1. head \in Nat /\ n = head + 1 /\ Len(chain') = n BY CommittedChain DEF Committed
  <2>2. \A b \in 1..n : b \in 1..head \/ b = n BY <2>1
  <2>3. \A b \in 1..n : ~WaitsIn(chain', b, n) BY <1>1, <2>2, CommitWaits
  <2>4. \A a : ~InSupport(chain', a) BY <2>1, <2>3 DEF InSupport
  <2> QED BY <2>4, SupportOfChain, SupportMembers
<1>4. Contract' = Contract BY DEF Contract, ContractOf
<1> QED BY <1>1, <1>2, <1>3, <1>4 DEF Change!Activate

LEMMA OtherBlockSeals ==
  ASSUME PosdaoThroughout, Inv, ChangeInv,
         NEW n, NEW signer, NEW event, NEW call, Committed(n, signer, event, call),
         LeavesContract(event, call)
  PROVE  Change!Seal(signer)
<1>1. /\ call = NoAddress /\ call # Contract /\ event = "none" /\ ~MajorityWaits
      /\ contracts' = contracts
  BY DEF LeavesContract, PosdaoThroughout
<1>2. ~Change!Due BY <1>1, SupportIsMajority
<1>3. contracts[Contract].announced <=> \E b \in 1..head : WaitsIn(chain, b, head)
  BY DEF ChangeInv
<1>4. Support' = IF event = "none" /\ \A b \in 1..head : ~WaitsIn(chain, b, head)
                 THEN {} ELSE Support \cup {signer}
  BY <1>1, SupportGrows
<1>5. Support' = IF contracts[Contract].announced THEN Support \cup {signer} ELSE {}
  BY <1>1, <1>3, <1>4
<1>6. Contract' = Contract BY DEF Contract, ContractOf
<1> QED BY <1>1, <1>2, <1>5, <1>6 DEF Change!Seal

LEMMA EventAnnounces ==
  ASSUME PosdaoThroughout, Inv, ChangeInv,
         NEW n, NEW signer, NEW event, NEW call, Committed(n, signer, event, call),
         AnnouncesNext(event, call)
  PROVE  \E newSet \in NewSets : Change!SealAndAnnounce(signer, newSet)
<1>1. /\ call = NoAddress /\ call # Contract /\ event # "none" /\ ~MajorityWaits
  BY DEF AnnouncesNext, PosdaoThroughout
<1>2. PICK next \in NewSets :
        contracts'[Contract] = [active |-> contracts[Contract].active, announced |-> TRUE,
                                next |-> next]
  BY DEF AnnouncesNext
<1>3. ~Change!Due BY <1>1, SupportIsMajority
<1>4. Support' = Support \cup {signer}
  <2>1. Support' = IF event = "none" /\ \A b \in 1..head : ~WaitsIn(chain, b, head)
                   THEN {} ELSE Support \cup {signer}
    BY <1>1, SupportGrows
  <2> QED BY <1>1, <2>1
<1>5. Contract' = Contract BY DEF Contract, ContractOf
<1>6. Change!SealAndAnnounce(signer, next)
  BY <1>2, <1>3, <1>4, <1>5 DEF Change!SealAndAnnounce
<1> QED BY <1>6

LEMMA StepImplements ==
  ASSUME PosdaoThroughout, MaxFailures = 0, Inv, BlocksInv, ChangeInv, [Next]_vars
  PROVE  [Change!Next]_(Change!vars)
<1>1. CASE Commit
  <2>1. PICK n, signer, event, call :
          n = head + 1 /\ signer = exec.signer /\ event = exec.event /\ call = exec.finalize
    OBVIOUS
  <2>2. Committed(n, signer, event, call) BY <1>1, <2>1, CommitFacts
  <2>3. signer \in Validators BY <2>2 DEF Committed
  <2>4. CASE CallsContract(event, call)
    BY <2>2, <2>4, CallActivates DEF Change!Next
  <2>5. CASE LeavesContract(event, call)
    BY <2>2, <2>3, <2>5, OtherBlockSeals DEF Change!Next
  <2>6. CASE AnnouncesNext(event, call)
    BY <2>2, <2>3, <2>6, EventAnnounces DEF Change!Next
  <2> QED BY <1>1, <2>1, <2>4, <2>5, <2>6, CommitStore
<1>2. CASE UNCHANGED <<chain, contracts>>
  <2>1. Contract' = Contract BY DEF Contract, ContractOf
  <2>2. Support' = Support BY <1>2, SupportOfChain
  <2> QED BY <1>2, <2>1, <2>2 DEF Change!vars
<1>3. Commit \/ UNCHANGED <<chain, contracts>>
  <2>1. ContextForBlock => UNCHANGED <<chain, contracts>> BY DEF ContextForBlock
  <2>2. ApplyPreExecutionChanges => UNCHANGED <<chain, contracts>>
    BY DEF ApplyPreExecutionChanges
  <2>3. \A signer, event, store :
          Finishes(signer, event, store) => UNCHANGED <<chain, contracts>>
    BY DEF Finishes, Finished
  <2>4. UNCHANGED vars => UNCHANGED <<chain, contracts>> BY DEF vars
  <2> QED BY <2>1, <2>2, <2>3, <2>4, NothingFails, StepCases
<1> QED BY <1>1, <1>2, <1>3

\* With POSDAO throughout, one contract and no failed execution, the code and
\* the contract together do what the abstract specification says: the announced
\* set is active from the first block on after a majority of the old one sealed,
\* and no other block changes the set.  The block that activates a set announces
\* none.
THEOREM ImplementsValidatorChange ==
  ASSUME MaxFailures = 0, PosdaoThroughout, Outsiders = {}, "at_call" \notin Eager
  PROVE  Spec => ImplementsChange
<1>1. OneContract /\ QuietTurns BY PosdaoConditions
<1>2. Init => Change!Init /\ Inv /\ BlocksInv /\ LifecycleInv /\ ChangeInv
  BY InitInv, InitBlocks, InitLifecycle, InitChange, InitImplements
<1>3. Inv /\ BlocksInv /\ LifecycleInv /\ ChangeInv /\ [Next]_vars
        => (Inv /\ BlocksInv /\ LifecycleInv /\ ChangeInv)'
  BY <1>1, NextInv, NothingFails, BlocksInvStep, LifecycleInvStep, ChangeInvStep
<1>4. Inv /\ BlocksInv /\ ChangeInv /\ [Next]_vars => [Change!Next]_(Change!vars)
  BY StepImplements
<1> QED BY <1>2, <1>3, <1>4, PTL DEF Spec, ImplementsChange, Change!Spec

(***************************************************************************)
(* Recovery.  The replay counts a shorter window than the live tracker and *)
(* starts from nothing; the two agree on what is pending and scheduled     *)
(* because what a push takes out depends only on the blocks from the       *)
(* oldest pending one on, which both windows have.                         *)
(*                                                                         *)
(* Which blocks a push takes out of the window, said without the queue.    *)
(***************************************************************************)
\* who sealed the blocks of the window from b on, block n included
Behind(t, ch, b, n) == {ch[x].signer : x \in {y \in b..n : InWindow(t, y) \/ y = n}}

Final(t, ch, b, n) == Cardinality(Behind(t, ch, b, n)) * 2 > Len(t.validators)

\* what is in the window and behind a majority leaves, all else stays
PushedExactly(t, u, ch2, n) ==
  /\ \A b : InWindow(u, b) => InWindow(t, b) \/ b = n
  /\ \A b : InWindow(t, b) \/ b = n => (InWindow(u, b) <=> ~Final(t, ch2, b, n))
  /\ \A b \in DOMAIN t.pending_transitions :
       b \in DOMAIN u.pending_transitions
         <=> ~ ((InWindow(t, b) \/ b = n) /\ Final(t, ch2, b, n))
  /\ \/ /\ DOMAIN u.pending_transitions = DOMAIN t.pending_transitions
        /\ u.finalize_change_at = t.finalize_change_at
     \/ \E b \in DOMAIN t.pending_transitions \ DOMAIN u.pending_transitions :
          u.finalize_change_at = [at |-> n + 1, address |-> t.pending_transitions[b]]

\* A block leaves the window exactly if a majority is behind it, and a
\* transition leaves exactly if its block does.
LEMMA PushExactly ==
  ASSUME NEW ch, NEW ch2, OneMore(ch, ch2),
         NEW t, InOrder(t, Validators, Contracts), WindowOf(t, ch),
         NEW signer \in Validators, ch2[Len(ch2)].signer = signer,
         IsPosdao(Len(ch2)),
         signer \in Range(t.validators),
         NEW n, n = Len(ch2), NEW u, u = Push(t, n, signer)
  PROVE  u.validators = t.validators /\ PushedExactly(t, u, ch2, n)
<1>1. n \in Nat BY DEF OneMore
<1>2. u.validators = t.validators BY PushCuts
<1>3. PICK hs, l, k : Cuts(t, u, hs, l, k, ch2, n)
  BY PushCuts
<1>4. /\ k \in Nat /\ l \in Nat /\ k <= l
      /\ \A i, j \in 1..l : i < j <=> hs[i].num < hs[j].num
      /\ \A i \in 1..l : hs[i].num \in 1..n /\ ch2[hs[i].num].signer = hs[i].signer
      /\ \A b : InWindow(u, b) <=> \E i \in (k+1)..l : hs[i].num = b
      /\ \A b : InWindow(t, b) \/ b = n <=> \E i \in 1..l : hs[i].num = b
      /\ DOMAIN u.headers = 1..(l - k)
      /\ \A i \in 1..(l - k) : u.headers[i] = hs[k + i]
  BY <1>3 DEF Cuts
<1>5. /\ \A i \in 1..k : Cardinality({hs[j].signer : j \in i..l}) * 2 > Len(t.validators)
      /\ DOMAIN u.pending_transitions =
           {b \in DOMAIN t.pending_transitions : \A i \in 1..k : hs[i].num # b}
  <2>1. Pops(t, u, hs, n, k) /\ l = Len(hs) BY <1>3 DEF Cuts
  <2>2. \A i \in 1..k : Cardinality({hs[j].signer : j \in i..l}) * 2 > Len(t.validators)
    BY <1>2, <2>1 DEF Pops
  <2>3. u.pending_transitions =
          Restrict(t.pending_transitions,
                   DOMAIN t.pending_transitions \ {hs[i].num : i \in 1..k})
    BY <2>1 DEF Pops
  <2> QED BY <2>2, <2>3 DEF Restrict
<1>6. ASSUME NEW i \in 1..l
      PROVE  Behind(t, ch2, hs[i].num, n) = {hs[j].signer : j \in i..l}
  <2>1. ASSUME NEW x \in hs[i].num..n, InWindow(t, x) \/ x = n
        PROVE  \E j \in i..l : ch2[x].signer = hs[j].signer
    <3>1. PICK j \in 1..l : hs[j].num = x BY <1>4, <2>1
    <3>2. ~ (hs[j].num < hs[i].num) BY <1>1, <1>4, <2>1, <3>1
    <3>3. j \in i..l BY <1>4, <3>1, <3>2
    <3> QED BY <1>4, <3>1, <3>3
  <2>2. ASSUME NEW j \in i..l
        PROVE  \E x \in hs[i].num..n : (InWindow(t, x) \/ x = n) /\ ch2[x].signer = hs[j].signer
    <3>1. j \in 1..l BY <1>4
    <3>2. hs[j].num \in 1..n /\ hs[i].num \in 1..n BY <1>4, <3>1
    <3>3. ~ (hs[j].num < hs[i].num) BY <1>4, <3>1
    <3>4. hs[j].num \in hs[i].num..n BY <1>1, <3>2, <3>3
    <3>5. InWindow(t, hs[j].num) \/ hs[j].num = n BY <1>4, <3>1
    <3> QED BY <1>4, <3>1, <3>4, <3>5
  <2> DEFINE B == {y \in hs[i].num..n : InWindow(t, y) \/ y = n}
  <2>3. \A x \in B : \E j \in i..l : ch2[x].signer = hs[j].signer BY <2>1
  <2>4. \A j \in i..l : \E x \in B : ch2[x].signer = hs[j].signer BY <2>2
  <2>5. Behind(t, ch2, hs[i].num, n) = {ch2[x].signer : x \in B} BY DEF Behind
  <2> HIDE DEF B
  <2>6. {ch2[x].signer : x \in B} \subseteq {hs[j].signer : j \in i..l} BY <2>3
  <2>7. {hs[j].signer : j \in i..l} \subseteq {ch2[x].signer : x \in B} BY <2>4
  <2> QED BY <2>5, <2>6, <2>7
<1>7. ASSUME NEW i \in 1..k PROVE i \in 1..l /\ Final(t, ch2, hs[i].num, n)
  <2>1. i \in 1..l BY <1>4
  <2> QED BY <1>5, <1>6, <2>1 DEF Final
<1>8. ASSUME NEW i \in (k+1)..l PROVE i \in 1..l /\ ~Final(t, ch2, hs[i].num, n)
  <2> DEFINE S == {hs[j].signer : j \in i..l}
             T == DOMAIN u.sign_count
  <2>1. i \in 1..l BY <1>4
  <2>2. InOrder(u, Validators, Contracts) BY <1>1, PushKeeps
  <2>3. /\ T = {u.headers[j].signer : j \in DOMAIN u.headers}
        /\ T \subseteq Range(t.validators)
        /\ ~ (Cardinality(T) * 2 > Len(t.validators))
    BY <1>2, <2>2 DEF InOrder, CountsWindow, SignersKnown, NoMajority, IsFinalized
  <2>4. S \subseteq T
    <3> SUFFICES ASSUME NEW j \in i..l PROVE hs[j].signer \in T
      OBVIOUS
    <3>1. j - k \in 1..(l - k) /\ k + (j - k) = j BY <1>4
    <3>2. j - k \in DOMAIN u.headers /\ u.headers[j - k] = hs[j] BY <1>4, <3>1
    <3> QED BY <2>3, <3>2
  <2>5. IsFiniteSet(T) /\ Len(t.validators) \in Nat
    <3>1. t.validators \in Seq(Validators) BY DEF InOrder, IsTracker
    <3>2. IsFiniteSet(Range(t.validators)) BY <3>1, RangeFinite
    <3> QED BY <2>3, <3>1, <3>2, FS_Subset
  <2>6. ~ (Cardinality(S) * 2 > Len(t.validators))
    <3> HIDE DEF S, T
    <3> QED BY <2>3, <2>4, <2>5, MajorityGrows
  <2> QED BY <1>6, <2>1, <2>6 DEF Final
<1>9. \A i \in 1..l : i \in 1..k \/ i \in (k+1)..l BY <1>4
<1>10. \A b : InWindow(u, b) => InWindow(t, b) \/ b = n
  BY <1>4, <1>8
<1>11. ASSUME NEW b, InWindow(t, b) \/ b = n
       PROVE  InWindow(u, b) <=> ~Final(t, ch2, b, n)
  <2>1. PICK i \in 1..l : hs[i].num = b BY <1>4, <1>11
  <2> QED BY <1>4, <1>7, <1>8, <1>9, <2>1
<1>12. ASSUME NEW b \in DOMAIN t.pending_transitions
       PROVE  b \in DOMAIN u.pending_transitions
                <=> ~ ((InWindow(t, b) \/ b = n) /\ Final(t, ch2, b, n))
  <2>1. ASSUME NEW i \in 1..k, hs[i].num = b
        PROVE  (InWindow(t, b) \/ b = n) /\ Final(t, ch2, b, n)
    BY <1>4, <1>7, <2>1
  <2>2. ASSUME InWindow(t, b) \/ b = n, Final(t, ch2, b, n)
        PROVE  \E i \in 1..k : hs[i].num = b
    <3>1. PICK i \in 1..l : hs[i].num = b BY <1>4, <2>2
    <3> QED BY <1>8, <1>9, <2>2, <3>1
  <2> QED BY <1>5, <2>1, <2>2
<1>13. \/ /\ DOMAIN u.pending_transitions = DOMAIN t.pending_transitions
          /\ u.finalize_change_at = t.finalize_change_at
       \/ \E b \in DOMAIN t.pending_transitions \ DOMAIN u.pending_transitions :
            u.finalize_change_at = [at |-> n + 1, address |-> t.pending_transitions[b]]
  <2>1. Pops(t, u, hs, n, k) BY <1>3 DEF Cuts
  <2>2. CASE /\ \A i \in 1..k : hs[i].num \notin DOMAIN t.pending_transitions
             /\ u.finalize_change_at = t.finalize_change_at
    <3>1. \A b \in DOMAIN t.pending_transitions : b \in DOMAIN u.pending_transitions
      BY <1>5, <2>2
    <3>2. DOMAIN u.pending_transitions \subseteq DOMAIN t.pending_transitions BY <1>5
    <3> QED BY <2>2, <3>1, <3>2
  <2>3. ASSUME NEW i \in 1..k,
               hs[i].num \in DOMAIN t.pending_transitions,
               u.finalize_change_at =
                 [at |-> n + 1, address |-> t.pending_transitions[hs[i].num]]
        PROVE  \E b \in DOMAIN t.pending_transitions \ DOMAIN u.pending_transitions :
                 u.finalize_change_at = [at |-> n + 1, address |-> t.pending_transitions[b]]
    <3>1. hs[i].num \notin DOMAIN u.pending_transitions BY <1>5
    <3> QED BY <2>3, <3>1
  <2> QED BY <2>1, <2>2, <2>3 DEF Pops
<1> QED BY <1>2, <1>10, <1>11, <1>12, <1>13 DEF PushedExactly

(***************************************************************************)
(* Two trackers that count different windows and say the same.             *)
(***************************************************************************)
\* the same is pending and scheduled, and from a pending block on the windows
\* are the same
Alike(t, u) ==
  /\ DOMAIN u.pending_transitions = DOMAIN t.pending_transitions
  /\ u.finalize_change_at = t.finalize_change_at
  /\ \A p \in DOMAIN t.pending_transitions : \A b \in Nat :
       b >= p => (InWindow(u, b) <=> InWindow(t, b))

\* One contract is in force wherever something is pending.
LEMMA PendingContract ==
  ASSUME OneContract, NEW t, NEW ch, Len(ch) \in Nat, PendingOf(t, ch),
         NEW b \in DOMAIN t.pending_transitions
  PROVE  /\ b \in Nat
         /\ t.pending_transitions[b] = ContractOf(PosdaoTransition)
<1>1. b \in Nat /\ IsPosdao(b) /\ IsPreMerge(b) /\ t.pending_transitions[b] = ContractOf(b)
  BY DEF PendingOf
<1> QED BY <1>1, PosdaoContract

\* From a pending block on the same blocks have a majority behind them.
LEMMA FinalAlike ==
  ASSUME NEW t, NEW u, Alike(t, u), Len(u.validators) = Len(t.validators),
         NEW ch, NEW n \in Nat, NEW p \in DOMAIN t.pending_transitions, p \in Nat,
         NEW b \in Nat, b >= p
  PROVE  /\ InWindow(u, b) <=> InWindow(t, b)
         /\ Final(u, ch, b, n) <=> Final(t, ch, b, n)
<1>1. \A y \in b..n : InWindow(u, y) <=> InWindow(t, y)
  BY DEF Alike
<1>2. Behind(u, ch, b, n) = Behind(t, ch, b, n)
  BY <1>1 DEF Behind
<1> QED BY <1>2 DEF Final, Alike

\* A block pushed to both leaves them alike.
LEMMA PushesAlike ==
  ASSUME OneContract, NEW ch, NEW ch2, OneMore(ch, ch2),
         NEW signer \in Validators, ch2[Len(ch2)].signer = signer,
         IsPosdao(Len(ch2)), NEW n, n = Len(ch2),
         NEW t, InOrder(t, Validators, Contracts), WindowOf(t, ch), PendingOf(t, ch2),
         signer \in Range(t.validators),
         NEW u, InOrder(u, Validators, Contracts), WindowOf(u, ch), PendingOf(u, ch2),
         signer \in Range(u.validators),
         Alike(t, u), Len(u.validators) = Len(t.validators),
         NEW t2, t2 = Push(t, n, signer), NEW u2, u2 = Push(u, n, signer)
  PROVE  Alike(t2, u2)
<1> DEFINE P == DOMAIN t.pending_transitions
<1>1. n \in Nat BY DEF OneMore
<1>2. /\ \A b : InWindow(t2, b) => InWindow(t, b) \/ b = n
      /\ \A b : InWindow(t, b) \/ b = n => (InWindow(t2, b) <=> ~Final(t, ch2, b, n))
      /\ \A b \in P : b \in DOMAIN t2.pending_transitions
                       <=> ~ ((InWindow(t, b) \/ b = n) /\ Final(t, ch2, b, n))
      /\ \/ /\ DOMAIN t2.pending_transitions = P
            /\ t2.finalize_change_at = t.finalize_change_at
         \/ \E b \in P \ DOMAIN t2.pending_transitions :
              t2.finalize_change_at = [at |-> n + 1, address |-> t.pending_transitions[b]]
  <2>1. PushedExactly(t, t2, ch2, n) BY PushExactly
  <2> QED BY <2>1 DEF PushedExactly
<1>3. /\ \A b : InWindow(u2, b) => InWindow(u, b) \/ b = n
      /\ \A b : InWindow(u, b) \/ b = n => (InWindow(u2, b) <=> ~Final(u, ch2, b, n))
      /\ \A b \in DOMAIN u.pending_transitions : b \in DOMAIN u2.pending_transitions
                       <=> ~ ((InWindow(u, b) \/ b = n) /\ Final(u, ch2, b, n))
      /\ \/ /\ DOMAIN u2.pending_transitions = DOMAIN u.pending_transitions
            /\ u2.finalize_change_at = u.finalize_change_at
         \/ \E b \in DOMAIN u.pending_transitions \ DOMAIN u2.pending_transitions :
              u2.finalize_change_at = [at |-> n + 1, address |-> u.pending_transitions[b]]
  <2>1. PushedExactly(u, u2, ch2, n) BY PushExactly
  <2> QED BY <2>1 DEF PushedExactly
<1>4. DOMAIN u.pending_transitions = P /\ u.finalize_change_at = t.finalize_change_at
  BY DEF Alike
<1>5. /\ \A b \in P : b \in Nat /\ t.pending_transitions[b] = ContractOf(PosdaoTransition)
      /\ \A b \in P : u.pending_transitions[b] = ContractOf(PosdaoTransition)
  BY <1>1, <1>4, PendingContract
<1>6. ASSUME NEW p \in P, NEW b \in Nat, b >= p
      PROVE  /\ InWindow(u, b) <=> InWindow(t, b)
             /\ Final(u, ch2, b, n) <=> Final(t, ch2, b, n)
  BY <1>1, <1>5, <1>6, FinalAlike
<1>7. DOMAIN t2.pending_transitions \subseteq P /\ DOMAIN u2.pending_transitions \subseteq P
  <2>1. DOMAIN t2.pending_transitions \subseteq P BY PushKeepsChain
  <2>2. DOMAIN u2.pending_transitions \subseteq DOMAIN u.pending_transitions BY PushKeepsChain
  <2> QED BY <1>4, <2>1, <2>2
<1>8. \A b \in P : b \in DOMAIN u2.pending_transitions <=> b \in DOMAIN t2.pending_transitions
  <2> SUFFICES ASSUME NEW b \in P
               PROVE  b \in DOMAIN u2.pending_transitions <=> b \in DOMAIN t2.pending_transitions
    OBVIOUS
  <2>1. b \in Nat /\ b >= b BY <1>5
  <2>2. /\ InWindow(u, b) <=> InWindow(t, b)
        /\ Final(u, ch2, b, n) <=> Final(t, ch2, b, n)
    BY <1>6, <2>1
  <2> QED BY <1>2, <1>3, <1>4, <2>2
<1>9. DOMAIN u2.pending_transitions = DOMAIN t2.pending_transitions
  BY <1>7, <1>8
<1>10. u2.finalize_change_at = t2.finalize_change_at
  <2> DEFINE due == [at |-> n + 1, address |-> ContractOf(PosdaoTransition)]
             left == P # DOMAIN t2.pending_transitions
  <2>1. t2.finalize_change_at = IF left THEN due ELSE t.finalize_change_at
    <3>1. CASE \E b \in P \ DOMAIN t2.pending_transitions :
                 t2.finalize_change_at = [at |-> n + 1, address |-> t.pending_transitions[b]]
      BY <1>5, <3>1
    <3> QED BY <1>2, <3>1
  <2>2. u2.finalize_change_at = IF left THEN due ELSE t.finalize_change_at
    <3>1. CASE \E b \in P \ DOMAIN u2.pending_transitions :
                 u2.finalize_change_at = [at |-> n + 1, address |-> u.pending_transitions[b]]
      BY <1>5, <1>9, <3>1
    <3> QED BY <1>3, <1>4, <1>9, <3>1
  <2> QED BY <2>1, <2>2
<1>11. ASSUME NEW p \in DOMAIN t2.pending_transitions, NEW b \in Nat, b >= p
       PROVE  InWindow(u2, b) <=> InWindow(t2, b)
  <2>1. p \in P BY <1>7
  <2>2. /\ InWindow(u, b) <=> InWindow(t, b)
        /\ Final(u, ch2, b, n) <=> Final(t, ch2, b, n)
    BY <1>6, <1>11, <2>1
  <2> QED BY <1>2, <1>3, <2>2
<1> QED BY <1>9, <1>10, <1>11 DEF Alike

\* So does a transition noted in both for a block behind both windows.
LEMMA NotesAlike ==
  ASSUME NEW ch, Len(ch) \in Nat, NEW n, n = Len(ch) + 1,
         NEW t, WindowOf(t, ch), NEW u, WindowOf(u, ch), Alike(t, u),
         NEW t2, t2.headers = t.headers, t2.finalize_change_at = t.finalize_change_at,
         DOMAIN t2.pending_transitions = DOMAIN t.pending_transitions \cup {n},
         NEW u2, u2.headers = u.headers, u2.finalize_change_at = u.finalize_change_at,
         DOMAIN u2.pending_transitions = DOMAIN u.pending_transitions \cup {n}
  PROVE  Alike(t2, u2)
<1>1. \A b : (InWindow(t2, b) <=> InWindow(t, b)) /\ (InWindow(u2, b) <=> InWindow(u, b))
  BY DEF InWindow
<1>2. ASSUME NEW b \in Nat, b >= n PROVE ~InWindow(t, b) /\ ~InWindow(u, b)
  BY <1>2 DEF InWindow, WindowOf
<1>3. \A p \in DOMAIN t2.pending_transitions : \A b \in Nat :
        b >= p => (InWindow(u2, b) <=> InWindow(t2, b))
  BY <1>1, <1>2 DEF Alike
<1> QED BY <1>3 DEF Alike

\* And so does the call that is due, taken from both.
LEMMA TakesAlike ==
  ASSUME NEW t, InOrder(t, Validators, Contracts), NEW u, InOrder(u, Validators, Contracts),
         Alike(t, u), NEW n,
         NEW t2, t2 = TakeFinalizeChange(t, n), NEW u2, u2 = TakeFinalizeChange(u, n)
  PROVE  Alike(t2, u2)
<1>1. FinalizeDue(u, n) <=> FinalizeDue(t, n) BY DEF Alike, FinalizeDue, Scheduled
<1>2. IsTracker(t, Validators, Contracts) /\ IsTracker(u, Validators, Contracts)
  BY DEF InOrder
<1>3. CASE ~FinalizeDue(t, n)
  BY <1>1, <1>3 DEF TakeFinalizeChange
<1>4. CASE FinalizeDue(t, n)
  <2>1. /\ t2.pending_transitions = t.pending_transitions
        /\ t2.finalize_change_at = NotScheduled /\ t2.headers = <<>>
    BY <1>2, <1>4 DEF TakeFinalizeChange, IsTracker
  <2>2. /\ u2.pending_transitions = u.pending_transitions
        /\ u2.finalize_change_at = NotScheduled /\ u2.headers = <<>>
    BY <1>1, <1>2, <1>4 DEF TakeFinalizeChange, IsTracker
  <2>3. \A b : ~InWindow(t2, b) /\ ~InWindow(u2, b) BY <2>1, <2>2 DEF InWindow
  <2> QED BY <2>1, <2>2, <2>3 DEF Alike
<1> QED BY <1>3, <1>4

(***************************************************************************)
(* What the chain records.                                                 *)
(***************************************************************************)
LEMMA PushPlain ==
  ASSUME NEW t, InOrder(t, Validators, Contracts), Plain(t),
         NEW n \in Nat, NEW signer \in Validators, NEW u, u = Push(t, n, signer)
  PROVE  Plain(u)
<1>1. CASE t.validators_sealed /\ signer \notin Range(t.validators)
  BY <1>1, PushDrops
<1>2. CASE ~ (t.validators_sealed /\ signer \notin Range(t.validators))
  <2>1. PICK hs : hs = WindowWith(t, n, signer) OBVIOUS
  <2>2. PopsSome(t, u, hs, n) BY <1>2, <2>1, PushPops
  <2>3. PICK k : Pops(t, u, hs, n, k) BY <2>2 DEF PopsSome
  <2>4. IsMap(u.pending_transitions)
    BY <2>3 DEF Pops, Restrict, IsMap
  <2>5. \A b \in DOMAIN t.pending_transitions : t.pending_transitions[b] \in Contracts
    BY DEF InOrder, IsTracker
  <2>6. \/ u.finalize_change_at = t.finalize_change_at
        \/ u.finalize_change_at.address \in Contracts
    <3>1. CASE u.finalize_change_at = t.finalize_change_at
      BY <3>1
    <3>2. ASSUME NEW i, hs[i].num \in DOMAIN t.pending_transitions,
                 u.finalize_change_at =
                   [at |-> n + 1, address |-> t.pending_transitions[hs[i].num]]
          PROVE  u.finalize_change_at.address \in Contracts
      BY <2>5, <3>2
    <3> QED BY <2>3, <3>1, <3>2 DEF Pops
  <2>7. ~Scheduled(u) => u.finalize_change_at = NotScheduled
    BY <2>6, AuraExecutionAssumption DEF Plain, Scheduled
  <2> QED BY <2>4, <2>7 DEF Plain
<1> QED BY <1>1, <1>2

LEMMA AddPendingPlain ==
  ASSUME NEW t, IsTracker(t, Validators, Contracts), Plain(t), NEW n, NEW contract,
         NEW u, u = AddPendingTransition(t, n, contract)
  PROVE  Plain(u)
<1> DEFINE pt == [b \in DOMAIN t.pending_transitions \cup {n} |->
                    IF b = n THEN contract ELSE t.pending_transitions[b]]
<1>1. u = [t EXCEPT !.pending_transitions = pt] BY Zenon DEF AddPendingTransition
<1>2. IsMap(pt) BY DEF IsMap
<1> HIDE DEF pt
<1>3. u.pending_transitions = pt /\ u.finalize_change_at = t.finalize_change_at
  BY <1>1 DEF IsTracker
<1> QED BY <1>2, <1>3 DEF Plain, Scheduled

LEMMA TakePlain ==
  ASSUME NEW t, IsTracker(t, Validators, Contracts), Plain(t), NEW n,
         NEW u, u = TakeFinalizeChange(t, n)
  PROVE  Plain(u)
<1>1. \/ u = t
      \/ u.pending_transitions = t.pending_transitions /\ u.finalize_change_at = NotScheduled
  BY DEF TakeFinalizeChange, IsTracker
<1> QED BY <1>1 DEF Plain

LEMMA SetValidatorsPlain ==
  ASSUME NEW validators
  PROVE  Plain(SetValidators(New(<<>>), validators)) /\ Plain(New(<<>>))
BY DEF Plain, SetValidators, New, EmptyMap, IsMap, NotScheduled, Scheduled

\* finish keeps it so.
LEMMA FinishPlain ==
  ASSUME Inv, Plain(rf), NEW signer \in Validators, NEW event,
         event # "none" => ContractOf(exec.n) \in Contracts,
         NEW n, n = exec.n
  PROVE  Plain(AfterFinish(n, event, signer))
<1>1. n \in Nat /\ InOrder(rf, Validators, Contracts) /\ IsTracker(rf, Validators, Contracts)
  BY DEF Inv, TypeOK
<1>2. Plain(NoteEvent(n, event)) /\ InOrder(NoteEvent(n, event), Validators, Contracts)
  <2>1. CASE event = "none"
    BY <1>1, <2>1 DEF NoteEvent
  <2>2. CASE event # "none" /\ IsPosdao(n)
    BY <1>1, <2>2, AddPendingTransitionKeeps, AddPendingPlain DEF NoteEvent
  <2>3. CASE event # "none" /\ ~IsPosdao(n)
    <3>1. NoteEvent(n, event) = SetImmediateFinalize(rf, n + 1, ContractOf(n))
      BY <2>3 DEF NoteEvent
    <3>2. PICK u : u = NoteEvent(n, event) OBVIOUS
    <3>3. u.pending_transitions = rf.pending_transitions
          /\ u.finalize_change_at.address = ContractOf(n)
      BY <1>1, <3>1, <3>2, SetImmediateFinalizeFields
    <3>4. Scheduled(u) BY <2>3, <3>3, AuraExecutionAssumption DEF Scheduled
    <3>5. InOrder(u, Validators, Contracts)
      BY <1>1, <2>3, <3>1, <3>2, SetImmediateFinalizeKeeps
    <3> QED BY <3>2, <3>3, <3>4, <3>5 DEF Plain
  <2> QED BY <2>1, <2>2, <2>3
<1>3. Plain(Push(NoteEvent(n, event), n, signer))
  BY <1>1, <1>2, PushPlain
<1> QED BY <1>2, <1>3 DEF AfterFinish

LEMMA InitRecord == Init => RecordedInv
<1> SUFFICES ASSUME Init PROVE RecordedInv
  OBVIOUS
<1>1. chain = <<>> /\ exec.phase = "idle" /\ rf = New(<<>>)
  BY DEF Init, Idle
<1>2. Executed = <<>> /\ Len(Executed) = 0 BY <1>1 DEF Executed
<1>3. Plain(rf) BY <1>1, SetValidatorsPlain
<1>4. AnnouncersCount(Executed) BY <1>2 DEF AnnouncersCount
<1> QED BY <1>1, <1>2, <1>3, <1>4 DEF RecordedInv

LEMMA ContextForBlockRecord ==
  ASSUME Inv, RecordedInv, ContextForBlock
  PROVE  RecordedInv'
<1>1. /\ exec'.phase = "context"
      /\ Executed = chain /\ Executed' = chain
      /\ rf' = rf \/ \E n : rf' = TakeFinalizeChange(rf, n)
  BY ContextEffect
<1>2. Plain(rf)' 
  <2>1. Plain(rf) /\ IsTracker(rf, Validators, Contracts) BY DEF RecordedInv, Inv, TypeOK
  <2>2. Plain(rf') BY <1>1, <2>1, TakePlain
  <2> QED BY <2>2 DEF Plain, Scheduled, IsMap
<1> QED BY <1>1, <1>2 DEF RecordedInv

LEMMA PreExecutionRecord ==
  ASSUME Inv, BlocksInv, RecordedInv, ApplyPreExecutionChanges
  PROVE  RecordedInv'
<1>1. /\ exec.phase = "context" /\ exec'.phase = "pre_execution"
      /\ exec'.finalize = exec.finalize /\ exec'.evm = EvmAfterFinalizeChange
      /\ rf' = AfterRefresh /\ UNCHANGED <<chain, contracts>>
      /\ Executed = chain /\ Executed' = chain
  BY PreExecutionEffect
<1>2. exec.finalize = NoAddress => EvmAfterFinalizeChange = contracts
  BY <1>1 DEF EvmAfterFinalizeChange, BlocksInv
<1>3. /\ rf'.pending_transitions = rf.pending_transitions
      /\ rf'.finalize_change_at = rf.finalize_change_at
  BY <1>1, PreExecutionFields
<1>4. Plain(rf)' BY <1>3 DEF RecordedInv, Plain, Scheduled
<1> QED BY <1>1, <1>2, <1>4 DEF RecordedInv

\* Who announces a change in a POSDAO block is of the set that the block leaves
\* active.
LEMMA AnnouncerIsMember ==
  ASSUME OneContract, QuietTakeover, Outsiders = {}, "at_call" \notin Eager,
         Inv, BlocksInv, RecordedInv,
         NEW signer \in Validators, NEW event \in Events, NEW store \in ContractStore,
         Finishes(signer, event, store), event # "none",
         NEW n, n = exec.n, IsPosdao(n), IsPreMerge(n)
  PROVE  signer \in Range(GetValidators(store, ContractOf(n)))
<1>1. /\ exec.phase = "pre_execution" /\ exec.finalize = NoAddress
      /\ signer \in MaySeal(n) /\ n \notin Quiet
      /\ \E next \in NewSets : store = Announce(exec.evm, ContractOf(n), next)
  BY DEF Finishes
<1>2. exec.evm = contracts BY <1>1 DEF RecordedInv
<1>3. n \in Nat /\ n - 1 \in Nat /\ n > 0 /\ (n - 1) + 1 = n /\ PosdaoTransition \in Nat
  BY <1>1, AuraExecutionAssumption DEF BlocksInv, head, Inv, TypeOK
<1>4. ContractOf(n) = ContractOf(PosdaoTransition) /\ ContractOf(n) # NoAddress
  BY <1>3, PosdaoContract
<1>5. ContractOf(n - 1) = ContractOf(n)
  <2>1. CASE IsPosdao(n - 1)
    <3>1. IsPreMerge(n - 1) BY <1>3, AuraExecutionAssumption DEF IsPreMerge
    <3> QED BY <1>3, <1>4, <2>1, <3>1, PosdaoContract
  <2>2. CASE ~IsPosdao(n - 1)
    <3>1. n = PosdaoTransition BY <1>3, <2>2 DEF IsPosdao
    <3> QED BY <1>1, <1>3, <3>1 DEF QuietTakeover
  <2> QED BY <2>1, <2>2
<1>6. ~HasListAt(Sets, n - 1) BY <1>3, <1>4, <1>5, ContractNoList
<1>7. signer \in Range(GetValidators(contracts, ContractOf(n)))
  BY <1>1, <1>4, <1>5, <1>6 DEF MaySeal
<1>8. ContractOf(n) \in Contracts
  BY <1>3, <1>4, ContractOfType DEF ContractOf, AddressOrNone
<1>9. contracts \in ContractStore BY DEF Inv, TypeOK
<1>10. PICK c : c = ContractOf(n) OBVIOUS
<1>11. \A next : GetValidators(Announce(contracts, c, next), c) = GetValidators(contracts, c)
  BY <1>8, <1>9, <1>10 DEF GetValidators, Announce, ContractStore
<1> QED BY <1>1, <1>2, <1>7, <1>10, <1>11

LEMMA FinishRecord ==
  ASSUME OneContract, QuietTakeover, Outsiders = {}, "at_call" \notin Eager,
         Inv, BlocksInv, LifecycleInv, RecordedInv,
         NEW signer \in Validators, NEW event \in Events, NEW store \in ContractStore,
         Finishes(signer, event, store)
  PROVE  RecordedInv'
<1>1. PICK n, ch2 : n = exec.n /\ ch2 = Executed'
  OBVIOUS
<1>2. /\ exec.phase = "pre_execution" /\ Finished(signer, event, store)
      /\ event \in EventSources \cup {"none"}
      /\ event # "none" => ContractOf(n) \in Contracts
  BY <1>1 DEF Finishes
<1>3. n = Len(chain) + 1 /\ Len(chain) \in Nat /\ n \in Nat
  BY <1>1, <1>2 DEF BlocksInv, head, Inv, TypeOK
<1>4. /\ exec'.phase = "finished"
      /\ rf' = AfterFinish(n, event, signer)
      /\ Executed = chain /\ OneMore(chain, ch2)
      /\ ch2[n].signer = signer /\ ch2[n].event = event
      /\ ch2[n].active = IF ContractOf(n) = NoAddress THEN <<>>
                         ELSE GetValidators(store, ContractOf(n))
  BY <1>1, <1>2, <1>3, FinishEffect
<1>5. Len(ch2) = n /\ \A b \in 1..n : b = n \/ (b \in 1..Len(chain) /\ ch2[b] = chain[b])
  BY <1>3, <1>4 DEF OneMore
<1>6. \A b \in 1..Len(ch2) : ch2[b].event \in EventSources \cup {"none"}
  BY <1>2, <1>4, <1>5 DEF RecordedInv
<1>7. AnnouncersCount(ch2)
  <2> SUFFICES ASSUME NEW b \in 1..n, IsPosdao(b), IsPreMerge(b), ch2[b].event # "none"
               PROVE  SealedIn(ch2, b)
    BY <1>5 DEF AnnouncersCount
  <2>1. CASE b = n
    <3>1. signer \in Range(GetValidators(store, ContractOf(n)))
      BY <1>1, <1>4, <2>1, AnnouncerIsMember
    <3>2. ContractOf(n) # NoAddress BY <1>3, <2>1, PosdaoContract
    <3> QED BY <1>4, <2>1, <3>1, <3>2 DEF SealedIn
  <2>2. CASE b # n
    <3>1. b \in 1..Len(chain) /\ ch2[b] = chain[b] BY <1>5, <2>2
    <3> QED BY <1>4, <3>1 DEF RecordedInv, AnnouncersCount, SealedIn
  <2> QED BY <2>1, <2>2
<1>8. Plain(rf)'
  <2>1. Plain(rf) BY DEF RecordedInv
  <2>2. Plain(rf') BY <1>1, <1>2, <1>4, <2>1, FinishPlain
  <2> QED BY <2>2 DEF Plain, Scheduled, IsMap
<1>9. AnnouncersCount(Executed)'
  BY <1>1, <1>7 DEF AnnouncersCount, SealedIn, IsPosdao, IsPreMerge
<1> QED BY <1>1, <1>4, <1>6, <1>8, <1>9 DEF RecordedInv

LEMMA CommitRecord ==
  ASSUME Inv, RecordedInv, Commit
  PROVE  RecordedInv'
<1>1. exec'.phase = "idle" /\ Executed' = Executed /\ rf' = rf
  BY CommitEffect
<1> QED BY <1>1 DEF RecordedInv

LEMMA RecordedInvStep ==
  ASSUME OneContract, QuietTakeover, Outsiders = {}, "at_call" \notin Eager, ~Abandon,
         Inv, BlocksInv, LifecycleInv, RecordedInv, [Next]_vars
  PROVE  RecordedInv'
<1>1. CASE UNCHANGED vars
  <2>1. UNCHANGED <<chain, contracts, exec, rf>> BY <1>1 DEF vars
  <2>2. Executed' = Executed
    BY <2>1 DEF Executed, Block, ContractOf, GetValidators
  <2> QED BY <2>1, <2>2 DEF RecordedInv
<1> QED BY <1>1, StepCases, ContextForBlockRecord, PreExecutionRecord,
           FinishRecord, CommitRecord

(***************************************************************************)
(* The replay of a window, and what it has in common with live execution.  *)
(***************************************************************************)
\* the replay of block n of ch
ReplayedOne(ch, sim, n) ==
  LET taken == TakeFinalizeChange(sim, n)
      noted == IF ch[n].event = "none" THEN taken
               ELSE AddPendingTransition(taken, n, ContractOf(n))
  IN Push(noted, n, ch[n].signer)

\* f[n] is the simulated tracker after block n, f[s - 1] the one it starts with
Replays(ch, s, V, f) ==
  /\ f[s - 1] = SetValidators(New(<<>>), V)
  /\ \A n \in s..Len(ch) : f[n] = ReplayedOne(ch, f[n - 1], n)

\* the blocks from s on are representative, with validators V
Represents(ch, s, V) ==
  /\ s \in 1..(Len(ch) + 1)
  /\ IsPosdao(s) /\ IsPreMerge(Len(ch))
  /\ V \in Seq(Validators)
  /\ \A n \in s..Len(ch) :
       /\ ch[n].signer \in Range(V)
       /\ Range(ch[n].active) = Range(V)
       /\ Len(ch[n].active) = Len(V)
  /\ \A b \in 1..(s - 1) : ~WaitsIn(ch, b, s - 1)

\* the simulated tracker u says what the live tracker t says
Echoes(t, u, ch, V) ==
  /\ InOrder(u, Validators, Contracts) /\ Plain(u)
  /\ u.validators_sealed /\ u.validators = V
  /\ WindowOf(u, ch) /\ PendingOf(u, ch)
  /\ Alike(t, u)

\* between two blocks
Echoed(t, ch) ==
  \A s, V, f : Represents(ch, s, V) /\ Replays(ch, s, V, f) => Echoes(t, f[Len(ch)], ch, V)

\* in block n, whose call the replay takes too
EchoedIn(t, ch, n) ==
  \A s, V, f : Represents(ch, s, V) /\ Replays(ch, s, V, f) =>
    Echoes(t, TakeFinalizeChange(f[Len(ch)], n), ch, V)

\* if the window is about to be emptied, the replay's is empty, or does not matter
NothingToDrop(t, ch, n) ==
  \A s, V, f : Represents(ch, s, V) /\ Replays(ch, s, V, f) =>
    \/ TakeFinalizeChange(f[Len(ch)], n).headers = <<>>
    \/ DOMAIN t.pending_transitions = {}

EchoInv ==
  /\ ~MidBlock => Echoed(rf, Executed)
  /\ MidBlock /\ IsPreMerge(exec.n) => EchoedIn(rf, chain, exec.n)
  /\ exec.phase = "context" /\ IsPreMerge(exec.n) /\ exec.finalize # NoAddress =>
       NothingToDrop(rf, chain, exec.n)

\* When nothing waits the live tracker says nothing.
LEMMA NothingToReplay ==
  ASSUME NEW ch, Len(ch) \in Nat, NEW t, Plain(t), PendingOf(t, ch), PendingInWindow(t, ch),
         NoCallSince(t, ch), ScheduleOf(t, ch), AnnouncersCount(ch),
         \A b \in 1..Len(ch) : ~WaitsIn(ch, b, Len(ch))
  PROVE  DOMAIN t.pending_transitions = {} /\ t.finalize_change_at = NotScheduled
<1>1. ASSUME NEW b \in DOMAIN t.pending_transitions PROVE FALSE
  <2>1. b \in 1..Len(ch) /\ IsPosdao(b) /\ IsPreMerge(b) /\ ch[b].event # "none"
    BY DEF PendingOf
  <2>2. SealedIn(ch, b) BY <2>1 DEF AnnouncersCount
  <2>3. InWindow(t, b) BY <2>2 DEF PendingInWindow
  <2>4. \A m \in (b+1)..Len(ch) : ch[m].called # ContractOf(b)
    BY <2>3 DEF InWindow, NoCallSince
  <2> QED BY <2>1, <2>4 DEF WaitsIn
<1>2. ~Scheduled(t)
  BY DEF ScheduleOf, Justifies
<1> QED BY <1>1, <1>2 DEF Plain

\* The tracker a replay starts with.
LEMMA FirstTracker ==
  ASSUME NEW V \in Seq(Validators), NEW u, u = SetValidators(New(<<>>), V)
  PROVE  /\ InOrder(u, Validators, Contracts) /\ Plain(u)
         /\ u.validators_sealed /\ u.validators = V /\ u.headers = <<>>
         /\ DOMAIN u.pending_transitions = {} /\ u.finalize_change_at = NotScheduled
<1>1. InOrder(u, Validators, Contracts)
  <2>1. <<>> \in Seq(Validators) OBVIOUS
  <2> QED BY <2>1, NewInOrder, SetValidatorsKeeps
<1>2. Plain(u) BY SetValidatorsPlain
<1> QED BY <1>1, <1>2 DEF SetValidators, New, EmptyMap

LEMMA BeginsAlike ==
  ASSUME NEW ch, Len(ch) \in Nat, NEW t,
         DOMAIN t.pending_transitions = {}, t.finalize_change_at = NotScheduled,
         NEW s, s = Len(ch) + 1, NEW V \in Seq(Validators), NEW f, Replays(ch, s, V, f)
  PROVE  Echoes(t, f[Len(ch)], ch, V)
<1>1. PICK u : u = f[Len(ch)] OBVIOUS
<1>2. u = SetValidators(New(<<>>), V)
  <2>1. s - 1 = Len(ch) OBVIOUS
  <2> QED BY <1>1, <2>1 DEF Replays
<1>3. /\ InOrder(u, Validators, Contracts) /\ Plain(u)
      /\ u.validators_sealed /\ u.validators = V /\ u.headers = <<>>
      /\ DOMAIN u.pending_transitions = {} /\ u.finalize_change_at = NotScheduled
  BY <1>2, FirstTracker
<1>4. WindowOf(u, ch) BY <1>3, EmptyWindow
<1>5. PendingOf(u, ch) BY <1>3 DEF PendingOf
<1>6. Alike(t, u) BY <1>3 DEF Alike
<1> QED BY <1>1, <1>3, <1>4, <1>5, <1>6 DEF Echoes

\* No operation but set_validators unseals a set, nor changes a sealed one.
LEMMA TakeKeepsSealed ==
  ASSUME NEW t, IsTracker(t, Validators, Contracts), t.validators_sealed, NEW n,
         NEW u, u = TakeFinalizeChange(t, n)
  PROVE  u.validators_sealed /\ u.validators = t.validators
BY TakeFinalizeChangeFields

LEMMA AddPendingKeepsSealed ==
  ASSUME NEW t, IsTracker(t, Validators, Contracts), t.validators_sealed, NEW n, NEW contract,
         NEW u, u = AddPendingTransition(t, n, contract)
  PROVE  u.validators_sealed /\ u.validators = t.validators
BY AddPendingTransitionFields

LEMMA PushKeepsSealed ==
  ASSUME NEW ch, NEW ch2, OneMore(ch, ch2),
         NEW t, InOrder(t, Validators, Contracts), t.validators_sealed,
         WindowOf(t, ch), PendingOf(t, ch2),
         NEW signer \in Validators, ch2[Len(ch2)].signer = signer,
         IsPosdao(Len(ch2)),
         NEW n, n = Len(ch2), NEW u, u = Push(t, n, signer)
  PROVE  u.validators_sealed /\ u.validators = t.validators
BY PushKeepsChain

\* Taking what is due.
LEMMA TakenEchoes ==
  ASSUME NEW ch, NEW V, NEW t, InOrder(t, Validators, Contracts), NEW u, Echoes(t, u, ch, V),
         NEW n, NEW t2, t2 = TakeFinalizeChange(t, n), NEW u2, u2 = TakeFinalizeChange(u, n)
  PROVE  Echoes(t2, u2, ch, V)
<1>1. /\ InOrder(u, Validators, Contracts) /\ Plain(u)
      /\ u.validators_sealed /\ u.validators = V
      /\ WindowOf(u, ch) /\ PendingOf(u, ch)
      /\ Alike(t, u) /\ IsTracker(u, Validators, Contracts)
  BY DEF Echoes, InOrder
<1>2. InOrder(u2, Validators, Contracts) BY <1>1, TakeFinalizeChangeKeeps
<1>3. Plain(u2) BY <1>1, TakePlain
<1>4. Alike(t2, u2) BY <1>1, TakesAlike
<1>5. /\ u2.validators = u.validators /\ u2.validators_sealed
      /\ u2.pending_transitions = u.pending_transitions
      /\ u2 = u \/ u2.headers = <<>>
  <2>1. u2.validators_sealed /\ u2.validators = u.validators BY <1>1, TakeKeepsSealed
  <2>3. u2.pending_transitions = u.pending_transitions BY <1>1, TakeFinalizeChangeFields
  <2>4. u2 = u \/ u2.headers = <<>> BY <1>1, TakeFinalizeChangeFields
  <2> QED BY <1>1, <2>1, <2>3, <2>4
<1>6. WindowOf(u2, ch) BY <1>1, <1>5, EmptyWindow
<1>7. PendingOf(u2, ch) BY <1>1, <1>5, SamePending
<1> QED BY <1>1, <1>2, <1>3, <1>4, <1>5, <1>6, <1>7 DEF Echoes

\* The window emptied for a new set.
LEMMA DroppedEchoes ==
  ASSUME NEW ch, NEW V, NEW t, NEW u, Echoes(t, u, ch, V), NEW t2,
         t2.pending_transitions = t.pending_transitions,
         t2.finalize_change_at = t.finalize_change_at,
         t2.headers = t.headers
           \/ (t2.headers = <<>> /\ (u.headers = <<>> \/ DOMAIN t.pending_transitions = {}))
  PROVE  Echoes(t2, u, ch, V)
<1>1. Alike(t, u) BY DEF Echoes
<1>2. \A p \in DOMAIN t.pending_transitions : \A b \in Nat :
        b >= p => (InWindow(u, b) <=> InWindow(t2, b))
  BY <1>1 DEF Alike, InWindow
<1>3. Alike(t2, u) BY <1>1, <1>2 DEF Alike
<1> QED BY <1>3 DEF Echoes

LEMMA InitEcho == Init => EchoInv
<1> SUFFICES ASSUME Init PROVE EchoInv
  OBVIOUS
<1>1. chain = <<>> /\ exec.phase = "idle" /\ rf = New(<<>>)
  BY DEF Init, Idle
<1>2. Executed = <<>> /\ Len(Executed) = 0 BY <1>1 DEF Executed
<1>3. DOMAIN rf.pending_transitions = {} /\ rf.finalize_change_at = NotScheduled
  BY <1>1 DEF New, EmptyMap
<1>4. Echoed(rf, Executed)
  <2> SUFFICES ASSUME NEW s, NEW V, NEW f, Represents(Executed, s, V), Replays(Executed, s, V, f)
               PROVE  Echoes(rf, f[Len(Executed)], Executed, V)
    BY DEF Echoed
  <2>1. s = Len(Executed) + 1 /\ V \in Seq(Validators) BY <1>2 DEF Represents
  <2> QED BY <1>2, <1>3, <2>1, BeginsAlike
<1> QED BY <1>1, <1>4 DEF EchoInv, MidBlock

\* At the call of a list that gives way nothing is pending or scheduled.
LEMMA BoundaryEmpty ==
  ASSUME OneContract, QuietTurns, Inv, BlocksInv, LifecycleInv, exec.phase = "idle",
         NEW n, n = head + 1, IsPreMerge(n), AtBoundary(n)
  PROVE  DOMAIN rf.pending_transitions = {} /\ ~Scheduled(rf)
<1>1. Executed = chain /\ head = Len(chain) /\ head \in Nat BY CommittedChain
<1>2. IsPreMerge(head) BY <1>1, AuraExecutionAssumption DEF IsPreMerge
<1>3. Settled(rf, chain) BY <1>1, <1>2 DEF LifecycleInv, MidBlock
<1>4. PendingOf(rf, chain) /\ \A b \in 1..head : chain[b].event # "none" => b \notin Quiet
  BY <1>1 DEF BlocksInv
<1>5. ASSUME NEW b, Recent(b, head), chain[b].event # "none" PROVE FALSE
  <2>1. b \notin Quiet BY <1>1, <1>4, <1>5 DEF Recent
  <2> QED BY <1>1, <1>5, <2>1, NothingBeforeBoundary
<1>6. DOMAIN rf.pending_transitions = {}
  BY <1>1, <1>4, <1>5 DEF PendingOf, Recent
<1>7. ~Scheduled(rf)
  <2> SUFFICES ASSUME Scheduled(rf) PROVE FALSE
    OBVIOUS
  <2>1. PICK b : Justifies(chain, b, head, rf.finalize_change_at.address)
    BY <1>1, <1>3 DEF Settled, ScheduleOf
  <2> QED BY <1>5, <2>1, CauseIsRecent
<1> QED BY <1>6, <1>7

LEMMA ContextForBlockEcho ==
  ASSUME OneContract, QuietTurns, Inv, BlocksInv, LifecycleInv, EchoInv, ContextForBlock
  PROVE  EchoInv'
<1>1. PICK n, call : n = head + 1 /\ call = exec'.finalize OBVIOUS
<1>2. /\ exec.phase = "idle" /\ exec'.phase = "context" /\ exec'.n = n
      /\ chain' = chain /\ Executed = chain /\ Executed' = chain
      /\ \/ ~IsPreMerge(n)
         \/ IsPreMerge(n) /\ AtBoundary(n) /\ rf' = rf
         \/ /\ IsPreMerge(n) /\ ~AtBoundary(n)
            /\ call = IF FinalizeDue(rf, n) THEN rf.finalize_change_at.address ELSE NoAddress
            /\ rf' = TakeFinalizeChange(rf, n)
  BY <1>1, ContextEffect
<1>3. Echoed(rf, chain) BY <1>2 DEF EchoInv, MidBlock
<1>4. InOrder(rf, Validators, Contracts) BY DEF Inv
<1>5. ASSUME IsPreMerge(n), NEW s, NEW V, NEW f, Represents(chain, s, V), Replays(chain, s, V, f)
      PROVE  /\ Echoes(rf', TakeFinalizeChange(f[Len(chain)], n), chain, V)
             /\ call # NoAddress =>
                  \/ TakeFinalizeChange(f[Len(chain)], n).headers = <<>>
                  \/ DOMAIN rf'.pending_transitions = {}
  <2>1. PICK u, u2 : u = f[Len(chain)] /\ u2 = TakeFinalizeChange(u, n) OBVIOUS
  <2>2. Echoes(rf, u, chain, V) BY <1>3, <1>5, <2>1 DEF Echoed
  <2>3. IsTracker(u, Validators, Contracts) /\ u.finalize_change_at = rf.finalize_change_at
    BY <2>2 DEF Echoes, InOrder, Alike
  <2>4. /\ FinalizeDue(u, n) => u2.headers = <<>>
        /\ ~FinalizeDue(u, n) => u2 = u
    BY <2>1, <2>3, TakeFinalizeChangeFields
  <2>5. FinalizeDue(u, n) <=> FinalizeDue(rf, n) BY <2>3 DEF FinalizeDue, Scheduled
  <2>6. CASE AtBoundary(n)
    <3>1. rf' = rf BY <1>2, <1>5, <2>6
    <3>2. DOMAIN rf.pending_transitions = {} /\ ~Scheduled(rf)
      BY <1>1, <1>2, <1>5, <2>6, BoundaryEmpty
    <3>3. ~FinalizeDue(u, n) BY <2>5, <3>2 DEF FinalizeDue
    <3> QED BY <2>1, <2>2, <2>4, <3>1, <3>2, <3>3
  <2>7. CASE ~AtBoundary(n)
    <3>1. /\ call = IF FinalizeDue(rf, n) THEN rf.finalize_change_at.address ELSE NoAddress
          /\ rf' = TakeFinalizeChange(rf, n)
      BY <1>2, <1>5, <2>7
    <3>2. Echoes(rf', u2, chain, V) BY <1>4, <2>1, <2>2, <3>1, TakenEchoes
    <3> QED BY <2>1, <2>4, <2>5, <3>1, <3>2
  <2> QED BY <2>6, <2>7
<1>6. IsPreMerge(n) => EchoedIn(rf', chain, n)
  BY <1>5 DEF EchoedIn
<1>7. IsPreMerge(n) /\ call # NoAddress => NothingToDrop(rf', chain, n)
  BY <1>5 DEF NothingToDrop
<1> QED BY <1>1, <1>2, <1>6, <1>7 DEF EchoInv, MidBlock

LEMMA PreExecutionEcho ==
  ASSUME OneContract, Inv, BlocksInv, LifecycleInv, EchoInv, ApplyPreExecutionChanges
  PROVE  EchoInv'
<1>1. PICK n, call : n = exec.n /\ call = exec.finalize OBVIOUS
<1>2. /\ exec.phase = "context" /\ exec'.phase = "pre_execution"
      /\ exec'.n = n /\ rf' = AfterRefresh /\ chain' = chain
  BY <1>1, PreExecutionEffect
<1>3. /\ rf'.pending_transitions = rf.pending_transitions
      /\ rf'.finalize_change_at = rf.finalize_change_at
      /\ rf'.headers = rf.headers \/ rf'.headers = <<>>
      /\ call = NoAddress /\ ~NeedsInit(n) => rf'.headers = rf.headers
  <2>1. call = NoAddress /\ ~NeedsInit(n) => AfterRefresh = rf
    BY <1>1, PreExecutionFields
  <2> QED BY <1>2, <2>1, PreExecutionFields
<1>4. IsPreMerge(n) =>
        /\ EchoedIn(rf, chain, n) /\ Followed(rf, chain)
        /\ call # NoAddress => NothingToDrop(rf, chain, n)
  BY <1>1, <1>2 DEF EchoInv, LifecycleInv, MidBlock
<1>5. Len(chain) \in Nat /\ head = Len(chain) BY CommittedChain
<1>6. ASSUME IsPreMerge(n), NEW s, NEW V, NEW f, Represents(chain, s, V), Replays(chain, s, V, f)
      PROVE  Echoes(rf', TakeFinalizeChange(f[Len(chain)], n), chain, V)
  <2>1. PICK u : u = TakeFinalizeChange(f[Len(chain)], n) OBVIOUS
  <2>2. Echoes(rf, u, chain, V) BY <1>4, <1>6, <2>1 DEF EchoedIn
  <2>3. CASE call # NoAddress
    <3>1. u.headers = <<>> \/ DOMAIN rf.pending_transitions = {}
      BY <1>4, <1>6, <2>1, <2>3 DEF NothingToDrop
    <3> QED BY <1>3, <2>1, <2>2, <3>1, DroppedEchoes
  <2>4. CASE call = NoAddress /\ ~NeedsInit(n)
    BY <1>3, <2>1, <2>2, <2>4, DroppedEchoes
  <2>5. CASE NeedsInit(n)
    <3>1. CASE s = Len(chain) + 1
      <4>1. PICK u0 : u0 = f[Len(chain)] OBVIOUS
      <4>2. s - 1 = Len(chain) /\ V \in Seq(Validators) BY <1>5, <1>6, <3>1 DEF Represents
      <4>3. u0 = SetValidators(New(<<>>), V) BY <1>6, <4>1, <4>2 DEF Replays
      <4>4. u0.headers = <<>> /\ InOrder(u0, Validators, Contracts) BY <4>2, <4>3, FirstTracker
      <4>5. u.headers = <<>>
        BY <2>1, <4>1, <4>4, TakeFinalizeChangeFields DEF InOrder
      <4> QED BY <1>3, <2>1, <2>2, <4>5, DroppedEchoes
    <3>2. CASE s # Len(chain) + 1
      <4>1. s \in 1..Len(chain) /\ IsPosdao(s) BY <1>5, <1>6, <3>2 DEF Represents
      <4>2. Len(chain) \in s..Len(chain) BY <1>5, <4>1
      <4>3. IsPosdao(Len(chain)) BY <1>5, <4>1, AuraExecutionAssumption DEF IsPosdao
      <4>4. rf.validators = chain[Len(chain)].active
        BY <1>4, <1>5, <1>6, <4>1, <4>3 DEF Followed
      <4>5. chain[Len(chain)].signer \in Range(rf.validators)
        BY <1>6, <4>2, <4>4 DEF Represents
      <4>6. rf.validators \in Seq(Validators) BY DEF Inv, InOrder, IsTracker
      <4>7. Len(rf.validators) # 0 BY <4>5, <4>6 DEF Range
      <4> QED BY <2>5, <4>7 DEF NeedsInit
    <3> QED BY <3>1, <3>2
  <2> QED BY <2>3, <2>4, <2>5
<1>7. IsPreMerge(n) => EchoedIn(rf', chain, n)
  BY <1>6 DEF EchoedIn
<1> QED BY <1>2, <1>7 DEF EchoInv, MidBlock

\* A representative window of a chain was one before its last block.
LEMMA RepresentsBefore ==
  ASSUME NEW ch, NEW ch2, OneMore(ch, ch2), NEW s \in 1..Len(ch2), NEW V, NEW f,
         Represents(ch2, s, V), Replays(ch2, s, V, f)
  PROVE  Represents(ch, s, V) /\ Replays(ch, s, V, f)
<1>1. /\ Len(ch) \in Nat /\ Len(ch2) = Len(ch) + 1
      /\ \A i \in 1..Len(ch) : ch2[i] = ch[i]
  BY DEF OneMore
<1>2. s \in 1..(Len(ch) + 1) BY <1>1
<1>3. IsPreMerge(Len(ch))
  BY <1>1, AuraExecutionAssumption DEF Represents, IsPreMerge
<1>4. \A n \in s..Len(ch) : n \in s..Len(ch2) /\ ch2[n] = ch[n]
  BY <1>1, <1>2
<1>5. \A n \in s..Len(ch) :
        /\ ch[n].signer \in Range(V)
        /\ Range(ch[n].active) = Range(V)
        /\ Len(ch[n].active) = Len(V)
  BY <1>4 DEF Represents
<1>6. ASSUME NEW b \in 1..(s - 1) PROVE ~WaitsIn(ch, b, s - 1)
  <2>1. s - 1 \in 1..Len(ch) BY <1>1, <1>2
  <2>2. ~WaitsIn(ch2, b, s - 1) BY DEF Represents
  <2> QED BY <2>1, <2>2, SameHistory
<1>7. Represents(ch, s, V)
  BY <1>2, <1>3, <1>5, <1>6 DEF Represents
<1>8. ASSUME NEW n \in s..Len(ch) PROVE f[n] = ReplayedOne(ch, f[n - 1], n)
  <2>1. f[n] = ReplayedOne(ch2, f[n - 1], n) BY <1>4 DEF Replays
  <2> QED BY <1>4, <2>1 DEF ReplayedOne
<1>9. Replays(ch, s, V, f)
  BY <1>8 DEF Replays
<1> QED BY <1>7, <1>9

\* What noting the event of a POSDAO block changes.
LEMMA NotedPosdao ==
  ASSUME Inv, NEW event \in Events, event # "none" => ContractOf(exec.n) \in Contracts,
         NEW n, n = exec.n, IsPosdao(n), NEW t, t = NoteEvent(n, event)
  PROVE  /\ InOrder(t, Validators, Contracts)
         /\ t.validators = rf.validators /\ t.headers = rf.headers
         /\ event = "none" => t = rf
         /\ event # "none" =>
              /\ t.finalize_change_at = rf.finalize_change_at
              /\ DOMAIN t.pending_transitions = DOMAIN rf.pending_transitions \cup {n}
<1>1. CASE event = "none"
  BY <1>1, NoteEventFields
<1>2. CASE event # "none" /\ IsPosdao(n)
  BY <1>2, NoteEventFields
<1> QED BY <1>1, <1>2

\* finish does to the live tracker what the replay of the block does.
LEMMA FinishEchoes ==
  ASSUME OneContract, Inv, NEW n, n = exec.n, IsPosdao(n), IsPreMerge(n),
         NEW event \in Events, event # "none" => ContractOf(n) \in Contracts,
         NEW signer \in Validators, NEW ch, NEW ch2, OneMore(ch, ch2), Len(ch2) = n,
         ch2[n].signer = signer, ch2[n].event = event,
         WindowOf(rf, ch), PendingOf(rf, ch),
         NEW V, signer \in Range(V),
         Range(rf.validators) = Range(V), Len(rf.validators) = Len(V), rf.validators_sealed,
         NEW u, Echoes(rf, u, ch, V),
         NEW t2, t2 = Push(NoteEvent(n, event), n, signer),
         NEW u2, u2 = Push(IF event = "none" THEN u
                           ELSE AddPendingTransition(u, n, ContractOf(n)), n, signer)
  PROVE  Echoes(t2, u2, ch2, V)
<1>1. n \in Nat /\ Len(ch) \in Nat /\ n = Len(ch) + 1 BY DEF OneMore
<1>2. PICK t1, u1 : /\ t1 = NoteEvent(n, event)
                   /\ u1 = IF event = "none" THEN u ELSE AddPendingTransition(u, n, ContractOf(n))
  OBVIOUS
<1>3. /\ InOrder(u, Validators, Contracts) /\ Plain(u)
      /\ u.validators_sealed /\ u.validators = V
      /\ WindowOf(u, ch) /\ PendingOf(u, ch)
      /\ Alike(rf, u) /\ IsTracker(u, Validators, Contracts)
  BY DEF Echoes, InOrder
<1>4. /\ InOrder(t1, Validators, Contracts)
      /\ t1.validators = rf.validators /\ t1.headers = rf.headers
      /\ event = "none" => t1 = rf
      /\ event # "none" =>
           /\ t1.finalize_change_at = rf.finalize_change_at
           /\ DOMAIN t1.pending_transitions = DOMAIN rf.pending_transitions \cup {n}
  BY <1>2, NotedPosdao
<1>5. /\ InOrder(u1, Validators, Contracts) /\ Plain(u1)
      /\ u1.validators = V /\ u1.validators_sealed /\ u1.headers = u.headers
      /\ event = "none" => u1 = u
      /\ event # "none" =>
           /\ u1.finalize_change_at = u.finalize_change_at
           /\ DOMAIN u1.pending_transitions = DOMAIN u.pending_transitions \cup {n}
           /\ u1.pending_transitions[n] = ContractOf(n)
           /\ \A b \in DOMAIN u.pending_transitions :
                b # n => u1.pending_transitions[b] = u.pending_transitions[b]
  <2>1. CASE event = "none" BY <1>2, <1>3, <2>1
  <2>2. CASE event # "none"
    <3>1. u1 = AddPendingTransition(u, n, ContractOf(n)) BY <1>2, <2>2
    <3>2. InOrder(u1, Validators, Contracts)
      BY <1>1, <1>3, <2>2, <3>1, AddPendingTransitionKeeps
    <3>3. Plain(u1) BY <1>3, <3>1, AddPendingPlain
    <3>5. u1.validators_sealed /\ u1.validators = u.validators
      BY <1>3, <3>1, AddPendingKeepsSealed
    <3>4. /\ u1.headers = u.headers
          /\ u1.finalize_change_at = u.finalize_change_at
          /\ DOMAIN u1.pending_transitions = DOMAIN u.pending_transitions \cup {n}
          /\ u1.pending_transitions[n] = ContractOf(n)
          /\ \A b \in DOMAIN u.pending_transitions :
               b # n => u1.pending_transitions[b] = u.pending_transitions[b]
      BY <1>3, <3>1, AddPendingTransitionFields
    <3> QED BY <1>3, <2>2, <3>2, <3>3, <3>4, <3>5
  <2> QED BY <2>1, <2>2
<1>6. WindowOf(t1, ch) /\ WindowOf(u1, ch)
  BY <1>3, <1>4, <1>5, SameWindow
<1>7. PendingOf(t1, ch2) BY <1>2, NotedPending
<1>8. PendingOf(u1, ch2)
  <2>1. PendingOf(u, ch2) BY <1>3, PendingLater
  <2>2. CASE event = "none" BY <1>5, <2>1, <2>2
  <2>3. CASE event # "none"
    <3>1. n \in 1..Len(ch2) BY <1>1
    <3> QED BY <1>5, <2>1, <2>3, <3>1 DEF PendingOf
  <2> QED BY <2>2, <2>3
<1>9. Alike(t1, u1)
  <2>1. CASE event = "none" BY <1>3, <1>4, <1>5, <2>1
  <2>2. CASE event # "none"
    BY <1>1, <1>3, <1>4, <1>5, <2>2, NotesAlike
  <2> QED BY <2>1, <2>2
<1>10. t2 = Push(t1, n, signer) /\ u2 = Push(u1, n, signer) BY <1>2
<1>11. Alike(t2, u2)
  <2>1. signer \in Range(t1.validators) /\ signer \in Range(u1.validators)
        /\ Len(u1.validators) = Len(t1.validators)
    BY <1>4, <1>5
  <2> QED BY <1>4, <1>5, <1>6, <1>7, <1>8, <1>9, <1>10, <2>1, PushesAlike
<1>12. InOrder(u2, Validators, Contracts) BY <1>1, <1>5, <1>10, PushKeeps
<1>13. Plain(u2) BY <1>1, <1>5, <1>10, PushPlain
<1>14. /\ u2.validators = u1.validators /\ u2.validators_sealed
       /\ WindowOf(u2, ch2) /\ PendingOf(u2, ch2)
  <2>2. u2.validators_sealed /\ u2.validators = u1.validators
    BY <1>5, <1>6, <1>8, <1>10, PushKeepsSealed
  <2>3. WindowOf(u2, ch2) /\ PendingOf(u2, ch2)
    BY <1>5, <1>6, <1>8, <1>10, PushKeepsChain
  <2> QED BY <1>5, <2>2, <2>3
<1> QED BY <1>5, <1>11, <1>12, <1>13, <1>14 DEF Echoes

LEMMA FinishEcho ==
  ASSUME OneContract, Inv, BlocksInv, LifecycleInv, EchoInv,
         LifecycleInv', PendingInv', RecordedInv',
         NEW signer \in Validators, NEW event \in Events, NEW store \in ContractStore,
         Finishes(signer, event, store)
  PROVE  EchoInv'
<1>1. PICK n, call, ch2 : n = exec.n /\ call = exec.finalize /\ ch2 = Executed'
  OBVIOUS
<1>2. /\ exec.phase = "pre_execution" /\ MidBlock
      /\ exec'.phase = "finished" /\ ~MidBlock'
      /\ event # "none" => ContractOf(n) \in Contracts
      /\ rf' = AfterFinish(n, event, signer)
      /\ Executes(chain, ch2, n, call, event) /\ ch2[n].signer = signer
      /\ WindowOf(rf, chain) /\ PendingOf(rf, chain) /\ PendingOf(rf', ch2)
      /\ IsPreMerge(n) /\ IsPosdao(n) => Counts(rf, ch2[n].active)
  BY <1>1, FinishFacts
<1>3. /\ n \in Nat /\ Len(chain) \in Nat /\ n = Len(chain) + 1 /\ Len(ch2) = n
      /\ OneMore(chain, ch2) /\ ch2[n].event = event
  BY <1>2 DEF Executes, OneMore
<1>4. IsPreMerge(n) => EchoedIn(rf, chain, n) BY <1>1, <1>2 DEF EchoInv
<1>5. IsPreMerge(n) => Settled(rf', ch2)
  BY <1>1, <1>2, <1>3 DEF LifecycleInv
<1>6. PendingInWindow(rf', ch2)
  BY <1>1 DEF PendingInv, PendingInWindow
<1>7. AnnouncersCount(ch2) /\ Plain(rf')
  BY <1>1 DEF RecordedInv
<1>8. ASSUME NEW s, NEW V, NEW f, Represents(ch2, s, V), Replays(ch2, s, V, f)
      PROVE  Echoes(rf', f[Len(ch2)], ch2, V)
  <2>1. s \in 1..(n + 1) /\ IsPosdao(s) /\ IsPreMerge(n) /\ V \in Seq(Validators)
    BY <1>3, <1>8 DEF Represents
  <2>2. CASE s = n + 1
    <3>1. \A b \in 1..n : ~WaitsIn(ch2, b, n)
      <4>1. s - 1 = n BY <1>3, <2>2
      <4> QED BY <1>8, <4>1 DEF Represents
    <3>2. NoCallSince(rf', ch2) /\ ScheduleOf(rf', ch2) BY <1>5, <2>1 DEF Settled
    <3>3. DOMAIN rf'.pending_transitions = {} /\ rf'.finalize_change_at = NotScheduled
      BY <1>2, <1>3, <1>6, <1>7, <3>1, <3>2, NothingToReplay
    <3> QED BY <1>3, <1>8, <2>1, <2>2, <3>3, BeginsAlike
  <2>3. CASE s # n + 1
    <3>1. s \in 1..Len(ch2) /\ n \in s..n /\ IsPosdao(n)
      BY <1>3, <2>1, <2>3, AuraExecutionAssumption DEF IsPosdao
    <3>2. Represents(chain, s, V) /\ Replays(chain, s, V, f)
      BY <1>3, <1>8, <3>1, RepresentsBefore
    <3>3. PICK u : u = TakeFinalizeChange(f[Len(chain)], n) OBVIOUS
    <3>4. Echoes(rf, u, chain, V) BY <1>4, <2>1, <3>2, <3>3 DEF EchoedIn
    <3>5. f[n] = Push(IF event = "none" THEN u
                      ELSE AddPendingTransition(u, n, ContractOf(n)), n, signer)
      <4>1. n - 1 = Len(chain) BY <1>3
      <4>2. f[n] = ReplayedOne(ch2, f[Len(chain)], n)
        BY <1>3, <1>8, <3>1, <4>1 DEF Replays
      <4> QED BY <1>2, <1>3, <3>3, <4>2 DEF ReplayedOne
    <3>6. /\ signer \in Range(V)
          /\ Range(rf.validators) = Range(V) /\ Len(rf.validators) = Len(V)
          /\ rf.validators_sealed
      BY <1>2, <1>3, <1>8, <2>1, <3>1 DEF Represents, Counts
    <3>7. rf' = Push(NoteEvent(n, event), n, signer)
      BY <1>2, <2>1, <3>1 DEF AfterFinish
    <3>8. Echoes(rf', f[n], ch2, V)
      BY <1>1, <1>2, <1>3, <2>1, <3>1, <3>4, <3>5, <3>6, <3>7, FinishEchoes
    <3> QED BY <1>3, <3>8
  <2> QED BY <2>2, <2>3
<1>9. Echoed(rf', ch2) BY <1>8 DEF Echoed
<1> QED BY <1>1, <1>2, <1>9 DEF EchoInv

LEMMA CommitEcho ==
  ASSUME Inv, EchoInv, Commit
  PROVE  EchoInv'
<1>1. exec.phase = "finished" /\ exec'.phase = "idle"
      /\ Executed' = Executed /\ rf' = rf
  BY CommitEffect
<1>2. ~MidBlock /\ ~MidBlock' BY <1>1 DEF MidBlock
<1> QED BY <1>1, <1>2 DEF EchoInv

LEMMA EchoInvStep ==
  ASSUME OneContract, QuietTurns, ~Abandon,
         Inv, BlocksInv, LifecycleInv, EchoInv, [Next]_vars,
         LifecycleInv', PendingInv', RecordedInv'
  PROVE  EchoInv'
<1>1. CASE UNCHANGED vars
  <2>1. UNCHANGED <<chain, exec, rf>> BY <1>1 DEF vars
  <2>2. Executed' = Executed /\ MidBlock' = MidBlock
    BY <2>1 DEF Executed, Block, MidBlock, ContractOf, GetValidators
  <2> QED BY <2>1, <2>2 DEF EchoInv
<1> QED BY <1>1, StepCases, ContextForBlockEcho, PreExecutionEcho,
           FinishEcho, CommitEcho

\* The tracker has the call that the blocks make due, if it is settled.
LEMMA SettledCalls ==
  ASSUME OneContract, NEW ch \in Seq(Blocks), NEW n, n = Len(ch), IsPreMerge(n),
         NEW t, InOrder(t, Validators, Contracts), WindowOf(t, ch), Settled(t, ch),
         NEW b \in 1..n, WaitsIn(ch, b, n),
         IsPosdao(b) => SealedIn(ch, b) /\ MajorityIn(ch, b, n)
  PROVE  t.finalize_change_at = [at |-> n + 1, address |-> ContractOf(b)]
<1>1. n \in Nat OBVIOUS
<1>2. Awaited(t, ch) /\ ScheduleOf(t, ch) /\ Covered(t, ch) /\ Followed(t, ch)
  BY DEF Settled
<1>3. Recent(b, n) BY <1>2, AwaitedIsRecent
<1>4. Scheduled(t)
  <2> SUFFICES ASSUME ~Scheduled(t) PROVE FALSE
    OBVIOUS
  <2>1. IsPosdao(b) /\ (SealedIn(ch, b) => Tracked(t, b)) BY <1>2 DEF Awaited
  <2>2. InWindow(t, b) BY <2>1 DEF Tracked
  <2>3. IsPosdao(n) BY <1>1, <2>1, AuraExecutionAssumption DEF IsPosdao
  <2>4. t.validators = ch[n].active BY <1>1, <1>2, <2>3 DEF Followed
  <2>5. ~MajorityIn(ch, b, n) BY <1>2, <2>2, <2>4, NoMajorityWaits
  <2> QED BY <2>1, <2>5
<1>5. t.finalize_change_at.at = n + 1 BY <1>2, <1>4 DEF ScheduleOf
<1>6. t.finalize_change_at.address = ContractOf(b)
  <2>1. PICK a : Justifies(ch, a, n, t.finalize_change_at.address)
    BY <1>2, <1>4 DEF ScheduleOf
  <2>2. Recent(a, n) /\ ContractOf(a) = t.finalize_change_at.address
    BY <2>1, CauseIsRecent
  <2> QED BY <1>1, <1>3, <2>2, SameContract
<1>7. t.finalize_change_at \in [at : Nat, address : Contracts \cup {NoAddress}]
  BY DEF InOrder, IsTracker
<1> QED BY <1>5, <1>6, <1>7

\* The replay has it too, in every state: the chain alone says so.
Recalls(ch) ==
  \A s, V, f : Represents(ch, s, V) /\ Replays(ch, s, V, f) =>
    \A b \in s..Len(ch) :
      WaitsIn(ch, b, Len(ch)) /\ MajorityIn(ch, b, Len(ch)) =>
        f[Len(ch)].finalize_change_at = [at |-> Len(ch) + 1, address |-> ContractOf(b)]

LEMMA SettledRecalls ==
  ASSUME OneContract, NEW ch \in Seq(Blocks),
         NEW t, InOrder(t, Validators, Contracts), WindowOf(t, ch), Echoed(t, ch),
         IsPreMerge(Len(ch)) => Settled(t, ch)
  PROVE  Recalls(ch)
<1> SUFFICES ASSUME NEW s, NEW V, NEW f, Represents(ch, s, V), Replays(ch, s, V, f),
                    NEW b \in s..Len(ch),
                    WaitsIn(ch, b, Len(ch)), MajorityIn(ch, b, Len(ch))
             PROVE  f[Len(ch)].finalize_change_at
                      = [at |-> Len(ch) + 1, address |-> ContractOf(b)]
  BY DEF Recalls
<1>1. Len(ch) \in Nat /\ s \in 1..(Len(ch) + 1) /\ IsPreMerge(Len(ch))
  BY DEF Represents
<1>2. b \in 1..Len(ch) BY <1>1
<1>3. SealedIn(ch, b) BY DEF Represents, SealedIn
<1>4. t.finalize_change_at = [at |-> Len(ch) + 1, address |-> ContractOf(b)]
  BY <1>1, <1>2, <1>3, SettledCalls
<1>5. Echoes(t, f[Len(ch)], ch, V) BY DEF Echoed
<1> QED BY <1>4, <1>5 DEF Echoes, Alike

LEMMA InitRecalls == Init => Recalls(chain)
<1> SUFFICES ASSUME Init PROVE Recalls(chain)
  OBVIOUS
<1>1. Len(chain) = 0 BY DEF Init
<1>2. ASSUME NEW s, NEW V, Represents(chain, s, V) PROVE s..Len(chain) = {}
  BY <1>1, <1>2 DEF Represents
<1> QED BY <1>2 DEF Recalls

LEMMA RecallsStep ==
  ASSUME OneContract, ~Abandon, Inv, BlocksInv, LifecycleInv, EchoInv,
         Recalls(chain), [Next]_vars
  PROVE  Recalls(chain)'
<1>1. CASE Commit
  <2>1. PICK ch : ch = Executed OBVIOUS
  <2>2. exec.phase = "finished" /\ chain' = ch BY <1>1, <2>1, CommitEffect
  <2>3. ~MidBlock BY <2>2 DEF MidBlock
  <2>4. Echoed(rf, ch) /\ WindowOf(rf, ch) /\ (IsPreMerge(Len(ch)) => Settled(rf, ch))
    BY <2>1, <2>3 DEF EchoInv, BlocksInv, LifecycleInv
  <2>5. InOrder(rf, Validators, Contracts) BY DEF Inv
  <2>6. ch \in Seq(Blocks)
    <3>1. Inv' BY NextInv
    <3> QED BY <2>2, <3>1 DEF Inv, TypeOK, Blocks
  <2>7. Recalls(ch) BY <2>4, <2>5, <2>6, SettledRecalls
  <2> QED BY <2>2, <2>7
<1>2. CASE ~Commit
  <2>1. chain' = chain
    BY <1>2, StepCases DEF ContextForBlock, ApplyPreExecutionChanges, Finishes, Finished, vars
  <2> QED BY <2>1
<1> QED BY <1>1, <1>2

(***************************************************************************)
(* The specification with restarts: as long as nothing failed and nothing  *)
(* was restarted, its states are those of the executor.                    *)
(***************************************************************************)
Sound ==
  /\ Inv /\ BlocksInv /\ LifecycleInv /\ PendingInv /\ RecordedInv /\ EchoInv
  /\ Recalls(chain)

RecoveryInv ==
  /\ faults \in [failed : Nat, restarts : Nat]
  /\ NoFaultsYet => Sound

LEMMA InitRecovery == Init => RecoveryInv
<1> SUFFICES ASSUME Init PROVE RecoveryInv
  OBVIOUS
<1>1. faults \in [failed : Nat, restarts : Nat] BY DEF Init
<1>2. Sound
  BY InitInv, InitBlocks, InitLifecycle, InitPending, InitRecord, InitEcho, InitRecalls
     DEF Sound
<1> QED BY <1>1, <1>2 DEF RecoveryInv

LEMMA SoundStep ==
  ASSUME OneContract, QuietTurns, QuietTakeover, Outsiders = {}, Eager = {}, ~Abandon,
         Sound, [Next]_vars
  PROVE  Sound'
<1>1. "overlapping" \notin Eager /\ "at_call" \notin Eager OBVIOUS
<1>2. Inv /\ BlocksInv /\ LifecycleInv /\ PendingInv /\ RecordedInv /\ EchoInv
      /\ Recalls(chain)
  BY DEF Sound
<1>3. Inv' BY <1>2, NextInv
<1>4. BlocksInv' BY <1>2, BlocksInvStep
<1>5. LifecycleInv' BY <1>2, LifecycleInvStep
<1>6. PendingInv' BY <1>1, <1>2, PendingInvStep
<1>7. RecordedInv' BY <1>1, <1>2, RecordedInvStep
<1>8. EchoInv' BY <1>2, <1>5, <1>6, <1>7, EchoInvStep
<1>9. Recalls(chain)' BY <1>2, RecallsStep
<1> QED BY <1>3, <1>4, <1>5, <1>6, <1>7, <1>8, <1>9 DEF Sound

LEMMA RecoveryStep ==
  ASSUME OneContract, QuietTurns, QuietTakeover, Outsiders = {}, Eager = {},
         RecoveryInv, [RecoveryNext]_vars
  PROVE  RecoveryInv'
<1>1. faults \in [failed : Nat, restarts : Nat] BY DEF RecoveryInv
<1>2. CASE Abandon
  <2>1. faults' = [faults EXCEPT !.failed = faults.failed + 1] BY <1>2 DEF Abandon
  <2>2. faults' \in [failed : Nat, restarts : Nat] /\ faults'.failed # 0 BY <1>1, <2>1
  <2> QED BY <2>2 DEF RecoveryInv, NoFaultsYet
<1>3. CASE Restart
  <2>1. faults' = [faults EXCEPT !.restarts = faults.restarts + 1] BY <1>3 DEF Restart
  <2>2. faults' \in [failed : Nat, restarts : Nat] /\ faults'.restarts # 0 BY <1>1, <2>1
  <2> QED BY <2>2 DEF RecoveryInv, NoFaultsYet
<1>4. CASE ~Abandon /\ [Next]_vars
  <2>1. faults' = faults
    BY <1>4 DEF Next, ContextForBlock, ApplyPreExecutionChanges, Finish,
                FinishWithInitiateChange, Finished, Commit, FailPreExecution, FailExecution,
                RejectBlock, vars
  <2>2. NoFaultsYet => Sound' BY <1>4, SoundStep DEF RecoveryInv
  <2>3. faults' \in [failed : Nat, restarts : Nat] BY <1>1, <2>1
  <2>4. NoFaultsYet' => NoFaultsYet BY <2>1 DEF NoFaultsYet
  <2> QED BY <2>2, <2>3, <2>4 DEF RecoveryInv
<1> QED BY <1>2, <1>3, <1>4 DEF RecoveryNext

LEMMA AlwaysRecovery ==
  ASSUME OneContract, QuietTurns, QuietTakeover, Outsiders = {}, Eager = {}
  PROVE  RecoverySpec => []RecoveryInv
<1>1. RecoveryInv /\ [RecoveryNext]_vars => RecoveryInv' BY RecoveryStep
<1> QED BY <1>1, InitRecovery, PTL DEF RecoverySpec

(***************************************************************************)
(* The replay that recovery runs is one of those.                          *)
(***************************************************************************)
\* g[k] is the simulated tracker after k blocks of the window
Simulates(g, first, start, contract, m) ==
  /\ g[0] = first
  /\ \A k \in 1..m : g[k] = ReplayBlock(g[k - 1], start + k - 1, contract)

\* Recovery's simulation exists: block after block there is a next tracker.
LEMMA SimulationExists ==
  ASSUME NEW start \in Nat, NEW contract, NEW m \in Nat, NEW first
  PROVE  \E g : Simulates(g, first, start, contract, m)
<1> DEFINE Runs(g, j) == Simulates(g, first, start, contract, j)
           Stuck == {j \in Nat : \A g : ~Runs(g, j)}
<1>1. SUFFICES ASSUME Stuck # {} PROVE FALSE
  <2>1. m \notin Stuck BY <1>1
  <2> QED BY <2>1
<1>2. PICK j \in Stuck : \A i \in Stuck : j <= i
  <2>1. Stuck \in SUBSET Nat OBVIOUS
  <2> HIDE DEF Stuck
  <2> QED BY <1>1, <2>1, LeastNumber
<1>3. CASE j = 0
  <2>1. PICK g : g = [k \in {0} |-> first] OBVIOUS
  <2>2. g[0] = first BY <2>1
  <2>3. Runs(g, j) BY <1>3, <2>2 DEF Simulates
  <2> HIDE DEF Runs
  <2> QED BY <2>3
<1>4. CASE j # 0
  <2>1. j \in Nat /\ j - 1 \in Nat /\ j - 1 < j BY <1>4
  <2>2. j - 1 \notin Stuck
    <3> HIDE DEF Stuck
    <3> QED BY <1>2, <2>1
  <2>3. PICK g : Runs(g, j - 1)
    <3> HIDE DEF Runs
    <3> QED BY <2>1, <2>2
  <2>4. PICK h : h = [k \in 0..j |-> IF k = j THEN ReplayBlock(g[j - 1], start + j - 1, contract)
                                     ELSE g[k]]
    OBVIOUS
  <2>5. h[j] = ReplayBlock(g[j - 1], start + j - 1, contract) BY <2>1, <2>4
  <2>6. \A k \in 0..(j - 1) : h[k] = g[k] BY <2>1, <2>4
  <2>7. h[0] = first BY <2>1, <2>3, <2>6 DEF Simulates
  <2>8. ASSUME NEW k \in 1..j
        PROVE  h[k] = ReplayBlock(h[k - 1], start + k - 1, contract)
    <3>1. h[k - 1] = g[k - 1] BY <2>1, <2>6
    <3>2. CASE k = j BY <2>5, <3>1, <3>2
    <3>3. CASE k # j
      <4>1. k \in 1..(j - 1) /\ k \in 0..(j - 1) BY <2>1, <3>3
      <4>2. g[k] = ReplayBlock(g[k - 1], start + k - 1, contract)
        BY <2>3, <4>1 DEF Simulates
      <4>3. h[k] = g[k] BY <2>6, <4>1
      <4> QED BY <3>1, <4>2, <4>3
    <3> QED BY <3>2, <3>3
  <2>9. Runs(h, j) BY <2>7, <2>8 DEF Simulates
  <2> HIDE DEF Runs
  <2> QED BY <2>9
<1> QED BY <1>3, <1>4

\* So recovery's result is that of running it.
LEMMA ReplayedRuns ==
  ASSUME NEW start, start = WindowStart, start \in Nat, NEW contract,
         NEW m \in Nat, m = head - start + 1
  PROVE  \E g : /\ Simulates(g, SetValidators(New(<<>>), SetToSeq(Discovered)),
                             start, contract, m)
                /\ Replayed(contract) = g[m]
<1> DEFINE first == SetValidators(New(<<>>), SetToSeq(Discovered))
           F(g) == [k \in 0..m |-> IF k = 0 THEN first
                                   ELSE ReplayBlock(g[k - 1], start + k - 1, contract)]
           sim == CHOOSE g : g = F(g)
<1>1. PICK g : Simulates(g, first, start, contract, m)
  <2> HIDE DEF first
  <2> QED BY SimulationExists
<1>2. PICK h : h = [k \in 0..m |-> g[k]] OBVIOUS
<1>3. h = F(h)
  <2> HIDE DEF first
  <2>1. ASSUME NEW k \in 0..m
        PROVE  h[k] = IF k = 0 THEN first
                      ELSE ReplayBlock(h[k - 1], start + k - 1, contract)
    <3>1. h[k] = g[k] BY <1>2
    <3>2. CASE k = 0 BY <1>1, <3>1, <3>2 DEF Simulates
    <3>3. CASE k # 0
      <4>1. k \in 1..m /\ k - 1 \in 0..m BY <3>3
      <4>2. g[k] = ReplayBlock(g[k - 1], start + k - 1, contract)
        BY <1>1, <4>1 DEF Simulates
      <4>3. h[k - 1] = g[k - 1] BY <1>2, <4>1
      <4> QED BY <3>1, <3>3, <4>2, <4>3
    <3> QED BY <3>2, <3>3
  <2>2. h = [k \in 0..m |-> h[k]] BY <1>2
  <2> QED BY <2>1, <2>2
<1>4. sim = F(sim)
  <2> HIDE DEF F
  <2> QED BY <1>3
<1>5. Replayed(contract) = sim[m] BY DEF Replayed
<1>6. /\ sim[0] = first
      /\ \A k \in 1..m : sim[k] = ReplayBlock(sim[k - 1], start + k - 1, contract)
  <2> HIDE DEF first, sim
  <2> QED BY <1>4
<1>7. Simulates(sim, first, start, contract, m)
  <2> HIDE DEF first, sim
  <2> QED BY <1>6 DEF Simulates
<1> QED BY <1>5, <1>7

\* The sequence of a finite set lists its elements, each once.
LEMMA SetToSeqLists ==
  ASSUME NEW S, IsFiniteSet(S), NEW V, V = SetToSeq(S)
  PROVE  V \in Seq(S) /\ Range(V) = S /\ Len(V) = Cardinality(S)
<1> DEFINE D == 1..Cardinality(S)
<1>1. Cardinality(S) \in Nat /\ ExistsBijection(D, S) BY FS_CardinalityType
<1>2. PICK g : g \in Bijection(D, S) BY <1>1 DEF ExistsBijection
<1>3. g \in [D -> S] /\ IsInjective(g) BY <1>2 DEF Bijection, Injection, IsInjective
<1>4. V \in [D -> S] /\ IsInjective(V)
  BY <1>3 DEF SetToSeq
<1>5. V \in Injection(D, S) BY <1>4 DEF Injection, IsInjective
<1>6. IsFiniteSet(D) /\ Cardinality(D) = Cardinality(S)
  BY <1>1, FS_Interval
<1>7. V \in Surjection(D, S)
  <2> HIDE DEF D
  <2> QED BY <1>5, <1>6, FS_Injection
<1>8. DOMAIN V = D /\ \A x \in S : \E i \in D : V[i] = x
  BY <1>4, <1>7 DEF Surjection
<1>9. Range(V) = S
  <2>1. \A i \in D : V[i] \in S BY <1>4
  <2> HIDE DEF D
  <2> QED BY <1>8, <2>1 DEF Range
<1>10. V \in Seq(S) BY <1>1, <1>4
<1>11. Len(V) = Cardinality(S) BY <1>1, <1>8, <1>10
<1> QED BY <1>9, <1>10, <1>11

\* The blocks of the chain, seen from any phase.
LEMMA ChainEvents ==
  ASSUME Inv, RecordedInv
  PROVE  \A b \in 1..Len(chain) : chain[b].event \in EventSources \cup {"none"}
<1>1. CASE exec.phase # "finished"
  BY <1>1 DEF RecordedInv, Executed
<1>2. CASE exec.phase = "finished"
  <2>1. OneMore(chain, Executed) BY <1>2, CommittedChain
  <2>2. \A b \in 1..Len(chain) : b \in 1..Len(Executed) /\ Executed[b] = chain[b]
    BY <2>1 DEF OneMore
  <2> QED BY <2>2 DEF RecordedInv
<1> QED BY <1>1, <1>2

\* A replay of one block by recovery is the one of the chain.
LEMMA ReplayBlockIs ==
  ASSUME OneContract, EventSources \subseteq {"receipts"}, Pruned = {},
         NEW n \in 1..Len(chain), IsPosdao(n), IsPreMerge(n),
         chain[n].event \in EventSources \cup {"none"},
         NEW contract, contract = ContractOf(n), NEW sim
  PROVE  ReplayBlock(sim, n, contract) = ReplayedOne(chain, sim, n)
<1>1. Beneficiary(n) = chain[n].signer BY DEF Beneficiary
<1>2. ReceiptsShowChange(n, contract) <=> chain[n].event # "none"
  <2>1. chain[n].event = "receipts" <=> chain[n].event # "none" OBVIOUS
  <2>2. n > 0 /\ n \notin Pruned OBVIOUS
  <2> QED BY <2>1, <2>2 DEF ReceiptsShowChange
<1>3. CASE chain[n].event = "none"
  <2>1. ReplayBlock(sim, n, contract) = Push(TakeFinalizeChange(sim, n), n, chain[n].signer)
    BY <1>1, <1>2, <1>3, Zenon DEF ReplayBlock
  <2> QED BY <1>3, <2>1, Zenon DEF ReplayedOne
<1>4. CASE chain[n].event # "none"
  <2>1. ReplayBlock(sim, n, contract)
          = Push(AddPendingTransition(TakeFinalizeChange(sim, n), n, contract),
                 n, chain[n].signer)
    BY <1>1, <1>2, <1>4, Zenon DEF ReplayBlock
  <2> QED BY <1>4, <2>1, Zenon DEF ReplayedOne
<1> QED BY <1>3, <1>4

\* What recovery computes is the end of the replay of a representative window.
LEMMA RecoveryReplays ==
  ASSUME OneContract, EventSources \subseteq {"receipts"}, Pruned = {},
         Inv, RecordedInv, Representative, NEW contract, contract = ContractOf(head)
  PROVE  \E V, f : /\ Represents(chain, WindowStart, V)
                   /\ Replays(chain, WindowStart, V, f)
                   /\ Replayed(contract) = f[Len(chain)]
<1>1. head = Len(chain) /\ head \in Nat /\ chain \in Seq(Blocks) BY CommittedChain
<1>2. PICK start : start = WindowStart OBVIOUS
<1>3. /\ start > 0 /\ IsPosdao(start) /\ IsPreMerge(head)
      /\ \A n \in start..head : /\ Range(chain[n].active) = Discovered
                                /\ Len(chain[n].active) = Cardinality(Discovered)
      /\ \A b \in 1..(start - 1) : ~Waits(b, start - 1)
  BY <1>2 DEF Representative
<1>4. start \in 1..head /\ start \in Nat
  BY <1>1, <1>2, <1>3, AuraRecoveryAssumption DEF WindowStart
<1>5. \A n \in start..head : /\ n \in 1..Len(chain) /\ n \in Nat
                             /\ IsPosdao(n) /\ IsPreMerge(n)
                             /\ Beneficiary(n) = chain[n].signer
                             /\ chain[n].signer \in Validators
  <2> SUFFICES ASSUME NEW n \in start..head
               PROVE  /\ n \in 1..Len(chain) /\ n \in Nat
                      /\ IsPosdao(n) /\ IsPreMerge(n)
                      /\ Beneficiary(n) = chain[n].signer
                      /\ chain[n].signer \in Validators
    OBVIOUS
  <2>1. n \in 1..Len(chain) /\ n \in Nat BY <1>1, <1>4
  <2>2. IsPosdao(n) /\ IsPreMerge(n)
    BY <1>1, <1>3, <1>4, <2>1, AuraExecutionAssumption DEF IsPosdao, IsPreMerge
  <2>3. chain[n] \in Blocks BY <1>1, <2>1
  <2> QED BY <2>1, <2>2, <2>3 DEF Beneficiary, Blocks
<1>6. \A x : x \in Discovered <=> \E n \in start..head : x = chain[n].signer
  BY <1>2, <1>5 DEF Discovered
<1>7. IsFiniteSet(Discovered)
  <2>1. head \in start..head BY <1>1, <1>4
  <2>2. Discovered = Range(chain[head].active) BY <1>3, <2>1
  <2>3. chain[head] \in Blocks BY <1>1, <1>4
  <2>4. chain[head].active \in Seq(Validators) BY <2>3 DEF Blocks
  <2> QED BY <2>2, <2>4, RangeFinite
<1>8. PICK V : V = SetToSeq(Discovered) OBVIOUS
<1>9. V \in Seq(Discovered) /\ Range(V) = Discovered /\ Len(V) = Cardinality(Discovered)
  BY <1>7, <1>8, SetToSeqLists
<1>10. Represents(chain, start, V)
  <2>1. Discovered \subseteq Validators BY <1>5, <1>6
  <2>2. V \in Seq(Validators)
    <3> HIDE DEF Discovered
    <3> QED BY <1>9, <2>1
  <2>3. \A n \in start..head : /\ chain[n].signer \in Range(V)
                               /\ Range(chain[n].active) = Range(V)
                               /\ Len(chain[n].active) = Len(V)
    BY <1>3, <1>6, <1>9
  <2>4. \A b \in 1..(start - 1) : ~WaitsIn(chain, b, start - 1)
    BY <1>3, CommittedChain
  <2>5. start \in 1..(Len(chain) + 1) BY <1>1, <1>4
  <2> QED BY <1>1, <1>3, <2>2, <2>3, <2>4, <2>5 DEF Represents
<1>11. PICK m, first : m = head - start + 1 /\ first = SetValidators(New(<<>>), V)
  OBVIOUS
<1>12. m \in Nat BY <1>1, <1>4, <1>11
<1>13. PICK g : Simulates(g, first, start, contract, m) /\ Replayed(contract) = g[m]
  BY <1>2, <1>4, <1>8, <1>11, <1>12, ReplayedRuns
<1>14. PICK f : f = [n \in (start - 1)..head |-> g[n - start + 1]] OBVIOUS
<1>15. f[start - 1] = first
  <2>1. start - 1 \in (start - 1)..head /\ (start - 1) - start + 1 = 0 BY <1>1, <1>4
  <2> QED BY <1>13, <1>14, <2>1 DEF Simulates
<1>16. ASSUME NEW n \in start..head
       PROVE  f[n] = ReplayedOne(chain, f[n - 1], n)
  <2>1. /\ n \in (start - 1)..head /\ n - 1 \in (start - 1)..head
        /\ n - start + 1 \in 1..m /\ (n - 1) - start + 1 = (n - start + 1) - 1
        /\ start + (n - start + 1) - 1 = n
    BY <1>1, <1>4, <1>11, <1>16
  <2>2. PICK k : k = n - start + 1 OBVIOUS
  <2>3. f[n] = g[k] /\ f[n - 1] = g[k - 1] BY <1>14, <2>1, <2>2
  <2>4. g[k] = ReplayBlock(g[k - 1], n, contract)
    <3>1. k \in 1..m /\ start + k - 1 = n BY <2>1, <2>2
    <3>2. g[k] = ReplayBlock(g[k - 1], start + k - 1, contract) BY <1>13, <3>1 DEF Simulates
    <3> QED BY <3>1, <3>2
  <2>5. contract = ContractOf(n)
    BY <1>1, <1>3, <1>4, <1>5, <1>16, AuraExecutionAssumption DEF OneContract, IsPosdao
  <2>6. ReplayBlock(g[k - 1], n, contract) = ReplayedOne(chain, g[k - 1], n)
    BY <1>5, <2>5, ChainEvents, ReplayBlockIs
  <2> QED BY <2>3, <2>4, <2>6
<1>17. Replays(chain, start, V, f) BY <1>1, <1>11, <1>15, <1>16 DEF Replays
<1>18. f[head] = g[m]
  <2>1. head \in (start - 1)..head BY <1>1, <1>4
  <2> QED BY <1>11, <1>14, <2>1
<1> QED BY <1>1, <1>2, <1>10, <1>13, <1>17, <1>18

\* As many pending transitions, of the same blocks, with the same contracts.
LEMMA SamePendingMap ==
  ASSUME NEW ch, NEW t, Plain(t), PendingOf(t, ch), NEW u, Plain(u), PendingOf(u, ch),
         DOMAIN u.pending_transitions = DOMAIN t.pending_transitions
  PROVE  u.pending_transitions = t.pending_transitions
<1>1. \A b \in DOMAIN t.pending_transitions :
        u.pending_transitions[b] = t.pending_transitions[b]
  BY DEF PendingOf
<1> QED BY <1>1 DEF Plain, IsMap

\* A recovered tracker has what it was given.
LEMMA RecoveredFields ==
  ASSUME NEW pending, NEW scheduled
  PROVE  /\ FromRecovered(pending, scheduled).pending_transitions = pending
         /\ FromRecovered(pending, scheduled).finalize_change_at = scheduled
BY DEF FromRecovered, New

\* Replaying the headers and receipts of a representative window gives exactly
\* the transitions that wait and the call that is scheduled in the live tracker.
THEOREM RecoveryGetsItRight ==
  ASSUME OneContract, QuietTurns, QuietTakeover, Outsiders = {}, Eager = {},
         EventSources \subseteq {"receipts"}, Pruned = {}
  PROVE  RecoverySpec => []RecoveryIsExact
<1>1. RecoveryInv => RecoveryIsExact
  <2> SUFFICES ASSUME Sound, exec.phase = "idle", Representative
               PROVE  /\ ReconstructFinalityState.pending_transitions = rf.pending_transitions
                      /\ ReconstructFinalityState.finalize_change_at = rf.finalize_change_at
    BY DEF RecoveryInv, RecoveryIsExact
  <2>1. Inv /\ BlocksInv /\ RecordedInv /\ EchoInv BY DEF Sound
  <2>2. Executed = chain BY <2>1, CommittedChain
  <2>3. PICK contract, R : contract = ContractOf(head) /\ R = Replayed(contract) OBVIOUS
  <2>4. PICK V, f : /\ Represents(chain, WindowStart, V)
                    /\ Replays(chain, WindowStart, V, f)
                    /\ R = f[Len(chain)]
    BY <2>1, <2>3, RecoveryReplays
  <2>5. Echoed(rf, chain) BY <2>1, <2>2 DEF EchoInv, MidBlock
  <2>6. Echoes(rf, R, chain, V) BY <2>4, <2>5 DEF Echoed
  <2>7. /\ Plain(rf) /\ PendingOf(rf, chain)
        /\ Plain(R) /\ PendingOf(R, chain)
        /\ DOMAIN R.pending_transitions = DOMAIN rf.pending_transitions
        /\ R.finalize_change_at = rf.finalize_change_at
    BY <2>1, <2>2, <2>6 DEF Echoes, Alike, BlocksInv, RecordedInv
  <2>8. R.pending_transitions = rf.pending_transitions BY <2>7, SamePendingMap
  <2>9. ReconstructFinalityState = FromRecovered(R.pending_transitions, R.finalize_change_at)
    BY <2>3 DEF ReconstructFinalityState, Representative
  <2> QED BY <2>7, <2>8, <2>9, RecoveredFields
<1> QED BY <1>1, AlwaysRecovery, PTL

\* Wherever a node stops, the restarted tracker has the call that the head made
\* due: the call that was already taken for the next block comes back.
THEOREM CallsSurviveRestarts ==
  ASSUME OneContract, QuietTurns, QuietTakeover, Outsiders = {}, Eager = {},
         EventSources \subseteq {"receipts"}, Pruned = {}, AnyWindow = FALSE
  PROVE  RecoverySpec => CallSurvivesRestart
<1> DEFINE Survives ==
      Restart /\ NoFaultsYet =>
        \A b \in WindowStart..head :
          /\ b > 0 /\ Waits(b, head) /\ MajoritySince(b, head)
          /\ b = head \/ ~MajoritySince(b, head - 1)
          => rf'.finalize_change_at = [at |-> head + 1, address |-> ContractOf(b)]
<1>1. RecoveryInv => Survives
  <2> SUFFICES ASSUME Sound, Restart, NEW b \in WindowStart..head,
                      Waits(b, head), MajoritySince(b, head)
               PROVE  rf'.finalize_change_at = [at |-> head + 1, address |-> ContractOf(b)]
    BY DEF RecoveryInv
  <2>1. Inv /\ RecordedInv /\ Recalls(chain) /\ Representative BY DEF Sound, Restart
  <2>2. head = Len(chain) /\ head \in Nat BY <2>1, CommittedChain
  <2>3. PICK contract, R : contract = ContractOf(head) /\ R = Replayed(contract) OBVIOUS
  <2>4. PICK V, f : /\ Represents(chain, WindowStart, V)
                    /\ Replays(chain, WindowStart, V, f)
                    /\ R = f[Len(chain)]
    BY <2>1, <2>3, RecoveryReplays
  <2>5. WaitsIn(chain, b, Len(chain)) /\ MajorityIn(chain, b, Len(chain))
    BY <2>1, <2>2, CommittedChain
  <2>6. R.finalize_change_at = [at |-> head + 1, address |-> ContractOf(b)]
    BY <2>1, <2>2, <2>4, <2>5 DEF Recalls
  <2>7. PICK recovered : recovered = ReconstructFinalityState OBVIOUS
  <2>8. recovered = FromRecovered(R.pending_transitions, R.finalize_change_at)
    BY <2>1, <2>3, <2>7 DEF ReconstructFinalityState, Representative
  <2>9. recovered.finalize_change_at = [at |-> head + 1, address |-> ContractOf(b)]
    BY <2>6, <2>8, RecoveredFields
  <2>10. ContractOf(b) # NoAddress
    <3>1. /\ WindowStart \in 1..(head + 1) /\ IsPosdao(WindowStart) /\ IsPreMerge(head)
      BY <2>2, <2>4 DEF Represents
    <3>2. b \in Nat /\ IsPosdao(b) /\ IsPreMerge(b)
      BY <2>2, <3>1, AuraExecutionAssumption DEF IsPosdao, IsPreMerge
    <3> QED BY <3>2 DEF OneContract
  <2>11. Scheduled(recovered) BY <2>9, <2>10 DEF Scheduled
  <2>12. rf' = recovered
    BY <2>1, <2>7, <2>11 DEF Restart, RestartedTracker, Representative
  <2> QED BY <2>9, <2>12
<1>2. RecoverySpec => [][Survives]_vars
  <2> HIDE DEF Survives
  <2> QED BY <1>1, AlwaysRecovery, PTL
<1> QED BY <1>2 DEF CallSurvivesRestart
=============================================================================

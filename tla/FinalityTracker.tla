---------------------------- MODULE FinalityTracker ----------------------------
(***************************************************************************)
(* The rolling finality tracker behind its mutex, used by callers that may *)
(* call any method with any argument in any order.  AuraExecution is one   *)
(* disciplined caller; what holds here holds whatever the executor, a      *)
(* retry, a second executor or the startup recovery do with the tracker.   *)
(***************************************************************************)
EXTENDS RollingFinality

CONSTANTS
  Validators,   \* addresses that sign blocks
  Contracts,    \* addresses of validator contracts
  Vectors,      \* what getValidators() may return
  MaxBlock,     \* bound: block numbers
  MaxWindow     \* bound: length of headers

ASSUME FinalityTrackerAssumption ==
  /\ NoAddress \notin Contracts
  /\ Vectors \subseteq Seq(Validators)
  /\ MaxBlock \in Nat
  /\ MaxWindow \in Nat

VARIABLE rf

Blocks == 0..MaxBlock

Init == rf = New(<<>>)

\* push
PushBlock(n, signer) ==
  /\ Len(rf.headers) < MaxWindow
  /\ rf' = Push(rf, n, signer)

\* the other methods that take the lock
Announce(n, contract)  == rf' = AddPendingTransition(rf, n, contract)
Schedule(n, contract)  == rf' = SetImmediateFinalize(rf, n, contract)
Take(n)                == rf' = TakeFinalizeChange(rf, n)
Refresh(vector)        == rf' = SetValidators(rf, vector)

\* a restart that recovers the transitions and the schedule
Recover == rf' = FromRecovered(rf.pending_transitions, rf.finalize_change_at)

Next ==
  \/ \E n \in Blocks, signer \in Validators : PushBlock(n, signer)
  \/ \E n \in Blocks, contract \in Contracts :
       Announce(n, contract) \/ Schedule(n, contract)
  \/ \E n \in Blocks : Take(n)
  \/ \E vector \in Vectors : Refresh(vector)
  \/ Recover

Spec == Init /\ [][Next]_rf
-----------------------------------------------------------------------------
(***************************************************************************)
(* push as the source writes it, to compare Push with: the while loop that *)
(* collects what is final, then the loop over what it collected.           *)
(***************************************************************************)
\* *count -= 1, and the entry goes at zero
CountedDown(count, signer) ==
  LET left == IF signer \in DOMAIN count /\ count[signer] = 1
              THEN DOMAIN count \ {signer} ELSE DOMAIN count
  IN [a \in left |-> IF a = signer THEN count[a] - 1 ELSE count[a]]

\* one turn of "while self.is_finalized()", none if it is over
PopOne(run) ==
  LET t == run.tracker IN
  IF t.headers # <<>> /\ IsFinalized(t.sign_count, t.validators)
  THEN [tracker   |-> [t EXCEPT !.headers    = Tail(@),
                                !.sign_count = CountedDown(@, Head(t.headers).signer)],
        finalized |-> Append(run.finalized, Head(t.headers))]
  ELSE run

\* a turn takes a header, so there are no more turns than headers
PopLoop(t) ==
  LET after[k \in 0..Len(t.headers)] ==
        IF k = 0 THEN [tracker |-> t, finalized |-> <<>>] ELSE PopOne(after[k - 1])
  IN after[Len(t.headers)]

\* one turn of "for (finalized_num, _) in &finalized"
ScheduleOne(t, num, n) ==
  IF num \in DOMAIN t.pending_transitions
  THEN [t EXCEPT !.pending_transitions = Restrict(@, DOMAIN @ \ {num}),
                 !.finalize_change_at  =
                    [at |-> n + 1, address |-> t.pending_transitions[num]]]
  ELSE t

ScheduleLoop(t, finalized, n) ==
  LET after[k \in 0..Len(finalized)] ==
        IF k = 0 THEN t ELSE ScheduleOne(after[k - 1], finalized[k].num, n)
  IN after[Len(finalized)]

PushByLoops(t, n, signer) ==
  IF t.validators_sealed /\ signer \notin Range(t.validators) THEN t
  ELSE LET popped == PopLoop(Counted(t, n, signer))
       IN ScheduleLoop(popped.tracker, popped.finalized, n)
-----------------------------------------------------------------------------
\* The type invariant: every method returns a well-formed tracker.
TypeOK == IsTracker(rf, Validators, Contracts)

\* The window never holds a majority of the validators, in whatever order the
\* methods are called: push pops until it does not, and every method that
\* replaces the set empties the window (src/aura/finality.rs push, set_validators).
WindowBelowMajority == NoMajority(rf)

\* sign_count counts exactly the headers of the window, and only validators, in
\* whatever order the methods are called.
CensusExact == CountsWindow(rf) /\ SignersKnown(rf)

\* Nothing is forgotten, whatever the order of the calls: a transition leaves
\* pending_transitions only in a step that schedules a transition leaving with
\* it, and a schedule is cleared only with the window, pending_transitions
\* untouched (push's pop loop, take_finalize_change).
NothingVanishes == [][Kept(rf, rf')]_rf

\* The closed form of push agrees with the loops of src/aura/finality.rs:119-153
\* on every tracker the methods can produce.
PushIsTheLoop ==
  \A n \in Blocks, signer \in Validators : Push(rf, n, signer) = PushByLoops(rf, n, signer)
=============================================================================

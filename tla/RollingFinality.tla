--------------------------- MODULE RollingFinality ---------------------------
(***************************************************************************)
(* The rolling finality tracker of AuRa (src/aura/finality.rs): a value    *)
(* and the operations on it.  There is no state here: the tracker is a     *)
(* record, each method is an operator from the tracker before the call to  *)
(* the tracker after it.  AuraExecution keeps the live tracker in a        *)
(* variable, AuraRecovery runs the same operators in its simulation.       *)
(*                                                                         *)
(* An operator marked "slip" is no part of the model: it is a wrong        *)
(* version of the operator after it, and the README names the property     *)
(* that refutes it.                                                        *)
(***************************************************************************)
EXTENDS Naturals, Sequences, FiniteSets, Functions, AuraAddress

(***************************************************************************)
(* finalize_change_at : Option<(u64, Address)>.                            *)
(***************************************************************************)
NotScheduled == [at |-> 0, address |-> NoAddress]
Scheduled(rf) == rf.finalize_change_at.address # NoAddress

\* BTreeMap::new()
EmptyMap == [x \in {} |-> 0]

(***************************************************************************)
(* The constructors.                                                       *)
(***************************************************************************)
New(validators) ==
  [validators          |-> validators,
   validators_sealed   |-> FALSE,
   headers             |-> <<>>,
   sign_count          |-> EmptyMap,
   pending_transitions |-> EmptyMap,
   finalize_change_at  |-> NotScheduled]

FromRecovered(pending, scheduled) ==
  [New(<<>>) EXCEPT !.pending_transitions = pending,
                    !.finalize_change_at  = scheduled]

(***************************************************************************)
(* set_validators: the set becomes authoritative and the window is empty.  *)
(***************************************************************************)
\* slip: only the counts are reset
SetValidatorsKeepsHeaders(rf, validators) ==
  [rf EXCEPT !.validators        = validators,
             !.validators_sealed = TRUE,
             !.sign_count        = EmptyMap]

SetValidators(rf, validators) ==
  [rf EXCEPT !.validators        = validators,
             !.validators_sealed = TRUE,
             !.headers           = <<>>,
             !.sign_count        = EmptyMap]

SetImmediateFinalize(rf, target, contract) ==
  [rf EXCEPT !.finalize_change_at = [at |-> target, address |-> contract]]

\* slip: room for one pending transition
AddPendingTransitionOnly(rf, n, contract) ==
  [rf EXCEPT !.pending_transitions = [b \in {n} |-> contract]]

AddPendingTransition(rf, n, contract) ==
  [rf EXCEPT !.pending_transitions =
     [b \in DOMAIN rf.pending_transitions \cup {n} |->
        IF b = n THEN contract ELSE rf.pending_transitions[b]]]

(***************************************************************************)
(* take_finalize_change: due is whether it returns Some.  Taking empties   *)
(* the window, it does not touch pending_transitions.                      *)
(***************************************************************************)
\* slip: due one block late
FinalizeDueLate(rf, n) == Scheduled(rf) /\ n > rf.finalize_change_at.at

FinalizeDue(rf, n) == Scheduled(rf) /\ n >= rf.finalize_change_at.at

TakeFinalizeChange(rf, n) ==
  IF FinalizeDue(rf, n)
  THEN [rf EXCEPT !.finalize_change_at = NotScheduled,
                  !.headers            = <<>>,
                  !.sign_count         = EmptyMap]
  ELSE rf

(***************************************************************************)
(* push.                                                                   *)
(***************************************************************************)
\* how many of the first k headers of hs the validator a signed
SignedIn(hs, k, a) == Cardinality({i \in 1..k : hs[i].signer = a})

\* slip: a count of zero stays in the map
CountAfterKeepsZero(rf, k) ==
  [a \in DOMAIN rf.sign_count |-> rf.sign_count[a] - SignedIn(rf.headers, k, a)]

\* sign_count once the first k headers are popped: a validator whose count
\* reaches zero leaves the map
CountAfter(rf, k) ==
  LET left == {a \in DOMAIN rf.sign_count :
                 rf.sign_count[a] > SignedIn(rf.headers, k, a)}
  IN [a \in left |-> rf.sign_count[a] - SignedIn(rf.headers, k, a)]

\* is_finalized, of a sign_count map and the validators
IsFinalized(count, validators) ==
  Cardinality(DOMAIN count) * 2 > Len(validators)

\* slip: if instead of while
PoppedByOne(rf) ==
  IF rf.headers # <<>> /\ IsFinalized(rf.sign_count, rf.validators) THEN 1 ELSE 0

\* the number of headers the loop pops: it stops at the first prefix whose
\* removal leaves no majority, or with an empty queue
PoppedBy(rf) ==
  LET goesOn(k) == IsFinalized(CountAfter(rf, k), rf.validators)
  IN CHOOSE k \in 0..Len(rf.headers) :
       /\ \A j \in 0..(k-1) : goesOn(j)
       /\ goesOn(k) => k = Len(rf.headers)

\* slip: push_front
CountedAtFront(rf, n, signer) ==
  [rf EXCEPT
     !.validators = IF signer \in Range(@) THEN @ ELSE Append(@, signer),
     !.headers    = <<[num |-> n, signer |-> signer]>> \o @,
     !.sign_count = [a \in DOMAIN @ \cup {signer} |->
                       (IF a \in DOMAIN @ THEN @[a] ELSE 0)
                         + (IF a = signer THEN 1 ELSE 0)]]

\* the header is counted; an unsealed tracker learns an unknown signer
Counted(rf, n, signer) ==
  [rf EXCEPT
     !.validators = IF signer \in Range(@) THEN @ ELSE Append(@, signer),
     !.headers    = Append(@, [num |-> n, signer |-> signer]),
     !.sign_count = [a \in DOMAIN @ \cup {signer} |->
                       (IF a \in DOMAIN @ THEN @[a] ELSE 0)
                         + (IF a = signer THEN 1 ELSE 0)]]

\* which of the first k headers hit a pending transition (a number that
\* occurs twice hits once)
HitsIn(rf, k) ==
  {i \in 1..k :
     /\ rf.headers[i].num \in DOMAIN rf.pending_transitions
     /\ \A j \in 1..(i-1) : rf.headers[j].num # rf.headers[i].num}

NumbersIn(rf, k) == {rf.headers[i].num : i \in 1..k}

\* slip: the first hit wins
LatestHitIsFirst(rf, k) ==
  CHOOSE i \in HitsIn(rf, k) : \A j \in HitsIn(rf, k) : i <= j

LatestHit(rf, k) ==
  CHOOSE i \in HitsIn(rf, k) : \A j \in HitsIn(rf, k) : j <= i

\* slip: get instead of remove
PendingAfterKeepsAll(rf, k) == rf.pending_transitions

PendingAfter(rf, k) ==
  Restrict(rf.pending_transitions, DOMAIN rf.pending_transitions \ NumbersIn(rf, k))

\* the majority headers leave the window; the last of them that had a
\* pending transition schedules finalizeChange for the block after n
PopFinalized(rf, n) ==
  LET k == PoppedBy(rf)
  IN [rf EXCEPT
        !.headers             = SubSeq(@, k + 1, Len(@)),
        !.sign_count          = CountAfter(rf, k),
        !.pending_transitions = PendingAfter(rf, k),
        !.finalize_change_at  =
           IF HitsIn(rf, k) = {} THEN @
           ELSE [at      |-> n + 1,
                 address |-> rf.pending_transitions[rf.headers[LatestHit(rf, k)].num]]]

Push(rf, n, signer) ==
  IF rf.validators_sealed /\ signer \notin Range(rf.validators)
  THEN rf
  ELSE PopFinalized(Counted(rf, n, signer), n)

(***************************************************************************)
(* The values a tracker can have, over given addresses and contracts.      *)
(***************************************************************************)
IsTracker(t, addresses, contractAddresses) ==
  /\ t \in [validators          : Seq(addresses),
            validators_sealed   : BOOLEAN,
            headers             : Seq([num : Nat, signer : addresses]),
            sign_count          : {t.sign_count},
            pending_transitions : {t.pending_transitions},
            finalize_change_at  : [at : Nat, address : contractAddresses \cup {NoAddress}]]
  /\ DOMAIN t.sign_count \subseteq addresses
  /\ \A a \in DOMAIN t.sign_count : t.sign_count[a] \in Nat \ {0}
  /\ DOMAIN t.pending_transitions \subseteq Nat
  /\ \A b \in DOMAIN t.pending_transitions :
       t.pending_transitions[b] \in contractAddresses

(***************************************************************************)
(* Facts about a tracker that no method may break.                         *)
(***************************************************************************)
\* the window never holds a majority: what is final has left it
NoMajority(rf) == ~ IsFinalized(rf.sign_count, rf.validators)

\* sign_count is the census of the window
CountsWindow(rf) ==
  /\ DOMAIN rf.sign_count = {rf.headers[i].signer : i \in DOMAIN rf.headers}
  /\ \A a \in DOMAIN rf.sign_count :
       rf.sign_count[a] = SignedIn(rf.headers, Len(rf.headers), a)

\* only validators are counted
SignersKnown(rf) == DOMAIN rf.sign_count \subseteq Range(rf.validators)

\* the window is in block order
WindowOrdered(rf) ==
  \A i, j \in DOMAIN rf.headers :
    i < j => rf.headers[i].num < rf.headers[j].num

\* from tracker t to tracker u nothing is forgotten: a transition leaves only
\* if one that leaves with it is scheduled, and a schedule is cleared only with
\* the window, the pending transitions untouched
Kept(t, u) ==
  LET left == DOMAIN t.pending_transitions \ DOMAIN u.pending_transitions
  IN /\ left # {} =>
          \E b \in left : u.finalize_change_at.address = t.pending_transitions[b]
     /\ Scheduled(t) /\ ~Scheduled(u) => u.headers = <<>> /\ left = {}
=============================================================================

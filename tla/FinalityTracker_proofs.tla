------------------------ MODULE FinalityTracker_proofs ------------------------
(***************************************************************************)
(* The tracker under arbitrary callers, for every set of validators and    *)
(* contracts, every block number and every window length.                  *)
(***************************************************************************)
EXTENDS FinalityTracker, RollingFinality_proofs

(***************************************************************************)
(* The inductive invariant.  None of its conjuncts is inductive alone: the *)
(* pop loop ends below a majority only because sign_count is the census of *)
(* headers, and the census stays one only on well-typed trackers.          *)
(***************************************************************************)
Inv == InOrder(rf, Validators, Contracts)

LEMMA InitInv == Init => Inv
<1>1. <<>> \in Seq(Validators) OBVIOUS
<1> QED BY <1>1, NewInOrder DEF Init, Inv

LEMMA NextInv == Inv /\ [Next]_rf => Inv'
<1> SUFFICES ASSUME Inv, [Next]_rf PROVE Inv'
  OBVIOUS
<1> USE FinalityTrackerAssumption
<1>1. Blocks \subseteq Nat BY DEF Blocks
<1>2. ASSUME NEW n \in Blocks, NEW signer \in Validators, PushBlock(n, signer)
      PROVE  Inv'
  BY <1>1, <1>2, PushKeeps DEF Inv, PushBlock
<1>3. ASSUME NEW n \in Blocks, NEW contract \in Contracts, Announce(n, contract)
      PROVE  Inv'
  BY <1>1, <1>3, AddPendingTransitionKeeps DEF Inv, Announce
<1>4. ASSUME NEW n \in Blocks, NEW contract \in Contracts, Schedule(n, contract)
      PROVE  Inv'
  BY <1>1, <1>4, SetImmediateFinalizeKeeps DEF Inv, Schedule
<1>5. ASSUME NEW n \in Blocks, Take(n) PROVE Inv'
  BY <1>5, TakeFinalizeChangeKeeps DEF Inv, Take
<1>6. ASSUME NEW vector \in Vectors, Refresh(vector) PROVE Inv'
  BY <1>6, SetValidatorsKeeps DEF Inv, Refresh
<1>7. CASE Recover
  <2>1. /\ DOMAIN rf.pending_transitions \subseteq Nat
        /\ \A b \in DOMAIN rf.pending_transitions : rf.pending_transitions[b] \in Contracts
        /\ rf.finalize_change_at \in [at : Nat, address : Contracts \cup {NoAddress}]
    BY DEF Inv, InOrder, IsTracker
  <2> QED BY <1>7, <2>1, FromRecoveredInOrder DEF Inv, Recover
<1>8. CASE UNCHANGED rf
  BY <1>8 DEF Inv
<1> QED BY <1>2, <1>3, <1>4, <1>5, <1>6, <1>7, <1>8 DEF Next

LEMMA AlwaysInv == Spec => []Inv
BY InitInv, NextInv, PTL DEF Spec

\* Whatever its callers do, every method of RollingFinality returns a
\* well-formed tracker.
THEOREM TypeCorrect == Spec => []TypeOK
<1>1. Inv => TypeOK BY DEF Inv, InOrder, TypeOK
<1> QED BY <1>1, AlwaysInv, PTL

\* Whatever its callers do, no majority of the validators is ever left in the
\* window after a call (push's loop, set_validators).
THEOREM NeverAMajority == Spec => []WindowBelowMajority
<1>1. Inv => WindowBelowMajority BY DEF Inv, InOrder, WindowBelowMajority
<1> QED BY <1>1, AlwaysInv, PTL

\* Whatever its callers do, sign_count is the census of the window's headers
\* and counts validators only.
THEOREM CensusIsExact == Spec => []CensusExact
<1>1. Inv => CensusExact BY DEF Inv, InOrder, CensusExact
<1> QED BY <1>1, AlwaysInv, PTL

(***************************************************************************)
(* Nothing is forgotten.                                                   *)
(***************************************************************************)
LEMMA NextKept == Inv /\ [Next]_rf => [Kept(rf, rf')]_rf
<1> SUFFICES ASSUME Inv, Next PROVE Kept(rf, rf')
  OBVIOUS
<1> USE FinalityTrackerAssumption
<1>0. /\ Blocks \subseteq Nat
      /\ IsTracker(rf, Validators, Contracts) /\ CountsWindow(rf) /\ SignersKnown(rf)
  BY DEF Blocks, Inv, InOrder
<1>1. ASSUME NEW n \in Blocks, NEW signer \in Validators, PushBlock(n, signer)
      PROVE  Kept(rf, rf')
  <2>1. CASE rf' = rf
    BY <2>1 DEF Kept
  <2>2. CASE rf' # rf
    <3> DEFINE u == Counted(rf, n, signer)
    <3>1. rf' = PopFinalized(u, n) BY <1>1, <2>2 DEF PushBlock, Push
    <3>2. IsTracker(u, Validators, Contracts) /\ CountsWindow(u)
      BY <1>0, CountedKeeps
    <3>3. /\ u.pending_transitions = rf.pending_transitions
          /\ u.finalize_change_at = rf.finalize_change_at
      BY <1>0 DEF Counted, IsTracker
    <3> HIDE DEF u
    <3>4. Kept(u, rf')
      <4>1. n \in Nat BY <1>0
      <4> QED BY <3>1, <3>2, <4>1, PopFinalizedSchedules
    <3> QED BY <3>3, <3>4 DEF Kept, Scheduled
  <2> QED BY <2>1, <2>2
<1>2. ASSUME NEW n \in Blocks, NEW contract \in Contracts, Announce(n, contract)
      PROVE  Kept(rf, rf')
  <2>1. /\ DOMAIN rf'.pending_transitions = DOMAIN rf.pending_transitions \cup {n}
        /\ rf'.finalize_change_at = rf.finalize_change_at
    BY <1>0, <1>2 DEF Announce, AddPendingTransition, IsTracker
  <2> QED BY <2>1 DEF Kept, Scheduled
<1>3. ASSUME NEW n \in Blocks, NEW contract \in Contracts, Schedule(n, contract)
      PROVE  Kept(rf, rf')
  <2>1. /\ rf'.pending_transitions = rf.pending_transitions
        /\ rf'.finalize_change_at.address = contract
    BY <1>0, <1>3 DEF Schedule, SetImmediateFinalize, IsTracker
  <2> QED BY <2>1 DEF Kept, Scheduled
<1>4. ASSUME NEW n \in Blocks, Take(n) PROVE Kept(rf, rf')
  <2>1. /\ rf'.pending_transitions = rf.pending_transitions
        /\ rf' = rf \/ rf'.headers = <<>>
    BY <1>0, <1>4 DEF Take, TakeFinalizeChange, IsTracker
  <2> QED BY <2>1 DEF Kept
<1>5. ASSUME NEW vector \in Vectors, Refresh(vector) PROVE Kept(rf, rf')
  <2>1. /\ rf'.pending_transitions = rf.pending_transitions
        /\ rf'.finalize_change_at = rf.finalize_change_at
    BY <1>0, <1>5 DEF Refresh, SetValidators, IsTracker
  <2> QED BY <2>1 DEF Kept, Scheduled
<1>6. CASE Recover
  <2>1. /\ rf'.pending_transitions = rf.pending_transitions
        /\ rf'.finalize_change_at = rf.finalize_change_at
    BY <1>6 DEF Recover, FromRecovered, New
  <2> QED BY <2>1 DEF Kept, Scheduled
<1> QED BY <1>1, <1>2, <1>3, <1>4, <1>5, <1>6 DEF Next

\* Whatever its callers do, a pending transition leaves the tracker only in a
\* step that schedules a call for one that leaves, and a schedule is cleared
\* only together with the window (push, take_finalize_change).
THEOREM NothingIsForgotten == Spec => NothingVanishes
BY AlwaysInv, NextKept, PTL DEF Spec, NothingVanishes

(***************************************************************************)
(* push as the source writes it.  Each loop is a recursive function that   *)
(* CHOOSE picks.  Its closed form satisfies the recursion, so there is     *)
(* one, and the least turn at which one could differ from the closed form  *)
(* shows that there is no other.                                           *)
(***************************************************************************)
IsMap(f) == f = [x \in DOMAIN f |-> f[x]]

Least(k, m) == IF k <= m THEN k ELSE m

\* the tracker with its first k headers popped
PoppedTo(t, k) ==
  [t EXCEPT !.headers = SubSeq(t.headers, k + 1, Len(t.headers)),
            !.sign_count = CountAfter(t, k)]

\* what k turns of the while loop have done
RunAfter(t, k) == [tracker |-> PoppedTo(t, k), finalized |-> SubSeq(t.headers, 1, k)]

IsRun(t, f) ==
  f = [k \in 0..Len(t.headers) |->
         IF k = 0 THEN [tracker |-> t, finalized |-> <<>>] ELSE PopOne(f[k - 1])]

\* The window without its first k headers.
LEMMA RestOfWindow ==
  ASSUME NEW H, NEW hs \in Seq(H), NEW k \in Nat, k < Len(hs)
  PROVE  LET gs == SubSeq(hs, k + 1, Len(hs)) IN
         /\ gs \in Seq(H) /\ Len(gs) = Len(hs) - k /\ Len(hs) - k > 0
         /\ \A i \in 1..(Len(hs) - k) : gs[i] = hs[k + i]
         /\ gs # <<>> /\ Head(gs) = hs[k + 1]
         /\ 1 \in DOMAIN gs /\ gs[1] = hs[k + 1]
<1> DEFINE n  == Len(hs)
           gs == SubSeq(hs, k + 1, n)
<1>1. gs \in Seq(H) /\ Len(gs) = n - k /\ n - k > 0 /\ n \in Nat
  OBVIOUS
<1>2. \A i \in 1..(n - k) : gs[i] = hs[k + i]
  OBVIOUS
<1>3. /\ gs # <<>> /\ Head(gs) = hs[k + 1]
      /\ 1 \in DOMAIN gs /\ gs[1] = hs[k + 1]
  <2> HIDE DEF gs
  <2> QED BY <1>1, <1>2
<1> QED BY <1>1, <1>2, <1>3

\* Counting down the head of the window is what CountAfter does with one header
\* more.
LEMMA CountedDownNext ==
  ASSUME NEW A, NEW C, NEW t, IsTracker(t, A, C), CountsWindow(t),
         NEW k \in Nat, k < Len(t.headers)
  PROVE  CountedDown(CountAfter(t, k), t.headers[k + 1].signer) = CountAfter(t, k + 1)
<1>0. \A a : a \in DOMAIN CountAfter(t, k)
             <=> \E i \in DOMAIN SubSeq(t.headers, k + 1, Len(t.headers)) :
                   SubSeq(t.headers, k + 1, Len(t.headers))[i].signer = a
  <2>1. t.headers \in Seq([num : Nat, signer : A])
    BY DEF IsTracker
  <2>2. k \in 0..Len(t.headers)
    BY <2>1
  <2>3. LET gs == SubSeq(t.headers, k + 1, Len(t.headers)) IN
          \A a : a \in DOMAIN CountAfter(t, k) <=> \E i \in DOMAIN gs : gs[i].signer = a
    BY <2>2, CountAfterIsCensus
  <2> QED BY <2>3
<1> DEFINE hs == t.headers
           sc == t.sign_count
           x  == hs[k + 1].signer
           c  == CountAfter(t, k)
           d  == CountAfter(t, k + 1)
           left == {a \in DOMAIN sc : sc[a] > SignedIn(hs, k, a)}
           next == {a \in DOMAIN sc : sc[a] > SignedIn(hs, k + 1, a)}
<1>1. /\ c = [a \in left |-> sc[a] - SignedIn(hs, k, a)]
      /\ d = [a \in next |-> sc[a] - SignedIn(hs, k + 1, a)]
  BY DEF CountAfter
<1>2. \A a : /\ SignedIn(hs, k, a) \in Nat
             /\ SignedIn(hs, k + 1, a) = SignedIn(hs, k, a) + (IF x = a THEN 1 ELSE 0)
  <2> TAKE a
  <2>1. SignedIn(hs, k, a) \in Nat BY SignedInCounts
  <2>2. SignedIn(hs, k + 1, a) = SignedIn(hs, k, a) + (IF x = a THEN 1 ELSE 0)
    BY SignedInNext
  <2> QED BY <2>1, <2>2
<1>3. \A a \in DOMAIN sc : sc[a] \in Nat
  BY DEF IsTracker
<1>4. x \in left
  <2>1. hs \in Seq([num : Nat, signer : A]) /\ Len(hs) \in Nat
    BY DEF IsTracker
  <2>0. k < Len(hs) OBVIOUS
  <2> DEFINE gs == SubSeq(hs, k + 1, Len(hs))
  <2>2. 1 \in DOMAIN gs /\ gs[1] = hs[k + 1]
    <3> HIDE DEF hs
    <3> QED BY <2>0, <2>1, RestOfWindow
  <2>4. \A a : a \in DOMAIN c <=> \E i \in DOMAIN gs : gs[i].signer = a
    BY <1>0
  <2>5. x \in DOMAIN c
    <3> HIDE DEF c, gs
    <3> QED BY <2>2, <2>4
  <2> QED BY <1>1, <2>5
<1> HIDE DEF left, next, hs, sc, x, c, d
<1>5. left \subseteq DOMAIN sc
  BY DEF left
<1>6. \A a \in left : c[a] \in Nat \ {0}
  BY <1>1, <1>2, <1>3, <1>5 DEF left
<1>7. next = IF c[x] = 1 THEN left \ {x} ELSE left
  <2>1. ASSUME NEW a \in DOMAIN sc, a # x PROVE a \in next <=> a \in left
    BY <1>2, <2>1 DEF left, next
  <2>2. x \in next <=> c[x] # 1
    <3>1. sc[x] \in Nat /\ c[x] = sc[x] - SignedIn(hs, k, x) /\ x \in DOMAIN sc
      BY <1>1, <1>3, <1>4, <1>5
    <3>2. SignedIn(hs, k + 1, x) = SignedIn(hs, k, x) + 1
      BY <1>2
    <3>3. x \in next <=> sc[x] > SignedIn(hs, k, x) + 1
      BY <3>1, <3>2 DEF next
    <3>4. sc[x] > SignedIn(hs, k, x)
      BY <1>4 DEF left
    <3> QED BY <1>2, <3>1, <3>3, <3>4
  <2>3. next \subseteq DOMAIN sc
    BY DEF next
  <2>4. CASE c[x] = 1
    BY <1>4, <1>5, <2>1, <2>2, <2>3, <2>4
  <2>5. CASE c[x] # 1
    BY <1>4, <1>5, <2>1, <2>2, <2>3, <2>5
  <2> QED BY <2>4, <2>5
<1>8. CountedDown(c, x) = [a \in next |-> IF a = x THEN c[a] - 1 ELSE c[a]]
  <2>1. DOMAIN c = left BY <1>1
  <2> QED BY <1>4, <1>7, <2>1 DEF CountedDown
<1>9. \A a \in next : (IF a = x THEN c[a] - 1 ELSE c[a]) = sc[a] - SignedIn(hs, k + 1, a)
  <2> SUFFICES ASSUME NEW a \in next
               PROVE  (IF a = x THEN c[a] - 1 ELSE c[a]) = sc[a] - SignedIn(hs, k + 1, a)
    OBVIOUS
  <2>1. a \in left BY <1>7
  <2>2. c[a] = sc[a] - SignedIn(hs, k, a) BY <1>1, <2>1
  <2>3. sc[a] \in Nat BY <1>3, <1>5, <2>1
  <2> QED BY <1>2, <2>2, <2>3
<1>10. CountedDown(c, x) = d
  BY <1>1, <1>8, <1>9
<1> QED BY <1>10 DEF c, d, x, hs

\* One turn of the while loop.
LEMMA PopOneStep ==
  ASSUME NEW A, NEW C, NEW t, IsTracker(t, A, C), CountsWindow(t),
         NEW k \in Nat, k < Len(t.headers)
  PROVE  PopOne(RunAfter(t, k)) =
           IF IsFinalized(CountAfter(t, k), t.validators)
           THEN RunAfter(t, k + 1) ELSE RunAfter(t, k)
<1> DEFINE hs == t.headers
           H  == [num : Nat, signer : A]
           n  == Len(hs)
           gs == SubSeq(hs, k + 1, n)
           u  == PoppedTo(t, k)
<1>1. hs \in Seq(H) /\ n \in Nat /\ k < n
  BY DEF IsTracker
<1>2. /\ gs # <<>> /\ Head(gs) = hs[k + 1]
      /\ Tail(gs) = SubSeq(hs, k + 2, n)
      /\ Append(SubSeq(hs, 1, k), hs[k + 1]) = SubSeq(hs, 1, k + 1)
  <2> HIDE DEF H, hs
  <2>1. gs \in Seq(H) /\ Len(gs) = n - k /\ n - k > 0
    BY <1>1, RestOfWindow
  <2>2. \A i \in 1..(n - k) : gs[i] = hs[k + i]
    BY <1>1, RestOfWindow
  <2>3. gs # <<>> /\ Head(gs) = hs[k + 1]
    BY <1>1, RestOfWindow
  <2>4. Tail(gs) = SubSeq(hs, k + 2, n)
    <3> DEFINE fs == SubSeq(hs, k + 2, n)
    <3>1. fs \in Seq(H) /\ Len(fs) = n - k - 1 /\ \A i \in 1..(n - k - 1) : fs[i] = hs[k + 1 + i]
      BY <1>1
    <3>2. Tail(gs) \in Seq(H) /\ Len(Tail(gs)) = n - k - 1
          /\ \A i \in 1..(n - k - 1) : Tail(gs)[i] = gs[i + 1]
      <4> HIDE DEF gs
      <4> QED BY <1>1, <2>1, <2>3
    <3>3. \A i \in 1..(n - k - 1) : gs[i + 1] = hs[k + 1 + i]
      <4> SUFFICES ASSUME NEW i \in 1..(n - k - 1) PROVE gs[i + 1] = hs[k + 1 + i]
        OBVIOUS
      <4>1. i + 1 \in 1..(n - k) /\ k + (i + 1) = k + 1 + i BY <1>1
      <4> HIDE DEF gs
      <4> QED BY <2>2, <4>1
    <3>4. \A i \in 1..(n - k - 1) : Tail(gs)[i] = fs[i]
      <4> HIDE DEF gs, fs
      <4> QED BY <3>1, <3>2, <3>3
    <3> HIDE DEF gs, fs
    <3>5. Tail(gs) = fs
      BY <3>1, <3>2, <3>4, SeqEqual
    <3> QED BY <3>5 DEF fs
  <2>5. Append(SubSeq(hs, 1, k), hs[k + 1]) = SubSeq(hs, 1, k + 1)
    BY <1>1
  <2> QED BY <2>3, <2>4, <2>5
<1>3. /\ u = [t EXCEPT !.headers = gs, !.sign_count = CountAfter(t, k)]
      /\ u.headers = gs /\ u.sign_count = CountAfter(t, k) /\ u.validators = t.validators
  BY DEF PoppedTo, IsTracker
<1>4. CASE IsFinalized(CountAfter(t, k), t.validators)
  <2> DEFINE v == [u EXCEPT !.headers    = Tail(@),
                            !.sign_count = CountedDown(@, Head(u.headers).signer)]
  <2>1. PopOne(RunAfter(t, k)) =
          [tracker |-> v, finalized |-> Append(SubSeq(hs, 1, k), Head(u.headers))]
    <3>1. u.headers # <<>> BY <1>2, <1>3
    <3>2. IsFinalized(u.sign_count, u.validators) BY <1>3, <1>4
    <3>3. RunAfter(t, k).tracker = u /\ RunAfter(t, k).finalized = SubSeq(hs, 1, k)
      BY DEF RunAfter
    <3> HIDE DEF u
    <3> QED BY <3>1, <3>2, <3>3 DEF PopOne
  <2>2. CountedDown(CountAfter(t, k), hs[k + 1].signer) = CountAfter(t, k + 1)
    BY CountedDownNext
  <2>3. v = PoppedTo(t, k + 1)
    <3> DEFINE c  == CountAfter(t, k)
               d  == CountAfter(t, k + 1)
               fs == SubSeq(hs, k + 2, n)
    <3>1. u = [t EXCEPT !.headers = gs, !.sign_count = c]
      BY <1>3
    <3>2. v = [u EXCEPT !.headers = fs, !.sign_count = d]
      BY <1>2, <1>3, <2>2
    <3>3. PoppedTo(t, k + 1) = [t EXCEPT !.headers = fs, !.sign_count = d]
      <4>1. k + 1 + 1 = k + 2 OBVIOUS
      <4> QED BY <4>1, Zenon DEF PoppedTo
    <3> HIDE DEF u, v, c, d, fs, gs, hs
    <3>4. [u EXCEPT !.headers = fs, !.sign_count = d] = [t EXCEPT !.headers = fs, !.sign_count = d]
      BY <3>1 DEF IsTracker
    <3> QED BY <3>2, <3>3, <3>4
  <2> HIDE DEF u, v
  <2>4. Append(SubSeq(hs, 1, k), Head(u.headers)) = SubSeq(hs, 1, k + 1)
    BY <1>2, <1>3
  <2> QED BY <1>4, <2>1, <2>3, <2>4 DEF RunAfter
<1>5. CASE ~IsFinalized(CountAfter(t, k), t.validators)
  <2>1. RunAfter(t, k).tracker = u
    BY DEF RunAfter
  <2>2. ~IsFinalized(u.sign_count, u.validators)
    BY <1>3, <1>5
  <2> HIDE DEF u
  <2> QED BY <1>5, <2>1, <2>2 DEF PopOne
<1> QED BY <1>4, <1>5

\* The while loop ends with the headers popped that PoppedBy counts.
LEMMA PopLoopPops ==
  ASSUME NEW A, NEW C, NEW t, IsTracker(t, A, C), CountsWindow(t), IsMap(t.sign_count)
  PROVE  PopLoop(t) = RunAfter(t, PoppedBy(t))
<1> DEFINE n == Len(t.headers)
           p == PoppedBy(t)
           f == [k \in 0..n |-> RunAfter(t, Least(k, p))]
<1>1. /\ n \in Nat /\ p \in 0..n /\ p \in Nat
      /\ \A j \in 0..(p - 1) : IsFinalized(CountAfter(t, j), t.validators)
      /\ ~IsFinalized(CountAfter(t, p), t.validators)
  <2>1. n \in Nat BY DEF IsTracker
  <2>2. p \in 0..n BY PoppedByStops
  <2> QED BY <2>1, <2>2, PoppedByStops
<1> HIDE DEF p
<1>2. RunAfter(t, 0) = [tracker |-> t, finalized |-> <<>>]
  <2>1. SubSeq(t.headers, 1, 0) = <<>> /\ SubSeq(t.headers, 1, Len(t.headers)) = t.headers
    BY DEF IsTracker
  <2>2. CountAfter(t, 0) = t.sign_count
    <3>1. \A a : SignedIn(t.headers, 0, a) = 0
      <4> TAKE a
      <4>1. {i \in 1..0 : t.headers[i].signer = a} = {} OBVIOUS
      <4> QED BY <4>1, FS_EmptySet DEF SignedIn
    <3>2. \A a \in DOMAIN t.sign_count : t.sign_count[a] \in Nat \ {0}
      BY DEF IsTracker
    <3>3. DOMAIN CountAfter(t, 0) = DOMAIN t.sign_count
      BY <3>1, <3>2 DEF CountAfter
    <3>4. \A a \in DOMAIN t.sign_count : CountAfter(t, 0)[a] = t.sign_count[a]
      BY <3>1, <3>2, <3>3 DEF CountAfter
    <3>5. CountAfter(t, 0) = [a \in DOMAIN CountAfter(t, 0) |-> CountAfter(t, 0)[a]]
      BY DEF CountAfter
    <3> QED BY <3>3, <3>4, <3>5 DEF IsMap
  <2>3. PoppedTo(t, 0) = t
    <3>1. PoppedTo(t, 0) = [t EXCEPT !.headers = t.headers, !.sign_count = t.sign_count]
      <4>1. 0 + 1 = 1 OBVIOUS
      <4> QED BY <2>1, <2>2, <4>1 DEF PoppedTo
    <3> QED BY <3>1 DEF IsTracker
  <2> QED BY <2>1, <2>3 DEF RunAfter
<1>3. ASSUME NEW k \in 0..n, k # 0
      PROVE  f[k] = PopOne(f[k - 1]) /\ k - 1 \in 0..n
  <2>1. k - 1 \in 0..n /\ k - 1 \in Nat /\ k - 1 < n /\ (k - 1) + 1 = k
    BY <1>1, <1>3
  <2>2. f[k - 1] = RunAfter(t, Least(k - 1, p)) /\ f[k] = RunAfter(t, Least(k, p))
    BY <2>1
  <2>3. CASE k <= p
    <3>1. Least(k, p) = k /\ Least(k - 1, p) = k - 1 /\ k - 1 \in 0..(p - 1)
      BY <1>1, <2>1, <2>3 DEF Least
    <3>2. IsFinalized(CountAfter(t, k - 1), t.validators)
      BY <1>1, <3>1
    <3>3. PopOne(RunAfter(t, k - 1)) = RunAfter(t, k)
      <4>1. PopOne(RunAfter(t, k - 1)) = RunAfter(t, (k - 1) + 1)
        BY <2>1, <3>2, PopOneStep
      <4> QED BY <2>1, <4>1
    <3> QED BY <2>1, <2>2, <3>1, <3>3
  <2>4. CASE ~(k <= p)
    <3>1. Least(k, p) = p /\ Least(k - 1, p) = p /\ p < n
      BY <1>1, <2>1, <2>4 DEF Least
    <3>2. PopOne(RunAfter(t, p)) = RunAfter(t, p)
      BY <1>1, <3>1, PopOneStep
    <3> QED BY <2>1, <2>2, <3>1, <3>2
  <2> QED BY <2>3, <2>4
<1>4. f[0] = [tracker |-> t, finalized |-> <<>>]
  BY <1>1, <1>2 DEF Least
<1>5. IsRun(t, f)
  <2> DEFINE F(k) == IF k = 0 THEN [tracker |-> t, finalized |-> <<>>] ELSE PopOne(f[k - 1])
             g == [k \in 0..n |-> F(k)]
  <2>1. \A k \in 0..n : f[k] = F(k)
    <3> HIDE DEF f
    <3> QED BY <1>3, <1>4
  <2>2. f = g
    <3>1. f = [k \in 0..n |-> f[k]] OBVIOUS
    <3> HIDE DEF f, F
    <3> QED BY <2>1, <3>1
  <2> HIDE DEF f
  <2> QED BY <2>2 DEF IsRun
<1>6. ASSUME NEW g, IsRun(t, g)
      PROVE  g[n] = f[n]
  <2> DEFINE Odd == {k \in 0..n : g[k] # f[k]}
  <2>0. \A k \in 0..n :
          g[k] = IF k = 0 THEN [tracker |-> t, finalized |-> <<>>] ELSE PopOne(g[k - 1])
    BY <1>6 DEF IsRun
  <2>1. ASSUME Odd # {} PROVE FALSE
    <3>1. PICK k \in Odd : \A m \in Odd : k <= m
      <4>1. Odd \in SUBSET Nat BY <1>1
      <4> HIDE DEF Odd
      <4> QED BY <2>1, <4>1, LeastNumber
    <3>2. k \in 0..n /\ g[k] # f[k] OBVIOUS
    <3> HIDE DEF f
    <3>3. k # 0 BY <1>1, <1>4, <2>0, <3>2
    <3>4. k - 1 \in 0..n /\ k - 1 < k BY <1>1, <3>2, <3>3
    <3>5. g[k - 1] = f[k - 1]
      <4>1. k - 1 \notin Odd
        <5> HIDE DEF Odd
        <5> QED BY <1>1, <3>1, <3>2, <3>4
      <4> QED BY <3>4, <4>1
    <3>6. g[k] = f[k] BY <1>3, <2>0, <3>2, <3>3, <3>5
    <3> QED BY <3>2, <3>6
  <2>2. n \in 0..n BY <1>1
  <2> HIDE DEF f
  <2> QED BY <2>1, <2>2
<1>7. PopLoop(t) = (CHOOSE g : IsRun(t, g))[n]
  BY DEF PopLoop, IsRun
<1>8. IsRun(t, CHOOSE g : IsRun(t, g))
  <2> HIDE DEF f
  <2> QED BY <1>5
<1>9. PopLoop(t) = f[n]
  <2> HIDE DEF f
  <2> QED BY <1>6, <1>7, <1>8
<1>10. f[n] = RunAfter(t, p)
  BY <1>1 DEF Least
<1> QED BY <1>9, <1>10 DEF p

(***************************************************************************)
(* The loop over what is final.                                            *)
(***************************************************************************)
\* what of the schedule k turns over the headers of t have done to tracker u
ScheduledTo(t, u, n, k) ==
  [u EXCEPT !.pending_transitions = PendingAfter(t, k),
            !.finalize_change_at  =
              IF HitsIn(t, k) = {} THEN t.finalize_change_at
              ELSE [at      |-> n + 1,
                    address |-> t.pending_transitions[t.headers[LatestHit(t, k)].num]]]

HasFields(u) ==
  u \in [validators          : {u.validators},
         validators_sealed   : {u.validators_sealed},
         headers             : {u.headers},
         sign_count          : {u.sign_count},
         pending_transitions : {u.pending_transitions},
         finalize_change_at  : {u.finalize_change_at}]

\* One turn: the next header hits if its number still waits, and a later hit
\* replaces an earlier one.
LEMMA ScheduleOneStep ==
  ASSUME NEW t, NEW u, HasFields(u), NEW n \in Nat, NEW k \in Nat
  PROVE  ScheduleOne(ScheduledTo(t, u, n, k), t.headers[k + 1].num, n)
           = ScheduledTo(t, u, n, k + 1)
<1> DEFINE b  == t.headers[k + 1].num
           pt == t.pending_transitions
           P(m) == PendingAfter(t, m)
           at(m) == IF HitsIn(t, m) = {} THEN t.finalize_change_at
                    ELSE [at |-> n + 1, address |-> pt[t.headers[LatestHit(t, m)].num]]
           s  == ScheduledTo(t, u, n, k)
<1>1. \A m : /\ DOMAIN P(m) = DOMAIN pt \ NumbersIn(t, m)
             /\ P(m) = [a \in DOMAIN pt \ NumbersIn(t, m) |-> pt[a]]
  BY DEF PendingAfter, Restrict
<1>2. NumbersIn(t, k + 1) = NumbersIn(t, k) \cup {b}
  <2>1. 1..(k + 1) = 1..k \cup {k + 1} OBVIOUS
  <2> QED BY <2>1 DEF NumbersIn
<1>3. b \in DOMAIN P(k) <=> k + 1 \in HitsIn(t, k + 1)
  <2>1. k + 1 \in 1..(k + 1) /\ (k + 1) - 1 = k OBVIOUS
  <2>2. k + 1 \in HitsIn(t, k + 1)
          <=> b \in DOMAIN pt /\ \A j \in 1..k : t.headers[j].num # b
    BY <2>1 DEF HitsIn
  <2>3. b \in NumbersIn(t, k) <=> \E j \in 1..k : t.headers[j].num = b
    BY DEF NumbersIn
  <2> QED BY <1>1, <2>2, <2>3
<1>4. HitsIn(t, k + 1) = HitsIn(t, k) \cup (HitsIn(t, k + 1) \cap {k + 1})
  <2>1. 1..(k + 1) = 1..k \cup {k + 1} OBVIOUS
  <2> QED BY <2>1 DEF HitsIn
<1>5. HitsIn(t, k) \subseteq 1..k
  BY DEF HitsIn
<1>6. s.pending_transitions = P(k) /\ s.finalize_change_at = at(k)
  BY DEF ScheduledTo, HasFields
<1>7. CASE b \in DOMAIN P(k)
  <2>1. LatestHit(t, k + 1) = k + 1
    <3>1. k + 1 \in HitsIn(t, k + 1) BY <1>3, <1>7
    <3>2. \A j \in HitsIn(t, k + 1) : j <= k + 1 /\ j \in Nat
      BY DEF HitsIn
    <3>3. LatestHit(t, k + 1) \in HitsIn(t, k + 1)
          /\ \A j \in HitsIn(t, k + 1) : j <= LatestHit(t, k + 1)
      BY <3>1, <3>2 DEF LatestHit
    <3> QED BY <3>1, <3>2, <3>3
  <2>2. at(k + 1) = [at |-> n + 1, address |-> pt[b]]
    BY <1>3, <1>7, <2>1
  <2>3. P(k)[b] = pt[b]
    <3>1. \A a \in DOMAIN pt \ NumbersIn(t, k) : P(k)[a] = pt[a]
      <4> HIDE DEF b, at, s
      <4> QED BY <1>1
    <3>2. b \in DOMAIN pt \ NumbersIn(t, k) BY <1>1, <1>7
    <3> HIDE DEF P, b, pt
    <3> QED BY <3>1, <3>2
  <2>4. Restrict(P(k), DOMAIN P(k) \ {b}) = P(k + 1)
    <3>1. DOMAIN P(k) \ {b} = DOMAIN pt \ NumbersIn(t, k + 1)
      BY <1>1, <1>2
    <3>2. \A a \in DOMAIN P(k) \ {b} : P(k)[a] = pt[a]
      BY <1>1
    <3> HIDE DEF P, b, pt
    <3> QED BY <1>1, <3>1, <3>2 DEF Restrict
  <2>5. ScheduleOne(s, b, n) =
          [s EXCEPT !.pending_transitions = P(k + 1), !.finalize_change_at = at(k + 1)]
    <3> HIDE DEF P, at, b, s
    <3> DEFINE q == [at |-> n + 1, address |-> s.pending_transitions[b]]
    <3>1. q = at(k + 1) BY <1>6, <2>2, <2>3
    <3> HIDE DEF q
    <3>2. ScheduleOne(s, b, n) =
            [s EXCEPT !.pending_transitions = Restrict(@, DOMAIN @ \ {b}),
                      !.finalize_change_at  = q]
      BY <1>6, <1>7, Zenon DEF ScheduleOne, q
    <3> QED BY <1>6, <2>4, <3>1, <3>2
  <2>6. s = [u EXCEPT !.pending_transitions = P(k), !.finalize_change_at = at(k)]
        /\ ScheduledTo(t, u, n, k + 1) =
             [u EXCEPT !.pending_transitions = P(k + 1), !.finalize_change_at = at(k + 1)]
    BY Zenon DEF ScheduledTo
  <2>7. ScheduleOne(s, b, n) = ScheduledTo(t, u, n, k + 1)
    <3> HIDE DEF P, at, b, s
    <3> QED BY <2>5, <2>6 DEF HasFields
  <2> QED BY <2>7
<1>8. CASE b \notin DOMAIN P(k)
  <2>1. ScheduleOne(s, b, n) = s
    <3> HIDE DEF P, b, s
    <3> QED BY <1>6, <1>8 DEF ScheduleOne
  <2>2. HitsIn(t, k + 1) = HitsIn(t, k)
    BY <1>3, <1>4, <1>8
  <2>3. at(k + 1) = at(k)
    BY <2>2 DEF LatestHit
  <2>4. P(k + 1) = P(k)
    <3>1. DOMAIN pt \ NumbersIn(t, k + 1) = DOMAIN pt \ NumbersIn(t, k)
      BY <1>1, <1>2, <1>8
    <3> QED BY <1>1, <3>1
  <2>5. ScheduledTo(t, u, n, k + 1) = s
    <3>1. s = [u EXCEPT !.pending_transitions = P(k), !.finalize_change_at = at(k)]
          /\ ScheduledTo(t, u, n, k + 1) =
               [u EXCEPT !.pending_transitions = P(k + 1), !.finalize_change_at = at(k + 1)]
      BY Zenon DEF ScheduledTo
    <3> HIDE DEF P, at, s
    <3> QED BY <2>3, <2>4, <3>1
  <2> QED BY <2>1, <2>5
<1> QED BY <1>7, <1>8

\* The loop over the popped headers leaves what PopFinalized says.
LEMMA LoopsPopFinalized ==
  ASSUME NEW A, NEW C, NEW t, IsTracker(t, A, C), CountsWindow(t),
         IsMap(t.sign_count), IsMap(t.pending_transitions), NEW n \in Nat
  PROVE  ScheduleLoop(PopLoop(t).tracker, PopLoop(t).finalized, n) = PopFinalized(t, n)
<1> DEFINE p  == PoppedBy(t)
           u  == PoppedTo(t, p)
           hs == t.headers
           gs == SubSeq(hs, 1, p)
           f  == [k \in 0..p |-> ScheduledTo(t, u, n, k)]
           IsOver(g) == g = [k \in 0..Len(gs) |->
                               IF k = 0 THEN u ELSE ScheduleOne(g[k - 1], gs[k].num, n)]
<1>1. p \in 0..Len(hs) /\ p \in Nat /\ Len(hs) \in Nat /\ hs \in Seq([num : Nat, signer : A])
  <2>1. p \in 0..Len(hs) BY PoppedByStops
  <2> QED BY <2>1 DEF IsTracker
<1>2. PopLoop(t).tracker = u /\ PopLoop(t).finalized = gs
  BY PopLoopPops DEF RunAfter
<1> HIDE DEF p
<1>3. Len(gs) = p /\ \A k \in 1..p : gs[k] = hs[k]
  BY <1>1
<1>4. HasFields(u) /\ u.pending_transitions = t.pending_transitions
      /\ u.finalize_change_at = t.finalize_change_at
  BY DEF PoppedTo, HasFields, IsTracker
<1>5. ScheduledTo(t, u, n, 0) = u
  <2>1. HitsIn(t, 0) = {} /\ NumbersIn(t, 0) = {}
    BY DEF HitsIn, NumbersIn
  <2>2. PendingAfter(t, 0) = t.pending_transitions
    BY <2>1 DEF PendingAfter, Restrict, IsMap
  <2> HIDE DEF u
  <2> QED BY <1>4, <2>1, <2>2 DEF ScheduledTo, HasFields
<1>6. ASSUME NEW k \in 0..p, k # 0
      PROVE  f[k] = ScheduleOne(f[k - 1], gs[k].num, n) /\ k - 1 \in 0..p
  <2>1. k - 1 \in 0..p /\ k - 1 \in Nat /\ (k - 1) + 1 = k /\ k \in 1..p
    BY <1>1, <1>6
  <2>2. ScheduleOne(ScheduledTo(t, u, n, k - 1), hs[(k - 1) + 1].num, n)
          = ScheduledTo(t, u, n, (k - 1) + 1)
    <3> HIDE DEF u
    <3> QED BY <1>4, <2>1, ScheduleOneStep
  <2>3. ScheduleOne(ScheduledTo(t, u, n, k - 1), gs[k].num, n) = ScheduledTo(t, u, n, k)
    <3> HIDE DEF u
    <3> QED BY <1>3, <2>1, <2>2
  <2>4. f[k - 1] = ScheduledTo(t, u, n, k - 1) /\ f[k] = ScheduledTo(t, u, n, k)
    <3> HIDE DEF u
    <3> QED BY <2>1
  <2> HIDE DEF f, u, gs
  <2> QED BY <2>1, <2>3, <2>4
<1>7. f[0] = u
  <2> HIDE DEF u
  <2> QED BY <1>1, <1>5
<1>8. IsOver(f)
  <2> DEFINE F(k) == IF k = 0 THEN u ELSE ScheduleOne(f[k - 1], gs[k].num, n)
             g == [k \in 0..p |-> F(k)]
  <2>1. \A k \in 0..p : f[k] = F(k)
    <3> HIDE DEF f, u, gs
    <3> QED BY <1>6, <1>7
  <2>2. f = g
    <3>1. f = [k \in 0..p |-> f[k]] OBVIOUS
    <3> HIDE DEF f, F
    <3> QED BY <2>1, <3>1
  <2> HIDE DEF f, u, gs
  <2> QED BY <1>3, <2>2
<1>9. ASSUME NEW g, IsOver(g)
      PROVE  g[p] = f[p]
  <2> DEFINE Odd == {k \in 0..p : g[k] # f[k]}
  <2>0. \A k \in 0..p : g[k] = IF k = 0 THEN u ELSE ScheduleOne(g[k - 1], gs[k].num, n)
    <3> HIDE DEF u, gs
    <3> QED BY <1>3, <1>9
  <2>1. ASSUME Odd # {} PROVE FALSE
    <3>1. PICK k \in Odd : \A m \in Odd : k <= m
      <4>1. Odd \in SUBSET Nat BY <1>1
      <4> HIDE DEF Odd
      <4> QED BY <2>1, <4>1, LeastNumber
    <3>2. k \in 0..p /\ g[k] # f[k] OBVIOUS
    <3> HIDE DEF f, u, gs
    <3>3. k # 0 BY <1>1, <1>7, <2>0, <3>2
    <3>4. k - 1 \in 0..p /\ k - 1 < k BY <1>1, <3>2, <3>3
    <3>5. g[k - 1] = f[k - 1]
      <4>1. k - 1 \notin Odd
        <5> HIDE DEF Odd
        <5> QED BY <1>1, <3>1, <3>2, <3>4
      <4> QED BY <3>4, <4>1
    <3>6. g[k] = f[k] BY <1>6, <2>0, <3>2, <3>3, <3>5
    <3> QED BY <3>2, <3>6
  <2>2. p \in 0..p BY <1>1
  <2> HIDE DEF f
  <2> QED BY <2>1, <2>2
<1>10. ScheduleLoop(u, gs, n) = (CHOOSE g : IsOver(g))[p]
  <2> HIDE DEF u, gs
  <2> QED BY <1>3 DEF ScheduleLoop
<1>11. IsOver(CHOOSE g : IsOver(g))
  <2> HIDE DEF f, IsOver
  <2> QED BY <1>8
<1>12. ScheduleLoop(u, gs, n) = f[p]
  <2> HIDE DEF f, IsOver, u, gs
  <2> QED BY <1>9, <1>10, <1>11
<1>13. f[p] = PopFinalized(t, n)
  <2>1. f[p] = ScheduledTo(t, u, n, p)
    <3> HIDE DEF u
    <3> QED BY <1>1
  <2> DEFINE at == IF HitsIn(t, p) = {} THEN t.finalize_change_at
                   ELSE [at |-> n + 1,
                         address |-> t.pending_transitions[t.headers[LatestHit(t, p)].num]]
             pt == PendingAfter(t, p)
             rest == SubSeq(hs, p + 1, Len(hs))
             sc == CountAfter(t, p)
  <2>2. ScheduledTo(t, u, n, p) =
          [u EXCEPT !.pending_transitions = pt, !.finalize_change_at = at]
    BY Zenon DEF ScheduledTo
  <2>3. u = [t EXCEPT !.headers = rest, !.sign_count = sc]
    BY Zenon DEF PoppedTo
  <2>4. PopFinalized(t, n) = [t EXCEPT !.headers = rest, !.sign_count = sc,
                                       !.pending_transitions = pt, !.finalize_change_at = at]
    BY Zenon DEF PopFinalized, p
  <2> HIDE DEF f, at, pt, rest, sc, u
  <2> QED BY <2>1, <2>2, <2>3, <2>4 DEF IsTracker
<1> QED BY <1>2, <1>12, <1>13

\* pending_transitions is a map, whatever the callers do.
LEMMA AlwaysMap == Spec => []IsMap(rf.pending_transitions)
<1>1. Init => IsMap(rf.pending_transitions)
  BY DEF Init, New, IsMap, EmptyMap
<1>2. Inv /\ IsMap(rf.pending_transitions) /\ [Next]_rf => IsMap(rf.pending_transitions)'
  <2> SUFFICES ASSUME Inv, IsMap(rf.pending_transitions), [Next]_rf
               PROVE  IsMap(rf'.pending_transitions)
    BY DEF IsMap
  <2> USE FinalityTrackerAssumption
  <2>0. IsTracker(rf, Validators, Contracts)
    BY DEF Inv, InOrder
  <2>1. ASSUME NEW n \in Blocks, NEW signer \in Validators, PushBlock(n, signer)
        PROVE  IsMap(rf'.pending_transitions)
    <3> DEFINE u == Counted(rf, n, signer)
               k == PoppedBy(u)
    <3>1. rf' = rf \/ rf' = PopFinalized(u, n)
      BY <2>1 DEF PushBlock, Push
    <3>2. CASE rf' = PopFinalized(u, n)
      <4>1. rf'.pending_transitions = PendingAfter(u, k)
        <5>1. u \in [validators : {u.validators}, validators_sealed : {u.validators_sealed},
                     headers : {u.headers}, sign_count : {u.sign_count},
                     pending_transitions : {u.pending_transitions},
                     finalize_change_at : {u.finalize_change_at}]
          BY <2>0 DEF Counted, IsTracker
        <5> HIDE DEF u
        <5> QED BY <3>2, <5>1 DEF PopFinalized
      <4> HIDE DEF u, k
      <4> QED BY <4>1 DEF IsMap, PendingAfter, Restrict
    <3> QED BY <3>1, <3>2
  <2>2. ASSUME NEW n \in Blocks, NEW contract \in Contracts, Announce(n, contract)
        PROVE  IsMap(rf'.pending_transitions)
    BY <2>0, <2>2 DEF Announce, AddPendingTransition, IsTracker, IsMap
  <2>3. ASSUME NEW n \in Blocks, NEW contract \in Contracts, Schedule(n, contract)
        PROVE  IsMap(rf'.pending_transitions)
    BY <2>0, <2>3 DEF Schedule, SetImmediateFinalize, IsTracker
  <2>4. ASSUME NEW n \in Blocks, Take(n)
        PROVE  IsMap(rf'.pending_transitions)
    BY <2>0, <2>4 DEF Take, TakeFinalizeChange, IsTracker
  <2>5. ASSUME NEW vector \in Vectors, Refresh(vector)
        PROVE  IsMap(rf'.pending_transitions)
    BY <2>0, <2>5 DEF Refresh, SetValidators, IsTracker
  <2>6. CASE Recover
    BY <2>6 DEF Recover, FromRecovered, New
  <2> QED BY <2>1, <2>2, <2>3, <2>4, <2>5, <2>6 DEF Next
<1> QED BY AlwaysInv, <1>1, <1>2, PTL DEF Spec

\* The closed form of push, from which everything is proved here and for the
\* executor, is the pair of loops of src/aura/finality.rs:119-153, on every
\* tracker the methods can produce and for any number of headers.
THEOREM PushIsAlwaysTheLoop == Spec => []PushIsTheLoop
<1>1. Inv /\ IsMap(rf.pending_transitions) => PushIsTheLoop
  <2> SUFFICES ASSUME Inv, IsMap(rf.pending_transitions),
                      NEW n \in Blocks, NEW signer \in Validators,
                      ~(rf.validators_sealed /\ signer \notin Range(rf.validators))
               PROVE  Push(rf, n, signer) = PushByLoops(rf, n, signer)
    BY DEF PushIsTheLoop, Push, PushByLoops
  <2> DEFINE u == Counted(rf, n, signer)
  <2>1. n \in Nat
    BY DEF Blocks
  <2>2. IsTracker(rf, Validators, Contracts) /\ CountsWindow(rf) /\ SignersKnown(rf)
    BY DEF Inv, InOrder
  <2>3. IsTracker(u, Validators, Contracts) /\ CountsWindow(u)
    BY <2>1, <2>2, CountedKeeps
  <2>4. IsMap(u.sign_count) /\ u.pending_transitions = rf.pending_transitions
    BY <2>2 DEF Counted, IsTracker, IsMap
  <2> HIDE DEF u
  <2>5. ScheduleLoop(PopLoop(u).tracker, PopLoop(u).finalized, n) = PopFinalized(u, n)
    BY <2>1, <2>3, <2>4, LoopsPopFinalized
  <2> QED BY <2>5 DEF Push, PushByLoops, u
<1> QED BY AlwaysInv, AlwaysMap, <1>1, PTL
=============================================================================

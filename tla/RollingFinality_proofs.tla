------------------------ MODULE RollingFinality_proofs ------------------------
(***************************************************************************)
(* What the operations of the tracker preserve, for every tracker value:   *)
(* the lemmas under the theorems of FinalityTracker_proofs and             *)
(* AuraExecution_proofs.                                                   *)
(***************************************************************************)
EXTENDS RollingFinality, FiniteSetTheorems, SequenceTheorems, WellFoundedInduction, TLAPS

(***************************************************************************)
(* Least and greatest numbers.                                             *)
(***************************************************************************)
\* A non-empty set of numbers has a least element (used for the loop of push,
\* which stops at the first prefix that leaves no majority).
LEMMA LeastNumber ==
  ASSUME NEW T \in SUBSET Nat, T # {}
  PROVE  \E x \in T : \A y \in T : x <= y
<1> DEFINE R == {ss \in Nat \X Nat : ss[1] < ss[2]}
<1>1. IsWellFoundedOn(R, Nat)
  BY NatLessThanWellFounded DEF OpToRel
<1>2. PICK x \in T : \A y \in T : ~(<<y, x>> \in R)
  <2> HIDE DEF R
  <2> QED BY <1>1, WFMin
<1>3. ASSUME NEW y \in T PROVE x <= y
  <2>1. <<y, x>> \notin R BY <1>2
  <2>2. <<y, x>> \in Nat \X Nat OBVIOUS
  <2> QED BY <2>1, <2>2
<1> QED BY <1>3

\* A non-empty bounded set of numbers has a greatest element.
LEMMA GreatestNumber ==
  ASSUME NEW S \in SUBSET Nat, S # {}, NEW n \in Nat, \A i \in S : i <= n
  PROVE  \E x \in S : \A y \in S : y <= x
<1> DEFINE T == {n - i : i \in S}
<1>1. T \in SUBSET Nat /\ T # {}
  <2>1. \A i \in S : n - i \in Nat OBVIOUS
  <2>2. T \subseteq Nat BY <2>1
  <2>3. PICK i \in S : TRUE OBVIOUS
  <2>4. n - i \in T BY <2>3
  <2> QED BY <2>2, <2>4
<1>2. PICK d \in T : \A e \in T : d <= e
  <2> HIDE DEF T
  <2> QED BY <1>1, LeastNumber
<1>3. PICK x \in S : d = n - x BY <1>2
<1>4. ASSUME NEW y \in S PROVE y <= x
  <2>1. n - y \in T OBVIOUS
  <2>2. n - x <= n - y BY <1>2, <1>3, <2>1
  <2> QED BY <2>2
<1> QED BY <1>4

(***************************************************************************)
(* Counting.                                                               *)
(***************************************************************************)
\* The positions of a's headers among the first k are finitely many, so the
\* count is a number, zero exactly when there are none.
LEMMA SignedInCounts ==
  ASSUME NEW hs, NEW k \in Nat, NEW a
  PROVE  /\ IsFiniteSet({i \in 1..k : hs[i].signer = a})
         /\ SignedIn(hs, k, a) \in Nat
         /\ SignedIn(hs, k, a) > 0 <=> \E i \in 1..k : hs[i].signer = a
<1> DEFINE S == {i \in 1..k : hs[i].signer = a}
<1>1. IsFiniteSet(S)
  <2>1. IsFiniteSet(1..k) BY FS_Interval
  <2> QED BY <2>1, FS_Subset
<1>2. Cardinality(S) \in Nat
  BY <1>1, FS_CardinalityType
<1>3. Cardinality(S) = 0 <=> S = {}
  BY <1>1, FS_EmptySet
<1> QED BY <1>1, <1>2, <1>3 DEF SignedIn

\* Who signed none of them has none.
LEMMA SignedInNone ==
  ASSUME NEW hs, NEW k \in Nat, NEW a, ~ \E i \in 1..k : hs[i].signer = a
  PROVE  SignedIn(hs, k, a) = 0
<1>1. {i \in 1..k : hs[i].signer = a} = {}
  OBVIOUS
<1> QED BY <1>1, FS_EmptySet DEF SignedIn

\* One more header adds one to its signer's count.
LEMMA SignedInNext ==
  ASSUME NEW hs, NEW k \in Nat, NEW a
  PROVE  SignedIn(hs, k + 1, a)
           = SignedIn(hs, k, a) + (IF hs[k+1].signer = a THEN 1 ELSE 0)
<1> DEFINE S == {i \in 1..k : hs[i].signer = a}
           T == {i \in 1..(k+1) : hs[i].signer = a}
<1>1. IsFiniteSet(S) /\ Cardinality(S) \in Nat
  <2>1. IsFiniteSet(1..k) BY FS_Interval
  <2>2. IsFiniteSet(S) BY <2>1, FS_Subset
  <2> QED BY <2>2, FS_CardinalityType
<1>2. CASE hs[k+1].signer = a
  <2>1. T = S \cup {k+1} BY <1>2
  <2>2. k+1 \notin S OBVIOUS
  <2>3. Cardinality(S \cup {k+1}) = Cardinality(S) + 1
    BY <1>1, <2>2, FS_AddElement
  <2> QED BY <1>2, <2>1, <2>3 DEF SignedIn
<1>3. CASE hs[k+1].signer # a
  <2>1. T = S BY <1>3
  <2>2. SignedIn(hs, k + 1, a) = SignedIn(hs, k, a) /\ SignedIn(hs, k, a) \in Nat
    BY <1>1, <2>1 DEF SignedIn
  <2> HIDE DEF S, T
  <2> QED BY <1>3, <2>2
<1> QED BY <1>2, <1>3

\* Popping k headers takes exactly their counts away.
LEMMA SignedInSplit ==
  ASSUME NEW H, NEW hs \in Seq(H), NEW k \in 0..Len(hs), NEW a
  PROVE  SignedIn(hs, Len(hs), a)
           = SignedIn(hs, k, a)
               + SignedIn(SubSeq(hs, k + 1, Len(hs)), Len(hs) - k, a)
<1> DEFINE n  == Len(hs)
           gs == SubSeq(hs, k + 1, n)
           All   == {i \in 1..n : hs[i].signer = a}
           First == {i \in 1..k : hs[i].signer = a}
           Rest  == {i \in (k+1)..n : hs[i].signer = a}
           Moved == {i \in 1..(n-k) : gs[i].signer = a}
<1>0. n \in Nat /\ k \in Nat /\ n - k \in Nat
  OBVIOUS
<1>1. IsFiniteSet(First) /\ IsFiniteSet(Moved) /\ IsFiniteSet(All)
  <2>1. IsFiniteSet(1..n) /\ IsFiniteSet(1..k) /\ IsFiniteSet(1..(n-k))
    BY <1>0, FS_Interval
  <2>2. First \subseteq 1..k /\ Moved \subseteq 1..(n-k) /\ All \subseteq 1..n
    OBVIOUS
  <2> HIDE DEF First, Moved, All
  <2> QED BY <2>1, <2>2, FS_Subset
<1>2. IsFiniteSet(Rest)
  <2>1. Rest \subseteq All BY <1>0
  <2> QED BY <2>1, <1>1, FS_Subset
<1>3. Cardinality(All) = Cardinality(First) + Cardinality(Rest)
  <2>1. All = First \cup Rest BY <1>0
  <2>2. First \cap Rest = {} BY <1>0
  <2>3. Cardinality(First \cap Rest) = 0 BY <2>2, FS_EmptySet
  <2>4. Cardinality(First) \in Nat /\ Cardinality(Rest) \in Nat
    BY <1>1, <1>2, FS_CardinalityType
  <2>5. Cardinality(First \cup Rest)
          = Cardinality(First) + Cardinality(Rest) - Cardinality(First \cap Rest)
    BY <1>1, <1>2, FS_Union
  <2> HIDE DEF First, Rest, All
  <2> QED BY <2>1, <2>3, <2>4, <2>5
<1>4. Cardinality(Rest) = Cardinality(Moved)
  <2> DEFINE f == [i \in Moved |-> i + k]
  <2>1. \A i \in 1..(n-k) : gs[i] = hs[i + k]
    BY <1>0
  <2>2. \A i \in Moved : i + k \in Rest
    BY <1>0, <2>1
  <2>3. \A j \in Rest : j - k \in Moved /\ (j - k) + k = j
    <3> TAKE j \in Rest
    <3>1. j - k \in 1..(n-k) /\ (j - k) + k = j BY <1>0
    <3> QED BY <3>1, <2>1
  <2>4. f \in Bijection(Moved, Rest)
    <3>1. f \in [Moved -> Rest] BY <2>2
    <3>2. \A x, y \in Moved : f[x] = f[y] => x = y
      <4> TAKE x \in Moved, y \in Moved
      <4>1. x \in Int /\ y \in Int /\ k \in Int BY <1>0
      <4>2. f[x] = x + k /\ f[y] = y + k OBVIOUS
      <4> QED BY <4>1, <4>2
    <3>3. \A j \in Rest : \E i \in Moved : f[i] = j
      BY <2>3
    <3> HIDE DEF f, Moved, Rest
    <3> QED BY <3>1, <3>2, <3>3 DEF Bijection, Injection, Surjection, IsInjective
  <2>5. ExistsBijection(Moved, Rest)
    <3> HIDE DEF f, Moved, Rest
    <3> QED BY <2>4 DEF ExistsBijection
  <2> HIDE DEF f, Moved, Rest
  <2> QED BY <1>1, <2>5, FS_Bijection
<1> QED BY <1>3, <1>4 DEF SignedIn

(***************************************************************************)
(* push.                                                                   *)
(***************************************************************************)
\* An empty map is no majority, however short the validator list.
LEMMA EmptyIsNoMajority ==
  ASSUME NEW A, NEW validators \in Seq(A), NEW count, DOMAIN count = {}
  PROVE  ~ IsFinalized(count, validators)
<1>1. Cardinality(DOMAIN count) = 0 BY FS_EmptySet
<1>2. Len(validators) \in Nat OBVIOUS
<1> QED BY <1>1, <1>2 DEF IsFinalized

\* sign_count after popping k headers is the census of the headers left.
LEMMA CountAfterIsCensus ==
  ASSUME NEW A, NEW C, NEW t, IsTracker(t, A, C), CountsWindow(t),
         NEW k \in 0..Len(t.headers)
  PROVE  LET gs == SubSeq(t.headers, k + 1, Len(t.headers)) IN
         /\ gs \in Seq([num : Nat, signer : A])
         /\ \A a : a \in DOMAIN CountAfter(t, k)
                    <=> \E i \in DOMAIN gs : gs[i].signer = a
         /\ DOMAIN CountAfter(t, k) \subseteq DOMAIN t.sign_count
         /\ \A a \in DOMAIN CountAfter(t, k) :
              /\ CountAfter(t, k)[a] = SignedIn(gs, Len(gs), a)
              /\ CountAfter(t, k)[a] \in Nat \ {0}
<1> DEFINE H  == [num : Nat, signer : A]
           hs == t.headers
           n  == Len(hs)
           gs == SubSeq(hs, k + 1, n)
           sc == t.sign_count
           left == {a \in DOMAIN sc : sc[a] > SignedIn(hs, k, a)}
<1>1. hs \in Seq(H) /\ n \in Nat /\ k \in Nat /\ k <= n /\ n - k \in Nat
  BY DEF IsTracker
<1>2. /\ gs \in Seq(H)
      /\ Len(gs) = n - k
      /\ DOMAIN gs = 1..(n-k)
      /\ \A i \in 1..(n-k) : gs[i] = hs[i + k]
  <2>1. \A i \in (k+1)..n : hs[i] \in H
    <3> HIDE DEF H, hs
    <3> QED BY <1>1
  <2>2. k + 1 \in Int /\ n \in Int BY <1>1
  <2>3. /\ SubSeq(hs, k + 1, n) \in Seq(H)
        /\ Len(SubSeq(hs, k + 1, n)) = IF k + 1 <= n THEN n - (k + 1) + 1 ELSE 0
        /\ \A i \in 1..(n - (k + 1) + 1) : SubSeq(hs, k + 1, n)[i] = hs[(k + 1) + i - 1]
    <3> HIDE DEF H, hs, n
    <3> QED BY <2>1, <2>2, SubSeqProperties
  <2>4. gs = SubSeq(hs, k + 1, n) OBVIOUS
  <2>5. Len(gs) = n - k
    <3> HIDE DEF H, hs, n
    <3> QED BY <1>1, <2>3, <2>4
  <2>6. gs \in Seq(H) BY <2>3, <2>4
  <2>7. DOMAIN gs = 1..(n-k) BY <2>5, <2>6, LenProperties
  <2>8. \A i \in 1..(n-k) : gs[i] = hs[i + k]
    <3> HIDE DEF H, hs, n
    <3> QED BY <1>1, <2>3, <2>4
  <2> HIDE DEF H, gs, hs, n
  <2> QED BY <2>5, <2>6, <2>7, <2>8
<1>3. DOMAIN CountAfter(t, k) = left
      /\ \A a \in left : CountAfter(t, k)[a] = sc[a] - SignedIn(hs, k, a)
  BY DEF CountAfter
<1>4. \A a : /\ SignedIn(hs, k, a) \in Nat
             /\ SignedIn(hs, n, a) \in Nat
             /\ SignedIn(gs, n - k, a) \in Nat
             /\ SignedIn(gs, n - k, a) > 0 <=> \E i \in 1..(n-k) : gs[i].signer = a
  <2> TAKE a
  <2>1. SignedIn(hs, k, a) \in Nat BY <1>1, SignedInCounts
  <2>2. SignedIn(hs, n, a) \in Nat BY <1>1, SignedInCounts
  <2>3. n - k \in Nat BY <1>1
  <2> HIDE DEF n, hs, gs
  <2>4. /\ SignedIn(gs, n - k, a) \in Nat
        /\ SignedIn(gs, n - k, a) > 0 <=> \E i \in 1..(n-k) : gs[i].signer = a
    BY <2>3, SignedInCounts
  <2> QED BY <2>1, <2>2, <2>4
<1>5. \A a : SignedIn(hs, n, a) = SignedIn(hs, k, a) + SignedIn(gs, n - k, a)
  BY <1>1, SignedInSplit
<1>6. \A a \in DOMAIN sc : sc[a] = SignedIn(hs, n, a)
  BY DEF CountsWindow
<1>7. \A a \in DOMAIN sc :
        /\ a \in left <=> SignedIn(gs, n - k, a) > 0
        /\ sc[a] - SignedIn(hs, k, a) = SignedIn(gs, n - k, a)
  <2> HIDE DEF n, hs, gs, sc
  <2> QED BY <1>4, <1>5, <1>6
<1>8. \A i \in 1..(n-k) : gs[i].signer \in DOMAIN sc
  <2> TAKE i \in 1..(n-k)
  <2>1. gs[i] = hs[i + k] /\ i + k \in 1..n
    <3> HIDE DEF H, n, gs, hs
    <3> QED BY <1>1, <1>2
  <2>2. 1..n = DOMAIN hs BY <1>1
  <2>3. hs[i + k].signer \in DOMAIN sc BY <2>1, <2>2 DEF CountsWindow
  <2> QED BY <2>1, <2>3
<1>9. \A a : a \in left <=> \E i \in DOMAIN gs : gs[i].signer = a
  <2>1. ASSUME NEW a \in left PROVE \E i \in DOMAIN gs : gs[i].signer = a
    <3> HIDE DEF n, gs, hs
    <3>1. \E i \in 1..(n-k) : gs[i].signer = a BY <1>4, <1>7
    <3> QED BY <3>1, <1>2
  <2>2. ASSUME NEW i \in DOMAIN gs PROVE gs[i].signer \in left
    <3> HIDE DEF n, gs, hs
    <3>1. i \in 1..(n-k) BY <1>2
    <3>2. gs[i].signer \in DOMAIN sc BY <3>1, <1>8
    <3>3. SignedIn(gs, n - k, gs[i].signer) > 0 BY <3>1, <1>4
    <3> QED BY <3>2, <3>3, <1>7
  <2> HIDE DEF left, gs
  <2> QED BY <2>1, <2>2
<1>10. \A a \in left : sc[a] - SignedIn(hs, k, a) \in Nat \ {0}
  BY <1>4, <1>7
<1> QED
  <2>1. left \subseteq DOMAIN sc OBVIOUS
  <2>2. \A a \in left : sc[a] - SignedIn(hs, k, a) = SignedIn(gs, Len(gs), a)
    BY <1>2, <1>7, <2>1
  <2> HIDE DEF left, sc, hs, gs, n
  <2>3. /\ gs \in Seq(H)
        /\ \A a : a \in DOMAIN CountAfter(t, k)
                   <=> \E i \in DOMAIN gs : gs[i].signer = a
        /\ DOMAIN CountAfter(t, k) \subseteq DOMAIN sc
        /\ \A a \in DOMAIN CountAfter(t, k) :
              /\ CountAfter(t, k)[a] = SignedIn(gs, Len(gs), a)
              /\ CountAfter(t, k)[a] \in Nat \ {0}
    BY <1>2, <1>3, <1>9, <1>10, <2>1, <2>2
  <2> QED BY <2>3 DEF gs, hs, n, sc, H

\* The loop of push stops, pops no header but under a majority, and leaves no
\* majority behind: it pops everything at worst, and an empty window is none.
LEMMA PoppedByStops ==
  ASSUME NEW A, NEW C, NEW t, IsTracker(t, A, C), CountsWindow(t)
  PROVE  /\ PoppedBy(t) \in 0..Len(t.headers)
         /\ \A j \in 0..(PoppedBy(t) - 1) : IsFinalized(CountAfter(t, j), t.validators)
         /\ ~ IsFinalized(CountAfter(t, PoppedBy(t)), t.validators)
<1> DEFINE n == Len(t.headers)
           goesOn(k) == IsFinalized(CountAfter(t, k), t.validators)
           T == {k \in 0..n : goesOn(k) => k = n}
           P(k) == /\ \A j \in 0..(k-1) : goesOn(j)
                   /\ goesOn(k) => k = n
<1>1. n \in Nat /\ t.validators \in Seq(A)
  BY DEF IsTracker
<1>2. ~ goesOn(n)
  <2> DEFINE gs == SubSeq(t.headers, n + 1, n)
  <2>1. n \in 0..n BY <1>1
  <2>2. \A a : a \in DOMAIN CountAfter(t, n)
                <=> \E i \in DOMAIN gs : gs[i].signer = a
    BY <2>1, CountAfterIsCensus
  <2>3. gs = <<>>
    <3>1. t.headers \in Seq([num : Nat, signer : A]) BY DEF IsTracker
    <3> QED BY <1>1, <3>1, SubSeqEmpty
  <2>4. DOMAIN CountAfter(t, n) = {}
    <3>1. DOMAIN gs = {} BY <2>3
    <3> HIDE DEF gs, n
    <3>2. \A a : a \notin DOMAIN CountAfter(t, n) BY <2>2, <3>1
    <3> QED BY <3>2
  <2> QED BY <1>1, <2>4, EmptyIsNoMajority
<1>3. \E k \in 0..n : P(k)
  <2>1. n \in T BY <1>1
  <2>2. T \in SUBSET Nat BY <1>1
  <2>3. PICK m \in T : \A y \in T : m <= y
    <3> HIDE DEF T
    <3> QED BY <2>1, <2>2, LeastNumber
  <2>4. m \in 0..n BY <2>3
  <2>5. \A j \in 0..(m-1) : j \notin T /\ j \in 0..n
    BY <2>2, <2>3, <2>4, <1>1
  <2>6. \A j \in 0..(m-1) : goesOn(j)
    <3> HIDE DEF goesOn
    <3> QED BY <2>5
  <2>7. goesOn(m) => m = n BY <2>3
  <2> QED BY <2>4, <2>6, <2>7
<1>4. PoppedBy(t) = CHOOSE k \in 0..n : P(k)
  BY DEF PoppedBy
<1>5. PoppedBy(t) \in 0..n /\ P(PoppedBy(t))
  <2> HIDE DEF P
  <2> QED BY <1>3, <1>4
<1>6. goesOn(PoppedBy(t)) => PoppedBy(t) = n
  BY <1>5
<1>7. ~ goesOn(PoppedBy(t))
  <2> HIDE DEF goesOn
  <2> QED BY <1>2, <1>6
<1> QED BY <1>5, <1>7

\* Counting a header keeps the types and the census, and learns the signer.
LEMMA CountedKeeps ==
  ASSUME NEW A, NEW C, NEW t, IsTracker(t, A, C), CountsWindow(t), SignersKnown(t),
         NEW n \in Nat, NEW signer \in A
  PROVE  /\ IsTracker(Counted(t, n, signer), A, C)
         /\ CountsWindow(Counted(t, n, signer))
         /\ SignersKnown(Counted(t, n, signer))
<1> DEFINE H == [num : Nat, signer : A]
           h == [num |-> n, signer |-> signer]
           u == Counted(t, n, signer)
           m == Len(t.headers)
           sc == t.sign_count
<1>1. t.headers \in Seq(H) /\ h \in H /\ m \in Nat
  BY DEF IsTracker
<1>2. /\ u.validators = IF signer \in Range(t.validators) THEN t.validators
                        ELSE Append(t.validators, signer)
      /\ u.headers = Append(t.headers, h)
      /\ u.sign_count = [a \in DOMAIN sc \cup {signer} |->
                           (IF a \in DOMAIN sc THEN sc[a] ELSE 0)
                             + (IF a = signer THEN 1 ELSE 0)]
      /\ u.pending_transitions = t.pending_transitions
      /\ u \in [validators          : {u.validators},
                validators_sealed   : BOOLEAN,
                headers             : {u.headers},
                sign_count          : {u.sign_count},
                pending_transitions : {u.pending_transitions},
                finalize_change_at  : [at : Nat, address : C \cup {NoAddress}]]
  <2> DEFINE x == IF signer \in Range(t.validators) THEN t.validators
                  ELSE Append(t.validators, signer)
             y == Append(t.headers, h)
             z == [a \in DOMAIN sc \cup {signer} |->
                     (IF a \in DOMAIN sc THEN sc[a] ELSE 0)
                       + (IF a = signer THEN 1 ELSE 0)]
  <2>1. u = [t EXCEPT !.validators = x, !.headers = y, !.sign_count = z]
    BY Zenon DEF Counted
  <2> HIDE DEF u, x, y, z
  <2>2. u \in [validators          : {x},
               validators_sealed   : BOOLEAN,
               headers             : {y},
               sign_count          : {z},
               pending_transitions : {t.pending_transitions},
               finalize_change_at  : [at : Nat, address : C \cup {NoAddress}]]
    BY <2>1 DEF IsTracker
  <2> QED BY <2>2 DEF x, y, z
<1> HIDE DEF u, h, m
<1>3. /\ u.headers \in Seq(H)
      /\ Len(u.headers) = m + 1
      /\ DOMAIN u.headers = 1..(m+1)
      /\ \A i \in 1..m : u.headers[i] = t.headers[i]
      /\ u.headers[m+1] = h
  <2>1. /\ Append(t.headers, h) \in Seq(H)
        /\ Len(Append(t.headers, h)) = Len(t.headers) + 1
        /\ \A i \in 1..Len(t.headers) : Append(t.headers, h)[i] = t.headers[i]
        /\ Append(t.headers, h)[Len(t.headers) + 1] = h
    BY <1>1, AppendProperties
  <2>2. DOMAIN Append(t.headers, h) = 1..(m+1)
    BY <2>1, LenProperties DEF m
  <2> QED BY <1>2, <2>1, <2>2 DEF m
<1>4. /\ u.validators \in Seq(A)
      /\ Range(u.validators) = Range(t.validators) \cup {signer}
  <2>1. t.validators \in Seq(A) BY DEF IsTracker
  <2>2. CASE signer \in Range(t.validators)
    BY <1>2, <2>1, <2>2
  <2>3. CASE signer \notin Range(t.validators)
    <3> DEFINE l == Len(t.validators)
               w == Append(t.validators, signer)
    <3>1. /\ w \in Seq(A)
          /\ Len(w) = l + 1
          /\ \A i \in 1..l : w[i] = t.validators[i]
          /\ w[l + 1] = signer
      BY <2>1, AppendProperties
    <3>2. DOMAIN w = 1..(l+1) /\ DOMAIN t.validators = 1..l /\ l \in Nat
      BY <2>1, <3>1, LenProperties
    <3>3. u.validators = w BY <1>2, <2>3
    <3> HIDE DEF w, l
    <3>4. Range(w) = Range(t.validators) \cup {signer}
      BY <3>1, <3>2 DEF Range
    <3> QED BY <3>1, <3>3, <3>4
  <2> QED BY <2>2, <2>3
<1>5. /\ DOMAIN u.sign_count = DOMAIN sc \cup {signer}
      /\ \A a \in DOMAIN u.sign_count :
           u.sign_count[a] = (IF a \in DOMAIN sc THEN sc[a] ELSE 0)
                               + (IF a = signer THEN 1 ELSE 0)
  BY <1>2
<1>6. /\ DOMAIN sc \subseteq A
      /\ \A a \in DOMAIN sc : sc[a] \in Nat \ {0}
  BY DEF IsTracker
<1>7. IsTracker(u, A, C)
  <2>1. DOMAIN u.sign_count \subseteq A BY <1>5, <1>6
  <2>2. \A a \in DOMAIN u.sign_count : u.sign_count[a] \in Nat \ {0}
    BY <1>5, <1>6
  <2>3. /\ DOMAIN u.pending_transitions \subseteq Nat
        /\ \A b \in DOMAIN u.pending_transitions : u.pending_transitions[b] \in C
    BY <1>2 DEF IsTracker
  <2> QED BY <1>2, <1>3, <1>4, <2>1, <2>2, <2>3 DEF IsTracker
<1>8. CountsWindow(u)
  <2>1. DOMAIN sc = {t.headers[i].signer : i \in DOMAIN t.headers}
        /\ \A a \in DOMAIN sc : sc[a] = SignedIn(t.headers, m, a)
    BY DEF CountsWindow, m
  <2>2. DOMAIN t.headers = 1..m BY <1>1, LenProperties DEF m
  <2>3. h.signer = signer BY DEF h
  <2>4. DOMAIN u.sign_count = {u.headers[i].signer : i \in DOMAIN u.headers}
    <3>1. ASSUME NEW a \in DOMAIN u.sign_count
          PROVE  a \in {u.headers[i].signer : i \in DOMAIN u.headers}
      <4>1. CASE a \in DOMAIN sc
        <5>1. PICK i \in 1..m : t.headers[i].signer = a BY <4>1, <2>1, <2>2
        <5>2. u.headers[i] = t.headers[i] BY <1>3
        <5>3. i \in 1..(m + 1) BY <1>1
        <5>4. i \in DOMAIN u.headers BY <1>3, <5>3
        <5> QED BY <5>1, <5>2, <5>4
      <4>2. CASE a = signer
        <5>1. m + 1 \in DOMAIN u.headers /\ u.headers[m+1].signer = a
          BY <4>2, <1>1, <1>3, <2>3
        <5> QED BY <5>1
      <4> QED BY <4>1, <4>2, <1>5
    <3>2. ASSUME NEW i \in DOMAIN u.headers
          PROVE  u.headers[i].signer \in DOMAIN u.sign_count
      <4>1. CASE i \in 1..m
        <5>1. t.headers[i].signer \in DOMAIN sc BY <4>1, <2>1, <2>2
        <5> QED BY <4>1, <5>1, <1>3, <1>5
      <4>2. CASE i = m + 1
        BY <4>2, <1>3, <1>5, <2>3
      <4> QED BY <4>1, <4>2, <1>1, <1>3
    <3> QED BY <3>1, <3>2
  <2>5. \A a : SignedIn(u.headers, m + 1, a)
                 = SignedIn(t.headers, m, a) + (IF a = signer THEN 1 ELSE 0)
    <3> TAKE a
    <3>1. SignedIn(u.headers, m + 1, a)
            = SignedIn(u.headers, m, a) + (IF u.headers[m+1].signer = a THEN 1 ELSE 0)
      BY <1>1, SignedInNext
    <3>2. SignedIn(u.headers, m, a) = SignedIn(t.headers, m, a)
      <4>1. \A i \in 1..m : u.headers[i].signer = t.headers[i].signer BY <1>3
      <4>2. {i \in 1..m : u.headers[i].signer = a} = {i \in 1..m : t.headers[i].signer = a}
        BY <4>1
      <4> QED BY <4>2 DEF SignedIn
    <3> QED BY <3>1, <3>2, <1>3, <2>3
  <2>6. \A a : a \notin DOMAIN sc => SignedIn(t.headers, m, a) = 0
    <3> TAKE a
    <3> HAVE a \notin DOMAIN sc
    <3>1. ~ \E i \in 1..m : t.headers[i].signer = a BY <2>1, <2>2
    <3>2. m \in Nat BY <1>1
    <3> QED BY <3>1, <3>2, SignedInNone
  <2>7. \A a \in DOMAIN u.sign_count :
          u.sign_count[a] = SignedIn(u.headers, Len(u.headers), a)
    BY <1>3, <1>5, <2>1, <2>5, <2>6
  <2> QED BY <2>4, <2>7 DEF CountsWindow
<1>9. SignersKnown(u)
  <2>1. DOMAIN sc \subseteq Range(t.validators) BY DEF SignersKnown
  <2> QED BY <1>4, <1>5, <2>1 DEF SignersKnown
<1> QED BY <1>7, <1>8, <1>9 DEF u

\* The transition that push schedules is one of those it hits.
LEMMA LatestHitExists ==
  ASSUME NEW t, NEW k \in Nat, HitsIn(t, k) # {}
  PROVE  LatestHit(t, k) \in HitsIn(t, k)
<1> DEFINE S == HitsIn(t, k)
<1>1. S \in SUBSET Nat /\ \A i \in S : i <= k
  BY DEF HitsIn
<1> HIDE DEF S
<1>2. \E l \in S : \A j \in S : j <= l
  BY <1>1, GreatestNumber DEF S
<1>3. LatestHit(t, k) = CHOOSE l \in S : \A j \in S : j <= l
  BY DEF LatestHit, S
<1> QED BY <1>2, <1>3 DEF S

\* Popping keeps types and census, and is what restores NoMajority.
LEMMA PopFinalizedKeeps ==
  ASSUME NEW A, NEW C, NEW t, IsTracker(t, A, C), CountsWindow(t), SignersKnown(t),
         NEW n \in Nat
  PROVE  /\ IsTracker(PopFinalized(t, n), A, C)
         /\ CountsWindow(PopFinalized(t, n))
         /\ SignersKnown(PopFinalized(t, n))
         /\ NoMajority(PopFinalized(t, n))
<1> DEFINE k  == PoppedBy(t)
           u  == PopFinalized(t, n)
           gs == SubSeq(t.headers, k + 1, Len(t.headers))
           sc == CountAfter(t, k)
           pt == PendingAfter(t, k)
           at == IF HitsIn(t, k) = {} THEN t.finalize_change_at
                 ELSE [at      |-> n + 1,
                       address |-> t.pending_transitions[t.headers[LatestHit(t, k)].num]]
<1>1. k \in 0..Len(t.headers) /\ ~ IsFinalized(sc, t.validators)
  BY PoppedByStops
<1>2. Len(t.headers) \in Nat /\ k \in Nat
  BY <1>1 DEF IsTracker
<1>3. /\ gs \in Seq([num : Nat, signer : A])
      /\ \A a : a \in DOMAIN sc <=> \E i \in DOMAIN gs : gs[i].signer = a
      /\ DOMAIN sc \subseteq DOMAIN t.sign_count
      /\ \A a \in DOMAIN sc : sc[a] = SignedIn(gs, Len(gs), a) /\ sc[a] \in Nat \ {0}
  <2> HIDE DEF k
  <2> QED BY <1>1, CountAfterIsCensus
<1>4. /\ DOMAIN pt \subseteq Nat
      /\ \A b \in DOMAIN pt : pt[b] \in C
  <2>1. DOMAIN pt = DOMAIN t.pending_transitions \ NumbersIn(t, k)
        /\ \A b \in DOMAIN pt : pt[b] = t.pending_transitions[b]
    BY DEF PendingAfter, Restrict
  <2> HIDE DEF pt
  <2> QED BY <2>1 DEF IsTracker
<1>5. at \in [at : Nat, address : C \cup {NoAddress}]
  <2>1. CASE HitsIn(t, k) = {}
    BY <2>1 DEF IsTracker
  <2>2. CASE HitsIn(t, k) # {}
    <3>1. LatestHit(t, k) \in HitsIn(t, k) BY <1>2, <2>2, LatestHitExists
    <3>2. t.headers[LatestHit(t, k)].num \in DOMAIN t.pending_transitions
      BY <3>1 DEF HitsIn
    <3>3. t.pending_transitions[t.headers[LatestHit(t, k)].num] \in C
      BY <3>2 DEF IsTracker
    <3> QED BY <2>2, <3>3
  <2> QED BY <2>1, <2>2
<1>6. u = [t EXCEPT !.headers = gs, !.sign_count = sc,
                    !.pending_transitions = pt, !.finalize_change_at = at]
  BY Zenon DEF PopFinalized
<1> HIDE DEF k, u, gs, sc, pt, at
<1>7. u \in [validators          : {t.validators},
             validators_sealed   : BOOLEAN,
             headers             : {gs},
             sign_count          : {sc},
             pending_transitions : {pt},
             finalize_change_at  : {at}]
  BY <1>6 DEF IsTracker
<1>8. /\ u.validators = t.validators /\ u.headers = gs /\ u.sign_count = sc
      /\ u.pending_transitions = pt /\ u.finalize_change_at = at
  BY <1>7
<1>9. IsTracker(u, A, C)
  <2>1. t.validators \in Seq(A) /\ DOMAIN t.sign_count \subseteq A
    BY DEF IsTracker
  <2>2. u \in [validators          : Seq(A),
               validators_sealed   : BOOLEAN,
               headers             : Seq([num : Nat, signer : A]),
               sign_count          : {u.sign_count},
               pending_transitions : {u.pending_transitions},
               finalize_change_at  : [at : Nat, address : C \cup {NoAddress}]]
    BY <1>3, <1>5, <1>7, <1>8, <2>1
  <2> QED BY <1>3, <1>4, <1>8, <2>1, <2>2 DEF IsTracker
<1>10. CountsWindow(u)
  <2>1. DOMAIN u.sign_count = {u.headers[i].signer : i \in DOMAIN u.headers}
    <3>1. sc = u.sign_count /\ gs = u.headers BY <1>8
    <3>2. \A a : a \in DOMAIN u.sign_count
                 <=> a \in {u.headers[i].signer : i \in DOMAIN u.headers}
      BY <1>3, <3>1
    <3> QED BY <3>2
  <2>2. \A a \in DOMAIN u.sign_count :
          u.sign_count[a] = SignedIn(u.headers, Len(u.headers), a)
    BY <1>3, <1>8
  <2> QED BY <2>1, <2>2 DEF CountsWindow
<1>11. SignersKnown(u)
  BY <1>3, <1>8 DEF SignersKnown
<1>12. NoMajority(u)
  BY <1>1, <1>8 DEF NoMajority
<1> QED BY <1>9, <1>10, <1>11, <1>12 DEF u

\* A number popped with a pending transition is hit at its first occurrence.
LEMMA PoppedIsHit ==
  ASSUME NEW t, NEW k \in Nat, NEW b \in DOMAIN t.pending_transitions,
         b \in NumbersIn(t, k)
  PROVE  \E i \in HitsIn(t, k) : t.headers[i].num = b
<1> DEFINE T == {i \in 1..k : t.headers[i].num = b}
<1>1. T \in SUBSET Nat /\ T # {}
  BY DEF NumbersIn
<1>2. PICK i \in T : \A j \in T : i <= j
  <2> HIDE DEF T
  <2> QED BY <1>1, LeastNumber
<1>3. \A j \in 1..(i-1) : t.headers[j].num # t.headers[i].num
  BY <1>2
<1> QED BY <1>2, <1>3 DEF HitsIn

\* A pop that removes a pending transition schedules one of those it removes,
\* and no pop clears a schedule.
LEMMA PopFinalizedSchedules ==
  ASSUME NEW A, NEW C, NoAddress \notin C,
         NEW t, IsTracker(t, A, C), CountsWindow(t),
         NEW n \in Nat
  PROVE  Kept(t, PopFinalized(t, n))
<1> DEFINE u  == PopFinalized(t, n)
           k  == PoppedBy(t)
           pt == PendingAfter(t, k)
           at == IF HitsIn(t, k) = {} THEN t.finalize_change_at
                 ELSE [at      |-> n + 1,
                       address |-> t.pending_transitions[t.headers[LatestHit(t, k)].num]]
           left == DOMAIN t.pending_transitions \ DOMAIN pt
<1>1. k \in Nat
  <2>1. k \in 0..Len(t.headers) BY PoppedByStops
  <2> QED BY <2>1 DEF IsTracker
<1>2. u.pending_transitions = pt /\ u.finalize_change_at = at
  <2> DEFINE gs == SubSeq(t.headers, k + 1, Len(t.headers))
             sc == CountAfter(t, k)
  <2>1. u = [t EXCEPT !.headers = gs, !.sign_count = sc,
                      !.pending_transitions = pt, !.finalize_change_at = at]
    BY Zenon DEF PopFinalized
  <2> HIDE DEF k, gs, sc, pt, at
  <2> HIDE DEF u
  <2> QED BY <2>1 DEF IsTracker
<1>3. left = DOMAIN t.pending_transitions \cap NumbersIn(t, k)
  BY DEF PendingAfter, Restrict
<1>4. CASE HitsIn(t, k) = {}
  <2>1. left = {} BY <1>1, <1>3, <1>4, PoppedIsHit
  <2>2. at = t.finalize_change_at BY <1>4
  <2> HIDE DEF k, pt, at, u
  <2>3. Kept(t, u) BY <1>2, <2>1, <2>2 DEF Kept, Scheduled
  <2> QED BY <2>3 DEF u
<1>5. CASE HitsIn(t, k) # {}
  <2> DEFINE b == t.headers[LatestHit(t, k)].num
  <2>1. LatestHit(t, k) \in HitsIn(t, k) BY <1>1, <1>5, LatestHitExists
  <2>2. b \in DOMAIN t.pending_transitions /\ b \in NumbersIn(t, k)
    BY <2>1 DEF HitsIn, NumbersIn
  <2>3. at.address = t.pending_transitions[b] BY <1>5
  <2>4. at.address # NoAddress BY <2>2, <2>3 DEF IsTracker
  <2>5. b \in left BY <1>3, <2>2
  <2> HIDE DEF k, pt, at, b, u
  <2>6. Kept(t, u) BY <1>2, <2>3, <2>4, <2>5 DEF Kept, Scheduled
  <2> QED BY <2>6 DEF u
<1> QED BY <1>4, <1>5

(***************************************************************************)
(* A tracker in order: the conjuncts that the operations keep together.    *)
(***************************************************************************)
InOrder(t, A, C) ==
  /\ IsTracker(t, A, C)
  /\ CountsWindow(t)
  /\ SignersKnown(t)
  /\ NoMajority(t)

\* push keeps a tracker in order, whoever signed and whatever block it is.
LEMMA PushKeeps ==
  ASSUME NEW A, NEW C, NEW t, InOrder(t, A, C), NEW n \in Nat, NEW signer \in A
  PROVE  InOrder(Push(t, n, signer), A, C)
<1>1. CASE t.validators_sealed /\ signer \notin Range(t.validators)
  BY <1>1 DEF Push
<1>2. CASE ~ (t.validators_sealed /\ signer \notin Range(t.validators))
  <2> DEFINE u == Counted(t, n, signer)
  <2>1. IsTracker(u, A, C) /\ CountsWindow(u) /\ SignersKnown(u)
    BY CountedKeeps DEF InOrder
  <2>2. Push(t, n, signer) = PopFinalized(u, n)
    BY <1>2 DEF Push
  <2> HIDE DEF u
  <2>3. /\ IsTracker(PopFinalized(u, n), A, C)
        /\ CountsWindow(PopFinalized(u, n))
        /\ SignersKnown(PopFinalized(u, n))
        /\ NoMajority(PopFinalized(u, n))
    BY <2>1, PopFinalizedKeeps
  <2> QED BY <2>2, <2>3 DEF InOrder
<1> QED BY <1>1, <1>2

(***************************************************************************)
(* The other operations.  Those that change the set or take a call empty   *)
(* the window, the rest leave validators, window and counts alone.         *)
(***************************************************************************)
\* An empty window is in order under any validators.
LEMMA EmptyWindowInOrder ==
  ASSUME NEW A, NEW C,
         NEW t, t \in [validators          : Seq(A),
                       validators_sealed   : BOOLEAN,
                       headers             : {<<>>},
                       sign_count          : {EmptyMap},
                       pending_transitions : {t.pending_transitions},
                       finalize_change_at  : [at : Nat, address : C \cup {NoAddress}]],
         DOMAIN t.pending_transitions \subseteq Nat,
         \A b \in DOMAIN t.pending_transitions : t.pending_transitions[b] \in C
  PROVE  InOrder(t, A, C)
<1>1. t.headers = <<>> /\ t.sign_count = EmptyMap /\ t.validators \in Seq(A)
  OBVIOUS
<1>2. DOMAIN t.sign_count = {} /\ DOMAIN t.headers = {}
  BY <1>1 DEF EmptyMap
<1>3. t \in [validators          : Seq(A),
             validators_sealed   : BOOLEAN,
             headers             : Seq([num : Nat, signer : A]),
             sign_count          : {t.sign_count},
             pending_transitions : {t.pending_transitions},
             finalize_change_at  : [at : Nat, address : C \cup {NoAddress}]]
  <2>1. <<>> \in Seq([num : Nat, signer : A]) OBVIOUS
  <2> DEFINE H == Seq([num : Nat, signer : A])
             F == [at : Nat, address : C \cup {NoAddress}]
  <2> HIDE DEF H, F
  <2>2. t \in [validators          : Seq(A),
               validators_sealed   : BOOLEAN,
               headers             : H,
               sign_count          : {t.sign_count},
               pending_transitions : {t.pending_transitions},
               finalize_change_at  : F]
    BY <1>1, <2>1 DEF H, F
  <2> QED BY <2>2 DEF H, F
<1>4. IsTracker(t, A, C)
  BY <1>2, <1>3 DEF IsTracker
<1>5. CountsWindow(t)
  <2>1. DOMAIN t.sign_count = {t.headers[i].signer : i \in DOMAIN t.headers}
    BY <1>2
  <2> QED BY <1>2, <2>1 DEF CountsWindow
<1>6. NoMajority(t)
  BY <1>1, <1>2, EmptyIsNoMajority DEF NoMajority
<1> QED BY <1>2, <1>4, <1>5, <1>6 DEF InOrder, SignersKnown

\* new, from_recovered, set_validators and take_finalize_change.
LEMMA NewInOrder ==
  ASSUME NEW A, NEW C, NEW validators \in Seq(A)
  PROVE  InOrder(New(validators), A, C)
<1> DEFINE t == New(validators)
<1>1. NotScheduled \in [at : Nat, address : C \cup {NoAddress}]
  BY DEF NotScheduled
<1>2. t \in [validators          : Seq(A),
             validators_sealed   : BOOLEAN,
             headers             : {<<>>},
             sign_count          : {EmptyMap},
             pending_transitions : {EmptyMap},
             finalize_change_at  : [at : Nat, address : C \cup {NoAddress}]]
  BY <1>1 DEF New
<1>3. t.pending_transitions = EmptyMap BY DEF New
<1>4. DOMAIN t.pending_transitions = {} BY <1>3 DEF EmptyMap
<1> HIDE DEF t
<1>5. InOrder(t, A, C) BY <1>2, <1>3, <1>4, EmptyWindowInOrder
<1> QED BY <1>5 DEF t

LEMMA FromRecoveredInOrder ==
  ASSUME NEW A, NEW C,
         NEW pending, DOMAIN pending \subseteq Nat,
         \A b \in DOMAIN pending : pending[b] \in C,
         NEW at \in [at : Nat, address : C \cup {NoAddress}]
  PROVE  InOrder(FromRecovered(pending, at), A, C)
<1> DEFINE t == New(<<>>)
           u == FromRecovered(pending, at)
           F == [at : Nat, address : C \cup {NoAddress}]
<1>1. t \in [validators          : {<<>>},
             validators_sealed   : {FALSE},
             headers             : {<<>>},
             sign_count          : {EmptyMap},
             pending_transitions : {EmptyMap},
             finalize_change_at  : {NotScheduled}]
  BY DEF New
<1>2. u = [t EXCEPT !.pending_transitions = pending, !.finalize_change_at = at]
  BY Zenon DEF FromRecovered
<1>3. <<>> \in Seq(A) OBVIOUS
<1> HIDE DEF t, u, F
<1>4. u \in [validators          : Seq(A),
             validators_sealed   : BOOLEAN,
             headers             : {<<>>},
             sign_count          : {EmptyMap},
             pending_transitions : {pending},
             finalize_change_at  : F]
  <2>1. at \in F BY DEF F
  <2> QED BY <1>1, <1>2, <1>3, <2>1
<1>5. u.pending_transitions = pending BY <1>4
<1>6. InOrder(u, A, C) BY <1>4, <1>5, EmptyWindowInOrder DEF F
<1> QED BY <1>6 DEF u

LEMMA SetValidatorsKeeps ==
  ASSUME NEW A, NEW C, NEW t, InOrder(t, A, C), NEW validators \in Seq(A)
  PROVE  InOrder(SetValidators(t, validators), A, C)
<1> DEFINE u == SetValidators(t, validators)
<1>1. /\ DOMAIN t.pending_transitions \subseteq Nat
      /\ \A b \in DOMAIN t.pending_transitions : t.pending_transitions[b] \in C
  BY DEF InOrder, IsTracker
<1>2. u \in [validators          : Seq(A),
             validators_sealed   : BOOLEAN,
             headers             : {<<>>},
             sign_count          : {EmptyMap},
             pending_transitions : {t.pending_transitions},
             finalize_change_at  : [at : Nat, address : C \cup {NoAddress}]]
  BY DEF InOrder, IsTracker, SetValidators
<1> HIDE DEF u
<1>3. u.pending_transitions = t.pending_transitions BY <1>2
<1>4. InOrder(u, A, C) BY <1>1, <1>2, <1>3, EmptyWindowInOrder
<1> QED BY <1>4 DEF u

LEMMA TakeFinalizeChangeKeeps ==
  ASSUME NEW A, NEW C, NEW t, InOrder(t, A, C), NEW n
  PROVE  InOrder(TakeFinalizeChange(t, n), A, C)
<1>1. CASE ~ FinalizeDue(t, n)
  BY <1>1 DEF TakeFinalizeChange
<1>2. CASE FinalizeDue(t, n)
  <2> DEFINE u == TakeFinalizeChange(t, n)
             F == [at : Nat, address : C \cup {NoAddress}]
  <2>1. /\ DOMAIN t.pending_transitions \subseteq Nat
        /\ \A b \in DOMAIN t.pending_transitions : t.pending_transitions[b] \in C
    BY DEF InOrder, IsTracker
  <2>2. NotScheduled \in F
    BY DEF NotScheduled
  <2>3. u = [t EXCEPT !.finalize_change_at = NotScheduled,
                      !.headers = <<>>, !.sign_count = EmptyMap]
    BY Zenon, <1>2 DEF TakeFinalizeChange
  <2> HIDE DEF u, F
  <2>4. u \in [validators          : Seq(A),
               validators_sealed   : BOOLEAN,
               headers             : {<<>>},
               sign_count          : {EmptyMap},
               pending_transitions : {t.pending_transitions},
               finalize_change_at  : F]
    BY <2>2, <2>3 DEF InOrder, IsTracker
  <2>5. u.pending_transitions = t.pending_transitions BY <2>4
  <2>6. InOrder(u, A, C)
    BY <2>1, <2>4, <2>5, EmptyWindowInOrder DEF F
  <2> QED BY <2>6 DEF u
<1> QED BY <1>1, <1>2

\* set_immediate_finalize and add_pending_transition.
LEMMA SetImmediateFinalizeKeeps ==
  ASSUME NEW A, NEW C, NEW t, InOrder(t, A, C), NEW n \in Nat, NEW contract \in C
  PROVE  InOrder(SetImmediateFinalize(t, n, contract), A, C)
<1> DEFINE at == [at |-> n, address |-> contract]
           u  == SetImmediateFinalize(t, n, contract)
<1>1. at \in [at : Nat, address : C \cup {NoAddress}]
  OBVIOUS
<1>2. u \in [validators          : {t.validators},
             validators_sealed   : BOOLEAN,
             headers             : {t.headers},
             sign_count          : {t.sign_count},
             pending_transitions : {t.pending_transitions},
             finalize_change_at  : {at}]
  BY DEF InOrder, IsTracker, SetImmediateFinalize
<1> HIDE DEF u, at
<1>3. IsTracker(u, A, C)
  BY <1>1, <1>2 DEF InOrder, IsTracker
<1> QED BY <1>2, <1>3 DEF InOrder, CountsWindow, SignersKnown, NoMajority, u

LEMMA AddPendingTransitionKeeps ==
  ASSUME NEW A, NEW C, NEW t, InOrder(t, A, C), NEW n \in Nat, NEW contract \in C
  PROVE  InOrder(AddPendingTransition(t, n, contract), A, C)
<1> DEFINE pt == [b \in DOMAIN t.pending_transitions \cup {n} |->
                    IF b = n THEN contract ELSE t.pending_transitions[b]]
           u  == AddPendingTransition(t, n, contract)
<1>1. DOMAIN pt \subseteq Nat /\ \A b \in DOMAIN pt : pt[b] \in C
  BY DEF InOrder, IsTracker
<1>2. u = [t EXCEPT !.pending_transitions = pt]
  BY Zenon DEF AddPendingTransition
<1> HIDE DEF u, pt
<1>3. u \in [validators          : {t.validators},
             validators_sealed   : BOOLEAN,
             headers             : {t.headers},
             sign_count          : {t.sign_count},
             pending_transitions : {pt},
             finalize_change_at  : {t.finalize_change_at}]
  BY <1>2 DEF InOrder, IsTracker
<1>4. IsTracker(u, A, C)
  BY <1>1, <1>3 DEF InOrder, IsTracker
<1> QED BY <1>3, <1>4 DEF InOrder, CountsWindow, SignersKnown, NoMajority, u

(***************************************************************************)
(* Sets of signers.                                                        *)
(***************************************************************************)
\* A finite list has finitely many values.
LEMMA ValuesFinite ==
  ASSUME NEW i \in Int, NEW m \in Int, NEW f, NEW T, T = {f[j] : j \in i..m}
  PROVE  IsFiniteSet(T)
<1> DEFINE g == [j \in i..m |-> f[j]]
<1>1. g \in Surjection(i..m, T)
  BY DEF Surjection
<1>2. IsFiniteSet(i..m)
  BY FS_Interval
<1> HIDE DEF g
<1> QED BY <1>1, <1>2, FS_Surjection

\* The members of a set of validators are finitely many.
LEMMA RangeFinite ==
  ASSUME NEW A, NEW s \in Seq(A)
  PROVE  IsFiniteSet(Range(s))
<1> DEFINE m == Len(s)
           T == Range(s)
<1>1. T = {s[j] : j \in 1..m}
  BY DEF Range
<1>2. m \in Int /\ 1 \in Int OBVIOUS
<1>3. IsFiniteSet(T)
  <2> HIDE DEF m, T
  <2> QED BY <1>1, <1>2, ValuesFinite
<1> QED BY <1>3

\* More signers are no smaller a majority.
LEMMA MajorityGrows ==
  ASSUME NEW T, IsFiniteSet(T), NEW S \in SUBSET T, NEW n \in Nat,
         Cardinality(S) * 2 > n
  PROVE  Cardinality(T) * 2 > n
<1>1. Cardinality(S) <= Cardinality(T) /\ IsFiniteSet(S)
  BY FS_Subset
<1>2. Cardinality(S) \in Nat /\ Cardinality(T) \in Nat
  BY <1>1, FS_CardinalityType
<1> QED BY <1>1, <1>2

\* What popping does to each field of the tracker.
LEMMA PopFinalizedFields ==
  ASSUME NEW A, NEW C, NEW t, IsTracker(t, A, C), CountsWindow(t), NEW n \in Nat
  PROVE  LET k == PoppedBy(t)
             u == PopFinalized(t, n) IN
         /\ u.validators = t.validators
         /\ u.validators_sealed = t.validators_sealed
         /\ u.headers = SubSeq(t.headers, k + 1, Len(t.headers))
         /\ u.pending_transitions = PendingAfter(t, k)
         /\ HitsIn(t, k) = {} => u.finalize_change_at = t.finalize_change_at
         /\ HitsIn(t, k) # {} =>
              \E i \in HitsIn(t, k) :
                u.finalize_change_at =
                  [at      |-> n + 1,
                   address |-> t.pending_transitions[t.headers[i].num]]
<1> DEFINE u  == PopFinalized(t, n)
           k  == PoppedBy(t)
           pt == PendingAfter(t, k)
           gs == SubSeq(t.headers, k + 1, Len(t.headers))
           sc == CountAfter(t, k)
           at == IF HitsIn(t, k) = {} THEN t.finalize_change_at
                 ELSE [at      |-> n + 1,
                       address |-> t.pending_transitions[t.headers[LatestHit(t, k)].num]]
<1>1. u = [t EXCEPT !.headers = gs, !.sign_count = sc,
                    !.pending_transitions = pt, !.finalize_change_at = at]
  BY Zenon DEF PopFinalized
<1>2. k \in Nat
  <2>1. k \in 0..Len(t.headers) BY PoppedByStops
  <2> QED BY <2>1 DEF IsTracker
<1>3. HitsIn(t, k) # {} => LatestHit(t, k) \in HitsIn(t, k)
  BY <1>2, LatestHitExists
<1>4. /\ u.validators = t.validators
      /\ u.validators_sealed = t.validators_sealed
      /\ u.headers = gs
      /\ u.pending_transitions = pt
      /\ u.finalize_change_at = at
  <2> HIDE DEF k, gs, sc, pt, at, u
  <2> QED BY <1>1 DEF IsTracker
<1>5. HitsIn(t, k) = {} => at = t.finalize_change_at
  OBVIOUS
<1>6. HitsIn(t, k) # {} =>
        at = [at      |-> n + 1,
              address |-> t.pending_transitions[t.headers[LatestHit(t, k)].num]]
  OBVIOUS
<1> HIDE DEF k, gs, pt, at, u
<1>7. HitsIn(t, k) # {} =>
        \E i \in HitsIn(t, k) :
          u.finalize_change_at =
            [at      |-> n + 1,
             address |-> t.pending_transitions[t.headers[i].num]]
  BY <1>3, <1>4, <1>6
<1> QED BY <1>4, <1>5, <1>7 DEF u, k, gs, pt

\* the header at i and those behind it are signed by a majority
MajorityFrom(t, i) ==
  /\ IsFiniteSet({t.headers[j].signer : j \in i..Len(t.headers)})
  /\ Cardinality({t.headers[j].signer : j \in i..Len(t.headers)}) * 2
       > Len(t.validators)

\* A popped header leaves with a majority: it and those behind it are signed
\* by more than half of the validators.
LEMMA PoppedUnderMajority ==
  ASSUME NEW A, NEW C, NEW t, IsTracker(t, A, C), CountsWindow(t),
         NEW i \in 1..PoppedBy(t)
  PROVE  MajorityFrom(t, i)
<1> DEFINE hs == t.headers
           m  == Len(hs)
           gs == SubSeq(hs, i, m)
           S  == {hs[j].signer : j \in i..m}
<1>1. hs \in Seq([num : Nat, signer : A]) /\ m \in Nat
  BY DEF IsTracker
<1>2. PoppedBy(t) \in 0..m /\ IsFinalized(CountAfter(t, i - 1), t.validators)
  <2>1. PoppedBy(t) \in 0..m
        /\ \A j \in 0..(PoppedBy(t) - 1) : IsFinalized(CountAfter(t, j), t.validators)
    BY PoppedByStops
  <2>2. i - 1 \in 0..(PoppedBy(t) - 1) BY <1>1, <2>1
  <2> QED BY <2>1, <2>2
<1>3. i \in 1..m /\ i - 1 \in 0..m /\ (i - 1) + 1 = i
  BY <1>1, <1>2
<1>4. \A a : a \in DOMAIN CountAfter(t, i - 1) <=> \E j \in DOMAIN gs : gs[j].signer = a
  <2>1. \A a : a \in DOMAIN CountAfter(t, i - 1)
                <=> \E j \in DOMAIN SubSeq(hs, (i - 1) + 1, m) :
                      SubSeq(hs, (i - 1) + 1, m)[j].signer = a
    <3>1. PICK k : k = i - 1 OBVIOUS
    <3>2. k \in 0..Len(t.headers) BY <1>3, <3>1
    <3>3. \A a : a \in DOMAIN CountAfter(t, k)
                  <=> \E j \in DOMAIN SubSeq(t.headers, k + 1, Len(t.headers)) :
                        SubSeq(t.headers, k + 1, Len(t.headers))[j].signer = a
      BY <3>2, CountAfterIsCensus
    <3> QED BY <3>1, <3>3
  <2> QED BY <1>3, <2>1
<1>5. DOMAIN gs = 1..(m - i + 1) /\ \A j \in 1..(m - i + 1) : gs[j] = hs[i + j - 1]
  BY <1>1, <1>3
<1>6. \A a : (\E j \in DOMAIN gs : gs[j].signer = a) <=> a \in S
  <2>1. ASSUME NEW j \in DOMAIN gs PROVE gs[j].signer \in S
    <3>1. i + j - 1 \in i..m BY <1>1, <1>3, <1>5
    <3> QED BY <1>5, <3>1
  <2>2. ASSUME NEW j \in i..m PROVE \E l \in DOMAIN gs : gs[l].signer = hs[j].signer
    <3>1. j - i + 1 \in 1..(m - i + 1) /\ i + (j - i + 1) - 1 = j BY <1>1, <1>3
    <3>2. gs[j - i + 1] = hs[j] BY <1>5, <3>1
    <3> QED BY <1>5, <3>1, <3>2
  <2>3. ASSUME NEW a PROVE a \in S <=> \E j \in i..m : a = hs[j].signer
    OBVIOUS
  <2> HIDE DEF S, gs, hs, m
  <2> QED BY <2>1, <2>2, <2>3
<1>7. S = DOMAIN CountAfter(t, i - 1)
  <2> HIDE DEF S, gs
  <2> QED BY <1>4, <1>6
<1>8. IsFiniteSet(S)
  <2> DEFINE f == [j \in i..m |-> hs[j].signer]
  <2>1. S = {f[j] : j \in i..m} OBVIOUS
  <2>2. i \in Int /\ m \in Int BY <1>1, <1>3
  <2> HIDE DEF f, S, m
  <2> QED BY <2>1, <2>2, ValuesFinite
<1>9. Cardinality(S) * 2 > Len(t.validators)
  <2> HIDE DEF S
  <2> QED BY <1>2, <1>7 DEF IsFinalized
<1> QED BY <1>8, <1>9 DEF MajorityFrom

(***************************************************************************)
(* What push does to a tracker whose set is known.                         *)
(***************************************************************************)
\* A stranger's block leaves no trace.
LEMMA PushDrops ==
  ASSUME NEW t, t.validators_sealed, NEW n, NEW signer, signer \notin Range(t.validators)
  PROVE  Push(t, n, signer) = t
BY DEF Push

\* the window of t with the header of block n behind it
WindowWith(t, n, signer) == Append(t.headers, [num |-> n, signer |-> signer])

\* u is t, whose window has become hs, without the first k headers
Pops(t, u, hs, n, k) ==
  /\ u.headers = SubSeq(hs, k + 1, Len(hs))
  /\ u.pending_transitions =
       Restrict(t.pending_transitions,
                DOMAIN t.pending_transitions \ {hs[i].num : i \in 1..k})
  /\ \/ /\ \A i \in 1..k : hs[i].num \notin DOMAIN t.pending_transitions
        /\ u.finalize_change_at = t.finalize_change_at
     \/ \E i \in 1..k :
          /\ hs[i].num \in DOMAIN t.pending_transitions
          /\ u.finalize_change_at =
               [at |-> n + 1, address |-> t.pending_transitions[hs[i].num]]
  /\ \A i \in 1..k :
       Cardinality({hs[j].signer : j \in i..Len(hs)}) * 2 > Len(u.validators)

PopsSome(t, u, hs, n) == \E k \in 0..Len(hs) : Pops(t, u, hs, n, k)

\* The block is appended if its signer is counted, and a prefix of the window leaves.
\* What leaves has a majority from its block to the pushed one; it leaves
\* pending_transitions too, and schedules a call if it was there.
LEMMA PushPops ==
  ASSUME NEW A, NEW C, NEW t, InOrder(t, A, C), NEW n \in Nat, NEW signer \in A,
         ~ (t.validators_sealed /\ signer \notin Range(t.validators)),
         NEW u, u = Push(t, n, signer),
         NEW hs, hs = WindowWith(t, n, signer)
  PROVE  /\ signer \in Range(t.validators) => u.validators = t.validators
         /\ u.validators_sealed = t.validators_sealed
         /\ signer \in Range(u.validators)
         /\ \A i \in DOMAIN hs : hs[i].signer \in Range(u.validators)
         /\ PopsSome(t, u, hs, n)
<1> DEFINE h == [num |-> n, signer |-> signer]
           c == Counted(t, n, signer)
           k == PoppedBy(c)
<1>1. IsTracker(c, A, C) /\ CountsWindow(c) /\ SignersKnown(c)
  BY CountedKeeps DEF InOrder
<1>2. u = PopFinalized(c, n)
  BY DEF Push
<1>3. /\ signer \in Range(t.validators) => c.validators = t.validators
      /\ c.validators_sealed = t.validators_sealed
      /\ c.headers = hs
      /\ c.pending_transitions = t.pending_transitions
      /\ c.finalize_change_at = t.finalize_change_at
  <2> DEFINE vs == IF signer \in Range(t.validators) THEN t.validators
                   ELSE Append(t.validators, signer)
             sc == [a \in DOMAIN t.sign_count \cup {signer} |->
                      (IF a \in DOMAIN t.sign_count THEN t.sign_count[a] ELSE 0)
                        + (IF a = signer THEN 1 ELSE 0)]
  <2>1. c = [t EXCEPT !.validators = vs, !.headers = Append(@, h),
                      !.sign_count = sc]
    BY Zenon DEF Counted
  <2>2. signer \in Range(t.validators) => vs = t.validators OBVIOUS
  <2> HIDE DEF vs, sc, h, c
  <2>3. hs = Append(t.headers, h) BY DEF h, WindowWith
  <2> QED BY <2>1, <2>2, <2>3 DEF InOrder, IsTracker
<1> HIDE DEF c
<1>4. k \in 0..Len(hs)
  BY <1>1, <1>3, PoppedByStops
<1>5. /\ u.validators = c.validators
      /\ u.validators_sealed = c.validators_sealed
      /\ u.headers = SubSeq(c.headers, k + 1, Len(c.headers))
      /\ u.pending_transitions = PendingAfter(c, k)
      /\ HitsIn(c, k) = {} => u.finalize_change_at = c.finalize_change_at
      /\ HitsIn(c, k) # {} =>
           \E i \in HitsIn(c, k) :
             u.finalize_change_at =
               [at      |-> n + 1,
                address |-> c.pending_transitions[c.headers[i].num]]
  BY <1>1, <1>2, PopFinalizedFields
<1>6. u.pending_transitions =
        Restrict(t.pending_transitions,
                 DOMAIN t.pending_transitions \ {hs[i].num : i \in 1..k})
  BY <1>3, <1>5 DEF PendingAfter, NumbersIn
<1>7. /\ \A i \in DOMAIN hs : hs[i].signer \in Range(u.validators)
      /\ signer \in Range(u.validators)
  <2>1. \A i \in DOMAIN hs : hs[i].signer \in Range(u.validators)
    BY <1>1, <1>3, <1>5 DEF CountsWindow, SignersKnown
  <2>2. Len(hs) \in DOMAIN hs /\ hs[Len(hs)].signer = signer
    <3>1. t.headers \in Seq([num : Nat, signer : A]) /\ h \in [num : Nat, signer : A]
      BY DEF InOrder, IsTracker
    <3>2. h.signer = signer OBVIOUS
    <3> HIDE DEF h
    <3>3. hs = Append(t.headers, h) BY DEF h, WindowWith
    <3> QED BY <3>1, <3>2, <3>3
  <2> QED BY <2>1, <2>2
<1>10. ASSUME NEW i \in 1..k
       PROVE  Cardinality({hs[j].signer : j \in i..Len(hs)}) * 2 > Len(u.validators)
  <2>1. Cardinality({c.headers[j].signer : j \in i..Len(c.headers)}) * 2
          > Len(c.validators)
    <3>1. IsTracker(c, A, C) /\ CountsWindow(c) /\ i \in 1..PoppedBy(c)
      BY <1>1
    <3>2. MajorityFrom(c, i) BY <3>1, PoppedUnderMajority, Zenon
    <3> QED BY <3>2 DEF MajorityFrom
  <2> QED BY <1>3, <1>5, <2>1
<1> HIDE DEF k
<1>8. CASE HitsIn(c, k) = {}
  <2>1. \A i \in 1..k : hs[i].num \notin DOMAIN t.pending_transitions
    <3>1. ASSUME NEW i \in 1..k, hs[i].num \in DOMAIN t.pending_transitions
          PROVE  FALSE
      <4>1. hs[i].num \in NumbersIn(c, k) BY <1>3 DEF NumbersIn
      <4>2. k \in Nat BY <1>1, <1>3, <1>4 DEF IsTracker
      <4> QED BY <1>3, <1>8, <3>1, <4>1, <4>2, PoppedIsHit
    <3> QED BY <3>1
  <2>2. Pops(t, u, hs, n, k) BY <1>3, <1>5, <1>6, <1>8, <1>10, <2>1 DEF Pops
  <2> QED BY <1>3, <1>4, <1>5, <1>7, <2>2 DEF PopsSome
<1>9. CASE HitsIn(c, k) # {}
  <2>1. PICK i \in HitsIn(c, k) :
          u.finalize_change_at =
            [at |-> n + 1, address |-> t.pending_transitions[hs[i].num]]
    BY <1>3, <1>5, <1>9
  <2>2. i \in 1..k /\ hs[i].num \in DOMAIN t.pending_transitions
    BY <1>3 DEF HitsIn
  <2>3. Pops(t, u, hs, n, k) BY <1>3, <1>5, <1>6, <1>10, <2>1, <2>2 DEF Pops
  <2> QED BY <1>3, <1>4, <1>5, <1>7, <2>3 DEF PopsSome
<1> QED BY <1>8, <1>9

\* push never changes a set that is sealed.
LEMMA PushKeepsSet ==
  ASSUME NEW A, NEW C, NEW t, InOrder(t, A, C), t.validators_sealed,
         NEW n \in Nat, NEW signer \in A, NEW u, u = Push(t, n, signer)
  PROVE  u.validators = t.validators
<1>1. CASE signer \in Range(t.validators)
  <2>1. PICK hs : hs = WindowWith(t, n, signer) OBVIOUS
  <2> QED BY <1>1, <2>1, PushPops
<1>2. CASE signer \notin Range(t.validators)
  <2>1. u = t BY <1>2, PushDrops
  <2> QED BY <2>1
<1> QED BY <1>1, <1>2

(***************************************************************************)
(* What the other operations do, field by field.                           *)
(***************************************************************************)
\* set_validators replaces the set and empties the window.
LEMMA SetValidatorsFields ==
  ASSUME NEW A, NEW C, NEW t, IsTracker(t, A, C), NEW validators,
         NEW u, u = SetValidators(t, validators)
  PROVE  /\ u.validators = validators /\ u.validators_sealed
         /\ u.headers = <<>>
         /\ u.pending_transitions = t.pending_transitions
         /\ u.finalize_change_at = t.finalize_change_at
<1>1. u = [t EXCEPT !.validators = validators, !.validators_sealed = TRUE,
                    !.headers = <<>>, !.sign_count = EmptyMap]
  BY Zenon DEF SetValidators
<1> QED BY <1>1 DEF IsTracker

\* take_finalize_change clears a due schedule and the window with it.
LEMMA TakeFinalizeChangeFields ==
  ASSUME NEW A, NEW C, NEW t, IsTracker(t, A, C), NEW n,
         NEW u, u = TakeFinalizeChange(t, n)
  PROVE  /\ u.validators = t.validators
         /\ u.validators_sealed = t.validators_sealed
         /\ u.pending_transitions = t.pending_transitions
         /\ FinalizeDue(t, n) => ~Scheduled(u) /\ u.headers = <<>>
         /\ ~FinalizeDue(t, n) => u = t
<1>1. CASE FinalizeDue(t, n)
  <2>1. u = [t EXCEPT !.finalize_change_at = NotScheduled,
                      !.headers = <<>>, !.sign_count = EmptyMap]
    BY <1>1, Zenon DEF TakeFinalizeChange
  <2>2. NotScheduled.address = NoAddress BY DEF NotScheduled
  <2> QED BY <1>1, <2>1, <2>2 DEF IsTracker, Scheduled
<1>2. CASE ~FinalizeDue(t, n)
  BY <1>2 DEF TakeFinalizeChange
<1> QED BY <1>1, <1>2

\* set_immediate_finalize only schedules.
LEMMA SetImmediateFinalizeFields ==
  ASSUME NEW A, NEW C, NEW t, IsTracker(t, A, C), NEW n, NEW contract,
         NEW u, u = SetImmediateFinalize(t, n, contract)
  PROVE  /\ u.validators = t.validators
         /\ u.validators_sealed = t.validators_sealed
         /\ u.headers = t.headers
         /\ u.pending_transitions = t.pending_transitions
         /\ u.finalize_change_at.at = n
         /\ u.finalize_change_at.address = contract
<1> DEFINE at == [at |-> n, address |-> contract]
<1>1. u = [t EXCEPT !.finalize_change_at = at]
  BY Zenon DEF SetImmediateFinalize
<1>2. at.at = n /\ at.address = contract OBVIOUS
<1> HIDE DEF at
<1> QED BY <1>1, <1>2 DEF IsTracker

\* add_pending_transition only adds the block.
LEMMA AddPendingTransitionFields ==
  ASSUME NEW A, NEW C, NEW t, IsTracker(t, A, C), NEW n, NEW contract,
         NEW u, u = AddPendingTransition(t, n, contract)
  PROVE  /\ u.validators = t.validators
         /\ u.validators_sealed = t.validators_sealed
         /\ u.headers = t.headers
         /\ u.finalize_change_at = t.finalize_change_at
         /\ DOMAIN u.pending_transitions = DOMAIN t.pending_transitions \cup {n}
         /\ u.pending_transitions[n] = contract
         /\ \A b \in DOMAIN t.pending_transitions :
              b # n => u.pending_transitions[b] = t.pending_transitions[b]
<1> DEFINE pt == [b \in DOMAIN t.pending_transitions \cup {n} |->
                    IF b = n THEN contract ELSE t.pending_transitions[b]]
<1>1. u = [t EXCEPT !.pending_transitions = pt]
  BY Zenon DEF AddPendingTransition
<1>2. /\ DOMAIN pt = DOMAIN t.pending_transitions \cup {n}
      /\ pt[n] = contract
      /\ \A b \in DOMAIN t.pending_transitions : b # n => pt[b] = t.pending_transitions[b]
  OBVIOUS
<1> HIDE DEF pt
<1> QED BY <1>1, <1>2 DEF IsTracker
=============================================================================

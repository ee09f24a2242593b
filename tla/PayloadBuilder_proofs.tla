------------------------ MODULE PayloadBuilder_proofs ------------------------
(***************************************************************************)
(* Safety of executing and of building blocks, for any chain, any set of   *)
(* transactions and any behaviour of the contracts: what a system call may *)
(* not touch, where the money of the chain goes, what the reward contract  *)
(* has on record, and that the payload builder agrees with the executor it *)
(* drives.                                                                 *)
(*                                                                         *)
(* A sum or a fold is a recursive function that CHOOSE picks: first that   *)
(* there is one, then what it is, by way of a smallest counterexample.     *)
(***************************************************************************)
EXTENDS PayloadBuilder, FiniteSetTheorems, WellFoundedInduction, TLAPS

(***************************************************************************)
(* Numbers.                                                                *)
(***************************************************************************)
\* A non-empty set of numbers has a least element.
LEMMA LeastNumber ==
  ASSUME NEW T \in SUBSET Nat, T # {}
  PROVE  \E x \in T : \A y \in T : x <= y
<1> DEFINE R == {ss \in Nat \X Nat : ss[1] < ss[2]}
<1>1. IsWellFoundedOn(R, Nat)
  BY NatLessThanWellFounded DEF OpToRel
<1>2. PICK x \in T : \A y \in T : ~(<<y, x>> \in R)
  <2> HIDE DEF R
  <2> QED BY <1>1, WFMin
<1>3. ASSUME NEW y \in T PROVE x <= y
  <2>1. <<y, x>> \notin R BY <1>2
  <2>2. <<y, x>> \in Nat \X Nat OBVIOUS
  <2> QED BY <2>1, <2>2
<1> QED BY <1>3

\* A non-empty bounded set of numbers has a greatest element.
LEMMA GreatestNumber ==
  ASSUME NEW S \in SUBSET Nat, S # {}, NEW n \in Nat, \A i \in S : i <= n
  PROVE  \E x \in S : \A y \in S : y <= x
<1> DEFINE T == {n - i : i \in S}
<1>1. T \in SUBSET Nat /\ T # {}
  <2>1. \A i \in S : n - i \in Nat OBVIOUS
  <2>2. T \subseteq Nat BY <2>1
  <2>3. PICK i \in S : TRUE OBVIOUS
  <2>4. n - i \in T BY <2>3
  <2> QED BY <2>2, <2>4
<1>2. PICK d \in T : \A e \in T : d <= e
  <2> HIDE DEF T
  <2> QED BY <1>1, LeastNumber
<1>3. PICK x \in S : d = n - x BY <1>2
<1>4. ASSUME NEW y \in S PROVE y <= x
  <2>1. n - y \in T OBVIOUS
  <2>2. n - x <= n - y BY <1>2, <1>3, <2>1
  <2> QED BY <2>2
<1> QED BY <1>4

(***************************************************************************)
(* Sums over a finite set.                                                 *)
(***************************************************************************)
Choice(s) == CHOOSE x \in s : TRUE

SumOf(f, S) == MapThenSumSet(LAMBDA a : f[a], S)

\* it has the sum of f over every subset of S
SumsTo(f, it, S) ==
  it = [s \in SUBSET S |-> IF s = {} THEN 0 ELSE f[Choice(s)] + it[s \ {Choice(s)}]]

\* The sum of the community modules is such a function at S.
LEMMA SumUnfolds ==
  ASSUME NEW f, NEW S
  PROVE  SumOf(f, S) = (CHOOSE it : SumsTo(f, it, S))[S]
BY DEF SumOf, MapThenSumSet, MapThenFoldSet, SumsTo, Choice

\* Taking the chosen element away leaves a smaller set.
LEMMA ChoiceLeaves ==
  ASSUME NEW S, IsFiniteSet(S), NEW s \in SUBSET S, s # {}
  PROVE  /\ Choice(s) \in s /\ s \ {Choice(s)} \in SUBSET S
         /\ IsFiniteSet(s) /\ Cardinality(s) \in Nat
         /\ Cardinality(s \ {Choice(s)}) = Cardinality(s) - 1
<1>1. Choice(s) \in s
  <2>1. \E x \in s : TRUE
    OBVIOUS
  <2> QED BY <2>1 DEF Choice
<1>2. IsFiniteSet(s)
  BY FS_Subset
<1>3. Cardinality(s) \in Nat
  BY <1>2, FS_CardinalityType
<1>4. Cardinality(s \ {Choice(s)}) = Cardinality(s) - 1
  BY <1>1, <1>2, FS_RemoveElement
<1> QED BY <1>1, <1>2, <1>3, <1>4

\* The recursion is well founded: a smaller subset comes first.
LEMMA SumsExist ==
  ASSUME NEW f, NEW S, IsFiniteSet(S)
  PROVE  \E it : SumsTo(f, it, S)
<1> DEFINE Sub(n)   == {s \in SUBSET S : Cardinality(s) <= n}
           Step(it, s) == IF s = {} THEN 0 ELSE f[Choice(s)] + it[s \ {Choice(s)}]
           P(n)     == \E it : it = [s \in Sub(n) |-> Step(it, s)]
           T        == {n \in Nat : ~P(n)}
<1>1. P(0)
  <2> DEFINE it == [s \in Sub(0) |-> 0]
  <2>1. ASSUME NEW s \in Sub(0) PROVE Step(it, s) = 0
    <3>1. s = {}
      <4>1. s \in SUBSET S /\ Cardinality(s) <= 0
        OBVIOUS
      <4>2. IsFiniteSet(s)
        BY <4>1, FS_Subset
      <4>3. Cardinality(s) = 0
        BY <4>1, <4>2, FS_CardinalityType
      <4> QED BY <4>2, <4>3, FS_EmptySet
    <3> QED BY <3>1
  <2>2. it = [s \in Sub(0) |-> Step(it, s)]
    <3> HIDE DEF Step, Sub
    <3> QED BY <2>1
  <2> QED BY <2>2
<1>2. ASSUME NEW n \in Nat, P(n) PROVE P(n + 1)
  <2>1. PICK it : it = [s \in Sub(n) |-> Step(it, s)]
    BY <1>2
  <2> DEFINE it2 == [s \in Sub(n + 1) |-> Step(it, s)]
  <2>2. ASSUME NEW s \in Sub(n) PROVE it2[s] = it[s]
    <3>1. s \in Sub(n + 1)
      <4>1. Cardinality(s) \in Nat
        BY FS_Subset, FS_CardinalityType
      <4> QED BY <4>1
    <3> HIDE DEF Step, Sub
    <3> QED BY <2>1, <3>1
  <2>3. ASSUME NEW s \in Sub(n + 1) PROVE Step(it, s) = Step(it2, s)
    <3>1. CASE s = {}
      BY <3>1
    <3>2. CASE s # {}
      <4>1. s \ {Choice(s)} \in Sub(n)
        <5>1. s \in SUBSET S /\ Cardinality(s) <= n + 1
          OBVIOUS
        <5> QED BY <3>2, <5>1, ChoiceLeaves
      <4>2. it2[s \ {Choice(s)}] = it[s \ {Choice(s)}]
        BY <2>2, <4>1
      <4> HIDE DEF it2
      <4> QED BY <4>2
    <3> QED BY <3>1, <3>2
  <2>4. it2 = [s \in Sub(n + 1) |-> Step(it2, s)]
    <3>1. \A s \in Sub(n + 1) : Step(it, s) = Step(it2, s)
      BY <2>3
    <3> HIDE DEF Step, Sub
    <3> QED BY <3>1
  <2> QED BY <2>4
<1>3. \A n \in Nat : P(n)
  <2> HIDE DEF P
  <2> SUFFICES ASSUME T # {} PROVE FALSE
    OBVIOUS
  <2>1. PICK m \in T : \A k \in T : m <= k
    <3>1. T \in SUBSET Nat
      OBVIOUS
    <3> HIDE DEF T
    <3> QED BY <3>1, LeastNumber
  <2>2. m # 0
    BY <1>1
  <2>3. m - 1 \in Nat /\ m - 1 \notin T /\ (m - 1) + 1 = m
    BY <2>1, <2>2
  <2>4. P(m - 1) => P((m - 1) + 1)
    BY <1>2, <2>3
  <2> QED BY <2>3, <2>4
<1>4. Cardinality(S) \in Nat
  BY FS_CardinalityType
<1>5. Sub(Cardinality(S)) = SUBSET S
  BY FS_Subset
<1>6. PICK it : it = [s \in Sub(Cardinality(S)) |-> Step(it, s)]
  BY <1>3, <1>4
<1>7. it = [s \in SUBSET S |-> Step(it, s)]
  <2> HIDE DEF Step, Sub
  <2> QED BY <1>5, <1>6
<1> QED BY <1>7 DEF SumsTo

\* What holds of {} and, when it holds without the choice, of any subset, holds
\* of every subset: there is no smallest counterexample.
LEMMA NoCounterexample ==
  ASSUME NEW S, IsFiniteSet(S), NEW T \in SUBSET (SUBSET S),
         {} \notin T, \A s \in T : s \ {Choice(s)} \in T
  PROVE  T = {}
<1> SUFFICES ASSUME T # {} PROVE FALSE
  OBVIOUS
<1> DEFINE sizes == {Cardinality(s) : s \in T}
<1>1. sizes \in SUBSET Nat /\ sizes # {}
  <2>1. \A s \in T : Cardinality(s) \in Nat
    BY FS_Subset, FS_CardinalityType
  <2> QED BY <2>1
<1>2. PICK m \in sizes : \A k \in sizes : m <= k
  <2> HIDE DEF sizes
  <2> QED BY <1>1, LeastNumber
<1>3. PICK s \in T : m = Cardinality(s)
  BY <1>2
<1>4. s # {} /\ s \in SUBSET S
  BY <1>3
<1>5. Cardinality(s \ {Choice(s)}) = Cardinality(s) - 1 /\ Cardinality(s) \in Nat
  BY <1>4, ChoiceLeaves
<1>6. Cardinality(s) - 1 \in sizes
  BY <1>3, <1>5
<1> QED BY <1>2, <1>3, <1>5, <1>6

\* it has the sums of f, which are integers, over all subsets
IsSums(it, f, S) ==
  /\ it[{}] = 0
  /\ \A s \in SUBSET S : it[s] \in Int
  /\ \A s \in SUBSET S : s # {} => it[s] = f[Choice(s)] + it[s \ {Choice(s)}]

\* A sum is one of the sums over all subsets.
LEMMA PartSums ==
  ASSUME NEW S, IsFiniteSet(S), NEW f, \A a \in S : f[a] \in Int
  PROVE  \E it : SumOf(f, S) = it[S] /\ IsSums(it, f, S)
<1> DEFINE it == CHOOSE it : SumsTo(f, it, S)
<1>1. SumsTo(f, it, S)
  BY SumsExist
<1>2. SumOf(f, S) = it[S]
  BY SumUnfolds
<1> HIDE DEF it
<1>3. it[{}] = 0 /\ \A s \in SUBSET S : s # {} => it[s] = f[Choice(s)] + it[s \ {Choice(s)}]
  BY <1>1 DEF SumsTo
<1> DEFINE T == {s \in SUBSET S : it[s] \notin Int}
<1>4. {} \notin T
  BY <1>3
<1>5. \A s \in T : s \ {Choice(s)} \in T
  <2> SUFFICES ASSUME NEW s \in T PROVE s \ {Choice(s)} \in T
    OBVIOUS
  <2>1. s \in SUBSET S /\ it[s] \notin Int
    OBVIOUS
  <2>2. s # {}
    BY <1>4
  <2>3. Choice(s) \in S /\ s \ {Choice(s)} \in SUBSET S
    BY <2>1, <2>2, ChoiceLeaves
  <2>4. it[s] = f[Choice(s)] + it[s \ {Choice(s)}]
    BY <1>3, <2>1, <2>2
  <2> QED BY <2>1, <2>3, <2>4
<1>6. T = {}
  <2>1. T \in SUBSET (SUBSET S)
    OBVIOUS
  <2> HIDE DEF T
  <2> QED BY <1>4, <1>5, <2>1, NoCounterexample
<1>7. \A s \in SUBSET S : it[s] \in Int
  BY <1>6
<1> QED BY <1>2, <1>3, <1>7 DEF IsSums

\* Sums of integers are integers, and of naturals naturals.
LEMMA SumInt ==
  ASSUME NEW S, IsFiniteSet(S), NEW f, \A a \in S : f[a] \in Int
  PROVE  SumOf(f, S) \in Int
<1>1. PICK it : SumOf(f, S) = it[S] /\ IsSums(it, f, S)
  BY PartSums
<1>2. it[S] \in Int
  BY <1>1 DEF IsSums
<1> QED BY <1>1, <1>2

LEMMA SumNat ==
  ASSUME NEW S, IsFiniteSet(S), NEW f, \A a \in S : f[a] \in Nat
  PROVE  SumOf(f, S) \in Nat
<1>0. \A a \in S : f[a] \in Int
  OBVIOUS
<1>1. PICK it : SumOf(f, S) = it[S] /\ IsSums(it, f, S)
  BY <1>0, PartSums
<1> DEFINE T == {s \in SUBSET S : it[s] \notin Nat}
<1>2. {} \notin T
  BY <1>1 DEF IsSums
<1>3. \A s \in T : s \ {Choice(s)} \in T
  <2> SUFFICES ASSUME NEW s \in T PROVE s \ {Choice(s)} \in T
    OBVIOUS
  <2>1. s \in SUBSET S /\ it[s] \notin Nat
    OBVIOUS
  <2>2. s # {}
    BY <1>2
  <2>3. Choice(s) \in S /\ s \ {Choice(s)} \in SUBSET S
    BY <2>1, <2>2, ChoiceLeaves
  <2>4. it[s] = f[Choice(s)] + it[s \ {Choice(s)}]
    BY <1>1, <2>1, <2>2 DEF IsSums
  <2> QED BY <2>1, <2>3, <2>4
<1>4. T = {}
  <2>1. T \in SUBSET (SUBSET S)
    OBVIOUS
  <2> HIDE DEF T
  <2> QED BY <1>2, <1>3, <2>1, NoCounterexample
<1>5. it[S] \in Nat
  BY <1>4
<1> QED BY <1>1, <1>5

\* The sum of sums.
LEMMA SumAdds ==
  ASSUME NEW S, IsFiniteSet(S), NEW f, NEW g, NEW h,
         \A a \in S : f[a] \in Int /\ g[a] \in Int /\ h[a] = f[a] + g[a]
  PROVE  SumOf(h, S) = SumOf(f, S) + SumOf(g, S)
<1>0. \A a \in S : f[a] \in Int /\ g[a] \in Int /\ h[a] \in Int
  OBVIOUS
<1>1. PICK fs : SumOf(f, S) = fs[S] /\ IsSums(fs, f, S)
  BY <1>0, PartSums
<1>2. PICK gs : SumOf(g, S) = gs[S] /\ IsSums(gs, g, S)
  BY <1>0, PartSums
<1>3. PICK hs : SumOf(h, S) = hs[S] /\ IsSums(hs, h, S)
  BY <1>0, PartSums
<1> DEFINE T == {s \in SUBSET S : hs[s] # fs[s] + gs[s]}
<1>4. {} \notin T
  BY <1>1, <1>2, <1>3 DEF IsSums
<1>5. \A s \in T : s \ {Choice(s)} \in T
  <2> SUFFICES ASSUME NEW s \in T PROVE s \ {Choice(s)} \in T
    OBVIOUS
  <2>1. s \in SUBSET S /\ hs[s] # fs[s] + gs[s]
    OBVIOUS
  <2>2. s # {}
    BY <1>4
  <2> DEFINE a == Choice(s)
             r == s \ {a}
  <2>3. a \in S /\ r \in SUBSET S
    BY <2>1, <2>2, ChoiceLeaves
  <2>4. fs[s] = f[a] + fs[r] /\ gs[s] = g[a] + gs[r] /\ hs[s] = h[a] + hs[r]
    BY <1>1, <1>2, <1>3, <2>1, <2>2 DEF IsSums
  <2>5. /\ f[a] \in Int /\ g[a] \in Int /\ h[a] = f[a] + g[a]
        /\ fs[r] \in Int /\ gs[r] \in Int /\ hs[r] \in Int
    BY <1>1, <1>2, <1>3, <2>3 DEF IsSums
  <2>6. hs[r] # fs[r] + gs[r]
    <3> HIDE DEF a, r
    <3> QED BY <2>1, <2>4, <2>5
  <2> QED BY <2>3, <2>6
<1>6. T = {}
  <2>1. T \in SUBSET (SUBSET S)
    OBVIOUS
  <2> HIDE DEF T
  <2> QED BY <1>4, <1>5, <2>1, NoCounterexample
<1>7. hs[S] = fs[S] + gs[S]
  BY <1>6
<1> QED BY <1>1, <1>2, <1>3, <1>7

\* The sum of what is zero but at one place.
LEMMA SumSingle ==
  ASSUME NEW S, IsFiniteSet(S), NEW a \in S, NEW f, f[a] \in Int,
         \A x \in S : x # a => f[x] = 0
  PROVE  SumOf(f, S) = f[a]
<1>0. \A x \in S : f[x] \in Int
  OBVIOUS
<1>1. PICK it : SumOf(f, S) = it[S] /\ IsSums(it, f, S)
  BY <1>0, PartSums
<1> DEFINE T == {s \in SUBSET S : it[s] # IF a \in s THEN f[a] ELSE 0}
<1>2. {} \notin T
  BY <1>1 DEF IsSums
<1>3. \A s \in T : s \ {Choice(s)} \in T
  <2> SUFFICES ASSUME NEW s \in T PROVE s \ {Choice(s)} \in T
    OBVIOUS
  <2>1. s \in SUBSET S /\ it[s] # IF a \in s THEN f[a] ELSE 0
    OBVIOUS
  <2>2. s # {}
    BY <1>2
  <2> DEFINE c == Choice(s)
             r == s \ {c}
  <2>3. c \in s /\ c \in S /\ r \in SUBSET S
    BY <2>1, <2>2, ChoiceLeaves
  <2>4. it[s] = f[c] + it[r] /\ it[r] \in Int
    BY <1>1, <2>1, <2>2, <2>3 DEF IsSums
  <2>5. CASE c = a
    <3>1. a \in s /\ a \notin r
      BY <2>3, <2>5
    <3>2. it[r] # 0
      <4> HIDE DEF c, r
      <4> QED BY <2>1, <2>4, <2>5, <3>1
    <3> QED BY <2>3, <3>1, <3>2
  <2>6. CASE c # a
    <3>1. a \in s <=> a \in r
      BY <2>6
    <3>2. f[c] = 0
      BY <2>3, <2>6
    <3>3. it[s] = it[r]
      <4> HIDE DEF c, r
      <4> QED BY <2>4, <3>2
    <3> QED BY <2>1, <2>3, <3>1, <3>3
  <2> QED BY <2>5, <2>6
<1>4. T = {}
  <2>1. T \in SUBSET (SUBSET S)
    OBVIOUS
  <2> HIDE DEF T
  <2> QED BY <1>2, <1>3, <2>1, NoCounterexample
<1>5. it[S] = f[a]
  BY <1>4
<1> QED BY <1>1, <1>5

\* The sum of nothing but zeros.
LEMMA SumZero ==
  ASSUME NEW S, IsFiniteSet(S), NEW f, \A a \in S : f[a] = 0
  PROVE  SumOf(f, S) = 0
<1>1. SumOf(f, S) = SumOf(f, S) + SumOf(f, S)
  BY SumAdds
<1>2. SumOf(f, S) \in Int
  BY SumInt
<1>3. \A x \in Int : x = x + x => x = 0
  OBVIOUS
<1> QED BY <1>1, <1>2, <1>3

\* A change at one place changes the sum by as much.
LEMMA SumChanges ==
  ASSUME NEW S, IsFiniteSet(S), NEW a \in S, NEW f, NEW g,
         \A x \in S : f[x] \in Int, g[a] \in Int,
         \A x \in S : x # a => g[x] = f[x]
  PROVE  SumOf(g, S) = SumOf(f, S) + (g[a] - f[a])
<1> DEFINE d == [x \in S |-> IF x = a THEN g[a] - f[a] ELSE 0]
<1>1. d[a] = g[a] - f[a] /\ d[a] \in Int /\ \A x \in S : x # a => d[x] = 0
  OBVIOUS
<1>2. \A x \in S : f[x] \in Int /\ d[x] \in Int /\ g[x] = f[x] + d[x]
  OBVIOUS
<1> HIDE DEF d
<1>3. SumOf(d, S) = d[a]
  BY <1>1, SumSingle
<1>4. SumOf(g, S) = SumOf(f, S) + SumOf(d, S)
  BY <1>2, SumAdds
<1> QED BY <1>1, <1>3, <1>4

\* Sums are of values.
LEMMA SumSame ==
  ASSUME NEW S, IsFiniteSet(S), NEW f, NEW g, \A x \in S : f[x] \in Int /\ g[x] = f[x]
  PROVE  SumOf(g, S) = SumOf(f, S)
<1> DEFINE z == [x \in S |-> 0]
<1>1. SumOf(z, S) = 0
  <2>1. \A x \in S : z[x] = 0
    OBVIOUS
  <2> HIDE DEF z
  <2> QED BY <2>1, SumZero
<1>2. SumOf(g, S) = SumOf(f, S) + SumOf(z, S)
  <2>1. \A x \in S : f[x] \in Int /\ z[x] \in Int /\ g[x] = f[x] + z[x]
    OBVIOUS
  <2> HIDE DEF z
  <2> QED BY <2>1, SumAdds
<1>3. SumOf(f, S) \in Int
  BY SumInt
<1> QED BY <1>1, <1>2, <1>3

(***************************************************************************)
(* Folds over a sequence: a block's transactions, committed or summed up.  *)
(***************************************************************************)
Commit == [of |-> "commit"]

Sum(amount, fork) == [of |-> amount, fork |-> fork]

\* what the k-th kind of fold does with the next transaction
Folded(k, x, tx) ==
  IF k.of = "commit" THEN CommitTransaction(x, tx)
  ELSE IF k.of = "burnt" THEN x + BurntBy(k.fork, tx)
  ELSE x + UnpaidBy(k.fork, tx)

\* it has the fold over every choice of the first n transactions
FoldsTo(k, base, it, seq, n) ==
  it = [s \in SUBSET (1..n) |->
          IF s = {} THEN base ELSE Folded(k, it[s \ {Max(s)}], seq[Max(s)])]

IsFold(k, base, seq, result) ==
  \E it : FoldsTo(k, base, it, seq, Len(seq)) /\ result = it[1..Len(seq)]

\* The greatest number of a set.
LEMMA MaxIs ==
  ASSUME NEW n \in Nat, NEW S \in SUBSET (0..n), S # {}
  PROVE  Max(S) \in S /\ \A y \in S : y <= Max(S)
<1>1. PICK x \in S : \A y \in S : y <= x
  <2>1. S \in SUBSET Nat /\ \A y \in S : y <= n
    OBVIOUS
  <2> QED BY <2>1, GreatestNumber
<1>2. \E m \in S : \A y \in S : m >= y
  BY <1>1
<1> QED BY <1>2 DEF Max

\* Again the recursion is well founded: the greatest index goes last.
LEMMA FoldsExist ==
  ASSUME NEW k, NEW base, NEW seq, NEW n \in Nat
  PROVE  \E it : FoldsTo(k, base, it, seq, n)
<1> DEFINE Step(it, s) == IF s = {} THEN base ELSE Folded(k, it[s \ {Max(s)}], seq[Max(s)])
           P(m) == \E it : it = [s \in SUBSET (1..m) |-> Step(it, s)]
           T == {m \in Nat : ~P(m)}
<1>1. P(0)
  <2> DEFINE it == [s \in SUBSET (1..0) |-> base]
  <2>1. \A s \in SUBSET (1..0) : s = {}
    OBVIOUS
  <2>2. \A s \in SUBSET (1..0) : Step(it, s) = base
    BY <2>1
  <2>3. it = [s \in SUBSET (1..0) |-> Step(it, s)]
    <3> HIDE DEF Step
    <3> QED BY <2>2
  <2> QED BY <2>3
<1>2. ASSUME NEW m \in Nat, P(m) PROVE P(m + 1)
  <2>1. PICK it : it = [s \in SUBSET (1..m) |-> Step(it, s)]
    BY <1>2
  <2> DEFINE it2 == [s \in SUBSET (1..(m + 1)) |-> Step(it, s)]
  <2>2. ASSUME NEW s \in SUBSET (1..m) PROVE it2[s] = it[s]
    <3>1. s \in SUBSET (1..(m + 1))
      OBVIOUS
    <3> HIDE DEF Step
    <3> QED BY <2>1, <3>1
  <2>3. ASSUME NEW s \in SUBSET (1..(m + 1)) PROVE Step(it, s) = Step(it2, s)
    <3>1. CASE s = {}
      BY <3>1
    <3>2. CASE s # {}
      <4>1. Max(s) \in s /\ \A y \in s : y <= Max(s)
        <5>1. s \in SUBSET (0..(m + 1)) /\ m + 1 \in Nat
          OBVIOUS
        <5> QED BY <3>2, <5>1, MaxIs
      <4>2. s \ {Max(s)} \in SUBSET (1..m)
        <5> SUFFICES ASSUME NEW y \in s, y # Max(s) PROVE y \in 1..m
          OBVIOUS
        <5>1. y \in 1..(m + 1) /\ Max(s) \in 1..(m + 1) /\ y <= Max(s)
          BY <4>1
        <5> QED BY <5>1
      <4>3. it2[s \ {Max(s)}] = it[s \ {Max(s)}]
        BY <2>2, <4>2
      <4> HIDE DEF it2
      <4> QED BY <4>3
    <3> QED BY <3>1, <3>2
  <2>4. it2 = [s \in SUBSET (1..(m + 1)) |-> Step(it2, s)]
    <3>1. \A s \in SUBSET (1..(m + 1)) : Step(it, s) = Step(it2, s)
      BY <2>3
    <3> HIDE DEF Step
    <3> QED BY <3>1
  <2> QED BY <2>4
<1>3. \A m \in Nat : P(m)
  <2> HIDE DEF P
  <2> SUFFICES ASSUME T # {} PROVE FALSE
    OBVIOUS
  <2>1. PICK m \in T : \A i \in T : m <= i
    <3>1. T \in SUBSET Nat
      OBVIOUS
    <3> HIDE DEF T
    <3> QED BY <3>1, LeastNumber
  <2>2. m # 0
    BY <1>1
  <2>3. m - 1 \in Nat /\ m - 1 \notin T /\ (m - 1) + 1 = m
    BY <2>1, <2>2
  <2>4. P(m - 1) => P((m - 1) + 1)
    BY <1>2, <2>3
  <2> QED BY <2>3, <2>4
<1>4. PICK it : it = [s \in SUBSET (1..n) |-> Step(it, s)]
  BY <1>3
<1> QED BY <1>4 DEF FoldsTo

\* The fold over the first i of them is that over one less, and the i-th.
LEMMA FoldsStep ==
  ASSUME NEW k, NEW base, NEW it, NEW seq, NEW n \in Nat, FoldsTo(k, base, it, seq, n)
  PROVE  /\ it[{}] = base
         /\ \A i \in 1..n : it[1..i] = Folded(k, it[1..(i - 1)], seq[i])
<1>1. it[{}] = base
  BY DEF FoldsTo
<1>2. ASSUME NEW i \in 1..n PROVE it[1..i] = Folded(k, it[1..(i - 1)], seq[i])
  <2>1. 1..i \in SUBSET (1..n) /\ 1..i # {} /\ i \in 1..i
    OBVIOUS
  <2>2. Max(1..i) = i
    <3>1. 1..i \in SUBSET (0..i) /\ i \in Nat
      OBVIOUS
    <3>2. Max(1..i) \in 1..i /\ i <= Max(1..i)
      BY <2>1, <3>1, MaxIs
    <3> QED BY <3>2
  <2>3. (1..i) \ {i} = 1..(i - 1)
    OBVIOUS
  <2>4. it[1..i] = Folded(k, it[(1..i) \ {Max(1..i)}], seq[Max(1..i)])
    BY <2>1 DEF FoldsTo
  <2> QED BY <2>2, <2>3, <2>4
<1> QED BY <1>1, <1>2

\* No transaction, no change.
LEMMA FoldEmpty ==
  ASSUME NEW k, NEW base, NEW result, IsFold(k, base, <<>>, result)
  PROVE  result = base
<1>1. PICK it : FoldsTo(k, base, it, <<>>, 0) /\ result = it[1..0]
  BY DEF IsFold
<1>2. 1..0 = {}
  OBVIOUS
<1> QED BY <1>1, <1>2, FoldsStep

\* One more transaction, one more step.
LEMMA FoldAppend ==
  ASSUME NEW k, NEW base, NEW S, NEW seq \in Seq(S), NEW x \in S,
         NEW before, IsFold(k, base, seq, before),
         NEW after, IsFold(k, base, Append(seq, x), after)
  PROVE  after = Folded(k, before, x)
<1> DEFINE n == Len(seq)
           longer == Append(seq, x)
<1>1. n \in Nat /\ Len(longer) = n + 1 /\ longer[n + 1] = x /\ \A i \in 1..n : longer[i] = seq[i]
  OBVIOUS
<1>2. PICK f : FoldsTo(k, base, f, seq, n) /\ before = f[1..n]
  BY DEF IsFold
<1>3. PICK g : FoldsTo(k, base, g, longer, n + 1) /\ after = g[1..(n + 1)]
  BY <1>1 DEF IsFold
<1> HIDE DEF longer, n
<1>4. /\ f[{}] = base
      /\ \A i \in 1..n : f[1..i] = Folded(k, f[1..(i - 1)], seq[i])
  BY <1>1, <1>2, FoldsStep
<1>5. /\ g[{}] = base
      /\ \A i \in 1..(n + 1) : g[1..i] = Folded(k, g[1..(i - 1)], longer[i])
  <2>1. n + 1 \in Nat
    BY <1>1
  <2> QED BY <1>3, <2>1, FoldsStep
<1> DEFINE T == {i \in 0..n : f[1..i] # g[1..i]}
<1>6. T = {}
  <2> SUFFICES ASSUME T # {} PROVE FALSE
    OBVIOUS
  <2>1. PICK i \in T : \A j \in T : i <= j
    <3>1. T \in SUBSET Nat
      BY <1>1
    <3> HIDE DEF T
    <3> QED BY <3>1, LeastNumber
  <2>2. i \in 0..n /\ f[1..i] # g[1..i]
    BY <2>1
  <2>3. i # 0
    <3>1. 1..0 = {}
      OBVIOUS
    <3> QED BY <1>4, <1>5, <2>2, <3>1
  <2>4. i - 1 \in 0..n /\ i - 1 \notin T /\ i \in 1..n /\ i \in 1..(n + 1)
    BY <1>1, <2>1, <2>2, <2>3
  <2>5. f[1..(i - 1)] = g[1..(i - 1)]
    BY <2>4
  <2> QED BY <1>1, <1>4, <1>5, <2>2, <2>4, <2>5
<1>7. g[1..(n + 1)] = Folded(k, g[1..n], x)
  <2>1. n + 1 \in 1..(n + 1) /\ (n + 1) - 1 = n
    BY <1>1
  <2> QED BY <1>1, <1>5, <2>1
<1>8. f[1..n] = g[1..n]
  <2>1. n \in 0..n
    BY <1>1
  <2> QED BY <1>6, <2>1
<1> QED BY <1>2, <1>3, <1>7, <1>8

\* The folds of the module.
LEMMA CommitFolds ==
  ASSUME NEW base, NEW S, NEW seq \in Seq(S)
  PROVE  IsFold(Commit, base, seq, FoldLeft(CommitTransaction, base, seq))
<1> DEFINE Step(it, s) ==
             IF s = {} THEN base ELSE CommitTransaction(it[s \ {Max(s)}], seq[Max(s)])
           n == Len(seq)
<1>1. n \in Nat /\ DOMAIN seq = 1..n
  OBVIOUS
<1>2. FoldLeft(CommitTransaction, base, seq) =
        (CHOOSE it : it = [s \in SUBSET DOMAIN seq |-> Step(it, s)])[DOMAIN seq]
  BY DEF FoldLeft, MapThenFoldSet
<1>3. \A it, s : Step(it, s) =
        IF s = {} THEN base ELSE Folded(Commit, it[s \ {Max(s)}], seq[Max(s)])
  BY DEF Folded, Commit
<1>4. PICK it : FoldsTo(Commit, base, it, seq, n)
  BY <1>1, FoldsExist
<1>5. it = [s \in SUBSET DOMAIN seq |-> Step(it, s)]
  <2> HIDE DEF Step
  <2> QED BY <1>1, <1>3, <1>4 DEF FoldsTo
<1> DEFINE result == CHOOSE r : r = [s \in SUBSET DOMAIN seq |-> Step(r, s)]
<1>6. result = [s \in SUBSET DOMAIN seq |-> Step(result, s)]
  <2> HIDE DEF Step
  <2> QED BY <1>5
<1>7. FoldLeft(CommitTransaction, base, seq) = result[1..n]
  <2> HIDE DEF Step
  <2> QED BY <1>1, <1>2
<1> HIDE DEF result
<1>8. FoldsTo(Commit, base, result, seq, n)
  <2> HIDE DEF Step
  <2> QED BY <1>1, <1>3, <1>6 DEF FoldsTo
<1> QED BY <1>7, <1>8 DEF IsFold

\* The sums over the transactions of a block are folds.
LEMMA SumFolds ==
  ASSUME NEW b, NEW S, b.txs \in Seq(S)
  PROVE  /\ IsFold(Sum("burnt", b.fork), 0, b.txs, SumOver(BurntBy, b))
         /\ IsFold(Sum("unpaid", b.fork), 0, b.txs, SumOver(UnpaidBy, b))
<1> DEFINE seq == b.txs
           n == Len(seq)
<1>1. n \in Nat /\ DOMAIN seq = 1..n
  OBVIOUS
<1>2. IsFold(Sum("burnt", b.fork), 0, seq, SumOver(BurntBy, b))
  <2> DEFINE Step(it, s) ==
               IF s = {} THEN 0 ELSE it[s \ {Max(s)}] + BurntBy(b.fork, seq[Max(s)])
             kind == Sum("burnt", b.fork)
  <2>1. SumOver(BurntBy, b) =
          (CHOOSE it : it = [s \in SUBSET DOMAIN seq |-> Step(it, s)])[DOMAIN seq]
    BY DEF SumOver, FoldLeft, MapThenFoldSet
  <2>2. \A it, s : Step(it, s) =
          IF s = {} THEN 0 ELSE Folded(kind, it[s \ {Max(s)}], seq[Max(s)])
    BY DEF Folded, Sum
  <2>3. PICK it : FoldsTo(kind, 0, it, seq, n)
    <3> HIDE DEF kind
    <3> QED BY <1>1, FoldsExist
  <2> DEFINE result == CHOOSE r : r = [s \in SUBSET DOMAIN seq |-> Step(r, s)]
  <2> HIDE DEF Step, kind
  <2>4. it = [s \in SUBSET DOMAIN seq |-> Step(it, s)]
    BY <1>1, <2>2, <2>3 DEF FoldsTo
  <2>5. result = [s \in SUBSET DOMAIN seq |-> Step(result, s)]
    BY <2>4
  <2>6. SumOver(BurntBy, b) = result[1..n]
    BY <1>1, <2>1
  <2> HIDE DEF result
  <2>7. FoldsTo(kind, 0, result, seq, n)
    BY <1>1, <2>2, <2>5 DEF FoldsTo
  <2> QED BY <2>6, <2>7 DEF IsFold, kind
<1>3. IsFold(Sum("unpaid", b.fork), 0, seq, SumOver(UnpaidBy, b))
  <2> DEFINE Step(it, s) ==
               IF s = {} THEN 0 ELSE it[s \ {Max(s)}] + UnpaidBy(b.fork, seq[Max(s)])
             kind == Sum("unpaid", b.fork)
  <2>1. SumOver(UnpaidBy, b) =
          (CHOOSE it : it = [s \in SUBSET DOMAIN seq |-> Step(it, s)])[DOMAIN seq]
    BY DEF SumOver, FoldLeft, MapThenFoldSet
  <2>2. \A it, s : Step(it, s) =
          IF s = {} THEN 0 ELSE Folded(kind, it[s \ {Max(s)}], seq[Max(s)])
    BY DEF Folded, Sum
  <2>3. PICK it : FoldsTo(kind, 0, it, seq, n)
    <3> HIDE DEF kind
    <3> QED BY <1>1, FoldsExist
  <2> DEFINE result == CHOOSE r : r = [s \in SUBSET DOMAIN seq |-> Step(r, s)]
  <2> HIDE DEF Step, kind
  <2>4. it = [s \in SUBSET DOMAIN seq |-> Step(it, s)]
    BY <1>1, <2>2, <2>3 DEF FoldsTo
  <2>5. result = [s \in SUBSET DOMAIN seq |-> Step(result, s)]
    BY <2>4
  <2>6. SumOver(UnpaidBy, b) = result[1..n]
    BY <1>1, <2>1
  <2> HIDE DEF result
  <2>7. FoldsTo(kind, 0, result, seq, n)
    BY <1>1, <2>2, <2>5 DEF FoldsTo
  <2> QED BY <2>6, <2>7 DEF IsFold, kind
<1> QED BY <1>2, <1>3

Burnt(b) == SumOver(BurntBy, b)

Unpaid(b) == SumOver(UnpaidBy, b)

\* Blob fees burnt and base fees unpaid, transaction by transaction.
LEMMA SumOverEmpty ==
  ASSUME NEW b, b.txs = <<>>
  PROVE  Burnt(b) = 0 /\ Unpaid(b) = 0
<1>1. b.txs \in Seq({})
  OBVIOUS
<1> QED BY <1>1, SumFolds, FoldEmpty DEF Burnt, Unpaid

\* A transaction adds its own.
LEMMA SumOverAppend ==
  ASSUME NEW b, NEW c, NEW S, NEW tx \in S, b.txs \in Seq(S),
         c.fork = b.fork, c.txs = Append(b.txs, tx)
  PROVE  /\ Burnt(c) = Burnt(b) + BurntBy(b.fork, tx)
         /\ Unpaid(c) = Unpaid(b) + UnpaidBy(b.fork, tx)
<1>1. c.txs \in Seq(S)
  OBVIOUS
<1>2. /\ IsFold(Sum("burnt", b.fork), 0, b.txs, Burnt(b))
      /\ IsFold(Sum("unpaid", b.fork), 0, b.txs, Unpaid(b))
  BY SumFolds DEF Burnt, Unpaid
<1>3. /\ IsFold(Sum("burnt", b.fork), 0, Append(b.txs, tx), Burnt(c))
      /\ IsFold(Sum("unpaid", b.fork), 0, Append(b.txs, tx), Unpaid(c))
  BY <1>1, SumFolds DEF Burnt, Unpaid
<1>4. /\ Burnt(c) = Folded(Sum("burnt", b.fork), Burnt(b), tx)
      /\ Unpaid(c) = Folded(Sum("unpaid", b.fork), Unpaid(b), tx)
  BY <1>2, <1>3, FoldAppend
<1>5. \A x : /\ Folded(Sum("burnt", b.fork), x, tx) = x + BurntBy(b.fork, tx)
             /\ Folded(Sum("unpaid", b.fork), x, tx) = x + UnpaidBy(b.fork, tx)
  BY DEF Folded, Sum
<1> QED BY <1>4, <1>5

(***************************************************************************)
(* What a transaction costs its sender, and who gets it.                   *)
(***************************************************************************)
Amounts == [Accounts -> Int]

\* The greater and the smaller of two.
LEMMA Ends ==
  ASSUME NEW a \in Int, NEW b \in Int
  PROVE  /\ Max({a, b}) = IF a >= b THEN a ELSE b
         /\ Min({a, b}) = IF a <= b THEN a ELSE b
BY DEF Max, Min

\* The total of amounts: integers, naturals, none.
LEMMA TotalType ==
  ASSUME NEW amounts, \A a \in Accounts : amounts[a] \in Int
  PROVE  Total(amounts) \in Int
<1>1. IsFiniteSet(Accounts)
  BY SystemCallsAssumption
<1>2. SumOf(amounts, Accounts) \in Int
  BY <1>1, SumInt
<1> QED BY <1>2 DEF Total, SumOf

LEMMA TotalNat ==
  ASSUME NEW amounts \in [Accounts -> Nat]
  PROVE  Total(amounts) \in Nat
<1>1. IsFiniteSet(Accounts) /\ \A a \in Accounts : amounts[a] \in Nat
  BY SystemCallsAssumption
<1>2. SumOf(amounts, Accounts) \in Nat
  BY <1>1, SumNat
<1> QED BY <1>2 DEF Total, SumOf

LEMMA TotalNothing == Total(Nothing) = 0
<1>1. IsFiniteSet(Accounts) /\ \A a \in Accounts : Nothing[a] = 0
  BY SystemCallsAssumption DEF Nothing
<1>2. SumOf(Nothing, Accounts) = 0
  BY <1>1, SumZero
<1> QED BY <1>2 DEF Total, SumOf

\* Totals add up.
LEMMA TotalAdds ==
  ASSUME NEW f \in Amounts, NEW g \in Amounts
  PROVE  /\ [a \in Accounts |-> f[a] + g[a]] \in Amounts
         /\ Total([a \in Accounts |-> f[a] + g[a]]) = Total(f) + Total(g)
<1> DEFINE h == [a \in Accounts |-> f[a] + g[a]]
<1>1. /\ IsFiniteSet(Accounts)
      /\ \A a \in Accounts : f[a] \in Int /\ g[a] \in Int /\ h[a] = f[a] + g[a]
  BY SystemCallsAssumption DEF Amounts
<1>2. h \in Amounts
  BY DEF Amounts
<1> HIDE DEF h
<1>3. SumOf(h, Accounts) = SumOf(f, Accounts) + SumOf(g, Accounts)
  BY <1>1, SumAdds
<1>4. Total(h) = Total(f) + Total(g)
  BY <1>3 DEF Total, SumOf
<1> QED BY <1>2, <1>4 DEF h

\* Changing one account changes the total by as much.
LEMMA TotalChanges ==
  ASSUME NEW f \in Amounts, NEW a \in Accounts, NEW v \in Int
  PROVE  /\ [f EXCEPT ![a] = v] \in Amounts
         /\ Total([f EXCEPT ![a] = v]) = Total(f) + (v - f[a])
<1> DEFINE g == [f EXCEPT ![a] = v]
<1>1. /\ IsFiniteSet(Accounts)
      /\ \A x \in Accounts : f[x] \in Int
      /\ g[a] = v /\ \A x \in Accounts : x # a => g[x] = f[x]
  BY SystemCallsAssumption DEF Amounts
<1>2. g \in Amounts
  BY DEF Amounts
<1> HIDE DEF g
<1>3. SumOf(g, Accounts) = SumOf(f, Accounts) + (g[a] - f[a])
  BY <1>1, SumChanges
<1>4. Total(g) = Total(f) + (v - f[a])
  BY <1>1, <1>3 DEF Total, SumOf
<1> QED BY <1>2, <1>4 DEF g

\* The fields of a transaction.
LEMMA TxTypes ==
  ASSUME NEW tx \in Transactions
  PROVE  /\ tx.from \in Accounts /\ tx.from # SystemAddress /\ tx.nonce \in Nat
         /\ tx.dynamic \in BOOLEAN /\ tx.price \in Nat /\ tx.tip \in Nat
         /\ tx.limit \in Nat /\ tx.used \in Nat /\ tx.blobs \in Nat /\ tx.value \in Nat
         /\ tx.to \in Accounts \cup {None} /\ (tx.to = None => tx.value = 0)
         /\ tx.used <= tx.limit
         /\ ~tx.dynamic => tx.tip = 0 /\ tx.blobs = 0
<1>1. tx \in TransactionType
  BY BlockExecutionAssumption
<1>2. /\ tx.used <= tx.limit /\ tx.from # SystemAddress
      /\ ~tx.dynamic => tx.tip = 0 /\ tx.blobs = 0
      /\ tx.to = None => tx.value = 0
  BY BlockExecutionAssumption
<1> QED BY <1>1, <1>2 DEF TransactionType

\* Multiplication.
LEMMA Product ==
  ASSUME NEW a \in Nat, NEW b \in Nat
  PROVE  a * b \in Nat
OBVIOUS

\* The prices of a transaction.
LEMMA Prices ==
  ASSUME NEW tx \in Transactions, NEW f
  PROVE  /\ BaseFee(f) \in Nat
         /\ EffectiveGasPrice(tx, f) \in Nat
         /\ CoinbaseGasPrice(tx, f) \in Nat
         /\ CoinbaseGasPrice(tx, f) =
              IF EffectiveGasPrice(tx, f) >= BaseFee(f)
              THEN EffectiveGasPrice(tx, f) - BaseFee(f) ELSE 0
         /\ BlobFee(tx) \in Nat /\ BurntBy(f, tx) \in Nat /\ UnpaidBy(f, tx) \in Nat
<1>1. tx.price \in Nat /\ tx.tip \in Nat /\ tx.used \in Nat /\ tx.blobs \in Nat
  BY TxTypes
<1>2. BaseFee(f) \in Nat /\ BlobPrice \in Nat
  BY BlockExecutionAssumption DEF BaseFee
<1>3. EffectiveGasPrice(tx, f) \in Nat
  <2>1. Min({tx.price, BaseFee(f) + tx.tip}) \in Nat
    <3>1. tx.price \in Int /\ BaseFee(f) + tx.tip \in Int
      BY <1>1, <1>2
    <3>2. Min({tx.price, BaseFee(f) + tx.tip}) =
            IF tx.price <= BaseFee(f) + tx.tip THEN tx.price ELSE BaseFee(f) + tx.tip
      BY <3>1, Ends
    <3> QED BY <1>1, <1>2, <3>2
  <2> QED BY <1>1, <2>1 DEF EffectiveGasPrice
<1>4. /\ CoinbaseGasPrice(tx, f) =
           IF EffectiveGasPrice(tx, f) >= BaseFee(f)
           THEN EffectiveGasPrice(tx, f) - BaseFee(f) ELSE 0
      /\ CoinbaseGasPrice(tx, f) \in Nat
  <2>1. 0 \in Int /\ EffectiveGasPrice(tx, f) - BaseFee(f) \in Int
    BY <1>2, <1>3
  <2>2. CoinbaseGasPrice(tx, f) =
          IF 0 >= EffectiveGasPrice(tx, f) - BaseFee(f) THEN 0
          ELSE EffectiveGasPrice(tx, f) - BaseFee(f)
    BY <2>1, Ends DEF CoinbaseGasPrice
  <2> QED BY <1>2, <1>3, <2>2
<1>5. BlobFee(tx) \in Nat
  BY <1>1, <1>2, Product DEF BlobFee
<1>6. BurntBy(f, tx) \in Nat
  BY <1>5 DEF BurntBy
<1>7. UnpaidBy(f, tx) \in Nat
  <2>1. 0 \in Int /\ BaseFee(f) - EffectiveGasPrice(tx, f) \in Int
    BY <1>2, <1>3
  <2>2. Max({0, BaseFee(f) - EffectiveGasPrice(tx, f)}) \in Nat
    BY <2>1, Ends
  <2> QED BY <1>1, <2>2, Product DEF UnpaidBy
<1> QED BY <1>2, <1>3, <1>4, <1>5, <1>6, <1>7

LEMMA BalanceInt ==
  ASSUME NEW f \in Amounts, NEW a \in Accounts
  PROVE  f[a] \in Int
BY DEF Amounts

\* A transfer moves money.
LEMMA TransferSupply ==
  ASSUME NEW f \in Amounts, NEW tx \in Transactions
  PROVE  /\ Transfer(f, tx) \in Amounts
         /\ Total(Transfer(f, tx)) = Total(f)
<1>1. CASE tx.to = None
  BY <1>1 DEF Transfer
<1>2. CASE tx.to # None
  <2>1. tx.from \in Accounts /\ tx.to \in Accounts /\ tx.value \in Nat
    BY <1>2, TxTypes
  <2> DEFINE sent == [f EXCEPT ![tx.from] = @ - tx.value]
             received == [sent EXCEPT ![tx.to] = @ + tx.value]
  <2>2. f[tx.from] \in Int /\ Total(f) \in Int
    BY <2>1, TotalType DEF Amounts
  <2>3. sent \in Amounts /\ Total(sent) = Total(f) + ((f[tx.from] - tx.value) - f[tx.from])
    <3>1. f[tx.from] - tx.value \in Int
      BY <2>1, <2>2
    <3> QED BY <2>1, <3>1, TotalChanges
  <2>4. Transfer(f, tx) = received
    BY <1>2 DEF Transfer
  <2> HIDE DEF sent
  <2>5. sent[tx.to] \in Int /\ sent[tx.to] + tx.value \in Int
    BY <2>1, <2>3, BalanceInt
  <2>6. received \in Amounts /\ Total(received) = Total(sent) + ((sent[tx.to] + tx.value) - sent[tx.to])
    BY <2>1, <2>3, <2>5, TotalChanges
  <2> HIDE DEF received
  <2> QED BY <2>1, <2>2, <2>3, <2>4, <2>5, <2>6
<1> QED BY <1>1, <1>2

\* What is charged is the gas and the blobs; only the blobs may be burnt.
LEMMA DeductSupply ==
  ASSUME NEW f \in Amounts, NEW tx \in Transactions, NEW k
  PROVE  /\ DeductCaller(f, tx, k) \in Amounts
         /\ Total(DeductCaller(f, tx, k)) =
              Total(f) - tx.used * EffectiveGasPrice(tx, k) - BurntBy(k, tx)
<1> DEFINE gas == tx.used * EffectiveGasPrice(tx, k)
           fee == BlobFee(tx)
           charged == [f EXCEPT ![tx.from] = @ - gas - fee]
<1>1. tx.from \in Accounts /\ gas \in Nat /\ fee \in Nat /\ FeeCollector \in Accounts
  BY TxTypes, Prices, Product, SystemCallsAssumption
<1>2. DeductCaller(f, tx, k) =
        IF Active(k, "prague") THEN [charged EXCEPT ![FeeCollector] = @ + fee] ELSE charged
  BY DEF DeductCaller
<1>3. BurntBy(k, tx) = IF Active(k, "prague") THEN 0 ELSE fee
  BY DEF BurntBy
<1> HIDE DEF gas, fee
<1>4. f[tx.from] \in Int /\ Total(f) \in Int
  BY <1>1, TotalType DEF Amounts
<1>5. charged \in Amounts /\ Total(charged) = Total(f) - gas - fee
  <2>1. f[tx.from] - gas - fee \in Int
    BY <1>1, <1>4
  <2>2. charged \in Amounts /\ Total(charged) = Total(f) + ((f[tx.from] - gas - fee) - f[tx.from])
    BY <1>1, <2>1, TotalChanges
  <2> HIDE DEF charged
  <2> QED BY <1>1, <1>4, <2>2
<1> HIDE DEF charged
<1>6. /\ [charged EXCEPT ![FeeCollector] = @ + fee] \in Amounts
      /\ Total([charged EXCEPT ![FeeCollector] = @ + fee]) = Total(charged) + fee
  <2>1. charged[FeeCollector] \in Int /\ charged[FeeCollector] + fee \in Int /\ Total(charged) \in Int
    BY <1>1, <1>4, <1>5, BalanceInt
  <2>2. /\ [charged EXCEPT ![FeeCollector] = charged[FeeCollector] + fee] \in Amounts
        /\ Total([charged EXCEPT ![FeeCollector] = charged[FeeCollector] + fee]) =
             Total(charged) + ((charged[FeeCollector] + fee) - charged[FeeCollector])
    BY <1>1, <1>5, <2>1, TotalChanges
  <2> QED BY <1>1, <2>1, <2>2
<1>7. CASE Active(k, "prague")
  BY <1>1, <1>2, <1>3, <1>4, <1>5, <1>6, <1>7 DEF gas
<1>8. CASE ~Active(k, "prague")
  BY <1>1, <1>2, <1>3, <1>4, <1>5, <1>8 DEF gas
<1> QED BY <1>7, <1>8

LEMMA Distributes ==
  ASSUME NEW n \in Nat, NEW a \in Nat, NEW b \in Nat, a >= b
  PROVE  n * (a - b) + n * b = n * a /\ n * (a - b) \in Nat
<1>1. n * (a - b) + n * b = n * ((a - b) + b)
  OBVIOUS
<1>2. (a - b) + b = a /\ a - b \in Nat
  OBVIOUS
<1> QED BY <1>1, <1>2, Product

\* The parts of the price: the beneficiary's and the collector's are what the
\* sender pays and what nobody does.
LEMMA PriceParts ==
  ASSUME NEW tx \in Transactions, NEW k
  PROVE  tx.used * CoinbaseGasPrice(tx, k)
           + (IF Active(k, "london") /\ ~IsFree(tx) THEN tx.used * BaseFee(k) ELSE 0)
         = tx.used * EffectiveGasPrice(tx, k) + UnpaidBy(k, tx)
<1> DEFINE used == tx.used
           eff == EffectiveGasPrice(tx, k)
           base == BaseFee(k)
           part == CoinbaseGasPrice(tx, k)
<1>1. /\ used \in Nat /\ eff \in Nat /\ base \in Nat /\ part \in Nat
      /\ part = IF eff >= base THEN eff - base ELSE 0
  BY TxTypes, Prices
<1>2. CASE Active(k, "london") /\ ~IsFree(tx)
  <2>1. UnpaidBy(k, tx) = used * (IF eff >= base THEN 0 ELSE base - eff)
    <3>1. Max({0, base - eff}) = IF 0 >= base - eff THEN 0 ELSE base - eff
      <4>1. 0 \in Int /\ base - eff \in Int
        BY <1>1
      <4> QED BY <4>1, Ends
    <3>2. UnpaidBy(k, tx) = used * Max({0, base - eff})
      BY <1>2 DEF UnpaidBy
    <3> HIDE DEF used, eff, base
    <3>3. Max({0, base - eff}) = IF eff >= base THEN 0 ELSE base - eff
      BY <1>1, <3>1
    <3> QED BY <3>2, <3>3
  <2> HIDE DEF used, eff, base, part
  <2>2. used * 0 = 0 /\ used * base \in Nat /\ used * eff \in Nat
    BY <1>1, Product
  <2>3. CASE eff >= base
    <3>1. used * (eff - base) + used * base = used * eff
      BY <1>1, <2>3, Distributes
    <3> QED BY <1>1, <1>2, <2>1, <2>2, <2>3, <3>1 DEF used, eff, base, part
  <2>4. CASE ~(eff >= base)
    <3>1. used * (base - eff) + used * eff = used * base /\ used * (base - eff) \in Nat
      BY <1>1, <2>4, Distributes
    <3>2. used * part = 0
      BY <1>1, <2>2, <2>4
    <3>3. used * part + used * base = used * eff + used * (base - eff)
      BY <2>2, <3>1, <3>2
    <3> QED BY <1>2, <2>1, <2>4, <3>3 DEF used, eff, base, part
  <2> QED BY <2>3, <2>4
<1>3. CASE ~Active(k, "london")
  <2>1. base = 0 /\ UnpaidBy(k, tx) = 0
    BY <1>3 DEF BaseFee, UnpaidBy
  <2>2. part = eff
    BY <1>1, <2>1
  <2>3. used * eff \in Nat
    BY <1>1, Product
  <2> QED BY <1>3, <2>1, <2>2, <2>3
<1>4. CASE Active(k, "london") /\ IsFree(tx)
  <2>1. UnpaidBy(k, tx) = 0
    BY <1>4 DEF UnpaidBy
  <2>2. eff = 0
    <3>1. tx.price = 0 /\ tx.tip = 0
      BY <1>4 DEF IsFree
    <3>2. 0 \in Int /\ base + 0 \in Int
      BY <1>1
    <3>3. Min({0, base + 0}) = IF 0 <= base + 0 THEN 0 ELSE base + 0
      BY <3>2, Ends
    <3>4. Min({0, base + 0}) = 0
      BY <1>1, <3>3
    <3>5. Min({tx.price, base + tx.tip}) = Min({0, base + 0})
      BY <3>1
    <3> QED BY <3>1, <3>4, <3>5 DEF EffectiveGasPrice
  <2>3. part = 0
    <3> HIDE DEF part, eff, base
    <3> QED BY <1>1, <2>2
  <2> QED BY <1>4, <2>1, <2>2, <2>3
<1> QED BY <1>2, <1>3, <1>4

\* What is paid out to the beneficiary and the collector.
LEMMA RewardSupply ==
  ASSUME NEW f \in Amounts, NEW tx \in Transactions, NEW k, NEW coinbase \in Accounts
  PROVE  /\ RewardBeneficiary(f, tx, k, coinbase) \in Amounts
         /\ Total(RewardBeneficiary(f, tx, k, coinbase)) =
              Total(f) + tx.used * EffectiveGasPrice(tx, k) + UnpaidBy(k, tx)
<1> DEFINE tip == tx.used * CoinbaseGasPrice(tx, k)
           due == tx.used * BaseFee(k)
           tipped == [f EXCEPT ![coinbase] = @ + tip]
           earns == Active(k, "london") /\ ~IsFree(tx)
           gas == tx.used * EffectiveGasPrice(tx, k)
           unpaid == UnpaidBy(k, tx)
<1>1. tip \in Nat /\ due \in Nat /\ FeeCollector \in Accounts /\ gas \in Nat /\ unpaid \in Nat
  BY TxTypes, Prices, Product, SystemCallsAssumption
<1>2. RewardBeneficiary(f, tx, k, coinbase) =
        IF earns THEN [tipped EXCEPT ![FeeCollector] = @ + due] ELSE tipped
  BY DEF RewardBeneficiary
<1>3. tip + (IF earns THEN due ELSE 0) = gas + unpaid
  BY PriceParts
<1> HIDE DEF tip, due, earns, gas, unpaid
<1>4. f[coinbase] \in Int /\ Total(f) \in Int
  BY TotalType DEF Amounts
<1>5. tipped \in Amounts /\ Total(tipped) = Total(f) + tip
  <2>1. f[coinbase] + tip \in Int
    BY <1>1, <1>4
  <2>2. tipped \in Amounts /\ Total(tipped) = Total(f) + ((f[coinbase] + tip) - f[coinbase])
    BY <2>1, TotalChanges
  <2> HIDE DEF tipped
  <2> QED BY <1>1, <1>4, <2>2
<1> HIDE DEF tipped
<1>6. /\ [tipped EXCEPT ![FeeCollector] = @ + due] \in Amounts
      /\ Total([tipped EXCEPT ![FeeCollector] = @ + due]) = Total(tipped) + due
  <2>1. tipped[FeeCollector] \in Int /\ tipped[FeeCollector] + due \in Int /\ Total(tipped) \in Int
    BY <1>1, <1>4, <1>5, BalanceInt
  <2>2. /\ [tipped EXCEPT ![FeeCollector] = tipped[FeeCollector] + due] \in Amounts
        /\ Total([tipped EXCEPT ![FeeCollector] = tipped[FeeCollector] + due]) =
             Total(tipped) + ((tipped[FeeCollector] + due) - tipped[FeeCollector])
    BY <1>1, <1>5, <2>1, TotalChanges
  <2> QED BY <1>1, <2>1, <2>2
<1>7. CASE earns
  BY <1>1, <1>2, <1>3, <1>4, <1>5, <1>6, <1>7 DEF gas, unpaid
<1>8. CASE ~earns
  BY <1>1, <1>2, <1>3, <1>4, <1>5, <1>8 DEF gas, unpaid
<1> QED BY <1>7, <1>8

\* A transaction changes the supply by what it burns and what it does not pay.
LEMMA TransactSupply ==
  ASSUME NEW w, w.balance \in Amounts, NEW tx \in Transactions, NEW k,
         NEW coinbase \in Accounts
  PROVE  /\ Transact(w, tx, k, coinbase).balance \in Amounts
         /\ Supply(Transact(w, tx, k, coinbase)) =
              Supply(w) - BurntBy(k, tx) + UnpaidBy(k, tx)
<1> DEFINE moved == Transfer(w.balance, tx)
           charged == DeductCaller(moved, tx, k)
           paid == RewardBeneficiary(charged, tx, k, coinbase)
           gas == tx.used * EffectiveGasPrice(tx, k)
<1>1. Transact(w, tx, k, coinbase).balance = paid
  BY DEF Transact
<1>2. moved \in Amounts /\ Total(moved) = Total(w.balance)
  BY TransferSupply
<1> HIDE DEF moved
<1>3. charged \in Amounts /\ Total(charged) = Total(moved) - gas - BurntBy(k, tx)
  BY <1>2, DeductSupply
<1> HIDE DEF charged
<1>4. paid \in Amounts /\ Total(paid) = Total(charged) + gas + UnpaidBy(k, tx)
  BY <1>3, RewardSupply
<1>5. gas \in Nat /\ BurntBy(k, tx) \in Nat /\ UnpaidBy(k, tx) \in Nat
  BY TxTypes, Prices, Product
<1>6. Total(w.balance) \in Int
  BY TotalType DEF Amounts
<1> HIDE DEF paid, gas
<1> QED BY <1>1, <1>2, <1>3, <1>4, <1>5, <1>6 DEF Supply

(***************************************************************************)
(* SYSTEM_ADDRESS in a block.                                              *)
(***************************************************************************)
\* SYSTEM_ADDRESS has made no transaction.
Clean(w) == w.nonce \in [Accounts -> Nat] /\ w.nonce[SystemAddress] = 0

CleanInv == Clean(world) /\ (block # None => Clean(block.world))

-----------------------------------------------------------------------------
(* Committing the diff of a system call.                                   *)

\* The nonce, the balance and the storage of an account that the diff leaves
\* out, or has as it was, do not change.
LEMMA CommitKeeps ==
  ASSUME NEW w, NEW diff, NEW a \in Accounts,
         a \in DOMAIN diff => diff[a] = InfoOf(w, a)
  PROVE  /\ CommitDiff(w, diff).balance[a] = w.balance[a]
         /\ CommitDiff(w, diff).nonce[a] = w.nonce[a]
<1>1. CASE a \in DOMAIN diff
  BY <1>1 DEF CommitDiff, InfoOf
<1>2. CASE a \notin DOMAIN diff
  BY <1>2 DEF CommitDiff
<1> QED BY <1>1, <1>2

\* The diff of a system call leaves out the beneficiary and the collector and
\* has SYSTEM_ADDRESS, if it is not one of them, as it was.
LEMMA DiffOfCall ==
  ASSUME NEW w, NEW contract, NEW effect, NEW coinbase,
         NEW diff, diff = TransactSystemCall(w, contract, effect, coinbase)
  PROVE  /\ coinbase \notin DOMAIN diff /\ FeeCollector \notin DOMAIN diff
         /\ SystemAddress \in DOMAIN diff => diff[SystemAddress] = InfoOf(w, SystemAddress)
         /\ coinbase # SystemAddress => SystemAddress \in DOMAIN diff
<1> DEFINE touched == TransactedDiff(w, contract, effect, coinbase)
<1>1. SystemAddress \in DOMAIN touched
  BY SystemCallsAssumption DEF TransactedDiff
<1>2. diff = CleanUp(touched, w, coinbase)
  BY DEF TransactSystemCall
<1> HIDE DEF touched
<1>3. DOMAIN diff = DOMAIN touched \ {coinbase, FeeCollector}
  BY <1>2 DEF CleanUp
<1>4. SystemAddress \in DOMAIN diff => diff[SystemAddress] = InfoOf(w, SystemAddress)
  BY <1>2, <1>3 DEF CleanUp
<1> QED BY <1>1, <1>3, <1>4, SystemCallsAssumption

\* The nonces of the accounts of a diff are numbers.
LEMMA NoncesOfCall ==
  ASSUME NEW w, w.nonce \in [Accounts -> Nat],
         NEW contract, NEW effect, NEW coinbase,
         NEW a \in DOMAIN TransactSystemCall(w, contract, effect, coinbase), a \in Accounts
  PROVE  TransactSystemCall(w, contract, effect, coinbase)[a].nonce \in Nat
<1> DEFINE touched == TransactedDiff(w, contract, effect, coinbase)
<1>1. w.nonce[a] \in Nat
  OBVIOUS
<1>2. a \in DOMAIN touched
  BY DEF TransactSystemCall, CleanUp
<1>3. touched[a].nonce = w.nonce[a] + (IF a = SystemAddress THEN 1 ELSE 0)
  BY <1>2 DEF TransactedDiff
<1>4. touched[a].nonce \in Nat /\ InfoOf(w, a).nonce \in Nat
  BY <1>1, <1>3 DEF InfoOf
<1> HIDE DEF touched
<1> QED BY <1>4 DEF TransactSystemCall, CleanUp, touched

\* A system call raises no nonce of SYSTEM_ADDRESS.
LEMMA CallIsClean ==
  ASSUME NEW w, Clean(w), NEW contract, NEW effect, NEW coinbase
  PROVE  /\ Clean(SystemCallAndCommit(w, contract, effect, coinbase))
         /\ Clean(CommitDiff(w, TransactSystemCall(w, contract, effect, coinbase)))
<1> DEFINE diff == TransactSystemCall(w, contract, effect, coinbase)
<1>1. \A a \in Accounts \cap DOMAIN diff : diff[a].nonce \in Nat
  BY NoncesOfCall DEF Clean
<1>2. SystemAddress \in DOMAIN diff => diff[SystemAddress] = InfoOf(w, SystemAddress)
  BY DiffOfCall
<1>3. SystemAddress \in Accounts
  BY SystemCallsAssumption
<1> HIDE DEF diff
<1>4. CommitDiff(w, diff).nonce \in [Accounts -> Nat]
  BY <1>1 DEF CommitDiff, Clean
<1>5. CommitDiff(w, diff).nonce[SystemAddress] = 0
  BY <1>2, <1>3, CommitKeeps DEF Clean
<1>6. Clean(CommitDiff(w, diff))
  BY <1>4, <1>5 DEF Clean
<1> QED BY <1>6 DEF SystemCallAndCommit, diff

\* Nor does it take SYSTEM_ADDRESS out of the state, and it puts it there
\* unless it is the beneficiary.
LEMMA CallKeepsPresent ==
  ASSUME NEW w, NEW contract, NEW effect, NEW coinbase
  PROVE  /\ w.present => SystemCallAndCommit(w, contract, effect, coinbase).present
         /\ coinbase # SystemAddress =>
              SystemCallAndCommit(w, contract, effect, coinbase).present
BY DiffOfCall DEF SystemCallAndCommit, CommitDiff

\* Whatever a contract does when the node calls it, the call leaves the
\* balances and nonces of SYSTEM_ADDRESS, of the beneficiary and of the fee
\* collector as they were (transact_system_call restores the one and drops the
\* others from the diff).
THEOREM SystemCallLeavesAlone ==
  ASSUME NEW w, NEW contract, NEW effect, NEW coinbase \in Accounts,
         NEW a \in {SystemAddress, FeeCollector, coinbase}
  PROVE  /\ SystemCallAndCommit(w, contract, effect, coinbase).balance[a] = w.balance[a]
         /\ SystemCallAndCommit(w, contract, effect, coinbase).nonce[a] = w.nonce[a]
<1> DEFINE diff == TransactSystemCall(w, contract, effect, coinbase)
<1>1. a \in Accounts
  BY SystemCallsAssumption
<1>2. a \in DOMAIN diff => diff[a] = InfoOf(w, a)
  BY DiffOfCall
<1> HIDE DEF diff
<1>3. /\ CommitDiff(w, diff).balance[a] = w.balance[a]
      /\ CommitDiff(w, diff).nonce[a] = w.nonce[a]
  BY <1>1, <1>2, CommitKeeps
<1> QED BY <1>3 DEF SystemCallAndCommit, diff

-----------------------------------------------------------------------------
(* The steps of a block.                                                   *)

LEMMA ContractCalledIsClean ==
  ASSUME NEW w, Clean(w), NEW contract, NEW coinbase
  PROVE  Clean(ContractCalled(w, contract, coinbase))
BY CallIsClean DEF ContractCalled

LEMMA RewardCallIsClean ==
  ASSUME NEW w, Clean(w), NEW contract, NEW rewards, NEW coinbase
  PROVE  Clean(RewardCall(w, contract, rewards, coinbase).world)
BY CallIsClean DEF RewardCall

\* Crediting the rewards changes balances only.
LEMMA IncrementIsClean ==
  ASSUME NEW w, Clean(w), NEW rewards
  PROVE  /\ Clean(IncrementBalances(w, rewards))
         /\ w.present => IncrementBalances(w, rewards).present
BY DEF IncrementBalances, Clean

LEMMA PreExecutionIsClean ==
  ASSUME NEW w, Clean(w), NEW f, NEW coinbase
  PROVE  Clean(ApplyPreExecutionChanges(w, f, coinbase))
BY ContractCalledIsClean DEF ApplyPreExecutionChanges

LEMMA TransactIsClean ==
  ASSUME NEW w, Clean(w), NEW tx \in Transactions, NEW f, NEW coinbase
  PROVE  Clean(Transact(w, tx, f, coinbase))
<1>1. tx.from \in Accounts /\ tx.from # SystemAddress
  BY BlockExecutionAssumption DEF TransactionType
<1>2. Transact(w, tx, f, coinbase).nonce = [w.nonce EXCEPT ![tx.from] = @ + 1]
  BY DEF Transact
<1> QED BY <1>1, <1>2, SystemCallsAssumption DEF Clean

LEMMA PostBlockIsClean ==
  ASSUME NEW b, Clean(b.world), NEW n, NEW payout, NEW rewards
  PROVE  Clean(PostBlockSystemCalls(b, n, payout, rewards).world)
BY ContractCalledIsClean, CallIsClean, RewardCallIsClean DEF PostBlockSystemCalls

\* The reward call takes SYSTEM_ADDRESS out of no state, and when it is
\* committed in a block of another beneficiary, SYSTEM_ADDRESS is there.
LEMMA RewardCallPresent ==
  ASSUME NEW w, NEW contract, NEW rewards, NEW coinbase
  PROVE  /\ w.present => RewardCall(w, contract, rewards, coinbase).world.present
         /\ coinbase # SystemAddress /\ contract \in Deployed \ {coinbase, FeeCollector}
              => RewardCall(w, contract, rewards, coinbase).world.present
<1> DEFINE diff == TransactSystemCall(w, contract, Effect(Total(rewards), Nothing), coinbase)
<1>1. coinbase # SystemAddress => SystemAddress \in DOMAIN diff
  BY DiffOfCall
<1>2. contract \notin {coinbase, FeeCollector} => contract \in DOMAIN diff
  <2>1. ASSUME contract \in Accounts, contract \notin {coinbase, FeeCollector}
        PROVE  contract \in DOMAIN diff
    BY <2>1 DEF TransactSystemCall, CleanUp, TransactedDiff
  <2> QED BY <2>1 DEF TransactSystemCall, CleanUp, TransactedDiff
<1> HIDE DEF diff
<1>3. RewardCall(w, contract, rewards, coinbase).world =
        IF contract \in Deployed \cap DOMAIN diff THEN CommitDiff(w, diff) ELSE w
  BY DEF RewardCall, diff
<1>4. CommitDiff(w, diff).present = (w.present \/ SystemAddress \in DOMAIN diff)
  BY DEF CommitDiff
<1>5. CASE contract \in Deployed \cap DOMAIN diff
  BY <1>1, <1>3, <1>4, <1>5
<1>6. CASE contract \notin Deployed \cap DOMAIN diff
  BY <1>2, <1>3, <1>6
<1> QED BY <1>5, <1>6

LEMMA PostBlockPresent ==
  ASSUME NEW b, NEW n, NEW payout, NEW rewards, EndsWithCall(b, n)
  PROVE  PostBlockSystemCalls(b, n, payout, rewards).world.present
BY CallKeepsPresent, RewardCallPresent DEF PostBlockSystemCalls, EndsWithCall

-----------------------------------------------------------------------------
\* The first state.
LEMMA InitClean == Init => CleanInv
BY SystemCallsAssumption DEF Init, CleanInv, Clean, Nothing

\* The end of a block.
LEMMA AdoptClean ==
  ASSUME NEW b, Clean(b.world), NEW payout, NEW rewards, Adopt(b, payout, rewards)
  PROVE  /\ Clean(world')
         /\ EndsWithCall(b, number') => world'.present
<1> DEFINE after == PostBlockSystemCalls(b, number + 1, payout, rewards).world
<1>1. /\ world' = IncrementBalances(after,
                    PostBlockSystemCalls(b, number + 1, payout, rewards).rewards)
      /\ number' = number + 1
  BY DEF Adopt
<1>2. Clean(after)
  BY PostBlockIsClean
<1>3. EndsWithCall(b, number + 1) => after.present
  BY PostBlockPresent
<1> HIDE DEF after
<1> QED BY <1>1, <1>2, <1>3, IncrementIsClean

\* Every step.
LEMMA StepClean ==
  ASSUME CleanInv, [Next]_execVars
  PROVE  CleanInv'
<1>1. CASE UNCHANGED execVars
  BY <1>1 DEF CleanInv, Clean, execVars
<1>2. ASSUME NEW a \in Coinbases, OpenBlock(a)
      PROVE  CleanInv'
  <2>1. Clean(world)
    BY DEF CleanInv
  <2>2. Clean(ApplyPreExecutionChanges(world, NextFork, a))
    BY <2>1, PreExecutionIsClean
  <2>3. block'.world = ApplyPreExecutionChanges(world, NextFork, a) /\ world' = world
    BY <1>2 DEF OpenBlock, NewBlock
  <2> QED BY <2>1, <2>2, <2>3 DEF CleanInv, Clean
<1>3. ASSUME NEW tx \in Transactions, ExecuteTransaction(tx)
      PROVE  CleanInv'
  <2>1. Clean(world) /\ Clean(block.world)
    BY <1>3 DEF CleanInv, ExecuteTransaction
  <2>2. Clean(Transact(block.world, tx, block.fork, block.coinbase))
    BY <2>1, TransactIsClean
  <2>3. /\ block' = CommitTransaction(block, tx)
        /\ world' = world
    BY <1>3 DEF ExecuteTransaction
  <2> QED BY <2>1, <2>2, <2>3 DEF CleanInv, Clean, CommitTransaction
<1>4. CASE FailBlock
  BY <1>4 DEF FailBlock, CleanInv, Clean
<1>5. ASSUME NEW payout \in Payouts, NEW rewards \in Rewards, FinishBlock(payout, rewards)
      PROVE  CleanInv'
  <2>1. Clean(block.world) /\ Adopt(block, payout, rewards) /\ block' = None
    BY <1>5 DEF CleanInv, FinishBlock
  <2>2. Clean(world')
    BY <2>1, AdoptClean
  <2> QED BY <2>1, <2>2 DEF CleanInv, Clean
<1> QED BY <1>1, <1>2, <1>3, <1>4, <1>5 DEF Next

\* On every chain SYSTEM_ADDRESS keeps its nonce of zero, and is in the state
\* after every block that ends with a committed system call, whatever its
\* transactions and contracts do (transact_system_call, "EIP-158 disabled for
\* system calls").
THEOREM SystemAccountStays == Spec => SystemAccountIsKept
<1> DEFINE Kept == /\ world'.nonce[SystemAddress] = 0
                   /\ number' # number /\ block # None /\ EndsWithCall(block, number')
                        => world'.present
<1>1. ASSUME CleanInv, CleanInv', [Next]_execVars
      PROVE  [Kept]_execVars
  <2>1. world'.nonce[SystemAddress] = 0
    BY <1>1 DEF CleanInv, Clean
  <2>2. ASSUME number' # number, block # None, EndsWithCall(block, number')
        PROVE  world'.present
    <3>1. PICK payout \in Payouts, rewards \in Rewards : FinishBlock(payout, rewards)
      BY <1>1, <2>2 DEF Next, execVars, OpenBlock, ExecuteTransaction, FailBlock
    <3>2. Clean(block.world) /\ Adopt(block, payout, rewards)
      BY <1>1, <2>2, <3>1 DEF CleanInv, FinishBlock
    <3> QED BY <2>2, <3>2, AdoptClean
  <2> QED BY <2>1, <2>2
<1> QED BY <1>1, InitClean, StepClean, PTL DEF Spec, SystemAccountIsKept

\* The balances after a system call that is committed: what the contract pays,
\* when the clean-up takes neither it nor a receiver out of the diff.
LEMMA CallBalances ==
  ASSUME NEW w, w.balance \in Amounts, NEW contract \in Contracts, NEW mark,
         NEW pays \in [Accounts -> Nat], NEW coinbase, NEW diff,
         diff = TransactSystemCall(w, contract, Effect(mark, pays), coinbase),
         \/ pays = Nothing
         \/ /\ contract \notin {coinbase, FeeCollector}
            /\ \A a \in {SystemAddress, FeeCollector, coinbase} \cap Accounts : pays[a] = 0,
         NEW a \in Accounts
  PROVE  CommitDiff(w, diff).balance[a] =
           w.balance[a] + pays[a] - (IF a = contract THEN Total(pays) ELSE 0)
<1> DEFINE touched == TransactedDiff(w, contract, Effect(mark, pays), coinbase)
<1>1. /\ w.balance[a] \in Int /\ pays[a] \in Nat /\ contract # SystemAddress
      /\ Total(pays) \in Nat
  BY TotalNat, SystemCallsAssumption DEF Amounts
<1>2. pays = Nothing => pays[a] = 0 /\ Total(pays) = 0
  BY TotalNothing DEF Nothing
<1>3. DOMAIN touched = {SystemAddress, contract, coinbase, FeeCollector}
                         \cup {x \in Accounts : pays[x] > 0}
  BY DEF TransactedDiff, Effect
<1>4. ASSUME a \in DOMAIN touched
      PROVE  touched[a].balance = w.balance[a] + pays[a] - (IF a = contract THEN Total(pays) ELSE 0)
  BY <1>3, <1>4 DEF TransactedDiff, Effect
<1>5. diff = CleanUp(touched, w, coinbase)
  BY DEF TransactSystemCall
<1> HIDE DEF touched
<1>6. DOMAIN diff = DOMAIN touched \ {coinbase, FeeCollector}
  BY <1>5 DEF CleanUp
<1>7. CASE a \notin DOMAIN diff
  <2>1. CommitDiff(w, diff).balance[a] = w.balance[a]
    BY <1>7 DEF CommitDiff
  <2>2. pays[a] = 0 /\ (a = contract => Total(pays) = 0)
    <3>1. CASE pays = Nothing
      BY <1>2, <3>1
    <3>2. CASE pays # Nothing
      <4>1. a \in {coinbase, FeeCollector} \/ (pays[a] = 0 /\ a # contract)
        BY <1>1, <1>3, <1>6, <1>7
      <4> QED BY <3>2, <4>1
    <3> QED BY <3>1, <3>2
  <2> QED BY <1>1, <2>1, <2>2
<1>8. CASE a \in DOMAIN diff /\ a # SystemAddress
  <2>1. CommitDiff(w, diff).balance[a] = diff[a].balance
    BY <1>8 DEF CommitDiff
  <2>2. diff[a] = touched[a] /\ a \in DOMAIN touched
    BY <1>5, <1>6, <1>8 DEF CleanUp
  <2> QED BY <1>4, <2>1, <2>2
<1>9. CASE a \in DOMAIN diff /\ a = SystemAddress
  <2>1. CommitDiff(w, diff).balance[a] = w.balance[a]
    BY <1>9, DiffOfCall, CommitKeeps
  <2>2. pays[a] = 0 /\ a # contract
    BY <1>1, <1>2, <1>9
  <2> QED BY <1>1, <2>1, <2>2
<1> QED BY <1>7, <1>8, <1>9

\* So a system call moves money and makes none.
LEMMA CallSupply ==
  ASSUME NEW w, w.balance \in Amounts, NEW contract \in Contracts, NEW mark,
         NEW pays \in [Accounts -> Nat], NEW coinbase, NEW diff,
         diff = TransactSystemCall(w, contract, Effect(mark, pays), coinbase),
         \/ pays = Nothing
         \/ /\ contract \notin {coinbase, FeeCollector}
            /\ \A a \in {SystemAddress, FeeCollector, coinbase} \cap Accounts : pays[a] = 0
  PROVE  /\ CommitDiff(w, diff).balance \in Amounts
         /\ Supply(CommitDiff(w, diff)) = Supply(w)
<1> DEFINE added == [a \in Accounts |-> w.balance[a] + pays[a]]
           after == [added EXCEPT ![contract] = @ - Total(pays)]
<1>1. /\ contract \in Accounts /\ Total(pays) \in Nat /\ pays \in Amounts
      /\ Total(w.balance) \in Int
  BY TotalNat, TotalType, SystemCallsAssumption DEF Amounts
<1>2. added \in Amounts /\ Total(added) = Total(w.balance) + Total(pays)
  BY <1>1, TotalAdds
<1>3. \A a \in Accounts : after[a] = w.balance[a] + pays[a] - (IF a = contract THEN Total(pays) ELSE 0)
  BY <1>1 DEF Amounts
<1>4. after = [a \in Accounts |-> after[a]]
  OBVIOUS
<1>5. after \in Amounts /\ Total(after) = Total(added) + ((added[contract] - Total(pays)) - added[contract])
  <2>1. added[contract] - Total(pays) \in Int
    BY <1>1, <1>2, BalanceInt
  <2> HIDE DEF added
  <2> QED BY <1>1, <1>2, <2>1, TotalChanges
<1>6. Total(after) = Total(w.balance)
  <2>1. added[contract] \in Int
    BY <1>1, <1>2, BalanceInt
  <2> HIDE DEF after, added
  <2> QED BY <1>1, <1>2, <1>5, <2>1
<1> DEFINE committed == CommitDiff(w, diff).balance
<1>7. \A a \in Accounts : committed[a] =
        w.balance[a] + pays[a] - (IF a = contract THEN Total(pays) ELSE 0)
  BY CallBalances
<1>8. committed = [a \in Accounts |-> committed[a]]
  BY DEF CommitDiff
<1> HIDE DEF committed, after
<1>9. committed = after
  BY <1>3, <1>4, <1>7, <1>8
<1> QED BY <1>5, <1>6, <1>9 DEF Supply, committed

\* The same contract call that pays nothing.
LEMMA NothingPays == Nothing \in [Accounts -> Nat]
BY DEF Nothing

LEMMA ContractCalledSupply ==
  ASSUME NEW w, w.balance \in Amounts, NEW contract \in Contracts, NEW coinbase
  PROVE  /\ ContractCalled(w, contract, coinbase).balance \in Amounts
         /\ Supply(ContractCalled(w, contract, coinbase)) = Supply(w)
BY CallSupply, NothingPays DEF ContractCalled, SystemCallAndCommit

LEMMA PreExecutionSupply ==
  ASSUME NEW w, w.balance \in Amounts, NEW k, NEW coinbase
  PROVE  /\ ApplyPreExecutionChanges(w, k, coinbase).balance \in Amounts
         /\ Supply(ApplyPreExecutionChanges(w, k, coinbase)) = Supply(w)
<1>1. HistoryContract \in Contracts /\ RootsContract \in Contracts
  BY BlockExecutionAssumption
<1> QED BY <1>1, ContractCalledSupply DEF ApplyPreExecutionChanges

\* The contract whose turn it is to be called for the rewards.
LEMMA RewardContractIs ==
  ASSUME NEW n \in Nat
  PROVE  RewardContractAt(n) \in RewardContracts /\ RewardContractAt(n) \in Contracts
<1> DEFINE past == {b \in DOMAIN RewardTransitions : b <= n}
<1>0. /\ DOMAIN RewardTransitions \subseteq Nat
      /\ Range(RewardTransitions) \cup {BlockRewardsAddress} \subseteq Contracts
  BY BlockExecutionAssumption
<1>1. CASE past = {}
  BY <1>0, <1>1 DEF RewardContractAt, RewardContracts
<1>2. CASE past # {}
  <2>1. past \in SUBSET (0..n)
    BY <1>0
  <2>2. Max(past) \in past
    <3> HIDE DEF past
    <3> QED BY <1>2, <2>1, MaxIs
  <2>3. RewardTransitions[Max(past)] \in Range(RewardTransitions)
    BY <2>2 DEF Range
  <2>4. RewardContractAt(n) = RewardTransitions[Max(past)]
    BY <1>2 DEF RewardContractAt
  <2> QED BY <1>0, <2>3, <2>4 DEF RewardContracts
<1> QED BY <1>1, <1>2

\* The reward call itself moves none, and answers with amounts.
LEMMA RewardCallSupply ==
  ASSUME NEW w, w.balance \in Amounts, NEW contract \in Contracts,
         NEW rewards \in [Accounts -> Nat], NEW coinbase, NEW outcome,
         outcome = RewardCall(w, contract, rewards, coinbase)
  PROVE  /\ outcome.world.balance \in Amounts
         /\ Supply(outcome.world) = Supply(w)
         /\ outcome.rewards \in [Accounts -> Nat]
<1> DEFINE diff == TransactSystemCall(w, contract, Effect(Total(rewards), Nothing), coinbase)
<1>1. CommitDiff(w, diff).balance \in Amounts /\ Supply(CommitDiff(w, diff)) = Supply(w)
  BY CallSupply, NothingPays
<1>2. outcome = IF contract \in Deployed \cap DOMAIN diff
                THEN [world |-> CommitDiff(w, diff), rewards |-> rewards]
                ELSE [world |-> w, rewards |-> Nothing]
  BY DEF RewardCall
<1> HIDE DEF diff
<1>3. CASE contract \in Deployed \cap DOMAIN diff
  BY <1>1, <1>2, <1>3
<1>4. CASE contract \notin Deployed \cap DOMAIN diff
  BY <1>2, <1>4, NothingPays
<1> QED BY <1>3, <1>4

\* Crediting the rewards makes as much money as they are.
LEMMA IncrementSupply ==
  ASSUME NEW w, w.balance \in Amounts, NEW rewards \in [Accounts -> Nat]
  PROVE  /\ IncrementBalances(w, rewards).balance \in Amounts
         /\ Supply(IncrementBalances(w, rewards)) = Supply(w) + Total(rewards)
<1>1. rewards \in Amounts
  BY DEF Amounts
<1>2. DEFINE wb == w.balance
<1>3. IncrementBalances(w, rewards).balance = [a \in Accounts |-> wb[a] + rewards[a]]
  BY DEF IncrementBalances
<1> QED BY <1>1, <1>3, TotalAdds DEF Supply

\* The calls that end a block.
LEMMA PostBlockSupply ==
  ASSUME DepositContract # FeeCollector,
         NEW b, b.world.balance \in Amounts, NEW n \in Nat,
         NEW payout \in [Accounts -> Nat], NEW rewards \in [Accounts -> Nat],
         CanPay(b, payout), NEW outcome,
         outcome = PostBlockSystemCalls(b, n, payout, rewards)
  PROVE  /\ outcome.world.balance \in Amounts
         /\ Supply(outcome.world) = Supply(b.world)
         /\ outcome.rewards \in [Accounts -> Nat]
<1> DEFINE requested == IF Active(b.fork, "prague")
                        THEN ContractCalled(b.world, RequestsContract, b.coinbase)
                        ELSE b.world
           effect == Effect(IF DepositContract \in Deployed THEN 1 ELSE 0, payout)
           withdrawn == IF Active(b.fork, "shanghai")
                        THEN SystemCallAndCommit(requested, DepositContract, effect, b.coinbase)
                        ELSE requested
<1>1. RequestsContract \in Contracts /\ DepositContract \in Contracts
  BY BlockExecutionAssumption
<1>2. requested.balance \in Amounts /\ Supply(requested) = Supply(b.world)
  BY <1>1, ContractCalledSupply
<1> HIDE DEF requested
<1>3. withdrawn.balance \in Amounts /\ Supply(withdrawn) = Supply(requested)
  <2>1. \/ payout = Nothing
        \/ /\ DepositContract \notin {b.coinbase, FeeCollector}
           /\ \A a \in {SystemAddress, FeeCollector, b.coinbase} \cap Accounts : payout[a] = 0
    BY DEF CanPay
  <2>2. /\ SystemCallAndCommit(requested, DepositContract, effect, b.coinbase).balance \in Amounts
        /\ Supply(SystemCallAndCommit(requested, DepositContract, effect, b.coinbase)) = Supply(requested)
    BY <1>1, <1>2, <2>1, CallSupply DEF SystemCallAndCommit
  <2> QED BY <1>2, <2>2
<1>4. outcome = RewardCall(withdrawn, RewardContractAt(n), rewards, b.coinbase)
  BY DEF PostBlockSystemCalls, requested
<1> HIDE DEF withdrawn
<1>5. RewardContractAt(n) \in Contracts
  BY RewardContractIs
<1> QED BY <1>2, <1>3, <1>4, <1>5, RewardCallSupply

-----------------------------------------------------------------------------
\* The accounts of the money: what the chain holds, and what the block under
\* execution has burnt and credited for nothing so far.
SupplyInv ==
  /\ number \in Nat
  /\ world.balance \in Amounts
  /\ ledger.issued \in Int /\ ledger.burnt \in Int /\ ledger.unpaid \in Int
  /\ SupplyIsAccounted
  /\ block # None =>
       /\ block.coinbase \in Accounts
       /\ block.txs \in Seq(Transactions)
       /\ block.world.balance \in Amounts
       /\ Burnt(block) \in Int /\ Unpaid(block) \in Int
       /\ Supply(block.world) =
            Supply(world) - Burnt(block) + Unpaid(block)

LEMMA SupplyInit == Init => SupplyInv
<1> SUFFICES ASSUME Init PROVE SupplyInv
  OBVIOUS
<1>1. /\ number = 0 /\ block = None /\ ledger = [issued |-> 0, burnt |-> 0, unpaid |-> 0]
      /\ world.balance = GenesisBalance
  BY DEF Init
<1>2. GenesisBalance \in Amounts
  BY BlockExecutionAssumption DEF Amounts
<1>3. Total(GenesisBalance) \in Int
  BY <1>2, TotalType DEF Amounts
<1> QED BY <1>1, <1>2, <1>3 DEF SupplyInv, SupplyIsAccounted, Supply

\* The calls before the transactions move no money.
LEMMA OpenSupply ==
  ASSUME SupplyInv, NEW a \in Coinbases, OpenBlock(a)
  PROVE  SupplyInv'
<1>1. /\ block' = NewBlock(NextFork, a) /\ number' = number /\ world' = world /\ ledger' = ledger
  BY DEF OpenBlock
<1> DEFINE b == NewBlock(NextFork, a)
<1>2. b.txs = <<>> /\ b.coinbase = a /\ b.world = ApplyPreExecutionChanges(world, NextFork, a)
  BY DEF NewBlock
<1>3. a \in Accounts
  BY BlockExecutionAssumption
<1>4. world.balance \in Amounts /\ Supply(world) \in Int
  BY TotalType DEF SupplyInv, Supply, Amounts
<1> HIDE DEF b
<1>5. b.world.balance \in Amounts /\ Supply(b.world) = Supply(world)
  BY <1>2, <1>4, PreExecutionSupply
<1>6. Burnt(b) = 0 /\ Unpaid(b) = 0
  BY <1>2, SumOverEmpty
<1>8. block' = b
  BY <1>1 DEF b
<1>9. /\ b.coinbase \in Accounts /\ b.txs \in Seq(Transactions) /\ b.world.balance \in Amounts
      /\ Burnt(b) \in Int /\ Unpaid(b) \in Int
      /\ Supply(b.world) = Supply(world) - Burnt(b) + Unpaid(b)
  BY <1>2, <1>3, <1>4, <1>5, <1>6
<1>10. SupplyIsAccounted'
  BY <1>1 DEF SupplyInv, SupplyIsAccounted
<1> QED BY <1>1, <1>8, <1>9, <1>10 DEF SupplyInv

\* A transaction moves the accounts of the block by its part.
LEMMA ExecuteSupply ==
  ASSUME SupplyInv, NEW tx \in Transactions, ExecuteTransaction(tx)
  PROVE  SupplyInv'
<1>1. /\ block # None /\ block' = CommitTransaction(block, tx)
      /\ number' = number /\ world' = world /\ ledger' = ledger
  BY DEF ExecuteTransaction
<1> DEFINE c == CommitTransaction(block, tx)
<1>2. /\ block.coinbase \in Accounts
      /\ block.txs \in Seq(Transactions)
      /\ block.world.balance \in Amounts
      /\ Burnt(block) \in Int /\ Unpaid(block) \in Int
      /\ Supply(block.world) =
           Supply(world) - Burnt(block) + Unpaid(block)
      /\ Supply(world) \in Int
  BY <1>1, TotalType DEF SupplyInv, Supply, Amounts
<1>3. /\ c.fork = block.fork /\ c.coinbase = block.coinbase
      /\ c.txs = Append(block.txs, tx)
      /\ c.world = Transact(block.world, tx, block.fork, block.coinbase)
  BY DEF CommitTransaction
<1>a. block' = c
  BY <1>1
<1> HIDE DEF c
<1>4. /\ c.world.balance \in Amounts
      /\ Supply(c.world) = Supply(block.world) - BurntBy(block.fork, tx) + UnpaidBy(block.fork, tx)
  BY <1>2, <1>3, TransactSupply
<1>5. /\ Burnt(c) = Burnt(block) + BurntBy(block.fork, tx)
      /\ Unpaid(c) = Unpaid(block) + UnpaidBy(block.fork, tx)
  BY <1>2, <1>3, SumOverAppend
<1>6. BurntBy(block.fork, tx) \in Nat /\ UnpaidBy(block.fork, tx) \in Nat
  BY Prices
<1>7. Supply(c.world) = Supply(world) - Burnt(c) + Unpaid(c)
  BY <1>2, <1>4, <1>5, <1>6
<1>8. Burnt(c) \in Int /\ Unpaid(c) \in Int
  BY <1>2, <1>5, <1>6
<1>9. c.txs \in Seq(Transactions) /\ c.coinbase \in Accounts
  BY <1>2, <1>3
<1> QED BY <1>1, <1>a, <1>4, <1>7, <1>8, <1>9 DEF SupplyInv, SupplyIsAccounted

\* Adopting a block b whose accounts are right.
LEMMA AdoptSupply ==
  ASSUME DepositContract # FeeCollector,
         number \in Nat, world.balance \in Amounts,
         ledger.issued \in Int, ledger.burnt \in Int, ledger.unpaid \in Int,
         SupplyIsAccounted,
         NEW b, b.world.balance \in Amounts,
         Burnt(b) \in Int, Unpaid(b) \in Int,
         Supply(b.world) = Supply(world) - Burnt(b) + Unpaid(b),
         NEW payout \in [Accounts -> Nat], NEW rewards \in [Accounts -> Nat],
         Adopt(b, payout, rewards)
  PROVE  /\ number' \in Nat
         /\ world'.balance \in Amounts
         /\ ledger'.issued \in Int /\ ledger'.burnt \in Int /\ ledger'.unpaid \in Int
         /\ SupplyIsAccounted'
<1> DEFINE outcome == PostBlockSystemCalls(b, number + 1, payout, rewards)
<1>1. /\ CanPay(b, payout)
      /\ number' = number + 1
      /\ world' = IncrementBalances(outcome.world, outcome.rewards)
      /\ ledger' = [issued |-> ledger.issued + Total(outcome.rewards),
                    burnt  |-> ledger.burnt + Burnt(b),
                    unpaid |-> ledger.unpaid + Unpaid(b)]
  BY DEF Adopt, Burnt, Unpaid
<1>2. /\ outcome.world.balance \in Amounts
      /\ Supply(outcome.world) = Supply(b.world)
      /\ outcome.rewards \in [Accounts -> Nat]
  <2>1. number + 1 \in Nat
    OBVIOUS
  <2> QED BY <1>1, <2>1, PostBlockSupply
<1> HIDE DEF outcome
<1>3. /\ world'.balance \in Amounts
      /\ Supply(world') = Supply(outcome.world) + Total(outcome.rewards)
  BY <1>1, <1>2, IncrementSupply
<1>4. Total(outcome.rewards) \in Nat
  BY <1>2, TotalNat
<1>5. Supply(world) = Total(GenesisBalance) + ledger.issued - ledger.burnt + ledger.unpaid
  BY DEF SupplyIsAccounted
<1>6. Total(GenesisBalance) \in Nat
  BY BlockExecutionAssumption, TotalNat
<1>7. /\ ledger'.issued = ledger.issued + Total(outcome.rewards)
      /\ ledger'.burnt = ledger.burnt + Burnt(b)
      /\ ledger'.unpaid = ledger.unpaid + Unpaid(b)
  BY <1>1
<1>8. Supply(world') = Total(GenesisBalance) + ledger'.issued - ledger'.burnt + ledger'.unpaid
  BY <1>2, <1>3, <1>4, <1>5, <1>6, <1>7
<1>9. SupplyIsAccounted'
  BY <1>8 DEF SupplyIsAccounted
<1> QED BY <1>1, <1>3, <1>4, <1>7, <1>9

\* Every step keeps the accounts.
LEMMA SupplyStep ==
  ASSUME DepositContract # FeeCollector, SupplyInv, [Next]_execVars
  PROVE  SupplyInv'
<1>1. CASE UNCHANGED execVars
  BY <1>1 DEF SupplyInv, SupplyIsAccounted, execVars
<1>2. ASSUME NEW a \in Coinbases, OpenBlock(a) PROVE SupplyInv'
  BY <1>2, OpenSupply
<1>3. ASSUME NEW tx \in Transactions, ExecuteTransaction(tx) PROVE SupplyInv'
  BY <1>3, ExecuteSupply
<1>4. CASE FailBlock
  BY <1>4 DEF FailBlock, SupplyInv, SupplyIsAccounted
<1>5. ASSUME NEW payout \in Payouts, NEW rewards \in Rewards, FinishBlock(payout, rewards)
      PROVE  SupplyInv'
  <2>1. /\ block # None /\ block' = None /\ Adopt(block, payout, rewards)
        /\ payout \in [Accounts -> Nat] /\ rewards \in [Accounts -> Nat]
    BY <1>5, BlockExecutionAssumption DEF FinishBlock
  <2>2. /\ number' \in Nat
        /\ world'.balance \in Amounts
        /\ ledger'.issued \in Int /\ ledger'.burnt \in Int /\ ledger'.unpaid \in Int
        /\ SupplyIsAccounted'
    <3>1. /\ number \in Nat /\ world.balance \in Amounts
          /\ ledger.issued \in Int /\ ledger.burnt \in Int /\ ledger.unpaid \in Int
          /\ SupplyIsAccounted /\ block.world.balance \in Amounts
          /\ Burnt(block) \in Int /\ Unpaid(block) \in Int
          /\ Supply(block.world) = Supply(world) - Burnt(block) + Unpaid(block)
      BY <2>1 DEF SupplyInv
    <3> QED BY <2>1, <3>1, AdoptSupply
  <2> QED BY <2>1, <2>2 DEF SupplyInv
<1> QED BY <1>1, <1>2, <1>3, <1>4, <1>5 DEF Next

\* No block makes or loses money but as the ledger says: the reward contract
\* mints, blob fees are burnt before Prague, and the collector is credited with
\* the base fee that a transaction of the time before the merge did not pay
\* (GnosisEvmHandler::reward_beneficiary, transact_system_call).  The deposit
\* contract is not the fee collector, as in every chain specification: the
\* clean-up of a system call would drop it and pay the withdrawals out of nothing.
THEOREM MoneyIsAccounted ==
  ASSUME DepositContract # FeeCollector
  PROVE  Spec => []SupplyIsAccounted
<1>1. SupplyInv => SupplyIsAccounted
  BY DEF SupplyInv
<1> QED BY <1>1, SupplyInit, SupplyStep, PTL DEF Spec

(***************************************************************************)
(* The storage of contracts, and the rewards recorded in it.               *)
(***************************************************************************)
Storages == [Contracts -> Nat]

\* A call adds its mark to the storage of the contract it goes to, unless the
\* clean-up drops the contract, and to no other.
LEMMA CallStorage ==
  ASSUME NEW w, w.storage \in Storages, NEW contract \in Contracts, NEW mark \in Nat,
         NEW pays, NEW coinbase, NEW diff,
         diff = TransactSystemCall(w, contract, Effect(mark, pays), coinbase)
  PROVE  /\ contract \in DOMAIN diff <=> contract \notin {coinbase, FeeCollector}
         /\ CommitDiff(w, diff).storage =
              IF contract \in DOMAIN diff
              THEN [w.storage EXCEPT ![contract] = @ + mark] ELSE w.storage
<1> DEFINE touched == TransactedDiff(w, contract, Effect(mark, pays), coinbase)
<1>1. /\ contract \in DOMAIN touched
      /\ \A c \in Contracts \cap DOMAIN touched :
           touched[c].storage = w.storage[c] + (IF c = contract THEN mark ELSE 0)
  BY DEF TransactedDiff, Effect, StorageOf
<1>2. diff = CleanUp(touched, w, coinbase)
  BY DEF TransactSystemCall
<1>3. SystemAddress \notin Contracts
  BY SystemCallsAssumption
<1> HIDE DEF touched
<1>4. /\ DOMAIN diff = DOMAIN touched \ {coinbase, FeeCollector}
      /\ \A c \in Contracts \cap DOMAIN diff : diff[c] = touched[c]
  BY <1>2, <1>3 DEF CleanUp
<1>5. contract \in DOMAIN diff <=> contract \notin {coinbase, FeeCollector}
  BY <1>1, <1>4
<1> DEFINE after == CommitDiff(w, diff).storage
           expected == IF contract \in DOMAIN diff
                       THEN [w.storage EXCEPT ![contract] = @ + mark] ELSE w.storage
<1>6. after = [c \in Contracts |-> IF c \in DOMAIN diff THEN diff[c].storage ELSE w.storage[c]]
  BY DEF CommitDiff
<1>7. ASSUME NEW c \in Contracts
      PROVE  (IF c \in DOMAIN diff THEN diff[c].storage ELSE w.storage[c]) = expected[c]
  <2>1. w.storage[c] \in Nat
    BY DEF Storages
  <2>2. expected[c] = IF c = contract /\ contract \in DOMAIN diff
                      THEN w.storage[c] + mark ELSE w.storage[c]
    BY DEF Storages
  <2>3. CASE c \in DOMAIN diff
    BY <1>1, <1>4, <2>1, <2>2, <2>3
  <2>4. CASE c \notin DOMAIN diff
    BY <2>2, <2>4
  <2> QED BY <2>3, <2>4
<1>8. expected = [c \in Contracts |-> expected[c]]
  BY DEF Storages
<1>9. after = expected
  <2> HIDE DEF after, expected
  <2> QED BY <1>6, <1>7, <1>8
<1> QED BY <1>5, <1>9

\* A call of a contract that is not for rewards leaves the records alone.
Unrecorded == {DepositContract, HistoryContract, RootsContract, RequestsContract}

SameRecords(w, v) ==
  v.storage \in Storages /\ \A c \in RewardContracts : v.storage[c] = w.storage[c]

\* A system call of another contract.
LEMMA OtherCallRecords ==
  ASSUME RewardContracts \cap Unrecorded = {},
         NEW w, w.storage \in Storages, NEW contract \in Unrecorded, NEW mark \in Nat,
         NEW pays, NEW coinbase
  PROVE  SameRecords(w, SystemCallAndCommit(w, contract, Effect(mark, pays), coinbase))
<1> DEFINE diff == TransactSystemCall(w, contract, Effect(mark, pays), coinbase)
<1>1. contract \in Contracts /\ contract \notin RewardContracts
  BY BlockExecutionAssumption DEF Unrecorded
<1>2. CommitDiff(w, diff).storage =
        IF contract \in DOMAIN diff
        THEN [w.storage EXCEPT ![contract] = @ + mark] ELSE w.storage
  BY <1>1, CallStorage
<1> HIDE DEF diff
<1>3. RewardContracts \subseteq Contracts
  BY BlockExecutionAssumption DEF RewardContracts
<1>4. SameRecords(w, CommitDiff(w, diff))
  BY <1>1, <1>2, <1>3 DEF SameRecords, Storages
<1> QED BY <1>4 DEF SystemCallAndCommit, diff

LEMMA ContractCalledRecords ==
  ASSUME RewardContracts \cap Unrecorded = {},
         NEW w, w.storage \in Storages, NEW contract \in Unrecorded, NEW coinbase
  PROVE  SameRecords(w, ContractCalled(w, contract, coinbase))
BY OtherCallRecords DEF ContractCalled

LEMMA PreExecutionRecords ==
  ASSUME RewardContracts \cap Unrecorded = {},
         NEW w, w.storage \in Storages, NEW k, NEW coinbase
  PROVE  SameRecords(w, ApplyPreExecutionChanges(w, k, coinbase))
<1> DEFINE hashed == IF Active(k, "prague")
                     THEN ContractCalled(w, HistoryContract, coinbase) ELSE w
<1>1. HistoryContract \in Unrecorded /\ RootsContract \in Unrecorded
  BY DEF Unrecorded
<1>2. SameRecords(w, hashed)
  BY <1>1, ContractCalledRecords DEF SameRecords
<1> HIDE DEF hashed
<1>3. hashed.storage \in Storages
  BY <1>2 DEF SameRecords
<1>4. SameRecords(hashed, ContractCalled(hashed, RootsContract, coinbase))
  BY <1>1, <1>3, ContractCalledRecords
<1>5. SameRecords(w, ContractCalled(hashed, RootsContract, coinbase))
  BY <1>2, <1>4 DEF SameRecords
<1> QED BY <1>2, <1>5 DEF ApplyPreExecutionChanges, hashed

\* A transaction.
LEMMA TransactRecords ==
  ASSUME NEW w, w.storage \in Storages, NEW tx, NEW k, NEW coinbase
  PROVE  SameRecords(w, Transact(w, tx, k, coinbase))
<1>1. Transact(w, tx, k, coinbase).storage = w.storage
  BY DEF Transact
<1> QED BY <1>1 DEF SameRecords

\* What the chain has recorded.
Recorded(w) == SumOf(w.storage, RewardContracts)

\* The same storage is the same record.
LEMMA RecordedSame ==
  ASSUME NEW w, w.storage \in Storages, NEW v, SameRecords(w, v)
  PROVE  Recorded(v) = Recorded(w)
<1>1. RewardContracts \subseteq Contracts /\ IsFiniteSet(RewardContracts)
  <2>1. RewardContracts \subseteq Contracts /\ RewardContracts \in SUBSET Accounts
    BY BlockExecutionAssumption, SystemCallsAssumption DEF RewardContracts
  <2> QED BY <2>1, SystemCallsAssumption, FS_Subset
<1>2. \A c \in RewardContracts : w.storage[c] \in Int /\ v.storage[c] = w.storage[c]
  BY <1>1 DEF Storages, SameRecords
<1> QED BY <1>1, <1>2, SumSame DEF Recorded

\* The reward call records what it is answered, or is not answered.
LEMMA RewardCallRecords ==
  ASSUME NEW w, w.storage \in Storages, NEW n \in Nat,
         NEW rewards \in [Accounts -> Nat], NEW coinbase, NEW outcome,
         outcome = RewardCall(w, RewardContractAt(n), rewards, coinbase)
  PROVE  /\ outcome.world.storage \in Storages
         /\ Recorded(outcome.world) = Recorded(w) + Total(outcome.rewards)
         /\ Total(outcome.rewards) \in Nat /\ Recorded(w) \in Int
<1> DEFINE contract == RewardContractAt(n)
           mark == Total(rewards)
           diff == TransactSystemCall(w, contract, Effect(mark, Nothing), coinbase)
           paid == CommitDiff(w, diff)
<1>1. contract \in RewardContracts /\ contract \in Contracts
  BY RewardContractIs
<1>2. mark \in Nat
  BY TotalNat
<1>3. paid.storage = IF contract \in DOMAIN diff
                     THEN [w.storage EXCEPT ![contract] = @ + mark] ELSE w.storage
  <2> HIDE DEF contract, mark
  <2> QED BY <1>1, <1>2, CallStorage
<1>4. outcome = IF contract \in Deployed \cap DOMAIN diff
                THEN [world |-> paid, rewards |-> rewards]
                ELSE [world |-> w, rewards |-> Nothing]
  BY DEF RewardCall
<1>5. /\ RewardContracts \subseteq Contracts /\ IsFiniteSet(RewardContracts)
      /\ \A c \in RewardContracts : w.storage[c] \in Int
  <2>1. RewardContracts \subseteq Contracts /\ RewardContracts \in SUBSET Accounts
    BY BlockExecutionAssumption, SystemCallsAssumption DEF RewardContracts
  <2> QED BY <2>1, SystemCallsAssumption, FS_Subset DEF Storages
<1>6. Recorded(w) \in Int
  BY <1>5, SumInt DEF Recorded
<1> HIDE DEF contract, diff, paid
<1>7. CASE contract \in Deployed \cap DOMAIN diff
  <2>1. outcome.world = paid /\ outcome.rewards = rewards
    BY <1>4, <1>7
  <2> HIDE DEF mark
  <2>2. /\ paid.storage \in Storages /\ paid.storage[contract] = w.storage[contract] + mark
        /\ \A c \in RewardContracts : c # contract => paid.storage[c] = w.storage[c]
    BY <1>1, <1>2, <1>3, <1>5, <1>7 DEF Storages
  <2>3. w.storage[contract] \in Int /\ paid.storage[contract] \in Int
    BY <1>1, <1>2, <1>5, <2>2
  <2>4. SumOf(paid.storage, RewardContracts) =
          SumOf(w.storage, RewardContracts) + (paid.storage[contract] - w.storage[contract])
    BY <1>1, <1>5, <2>2, <2>3, SumChanges
  <2>5. Recorded(paid) = Recorded(w) + mark
    BY <1>2, <1>6, <2>2, <2>3, <2>4 DEF Recorded
  <2> QED BY <1>2, <1>6, <2>1, <2>2, <2>5 DEF mark
<1>8. CASE contract \notin Deployed \cap DOMAIN diff
  <2>1. outcome.world = w /\ outcome.rewards = Nothing
    BY <1>4, <1>8
  <2> QED BY <1>6, <2>1, TotalNothing
<1> QED BY <1>7, <1>8

\* All calls that end a block.
LEMMA PostBlockRecords ==
  ASSUME RewardContracts \cap Unrecorded = {},
         NEW b, b.world.storage \in Storages, NEW n \in Nat,
         NEW payout, NEW rewards \in [Accounts -> Nat], NEW outcome,
         outcome = PostBlockSystemCalls(b, n, payout, rewards)
  PROVE  /\ outcome.world.storage \in Storages
         /\ Recorded(outcome.world) = Recorded(b.world) + Total(outcome.rewards)
         /\ Total(outcome.rewards) \in Nat /\ Recorded(b.world) \in Int
<1> DEFINE requested == IF Active(b.fork, "prague")
                        THEN ContractCalled(b.world, RequestsContract, b.coinbase)
                        ELSE b.world
           effect == Effect(IF DepositContract \in Deployed THEN 1 ELSE 0, payout)
           withdrawn == IF Active(b.fork, "shanghai")
                        THEN SystemCallAndCommit(requested, DepositContract, effect, b.coinbase)
                        ELSE requested
<1>1. RequestsContract \in Unrecorded /\ DepositContract \in Unrecorded
  BY DEF Unrecorded
<1>2. SameRecords(b.world, requested)
  BY <1>1, ContractCalledRecords DEF SameRecords
<1> HIDE DEF requested
<1>3. requested.storage \in Storages
  BY <1>2 DEF SameRecords
<1>4. SameRecords(requested, withdrawn)
  <2>1. (IF DepositContract \in Deployed THEN 1 ELSE 0) \in Nat
    OBVIOUS
  <2>2. SameRecords(requested, SystemCallAndCommit(requested, DepositContract, effect, b.coinbase))
    BY <1>1, <1>3, <2>1, OtherCallRecords
  <2> QED BY <1>3, <2>2 DEF SameRecords
<1>5. outcome = RewardCall(withdrawn, RewardContractAt(n), rewards, b.coinbase)
  BY DEF PostBlockSystemCalls, requested
<1> HIDE DEF withdrawn
<1>6. SameRecords(b.world, withdrawn) /\ withdrawn.storage \in Storages
  BY <1>2, <1>4 DEF SameRecords
<1>7. Recorded(withdrawn) = Recorded(b.world)
  BY <1>6, RecordedSame
<1> QED BY <1>5, <1>6, <1>7, RewardCallRecords

-----------------------------------------------------------------------------
\* A block under execution has called no reward contract yet.
RecordInv ==
  /\ number \in Nat
  /\ world.storage \in Storages
  /\ ledger.issued = Recorded(world)
  /\ block # None => SameRecords(world, block.world)

\* Every step keeps the records.
LEMMA RecordStep ==
  ASSUME RewardContracts \cap Unrecorded = {}, RecordInv, [Next]_execVars
  PROVE  RecordInv'
<1>1. CASE UNCHANGED execVars
  BY <1>1 DEF RecordInv, execVars
<1>2. ASSUME NEW a \in Coinbases, OpenBlock(a) PROVE RecordInv'
  <2>1. /\ block' = NewBlock(NextFork, a) /\ number' = number
        /\ world' = world /\ ledger' = ledger /\ world.storage \in Storages
    BY <1>2 DEF OpenBlock, RecordInv
  <2>2. block'.world = ApplyPreExecutionChanges(world, NextFork, a)
    BY <2>1 DEF NewBlock
  <2>3. SameRecords(world', block'.world)
    BY <2>1, <2>2, PreExecutionRecords
  <2> QED BY <2>1, <2>3 DEF RecordInv
<1>3. ASSUME NEW tx \in Transactions, ExecuteTransaction(tx) PROVE RecordInv'
  <2>1. /\ block # None /\ block' = CommitTransaction(block, tx) /\ number' = number
        /\ world' = world /\ ledger' = ledger /\ SameRecords(world, block.world)
    BY <1>3 DEF ExecuteTransaction, RecordInv
  <2>2. block'.world = Transact(block.world, tx, block.fork, block.coinbase)
    BY <2>1 DEF CommitTransaction
  <2>3. SameRecords(block.world, block'.world)
    BY <2>1, <2>2, TransactRecords DEF SameRecords
  <2>4. SameRecords(world', block'.world)
    BY <2>1, <2>3 DEF SameRecords
  <2> QED BY <2>1, <2>4 DEF RecordInv
<1>4. CASE FailBlock
  BY <1>4 DEF FailBlock, RecordInv
<1>5. ASSUME NEW payout \in Payouts, NEW rewards \in Rewards, FinishBlock(payout, rewards)
      PROVE  RecordInv'
  <2> DEFINE outcome == PostBlockSystemCalls(block, number + 1, payout, rewards)
  <2>1. /\ number \in Nat /\ world.storage \in Storages /\ ledger.issued = Recorded(world)
        /\ SameRecords(world, block.world) /\ block' = None
        /\ number' = number + 1
        /\ world' = IncrementBalances(outcome.world, outcome.rewards)
        /\ ledger'.issued = ledger.issued + Total(outcome.rewards)
    BY <1>5 DEF FinishBlock, RecordInv, Adopt
  <2>2. number + 1 \in Nat /\ rewards \in [Accounts -> Nat] /\ block.world.storage \in Storages
    BY <2>1, BlockExecutionAssumption DEF SameRecords
  <2>3. /\ outcome.world.storage \in Storages
        /\ Recorded(outcome.world) = Recorded(block.world) + Total(outcome.rewards)
        /\ Total(outcome.rewards) \in Nat /\ Recorded(block.world) \in Int
    BY <2>2, PostBlockRecords
  <2> HIDE DEF outcome
  <2>4. world'.storage = outcome.world.storage
    BY <2>1 DEF IncrementBalances
  <2>5. Recorded(world') = Recorded(outcome.world)
    BY <2>4 DEF Recorded
  <2>6. Recorded(block.world) = Recorded(world)
    BY <2>1, RecordedSame
  <2>7. world'.storage \in Storages /\ ledger'.issued = Recorded(world')
    BY <2>1, <2>3, <2>4, <2>5, <2>6
  <2> QED BY <2>1, <2>2, <2>7 DEF RecordInv
<1> QED BY <1>1, <1>2, <1>3, <1>4, <1>5 DEF Next

LEMMA RecordInit == Init => RecordInv
<1> SUFFICES ASSUME Init PROVE RecordInv
  OBVIOUS
<1>1. /\ number = 0 /\ block = None /\ ledger.issued = 0
      /\ world.storage = [c \in Contracts |-> 0]
  BY DEF Init
<1>2. /\ RewardContracts \subseteq Contracts /\ IsFiniteSet(RewardContracts)
      /\ \A c \in RewardContracts : world.storage[c] = 0
  <2>1. RewardContracts \subseteq Contracts /\ RewardContracts \in SUBSET Accounts
    BY BlockExecutionAssumption, SystemCallsAssumption DEF RewardContracts
  <2> QED BY <1>1, <2>1, SystemCallsAssumption, FS_Subset
<1>3. Recorded(world) = 0
  BY <1>2, SumZero DEF Recorded
<1> QED BY <1>1, <1>3 DEF RecordInv, Storages

\* On every chain whose reward contracts are contracts of their own, the rewards
\* credited to accounts are those that the reward contracts have recorded:
\* apply_block_rewards_contract_call credits if and only if it commits, whoever
\* the beneficiary of the block is.
THEOREM RewardsRecorded ==
  ASSUME RewardContracts
           \cap {DepositContract, HistoryContract, RootsContract, RequestsContract} = {}
  PROVE  Spec => []RewardsAreRecorded
<1>1. RecordInv => RewardsAreRecorded
  <2>1. RewardContracts \ {DepositContract, HistoryContract, RootsContract, RequestsContract}
          = RewardContracts
    OBVIOUS
  <2> QED BY <2>1 DEF RecordInv, Recorded, SumOf, RewardsAreRecorded
<1>2. RewardContracts \cap Unrecorded = {}
  BY DEF Unrecorded
<1> QED BY <1>1, <1>2, RecordInit, RecordStep, PTL DEF Spec

(***************************************************************************)
(* The executor's run of a list of transactions on the head.               *)
(***************************************************************************)
Opened(w, f, coinbase) ==
  [fork |-> f, coinbase |-> coinbase,
   world |-> ApplyPreExecutionChanges(w, f, coinbase),
   gas |-> 0, blobs |-> 0, txs |-> <<>>]

RunOn(w, f, coinbase, txs) ==
  FoldLeft(CommitTransaction, Opened(w, f, coinbase), txs)

\* every transaction is executable after those before it
AllExecutable(w, f, coinbase, txs) ==
  \A i \in DOMAIN txs :
    Executable(RunOn(w, f, coinbase, SubSeq(txs, 1, i - 1)), txs[i])

BlobTxs(txs) == Cardinality({i \in DOMAIN txs : IsBlob(txs[i])})

\* A run of no transaction, and of one more.
LEMMA RunEmpty ==
  ASSUME NEW w, NEW f, NEW coinbase
  PROVE  RunOn(w, f, coinbase, <<>>) = Opened(w, f, coinbase)
<1>1. <<>> \in Seq({})
  OBVIOUS
<1> DEFINE base == Opened(w, f, coinbase)
           result == FoldLeft(CommitTransaction, base, <<>>)
<1>2. IsFold(Commit, base, <<>>, result)
  <2> HIDE DEF base
  <2> QED BY <1>1, CommitFolds
<1> HIDE DEF base, result
<1>3. result = base
  BY <1>2, FoldEmpty
<1> QED BY <1>3 DEF RunOn, base, result

LEMMA RunAppend ==
  ASSUME NEW w, NEW f, NEW coinbase, NEW txs \in Seq(Transactions), NEW tx \in Transactions
  PROVE  RunOn(w, f, coinbase, Append(txs, tx)) =
           CommitTransaction(RunOn(w, f, coinbase, txs), tx)
<1> DEFINE base == Opened(w, f, coinbase)
           before == FoldLeft(CommitTransaction, base, txs)
           longer == Append(txs, tx)
           after == FoldLeft(CommitTransaction, base, longer)
<1>1. longer \in Seq(Transactions)
  OBVIOUS
<1>2. IsFold(Commit, base, txs, before)
  <2> HIDE DEF base
  <2> QED BY CommitFolds
<1>3. IsFold(Commit, base, longer, after)
  <2> HIDE DEF base, longer
  <2> QED BY <1>1, CommitFolds
<1> HIDE DEF base, before, after
<1>4. after = Folded(Commit, before, tx)
  BY <1>2, <1>3, FoldAppend
<1>5. after = CommitTransaction(before, tx)
  BY <1>4 DEF Folded, Commit
<1> QED BY <1>5 DEF RunOn, base, before, after

\* The prefixes of a longer list.
LEMMA PartsOfAppend ==
  ASSUME NEW S, NEW s \in Seq(S), NEW x \in S
  PROVE  /\ Append(s, x) \in Seq(S) /\ DOMAIN Append(s, x) = DOMAIN s \cup {Len(s) + 1}
         /\ DOMAIN s = 1..Len(s) /\ Len(s) \in Nat
         /\ \A i \in DOMAIN s : /\ Append(s, x)[i] = s[i]
                                /\ SubSeq(Append(s, x), 1, i - 1) = SubSeq(s, 1, i - 1)
         /\ Append(s, x)[Len(s) + 1] = x
         /\ SubSeq(Append(s, x), 1, (Len(s) + 1) - 1) = s
<1>1. /\ Append(s, x) \in Seq(S) /\ DOMAIN Append(s, x) = DOMAIN s \cup {Len(s) + 1}
      /\ DOMAIN s = 1..Len(s) /\ Len(s) \in Nat
      /\ \A i \in DOMAIN s : Append(s, x)[i] = s[i]
      /\ Append(s, x)[Len(s) + 1] = x
  OBVIOUS
<1>2. ASSUME NEW i \in DOMAIN s
      PROVE  SubSeq(Append(s, x), 1, i - 1) = SubSeq(s, 1, i - 1)
  <2>1. i - 1 \in 0..Len(s) /\ i - 1 \in Nat
    BY <1>1
  <2> DEFINE p == SubSeq(Append(s, x), 1, i - 1)
             q == SubSeq(s, 1, i - 1)
  <2>2. p = [j \in 1..(i - 1) |-> Append(s, x)[j]]
    BY <1>1, <2>1
  <2>3. q = [j \in 1..(i - 1) |-> s[j]]
    BY <1>1, <2>1
  <2>4. \A j \in 1..(i - 1) : Append(s, x)[j] = s[j]
    BY <1>1, <2>1
  <2> QED BY <2>2, <2>3, <2>4
<1>3. SubSeq(Append(s, x), 1, (Len(s) + 1) - 1) = s
  <2>1. (Len(s) + 1) - 1 = Len(s)
    BY <1>1
  <2>2. SubSeq(Append(s, x), 1, Len(s)) = [j \in 1..Len(s) |-> Append(s, x)[j]]
    BY <1>1
  <2>3. \A j \in 1..Len(s) : Append(s, x)[j] = s[j]
    BY <1>1
  <2>4. s = [j \in 1..Len(s) |-> s[j]]
    BY <1>1
  <2> QED BY <2>1, <2>2, <2>3, <2>4
<1> QED BY <1>1, <1>2, <1>3

\* A transaction that is executable after the others may be added.
LEMMA ExecutableAppend ==
  ASSUME NEW w, NEW f, NEW coinbase, NEW txs \in Seq(Transactions), NEW tx \in Transactions,
         AllExecutable(w, f, coinbase, txs),
         Executable(RunOn(w, f, coinbase, txs), tx)
  PROVE  AllExecutable(w, f, coinbase, Append(txs, tx))
<1> DEFINE longer == Append(txs, tx)
           n == Len(txs)
<1>1. /\ DOMAIN longer = DOMAIN txs \cup {n + 1}
      /\ \A i \in DOMAIN txs : /\ longer[i] = txs[i]
                               /\ SubSeq(longer, 1, i - 1) = SubSeq(txs, 1, i - 1)
      /\ longer[n + 1] = tx /\ SubSeq(longer, 1, (n + 1) - 1) = txs
  BY PartsOfAppend
<1> HIDE DEF longer, n
<1>2. ASSUME NEW i \in DOMAIN longer
      PROVE  Executable(RunOn(w, f, coinbase, SubSeq(longer, 1, i - 1)), longer[i])
  <2>1. CASE i \in DOMAIN txs
    BY <1>1, <2>1 DEF AllExecutable
  <2>2. CASE i = n + 1
    BY <1>1, <2>2
  <2> QED BY <1>1, <2>1, <2>2
<1> QED BY <1>2 DEF AllExecutable, longer

\* It adds one blob transaction, or none.
LEMMA CountAppend ==
  ASSUME NEW txs \in Seq(Transactions), NEW tx \in Transactions
  PROVE  /\ BlobTxs(txs) \in Nat
         /\ BlobTxs(Append(txs, tx)) = BlobTxs(txs) + (IF IsBlob(tx) THEN 1 ELSE 0)
<1> DEFINE n == Len(txs)
           longer == Append(txs, tx)
           some == {i \in DOMAIN txs : IsBlob(txs[i])}
           more == {i \in DOMAIN longer : IsBlob(longer[i])}
<1>1. /\ DOMAIN longer = DOMAIN txs \cup {n + 1} /\ DOMAIN txs = 1..n /\ n \in Nat
      /\ \A i \in DOMAIN txs : longer[i] = txs[i]
      /\ longer[n + 1] = tx
  BY PartsOfAppend
<1>2. IsFiniteSet(some)
  <2>1. IsFiniteSet(1..n)
    BY <1>1, FS_Interval
  <2>2. some \in SUBSET (1..n)
    BY <1>1
  <2> QED BY <2>1, <2>2, FS_Subset
<1>3. n + 1 \notin some
  BY <1>1
<1>4. more = IF IsBlob(tx) THEN some \cup {n + 1} ELSE some
  <2> HIDE DEF longer, n
  <2> QED BY <1>1
<1>5. Cardinality(some) \in Nat
  BY <1>2, FS_CardinalityType
<1>6. Cardinality(some \cup {n + 1}) = Cardinality(some) + 1
  BY <1>2, <1>3, FS_AddElement
<1> HIDE DEF some, more, n, longer
<1>7. Cardinality(more) = Cardinality(some) + (IF IsBlob(tx) THEN 1 ELSE 0)
  BY <1>4, <1>5, <1>6
<1> QED BY <1>5, <1>7 DEF BlobTxs, some, more, longer

LEMMA CountEmpty == BlobTxs(<<>>) = 0
<1>1. {i \in DOMAIN <<>> : IsBlob(<<>>[i])} = {}
  OBVIOUS
<1> QED BY <1>1, FS_EmptySet DEF BlobTxs

(***************************************************************************)
(* The worlds of the payload builder: balances are never negative.         *)
(***************************************************************************)
LEMMA WorldParts ==
  ASSUME NEW w \in WorldType
  PROVE  /\ w.balance \in [Accounts -> Nat] /\ w.nonce \in [Accounts -> Nat]
         /\ w.storage \in Storages /\ w.present \in BOOLEAN /\ w.balance \in Amounts
BY DEF WorldType, Storages, Amounts

\* System calls that pay nothing.
LEMMA NothingCallType ==
  ASSUME NEW w \in WorldType, NEW contract \in Contracts, NEW mark \in Nat,
         NEW coinbase, NEW diff,
         diff = TransactSystemCall(w, contract, Effect(mark, Nothing), coinbase)
  PROVE  CommitDiff(w, diff) \in WorldType
<1> DEFINE after == CommitDiff(w, diff)
<1>1. /\ w.balance \in [Accounts -> Nat] /\ w.nonce \in [Accounts -> Nat]
      /\ w.storage \in Storages /\ w.present \in BOOLEAN /\ w.balance \in Amounts
  BY WorldParts
<1>2. after.balance \in [Accounts -> Nat]
  <2>1. ASSUME NEW a \in Accounts PROVE after.balance[a] \in Nat
    <3>1. after.balance[a] =
            w.balance[a] + Nothing[a] - (IF a = contract THEN Total(Nothing) ELSE 0)
      BY <1>1, NothingPays, CallBalances
    <3>2. Nothing[a] = 0 /\ Total(Nothing) = 0
      BY TotalNothing DEF Nothing
    <3> HIDE DEF after
    <3> QED BY <1>1, <3>1, <3>2
  <2>2. after.balance = [a \in Accounts |-> after.balance[a]]
    BY DEF CommitDiff
  <2> HIDE DEF after
  <2> QED BY <2>1, <2>2
<1>3. after.storage \in [Contracts -> Nat]
  <2>1. after.storage = IF contract \in DOMAIN diff
                        THEN [w.storage EXCEPT ![contract] = @ + mark] ELSE w.storage
    BY <1>1, CallStorage
  <2> HIDE DEF after
  <2> QED BY <1>1, <2>1 DEF Storages
<1>4. after.nonce \in [Accounts -> Nat]
  <2>1. \A a \in Accounts \cap DOMAIN diff : diff[a].nonce \in Nat
    BY <1>1, NoncesOfCall
  <2> QED BY <1>1, <2>1 DEF CommitDiff
<1>5. after.present \in BOOLEAN
  BY DEF CommitDiff
<1>6. after = [balance |-> after.balance, nonce |-> after.nonce,
               storage |-> after.storage, present |-> after.present]
  BY DEF CommitDiff
<1> HIDE DEF after
<1>7. \A p \in BOOLEAN : [balance |-> after.balance, nonce |-> after.nonce,
                          storage |-> after.storage, present |-> p] \in WorldType
  BY <1>2, <1>3, <1>4 DEF WorldType
<1> QED BY <1>5, <1>6, <1>7 DEF after

LEMMA ContractCalledType ==
  ASSUME NEW w \in WorldType, NEW contract \in Contracts, NEW coinbase
  PROVE  ContractCalled(w, contract, coinbase) \in WorldType
<1>1. (IF contract \in Deployed THEN 1 ELSE 0) \in Nat
  OBVIOUS
<1> QED BY <1>1, NothingCallType DEF ContractCalled, SystemCallAndCommit

\* The calls before the transactions: the balance of the beneficiary stays.
LEMMA PreExecutionType ==
  ASSUME NEW w \in WorldType, NEW k, NEW coinbase \in Accounts
  PROVE  /\ ApplyPreExecutionChanges(w, k, coinbase) \in WorldType
         /\ ApplyPreExecutionChanges(w, k, coinbase).balance[coinbase] = w.balance[coinbase]
<1> DEFINE hashed == IF Active(k, "prague")
                     THEN ContractCalled(w, HistoryContract, coinbase) ELSE w
<1>1. HistoryContract \in Contracts /\ RootsContract \in Contracts
  BY BlockExecutionAssumption
<1>2. \A v, contract : ContractCalled(v, contract, coinbase).balance[coinbase] = v.balance[coinbase]
  BY SystemCallLeavesAlone DEF ContractCalled
<1>3. hashed \in WorldType /\ hashed.balance[coinbase] = w.balance[coinbase]
  BY <1>1, <1>2, ContractCalledType
<1> HIDE DEF hashed
<1>4. /\ ContractCalled(hashed, RootsContract, coinbase) \in WorldType
      /\ ContractCalled(hashed, RootsContract, coinbase).balance[coinbase] = w.balance[coinbase]
  BY <1>1, <1>2, <1>3, ContractCalledType
<1> QED BY <1>3, <1>4 DEF ApplyPreExecutionChanges, hashed

\* The rewards.
LEMMA IncrementType ==
  ASSUME NEW w \in WorldType, NEW rewards \in [Accounts -> Nat]
  PROVE  IncrementBalances(w, rewards) \in WorldType
<1> DEFINE b == [a \in Accounts |-> w.balance[a] + rewards[a]]
<1>1. b \in [Accounts -> Nat]
  BY WorldParts
<1>2. IncrementBalances(w, rewards) = [w EXCEPT !.balance = b]
  BY DEF IncrementBalances
<1> HIDE DEF b
<1> QED BY <1>1, <1>2 DEF WorldType

\* The calls that end a block, without withdrawals.
LEMMA PostBlockType ==
  ASSUME NEW b, b.world \in WorldType, NEW n \in Nat,
         NEW rewards \in [Accounts -> Nat], NEW outcome,
         outcome = PostBlockSystemCalls(b, n, Nothing, rewards)
  PROVE  outcome.world \in WorldType /\ outcome.rewards \in [Accounts -> Nat]
<1> DEFINE requested == IF Active(b.fork, "prague")
                        THEN ContractCalled(b.world, RequestsContract, b.coinbase)
                        ELSE b.world
           mark == IF DepositContract \in Deployed THEN 1 ELSE 0
           withdrawn == IF Active(b.fork, "shanghai")
                        THEN SystemCallAndCommit(requested, DepositContract,
                               Effect(mark, Nothing), b.coinbase)
                        ELSE requested
<1>1. RequestsContract \in Contracts /\ DepositContract \in Contracts
  BY BlockExecutionAssumption
<1>2. requested \in WorldType
  BY <1>1, ContractCalledType
<1> HIDE DEF requested
<1>3. withdrawn \in WorldType
  BY <1>1, <1>2, NothingCallType DEF SystemCallAndCommit
<1> DEFINE contract == RewardContractAt(n)
           diff == TransactSystemCall(withdrawn, contract, Effect(Total(rewards), Nothing), b.coinbase)
<1>4. outcome = IF contract \in Deployed \cap DOMAIN diff
                THEN [world |-> CommitDiff(withdrawn, diff), rewards |-> rewards]
                ELSE [world |-> withdrawn, rewards |-> Nothing]
  BY DEF PostBlockSystemCalls, RewardCall, requested
<1> HIDE DEF withdrawn
<1>5. contract \in Contracts /\ Total(rewards) \in Nat
  BY RewardContractIs, TotalNat
<1>6. CommitDiff(withdrawn, diff) \in WorldType
  <2> HIDE DEF contract
  <2> QED BY <1>3, <1>5, NothingCallType
<1> HIDE DEF contract, diff
<1>7. CASE contract \in Deployed \cap DOMAIN diff
  BY <1>4, <1>6, <1>7
<1>8. CASE contract \notin Deployed \cap DOMAIN diff
  BY <1>3, <1>4, <1>8, NothingPays
<1> QED BY <1>7, <1>8

-----------------------------------------------------------------------------
(* A transaction of the builder.                                           *)

\* Products are monotonic.
LEMMA Bigger ==
  ASSUME NEW a \in Nat, NEW b \in Nat, NEW c \in Nat, NEW d \in Nat, a <= c, b <= d
  PROVE  a * b <= c * d /\ a * b \in Nat /\ c * d \in Nat
<1>1. a * b \in Nat /\ c * d \in Nat /\ a * (d - b) \in Nat /\ (c - a) * d \in Nat
  BY Product
<1>2. a * (d - b) + a * b = a * d
  BY Distributes
<1>3. (c - a) * d + a * d = c * d
  <2>1. (c - a) * d + a * d = ((c - a) + a) * d
    OBVIOUS
  <2> QED BY <2>1
<1> QED BY <1>1, <1>2, <1>3

\* The blocks that are built are of forks after the merge.
LEMMA BuiltForks ==
  ASSUME NEW i \in DOMAIN Forks
  PROVE  /\ Forks[i] \in Range(ForkOrder)
         /\ Active(Forks[i], "london") /\ Active(Forks[i], "cancun")
         /\ ~IsPreMerge(Forks[i]) /\ ChecksBaseFee(Forks[i])
<1> DEFINE f == Forks[i]
<1>1. Active(f, "cancun")
  BY PayloadAssumption
<1>2. PICK m, j \in DOMAIN ForkOrder : m <= j /\ ForkOrder[m] = "cancun" /\ ForkOrder[j] = f
  BY <1>1 DEF Active
<1>3. /\ DOMAIN ForkOrder = 1..7 /\ ForkOrder[1] = "berlin" /\ ForkOrder[2] = "london"
      /\ ForkOrder[3] = "paris"
  BY DEF ForkOrder
<1>4. m # 1 /\ m # 2 /\ m \in 1..7 /\ j \in 1..7
  BY <1>2, <1>3
<1>5. 2 <= j /\ 3 <= j /\ 2 \in DOMAIN ForkOrder /\ 3 \in DOMAIN ForkOrder
  BY <1>2, <1>3, <1>4
<1>6. Active(f, "london") /\ Active(f, "paris")
  BY <1>2, <1>3, <1>5 DEF Active
<1>7. f \in Range(ForkOrder)
  BY <1>2 DEF Range
<1> QED BY <1>1, <1>6, <1>7 DEF IsPreMerge, ChecksBaseFee

\* The next block has a fork.
LEMMA NextForkIs ==
  ASSUME number \in Nat, number < Len(Forks)
  PROVE  number + 1 \in DOMAIN Forks
<1>1. Forks \in Seq(Range(ForkOrder))
  BY BlockExecutionAssumption
<1>2. Len(Forks) \in Nat /\ DOMAIN Forks = 1..Len(Forks)
  BY <1>1
<1> QED BY <1>2

\* What a sender can be asked for, it has.
LEMMA PriceIsCovered ==
  ASSUME NEW tx \in Transactions, NEW k
  PROVE  /\ tx.used * EffectiveGasPrice(tx, k) <= tx.limit * tx.price
         /\ tx.used * EffectiveGasPrice(tx, k) \in Nat
         /\ tx.limit * tx.price \in Nat
<1>1. /\ tx.price \in Nat /\ tx.tip \in Nat /\ tx.used \in Nat /\ tx.limit \in Nat
      /\ tx.used <= tx.limit
  BY TxTypes
<1>2. EffectiveGasPrice(tx, k) \in Nat /\ BaseFee(k) \in Nat
  BY Prices
<1>3. EffectiveGasPrice(tx, k) <= tx.price
  <2>1. tx.price \in Int /\ BaseFee(k) + tx.tip \in Int
    BY <1>1, <1>2
  <2>2. Min({tx.price, BaseFee(k) + tx.tip}) =
          IF tx.price <= BaseFee(k) + tx.tip THEN tx.price ELSE BaseFee(k) + tx.tip
    BY <2>1, Ends
  <2>3. Min({tx.price, BaseFee(k) + tx.tip}) <= tx.price
    BY <1>1, <1>2, <2>2
  <2> QED BY <1>1, <2>3 DEF EffectiveGasPrice
<1> QED BY <1>1, <1>2, <1>3, Bigger

\* A transaction that is valid leaves no account in debt: what it pays is at most
\* what ValidateTransaction has asked for.
LEMMA TransactType ==
  ASSUME NEW w \in WorldType, NEW tx \in Transactions, NEW k, NEW coinbase \in Accounts,
         ValidateTransaction(w, tx, k)
  PROVE  Transact(w, tx, k, coinbase) \in WorldType
<1> DEFINE moved == Transfer(w.balance, tx)
           gas == tx.used * EffectiveGasPrice(tx, k)
           fee == BlobFee(tx)
           charged == [moved EXCEPT ![tx.from] = @ - gas - fee]
           deducted == DeductCaller(moved, tx, k)
           tip == tx.used * CoinbaseGasPrice(tx, k)
           due == tx.used * BaseFee(k)
           tipped == [deducted EXCEPT ![coinbase] = @ + tip]
           paid == RewardBeneficiary(deducted, tx, k, coinbase)
           cost == tx.limit * tx.price
<1>1. /\ tx.from \in Accounts /\ tx.to \in Accounts \cup {None} /\ tx.value \in Nat
      /\ (tx.to = None => tx.value = 0)
      /\ gas \in Nat /\ fee \in Nat /\ tip \in Nat /\ due \in Nat /\ cost \in Nat
      /\ gas <= cost /\ FeeCollector \in Accounts
  BY TxTypes, Prices, Product, PriceIsCovered, SystemCallsAssumption
<1>2. w.balance \in [Accounts -> Nat] /\ w.nonce \in [Accounts -> Nat] /\ w.storage \in Storages
  BY WorldParts
<1>3. w.balance[tx.from] >= cost + fee + tx.value
  BY DEF ValidateTransaction
<1> HIDE DEF gas, fee, tip, due, cost
<1>4. moved \in [Accounts -> Nat] /\ moved[tx.from] >= cost + fee
  <2>1. CASE tx.to = None
    BY <1>1, <1>2, <1>3, <2>1 DEF Transfer
  <2>2. CASE tx.to # None
    <3> DEFINE sent == [w.balance EXCEPT ![tx.from] = @ - tx.value]
    <3>1. moved = [sent EXCEPT ![tx.to] = @ + tx.value]
      BY <2>2 DEF Transfer
    <3>2. sent \in [Accounts -> Nat] /\ sent[tx.from] >= cost + fee
      BY <1>1, <1>2, <1>3
    <3> HIDE DEF sent, moved
    <3> QED BY <1>1, <2>2, <3>1, <3>2
  <2> QED BY <2>1, <2>2
<1> HIDE DEF moved
<1>5. charged \in [Accounts -> Nat]
  BY <1>1, <1>4
<1>6. deducted \in [Accounts -> Nat]
  <2>1. deducted = IF Active(k, "prague") THEN [charged EXCEPT ![FeeCollector] = @ + fee] ELSE charged
    BY DEF DeductCaller, gas, fee
  <2> HIDE DEF charged, deducted
  <2> QED BY <1>1, <1>5, <2>1
<1> HIDE DEF deducted
<1>7. tipped \in [Accounts -> Nat]
  BY <1>1, <1>6
<1>8. paid \in [Accounts -> Nat]
  <2>1. paid = IF Active(k, "london") /\ ~IsFree(tx)
               THEN [tipped EXCEPT ![FeeCollector] = @ + due] ELSE tipped
    BY DEF RewardBeneficiary, tip, due
  <2> HIDE DEF tipped, paid
  <2> QED BY <1>1, <1>7, <2>1
<1> DEFINE nonces == [w.nonce EXCEPT ![tx.from] = @ + 1]
           present == IF SystemAddress \in {tx.to, coinbase}
                      THEN paid[SystemAddress] > 0 ELSE w.present
<1>9. nonces \in [Accounts -> Nat]
  BY <1>1, <1>2
<1>10. present \in BOOLEAN
  <2>1. w.present \in BOOLEAN
    BY WorldParts
  <2>2. (paid[SystemAddress] > 0) \in BOOLEAN
    OBVIOUS
  <2> QED BY <2>1, <2>2, Zenon
<1>11. Transact(w, tx, k, coinbase) =
         [w EXCEPT !.balance = paid, !.nonce = nonces, !.present = present]
  BY DEF Transact, deducted, moved
<1> HIDE DEF paid, present, nonces
<1>12. \A p \in BOOLEAN :
         [w EXCEPT !.balance = paid, !.nonce = nonces, !.present = p] \in WorldType
  BY <1>8, <1>9 DEF WorldType
<1> QED BY <1>10, <1>11, <1>12

\* What the beneficiary earns by a transaction of others.
LEMMA BeneficiaryEarns ==
  ASSUME NEW w, w.balance \in Amounts, NEW tx \in Transactions, NEW k,
         NEW coinbase \in Accounts \ {FeeCollector}, coinbase \notin {tx.from, tx.to}
  PROVE  Transact(w, tx, k, coinbase).balance[coinbase] =
           w.balance[coinbase] + tx.used * CoinbaseGasPrice(tx, k)
<1> DEFINE moved == Transfer(w.balance, tx)
           deducted == DeductCaller(moved, tx, k)
           tip == tx.used * CoinbaseGasPrice(tx, k)
<1>1. moved \in Amounts
  BY TransferSupply
<1>2. moved[coinbase] = w.balance[coinbase]
  BY DEF Transfer, Amounts
<1> HIDE DEF moved
<1>3. deducted \in Amounts
  BY <1>1, DeductSupply
<1>4. deducted[coinbase] = moved[coinbase]
  BY <1>1 DEF DeductCaller, Amounts
<1> HIDE DEF deducted
<1>5. RewardBeneficiary(deducted, tx, k, coinbase)[coinbase] = deducted[coinbase] + tip
  <2> DEFINE tipped == [deducted EXCEPT ![coinbase] = @ + tip]
             due == tx.used * BaseFee(k)
  <2>1. RewardBeneficiary(deducted, tx, k, coinbase) =
          IF Active(k, "london") /\ ~IsFree(tx)
          THEN [tipped EXCEPT ![FeeCollector] = @ + due] ELSE tipped
    BY DEF RewardBeneficiary
  <2>2. tipped[coinbase] = deducted[coinbase] + tip
    BY <1>3 DEF Amounts
  <2> HIDE DEF tipped, due, tip
  <2>3. [tipped EXCEPT ![FeeCollector] = @ + due][coinbase] = tipped[coinbase]
    OBVIOUS
  <2> QED BY <2>1, <2>2, <2>3
<1>6. Transact(w, tx, k, coinbase).balance = RewardBeneficiary(deducted, tx, k, coinbase)
  BY DEF Transact, deducted, moved
<1> QED BY <1>2, <1>4, <1>5, <1>6

(***************************************************************************)
(* The inductive invariant of the payload builder.                         *)
(***************************************************************************)
\* a block whose numbers are right
Sound(b) == b \in BlockType /\ Burnt(b) \in Nat /\ Unpaid(b) \in Nat

Format(f) == IF Active(f, "osaka") THEN "cell_proofs" ELSE "blob_proofs"

\* fees is what the beneficiary a has earned in b on w
Earned(w, a, b, fees) ==
  a # FeeCollector /\ (\A tx \in Range(b.txs) : a \notin {tx.from, tx.to}) =>
    fees = b.world.balance[a] - w.balance[a]

Accepted(w, f, a, txs, cars) ==
  /\ AllExecutable(w, f, a, txs)
  /\ Len(cars) = BlobTxs(txs)
  /\ Range(cars) \subseteq {Format(f)}

\* The builder's record d of the block b it builds for a on w: the block is the
\* executor's run of its transactions, and the counters of both agree.
Building(w, f, a, b, d) ==
  /\ Sound(b)
  /\ b.fork = f /\ b.coinbase = a
  /\ d.failed = FALSE /\ d.cumulative = b.gas /\ d.blobs = b.blobs
  /\ b = RunOn(w, f, a, b.txs)
  /\ Accepted(w, f, a, b.txs, d.sidecars)
  /\ Earned(w, a, b, d.fees)

\* The payload p that the builder keeps for a.
Kept(w, f, a, p) ==
  /\ p.coinbase = a
  /\ Sound(RunOn(w, f, a, p.txs))
  /\ Accepted(w, f, a, p.txs, p.sidecars)

PoolTypes ==
  /\ pool \subseteq Transactions
  /\ DOMAIN sidecars \subseteq Transactions /\ Range(sidecars) \subseteq Formats

JobTypes ==
  /\ number \in 0..Len(Forks)
  /\ world \in WorldType
  /\ ledger \in [issued : Nat, burnt : Nat, unpaid : Nat]
  /\ block \in BlockType \cup {None}
  /\ build \in BuildType \cup {None}
  /\ block = None <=> build = None
  /\ beneficiary \in Beneficiaries \cup {None}
  /\ best \in PayloadType \cup {None}

JobInv ==
  /\ JobTypes
  /\ build # None => beneficiary # None
  /\ best # None => beneficiary # None
  /\ beneficiary # None => number < Len(Forks)
  /\ build # None => Building(world, NextFork, beneficiary, block, build)
  /\ best # None => Kept(world, NextFork, beneficiary, best)

PBInv == PoolTypes /\ JobInv

-----------------------------------------------------------------------------
\* Where the next block is built.
LEMMA JobIs ==
  ASSUME JobInv, beneficiary # None
  PROVE  /\ world \in WorldType /\ beneficiary \in Accounts /\ beneficiary \in Beneficiaries
         /\ number \in Nat /\ number + 1 \in 0..Len(Forks)
         /\ NextFork \in Range(ForkOrder) /\ Active(NextFork, "london")
         /\ Active(NextFork, "cancun") /\ ChecksBaseFee(NextFork)
<1>1. /\ world \in WorldType /\ number \in 0..Len(Forks) /\ number < Len(Forks)
      /\ beneficiary \in Beneficiaries
  BY DEF JobInv, JobTypes
<1>2. beneficiary \in Accounts
  BY <1>1, PayloadAssumption
<1>3. Len(Forks) \in Nat
  BY BlockExecutionAssumption
<1>4. number \in Nat /\ number + 1 \in 0..Len(Forks)
  BY <1>1, <1>3
<1>5. number + 1 \in DOMAIN Forks
  BY <1>1, <1>4, NextForkIs
<1> QED BY <1>1, <1>2, <1>4, <1>5, BuiltForks DEF NextFork

\* A block that has just been opened.
LEMMA OpenedIsBuilding ==
  ASSUME NEW w \in WorldType, NEW f \in Range(ForkOrder), NEW a \in Accounts,
         NEW d, d.failed = FALSE, d.cumulative = 0, d.blobs = 0, d.fees = 0,
         d.sidecars = <<>>
  PROVE  Building(w, f, a, Opened(w, f, a), d)
<1> DEFINE b == Opened(w, f, a)
<1>1. /\ b.fork = f /\ b.coinbase = a /\ b.gas = 0 /\ b.blobs = 0 /\ b.txs = <<>>
      /\ b.world = ApplyPreExecutionChanges(w, f, a)
  BY DEF Opened
<1>2. b.world \in WorldType /\ b.world.balance[a] = w.balance[a]
  BY <1>1, PreExecutionType
<1>3. b \in BlockType
  <2>1. 0 \in 0..BlockGasLimit /\ 0 \in 0..MaxBlobCount
    BY BlockExecutionAssumption, PayloadAssumption
  <2>2. <<>> \in Seq(Transactions)
    OBVIOUS
  <2>3. ApplyPreExecutionChanges(w, f, a) \in WorldType
    BY <1>1, <1>2
  <2> QED BY <2>1, <2>2, <2>3 DEF Opened, BlockType
<1>4. b = RunOn(w, f, a, b.txs)
  BY <1>1, RunEmpty
<1> HIDE DEF b
<1>5. Sound(b)
  <2>1. Burnt(b) = 0 /\ Unpaid(b) = 0
    BY <1>1, SumOverEmpty
  <2> QED BY <1>3, <2>1 DEF Sound
<1>6. Accepted(w, f, a, b.txs, d.sidecars)
  <2>1. AllExecutable(w, f, a, <<>>)
    BY DEF AllExecutable
  <2>2. Len(<<>>) = BlobTxs(<<>>)
    BY CountEmpty
  <2>3. Range(<<>>) \subseteq {Format(f)}
    BY DEF Range
  <2> QED BY <1>1, <2>1, <2>2, <2>3 DEF Accepted
<1>7. Earned(w, a, b, d.fees)
  <2>1. w.balance[a] \in Nat
    BY WorldParts
  <2>2. 0 = b.world.balance[a] - w.balance[a]
    BY <1>2, <2>1
  <2> QED BY <2>2 DEF Earned
<1> QED BY <1>1, <1>4, <1>5, <1>6, <1>7 DEF Building, b

\* A transaction that the executor accepts.
LEMMA CommitIsSound ==
  ASSUME NEW f \in Range(ForkOrder), Active(f, "cancun"),
         NEW b, Sound(b), b.fork = f,
         NEW tx \in Transactions, Executable(b, tx),
         b.blobs + tx.blobs <= MaxBlobCount,
         NEW c, c = CommitTransaction(b, tx)
  PROVE  /\ Sound(c) /\ c.fork = f /\ c.coinbase = b.coinbase
         /\ c.gas = b.gas + tx.used /\ c.blobs = b.blobs + tx.blobs
         /\ c.txs = Append(b.txs, tx) /\ b.txs \in Seq(Transactions)
         /\ c.world = Transact(b.world, tx, f, b.coinbase)
<1>1. /\ b \in BlockType /\ b.coinbase \in Accounts /\ b.world \in WorldType
      /\ b.gas \in 0..BlockGasLimit /\ b.blobs \in 0..MaxBlobCount
      /\ b.txs \in Seq(Transactions)
  BY DEF Sound, BlockType
<1>2. tx.used \in Nat /\ tx.limit \in Nat /\ tx.used <= tx.limit /\ tx.blobs \in Nat
  BY TxTypes
<1>3. BlockGasLimit \in Nat /\ MaxBlobCount \in Nat
  BY BlockExecutionAssumption, PayloadAssumption
<1> DEFINE after == Transact(b.world, tx, f, b.coinbase)
           gas == b.gas + tx.used
           blobs == b.blobs + tx.blobs
           txs == Append(b.txs, tx)
<1>4. after \in WorldType
  BY <1>1, TransactType DEF Executable
<1>5. gas \in 0..BlockGasLimit /\ blobs \in 0..MaxBlobCount
  <2>1. tx.limit <= BlockGasLimit - b.gas
    BY DEF Executable, HasGasFor
  <2>2. b.gas \in Nat /\ b.blobs \in Nat
    BY <1>1
  <2>3. gas \in Nat /\ gas <= BlockGasLimit
    BY <1>2, <1>3, <2>1, <2>2
  <2>4. blobs \in Nat /\ blobs <= MaxBlobCount
    BY <1>2, <2>2
  <2> QED BY <1>3, <2>3, <2>4
<1>6. txs \in Seq(Transactions)
  BY <1>1
<1>7. c = [b EXCEPT !.world = after, !.gas = gas, !.blobs = blobs, !.txs = txs]
  BY DEF CommitTransaction
<1> HIDE DEF after, gas, blobs, txs
<1>8. /\ c \in BlockType
      /\ c.fork = f /\ c.coinbase = b.coinbase /\ c.gas = gas /\ c.blobs = blobs
      /\ c.txs = txs /\ c.world = after
  BY <1>1, <1>4, <1>5, <1>6, <1>7 DEF BlockType
<1>9. /\ Burnt(c) = Burnt(b) + BurntBy(b.fork, tx)
      /\ Unpaid(c) = Unpaid(b) + UnpaidBy(b.fork, tx)
  <2>1. b.txs \in Seq(Transactions) /\ c.fork = b.fork /\ c.txs = Append(b.txs, tx)
    BY <1>1, <1>8 DEF txs
  <2> QED BY <2>1, SumOverAppend
<1>10. Burnt(c) \in Nat /\ Unpaid(c) \in Nat
  <2>1. BurntBy(b.fork, tx) \in Nat /\ UnpaidBy(b.fork, tx) \in Nat
    BY Prices
  <2>2. Burnt(b) \in Nat /\ Unpaid(b) \in Nat
    BY DEF Sound
  <2> QED BY <1>9, <2>1, <2>2
<1> QED BY <1>1, <1>8, <1>10 DEF Sound, after, gas, blobs, txs

\* The builder and the executor count a transaction alike.
LEMMA IncludedIsBuilding ==
  ASSUME NEW w \in WorldType, NEW f \in Range(ForkOrder), Active(f, "cancun"),
         NEW a \in Accounts, NEW b, NEW d, Building(w, f, a, b, d),
         d.sidecars \in Seq(Formats), d.fees \in Nat,
         NEW tx \in Transactions, Executable(b, tx),
         b.blobs + tx.blobs <= MaxBlobCount,
         NEW c, c = CommitTransaction(b, tx),
         NEW e, e.failed = FALSE, e.cumulative = d.cumulative + tx.used,
         e.blobs = d.blobs + tx.blobs,
         e.fees = d.fees + CoinbaseGasPrice(tx, f) * tx.used,
         e.sidecars = IF IsBlob(tx) THEN Append(d.sidecars, Format(f)) ELSE d.sidecars
  PROVE  Building(w, f, a, c, e)
<1>1. /\ Sound(b) /\ b.fork = f /\ b.coinbase = a
      /\ d.cumulative = b.gas /\ d.blobs = b.blobs
      /\ b = RunOn(w, f, a, b.txs)
      /\ Accepted(w, f, a, b.txs, d.sidecars)
      /\ Earned(w, a, b, d.fees)
  BY DEF Building
<1>2. /\ Sound(c) /\ c.fork = f /\ c.coinbase = b.coinbase
      /\ c.gas = b.gas + tx.used /\ c.blobs = b.blobs + tx.blobs
      /\ c.txs = Append(b.txs, tx) /\ b.txs \in Seq(Transactions)
      /\ c.world = Transact(b.world, tx, f, b.coinbase)
  BY <1>1, CommitIsSound
<1>3. c = RunOn(w, f, a, c.txs)
  <2>1. RunOn(w, f, a, Append(b.txs, tx)) = CommitTransaction(RunOn(w, f, a, b.txs), tx)
    BY <1>2, RunAppend
  <2> QED BY <1>1, <1>2, <2>1
<1>4. AllExecutable(w, f, a, c.txs)
  <2>1. AllExecutable(w, f, a, b.txs) /\ Executable(RunOn(w, f, a, b.txs), tx)
    BY <1>1 DEF Accepted
  <2> QED BY <1>2, <2>1, ExecutableAppend
<1>5. Len(e.sidecars) = BlobTxs(c.txs)
  <2>1. /\ BlobTxs(b.txs) \in Nat
        /\ BlobTxs(c.txs) = BlobTxs(b.txs) + (IF IsBlob(tx) THEN 1 ELSE 0)
    BY <1>2, CountAppend
  <2>2. Len(Append(d.sidecars, Format(f))) = Len(d.sidecars) + 1
    BY DEF Format, Formats
  <2>3. Len(d.sidecars) = BlobTxs(b.txs)
    BY <1>1 DEF Accepted
  <2> QED BY <2>1, <2>2, <2>3
<1>6. Range(e.sidecars) \subseteq {Format(f)}
  <2>1. Range(d.sidecars) \subseteq {Format(f)}
    BY <1>1 DEF Accepted
  <2>2. Range(Append(d.sidecars, Format(f))) \subseteq {Format(f)}
    <3> DEFINE s == Append(d.sidecars, Format(f))
    <3>1. Format(f) \in Formats
      BY DEF Format, Formats
    <3>2. /\ DOMAIN s = DOMAIN d.sidecars \cup {Len(d.sidecars) + 1}
          /\ \A i \in DOMAIN d.sidecars : s[i] = d.sidecars[i]
          /\ s[Len(d.sidecars) + 1] = Format(f)
      BY <3>1, PartsOfAppend
    <3> HIDE DEF s
    <3>3. \A i \in DOMAIN s : s[i] = Format(f)
      BY <2>1, <3>2 DEF Range
    <3>4. Range(s) \subseteq {Format(f)}
      BY <3>3 DEF Range
    <3> QED BY <3>4 DEF s
  <2> QED BY <2>1, <2>2
<1>7. Earned(w, a, c, e.fees)
  <2> SUFFICES ASSUME a # FeeCollector, \A t \in Range(c.txs) : a \notin {t.from, t.to}
               PROVE  e.fees = c.world.balance[a] - w.balance[a]
    BY DEF Earned
  <2>1. /\ DOMAIN c.txs = DOMAIN b.txs \cup {Len(b.txs) + 1}
        /\ \A i \in DOMAIN b.txs : c.txs[i] = b.txs[i]
        /\ c.txs[Len(b.txs) + 1] = tx
    BY <1>2, PartsOfAppend
  <2>2. tx \in Range(c.txs) /\ Range(b.txs) \subseteq Range(c.txs)
    <3>1. tx \in Range(c.txs)
      BY <2>1 DEF Range
    <3>2. ASSUME NEW t \in Range(b.txs) PROVE t \in Range(c.txs)
      <4>1. PICK i \in DOMAIN b.txs : t = b.txs[i]
        BY DEF Range
      <4> QED BY <2>1, <4>1 DEF Range
    <3> QED BY <3>1, <3>2
  <2>3. d.fees = b.world.balance[a] - w.balance[a]
    BY <1>1, <2>2 DEF Earned
  <2>4. b.world \in WorldType
    BY <1>1 DEF Sound, BlockType
  <2>5. c.world.balance[a] = b.world.balance[a] + tx.used * CoinbaseGasPrice(tx, f)
    <3>1. b.world.balance \in Amounts /\ a \notin {tx.from, tx.to}
      BY <2>2, <2>4, WorldParts
    <3> QED BY <1>1, <1>2, <3>1, BeneficiaryEarns
  <2>6. /\ b.world.balance[a] \in Nat /\ w.balance[a] \in Nat
        /\ tx.used \in Nat /\ CoinbaseGasPrice(tx, f) \in Nat
    BY <2>4, WorldParts, TxTypes, Prices
  <2>7. tx.used * CoinbaseGasPrice(tx, f) = CoinbaseGasPrice(tx, f) * tx.used
    BY <2>6
  <2>8. tx.used * CoinbaseGasPrice(tx, f) \in Nat
    BY <2>6, Product
  <2>9. (b.world.balance[a] + tx.used * CoinbaseGasPrice(tx, f)) - w.balance[a]
          = (b.world.balance[a] - w.balance[a]) + CoinbaseGasPrice(tx, f) * tx.used
    <3> DEFINE earned == CoinbaseGasPrice(tx, f) * tx.used
               now == b.world.balance[a]
               before == w.balance[a]
    <3>1. earned \in Nat /\ now \in Nat /\ before \in Nat
          /\ tx.used * CoinbaseGasPrice(tx, f) = earned
      BY <2>6, <2>7, <2>8
    <3> HIDE DEF earned, now, before
    <3>2. (now + earned) - before = (now - before) + earned
      BY <3>1
    <3> QED BY <3>1, <3>2 DEF earned, now, before
  <2> QED BY <2>3, <2>5, <2>9
<1> QED BY <1>1, <1>2, <1>3, <1>4, <1>5, <1>6, <1>7 DEF Building, Accepted

-----------------------------------------------------------------------------
(* The steps.                                                              *)

\* Nothing of the executor and the job changes.
LEMMA JobStays ==
  ASSUME JobInv, UNCHANGED <<execVars, beneficiary, build, best>>
  PROVE  JobInv'
<1>1. /\ number' = number /\ world' = world /\ ledger' = ledger /\ block' = block
      /\ beneficiary' = beneficiary /\ build' = build /\ best' = best
  BY DEF execVars
<1>2. NextFork' = NextFork
  BY <1>1 DEF NextFork
<1>3. JobTypes'
  BY <1>1 DEF JobInv, JobTypes
<1> QED BY <1>1, <1>2, <1>3 DEF JobInv

LEMMA PoolStays ==
  ASSUME PoolTypes, UNCHANGED <<pool, sidecars>>
  PROVE  PoolTypes'
BY DEF PoolTypes

\* The pool and the blob store may change at any time.
LEMMA PoolStep ==
  ASSUME PBInv,
         \/ \E tx \in Transactions, format \in Formats : AddTransaction(tx, format)
         \/ \E tx \in DOMAIN sidecars : DropSidecar(tx)
         \/ Maintain
  PROVE  PBInv'
<1>1. UNCHANGED <<execVars, beneficiary, build, best>>
  BY DEF AddTransaction, DropSidecar, Maintain
<1>2. JobInv'
  BY <1>1, JobStays DEF PBInv
<1>3. PoolTypes'
  <2>1. ASSUME NEW tx \in Transactions, NEW format \in Formats, AddTransaction(tx, format)
        PROVE  PoolTypes'
    <3>1. /\ pool \subseteq Transactions /\ DOMAIN sidecars \subseteq Transactions
          /\ Range(sidecars) \subseteq Formats
      BY DEF PBInv, PoolTypes
    <3>2. pool' = pool \cup {tx}
      BY <2>1 DEF AddTransaction
    <3> DEFINE more == [t \in DOMAIN sidecars \cup {tx} |->
                           IF t = tx THEN format ELSE sidecars[t]]
    <3>3. /\ DOMAIN more = {tx} \cup DOMAIN sidecars
          /\ \A t \in DOMAIN more : more[t] = IF t = tx THEN format ELSE sidecars[t]
      OBVIOUS
    <3>4. Range(more) \subseteq Formats /\ DOMAIN more \subseteq Transactions
      <4> HIDE DEF more
      <4>1. \A t \in DOMAIN sidecars : sidecars[t] \in Formats
        BY <3>1 DEF Range
      <4> QED BY <3>1, <3>3, <4>1 DEF Range
    <3>5. sidecars' = IF IsBlob(tx) THEN more ELSE sidecars
      BY <2>1 DEF AddTransaction
    <3> HIDE DEF more
    <3> QED BY <3>1, <3>2, <3>4, <3>5 DEF PoolTypes
  <2>2. ASSUME NEW tx \in DOMAIN sidecars, DropSidecar(tx)
        PROVE  PoolTypes'
    <3>1. sidecars' = Restrict(sidecars, {t \in DOMAIN sidecars : t # tx}) /\ pool' = pool
      BY <2>2 DEF DropSidecar, RestrictDomain
    <3>2. sidecars' = [t \in {u \in DOMAIN sidecars : u # tx} |-> sidecars[t]]
      BY <3>1 DEF Restrict
    <3>3. Range(sidecars') \subseteq Range(sidecars) /\ DOMAIN sidecars' \subseteq DOMAIN sidecars
      BY <3>2 DEF Range
    <3> QED BY <3>1, <3>3 DEF PBInv, PoolTypes
  <2>3. CASE Maintain
    BY <2>3 DEF Maintain, PBInv, PoolTypes
  <2> QED BY <2>1, <2>2, <2>3
<1> QED BY <1>2, <1>3 DEF PBInv

\* A job begins with no build and no payload.
LEMMA StartJobStep ==
  ASSUME PBInv, NEW coinbase \in Beneficiaries, StartJob(coinbase)
  PROVE  PBInv'
<1>1. /\ beneficiary = None /\ number < Len(Forks) /\ beneficiary' = coinbase
      /\ number' = number /\ world' = world /\ ledger' = ledger /\ block' = block
      /\ build' = build /\ best' = best /\ pool' = pool /\ sidecars' = sidecars
  BY DEF StartJob, execVars
<1>2. JobInv /\ PoolTypes'
  BY <1>1, PoolStays DEF PBInv
<1>3. build = None /\ best = None
  BY <1>1, <1>2 DEF JobInv
<1>4. JobTypes'
  BY <1>1, <1>2 DEF JobInv, JobTypes
<1>5. JobInv'
  BY <1>1, <1>3, <1>4 DEF JobInv
<1> QED BY <1>2, <1>5 DEF PBInv

\* A build begins with the calls before the transactions.
LEMMA StartBuildStep ==
  ASSUME PBInv, StartBuild
  PROVE  PBInv'
<1> DEFINE d == [left |-> Offered, cumulative |-> 0, blobs |-> 0, fees |-> 0,
                 sidecars |-> <<>>, failed |-> FALSE]
           b == Opened(world, NextFork, beneficiary)
<1>1. /\ beneficiary # None /\ build = None
      /\ block' = b /\ build' = d
      /\ number' = number /\ world' = world /\ ledger' = ledger
      /\ beneficiary' = beneficiary /\ best' = best /\ pool' = pool /\ sidecars' = sidecars
  BY DEF StartBuild, NewBlock, Opened
<1>2. JobInv /\ PoolTypes /\ PoolTypes'
  BY <1>1, PoolStays DEF PBInv
<1>3. /\ world \in WorldType /\ beneficiary \in Accounts /\ NextFork \in Range(ForkOrder)
  BY <1>1, <1>2, JobIs
<1>4. Building(world, NextFork, beneficiary, b, d)
  <2>1. /\ d.failed = FALSE /\ d.cumulative = 0 /\ d.blobs = 0 /\ d.fees = 0
        /\ d.sidecars = <<>>
    OBVIOUS
  <2> HIDE DEF d
  <2> QED BY <1>3, <2>1, OpenedIsBuilding
<1>5. d \in BuildType
  <2>1. Offered \in SUBSET Transactions
    BY <1>2 DEF Offered, PoolTypes
  <2>2. <<>> \in Seq(Formats)
    OBVIOUS
  <2> QED BY <2>1, <2>2 DEF BuildType
<1>6. b \in BlockType
  BY <1>4 DEF Building, Sound
<1> HIDE DEF d, b
<1>7. block' # None /\ build' # None
  BY <1>1, <1>5, <1>6, PayloadAssumption
<1>8. JobTypes'
  BY <1>1, <1>2, <1>5, <1>6, <1>7 DEF JobInv, JobTypes
<1>9. NextFork' = NextFork
  BY <1>1 DEF NextFork
<1>10. JobInv'
  BY <1>1, <1>2, <1>4, <1>8, <1>9 DEF JobInv
<1> QED BY <1>2, <1>10 DEF PBInv

\* While a block is built.
LEMMA BuildIs ==
  ASSUME JobInv, build # None
  PROVE  /\ beneficiary # None /\ block # None /\ build \in BuildType
         /\ Building(world, NextFork, beneficiary, block, build)
BY DEF JobInv, JobTypes

\* Only what is left to try changes.
LEMMA LeftStep ==
  ASSUME PBInv, build # None, NEW left \in SUBSET Transactions,
         build' = [build EXCEPT !.left = left],
         UNCHANGED <<execVars, pool, sidecars, beneficiary, best>>
  PROVE  PBInv'
<1>1. /\ number' = number /\ world' = world /\ ledger' = ledger /\ block' = block
      /\ beneficiary' = beneficiary /\ best' = best /\ pool' = pool /\ sidecars' = sidecars
  BY DEF execVars
<1>2. JobInv /\ PoolTypes'
  BY <1>1, PoolStays DEF PBInv
<1>3. /\ beneficiary # None /\ block # None /\ build \in BuildType
      /\ Building(world, NextFork, beneficiary, block, build)
  BY <1>2, BuildIs
<1>4. /\ build' \in BuildType /\ build'.failed = build.failed
      /\ build'.cumulative = build.cumulative /\ build'.blobs = build.blobs
      /\ build'.fees = build.fees /\ build'.sidecars = build.sidecars
  BY <1>3 DEF BuildType
<1>5. build' # None
  BY <1>4, PayloadAssumption
<1>6. NextFork' = NextFork
  BY <1>1 DEF NextFork
<1>7. Building(world, NextFork, beneficiary, block, build')
  BY <1>3, <1>4 DEF Building
<1>8. JobTypes'
  BY <1>1, <1>2, <1>3, <1>4, <1>5 DEF JobInv, JobTypes
<1>9. JobInv'
  BY <1>1, <1>2, <1>3, <1>6, <1>7, <1>8 DEF JobInv
<1> QED BY <1>2, <1>9 DEF PBInv

LEMMA MarkedIsLeft ==
  ASSUME PBInv, build # None, NEW tx
  PROVE  MarkInvalid(build.left, tx) \in SUBSET Transactions /\ build.left \ {tx} \in SUBSET Transactions
<1>1. build.left \in SUBSET Transactions
  BY BuildIs DEF PBInv, BuildType
<1> QED BY <1>1 DEF MarkInvalid

\* The loop turns a transaction down.
LEMMA RejectStep ==
  ASSUME PBInv, NEW tx \in Transactions,
         RejectForGas(tx) \/ RejectForSize(tx) \/ RejectForBlobs(tx)
  PROVE  PBInv'
<1>1. /\ build # None /\ build' = [build EXCEPT !.left = MarkInvalid(build.left, tx)]
      /\ UNCHANGED <<execVars, pool, sidecars, beneficiary, best>>
  BY DEF RejectForGas, RejectForSize, RejectForBlobs, Reject, Yields
<1> QED BY <1>1, MarkedIsLeft, LeftStep

\* The executor never finds the block too full: the loop has asked before.
LEMMA TriedHasGas ==
  ASSUME PBInv, NEW tx \in Transactions, Tried(tx)
  PROVE  HasGasFor(block, tx)
<1>1. build # None /\ build.cumulative + tx.limit <= BlockGasLimit
  BY DEF Tried, Yields, Fits
<1>2. build.cumulative = block.gas /\ block \in BlockType
  BY <1>1, BuildIs DEF PBInv, Building, Sound
<1>3. block.gas \in Nat /\ tx.limit \in Nat /\ BlockGasLimit \in Nat
  BY <1>2, TxTypes, BlockExecutionAssumption DEF BlockType
<1> QED BY <1>1, <1>2, <1>3 DEF HasGasFor

\* The executor turns one down.
LEMMA RefusedStep ==
  ASSUME PBInv, NEW tx \in Transactions, Refused(tx)
  PROVE  PBInv'
<1> DEFINE left == IF NonceTooLow(block.world, tx) THEN build.left \ {tx}
                   ELSE MarkInvalid(build.left, tx)
<1>1. /\ Tried(tx) /\ build # None
      /\ build' = [build EXCEPT !.left = left, !.failed = ~HasGasFor(block, tx)]
      /\ UNCHANGED <<execVars, pool, sidecars, beneficiary, best>>
  BY DEF Refused, Tried, Yields
<1>2. (~HasGasFor(block, tx)) = FALSE
  BY <1>1, TriedHasGas
<1>3. left \in SUBSET Transactions
  BY <1>1, MarkedIsLeft
<1>4. build \in BuildType /\ build.failed = FALSE
  BY <1>1, BuildIs DEF PBInv, Building
<1> HIDE DEF left
<1>5. build' = [build EXCEPT !.left = left, !.failed = FALSE]
  BY <1>1, <1>2, Zenon
<1>6. [build EXCEPT !.left = left, !.failed = FALSE] = [build EXCEPT !.left = left]
  BY <1>4 DEF BuildType
<1> QED BY <1>1, <1>3, <1>5, <1>6, LeftStep

\* The tip of the builder is the executor's.
LEMMA MinerFeeIs ==
  ASSUME NEW tx \in Transactions, tx.price >= BaseFee(NextFork)
  PROVE  MinerFee(tx) = CoinbaseGasPrice(tx, NextFork)
<1> DEFINE base == BaseFee(NextFork)
           eff == EffectiveGasPrice(tx, NextFork)
<1>1. tx.price \in Nat /\ tx.tip \in Nat /\ base \in Nat /\ eff \in Nat
  BY TxTypes, Prices
<1>2. CoinbaseGasPrice(tx, NextFork) = IF eff >= base THEN eff - base ELSE 0
  BY Prices
<1>3. CASE ~tx.dynamic
  <2>1. eff = tx.price /\ MinerFee(tx) = tx.price - base
    BY <1>3 DEF EffectiveGasPrice, MinerFee
  <2> QED BY <1>1, <1>2, <2>1
<1>4. CASE tx.dynamic
  <2>1. eff = Min({tx.price, base + tx.tip}) /\ MinerFee(tx) = Min({tx.price - base, tx.tip})
    BY <1>4 DEF EffectiveGasPrice, MinerFee
  <2>2. tx.price \in Int /\ base + tx.tip \in Int /\ tx.price - base \in Int /\ tx.tip \in Int
    BY <1>1
  <2>3. /\ Min({tx.price, base + tx.tip}) =
             IF tx.price <= base + tx.tip THEN tx.price ELSE base + tx.tip
        /\ Min({tx.price - base, tx.tip}) =
             IF tx.price - base <= tx.tip THEN tx.price - base ELSE tx.tip
    BY <2>2, Ends
  <2> HIDE DEF base, eff
  <2> QED BY <1>1, <1>2, <2>1, <2>3 DEF base
<1> QED BY <1>3, <1>4

\* The executor takes one.
LEMMA IncludeStep ==
  ASSUME PBInv, NEW tx \in Transactions, Include(tx)
  PROVE  PBInv'
<1> DEFINE c == CommitTransaction(block, tx)
           e == CountedIn(build, tx)
<1>1. /\ build # None /\ BlobsFit(build, tx) /\ HasSidecar(tx)
      /\ Executable(block, tx) /\ block' = c /\ build' = e
      /\ number' = number /\ world' = world /\ ledger' = ledger
      /\ beneficiary' = beneficiary /\ best' = best /\ pool' = pool /\ sidecars' = sidecars
  BY DEF Include, Tried, Yields
<1>2. JobInv /\ PoolTypes /\ PoolTypes'
  BY <1>1, PoolStays DEF PBInv
<1>3. /\ beneficiary # None /\ build \in BuildType
      /\ Building(world, NextFork, beneficiary, block, build)
  BY <1>1, <1>2, BuildIs
<1>4. /\ world \in WorldType /\ beneficiary \in Accounts /\ NextFork \in Range(ForkOrder)
      /\ Active(NextFork, "cancun") /\ ChecksBaseFee(NextFork)
  BY <1>2, <1>3, JobIs
<1>5. /\ build.left \in SUBSET Transactions /\ build.cumulative \in Nat /\ build.blobs \in Nat
      /\ build.fees \in Nat /\ build.sidecars \in Seq(Formats)
  BY <1>3 DEF BuildType
<1>6. tx.used \in Nat /\ tx.blobs \in Nat /\ CoinbaseGasPrice(tx, NextFork) \in Nat
  BY TxTypes, Prices
<1>7. MinerFee(tx) = CoinbaseGasPrice(tx, NextFork)
  <2>1. block.fork = NextFork
    BY <1>3 DEF Building
  <2>2. tx.price >= BaseFee(NextFork)
    BY <1>1, <1>4, <2>1 DEF Executable, ValidateTransaction
  <2> QED BY <2>2, MinerFeeIs
<1>8. IsBlob(tx) => sidecars[tx] = Format(NextFork)
  BY <1>1 DEF HasSidecar, FormatInForce, Format
<1>9. block.blobs + tx.blobs <= MaxBlobCount
  <2>1. block.blobs = build.blobs /\ block.blobs \in 0..MaxBlobCount
    BY <1>3 DEF Building, Sound, BlockType
  <2>2. CASE IsBlob(tx)
    BY <1>1, <2>1, <2>2 DEF BlobsFit
  <2>3. CASE ~IsBlob(tx)
    <3>1. tx.blobs = 0
      BY <1>6, <2>3 DEF IsBlob
    <3> QED BY <2>1, <3>1, PayloadAssumption
  <2> QED BY <2>2, <2>3
<1> DEFINE rest == build.left \ {tx}
           left == IF IsBlob(tx) /\ build.blobs + tx.blobs = MaxBlobCount
                   THEN SkipBlobs(rest) ELSE rest
           cars == IF IsBlob(tx) THEN Append(build.sidecars, Format(NextFork)) ELSE build.sidecars
           fees == build.fees + CoinbaseGasPrice(tx, NextFork) * tx.used
<1>10. e = [left |-> left, cumulative |-> build.cumulative + tx.used,
            blobs |-> build.blobs + tx.blobs, fees |-> fees, sidecars |-> cars,
            failed |-> FALSE]
  BY <1>7, <1>8 DEF CountedIn, GasOf
<1>11. left \in SUBSET Transactions
  BY <1>5 DEF SkipBlobs
<1>12. fees \in Nat
  <2>1. CoinbaseGasPrice(tx, NextFork) * tx.used \in Nat
    BY <1>6, Product
  <2> QED BY <1>5, <2>1
<1>13. cars \in Seq(Formats)
  BY <1>5 DEF Format, Formats
<1> HIDE DEF e, c, left, cars, fees
<1>14. /\ e.failed = FALSE /\ e.cumulative = build.cumulative + tx.used
       /\ e.blobs = build.blobs + tx.blobs /\ e.fees = fees /\ e.sidecars = cars
  BY <1>10
<1>15. e \in BuildType
  <2>1. build.cumulative + tx.used \in Nat /\ build.blobs + tx.blobs \in Nat
    BY <1>5, <1>6 DEF BuildType
  <2> QED BY <1>10, <1>11, <1>12, <1>13, <2>1 DEF BuildType
<1>16. Building(world, NextFork, beneficiary, c, e)
  BY <1>1, <1>3, <1>4, <1>5, <1>9, <1>14, IncludedIsBuilding DEF c, cars, fees
<1>17. c \in BlockType
  BY <1>16 DEF Building, Sound
<1>18. c # None /\ e # None
  BY <1>15, <1>17, PayloadAssumption
<1>19. NextFork' = NextFork
  BY <1>1 DEF NextFork
<1>20. JobTypes'
  BY <1>1, <1>2, <1>15, <1>17, <1>18 DEF JobInv, JobTypes
<1>21. JobInv'
  BY <1>1, <1>2, <1>3, <1>16, <1>19, <1>20 DEF JobInv
<1> QED BY <1>2, <1>21 DEF PBInv

\* An attempt is dropped.
LEMMA EndBuildStep ==
  ASSUME PBInv, EndBuild
  PROVE  PBInv'
<1>1. /\ block' = None /\ build' = None
      /\ number' = number /\ world' = world /\ ledger' = ledger
      /\ beneficiary' = beneficiary /\ best' = best /\ pool' = pool /\ sidecars' = sidecars
  BY DEF EndBuild
<1>2. JobInv /\ PoolTypes'
  BY <1>1, PoolStays DEF PBInv
<1>3. NextFork' = NextFork
  BY <1>1 DEF NextFork
<1>4. JobTypes'
  BY <1>1, <1>2 DEF JobInv, JobTypes
<1>5. JobInv'
  BY <1>1, <1>2, <1>3, <1>4 DEF JobInv
<1> QED BY <1>2, <1>5 DEF PBInv

\* The block becomes the best payload.
LEMMA FinishPayloadStep ==
  ASSUME PBInv, NEW reward \in Rewards, FinishPayload(reward)
  PROVE  PBInv'
<1> DEFINE p == [coinbase |-> beneficiary, txs |-> block.txs, fees |-> build.fees,
                 sidecars |-> build.sidecars, reward |-> reward]
<1>1. /\ build # None /\ best' = p /\ block' = None /\ build' = None
      /\ number' = number /\ world' = world /\ ledger' = ledger
      /\ beneficiary' = beneficiary /\ pool' = pool /\ sidecars' = sidecars
  BY DEF FinishPayload
<1>2. JobInv /\ PoolTypes'
  BY <1>1, PoolStays DEF PBInv
<1>3. /\ beneficiary # None /\ build \in BuildType
      /\ Building(world, NextFork, beneficiary, block, build)
  BY <1>1, <1>2, BuildIs
<1>4. beneficiary \in Beneficiaries
  BY <1>2, <1>3, JobIs
<1>5. Kept(world, NextFork, beneficiary, p)
  BY <1>3 DEF Building, Kept
<1>6. p \in PayloadType
  <2>1. block.txs \in Seq(Transactions)
    BY <1>3 DEF Building, Sound, BlockType
  <2>2. build.fees \in Nat /\ build.sidecars \in Seq(Formats)
    BY <1>3 DEF BuildType
  <2> QED BY <1>4, <2>1, <2>2 DEF PayloadType
<1> HIDE DEF p
<1>7. NextFork' = NextFork
  BY <1>1 DEF NextFork
<1>8. JobTypes'
  BY <1>1, <1>2, <1>6 DEF JobInv, JobTypes
<1>9. JobInv'
  BY <1>1, <1>2, <1>3, <1>5, <1>7, <1>8 DEF JobInv
<1> QED BY <1>2, <1>9 DEF PBInv

\* What the engine executes is the run.
LEMMA ExecutedIs ==
  ASSUME NEW p
  PROVE  Executed(p) = RunOn(world, NextFork, p.coinbase, p.txs)
BY DEF Executed, RunOn, NewBlock, Opened

\* The head moves, and the job is over.
LEMMA ImportStep ==
  ASSUME PBInv, ImportPayload
  PROVE  PBInv'
<1> DEFINE b == Executed(best)
           outcome == PostBlockSystemCalls(b, number + 1, Nothing, best.reward)
<1>1. /\ build = None /\ best # None /\ beneficiary' = None /\ best' = None
      /\ block' = block /\ pool' = pool /\ sidecars' = sidecars /\ build' = build
      /\ number' = number + 1
      /\ world' = IncrementBalances(outcome.world, outcome.rewards)
      /\ ledger' = [issued |-> ledger.issued + Total(outcome.rewards),
                    burnt  |-> ledger.burnt + Burnt(b),
                    unpaid |-> ledger.unpaid + Unpaid(b)]
  BY DEF ImportPayload, Adopt, Burnt, Unpaid
<1>2. JobInv /\ PoolTypes'
  BY <1>1, PoolStays DEF PBInv
<1>3. /\ beneficiary # None /\ best \in PayloadType
      /\ Kept(world, NextFork, beneficiary, best)
      /\ ledger \in [issued : Nat, burnt : Nat, unpaid : Nat]
      /\ block \in BlockType \cup {None} /\ (block = None <=> build = None)
  BY <1>1, <1>2 DEF JobInv, JobTypes
<1>4. number + 1 \in 0..Len(Forks) /\ number \in Nat
  BY <1>2, <1>3, JobIs
<1>5. Sound(b)
  BY <1>3, ExecutedIs DEF Kept
<1>6. best.reward \in [Accounts -> Nat]
  BY <1>3, BlockExecutionAssumption DEF PayloadType
<1> HIDE DEF b
<1>7. outcome.world \in WorldType /\ outcome.rewards \in [Accounts -> Nat]
  <2>1. b.world \in WorldType /\ number + 1 \in Nat
    BY <1>4, <1>5 DEF Sound, BlockType
  <2> QED BY <1>6, <2>1, PostBlockType
<1> HIDE DEF outcome
<1>8. world' \in WorldType
  BY <1>1, <1>7, IncrementType
<1>9. ledger' \in [issued : Nat, burnt : Nat, unpaid : Nat]
  <2>1. Total(outcome.rewards) \in Nat /\ Burnt(b) \in Nat /\ Unpaid(b) \in Nat
    BY <1>5, <1>7, TotalNat DEF Sound
  <2> QED BY <1>1, <1>3, <2>1
<1>10. JobTypes'
  BY <1>1, <1>3, <1>4, <1>8, <1>9 DEF JobTypes
<1>11. JobInv'
  BY <1>1, <1>10 DEF JobInv
<1> QED BY <1>2, <1>11 DEF PBInv

\* The invariant holds at first and is kept by every step.
LEMMA BuilderInit == PBInit => PBInv
<1> SUFFICES ASSUME PBInit PROVE PBInv
  OBVIOUS
<1>1. /\ Init /\ pool = {} /\ sidecars = <<>> /\ beneficiary = None /\ build = None /\ best = None
  BY DEF PBInit
<1>2. /\ number = 0 /\ block = None /\ ledger = [issued |-> 0, burnt |-> 0, unpaid |-> 0]
      /\ world = [balance |-> GenesisBalance, nonce |-> Nothing,
                  storage |-> [c \in Contracts |-> 0], present |-> FALSE]
  BY <1>1 DEF Init
<1>3. world \in WorldType
  <2>1. GenesisBalance \in [Accounts -> Nat] /\ Nothing \in [Accounts -> Nat]
    BY BlockExecutionAssumption, NothingPays
  <2>2. [c \in Contracts |-> 0] \in [Contracts -> Nat]
    OBVIOUS
  <2> QED BY <1>2, <2>1, <2>2 DEF WorldType
<1>4. number \in 0..Len(Forks)
  <2>1. Len(Forks) \in Nat
    BY BlockExecutionAssumption
  <2> QED BY <1>2, <2>1
<1>5. PoolTypes
  BY <1>1 DEF PoolTypes, Range
<1>6. JobTypes
  BY <1>1, <1>2, <1>3, <1>4 DEF JobTypes
<1>7. JobInv
  BY <1>1, <1>6 DEF JobInv
<1> QED BY <1>5, <1>7 DEF PBInv

LEMMA BuilderStep == PBInv /\ [PBNext]_vars => PBInv'
<1> SUFFICES ASSUME PBInv, [PBNext]_vars PROVE PBInv'
  OBVIOUS
<1>1. CASE UNCHANGED vars
  <2>1. UNCHANGED <<execVars, beneficiary, build, best>> /\ UNCHANGED <<pool, sidecars>>
    BY <1>1 DEF vars, payloadVars
  <2> QED BY <2>1, JobStays, PoolStays DEF PBInv
<1>2. CASE \/ \E tx \in Transactions, format \in Formats : AddTransaction(tx, format)
           \/ \E tx \in DOMAIN sidecars : DropSidecar(tx)
           \/ Maintain
  BY <1>2, PoolStep
<1>3. CASE \E coinbase \in Beneficiaries : StartJob(coinbase)
  BY <1>3, StartJobStep
<1>4. CASE StartBuild
  BY <1>4, StartBuildStep
<1>5. CASE \/ \E tx \in Transactions : RejectForGas(tx)
           \/ \E tx \in Transactions : RejectForSize(tx)
           \/ \E tx \in Transactions : RejectForBlobs(tx)
  BY <1>5, RejectStep
<1>6. CASE \E tx \in Transactions : Include(tx)
  BY <1>6, IncludeStep
<1>7. CASE \E tx \in Transactions : Refused(tx)
  BY <1>7, RefusedStep
<1>8. CASE EndBuild
  BY <1>8, EndBuildStep
<1>9. CASE \E reward \in Rewards : FinishPayload(reward)
  BY <1>9, FinishPayloadStep
<1>10. CASE ImportPayload
  BY <1>10, ImportStep
<1> QED BY <1>1, <1>2, <1>3, <1>4, <1>5, <1>6, <1>7, <1>8, <1>9, <1>10 DEF PBNext

-----------------------------------------------------------------------------
\* The state of the builder and the executor has its types, and every block it
\* builds is within the gas limit and the protocol's limit of blobs (the checks
\* at the head of the loop of default_ethereum_payload).
THEOREM BuilderTypes == PBSpec => []TypeOK
<1>1. PBInv => TypeOK
  BY DEF PBInv, JobInv, PoolTypes, JobTypes, TypeOK
<1> QED BY <1>1, BuilderInit, BuilderStep, PTL DEF PBSpec

\* The loop's counters of gas and blobs are the executor's, and the executor
\* never finds the block too full (default_ethereum_payload).
THEOREM CountersAgree == PBSpec => []BuilderAgreesWithExecutor
<1>1. PBInv => BuilderAgreesWithExecutor
  BY DEF PBInv, JobInv, Building, BuilderAgreesWithExecutor
<1> QED BY <1>1, BuilderInit, BuilderStep, PTL DEF PBSpec

\* The value a payload is compared by and reported with is what its beneficiary
\* earns (total_fees of default_ethereum_payload against revm's payment).
THEOREM FeesEarned == PBSpec => []FeesAreEarned
<1>1. PBInv => FeesAreEarned
  BY DEF PBInv, JobInv, Building, Earned, FeesAreEarned
<1> QED BY <1>1, BuilderInit, BuilderStep, PTL DEF PBSpec

\* The best payload is a block that the same node accepts on its head, whatever
\* the pool and the blob store did while it was built: the head does not move
\* while the job runs, and every transaction was executed before it was counted.
THEOREM BestIsValid == PBSpec => []BestPayloadIsValid
<1>1. PBInv => BestPayloadIsValid
  <2> SUFFICES ASSUME PBInv, best # None
               PROVE  BestPayloadIsValid
    BY DEF BestPayloadIsValid
  <2>1. best \in PayloadType /\ Kept(world, NextFork, beneficiary, best)
    BY DEF PBInv, JobInv, JobTypes
  <2>2. ValidPayload(best)
    <3> SUFFICES ASSUME NEW i \in DOMAIN best.txs
                 PROVE  Executable(Executed([best EXCEPT !.txs = SubSeq(@, 1, i - 1)]),
                                   best.txs[i])
      BY DEF ValidPayload
    <3> DEFINE shorter == [best EXCEPT !.txs = SubSeq(@, 1, i - 1)]
    <3>1. shorter.coinbase = best.coinbase /\ shorter.txs = SubSeq(best.txs, 1, i - 1)
      BY <2>1 DEF PayloadType
    <3>2. Executed(shorter) = RunOn(world, NextFork, shorter.coinbase, shorter.txs)
      BY ExecutedIs
    <3>3. /\ AllExecutable(world, NextFork, beneficiary, best.txs)
          /\ best.coinbase = beneficiary
      BY <2>1 DEF Kept, Accepted
    <3> HIDE DEF shorter
    <3>4. Executable(Executed(shorter), best.txs[i])
      BY <3>1, <3>2, <3>3 DEF AllExecutable
    <3> QED BY <3>4 DEF shorter
  <2>3. Executed(best).blobs <= MaxBlobCount
    <3>1. Executed(best) \in BlockType
      BY <2>1, ExecutedIs DEF Kept, Sound
    <3> QED BY <3>1, PayloadAssumption DEF BlockType
  <2>4. Len(best.sidecars) = Quantify(DOMAIN best.txs, LAMBDA i : IsBlob(best.txs[i]))
    BY <2>1 DEF Kept, Accepted, BlobTxs, Quantify
  <2>5. Range(best.sidecars) \subseteq {FormatInForce}
    BY <2>1 DEF Kept, Accepted, Format, FormatInForce
  <2> QED BY <2>2, <2>3, <2>4, <2>5 DEF BestPayloadIsValid
<1> QED BY <1>1, BuilderInit, BuilderStep, PTL DEF PBSpec
=============================================================================

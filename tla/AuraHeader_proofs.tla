--------------------------- MODULE AuraHeader_proofs ---------------------------
(***************************************************************************)
(* Every tree of accepted headers, for any chain spec: types, the phases,  *)
(* the rotation of the slots, and what the total difficulty orders.        *)
(***************************************************************************)
EXTENDS AuraHeader, WellFoundedInduction, TLAPS

(***************************************************************************)
(* The lists of the chain spec.                                            *)
(***************************************************************************)
\* Of the blocks at which a list or contract starts, those up to n have a last.
LEMMA LastStart ==
  ASSUME NEW n \in Nat, NEW S \in SUBSET (0..n), S # {}
  PROVE  \E x \in S : \A y \in S : y <= x
<1> DEFINE R == {ss \in Nat \X Nat : ss[1] < ss[2]}
           T == {i \in 0..n : n - i \in S}
<1>1. IsWellFoundedOn(R, Nat)
  BY NatLessThanWellFounded DEF OpToRel
<1>2. T \in SUBSET Nat /\ T # {}
  <2>1. PICK i \in S : TRUE OBVIOUS
  <2>2. i \in 0..n BY <2>1
  <2>3. n - i \in 0..n /\ n - (n - i) = i BY <2>2
  <2>4. n - i \in T BY <2>1, <2>3
  <2>5. \A k \in 0..n : k \in Nat OBVIOUS
  <2>6. T \subseteq 0..n OBVIOUS
  <2> QED BY <2>4, <2>5, <2>6
<1>3. PICK d \in T : \A e \in T : ~(<<e, d>> \in R)
  <2> HIDE DEF R, T
  <2> QED BY <1>1, <1>2, WFMin
<1>4. ASSUME NEW y \in S PROVE y <= n - d
  <2>1. n - y \in T BY <1>4
  <2>2. <<n - y, d>> \in Nat \X Nat BY <1>2, <1>3, <2>1
  <2>3. ~(n - y < d) BY <1>3, <2>1, <2>2
  <2> QED BY <1>2, <1>3, <2>3
<1> QED BY <1>3, <1>4

\* The list in force at a block is a sequence.
LEMMA ListType ==
  ASSUME NEW n \in Nat, HasListAt(Sets, n)
  PROVE  ListAt(Sets, n) \in Seq(Signers)
<1> DEFINE active == {b \in DOMAIN Sets : b <= n}
           top == CHOOSE b \in active : \A c \in active : c <= b
<1>1. active \in SUBSET (0..n)
  BY AuraHeaderAssumption
<1>2. active # {}
  BY DEF HasListAt, KindAt, NoKind
<1>3. top \in active
  <2>1. \E b \in active : \A c \in active : c <= b
    <3> HIDE DEF active
    <3> QED BY <1>1, <1>2, LastStart
  <2> HIDE DEF active
  <2> QED BY <2>1
<1>4. KindAt(Sets, n) = Sets[top]
  BY <1>2 DEF KindAt
<1>5. Sets[top].type = "list" /\ ListAt(Sets, n) = Sets[top].list
  <2> HIDE DEF top
  <2> QED BY <1>4 DEF HasListAt, ListAt
<1> QED
  <2> HIDE DEF top
  <2> QED BY <1>3, <1>5, AuraHeaderAssumption

(***************************************************************************)
(* The inductive invariant: types, the phase of each header is that of its *)
(* number, each header under a list was sealed in turn, and each AuRa      *)
(* header follows its parent in step and difficulty.                       *)
(***************************************************************************)
Follows(h, p) ==
  /\ p.has_step
  /\ StepAdvances(p.step, h.step)
  /\ h.difficulty = CalculateAuraDifficulty(p.step, h.step)

Inv ==
  /\ TypeOK
  /\ \A i \in DOMAIN headers : PhaseAgrees(headers[i])
  /\ \A i \in DOMAIN headers \ {1} :
       headers[i].has_step =>
         SealedInTurn(headers[i]) /\ Follows(headers[i], headers[headers[i].parent])

\* The tree of the genesis header alone.
LEMMA InitInv == Init => Inv
<1> SUFFICES ASSUME Init PROVE Inv
  OBVIOUS
<1>1. headers = <<Genesis>> /\ Len(headers) = 1 /\ DOMAIN headers = {1} /\ headers[1] = Genesis
  BY DEF Init
<1>2. Genesis \in Header
  BY AuraHeaderAssumption DEF Genesis, Header
<1>3. TypeOK
  BY <1>1, <1>2 DEF TypeOK
<1>4. PhaseAgrees(Genesis)
  BY AuraHeaderAssumption DEF PhaseAgrees, IsPreMerge, Genesis
<1> QED BY <1>1, <1>3, <1>4 DEF Inv

\* headers' is headers with h, a child of p that passed the checks, at its end.
Grown(h, p) ==
  /\ h \in Header /\ h.parent = p /\ h.number = headers[p].number + 1
  /\ ValidateHeader(h)
  /\ headers' \in Seq(Header)
  /\ DOMAIN headers' = DOMAIN headers \cup {Len(headers) + 1}
  /\ \A i \in DOMAIN headers : headers'[i] = headers[i]
  /\ headers'[Len(headers) + 1] = h
  /\ Len(headers) + 1 \notin DOMAIN headers
  /\ Len(headers) + 1 # 1 /\ 1 \in DOMAIN headers

\* What a peer offers is a header, and it goes to the end.
LEMMA ImportGrows ==
  ASSUME TypeOK, NEW p \in DOMAIN headers, ImportHeader(p)
  PROVE  \E h \in Header : Grown(h, p)
<1> DEFINE last == Len(headers) + 1
<1>1. PICK h \in Offers(p) : ValidateHeader(h) /\ headers' = Append(headers, h)
  BY DEF ImportHeader
<1>2. headers \in Seq(Header) /\ headers[1] = Genesis /\ headers # <<>>
  BY DEF TypeOK
<1>3. /\ p \in 1..Len(headers)
      /\ headers[p] \in Header
  BY <1>2
<1>4. /\ h \in Header
      /\ h.parent = p
      /\ h.number = headers[p].number + 1
  <2>1. headers[p].number + 1 \in Nat /\ p \in Nat /\ 0..(MaxStep + 1) \subseteq Nat
    BY <1>3, AuraHeaderAssumption DEF Header
  <2>2. Difficulties \subseteq Nat BY AuraHeaderAssumption
  <2> DEFINE number == headers[p].number + 1
             steps == 0..(MaxStep + 1)
  <2>3. \/ h \in [parent : {p}, number : {number}, has_step : {TRUE}, step : steps,
                  difficulty : Difficulties, signer : Signers \cup {NoAddress},
                  sound : BOOLEAN]
        \/ h \in [parent : {p}, number : {number}, has_step : {FALSE}, step : {0},
                  difficulty : Difficulties, signer : {NoAddress}, sound : BOOLEAN]
    BY Zenon DEF Offers
  <2> HIDE DEF number, steps
  <2>4. h \in [parent : {p}, number : {number}, has_step : BOOLEAN, step : Nat,
               difficulty : Nat, signer : Signers \cup {NoAddress}, sound : BOOLEAN]
    <3>1. steps \subseteq Nat BY <2>1 DEF steps
    <3>2. CASE h \in [parent : {p}, number : {number}, has_step : {TRUE}, step : steps,
                      difficulty : Difficulties, signer : Signers \cup {NoAddress},
                      sound : BOOLEAN]
      BY <2>2, <3>1, <3>2
    <3>3. CASE h \in [parent : {p}, number : {number}, has_step : {FALSE}, step : {0},
                      difficulty : Difficulties, signer : {NoAddress}, sound : BOOLEAN]
      <4>1. h.step = 0 /\ h.step \in Nat
        BY <3>3
      <4>2. h.difficulty \in Nat
        BY <2>2, <3>3
      <4> QED BY <3>3, <4>1, <4>2
    <3> QED BY <2>3, <3>2, <3>3
  <2>5. h \in Header /\ h.parent = p /\ h.number = number
    <3>1. number \in Nat BY <2>1 DEF number
    <3> QED BY <2>1, <2>4, <3>1 DEF Header
  <2> QED BY <2>5 DEF number
<1>5. /\ headers' \in Seq(Header)
      /\ Len(headers') = last
      /\ DOMAIN headers' = DOMAIN headers \cup {last}
      /\ \A i \in DOMAIN headers : headers'[i] = headers[i]
      /\ headers'[last] = h
      /\ last \notin DOMAIN headers
      /\ last # 1 /\ 1 \in DOMAIN headers
  BY <1>1, <1>2, <1>4
<1> QED BY <1>1, <1>4, <1>5 DEF Grown

\* A header is accepted only after the checks, so it keeps the invariant.
LEMMA ImportHeaderInv ==
  ASSUME Inv, NEW p \in DOMAIN headers, ImportHeader(p)
  PROVE  Inv'
<1> DEFINE last == Len(headers) + 1
<1>1. PICK h \in Header : Grown(h, p)
  BY ImportGrows DEF Inv
<1>2. headers \in Seq(Header) /\ headers[1] = Genesis /\ headers # <<>>
  BY DEF Inv, TypeOK
<1>3. /\ p \in 1..Len(headers)
      /\ headers[p] \in Header
  BY <1>2
<1>4. /\ h \in Header
      /\ h.parent = p
      /\ h.number = headers[p].number + 1
  BY <1>1 DEF Grown
<1>5. /\ headers' \in Seq(Header)
      /\ DOMAIN headers' = DOMAIN headers \cup {last}
      /\ \A i \in DOMAIN headers : headers'[i] = headers[i]
      /\ headers'[last] = h
      /\ last \notin DOMAIN headers
      /\ last # 1 /\ 1 \in DOMAIN headers
  BY <1>1 DEF Grown
<1>6. /\ PhaseAgrees(h)
      /\ h.has_step => FitsU64(h.step) /\ SealedInTurn(h) /\ Follows(h, headers[p])
  BY <1>1
     DEF Grown, ValidateHeader, ValidateAuraHeaderAgainstParent, PhaseAgrees, Follows
<1>7. TypeOK'
  <2>1. ASSUME NEW i \in DOMAIN headers' \ {1}
        PROVE  /\ headers'[i].parent \in 1..(i - 1)
               /\ headers'[i].number = headers'[headers'[i].parent].number + 1
               /\ headers'[i].has_step => FitsU64(headers'[i].step)
    <3>1. CASE i \in DOMAIN headers
      <4>1. /\ headers[i].parent \in 1..(i - 1)
            /\ headers[i].number = headers[headers[i].parent].number + 1
            /\ headers[i].has_step => FitsU64(headers[i].step)
        BY <3>1 DEF Inv, TypeOK
      <4>2. headers[i].parent \in DOMAIN headers
        BY <3>1, <4>1, <1>2
      <4> QED BY <3>1, <4>1, <4>2, <1>5
    <3>2. CASE i = last
      <4>1. p \in 1..(i - 1) BY <3>2, <1>3
      <4> QED BY <3>2, <4>1, <1>3, <1>4, <1>5, <1>6
    <3> QED BY <3>1, <3>2, <1>5
  <2>2. headers' # <<>> /\ headers'[1] = Genesis
    BY <1>2, <1>5
  <2> QED BY <2>1, <2>2, <1>5 DEF TypeOK
<1>8. \A i \in DOMAIN headers' : PhaseAgrees(headers'[i])
  BY <1>5, <1>6 DEF Inv
<1>9. ASSUME NEW i \in DOMAIN headers' \ {1}, headers'[i].has_step
      PROVE  SealedInTurn(headers'[i]) /\ Follows(headers'[i], headers'[headers'[i].parent])
  <2>1. CASE i = last
    BY <2>1, <1>3, <1>4, <1>5, <1>6, <1>9
  <2>2. CASE i \in DOMAIN headers
    <3>1. headers[i].parent \in 1..(i - 1)
      BY <2>2, <1>9 DEF Inv, TypeOK
    <3>2. headers[i].parent \in DOMAIN headers
      BY <2>2, <3>1, <1>2
    <3>3. SealedInTurn(headers[i]) /\ Follows(headers[i], headers[headers[i].parent])
      BY <2>2, <1>5, <1>9 DEF Inv
    <3> QED BY <2>2, <3>2, <3>3, <1>5
  <2> QED BY <2>1, <2>2, <1>5, <1>9
<1> QED
  BY <1>7, <1>8, <1>9
     DEF Inv, PhaseAgrees, IsPreMerge, SealedInTurn, RecoverSealAuthor, Follows, StepAdvances,
         CalculateAuraDifficulty

LEMMA AlwaysInv == Spec => []Inv
<1>1. Inv /\ UNCHANGED headers => Inv'
  BY DEF Inv, TypeOK, PhaseAgrees, IsPreMerge, SealedInTurn, RecoverSealAuthor, Follows,
         StepAdvances, CalculateAuraDifficulty
<1>2. Inv /\ [Next]_headers => Inv'
  BY <1>1, ImportHeaderInv DEF Next
<1> QED BY InitInv, <1>2, PTL DEF Spec

(***************************************************************************)
(* Branches.  TotalDifficulty and Branch are recursive functions that      *)
(* CHOOSE picks: as the tree grows at its end there always is one, and     *)
(* what it is of a header follows by the least header of which it is not.  *)
(***************************************************************************)
IsTotal(hs, td) ==
  td = [i \in DOMAIN hs |-> hs[i].difficulty + IF i = 1 THEN 0 ELSE td[hs[i].parent]]

IsBranch(hs, up) ==
  up = [i \in DOMAIN hs |-> IF i = 1 THEN {1} ELSE {i} \cup up[hs[i].parent]]

Recursions == (\E td : IsTotal(headers, td)) /\ (\E up : IsBranch(headers, up))

LEMMA InitRecursions == Init => Recursions
<1> SUFFICES ASSUME Init PROVE Recursions
  OBVIOUS
<1>1. headers = <<Genesis>> /\ DOMAIN headers = {1}
  BY DEF Init
<1>2. \E td : IsTotal(headers, td)
  <2> DEFINE td == [i \in {1} |-> headers[i].difficulty + 0]
  <2>1. IsTotal(headers, td) BY <1>1 DEF IsTotal
  <2> QED BY <2>1
<1>3. \E up : IsBranch(headers, up)
  <2> DEFINE up == [i \in {1} |-> {1}]
  <2>1. IsBranch(headers, up) BY <1>1 DEF IsBranch
  <2> QED BY <2>1
<1> QED BY <1>2, <1>3 DEF Recursions

LEMMA ImportRecursions ==
  ASSUME Inv, Recursions, NEW p \in DOMAIN headers, ImportHeader(p)
  PROVE  Recursions'
<1> DEFINE last == Len(headers) + 1
<1>1. PICK h \in Header : Grown(h, p)
  BY ImportGrows DEF Inv
<1>2. /\ h.parent = p
      /\ DOMAIN headers' = DOMAIN headers \cup {last}
      /\ \A i \in DOMAIN headers : headers'[i] = headers[i]
      /\ headers'[last] = h
      /\ last \notin DOMAIN headers
      /\ last # 1
  BY <1>1 DEF Grown
<1>3. \A i \in DOMAIN headers \ {1} : headers[i].parent \in DOMAIN headers
  <2> SUFFICES ASSUME NEW i \in DOMAIN headers \ {1}
               PROVE  headers[i].parent \in DOMAIN headers
    OBVIOUS
  <2>1. headers \in Seq(Header) /\ headers[i].parent \in 1..(i - 1)
    BY DEF Inv, TypeOK
  <2> QED BY <2>1
<1> HIDE DEF last
<1>4. \E t : IsTotal(headers', t)
  <2>1. PICK t : IsTotal(headers, t)
    BY DEF Recursions
  <2> DEFINE t2 == [i \in DOMAIN headers' |-> IF i \in DOMAIN headers THEN t[i] ELSE h.difficulty + t[p]]
             of(f, i) == headers'[i].difficulty + IF i = 1 THEN 0 ELSE f[headers'[i].parent]
  <2>2. ASSUME NEW i \in DOMAIN headers' PROVE t2[i] = of(t2, i)
    <3>1. CASE i \in DOMAIN headers
      <4>1. t[i] = headers[i].difficulty + IF i = 1 THEN 0 ELSE t[headers[i].parent]
        BY <2>1, <3>1 DEF IsTotal
      <4>2. i # 1 => t2[headers[i].parent] = t[headers[i].parent]
        BY <1>2, <1>3, <3>1
      <4>3. t2[i] = t[i] /\ headers'[i] = headers[i]
        BY <1>2, <3>1
      <4> HIDE DEF t2
      <4> QED BY <4>1, <4>2, <4>3
    <3>2. CASE i = last
      BY <1>2, <3>2
    <3> QED BY <1>2, <3>1, <3>2
  <2>3. t2 = [i \in DOMAIN headers' |-> of(t2, i)]
    <3> DEFINE f == [i \in DOMAIN headers' |-> of(t2, i)]
    <3>1. \A i \in DOMAIN headers' : t2[i] = f[i]
      <4> HIDE DEF of, t2
      <4> QED BY <2>2
    <3> HIDE DEF of
    <3> QED BY <3>1
  <2>4. IsTotal(headers', t2)
    <3> HIDE DEF t2
    <3> QED BY <2>3 DEF IsTotal
  <2> QED BY <2>4
<1>5. \E t : IsBranch(headers', t)
  <2>1. PICK t : IsBranch(headers, t)
    BY DEF Recursions
  <2> DEFINE t2 == [i \in DOMAIN headers' |-> IF i \in DOMAIN headers THEN t[i] ELSE {last} \cup t[p]]
             of(f, i) == IF i = 1 THEN {1} ELSE {i} \cup f[headers'[i].parent]
  <2>2. ASSUME NEW i \in DOMAIN headers' PROVE t2[i] = of(t2, i)
    <3>1. CASE i \in DOMAIN headers
      <4>1. t[i] = IF i = 1 THEN {1} ELSE {i} \cup t[headers[i].parent]
        BY <2>1, <3>1 DEF IsBranch
      <4>2. i # 1 => t2[headers[i].parent] = t[headers[i].parent]
        BY <1>2, <1>3, <3>1
      <4>3. t2[i] = t[i] /\ headers'[i] = headers[i]
        BY <1>2, <3>1
      <4> HIDE DEF t2
      <4> QED BY <4>1, <4>2, <4>3
    <3>2. CASE i = last
      BY <1>2, <3>2
    <3> QED BY <1>2, <3>1, <3>2
  <2>3. t2 = [i \in DOMAIN headers' |-> of(t2, i)]
    <3> DEFINE f == [i \in DOMAIN headers' |-> of(t2, i)]
    <3>1. \A i \in DOMAIN headers' : t2[i] = f[i]
      <4> HIDE DEF of, t2
      <4> QED BY <2>2
    <3> HIDE DEF of
    <3> QED BY <3>1
  <2>4. IsBranch(headers', t2)
    <3> HIDE DEF t2
    <3> QED BY <2>3 DEF IsBranch
  <2> QED BY <2>4
<1> QED BY <1>4, <1>5 DEF Recursions

\* So TotalDifficulty and Branch are what their recursions say.
LEMMA RecursionsHold ==
  ASSUME Recursions
  PROVE  IsTotal(headers, TotalDifficulty) /\ IsBranch(headers, Branch)
<1>1. TotalDifficulty = CHOOSE td : IsTotal(headers, td)
  BY DEF TotalDifficulty, IsTotal
<1>2. Branch = CHOOSE up : IsBranch(headers, up)
  BY DEF Branch, IsBranch
<1>3. IsTotal(headers, TotalDifficulty)
  <2>1. \E td : IsTotal(headers, td) BY DEF Recursions
  <2> QED BY <1>1, <2>1, Zenon
<1>4. IsBranch(headers, Branch)
  <2>1. \E up : IsBranch(headers, up) BY DEF Recursions
  <2> QED BY <1>2, <2>1, Zenon
<1> QED BY <1>3, <1>4

LEMMA AlwaysRecursions == Spec => []Recursions
<1>1. Recursions /\ UNCHANGED headers => Recursions'
  BY DEF Recursions
<1>2. Inv /\ Recursions /\ [Next]_headers => Recursions'
  BY <1>1, ImportRecursions DEF Next
<1> QED BY AlwaysInv, InitRecursions, <1>2, PTL DEF Spec

\* A set of places in the tree has a first.
LEMMA FirstPlace ==
  ASSUME NEW S \in SUBSET Nat, S # {}
  PROVE  \E x \in S : \A y \in S : x <= y
<1> DEFINE R == {ss \in Nat \X Nat : ss[1] < ss[2]}
<1>1. IsWellFoundedOn(R, Nat)
  BY NatLessThanWellFounded DEF OpToRel
<1>2. PICK x \in S : \A y \in S : ~(<<y, x>> \in R)
  <2> HIDE DEF R
  <2> QED BY <1>1, WFMin
<1>3. ASSUME NEW y \in S PROVE x <= y
  <2>1. <<y, x>> \notin R BY <1>2
  <2>2. <<y, x>> \in Nat \X Nat OBVIOUS
  <2> QED BY <2>1, <2>2
<1> QED BY <1>3

\* An AuRa header other than the genesis one and its parent.
LEMMA ParentFacts ==
  ASSUME Inv, NEW i \in DOMAIN headers, i # 1, headers[i].has_step
  PROVE  LET h == headers[i]
             p == headers[h.parent]
         IN /\ i \in Nat /\ h.parent \in DOMAIN headers /\ h.parent < i
            /\ h.parent \in Nat
            /\ h.number = p.number + 1 /\ p.number \in Nat
            /\ p.has_step /\ p.step \in 0..MaxStep /\ h.step \in 0..MaxStep
            /\ p.step < h.step
            /\ h.difficulty = MaxU128 + p.step - h.step
<1> DEFINE h == headers[i]
           k == h.parent
           p == headers[k]
<1>1. headers \in Seq(Header) /\ i \in 1..Len(headers) /\ Len(headers) \in Nat
  BY DEF Inv, TypeOK
<1>2. k \in 1..(i - 1) /\ h.number = p.number + 1 /\ FitsU64(h.step)
  BY DEF Inv, TypeOK
<1>3. Follows(h, p)
  BY DEF Inv
<1>4. k \in DOMAIN headers /\ k \in Nat /\ k < i /\ i \in Nat
  <2> HIDE DEF k
  <2> QED BY <1>1, <1>2
<1>5. h \in Header /\ p \in Header
  <2> HIDE DEF k
  <2> QED BY <1>1, <1>4
<1>6. p.number \in Nat /\ p.step \in Nat /\ h.step \in Nat
  <2> HIDE DEF h, p
  <2> QED BY <1>5 DEF Header
<1>7. p.has_step /\ p.step < h.step /\ h.step <= MaxStep
  BY <1>2, <1>3, <1>6 DEF Follows, StepAdvances, FitsU64
<1>8. h.difficulty = (MaxU128 + p.step - h.step) % U256Size
  BY <1>3 DEF Follows, CalculateAuraDifficulty
<1>9. (MaxU128 + p.step - h.step) % U256Size = MaxU128 + p.step - h.step
  <2> DEFINE d == MaxU128 + p.step - h.step
  <2>1. d \in Nat /\ d < U256Size /\ U256Size \in Nat
    BY <1>6, <1>7, AuraHeaderAssumption
  <2>2. \A a, n \in Nat : a < n => a % n = a
    OBVIOUS
  <2> HIDE DEF d
  <2>3. d % U256Size = d BY <2>1, <2>2
  <2> QED BY <2>3 DEF d
<1> QED
  <2>1. p.step \in 0..MaxStep /\ h.step \in 0..MaxStep
    <3> HIDE DEF h, p
    <3> QED BY <1>6, <1>7, AuraHeaderAssumption
  <2> QED BY <1>2, <1>4, <1>6, <1>7, <1>8, <1>9, <2>1

\* The total difficulty of an AuRa header depends on its number and step alone:
\* along the branch the steps cancel.
LEMMA ScoreOfHeader ==
  ASSUME Inv, Recursions, NEW i \in DOMAIN headers, headers[i].has_step
  PROVE  /\ headers[i].number \in Nat /\ headers[i].step \in 0..MaxStep
         /\ TotalDifficulty[i] =
              GenesisDifficulty + MaxU128 * headers[i].number - headers[i].step
<1> DEFINE Score(k) == GenesisDifficulty + MaxU128 * headers[k].number - headers[k].step
           Odd == {k \in DOMAIN headers :
                     headers[k].has_step /\ TotalDifficulty[k] # Score(k)}
<1>1. /\ headers \in Seq(Header) /\ headers[1] = Genesis /\ 1 \in DOMAIN headers
      /\ DOMAIN headers \subseteq Nat
  BY DEF Inv, TypeOK
<1>2. \A k \in DOMAIN headers :
        TotalDifficulty[k] =
          headers[k].difficulty + IF k = 1 THEN 0 ELSE TotalDifficulty[headers[k].parent]
  BY RecursionsHold DEF IsTotal
<1>3. Genesis.number = 0 /\ Genesis.step = 0 /\ Genesis.difficulty = GenesisDifficulty
  BY DEF Genesis
<1>4. TotalDifficulty[1] = Score(1)
  BY <1>1, <1>2, <1>3, AuraHeaderAssumption
<1>5. ASSUME Odd # {} PROVE FALSE
  <2>1. PICK k \in Odd : \A m \in Odd : k <= m
    <3>1. Odd \in SUBSET Nat BY <1>1
    <3> HIDE DEF Odd
    <3> QED BY <1>5, <3>1, FirstPlace
  <2>2. k \in DOMAIN headers /\ headers[k].has_step /\ TotalDifficulty[k] # Score(k)
    OBVIOUS
  <2>3. k # 1 BY <1>4, <2>2
  <2> DEFINE q == headers[k].parent
             n == headers[q].number
  <2>4. /\ k \in Nat /\ q \in DOMAIN headers /\ q < k /\ q \in Nat
        /\ headers[k].number = n + 1 /\ n \in Nat
        /\ headers[q].has_step /\ headers[q].step \in 0..MaxStep
        /\ headers[k].step \in 0..MaxStep
        /\ headers[k].difficulty = MaxU128 + headers[q].step - headers[k].step
    BY <2>2, <2>3, ParentFacts
  <2> HIDE DEF q, n
  <2>5. TotalDifficulty[q] = Score(q)
    <3>1. q \notin Odd
      <4> HIDE DEF Odd
      <4> QED BY <2>1, <2>4
    <3> QED BY <2>4, <3>1
  <2>6. TotalDifficulty[k] = headers[k].difficulty + TotalDifficulty[q]
    BY <1>2, <2>2, <2>3 DEF q
  <2>7. MaxU128 * (n + 1) = MaxU128 * n + MaxU128
    <3>1. \A a, b \in Nat : a * (b + 1) = a * b + a
      OBVIOUS
    <3> QED BY <2>4, <3>1, AuraHeaderAssumption
  <2>8. MaxU128 * n \in Nat
    BY <2>4, AuraHeaderAssumption
  <2>9. Score(q) = GenesisDifficulty + MaxU128 * n - headers[q].step
    BY DEF n
  <2>10. Score(k) = GenesisDifficulty + MaxU128 * (n + 1) - headers[k].step
    BY <2>4
  <2> DEFINE mn == MaxU128 * n
             mn1 == MaxU128 * (n + 1)
  <2> HIDE DEF mn, mn1
  <2>11. /\ mn1 = mn + MaxU128 /\ mn \in Nat
         /\ TotalDifficulty[q] = GenesisDifficulty + mn - headers[q].step
         /\ Score(k) = GenesisDifficulty + mn1 - headers[k].step
    BY <2>5, <2>7, <2>8, <2>9, <2>10 DEF mn, mn1
  <2> HIDE DEF Score
  <2>12. TotalDifficulty[k] = Score(k)
    <3>1. headers[q].step \in Nat /\ headers[k].step \in Nat
      BY <2>4, AuraHeaderAssumption
    <3>2. \A x, y, z, u, v \in Int : (u + y - z) + (x + v - y) = x + (v + u) - z
      OBVIOUS
    <3>3. (MaxU128 + headers[q].step - headers[k].step)
            + (GenesisDifficulty + mn - headers[q].step)
            = GenesisDifficulty + (mn + MaxU128) - headers[k].step
      BY <2>11, <3>1, <3>2, AuraHeaderAssumption
    <3> QED BY <2>4, <2>6, <2>11, <3>3
  <2> QED BY <2>2, <2>12
<1>6. headers[i].number \in Nat /\ headers[i].step \in 0..MaxStep
  <2>1. CASE i = 1
    BY <1>1, <1>3, <2>1, AuraHeaderAssumption
  <2>2. CASE i # 1
    BY <2>2, ParentFacts
  <2> QED BY <2>1, <2>2
<1> QED BY <1>5, <1>6

\* Along a branch of AuRa headers the steps grow.
LEMMA StepsGrow ==
  ASSUME Inv, Recursions, NEW i \in DOMAIN headers, headers[i].has_step,
         NEW j \in Branch[i] \ {i}
  PROVE  j \in DOMAIN headers /\ headers[j].step \in Nat /\ headers[j].step < headers[i].step
<1> DEFINE Later(a, b) == /\ a \in DOMAIN headers /\ headers[a].step \in Nat
                          /\ headers[a].step < headers[b].step
           Odd == {k \in DOMAIN headers :
                     headers[k].has_step /\ \E a \in Branch[k] \ {k} : ~Later(a, k)}
<1>1. DOMAIN headers \subseteq Nat
  BY DEF Inv, TypeOK
<1>2. \A k \in DOMAIN headers :
        Branch[k] = IF k = 1 THEN {1} ELSE {k} \cup Branch[headers[k].parent]
  BY RecursionsHold DEF IsBranch
<1>3. ASSUME Odd # {} PROVE FALSE
  <2>1. PICK k \in Odd : \A m \in Odd : k <= m
    <3>1. Odd \in SUBSET Nat BY <1>1
    <3> HIDE DEF Odd
    <3> QED BY <1>3, <3>1, FirstPlace
  <2>2. k \in DOMAIN headers /\ headers[k].has_step
    OBVIOUS
  <2>3. PICK a \in Branch[k] \ {k} : ~Later(a, k)
    OBVIOUS
  <2>4. k # 1 /\ a \in Branch[headers[k].parent]
    <3>1. Branch[k] = IF k = 1 THEN {1} ELSE {k} \cup Branch[headers[k].parent]
      BY <1>2, <2>2
    <3>2. k # 1
      BY <2>3, <3>1
    <3> QED BY <2>3, <3>1, <3>2
  <2> DEFINE q == headers[k].parent
  <2>5. /\ k \in Nat /\ q \in DOMAIN headers /\ q < k /\ q \in Nat
        /\ headers[q].has_step /\ headers[q].step \in 0..MaxStep
        /\ headers[k].step \in 0..MaxStep
        /\ headers[q].step < headers[k].step
    BY <2>2, <2>4, ParentFacts
  <2> HIDE DEF q
  <2>6. headers[q].step \in Nat /\ headers[k].step \in Nat
    BY <2>5, AuraHeaderAssumption
  <2>7. CASE a = q
    BY <2>3, <2>5, <2>6, <2>7
  <2>8. CASE a # q
    <3>1. q \notin Odd
      <4> HIDE DEF Odd
      <4> QED BY <2>1, <2>5
    <3>2. a \in Branch[q] \ {q}
      BY <2>4, <2>8 DEF q
    <3>3. Later(a, q)
      <4> HIDE DEF Later
      <4> QED BY <2>5, <3>1, <3>2
    <3> QED BY <2>3, <2>5, <2>6, <3>3
  <2> QED BY <2>7, <2>8
<1>4. Later(j, i)
  <2> HIDE DEF Later
  <2> QED BY <1>3
<1> QED BY <1>4

\* A product grows by whole factors.
LEMMA WholeSteps ==
  ASSUME NEW c \in Nat, NEW d \in Nat, NEW e \in Nat, d < e
  PROVE  c * e >= c * d + c
<1>1. PICK m \in Nat : e = d + 1 + m
  <2>1. e - d - 1 \in Nat /\ e = d + 1 + (e - d - 1) OBVIOUS
  <2> QED BY <2>1
<1>2. c * e = c * d + c + c * m BY <1>1
<1>3. c * m \in Nat /\ c * d \in Nat OBVIOUS
<1> QED BY <1>2, <1>3

\* Numbers with one remainder are a whole number of turns apart.
LEMMA WholeTurn ==
  ASSUME NEW a \in Nat, NEW b \in Nat, NEW n \in Nat \ {0}, a % n = b % n, b < a
  PROVE  a >= b + n
<1> DEFINE x == a \div n
           y == b \div n
           r == a % n
<1>1. /\ x \in Nat /\ y \in Nat /\ r \in Nat
      /\ a = n * x + r /\ b = n * y + r
  OBVIOUS
<1> HIDE DEF x, y, r
<1>2. y < x
  <2>1. ASSUME x <= y PROVE FALSE
    <3>1. n * x <= n * y
      <4>1. \A c, d, e \in Nat : d <= e => c * d <= c * e
        OBVIOUS
      <4> QED BY <1>1, <2>1, <4>1
    <3>2. n * x \in Nat /\ n * y \in Nat BY <1>1
    <3> QED BY <1>1, <3>1, <3>2
  <2> QED BY <1>1, <2>1
<1>3. n * x >= n * y + n
  BY <1>1, <1>2, WholeSteps
<1>4. n * x \in Nat /\ n * y \in Nat BY <1>1
<1> QED BY <1>1, <1>3, <1>4

\* Under one list the slot of the step decides the signer.
LEMMA InvRotates == Inv => SlotsRotate
<1> SUFFICES ASSUME Inv, NEW i \in DOMAIN headers, NEW j \in DOMAIN headers,
                    SameList(i, j)
             PROVE  headers[i].signer = headers[j].signer
                      <=> headers[i].step % Len(List(i)) = headers[j].step % Len(List(i))
  BY DEF SlotsRotate
<1> DEFINE s == List(i)
           slot(k) == headers[k].step % Len(s)
<1>1. /\ i # 1 /\ headers[i].has_step /\ HasListAt(Sets, headers[i].number - 1)
      /\ j # 1 /\ headers[j].has_step /\ HasListAt(Sets, headers[j].number - 1)
      /\ List(j) = s /\ IsInjectiveList(s)
  BY DEF SameList, Listed
<1>2. headers \in Seq(Header)
  BY DEF Inv, TypeOK
<1>3. headers[i].step \in Nat /\ headers[j].step \in Nat
  <2>1. headers[i] \in Header /\ headers[j] \in Header BY <1>2
  <2> QED BY <2>1 DEF Header
<1>4. headers[i].number - 1 \in Nat
  <2>1. headers[i].parent \in 1..(i - 1) /\ headers[i].number = headers[headers[i].parent].number + 1
    BY <1>1 DEF Inv, TypeOK
  <2>2. headers[i].parent \in DOMAIN headers BY <2>1, <1>2
  <2>3. headers[headers[i].parent] \in Header BY <2>2, <1>2
  <2>4. headers[headers[i].parent].number \in Nat BY <2>3 DEF Header
  <2> QED BY <2>1, <2>4
<1>5. s \in Seq(Signers)
  BY <1>1, <1>4, ListType DEF List
<1>6. SealedInTurn(headers[i]) /\ SealedInTurn(headers[j])
  BY <1>1 DEF Inv
<1>7. /\ s # <<>>
      /\ headers[i].signer = ExpectedProposer(headers[i].step, s)
      /\ headers[j].signer = ExpectedProposer(headers[j].step, s)
  BY <1>1, <1>6 DEF SealedInTurn, RecoverSealAuthor, List
<1>8. headers[i].signer = s[slot(i) + 1] /\ headers[j].signer = s[slot(j) + 1]
  BY <1>7 DEF ExpectedProposer
<1>9. Len(s) \in Nat \ {0}
  <2> HIDE DEF s
  <2> QED BY <1>5, <1>7
<1>10. slot(i) \in 0..(Len(s) - 1) /\ slot(j) \in 0..(Len(s) - 1)
  <2>1. \A a \in Nat, n \in Nat \ {0} : a % n \in 0..(n - 1)
    OBVIOUS
  <2> HIDE DEF s
  <2> QED BY <1>3, <1>9, <2>1
<1>11. s[slot(i) + 1] = s[slot(j) + 1] <=> slot(i) = slot(j)
  <2>1. slot(i) + 1 \in DOMAIN s /\ slot(j) + 1 \in DOMAIN s
    <3> HIDE DEF s, slot
    <3> QED BY <1>5, <1>9, <1>10
  <2>2. slot(i) + 1 = slot(j) + 1 <=> slot(i) = slot(j)
    <3> HIDE DEF s, slot
    <3> QED BY <1>9, <1>10
  <2> HIDE DEF s, slot
  <2> QED BY <1>1, <2>1, <2>2 DEF IsInjectiveList
<1>12. headers[i].signer = headers[j].signer <=> slot(i) = slot(j)
  <2> HIDE DEF s, slot
  <2> QED BY <1>8, <1>11
<1> QED BY <1>12

(***************************************************************************)
(* Theorems.                                                               *)
(***************************************************************************)
\* The tree stays a tree, and no step exceeds 64 bits, whatever peers offer.
THEOREM TypeCorrect == Spec => []TypeOK
<1>1. Inv => TypeOK BY DEF Inv
<1> QED BY AlwaysInv, <1>1, PTL

\* The phase is monotonic by block number on every branch: the comment at
\* src/aura/mod.rs:222 is right for every chain spec.
THEOREM PhasesDoNotMix == Spec => []PhaseIsMonotonic
<1>1. Inv => PhaseIsMonotonic
  <2> SUFFICES ASSUME Inv, NEW i \in DOMAIN headers \ {1}
               PROVE  LET h == headers[i]
                          p == headers[h.parent]
                      IN /\ h.has_step => p.has_step /\ h.number < ParisBlock
                         /\ p.has_step /\ ~h.has_step => h.number = ParisBlock
    BY DEF PhaseIsMonotonic
  <2> DEFINE h == headers[i]
             p == headers[h.parent]
  <2>1. headers \in Seq(Header) /\ h.parent \in 1..(i - 1) /\ h.number = p.number + 1
    BY DEF Inv, TypeOK
  <2>2. h.parent \in DOMAIN headers
    BY <2>1
  <2>3. h \in Header /\ p \in Header
    BY <2>1, <2>2
  <2>4. PhaseAgrees(h) /\ PhaseAgrees(p)
    BY <2>2 DEF Inv
  <2>5. /\ h.number < ParisBlock <=> h.has_step
        /\ p.number < ParisBlock <=> p.has_step
    BY <2>4 DEF PhaseAgrees, IsPreMerge
  <2>6. h.number \in Nat /\ p.number \in Nat /\ ParisBlock \in Nat
    BY <2>3, AuraHeaderAssumption DEF Header
  <2>7. h.has_step \in BOOLEAN /\ p.has_step \in BOOLEAN
    BY <2>3 DEF Header
  <2> HIDE DEF h, p
  <2>8. h.number < ParisBlock => p.number < ParisBlock
    BY <2>1, <2>6
  <2>9. p.number < ParisBlock /\ ~(h.number < ParisBlock) => h.number = ParisBlock
    BY <2>1, <2>6
  <2>10. /\ h.has_step => p.has_step /\ h.number < ParisBlock
         /\ p.has_step /\ ~h.has_step => h.number = ParisBlock
    BY <2>5, <2>8, <2>9, Zenon
  <2> QED BY <2>10 DEF h, p
<1> QED BY AlwaysInv, <1>1, PTL

\* The slots rotate: under one list, one signer means a number of whole rounds
\* between the steps, anywhere in the tree (expected_proposer).
THEOREM SlotsAlwaysRotate == Spec => []SlotsRotate
<1> QED BY AlwaysInv, InvRotates, PTL

\* The total difficulty orders AuRa branches by length, then by the earlier step
\* of the tip, whatever steps they skipped, and the 256-bit arithmetic of
\* calculate_aura_difficulty never wraps: for any width of step and any tree.
THEOREM ScoreAlwaysOrders == Spec => []ScoreOrdersBranches
<1>1. Inv /\ Recursions => ScoreOrdersBranches
  <2> SUFFICES ASSUME Inv, Recursions,
                      NEW i \in DOMAIN headers, NEW j \in DOMAIN headers,
                      headers[i].has_step, headers[j].has_step
               PROVE  TotalDifficulty[i] > TotalDifficulty[j]
                        <=> \/ headers[i].number > headers[j].number
                            \/ /\ headers[i].number = headers[j].number
                               /\ headers[i].step < headers[j].step
    BY DEF ScoreOrdersBranches
  <2>1. \A n, m \in Nat, a, b \in 0..MaxStep :
          GenesisDifficulty + MaxU128 * n - a > GenesisDifficulty + MaxU128 * m - b
            <=> n > m \/ (n = m /\ a < b)
    <3> SUFFICES ASSUME NEW n \in Nat, NEW m \in Nat, NEW a \in 0..MaxStep, NEW b \in 0..MaxStep
                 PROVE  GenesisDifficulty + MaxU128 * n - a > GenesisDifficulty + MaxU128 * m - b
                          <=> n > m \/ (n = m /\ a < b)
      OBVIOUS
    <3> DEFINE mn == MaxU128 * n
               mm == MaxU128 * m
    <3>1. mn \in Nat /\ mm \in Nat
      BY AuraHeaderAssumption
    <3>2. /\ n > m => mn >= mm + MaxU128
          /\ m > n => mm >= mn + MaxU128
      BY AuraHeaderAssumption, WholeSteps
    <3>3. n = m => mn = mm
      OBVIOUS
    <3> HIDE DEF mn, mm
    <3>4. GenesisDifficulty + mn - a > GenesisDifficulty + mm - b
            <=> n > m \/ (n = m /\ a < b)
      BY <3>1, <3>2, <3>3, AuraHeaderAssumption
    <3> QED BY <3>4 DEF mn, mm
  <2> DEFINE score(k) == GenesisDifficulty + MaxU128 * headers[k].number - headers[k].step
  <2>2. /\ headers[i].number \in Nat /\ headers[i].step \in 0..MaxStep
        /\ headers[j].number \in Nat /\ headers[j].step \in 0..MaxStep
        /\ TotalDifficulty[i] = score(i) /\ TotalDifficulty[j] = score(j)
    BY ScoreOfHeader
  <2>3. score(i) > score(j)
          <=> \/ headers[i].number > headers[j].number
              \/ /\ headers[i].number = headers[j].number
                 /\ headers[i].step < headers[j].step
    BY <2>1, <2>2
  <2> HIDE DEF score
  <2> QED BY <2>2, <2>3
<1> QED BY AlwaysInv, AlwaysRecursions, <1>1, PTL

\* No validator seals twice in a round, on any branch and under any list without
\* repetitions (expected_proposer and the step comparison of
\* validate_aura_header_against_parent together).
THEOREM RoundsAreAlwaysFair == Spec => []RoundsAreFair
<1>1. Inv /\ Recursions => RoundsAreFair
  <2> SUFFICES ASSUME Inv, Recursions,
                      NEW i \in DOMAIN headers, NEW j \in Branch[i] \ {i},
                      SameList(i, j), headers[i].signer = headers[j].signer
               PROVE  headers[i].step >= headers[j].step + Len(List(i))
    BY DEF RoundsAreFair
  <2>1. i # 1 /\ headers[i].has_step /\ HasListAt(Sets, headers[i].number - 1)
    BY DEF SameList, Listed
  <2>2. j \in DOMAIN headers /\ headers[j].step \in Nat /\ headers[j].step < headers[i].step
    BY <2>1, StepsGrow
  <2>3. headers[i].step % Len(List(i)) = headers[j].step % Len(List(i))
    BY <2>2, InvRotates DEF SlotsRotate
  <2>4. headers[i].step \in Nat
    <3>1. headers[i].step \in 0..MaxStep BY <2>1, ScoreOfHeader
    <3> QED BY <3>1, AuraHeaderAssumption
  <2>5. Len(List(i)) \in Nat \ {0}
    <3>1. headers[i].number - 1 \in Nat
      BY <2>1, ParentFacts
    <3>2. List(i) \in Seq(Signers)
      BY <2>1, <3>1, ListType DEF List
    <3>3. List(i) # <<>>
      BY <2>1 DEF Inv, SealedInTurn, List
    <3> QED BY <3>2, <3>3
  <2> QED BY <2>2, <2>3, <2>4, <2>5, WholeTurn
<1> QED BY AlwaysInv, AlwaysRecursions, <1>1, PTL
=============================================================================

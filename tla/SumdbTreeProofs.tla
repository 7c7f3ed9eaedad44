---------------------------- MODULE SumdbTreeProofs ----------------------------
(***************************************************************************)
(* What holds of VerifyInclusion for trees of every size and answers of    *)
(* every kind.                                                             *)
(***************************************************************************)
EXTENDS SumdbTree, WellFoundedInduction, TLAPS

\* A set of natural numbers that is not empty has a least element.
LEMMA Least ==
  ASSUME NEW S \in SUBSET Nat, S # {}
  PROVE  \E m \in S : \A x \in S : m <= x
<1> DEFINE Less == {ss \in Nat \X Nat : ss[1] < ss[2]}
<1>1. IsWellFoundedOn(Less, Nat)
  BY NatLessThanWellFounded, SMT DEF OpToRel
<1>2. PICK m \in S : \A x \in S : <<x, m>> \notin Less
  <2> HIDE DEF Less
  <2> QED
    BY <1>1, WFMin
<1>3. \A x \in S : ~(x < m)
  BY <1>2
<1> QED
  BY <1>3

\* Induction: what 0 has, and each number has if the one before has it, all have.
LEMMA Induction ==
  ASSUME NEW P \in SUBSET Nat, 0 \in P, \A n \in P : n + 1 \in P
  PROVE  P = Nat
<1> SUFFICES ASSUME Nat \ P # {} PROVE FALSE
  OBVIOUS
<1>1. PICK m \in Nat \ P : \A x \in Nat \ P : m <= x
  BY Least
<1>2. m - 1 \in P
  BY <1>1
<1> QED
  BY <1>1, <1>2

\* Sequences are functions on the numbers up to their length.
IsSeq(s) == Len(s) \in Nat /\ s = [j \in 1..Len(s) |-> s[j]]

\* What a server answers is of its type.
LEMMA Answered ==
  Init => IsSeq(proof) /\ leafIndex \in Int
  BY AnswersAssumption DEF Init, IsSeq

LenOfProof == Len(proof) \in Nat

\* The half of a node's index stays within the half of the last one's.
LEMMA HalfWithin ==
  ASSUME NEW i \in Nat, NEW n \in Nat, i <= n
  PROVE  i \div 2 \in Nat /\ n \div 2 \in Nat /\ i \div 2 <= n \div 2 /\ n \div 2 <= n
OBVIOUS

\* The loop is a climb within the tree over the proof's hashes, for any server.
THEOREM TypeCorrect == Spec => [](TypeOK /\ LenOfProof)
<1> DEFINE Inv == TypeOK /\ LenOfProof
<1>1. Init => Inv
  <2> SUFFICES ASSUME Init PROVE Inv
    OBVIOUS
  <2>1. LenOfProof /\ leafIndex \in Int
    BY Answered DEF LenOfProof, IsSeq
  <2> QED
    BY <2>1, MaxSizeAssumption DEF Init, TypeOK, LenOfProof
<1>2. Inv /\ [Next]_vars => Inv'
  <2> SUFFICES ASSUME Inv, [Next]_vars PROVE Inv'
    OBVIOUS
  <2>1. ASSUME Looping, fn' = fn \div 2, sn' = sn \div 2, UNCHANGED <<input, verdict>>,
               pi' \in {pi, pi + 1}, pi' <= Len(proof)
        PROVE  Inv'
    <3>1. fn \in Nat /\ sn \in Nat /\ fn <= sn /\ sn <= treeSize - 1 /\ treeSize \in Nat
      BY <2>1, MaxSizeAssumption DEF Looping, TypeOK
    <3>2. fn' \in Nat /\ sn' \in Nat /\ fn' <= sn' /\ sn' <= sn
      BY <2>1, <3>1, HalfWithin
    <3>3. UNCHANGED <<treeSize, leafIndex, proof, verdict>>
      BY <2>1 DEF input
    <3>4. Len(proof') = Len(proof) /\ Len(proof) \in Nat
      BY <3>3 DEF LenOfProof
    <3>5. pi' \in 0..Len(proof')
      <4> DEFINE L == Len(proof)
      <4>1. L \in Nat /\ pi \in 0..L /\ pi' \in {pi, pi + 1} /\ pi' <= L
        BY <2>1, <3>4 DEF TypeOK
      <4> HIDE DEF L
      <4>2. pi' \in 0..L
        BY <4>1
      <4> QED
        BY <4>2, <3>4 DEF L
    <3>6. sn' \in 0..(treeSize' - 1) /\ fn' \in 0..sn'
      BY <3>1, <3>2, <3>3
    <3> QED
      BY <3>3, <3>4, <3>5, <3>6 DEF TypeOK, LenOfProof
  <2>2. ASSUME NEW v \in {"verified", "out of range", "too short", "unused hashes", "other root"},
               Return(v)
        PROVE  Inv'
    BY <2>2 DEF Return, input, TypeOK, LenOfProof
  <2>3. CASE OutOfRange
    BY <2>2, <2>3 DEF OutOfRange
  <2>4. CASE Promote
    <3>1. /\ Looping /\ fn' = fn \div 2 /\ sn' = sn \div 2 /\ UNCHANGED <<input, verdict>>
          /\ pi' = pi + 0
      BY <2>4 DEF Promote, Up
    <3>2. pi' \in {pi, pi + 1} /\ pi' <= Len(proof)
      <4> DEFINE L == Len(proof)
      <4>1. L \in Nat /\ pi \in 0..L /\ pi' = pi + 0
        BY <3>1 DEF TypeOK, LenOfProof
      <4> HIDE DEF L
      <4>2. pi' \in {pi, pi + 1} /\ pi' <= L
        BY <4>1
      <4> QED
        BY <4>2 DEF L
    <3> QED
      BY <2>1, <3>1, <3>2
  <2>5. CASE JoinLeft
    <3>1. /\ Looping /\ fn' = fn \div 2 /\ sn' = sn \div 2 /\ UNCHANGED <<input, verdict>>
          /\ pi' = pi + 1 /\ pi < Len(proof)
      BY <2>5 DEF JoinLeft, Up
    <3>2. pi' \in {pi, pi + 1} /\ pi' <= Len(proof)
      <4> DEFINE L == Len(proof)
      <4>1. L \in Nat /\ pi \in 0..L /\ pi' = pi + 1 /\ pi < L
        BY <3>1 DEF TypeOK, LenOfProof
      <4> HIDE DEF L
      <4>2. pi' \in {pi, pi + 1} /\ pi' <= L
        BY <4>1
      <4> QED
        BY <4>2 DEF L
    <3> QED
      BY <2>1, <3>1, <3>2
  <2>6. CASE JoinRight
    <3>1. /\ Looping /\ fn' = fn \div 2 /\ sn' = sn \div 2 /\ UNCHANGED <<input, verdict>>
          /\ pi' = pi + 1 /\ pi < Len(proof)
      BY <2>6 DEF JoinRight, Up
    <3>2. pi' \in {pi, pi + 1} /\ pi' <= Len(proof)
      <4> DEFINE L == Len(proof)
      <4>1. L \in Nat /\ pi \in 0..L /\ pi' = pi + 1 /\ pi < L
        BY <3>1 DEF TypeOK, LenOfProof
      <4> HIDE DEF L
      <4>2. pi' \in {pi, pi + 1} /\ pi' <= L
        BY <4>1
      <4> QED
        BY <4>2 DEF L
    <3> QED
      BY <2>1, <3>1, <3>2
  <2>7. CASE TooShort
    BY <2>2, <2>7 DEF TooShort
  <2>8. CASE Conclude
    BY <2>2, <2>8 DEF Conclude
  <2>9. CASE UNCHANGED vars
    BY <2>9 DEF vars, input, TypeOK, LenOfProof
  <2> QED
    BY <2>3, <2>4, <2>5, <2>6, <2>7, <2>8, <2>9 DEF Next
<1> QED
  BY <1>1, <1>2, PTL DEF Spec

-------------------------------------------------------------------------------
(* Splits at powers of two *)

\* What largestPow2LessThan comes to from each k.
Doubled(n) == CHOOSE doubled : doubled = [k \in 1..n |-> IF 2 * k < n THEN doubled[2 * k] ELSE k]

LEMMA DoubledIs == ASSUME NEW n PROVE largestPow2LessThan(n) = Doubled(n)[1]
BY DEF largestPow2LessThan, Doubled

\* Doubling ends: the values are those of their recursion.
LEMMA DoubledFact ==
  ASSUME NEW n \in Nat \ {0}
  PROVE  Doubled(n) = [k \in 1..n |-> IF 2 * k < n THEN Doubled(n)[2 * k] ELSE k]
<1> DEFINE Within(m) == {k \in 1..n : k + m >= n}
           Solves(g, m) == g = [k \in Within(m) |-> IF 2 * k < n THEN g[2 * k] ELSE k]
           S == {m \in Nat : \E g : Solves(g, m)}
<1>1. 0 \in S
  <2> DEFINE g == [k \in Within(0) |-> k]
  <2>1. Solves(g, 0)
    OBVIOUS
  <2> QED
    BY <2>1
<1>2. ASSUME NEW m \in S PROVE m + 1 \in S
  <2>1. PICK g : Solves(g, m)
    OBVIOUS
  <2> DEFINE h == [k \in Within(m + 1) |-> IF 2 * k < n THEN g[2 * k] ELSE k]
  <2>2. ASSUME NEW k \in Within(m + 1), 2 * k < n
        PROVE  h[2 * k] = g[2 * k]
    <3>1. 2 * k \in Within(m) /\ 2 * k \in Within(m + 1)
      BY <2>2
    <3> QED
      BY <2>1, <3>1
  <2>3. h = [k \in Within(m + 1) |-> IF 2 * k < n THEN g[2 * k] ELSE k]
    OBVIOUS
  <2> HIDE DEF h
  <2>4. \A k \in Within(m + 1) : (IF 2 * k < n THEN g[2 * k] ELSE k) = (IF 2 * k < n THEN h[2 * k] ELSE k)
    BY <2>2
  <2> HIDE DEF Within
  <2>5. h = [k \in Within(m + 1) |-> IF 2 * k < n THEN h[2 * k] ELSE k]
    BY <2>3, <2>4
  <2> QED
    BY <2>5
<1>3. S = Nat
  <2> HIDE DEF S
  <2>1. S \in SUBSET Nat
    BY DEF S
  <2> QED
    BY <1>1, <1>2, <2>1, Induction
<1>4. \E g : Solves(g, n)
  BY <1>3
<1>5. Within(n) = 1..n
  OBVIOUS
<1>6. \E g : g = [k \in 1..n |-> IF 2 * k < n THEN g[2 * k] ELSE k]
  BY <1>4, <1>5
<1> QED
  BY <1>6 DEF Doubled

\* The numbers that the doubling comes to.
Reaches(p) == p \in Nat /\ p >= 1 /\ \A n \in Nat \ {0} : p < n => Doubled(n)[1] = Doubled(n)[p]

\* The doubling starts at 1 and goes on while it stays below n.
LEMMA ReachesOne == Reaches(1)
BY DEF Reaches

LEMMA ReachesTwice ==
  ASSUME NEW p, Reaches(p)
  PROVE  Reaches(2 * p)
<1>1. p \in Nat /\ p >= 1
  BY DEF Reaches
<1> SUFFICES ASSUME NEW n \in Nat \ {0}, 2 * p < n PROVE Doubled(n)[1] = Doubled(n)[2 * p]
  BY <1>1 DEF Reaches
<1>2. p < n /\ p \in 1..n
  BY <1>1
<1>3. Doubled(n)[p] = Doubled(n)[2 * p]
  BY <1>2, DoubledFact
<1> QED
  BY <1>2, <1>3 DEF Reaches

\* The split of a range is the power of two that is reached last.
LEMMA SplitAt ==
  ASSUME NEW p, Reaches(p), NEW n \in Nat, p < n, n <= 2 * p
  PROVE  largestPow2LessThan(n) = p
<1>1. p \in Nat /\ p >= 1 /\ n \in Nat \ {0} /\ p \in 1..n /\ ~(2 * p < n)
  BY DEF Reaches
<1>2. Doubled(n)[p] = p
  BY <1>1, DoubledFact
<1> QED
  BY <1>1, <1>2, DoubledIs DEF Reaches

\* A range of two records and more is split into two that are not empty.
LEMMA SplitWithin ==
  ASSUME NEW n \in Nat, n >= 2
  PROVE  largestPow2LessThan(n) \in 1..(n - 1)
<1> DEFINE S == {m \in Nat : \A k \in 1..(n - 1) : k + m >= n => Doubled(n)[k] \in 1..(n - 1)}
<1>1. 0 \in S
  OBVIOUS
<1>2. ASSUME NEW m \in S PROVE m + 1 \in S
  <2> SUFFICES ASSUME NEW k \in 1..(n - 1), k + (m + 1) >= n PROVE Doubled(n)[k] \in 1..(n - 1)
    OBVIOUS
  <2>1. k \in 1..n /\ n \in Nat \ {0}
    OBVIOUS
  <2>2. CASE 2 * k < n
    <3>1. 2 * k \in 1..(n - 1) /\ 2 * k + m >= n
      BY <2>2
    <3>2. Doubled(n)[2 * k] \in 1..(n - 1)
      BY <3>1
    <3> QED
      BY <2>1, <2>2, <3>2, DoubledFact
  <2>3. CASE ~(2 * k < n)
    BY <2>1, <2>3, DoubledFact
  <2> QED
    BY <2>2, <2>3
<1>3. S = Nat
  <2> HIDE DEF S
  <2>1. S \in SUBSET Nat
    BY DEF S
  <2> QED
    BY <1>1, <1>2, <2>1, Induction
<1>4. n \in S
  BY <1>3
<1>5. 1 \in 1..(n - 1) /\ 1 + n >= n
  OBVIOUS
<1> QED
  BY <1>4, <1>5, DoubledIs

-------------------------------------------------------------------------------
(* Roots of ranges *)

LEMMA RangeTypes ==
  \A r \in Ranges : r[1] \in 0..MaxSize /\ r[2] \in 0..MaxSize /\ r[1] < r[2]
BY DEF Ranges

\* merkleRootRange is given by its recursion, as the halves of a range are shorter.
LEMMA RangeFact ==
  merkleRootRange =
    [r \in Ranges |->
       IF r[2] - r[1] = 1 THEN HashLeaf(r[1])
       ELSE HashChildren(merkleRootRange[<<r[1], r[1] + largestPow2LessThan(r[2] - r[1])>>],
                         merkleRootRange[<<r[1] + largestPow2LessThan(r[2] - r[1]), r[2]>>])]
<1> DEFINE mid(r) == r[1] + largestPow2LessThan(r[2] - r[1])
           step(g, r) == IF r[2] - r[1] = 1 THEN HashLeaf(r[1])
                         ELSE HashChildren(g[<<r[1], mid(r)>>], g[<<mid(r), r[2]>>])
           Within(m) == {r \in Ranges : r[2] - r[1] <= m}
           Solves(g, m) == g = [r \in Within(m) |-> step(g, r)]
           S == {m \in Nat : \E g : Solves(g, m)}
<1>1. MaxSize \in Nat
  BY MaxSizeAssumption
<1>2. ASSUME NEW r \in Ranges, r[2] - r[1] # 1
      PROVE  /\ <<r[1], mid(r)>> \in Ranges /\ mid(r) - r[1] < r[2] - r[1]
             /\ <<mid(r), r[2]>> \in Ranges /\ r[2] - mid(r) < r[2] - r[1]
  <2>1. r[1] \in Nat /\ r[2] \in 0..MaxSize /\ r[1] < r[2]
    BY <1>1 DEF Ranges
  <2>2. r[2] - r[1] \in Nat /\ r[2] - r[1] >= 2
    BY <1>1, <1>2, <2>1
  <2>3. PICK k \in 1..(r[2] - r[1] - 1) : k = largestPow2LessThan(r[2] - r[1])
    BY <2>2, SplitWithin
  <2> QED
    BY <1>1, <2>1, <2>2, <2>3 DEF Ranges
<1>3. 0 \in S
  <2>1. Within(0) = {}
    BY <1>1 DEF Ranges
  <2> DEFINE g == [r \in Within(0) |-> HashLeaf(0)]
  <2>2. Solves(g, 0)
    BY <2>1
  <2> QED
    BY <2>2
<1>4. ASSUME NEW m \in S PROVE m + 1 \in S
  <2>1. PICK g : Solves(g, m)
    OBVIOUS
  <2>0. m \in Nat
    OBVIOUS
  <2> DEFINE h == [r \in Within(m + 1) |-> step(g, r)]
  <2>2. ASSUME NEW r \in Within(m) PROVE g[r] = h[r]
    <3>1. r \in Within(m + 1)
      BY <1>1, <2>0, RangeTypes
    <3>2. g[r] = step(g, r)
      BY <2>1
    <3> QED
      BY <3>1, <3>2
  <2>3. h = [r \in Within(m + 1) |-> step(g, r)]
    OBVIOUS
  <2> HIDE DEF h
  <2>4. ASSUME NEW r \in Within(m + 1) PROVE step(g, r) = step(h, r)
    <3>1. CASE r[2] - r[1] = 1
      BY <3>1
    <3>2. CASE r[2] - r[1] # 1
      <4>1. r \in Ranges /\ r[2] - r[1] <= m + 1 /\ r[1] \in Int /\ r[2] \in Int
        BY <1>1, <2>0, RangeTypes
      <4>2. /\ <<r[1], mid(r)>> \in Ranges /\ mid(r) - r[1] < r[2] - r[1]
            /\ <<mid(r), r[2]>> \in Ranges /\ r[2] - mid(r) < r[2] - r[1]
        BY <1>2, <3>2, <4>1
      <4>3. mid(r) \in Int
        <5>1. <<r[1], mid(r)>>[2] \in 0..MaxSize
          BY <4>2, RangeTypes
        <5> QED
          BY <1>1, <5>1
      <4> HIDE DEF mid
      <4>4. <<r[1], mid(r)>> \in Within(m) /\ <<mid(r), r[2]>> \in Within(m)
        BY <2>0, <4>1, <4>2, <4>3
      <4> QED
        BY <2>2, <4>4
    <3> QED
      BY <3>1, <3>2
  <2> HIDE DEF Within, step
  <2>5. Solves(h, m + 1)
    BY <2>3, <2>4
  <2> QED
    BY <2>5
<1>5. S = Nat
  <2> HIDE DEF S
  <2>1. S \in SUBSET Nat
    BY DEF S
  <2> QED
    BY <1>3, <1>4, <2>1, Induction
<1>6. \E g : Solves(g, MaxSize)
  BY <1>1, <1>5
<1>7. Within(MaxSize) = Ranges
  BY <1>1 DEF Ranges
<1>8. \E g : g = [r \in Ranges |-> step(g, r)]
  BY <1>6, <1>7
<1> QED
  BY <1>8 DEF merkleRootRange

-------------------------------------------------------------------------------
(* Levels, and the siblings on the way up, are given by their recursions *)

Leaves(n) == [i \in 1..n |-> HashLeaf(i - 1)]

\* The levels are given by their recursion.
LEMMA LevelFact ==
  ASSUME NEW n
  PROVE  Levels(n) = [h \in 1..(MaxSize + 1) |-> IF h = 1 THEN Leaves(n) ELSE Above(Levels(n)[h - 1])]
<1> DEFINE up(g, h) == IF h = 1 THEN Leaves(n) ELSE Above(g[h - 1])
           Solves(g, m) == g = [h \in 1..m |-> up(g, h)]
           S == {m \in Nat : \E g : Solves(g, m)}
<1>1. 0 \in S
  <2> DEFINE g == [h \in 1..0 |-> 0]
  <2>1. Solves(g, 0)
    OBVIOUS
  <2> QED
    BY <2>1
<1>2. ASSUME NEW m \in S PROVE m + 1 \in S
  <2>1. PICK g : Solves(g, m)
    OBVIOUS
  <2>0. m \in Nat
    OBVIOUS
  <2> DEFINE f == [h \in 1..(m + 1) |-> up(g, h)]
  <2>2. ASSUME NEW h \in 1..m PROVE g[h] = f[h]
    <3>1. h \in 1..(m + 1)
      BY <2>0
    <3>2. g[h] = up(g, h)
      BY <2>1
    <3> QED
      BY <3>1, <3>2
  <2>3. f = [h \in 1..(m + 1) |-> up(g, h)]
    OBVIOUS
  <2> HIDE DEF f
  <2>4. ASSUME NEW h \in 1..(m + 1) PROVE up(g, h) = up(f, h)
    <3>1. CASE h = 1
      BY <3>1
    <3>2. CASE h # 1
      <4>1. h - 1 \in 1..m
        BY <2>0, <3>2
      <4> QED
        BY <2>2, <3>2, <4>1
    <3> QED
      BY <3>1, <3>2
  <2> HIDE DEF up
  <2>5. Solves(f, m + 1)
    BY <2>3, <2>4
  <2> QED
    BY <2>5
<1>3. S = Nat
  <2> HIDE DEF S
  <2>1. S \in SUBSET Nat
    BY DEF S
  <2> QED
    BY <1>1, <1>2, <2>1, Induction
<1>4. MaxSize + 1 \in Nat
  BY MaxSizeAssumption
<1>5. \E g : g = [h \in 1..(MaxSize + 1) |-> up(g, h)]
  BY <1>3, <1>4
<1> QED
  BY <1>5 DEF Levels, Leaves

LEMMA LevelUp ==
  ASSUME NEW n, NEW h \in 1..MaxSize
  PROVE  /\ Levels(n)[1] = Leaves(n)
         /\ Levels(n)[h + 1] = Above(Levels(n)[h])
<1>1. MaxSize \in Nat
  BY MaxSizeAssumption
<1>2. 1 \in 1..(MaxSize + 1) /\ h + 1 \in 1..(MaxSize + 1) /\ h + 1 # 1 /\ (h + 1) - 1 = h
  BY <1>1
<1>3. Levels(n)[1] = Leaves(n)
  BY <1>2, LevelFact
<1>4. Levels(n)[h + 1] = Above(Levels(n)[(h + 1) - 1])
  BY <1>2, LevelFact
<1> QED
  BY <1>2, <1>3, <1>4

\* The siblings from each node of each level.
Siblings(n) ==
  CHOOSE path : path =
    [x \in (1..(MaxSize + 1)) \X (0..MaxSize) |->
      LET h   == x[1]  at == x[2]  above == path[<<h + 1, at \div 2>>]
          sib == IF at % 2 = 1 THEN at ELSE at + 2
      IN  IF h = MaxSize + 1 \/ Len(Levels(n)[h]) = 1 THEN <<>>
          ELSE IF sib > Len(Levels(n)[h]) THEN above
          ELSE <<Levels(n)[h][sib]>> \o above]

LEMMA PathIs == ASSUME NEW i, NEW n PROVE Path(i, n) = Siblings(n)[<<1, i>>]
BY DEF Path, Siblings

Node == (1..(MaxSize + 1)) \X (0..MaxSize)

LEMMA NodeTypes ==
  \A x \in Node : x[1] \in 1..(MaxSize + 1) /\ x[2] \in 0..MaxSize /\ x = <<x[1], x[2]>>
BY DEF Node

\* The siblings from a node, given those from the node above.
FromAbove(n, above, h, at) ==
  LET sib == IF at % 2 = 1 THEN at ELSE at + 2
  IN  IF h = MaxSize + 1 \/ Len(Levels(n)[h]) = 1 THEN <<>>
      ELSE IF sib > Len(Levels(n)[h]) THEN above
      ELSE <<Levels(n)[h][sib]>> \o above

\* Siblings are given by their recursion, as it goes up.
LEMMA SiblingsFact ==
  ASSUME NEW n
  PROVE  Siblings(n) = [x \in Node |-> FromAbove(n, Siblings(n)[<<x[1] + 1, x[2] \div 2>>], x[1], x[2])]
<1> DEFINE step(g, x) == FromAbove(n, g[<<x[1] + 1, x[2] \div 2>>], x[1], x[2])
           Within(m) == {x \in Node : x[1] + m >= MaxSize + 1}
           Solves(g, m) == g = [x \in Within(m) |-> step(g, x)]
           S == {m \in Nat : \E g : Solves(g, m)}
<1>1. MaxSize \in Nat
  BY MaxSizeAssumption
<1>2. 0 \in S
  <2> DEFINE g == [x \in Within(0) |-> <<>>]
  <2>1. ASSUME NEW x \in Within(0) PROVE step(g, x) = <<>>
    <3>1. x[1] = MaxSize + 1
      BY <1>1, NodeTypes
    <3> QED
      BY <3>1 DEF FromAbove
  <2> HIDE DEF step, Within
  <2>2. Solves(g, 0)
    BY <2>1
  <2> QED
    BY <2>2
<1>3. ASSUME NEW m \in S PROVE m + 1 \in S
  <2>1. PICK g : Solves(g, m)
    OBVIOUS
  <2>0. m \in Nat
    OBVIOUS
  <2> HIDE DEF S
  <2> DEFINE f == [x \in Within(m + 1) |-> step(g, x)]
  <2>2. ASSUME NEW x \in Within(m) PROVE g[x] = f[x]
    <3>1. x \in Within(m + 1)
      <4>1. x \in Node /\ x[1] + m >= MaxSize + 1
        OBVIOUS
      <4>2. x[1] \in Nat /\ MaxSize \in Nat /\ m \in Nat
        <5> HIDE DEF Within, step
        <5> QED
          BY <1>1, <2>0, <4>1, NodeTypes
      <4>3. x[1] + (m + 1) >= MaxSize + 1
        <5> HIDE DEF Within, step
        <5> QED
          BY <4>1, <4>2
      <4> QED
        BY <4>1, <4>3
    <3>2. g[x] = step(g, x)
      BY <2>1
    <3> QED
      BY <3>1, <3>2
  <2>3. f = [x \in Within(m + 1) |-> step(g, x)]
    OBVIOUS
  <2> HIDE DEF f
  <2>4. ASSUME NEW x \in Within(m + 1) PROVE step(g, x) = step(f, x)
    <3>1. CASE x[1] = MaxSize + 1
      BY <3>1 DEF FromAbove
    <3>2. CASE x[1] # MaxSize + 1
      <4>1. x[1] \in 1..(MaxSize + 1) /\ x[2] \in 0..MaxSize /\ x[1] + (m + 1) >= MaxSize + 1
        BY NodeTypes
      <4>2. x[1] + 1 \in 1..(MaxSize + 1) /\ x[2] \div 2 \in 0..MaxSize /\ (x[1] + 1) + m >= MaxSize + 1
        <5> HIDE DEF Within, step
        <5>1. x[1] \in Nat /\ x[2] \in Nat /\ MaxSize \in Nat /\ m \in Nat
          BY <1>1, <2>0, <4>1
        <5> QED
          BY <3>2, <4>1, <5>1
      <4>3. <<x[1] + 1, x[2] \div 2>> \in Within(m)
        BY <4>2 DEF Node
      <4> QED
        BY <2>2, <4>3
    <3> QED
      BY <3>1, <3>2
  <2> HIDE DEF step, Within
  <2>5. Solves(f, m + 1)
    BY <2>3, <2>4
  <2> QED
    BY <2>0, <2>5 DEF S
<1>4. S = Nat
  <2> HIDE DEF S
  <2>1. S \in SUBSET Nat
    BY DEF S
  <2> QED
    BY <1>2, <1>3, <2>1, Induction
<1>5. \E g : Solves(g, MaxSize)
  BY <1>1, <1>4
<1>6. Within(MaxSize) = Node
  BY <1>1, NodeTypes
<1>7. \E g : g = [x \in Node |-> step(g, x)]
  BY <1>5, <1>6
<1> QED
  BY <1>7 DEF Siblings, Node, FromAbove

LEMMA SiblingsOf ==
  ASSUME NEW n, NEW h \in 1..MaxSize, NEW at \in 0..MaxSize
  PROVE  Siblings(n)[<<h, at>>] = FromAbove(n, Siblings(n)[<<h + 1, at \div 2>>], h, at)
<1>1. <<h, at>> \in Node
  BY MaxSizeAssumption DEF Node
<1> QED
  BY <1>1, SiblingsFact

-------------------------------------------------------------------------------
(* Sequences *)

\* One element before a sequence.
LEMMA Cons ==
  ASSUME NEW x, NEW s, IsSeq(s)
  PROVE  LET t == <<x>> \o s IN
         IsSeq(t) /\ Len(t) = Len(s) + 1 /\ t[1] = x /\ \A j \in 1..Len(s) : t[j + 1] = s[j]
<1> DEFINE T == {s[j] : j \in 1..Len(s)} \cup {x}
           t == <<x>> \o s
<1>1. s \in Seq(T) /\ Len(s) \in Nat
  BY DEF IsSeq
<1>2. x \in T
  OBVIOUS
<1> HIDE DEF T
<1>3. <<x>> \in Seq(T) /\ Len(<<x>>) = 1 /\ <<x>>[1] = x
  BY <1>2
<1>4. t \in Seq(T)
  BY <1>1, <1>3
<1>5. Len(t) = Len(s) + 1
  BY <1>1, <1>3
<1>6. t[1] = x
  BY <1>1, <1>3
<1>7. ASSUME NEW j \in 1..Len(s) PROVE t[j + 1] = s[j]
  BY <1>1, <1>3
<1>8. IsSeq(t)
  BY <1>4 DEF IsSeq
<1> QED
  BY <1>5, <1>6, <1>7, <1>8

\* What is left of a sequence after its first k elements.
Rest(s, k) == [j \in 1..(Len(s) - k) |-> s[k + j]]

LEMMA RestAll == ASSUME NEW s, IsSeq(s) PROVE Rest(s, 0) = s
<1>1. Rest(s, 0) = [j \in 1..Len(s) |-> s[j]]
  BY DEF Rest, IsSeq
<1> QED
  BY <1>1 DEF IsSeq

LEMMA RestNone ==
  ASSUME NEW s, IsSeq(s), NEW k \in 0..Len(s)
  PROVE  Rest(s, k) = <<>> <=> k = Len(s)
<1>0. Len(s) \in Nat
  BY DEF IsSeq
<1>1. CASE k = Len(s)
  <2>1. 1..(Len(s) - k) = {}
    BY <1>0, <1>1
  <2> QED
    BY <1>1, <2>1 DEF Rest
<1>2. CASE k # Len(s)
  <2>1. 1 \in 1..(Len(s) - k)
    BY <1>0, <1>2
  <2>2. 1 \in DOMAIN Rest(s, k)
    BY <2>1 DEF Rest
  <2>3. DOMAIN <<>> = {}
    OBVIOUS
  <2> QED
    BY <1>2, <2>2, <2>3
<1> QED
  BY <1>1, <1>2

\* A rest begins with x and goes on with t.
LEMMA RestCons ==
  ASSUME NEW s, IsSeq(s), NEW k \in 0..Len(s), k < Len(s), NEW x, NEW t, IsSeq(t)
  PROVE  Rest(s, k) = <<x>> \o t <=> s[k + 1] = x /\ Rest(s, k + 1) = t
<1> DEFINE u == <<x>> \o t
<1>0. Len(s) \in Nat /\ Len(t) \in Nat /\ t = [j \in 1..Len(t) |-> t[j]]
  BY DEF IsSeq
<1>1. /\ Len(u) = Len(t) + 1 /\ u[1] = x /\ \A j \in 1..Len(t) : u[j + 1] = t[j]
      /\ u = [j \in 1..Len(u) |-> u[j]]
  <2>1. IsSeq(u) /\ Len(u) = Len(t) + 1 /\ u[1] = x /\ \A j \in 1..Len(t) : u[j + 1] = t[j]
    BY Cons
  <2>2. u = [j \in 1..Len(u) |-> u[j]]
    <3> HIDE DEF u
    <3> QED
      BY <2>1 DEF IsSeq
  <2> QED
    BY <2>1, <2>2
<1> HIDE DEF u
<1>2. ASSUME Rest(s, k) = u PROVE s[k + 1] = x /\ Rest(s, k + 1) = t
  <2>1. 1..(Len(s) - k) = 1..(Len(t) + 1)
    <3>1. DOMAIN Rest(s, k) = 1..(Len(s) - k)
      BY DEF Rest
    <3>2. DOMAIN u = 1..Len(u)
      BY <1>1
    <3> QED
      BY <1>1, <1>2, <3>1, <3>2
  <2>2. Len(s) - k = Len(t) + 1
    <3>1. Len(s) - k \in Nat /\ Len(t) + 1 \in Nat /\ Len(s) - k >= 1 /\ Len(t) + 1 >= 1
      BY <1>0
    <3>2. (Len(s) - k) \in 1..(Len(t) + 1) /\ (Len(t) + 1) \in 1..(Len(s) - k)
      BY <2>1, <3>1
    <3> QED
      BY <3>1, <3>2
  <2>3. \A j \in 1..(Len(s) - k) : s[k + j] = u[j]
    BY <1>2 DEF Rest
  <2>4. s[k + 1] = x
    BY <1>0, <1>1, <2>3
  <2>5. \A j \in 1..Len(t) : s[(k + 1) + j] = t[j]
    <3> SUFFICES ASSUME NEW j \in 1..Len(t) PROVE s[(k + 1) + j] = t[j]
      OBVIOUS
    <3>1. j + 1 \in 1..(Len(s) - k) /\ k + (j + 1) = (k + 1) + j
      BY <1>0, <2>2
    <3> QED
      BY <1>1, <2>3, <3>1
  <2>6. Len(s) - (k + 1) = Len(t)
    BY <1>0, <2>2
  <2> QED
    BY <1>0, <2>4, <2>5, <2>6 DEF Rest
<1>3. ASSUME s[k + 1] = x, Rest(s, k + 1) = t PROVE Rest(s, k) = u
  <2>1. 1..(Len(s) - (k + 1)) = 1..Len(t)
    <3>1. DOMAIN Rest(s, k + 1) = 1..(Len(s) - (k + 1))
      BY DEF Rest
    <3>2. DOMAIN t = 1..Len(t)
      BY <1>0
    <3> QED
      BY <1>3, <3>1, <3>2
  <2>2. Len(s) - (k + 1) = Len(t)
    <3>1. Len(s) - (k + 1) \in Nat
      BY <1>0
    <3>2. \A j \in Nat \ {0} : j <= Len(s) - (k + 1) <=> j <= Len(t)
      BY <1>0, <2>1, <3>1
    <3>3. Len(s) - (k + 1) <= Len(t)
      BY <1>0, <3>1, <3>2
    <3>4. Len(t) <= Len(s) - (k + 1)
      BY <1>0, <3>1, <3>2
    <3> QED
      BY <1>0, <3>1, <3>3, <3>4
  <2>3. \A j \in 1..Len(t) : s[(k + 1) + j] = t[j]
    BY <1>3, <2>1 DEF Rest
  <2>4. Len(s) - k = Len(u)
    BY <1>0, <1>1, <2>2
  <2>5. ASSUME NEW j \in 1..Len(u) PROVE s[k + j] = u[j]
    <3>1. CASE j = 1
      BY <1>1, <1>3, <3>1
    <3>2. CASE j # 1
      <4>1. j - 1 \in 1..Len(t) /\ (k + 1) + (j - 1) = k + j /\ (j - 1) + 1 = j
        BY <1>0, <1>1, <3>2
      <4> QED
        BY <1>1, <2>3, <4>1
    <3> QED
      BY <3>1, <3>2
  <2> QED
    BY <1>1, <2>4, <2>5 DEF Rest
<1> QED
  BY <1>2, <1>3 DEF u

-------------------------------------------------------------------------------
(* Levels *)

\* The nodes of a level are the roots of ranges of p records, the last of at most p,
\* which begin where the one before ends: to[j] is where the j-th ends.
Covers(level, p, to, n) ==
  /\ Reaches(p)
  /\ Len(level) \in Nat \ {0}
  /\ level = [j \in 1..Len(level) |-> level[j]]
  /\ to \in [0..Len(level) -> 0..n] /\ to[0] = 0 /\ to[Len(level)] = n
  /\ \A j \in 1..(Len(level) - 1) : to[j] = to[j - 1] + p
  /\ to[Len(level) - 1] < n /\ n <= to[Len(level) - 1] + p
  /\ \A j \in 1..Len(level) : level[j] = merkleRootRange[<<to[j - 1], to[j]>>]

LEMMA RangeLeaf ==
  ASSUME NEW i \in 0..(MaxSize - 1)
  PROVE  merkleRootRange[<<i, i + 1>>] = HashLeaf(i)
<1>1. MaxSize \in Nat
  BY MaxSizeAssumption
<1>2. <<i, i + 1>> \in Ranges /\ (i + 1) - i = 1
  BY <1>1 DEF Ranges
<1>3. <<i, i + 1>>[1] = i /\ <<i, i + 1>>[2] = i + 1
  OBVIOUS
<1> QED
  BY <1>2, <1>3, RangeFact

LEMMA RangeSplit ==
  ASSUME NEW p, Reaches(p), NEW lo \in Nat, NEW hi \in 0..MaxSize, lo + p < hi, hi <= lo + 2 * p
  PROVE  merkleRootRange[<<lo, hi>>] =
           HashChildren(merkleRootRange[<<lo, lo + p>>], merkleRootRange[<<lo + p, hi>>])
<1>1. MaxSize \in Nat /\ p \in Nat /\ p >= 1 /\ hi \in Nat
  BY MaxSizeAssumption DEF Reaches
<1>2. <<lo, hi>> \in Ranges /\ hi - lo # 1
  BY <1>1 DEF Ranges
<1>3. hi - lo \in Nat /\ p < hi - lo /\ hi - lo <= 2 * p
  BY <1>1
<1>4. largestPow2LessThan(hi - lo) = p
  BY <1>3, SplitAt
<1>5. <<lo, hi>>[1] = lo /\ <<lo, hi>>[2] = hi
  OBVIOUS
<1>6. merkleRootRange[<<lo, hi>>] =
        HashChildren(merkleRootRange[<<lo, lo + largestPow2LessThan(hi - lo)>>],
                     merkleRootRange[<<lo + largestPow2LessThan(hi - lo), hi>>])
  BY <1>2, <1>5, RangeFact
<1> QED
  BY <1>4, <1>6

\* The records are ranges of one.
LEMMA FirstCovers ==
  ASSUME NEW n \in 1..MaxSize
  PROVE  /\ Len(Leaves(n)) = n
         /\ \E p, to : Covers(Leaves(n), p, to, n)
<1> DEFINE to == [j \in 0..n |-> j]
<1>0. n \in Nat \ {0} /\ MaxSize \in Nat
  BY MaxSizeAssumption
<1>1. Len(Leaves(n)) = n
  BY <1>0 DEF Leaves
<1>2. Leaves(n) = [j \in 1..Len(Leaves(n)) |-> Leaves(n)[j]]
  BY <1>1 DEF Leaves
<1>3. ASSUME NEW j \in 1..n PROVE Leaves(n)[j] = merkleRootRange[<<to[j - 1], to[j]>>]
  <2>1. j - 1 \in 0..(MaxSize - 1) /\ (j - 1) + 1 = j
    BY <1>0
  <2>2. to[j - 1] = j - 1 /\ to[j] = j
    BY <1>0
  <2>3. Leaves(n)[j] = HashLeaf(j - 1)
    BY DEF Leaves
  <2> QED
    BY <2>1, <2>2, <2>3, RangeLeaf
<1>4. Covers(Leaves(n), 1, to, n)
  BY <1>0, <1>1, <1>2, <1>3, ReachesOne DEF Covers
<1> QED
  BY <1>1, <1>4

LEMMA AboveLen ==
  ASSUME NEW level, Len(level) \in Nat
  PROVE  /\ Len(Above(level)) = (Len(level) + 1) \div 2
         /\ Above(level) = [j \in 1..Len(Above(level)) |-> Above(level)[j]]
<1>1. (Len(level) + 1) \div 2 \in Nat
  OBVIOUS
<1>2. Len(Above(level)) = (Len(level) + 1) \div 2
  BY <1>1 DEF Above
<1> QED
  BY <1>2 DEF Above

\* A level of ranges of p records is below one of ranges of 2p, cut as MerkleRoot cuts.
LEMMA AboveCovers ==
  ASSUME NEW n \in 1..MaxSize, NEW level, NEW p, NEW to, Covers(level, p, to, n)
  PROVE  \E q, upto : Covers(Above(level), q, upto, n)
<1> DEFINE N == Len(level)
           M == (N + 1) \div 2
           upto == [j \in 0..M |-> IF 2 * j > N THEN n ELSE to[2 * j]]
<1>0. /\ n \in Nat /\ N \in Nat \ {0} /\ M \in Nat \ {0} /\ p \in Nat /\ p >= 1
      /\ Reaches(p) /\ MaxSize \in Nat
  BY MaxSizeAssumption DEF Covers, Reaches
<1>1. /\ \A j \in 0..N : to[j] \in 0..n
      /\ to[0] = 0 /\ to[N] = n
      /\ \A j \in 1..(N - 1) : to[j] = to[j - 1] + p
      /\ to[N - 1] < n /\ n <= to[N - 1] + p
      /\ \A j \in 1..N : level[j] = merkleRootRange[<<to[j - 1], to[j]>>]
  BY DEF Covers
<1>2. Len(Above(level)) = M /\ Above(level) = [j \in 1..M |-> Above(level)[j]]
  BY <1>0, AboveLen
<1>3. N = 2 * M \/ N = 2 * M - 1
  BY <1>0
<1> HIDE DEF N, M, upto
<1>4. \A j \in 0..M : upto[j] = IF 2 * j > N THEN n ELSE to[2 * j]
  BY DEF upto
<1>5. upto \in [0..M -> 0..n]
  <2> SUFFICES ASSUME NEW j \in 0..M PROVE upto[j] \in 0..n
    BY DEF upto
  <2>1. CASE 2 * j > N
    BY <1>0, <1>4, <2>1
  <2>2. CASE ~(2 * j > N)
    <3>1. 2 * j \in 0..N
      BY <1>0, <2>2
    <3> QED
      BY <1>1, <1>4, <2>2, <3>1
  <2> QED
    BY <2>1, <2>2
<1>6. upto[0] = 0
  BY <1>0, <1>1, <1>4
<1>7. upto[M] = n
  BY <1>0, <1>1, <1>3, <1>4
<1>8. ASSUME NEW j \in 1..M, 2 * j < N
      PROVE  /\ upto[j] = to[2 * j] /\ upto[j - 1] = to[2 * j - 2]
             /\ to[2 * j - 1] = to[2 * j - 2] + p /\ to[2 * j] = to[2 * j - 1] + p
             /\ to[2 * j - 2] \in Nat
  <2>1. /\ 2 * j \in 1..(N - 1) /\ 2 * j - 1 \in 1..(N - 1) /\ 2 * j - 2 \in 0..N
        /\ (2 * j - 1) - 1 = 2 * j - 2
        /\ j \in 0..M /\ j - 1 \in 0..M /\ 2 * (j - 1) = 2 * j - 2
        /\ ~(2 * j > N) /\ ~(2 * j - 2 > N)
    BY <1>0, <1>8
  <2>2. upto[j] = to[2 * j] /\ upto[j - 1] = to[2 * j - 2]
    BY <1>4, <2>1
  <2>3. to[2 * j - 1] = to[2 * j - 2] + p
    BY <1>1, <2>1
  <2>4. to[2 * j] = to[2 * j - 1] + p
    BY <1>1, <2>1
  <2>5. to[2 * j - 2] \in Nat
    BY <1>0, <1>1, <2>1
  <2> QED
    BY <2>2, <2>3, <2>4, <2>5
<1>9. ASSUME N = 2 * M
      PROVE  /\ upto[M - 1] = to[2 * M - 2] /\ to[2 * M - 2] \in Nat
             /\ to[2 * M - 1] = to[2 * M - 2] + p
             /\ to[2 * M - 1] < n /\ n <= to[2 * M - 1] + p
  <2>1. /\ M - 1 \in 0..M /\ 2 * (M - 1) = 2 * M - 2 /\ ~(2 * M - 2 > N)
        /\ 2 * M - 1 \in 1..(N - 1) /\ (2 * M - 1) - 1 = 2 * M - 2 /\ 2 * M - 2 \in 0..N
        /\ N - 1 = 2 * M - 1
    BY <1>0, <1>9
  <2>2. upto[M - 1] = to[2 * M - 2]
    BY <1>4, <2>1
  <2>3. to[2 * M - 1] = to[2 * M - 2] + p
    BY <1>1, <2>1
  <2> QED
    BY <1>0, <1>1, <2>1, <2>2, <2>3
<1>10. ASSUME N = 2 * M - 1
       PROVE  /\ upto[M - 1] = to[N - 1] /\ to[N - 1] \in Nat /\ to[N - 1] < n /\ n <= to[N - 1] + p
  <2>1. M - 1 \in 0..M /\ 2 * (M - 1) = N - 1 /\ ~(N - 1 > N) /\ N - 1 \in 0..N
    BY <1>0, <1>10
  <2>2. upto[M - 1] = to[N - 1]
    BY <1>4, <2>1
  <2> QED
    BY <1>0, <1>1, <2>1, <2>2
<1>11. upto[M - 1] < n /\ n <= upto[M - 1] + 2 * p
  <2>1. CASE N = 2 * M
    BY <1>0, <1>9, <2>1
  <2>2. CASE N = 2 * M - 1
    BY <1>0, <1>10, <2>2
  <2> QED
    BY <1>3, <2>1, <2>2
<1>12. ASSUME NEW j \in 1..(M - 1) PROVE upto[j] = upto[j - 1] + 2 * p
  <2>1. j \in 1..M /\ 2 * j < N
    BY <1>0, <1>3
  <2> QED
    BY <1>0, <1>8, <2>1
<1>13. ASSUME NEW j \in 1..M
       PROVE  Above(level)[j] = merkleRootRange[<<upto[j - 1], upto[j]>>]
  <2>0. Above(level)[j] = IF 2 * j > N THEN level[2 * j - 1]
                          ELSE HashChildren(level[2 * j - 1], level[2 * j])
    BY DEF Above, M, N
  <2>1. CASE 2 * j < N
    <3>1. /\ 2 * j - 1 \in 1..N /\ 2 * j \in 1..N /\ (2 * j - 1) - 1 = 2 * j - 2 /\ 2 * j \in 0..N
      BY <1>0, <2>1
    <3>2. level[2 * j - 1] = merkleRootRange[<<to[2 * j - 2], to[2 * j - 1]>>]
      BY <1>1, <3>1
    <3>3. level[2 * j] = merkleRootRange[<<to[2 * j - 1], to[2 * j]>>]
      BY <1>1, <3>1
    <3>4. to[2 * j] \in 0..MaxSize
      BY <1>0, <1>1, <3>1
    <3>5. merkleRootRange[<<to[2 * j - 2], to[2 * j]>>] =
            HashChildren(merkleRootRange[<<to[2 * j - 2], to[2 * j - 2] + p>>],
                         merkleRootRange[<<to[2 * j - 2] + p, to[2 * j]>>])
      <4>1. to[2 * j - 2] + p < to[2 * j] /\ to[2 * j] <= to[2 * j - 2] + 2 * p
        <5>1. /\ to[2 * j - 1] = to[2 * j - 2] + p /\ to[2 * j] = to[2 * j - 1] + p
              /\ to[2 * j - 2] \in Nat
          BY <1>8, <2>1
        <5> QED
          BY <1>0, <5>1
      <4>2. to[2 * j - 2] \in Nat
        BY <1>8, <2>1
      <4> QED
        BY <1>0, <3>4, <4>1, <4>2, RangeSplit
    <3>6. ~(2 * j > N)
      BY <1>0, <2>1
    <3> QED
      BY <1>8, <2>0, <2>1, <3>2, <3>3, <3>5, <3>6
  <2>2. CASE 2 * j = N
    <3>1. j = M /\ N = 2 * M
      BY <1>0, <1>3, <2>2
    <3>2. /\ 2 * j - 1 \in 1..N /\ 2 * j \in 1..N /\ (2 * j - 1) - 1 = 2 * j - 2 /\ ~(2 * j > N)
      BY <1>0, <2>2
    <3>3. level[2 * j - 1] = merkleRootRange[<<to[2 * j - 2], to[2 * j - 1]>>]
      BY <1>1, <3>2
    <3>4. level[2 * j] = merkleRootRange[<<to[2 * j - 1], n>>]
      BY <1>1, <2>2, <3>2
    <3>5. merkleRootRange[<<to[2 * j - 2], n>>] =
            HashChildren(merkleRootRange[<<to[2 * j - 2], to[2 * j - 2] + p>>],
                         merkleRootRange[<<to[2 * j - 2] + p, n>>])
      <4>1. to[2 * j - 2] \in Nat /\ to[2 * j - 2] + p < n /\ n <= to[2 * j - 2] + 2 * p
        BY <1>0, <1>9, <3>1
      <4>2. n \in 0..MaxSize
        BY <1>0
      <4> QED
        BY <1>0, <4>1, <4>2, RangeSplit
    <3> QED
      BY <1>7, <1>9, <2>0, <3>1, <3>2, <3>3, <3>4, <3>5
  <2>3. CASE 2 * j > N
    <3>1. j = M /\ N = 2 * M - 1 /\ 2 * j - 1 = N /\ N \in 1..N
      BY <1>0, <1>3, <2>3
    <3>2. level[N] = merkleRootRange[<<to[N - 1], n>>]
      BY <1>1, <3>1
    <3> QED
      BY <1>7, <1>10, <2>0, <2>3, <3>1, <3>2
  <2> QED
    BY <1>0, <2>1, <2>2, <2>3
<1>14. Reaches(2 * p)
  BY <1>0, ReachesTwice
<1>15. Covers(Above(level), 2 * p, upto, n)
  BY <1>0, <1>2, <1>5, <1>6, <1>7, <1>11, <1>12, <1>13, <1>14 DEF Covers
<1> QED
  BY <1>15

-------------------------------------------------------------------------------
(* The levels of a tree *)

IsLevel(n, h) == \E p, to : Covers(Levels(n)[h], p, to, n)

LEMMA LevelsCover ==
  ASSUME NEW n \in 1..MaxSize, NEW h \in 1..MaxSize, IsLevel(n, h)
  PROVE  /\ IsLevel(n, h + 1)
         /\ Len(Levels(n)[h]) \in Nat \ {0}
         /\ Len(Levels(n)[h + 1]) = (Len(Levels(n)[h]) + 1) \div 2
<1>1. Levels(n)[h + 1] = Above(Levels(n)[h])
  BY LevelUp
<1>2. Len(Levels(n)[h]) \in Nat \ {0}
  BY DEF IsLevel, Covers
<1>3. IsLevel(n, h + 1)
  BY <1>1, AboveCovers DEF IsLevel
<1> QED
  BY <1>1, <1>2, <1>3, AboveLen

\* The level of one node is MerkleRoot's.
LEMMA TopIsRoot ==
  ASSUME NEW n \in 1..MaxSize, NEW h, IsLevel(n, h), Len(Levels(n)[h]) = 1
  PROVE  Levels(n)[h][1] = MerkleRoot(n)
<1>1. PICK p, to : Covers(Levels(n)[h], p, to, n)
  BY DEF IsLevel
<1>2. Levels(n)[h][1] = merkleRootRange[<<to[0], to[1]>>] /\ to[0] = 0 /\ to[1] = n
  BY <1>1 DEF Covers
<1>3. n # 0
  BY MaxSizeAssumption
<1> QED
  BY <1>2, <1>3 DEF MerkleRoot

\* The siblings from every node are a sequence.
LEMMA SiblingsSeq ==
  ASSUME NEW n
  PROVE  \A h \in 1..(MaxSize + 1) : \A at \in 0..MaxSize : IsSeq(Siblings(n)[<<h, at>>])
<1> DEFINE P(h) == \A at \in 0..MaxSize : IsSeq(Siblings(n)[<<h, at>>])
           S == {m \in Nat : \A h \in 1..(MaxSize + 1) : h + m >= MaxSize + 1 => P(h)}
<1>0. MaxSize \in Nat /\ MaxSize + 1 \in 1..(MaxSize + 1)
  BY MaxSizeAssumption
<1>1. IsSeq(<<>>)
  BY DEF IsSeq
<1>2. P(MaxSize + 1)
  <2> SUFFICES ASSUME NEW at \in 0..MaxSize PROVE IsSeq(Siblings(n)[<<MaxSize + 1, at>>])
    OBVIOUS
  <2>1. <<MaxSize + 1, at>> \in Node
    BY <1>0 DEF Node
  <2>2. Siblings(n)[<<MaxSize + 1, at>>] = <<>>
    <3>1. Siblings(n)[<<MaxSize + 1, at>>] =
            FromAbove(n, Siblings(n)[<<(MaxSize + 1) + 1, at \div 2>>], MaxSize + 1, at)
      BY <2>1, SiblingsFact
    <3>2. \A above, a : FromAbove(n, above, MaxSize + 1, a) = <<>>
      BY DEF FromAbove
    <3> QED
      BY <3>1, <3>2
  <2> QED
    BY <1>1, <2>2
<1>3. ASSUME NEW h \in 1..MaxSize, P(h + 1) PROVE P(h)
  <2> SUFFICES ASSUME NEW at \in 0..MaxSize PROVE IsSeq(Siblings(n)[<<h, at>>])
    OBVIOUS
  <2>1. at \div 2 \in 0..MaxSize
    BY <1>0
  <2>2. IsSeq(Siblings(n)[<<h + 1, at \div 2>>])
    BY <1>3, <2>1
  <2>3. Siblings(n)[<<h, at>>] = FromAbove(n, Siblings(n)[<<h + 1, at \div 2>>], h, at)
    BY SiblingsOf
  <2> DEFINE above == Siblings(n)[<<h + 1, at \div 2>>]
             sib == IF at % 2 = 1 THEN at ELSE at + 2
  <2>4. FromAbove(n, above, h, at) \in {<<>>, above, <<Levels(n)[h][sib]>> \o above}
    BY DEF FromAbove
  <2>5. IsSeq(<<Levels(n)[h][sib]>> \o above)
    BY <2>2, Cons
  <2> HIDE DEF above, sib
  <2>6. IsSeq(FromAbove(n, above, h, at))
    BY <1>1, <2>2, <2>4, <2>5 DEF above
  <2> QED
    BY <2>3, <2>6 DEF above
<1> HIDE DEF P
<1>4. 0 \in S
  <2> SUFFICES ASSUME NEW h \in 1..(MaxSize + 1), h + 0 >= MaxSize + 1 PROVE P(h)
    OBVIOUS
  <2>1. h = MaxSize + 1
    BY <1>0
  <2> QED
    BY <1>2, <2>1
<1>5. ASSUME NEW m \in S PROVE m + 1 \in S
  <2>1. m \in Nat /\ \A h \in 1..(MaxSize + 1) : h + m >= MaxSize + 1 => P(h)
    OBVIOUS
  <2> SUFFICES ASSUME NEW h \in 1..(MaxSize + 1), h + (m + 1) >= MaxSize + 1 PROVE P(h)
    BY <2>1
  <2>2. CASE h = MaxSize + 1
    BY <1>2, <2>2
  <2>3. CASE h # MaxSize + 1
    <3> HIDE DEF S
    <3>1. h \in 1..MaxSize /\ h + 1 \in 1..(MaxSize + 1) /\ (h + 1) + m >= MaxSize + 1
      BY <1>0, <2>1, <2>3
    <3> QED
      BY <1>3, <2>1, <3>1
  <2> QED
    BY <2>2, <2>3
<1>6. S = Nat
  <2> HIDE DEF S
  <2>1. S \in SUBSET Nat
    BY DEF S
  <2> QED
    BY <1>4, <1>5, <2>1, Induction
<1>7. \A h \in 1..(MaxSize + 1) : P(h)
  <2>1. MaxSize \in S
    BY <1>0, <1>6
  <2> QED
    BY <1>0, <2>1
<1> QED
  BY <1>7 DEF P

-------------------------------------------------------------------------------
(* The climb *)

\* The answer is a record of the tree with its siblings.
Right == leafHash = HashLeaf(leafIndex) /\ proof = Path(leafIndex, treeSize)

\* VerifyInclusion is at node fn of level h, which is the last node if fn = sn.
At(h) ==
  LET level == Levels(treeSize)[h] IN
  /\ IsLevel(treeSize, h) /\ Len(level) = sn + 1
  /\ sn \in 0..(MaxSize - h) /\ fn \in 0..sn
  /\ Right <=> cur = level[fn + 1] /\ Rest(proof, pi) = Siblings(treeSize)[<<h, fn>>]

\* The climb is at some level, and its end is right.
ClimbInv ==
  /\ TypeOK /\ IsSeq(proof) /\ root = MerkleRoot(treeSize)
  /\ leafIndex \in 0..(treeSize - 1) =>
       /\ verdict = "running" => \E h \in 1..MaxSize : At(h)
       /\ verdict = "verified" => Right
       /\ verdict \notin {"running", "verified"} => ~Right
  /\ leafIndex \notin 0..(treeSize - 1) => verdict \in {"running", "out of range"}

LEMMA InitClimb == Init => ClimbInv
<1> SUFFICES ASSUME Init PROVE ClimbInv
  OBVIOUS
<1>0. MaxSize \in Nat \ {0}
  BY MaxSizeAssumption
<1>1. IsSeq(proof) /\ leafIndex \in Int
  BY Answered
<1>2. TypeOK
  BY <1>0, <1>1 DEF Init, TypeOK, IsSeq
<1>3. ASSUME leafIndex \in 0..(treeSize - 1) PROVE At(1)
  <2>1. treeSize \in 1..MaxSize /\ leafIndex \in 0..MaxSize /\ 1 \in 1..MaxSize
    BY <1>0, <1>3 DEF Init
  <2>2. Levels(treeSize)[1] = Leaves(treeSize)
    BY <2>1, LevelUp
  <2>3. IsLevel(treeSize, 1) /\ Len(Leaves(treeSize)) = treeSize
    BY <2>1, <2>2, FirstCovers DEF IsLevel
  <2>4. Leaves(treeSize)[leafIndex + 1] = HashLeaf(leafIndex)
    <3>1. leafIndex + 1 \in 1..treeSize /\ (leafIndex + 1) - 1 = leafIndex
      BY <1>3, <2>1
    <3> QED
      BY <3>1 DEF Leaves
  <2>5. Rest(proof, pi) = proof
    BY <1>1, RestAll DEF Init
  <2>6. Siblings(treeSize)[<<1, leafIndex>>] = Path(leafIndex, treeSize)
    BY PathIs
  <2>7. sn = treeSize - 1 /\ fn = leafIndex /\ cur = leafHash
    BY DEF Init
  <2>8. sn + 1 = treeSize /\ sn \in 0..(MaxSize - 1) /\ fn \in 0..sn
    BY <1>0, <1>3, <2>1, <2>7
  <2> QED
    BY <2>2, <2>3, <2>4, <2>5, <2>6, <2>7, <2>8 DEF At, Right
<1> QED
  BY <1>0, <1>1, <1>2, <1>3 DEF Init, ClimbInv

\* A round of the loop goes up one level.
LEMMA OneUp ==
  ASSUME ClimbInv, NEW h \in 1..MaxSize, At(h), Looping
  PROVE  /\ h + 1 \in 1..MaxSize
         /\ IsLevel(treeSize, h + 1)
         /\ Len(Levels(treeSize)[h + 1]) = sn \div 2 + 1
         /\ sn \div 2 \in 0..(MaxSize - (h + 1)) /\ fn \div 2 \in 0..(sn \div 2)
         /\ treeSize \in 1..MaxSize /\ fn \in 0..MaxSize
         /\ sn \in Nat /\ sn >= 1 /\ fn \in 0..sn
         /\ IsSeq(Siblings(treeSize)[<<h + 1, fn \div 2>>])
<1>1. MaxSize \in Nat \ {0} /\ h \in Nat /\ h >= 1 /\ h <= MaxSize
  BY MaxSizeAssumption
<1>2. treeSize \in 1..MaxSize /\ sn \in Nat /\ sn >= 1 /\ sn <= MaxSize - h /\ fn \in Nat /\ fn <= sn
  BY <1>1 DEF ClimbInv, TypeOK, Looping, At
<1>3. h + 1 \in 1..MaxSize /\ h + 1 \in 1..(MaxSize + 1)
  BY <1>1, <1>2
<1>4. IsLevel(treeSize, h + 1) /\ Len(Levels(treeSize)[h + 1]) = (Len(Levels(treeSize)[h]) + 1) \div 2
  BY <1>2, LevelsCover DEF At
<1>5. (Len(Levels(treeSize)[h]) + 1) \div 2 = sn \div 2 + 1
  <2>1. Len(Levels(treeSize)[h]) = sn + 1
    BY DEF At
  <2>2. (sn + 2) \div 2 = sn \div 2 + 1
    BY <1>2
  <2> QED
    BY <1>2, <2>1, <2>2
<1>6. sn \div 2 \in 0..(MaxSize - (h + 1)) /\ fn \div 2 \in 0..(sn \div 2) /\ fn \div 2 \in 0..MaxSize
  BY <1>1, <1>2
<1>7. IsSeq(Siblings(treeSize)[<<h + 1, fn \div 2>>])
  BY <1>3, <1>6, SiblingsSeq
<1> QED
  <2>1. fn \in 0..sn /\ fn \in 0..MaxSize
    BY <1>1, <1>2
  <2>2. Len(Levels(treeSize)[h + 1]) = sn \div 2 + 1
    BY <1>4, <1>5
  <2> QED
    BY <1>2, <1>3, <1>4, <1>6, <1>7, <2>1, <2>2

\* The last node of an odd number is its own parent.
LEMMA PromoteClimbs ==
  ASSUME ClimbInv, NEW h \in 1..MaxSize, At(h), Promote
  PROVE  At(h + 1)'
<1> DEFINE level == Levels(treeSize)[h]
           above == Siblings(treeSize)[<<h + 1, fn \div 2>>]
<1>0. Looping /\ fn = sn /\ fn % 2 # 1
  BY DEF Promote, atBoundary, isRightChild
<1>1. /\ h + 1 \in 1..MaxSize
      /\ IsLevel(treeSize, h + 1)
      /\ Len(Levels(treeSize)[h + 1]) = sn \div 2 + 1
      /\ sn \div 2 \in 0..(MaxSize - (h + 1)) /\ fn \div 2 \in 0..(sn \div 2)
      /\ treeSize \in 1..MaxSize /\ fn \in 0..MaxSize
      /\ sn \in Nat /\ sn >= 1 /\ fn \in 0..sn
  BY <1>0, OneUp
<1>2. Len(level) = sn + 1
  BY DEF At
<1>3. Levels(treeSize)[h + 1][fn \div 2 + 1] = level[fn + 1]
  <2>1. /\ fn \div 2 + 1 \in 1..((Len(level) + 1) \div 2)
        /\ 2 * (fn \div 2 + 1) > Len(level) /\ 2 * (fn \div 2 + 1) - 1 = fn + 1
    <3> HIDE DEF level
    <3> QED
      BY <1>0, <1>1, <1>2
  <2> HIDE DEF level
  <2>2. Above(level)[fn \div 2 + 1] = level[2 * (fn \div 2 + 1) - 1]
    BY <2>1 DEF Above
  <2>3. Levels(treeSize)[h + 1] = Above(level)
    BY LevelUp DEF level
  <2> QED
    BY <2>1, <2>2, <2>3
<1>4. Siblings(treeSize)[<<h, fn>>] = above
  <2>1. Siblings(treeSize)[<<h, fn>>] = FromAbove(treeSize, above, h, fn)
    BY <1>1, SiblingsOf
  <2>2. h # MaxSize + 1
    BY MaxSizeAssumption
  <2>3. Len(level) # 1 /\ fn + 2 > Len(level)
    <3> HIDE DEF level
    <3> QED
      BY <1>0, <1>1, <1>2
  <2> HIDE DEF above
  <2>4. FromAbove(treeSize, above, h, fn) = above
    BY <1>0, <2>2, <2>3 DEF FromAbove
  <2> QED
    BY <2>1, <2>4
<1>5. /\ cur' = cur /\ pi' = pi + 0 /\ fn' = fn \div 2 /\ sn' = sn \div 2
      /\ UNCHANGED <<treeSize, leafIndex, leafHash, proof>>
  BY DEF Promote, Up, input
<1>6. pi' = pi
  <2>1. pi \in 0..Len(proof)
    BY DEF ClimbInv, TypeOK
  <2> QED
    BY <1>5, <2>1
<1>7. Right' = Right
  BY <1>5 DEF Right
<1>8. Right <=> cur = level[fn + 1] /\ Rest(proof, pi) = Siblings(treeSize)[<<h, fn>>]
  BY DEF At
<1> HIDE DEF level, above
<1>9. Right <=> cur = Levels(treeSize)[h + 1][fn \div 2 + 1] /\ Rest(proof, pi) = above
  BY <1>3, <1>4, <1>8
<1> QED
  BY <1>1, <1>5, <1>6, <1>7, <1>9 DEF At, above

\* Joining with a sibling: the node above is the pair, the path its sibling and the
\* path from above.
LEMMA JoinClimbs ==
  ASSUME ClimbInv, NEW h \in 1..MaxSize, At(h), JoinLeft \/ JoinRight
  PROVE  At(h + 1)'
<1> DEFINE level == Levels(treeSize)[h]
           above == Siblings(treeSize)[<<h + 1, fn \div 2>>]
           sib   == IF fn % 2 = 1 THEN fn ELSE fn + 2
<1>0. /\ Looping /\ pi < Len(proof) /\ pi \in 0..Len(proof) /\ IsSeq(proof)
      /\ fn % 2 = 1 => JoinLeft
      /\ fn % 2 # 1 => JoinRight /\ fn # sn
  BY DEF JoinLeft, JoinRight, atBoundary, isRightChild, ClimbInv, TypeOK
<1>1. /\ h + 1 \in 1..MaxSize
      /\ IsLevel(treeSize, h + 1)
      /\ Len(Levels(treeSize)[h + 1]) = sn \div 2 + 1
      /\ sn \div 2 \in 0..(MaxSize - (h + 1)) /\ fn \div 2 \in 0..(sn \div 2)
      /\ treeSize \in 1..MaxSize /\ fn \in 0..MaxSize
      /\ sn \in Nat /\ sn >= 1 /\ fn \in 0..sn
      /\ IsSeq(above)
  BY <1>0, OneUp
<1>2. Len(level) = sn + 1
  BY DEF At
<1>3. Levels(treeSize)[h + 1][fn \div 2 + 1] =
        IF fn % 2 = 1 THEN HashChildren(level[sib], level[fn + 1])
        ELSE HashChildren(level[fn + 1], level[sib])
  <2>1. /\ fn \div 2 + 1 \in 1..((Len(level) + 1) \div 2)
        /\ ~(2 * (fn \div 2 + 1) > Len(level))
        /\ fn % 2 = 1 => 2 * (fn \div 2 + 1) = fn + 1 /\ 2 * (fn \div 2 + 1) - 1 = fn
        /\ fn % 2 # 1 => 2 * (fn \div 2 + 1) = fn + 2 /\ 2 * (fn \div 2 + 1) - 1 = fn + 1
    <3> HIDE DEF level
    <3> QED
      BY <1>0, <1>1, <1>2
  <2> HIDE DEF level
  <2>2. Above(level)[fn \div 2 + 1] =
          HashChildren(level[2 * (fn \div 2 + 1) - 1], level[2 * (fn \div 2 + 1)])
    BY <2>1 DEF Above
  <2>3. Levels(treeSize)[h + 1] = Above(level)
    BY LevelUp DEF level
  <2> QED
    BY <2>1, <2>2, <2>3
<1>4. Siblings(treeSize)[<<h, fn>>] = <<level[sib]>> \o above
  <2>1. Siblings(treeSize)[<<h, fn>>] = FromAbove(treeSize, above, h, fn)
    BY <1>1, SiblingsOf
  <2>2. h # MaxSize + 1
    BY MaxSizeAssumption
  <2>3. Len(level) # 1 /\ ~(sib > Len(level))
    <3> HIDE DEF level, above
    <3>1. sn \in Nat /\ sn >= 1 /\ fn \in 0..sn /\ (fn % 2 # 1 => fn # sn) /\ Len(level) = sn + 1
      BY <1>0, <1>1, <1>2
    <3>2. fn % 2 = 1 => fn <= sn
      BY <3>1
    <3>3. fn % 2 # 1 => fn + 2 <= sn + 1
      BY <3>1
    <3> QED
      BY <3>1, <3>2, <3>3
  <2> HIDE DEF above
  <2>4. FromAbove(treeSize, above, h, fn) = <<level[sib]>> \o above
    BY <2>2, <2>3 DEF FromAbove
  <2> QED
    BY <2>1, <2>4
<1>5. /\ cur' = IF fn % 2 = 1 THEN HashChildren(proof[pi + 1], cur)
                ELSE HashChildren(cur, proof[pi + 1])
      /\ pi' = pi + 1 /\ fn' = fn \div 2 /\ sn' = sn \div 2
      /\ UNCHANGED <<treeSize, leafIndex, leafHash, proof>>
  BY DEF JoinLeft, JoinRight, Up, input, Sibling, isRightChild
<1>6. Right' = Right
  BY <1>5 DEF Right
<1>7. Right <=> cur = level[fn + 1] /\ Rest(proof, pi) = Siblings(treeSize)[<<h, fn>>]
  BY DEF At
<1> HIDE DEF level, above, sib
<1>8. Rest(proof, pi) = <<level[sib]>> \o above
        <=> proof[pi + 1] = level[sib] /\ Rest(proof, pi + 1) = above
  <2>1. pi \in 0..Len(proof) /\ pi < Len(proof) /\ IsSeq(proof) /\ IsSeq(above)
    BY <1>0, <1>1
  <2> QED
    BY <2>1, RestCons
<1>9. cur' = Levels(treeSize)[h + 1][fn \div 2 + 1]
        <=> cur = level[fn + 1] /\ proof[pi + 1] = level[sib]
  BY <1>3, <1>5 DEF HashChildren
<1>10. Right <=> cur' = Levels(treeSize)[h + 1][fn \div 2 + 1] /\ Rest(proof, pi + 1) = above
  BY <1>4, <1>7, <1>8, <1>9
<1> QED
  BY <1>1, <1>5, <1>6, <1>10 DEF At, above

\* A proof that is too short is not the record's.
LEMMA TooShortIsWrong ==
  ASSUME ClimbInv, NEW h \in 1..MaxSize, At(h), TooShort
  PROVE  ~Right
<1> DEFINE level == Levels(treeSize)[h]
           above == Siblings(treeSize)[<<h + 1, fn \div 2>>]
           sib   == IF fn % 2 = 1 THEN fn ELSE fn + 2
<1>0. Looping /\ ~(fn = sn /\ fn % 2 # 1) /\ pi = Len(proof) /\ pi \in 0..Len(proof) /\ IsSeq(proof)
  <2>1. Looping /\ ~atBoundary /\ pi >= Len(proof) /\ pi \in 0..Len(proof) /\ IsSeq(proof)
    BY DEF TooShort, ClimbInv, TypeOK
  <2>2. Len(proof) \in Nat
    BY <2>1 DEF IsSeq
  <2>3. pi = Len(proof)
    BY <2>1, <2>2
  <2> QED
    BY <2>1, <2>3 DEF atBoundary, isRightChild
<1>1. /\ treeSize \in 1..MaxSize /\ fn \in 0..MaxSize
      /\ sn \in Nat /\ sn >= 1 /\ fn \in 0..sn
      /\ IsSeq(above)
  BY <1>0, OneUp
<1>2. Siblings(treeSize)[<<h, fn>>] = <<level[sib]>> \o above
  <2>1. Siblings(treeSize)[<<h, fn>>] = FromAbove(treeSize, above, h, fn)
    BY <1>1, SiblingsOf
  <2>2. h # MaxSize + 1
    BY MaxSizeAssumption
  <2>3. Len(level) # 1 /\ ~(sib > Len(level))
    <3>1. Len(level) = sn + 1
      BY DEF At
    <3> HIDE DEF level
    <3> QED
      BY <1>0, <1>1, <3>1
  <2> HIDE DEF above
  <2>4. FromAbove(treeSize, above, h, fn) = <<level[sib]>> \o above
    BY <2>2, <2>3 DEF FromAbove
  <2> QED
    BY <2>1, <2>4
<1>3. Rest(proof, pi) = <<>>
  BY <1>0, RestNone
<1>4. Len(<<level[sib]>> \o above) = Len(above) + 1 /\ Len(above) \in Nat
  <2> HIDE DEF above
  <2> QED
    BY <1>1, Cons DEF IsSeq
<1>5. <<level[sib]>> \o above # <<>>
  <2>1. Len(<<>>) = 0
    OBVIOUS
  <2> HIDE DEF above
  <2> QED
    BY <1>4, <2>1
<1> QED
  BY <1>2, <1>3, <1>5 DEF At

\* At the root, verified is right and every error wrong.
LEMMA ConcludeIsRight ==
  ASSUME ClimbInv, NEW h \in 1..MaxSize, At(h), Conclude
  PROVE  verdict' = "verified" <=> Right
<1> DEFINE level == Levels(treeSize)[h]
<1>0. /\ sn = 0 /\ leafIndex \in 0..(treeSize - 1) /\ IsSeq(proof) /\ pi \in 0..Len(proof)
      /\ treeSize \in 0..MaxSize /\ root = MerkleRoot(treeSize)
      /\ verdict' = IF pi # Len(proof) THEN "unused hashes"
                    ELSE IF cur # root THEN "other root" ELSE "verified"
  BY DEF Conclude, Return, ClimbInv, TypeOK
<1>1. treeSize \in 1..MaxSize /\ fn = 0 /\ fn \in 0..MaxSize /\ Len(level) = 1 /\ IsLevel(treeSize, h)
  <2>1. Len(level) = sn + 1 /\ fn \in 0..sn /\ IsLevel(treeSize, h)
    BY DEF At
  <2>2. MaxSize \in Nat
    BY MaxSizeAssumption
  <2> HIDE DEF level
  <2>3. treeSize \in 1..MaxSize
    <3>1. leafIndex \in 0..(treeSize - 1) /\ treeSize \in 0..MaxSize
      BY <1>0
    <3> QED
      BY <2>2, <3>1
  <2>4. sn = 0
    BY <1>0
  <2>5. fn = 0 /\ fn \in 0..MaxSize
    BY <2>1, <2>2, <2>4
  <2> QED
    BY <2>1, <2>3, <2>4, <2>5
<1>2. level[1] = MerkleRoot(treeSize)
  BY <1>1, TopIsRoot
<1>3. Siblings(treeSize)[<<h, fn>>] = <<>>
  BY <1>1, SiblingsOf DEF FromAbove
<1>4. Rest(proof, pi) = <<>> <=> pi = Len(proof)
  BY <1>0, RestNone
<1>5. Right <=> cur = level[1] /\ Rest(proof, pi) = <<>>
  BY <1>1, <1>3 DEF At
<1> HIDE DEF level
<1> QED
  BY <1>0, <1>2, <1>4, <1>5

\* The errors of a running climb.
Errors == {"out of range", "too short", "unused hashes", "other root"}

LEMMA ClimbStep == ClimbInv /\ TypeOK' /\ [Next]_vars => ClimbInv'
<1> SUFFICES ASSUME ClimbInv, TypeOK', [Next]_vars PROVE ClimbInv'
  OBVIOUS
<1>stutter. CASE UNCHANGED vars
  BY <1>stutter DEF ClimbInv, At, Right, vars, input
<1>range. CASE OutOfRange
  <2>1. leafIndex \notin 0..(treeSize - 1)
    <3>1. treeSize \in Int /\ (leafIndex < 0 \/ leafIndex >= treeSize)
      <4>1. treeSize \in 0..MaxSize /\ MaxSize \in Nat
        BY MaxSizeAssumption DEF ClimbInv, TypeOK
      <4>2. leafIndex < 0 \/ leafIndex >= treeSize
        BY <1>range DEF OutOfRange
      <4> QED
        BY <4>1, <4>2
    <3> QED
      BY <3>1
  <2>2. UNCHANGED input /\ verdict' = "out of range"
    BY <1>range DEF OutOfRange, Return
  <2>3. IsSeq(proof)' /\ root' = MerkleRoot(treeSize') /\ leafIndex' \notin 0..(treeSize' - 1)
    BY <2>1, <2>2 DEF ClimbInv, input, IsSeq
  <2> QED
    BY <2>2, <2>3 DEF ClimbInv
<1>1. ASSUME Looping PROVE \E h \in 1..MaxSize : At(h)
  BY <1>1 DEF Looping, ClimbInv
<1>2. ASSUME NEW h \in 1..MaxSize, At(h + 1)', Looping, UNCHANGED <<input, verdict>>
      PROVE  ClimbInv'
  <2>1. h + 1 \in 1..MaxSize
    <3>1. sn' \in 0..(MaxSize - (h + 1)) /\ MaxSize \in Nat
      BY <1>2, MaxSizeAssumption DEF At
    <3> QED
      BY <3>1
  <2>2. verdict' = "running" /\ leafIndex' \in 0..(treeSize' - 1)
    BY <1>2 DEF Looping, input
  <2>3. IsSeq(proof)' /\ root' = MerkleRoot(treeSize')
    BY <1>2 DEF ClimbInv, input, IsSeq
  <2> QED
    BY <1>2, <2>1, <2>2, <2>3 DEF ClimbInv
<1>promote. CASE Promote
  <2>1. Looping /\ UNCHANGED <<input, verdict>>
    BY <1>promote DEF Promote, Up
  <2> QED
    BY <1>promote, <1>1, <1>2, <2>1, PromoteClimbs
<1>join. CASE JoinLeft \/ JoinRight
  <2>1. Looping /\ UNCHANGED <<input, verdict>>
    BY <1>join DEF JoinLeft, JoinRight, Up
  <2> QED
    BY <1>join, <1>1, <1>2, <2>1, JoinClimbs
<1>3. ASSUME NEW v \in Errors \cup {"verified"}, Return(v), leafIndex \in 0..(treeSize - 1),
             v = "verified" <=> Right
      PROVE  ClimbInv'
  <2>1. UNCHANGED input /\ verdict' = v /\ Right' = Right
    BY <1>3 DEF Return, input, Right
  <2>2. IsSeq(proof)' /\ root' = MerkleRoot(treeSize') /\ leafIndex' \in 0..(treeSize' - 1)
    BY <1>3, <2>1 DEF ClimbInv, input, IsSeq
  <2> QED
    BY <1>3, <2>1, <2>2 DEF ClimbInv, Errors
<1>short. CASE TooShort
  <2>1. PICK h \in 1..MaxSize : At(h)
    BY <1>short, <1>1 DEF TooShort
  <2>2. ~Right
    BY <1>short, <2>1, TooShortIsWrong
  <2> QED
    BY <1>short, <1>3, <2>2 DEF TooShort, Looping, Errors
<1>conclude. CASE Conclude
  <2>0. leafIndex \in 0..(treeSize - 1) /\ verdict = "running"
    BY <1>conclude DEF Conclude
  <2>1. PICK h \in 1..MaxSize : At(h)
    BY <2>0 DEF ClimbInv
  <2>2. verdict' = "verified" <=> Right
    BY <1>conclude, <2>1, ConcludeIsRight
  <2>3. PICK v \in Errors \cup {"verified"} : Return(v)
    BY <1>conclude DEF Conclude, Errors
  <2>4. verdict' = v
    BY <2>3 DEF Return
  <2> QED
    BY <1>3, <2>0, <2>2, <2>3, <2>4
<1> QED
  BY <1>stutter, <1>range, <1>promote, <1>join, <1>short, <1>conclude DEF Next

LEMMA Climbs == Spec => []ClimbInv
<1>1. TypeOK /\ LenOfProof => TypeOK
  OBVIOUS
<1> QED
  BY InitClimb, ClimbStep, TypeCorrect, <1>1, PTL DEF Spec

\* VerifyInclusion verifies nothing but the log's own record with its own siblings, in
\* trees of every size and whatever a server answers.
THEOREM ProofsAreSound == Spec => []Sound
<1>1. ClimbInv => Sound
  BY DEF ClimbInv, Sound, Right
<1> QED
  BY Climbs, <1>1, PTL

\* It verifies every record of every tree with the siblings of the tree built level by
\* level, against the root that MerkleRoot splits at powers of two.
THEOREM ProofsAreComplete == Spec => []Complete
<1>1. ClimbInv => Complete
  BY DEF ClimbInv, Complete, Right
<1> QED
  BY Climbs, <1>1, PTL
===============================================================================

------------------------------ MODULE LockfileProofs ------------------------------
(***************************************************************************)
(* Theorems of Lockfile, for all packages, lists and digests, and a        *)
(* document of any length: what Encode wrote is read back, a document has  *)
(* whole packages whatever was merged into it, and a drift check that      *)
(* reports nothing vouches for the lock.                                   *)
(***************************************************************************)
EXTENDS Lockfile, FiniteSetTheorems, FunctionTheorems, SequenceTheorems,
        WellFoundedInduction, TLAPS

-------------------------------------------------------------------------------
(* Numbers and loops *)

\* A set of natural numbers that is not empty has a least element.
LEMMA Least ==
  ASSUME NEW S \in SUBSET Nat, S # {}
  PROVE  \E m \in S : \A x \in S : m <= x
<1> DEFINE Less == {ss \in Nat \X Nat : ss[1] < ss[2]}
<1>1. IsWellFoundedOn(Less, Nat)
  BY NatLessThanWellFounded, SMT DEF OpToRel
<1>2. PICK m \in S : \A x \in S : <<x, m>> \notin Less
  <2> HIDE DEF Less
  <2> QED
    BY <1>1, WFMin
<1>3. \A x \in S : ~(x < m)
  BY <1>2
<1> QED
  BY <1>3

\* What is so at 0, and at each number of a range if at the one before, is so on the range.
LEMMA UpTo ==
  ASSUME NEW last \in Nat, NEW S, 0 \in S, \A n \in 1..last : n - 1 \in S => n \in S
  PROVE  \A n \in 0..last : n \in S
<1> DEFINE Not == {n \in 0..last : n \notin S}
<1> SUFFICES ASSUME Not # {} PROVE FALSE
  OBVIOUS
<1>1. Not \in SUBSET Nat
  OBVIOUS
<1> HIDE DEF Not
<1>2. PICK m \in Not : \A x \in Not : m <= x
  BY <1>1, Least
<1> USE DEF Not
<1>3. m \in 1..last /\ m - 1 \in 0..last
  BY <1>2
<1>4. m - 1 \in S
  <2>1. m - 1 \notin Not
    BY <1>2, <1>3
  <2> QED
    BY <1>3, <2>1
<1> QED
  BY <1>2, <1>3, <1>4

LEMMA UpToSize ==
  ASSUME NEW n \in Nat
  PROVE  Cardinality(1..n) = n
<1>1. Cardinality(1..n) = IF 1 > n THEN 0 ELSE n - 1 + 1
  BY FS_Interval
<1> QED
  BY <1>1

\* FlattenSeq goes through its pieces from the left.
Flattens(f, pieces) ==
  f[0] = <<>> /\ \A n \in 1..Len(pieces) : f[n] = f[n - 1] \o pieces[n]

LEMMA FlattenRuns ==
  ASSUME NEW T, NEW pieces \in Seq(Seq(T))
  PROVE  \E f : /\ Flattens(f, pieces)
                /\ \A n \in 0..Len(pieces) : f[n] \in Seq(T)
                /\ FlattenSeq(pieces) = f[Len(pieces)]
<1> DEFINE N == Len(pieces)
           Solves(f) == f = [i \in 1..N |-> IF i = 1 THEN pieces[i] ELSE f[i - 1] \o pieces[i]]
           flatten == CHOOSE f : Solves(f)
           Runs(f, m) == f[0] = <<>> /\ \A n \in 1..m : f[n] = f[n - 1] \o pieces[n]
           Can == {m \in 0..N : \E f : Runs(f, m)}
<1>1. N \in Nat /\ (N = 0 <=> pieces = <<>>) /\ \A n \in 1..N : pieces[n] \in Seq(T)
  OBVIOUS
<1>2. FlattenSeq(pieces) = IF N = 0 THEN pieces ELSE flatten[N]
  BY DEF FlattenSeq
<1> HIDE DEF N
<1>3. 0 \in Can
  <2>1. Runs([n \in {0} |-> <<>>], 0)
    OBVIOUS
  <2>2. 0 \in 0..N
    BY <1>1
  <2> HIDE DEF Runs
  <2> QED
    BY <2>1, <2>2
<1>4. ASSUME NEW m \in 1..N, m - 1 \in Can PROVE m \in Can
  <2>1. PICK f : Runs(f, m - 1)
    BY <1>4
  <2> DEFINE h == [n \in 0..m |-> IF n = m THEN f[m - 1] \o pieces[m] ELSE f[n]]
  <2>2. h[0] = <<>>
    BY <2>1
  <2>3. ASSUME NEW n \in 1..m PROVE h[n] = h[n - 1] \o pieces[n]
    <3>1. n \in 0..m /\ n - 1 \in 0..m /\ n - 1 # m
      OBVIOUS
    <3>2. h[n - 1] = f[n - 1]
      BY <3>1
    <3>3. CASE n = m
      BY <3>1, <3>2, <3>3
    <3>4. CASE n # m
      <4>1. n \in 1..(m - 1)
        BY <3>4
      <4>2. h[n] = f[n] /\ f[n] = f[n - 1] \o pieces[n]
        BY <2>1, <3>1, <3>4, <4>1
      <4> QED
        BY <3>2, <4>2
    <3> QED
      BY <3>3, <3>4
  <2> HIDE DEF h
  <2>4. Runs(h, m)
    BY <2>2, <2>3
  <2>5. m \in 0..N
    BY <1>1
  <2> HIDE DEF Runs
  <2> QED
    BY <2>4, <2>5
<1>5. N \in Can
  <2> HIDE DEF Can
  <2>1. \A n \in 0..N : n \in Can
    BY <1>1, <1>3, <1>4, UpTo
  <2> QED
    BY <1>1, <2>1
<1>6. PICK f : Runs(f, N)
  BY <1>5
<1>7. \A n \in 0..N : f[n] \in Seq(T)
  <2> DEFINE Typed == {n \in 0..N : f[n] \in Seq(T)}
  <2>1. 0 \in Typed
    <3>1. <<>> \in Seq(T) /\ 0 \in 0..N
      BY <1>1
    <3> QED
      BY <1>6, <3>1
  <2>2. ASSUME NEW n \in 1..N, n - 1 \in Typed PROVE n \in Typed
    <3>1. f[n - 1] \in Seq(T) /\ pieces[n] \in Seq(T)
      BY <1>1, <2>2
    <3>2. f[n - 1] \o pieces[n] \in Seq(T)
      BY <3>1
    <3>3. f[n] = f[n - 1] \o pieces[n]
      BY <1>6
    <3>4. n \in 0..N
      BY <1>1
    <3> QED
      BY <3>2, <3>3, <3>4
  <2> HIDE DEF Typed
  <2>3. \A n \in 0..N : n \in Typed
    BY <1>1, <2>1, <2>2, UpTo
  <2> QED
    BY <2>3 DEF Typed
<1>8. \A y \in Seq(T) : <<>> \o y = y
  OBVIOUS
<1>9. \E g : Solves(g)
  <2> DEFINE g == [i \in 1..N |-> f[i]]
  <2>1. ASSUME NEW i \in 1..N PROVE f[i] = IF i = 1 THEN pieces[i] ELSE g[i - 1] \o pieces[i]
    <3>1. CASE i = 1
      <4>1. f[1] = f[0] \o pieces[1] /\ pieces[1] \in Seq(T)
        <5>1. 1 \in 1..N /\ 1 - 1 = 0
          BY <3>1
        <5> QED
          BY <1>1, <1>6, <5>1
      <4> QED
        BY <1>6, <1>8, <3>1, <4>1
    <3>2. CASE i # 1
      <4>1. i - 1 \in 1..N
        BY <1>1, <3>2
      <4> QED
        BY <1>6, <3>2, <4>1
    <3> QED
      BY <3>1, <3>2
  <2>2. g = [i \in 1..N |-> f[i]]
    OBVIOUS
  <2> HIDE DEF g
  <2>3. Solves(g)
    BY <2>1, <2>2
  <2> QED
    BY <2>3
<1>10. Solves(flatten)
  BY <1>9
<1> HIDE DEF flatten
<1> DEFINE Same == {n \in 0..N : n # 0 => flatten[n] = f[n]}
<1>11. 0 \in Same
  BY <1>1
<1>12. ASSUME NEW n \in 1..N, n - 1 \in Same PROVE n \in Same
  <2>1. CASE n = 1
    <3>1. flatten[1] = pieces[1] /\ pieces[1] \in Seq(T)
      BY <1>1, <1>10, <2>1
    <3>2. f[1] = f[0] \o pieces[1]
      <4>1. 1 \in 1..N /\ 1 - 1 = 0
        BY <2>1
      <4> QED
        BY <1>6, <4>1
    <3> QED
      BY <1>6, <1>8, <2>1, <3>1, <3>2
  <2>2. CASE n # 1
    <3>1. n - 1 \in 1..N /\ n - 1 # 0 /\ n \in 0..N
      BY <1>1, <2>2
    <3>2. flatten[n] = flatten[n - 1] \o pieces[n]
      BY <1>10, <2>2
    <3>3. f[n] = f[n - 1] \o pieces[n]
      BY <1>6
    <3> QED
      BY <1>12, <3>1, <3>2, <3>3
  <2> QED
    BY <2>1, <2>2
<1>13. N # 0 => flatten[N] = f[N]
  <2> HIDE DEF Same
  <2>1. \A n \in 0..N : n \in Same
    BY <1>1, <1>11, <1>12, UpTo
  <2>2. N \in Same
    BY <1>1, <2>1
  <2> QED
    BY <2>2 DEF Same
<1>14. FlattenSeq(pieces) = f[N]
  <2>1. CASE N = 0
    BY <1>1, <1>2, <1>6, <2>1
  <2>2. CASE N # 0
    BY <1>2, <1>13, <2>2
  <2> QED
    BY <2>1, <2>2
<1>15. Flattens(f, pieces)
  BY <1>6 DEF Flattens, N
<1> QED
  BY <1>7, <1>14, <1>15 DEF N

-------------------------------------------------------------------------------
(* Decode reads a document line by line *)

Start == [out |-> <<>>, cur |-> <<>>, err |-> FALSE]

LEMMA ReadRuns ==
  ASSUME NEW T, NEW lines \in Seq(T)
  PROVE  \E f : /\ f[0] = Start
                /\ \A n \in 1..Len(lines) : f[n] = DecodeLine(f[n - 1], lines[n])
                /\ ReadLines(lines) = f[Len(lines)]
<1> DEFINE N == Len(lines)
           Solves(f) == f = [n \in 0..N |-> IF n = 0 THEN Start ELSE DecodeLine(f[n - 1], lines[n])]
           read == CHOOSE f : Solves(f)
           Runs(f, m) == f[0] = Start /\ \A n \in 1..m : f[n] = DecodeLine(f[n - 1], lines[n])
           Can == {m \in 0..N : \E f : Runs(f, m)}
<1>1. N \in Nat
  OBVIOUS
<1>2. ReadLines(lines) = read[N]
  BY DEF ReadLines, Start
<1> HIDE DEF N
<1>3. 0 \in Can
  <2>1. Runs([n \in {0} |-> Start], 0)
    OBVIOUS
  <2>2. 0 \in 0..N
    BY <1>1
  <2> HIDE DEF Runs
  <2> QED
    BY <2>1, <2>2
<1>4. ASSUME NEW m \in 1..N, m - 1 \in Can PROVE m \in Can
  <2>1. PICK f : Runs(f, m - 1)
    BY <1>4
  <2> DEFINE h == [n \in 0..m |-> IF n = m THEN DecodeLine(f[m - 1], lines[m]) ELSE f[n]]
  <2>2. h[0] = Start
    BY <2>1
  <2>3. ASSUME NEW n \in 1..m PROVE h[n] = DecodeLine(h[n - 1], lines[n])
    <3>1. n \in 0..m /\ n - 1 \in 0..m /\ n - 1 # m
      OBVIOUS
    <3>2. h[n - 1] = f[n - 1]
      BY <3>1
    <3>3. CASE n = m
      BY <3>1, <3>2, <3>3
    <3>4. CASE n # m
      <4>1. n \in 1..(m - 1)
        BY <3>4
      <4>2. h[n] = f[n] /\ f[n] = DecodeLine(f[n - 1], lines[n])
        BY <2>1, <3>1, <3>4, <4>1
      <4> QED
        BY <3>2, <4>2
    <3> QED
      BY <3>3, <3>4
  <2> HIDE DEF h
  <2>4. Runs(h, m)
    BY <2>2, <2>3
  <2>5. m \in 0..N
    BY <1>1
  <2> HIDE DEF Runs
  <2> QED
    BY <2>4, <2>5
<1>5. N \in Can
  <2> HIDE DEF Can
  <2>1. \A n \in 0..N : n \in Can
    BY <1>1, <1>3, <1>4, UpTo
  <2> QED
    BY <1>1, <2>1
<1>6. PICK f : Runs(f, N)
  BY <1>5
<1>7. \E g : Solves(g)
  <2> DEFINE g == [n \in 0..N |-> f[n]]
  <2>1. ASSUME NEW n \in 0..N PROVE f[n] = IF n = 0 THEN Start ELSE DecodeLine(g[n - 1], lines[n])
    <3>1. CASE n = 0
      BY <1>6, <3>1
    <3>2. CASE n # 0
      <4>1. n \in 1..N /\ n - 1 \in 0..N
        BY <1>1, <3>2
      <4> QED
        BY <1>6, <3>2, <4>1
    <3> QED
      BY <3>1, <3>2
  <2>2. g = [n \in 0..N |-> f[n]]
    OBVIOUS
  <2> HIDE DEF g
  <2>3. Solves(g)
    BY <2>1, <2>2
  <2> QED
    BY <2>3
<1>8. Solves(read)
  BY <1>7
<1> HIDE DEF read
<1>9. read[0] = Start
  BY <1>1, <1>8
<1>10. \A n \in 1..N : read[n] = DecodeLine(read[n - 1], lines[n])
  <2> SUFFICES ASSUME NEW n \in 1..N PROVE read[n] = DecodeLine(read[n - 1], lines[n])
    OBVIOUS
  <2>1. n \in 0..N /\ n # 0
    OBVIOUS
  <2> QED
    BY <1>8, <2>1
<1> QED
  BY <1>2, <1>9, <1>10 DEF N

\* A line more is one step more.
LEMMA ReadAppend ==
  ASSUME NEW T, NEW lines \in Seq(T), NEW l \in T
  PROVE  ReadLines(Append(lines, l)) = DecodeLine(ReadLines(lines), l)
<1> DEFINE N == Len(lines)
           more == Append(lines, l)
<1>1. PICK f : /\ f[0] = Start /\ \A n \in 1..N : f[n] = DecodeLine(f[n - 1], lines[n])
               /\ ReadLines(lines) = f[N]
  BY ReadRuns
<1>2. /\ N \in Nat /\ more \in Seq(T) /\ Len(more) = N + 1
      /\ more[N + 1] = l /\ \A n \in 1..N : more[n] = lines[n]
  OBVIOUS
<1> HIDE DEF more, N
<1>3. PICK g : /\ g[0] = Start /\ \A n \in 1..Len(more) : g[n] = DecodeLine(g[n - 1], more[n])
               /\ ReadLines(more) = g[Len(more)]
  BY <1>2, ReadRuns
<1> DEFINE Same == {n \in 0..N : f[n] = g[n]}
<1>4. 0 \in Same
  BY <1>1, <1>2, <1>3
<1>5. ASSUME NEW n \in 1..N, n - 1 \in Same PROVE n \in Same
  <2>1. n \in 0..N /\ n \in 1..Len(more)
    BY <1>2
  <2>2. f[n] = DecodeLine(f[n - 1], lines[n]) /\ g[n] = DecodeLine(g[n - 1], lines[n])
    BY <1>1, <1>2, <1>3, <2>1
  <2> QED
    BY <1>5, <2>1, <2>2
<1>6. f[N] = g[N]
  <2> HIDE DEF Same
  <2>1. \A n \in 0..N : n \in Same
    BY <1>2, <1>4, <1>5, UpTo
  <2>2. N \in Same
    BY <1>2, <2>1
  <2> QED
    BY <2>2 DEF Same
<1>7. g[N + 1] = DecodeLine(g[N], l)
  <2>1. N + 1 \in 1..Len(more) /\ (N + 1) - 1 = N
    BY <1>2
  <2> QED
    BY <1>2, <1>3, <2>1
<1> QED
  BY <1>1, <1>2, <1>3, <1>6, <1>7 DEF more

-------------------------------------------------------------------------------
(* Lines and packages *)

KeySet == ToSet(Keys)
Value  == Nat \cup Digests \cup (STRING \X Nat) \cup Seq(STRING)
Line   == [k : KeySet \cup {Header.k, Skipped, NoEq, Malformed, "since"}, v : Value]

\* A package as it is read back.
Back(p) == [p EXCEPT !.source = Quoted(@)]

LEMMA KeysAre ==
  /\ Len(Keys) = 9 /\ DOMAIN Keys = 1..9
  /\ KeySet = {"module", "version", "source", "zip", "sumdb", "api", "wrapper", "caps", "deps"}
  /\ \A i \in 1..9 : Keys[i] \in KeySet
  /\ \A i, j \in 1..9 : Keys[i] = Keys[j] => i = j
<1>1. /\ Len(Keys) = 9 /\ DOMAIN Keys = 1..9
      /\ Keys[1] = "module" /\ Keys[2] = "version" /\ Keys[3] = "source" /\ Keys[4] = "zip"
      /\ Keys[5] = "sumdb" /\ Keys[6] = "api" /\ Keys[7] = "wrapper" /\ Keys[8] = "caps"
      /\ Keys[9] = "deps"
  BY DEF Keys
<1>2. \A i \in 1..9 : i \in {1, 2, 3, 4, 5, 6, 7, 8, 9}
  OBVIOUS
<1>3. \A i \in {1, 2, 3, 4, 5, 6, 7, 8, 9} : i \in 1..9
  OBVIOUS
<1>4. KeySet = {Keys[i] : i \in {1, 2, 3, 4, 5, 6, 7, 8, 9}}
  BY <1>1, <1>2, <1>3 DEF KeySet, ToSet
<1>5. KeySet = {"module", "version", "source", "zip", "sumdb", "api", "wrapper", "caps", "deps"}
  BY <1>1, <1>4
<1>6. \A i \in {1, 2, 3, 4, 5, 6, 7, 8, 9} : Keys[i] \in KeySet
  BY <1>4
<1>7. \A i, j \in {1, 2, 3, 4, 5, 6, 7, 8, 9} : Keys[i] = Keys[j] => i = j
  BY <1>1
<1> QED
  BY <1>1, <1>2, <1>5, <1>6, <1>7

LEMMA QuotedType ==
  ASSUME NEW s \in STRING \X Nat
  PROVE  Quoted(s) \in STRING \X Nat
BY DEF Quoted

LEMMA BackType ==
  ASSUME NEW p \in Package
  PROVE  /\ Back(p) \in Package
         /\ DOMAIN Back(p) = KeySet
         /\ \A k \in KeySet : Back(p)[k] = IF k = "source" THEN Quoted(p[k]) ELSE p[k]
<1>1. DOMAIN p = KeySet
  BY KeysAre DEF Package
<1>2. \A k \in KeySet : Back(p)[k] = IF k = "source" THEN Quoted(p[k]) ELSE p[k]
  BY <1>1, KeysAre DEF Back
<1>3. p.source \in STRING \X Nat
  BY DEF Package
<1>4. Quoted(p.source) \in STRING \X Nat
  BY <1>3, QuotedType
<1>5. Back(p) \in Package
  BY <1>4 DEF Back, Package
<1> QED
  BY <1>1, <1>2, <1>5, KeysAre DEF Back

LEMMA FieldType ==
  ASSUME NEW p \in Package, NEW k \in KeySet
  PROVE  p[k] \in Value
<1>1. /\ p.module \in Nat /\ p.version \in Nat /\ p.source \in STRING \X Nat
      /\ p.zip \in Digests /\ p.sumdb \in Digests /\ p.api \in Digests /\ p.wrapper \in Digests
      /\ p.caps \in Seq(STRING) /\ p.deps \in Seq(STRING)
  BY ValuesAssumption DEF Package
<1>2. k \in {"module", "version", "source", "zip", "sumdb", "api", "wrapper", "caps", "deps"}
  BY KeysAre
<1> QED
  BY <1>1, <1>2 DEF Value

LEMMA ZeroFields ==
  /\ Zero = [k \in KeySet |-> Zero[k]]
  /\ DOMAIN Zero = KeySet
BY KeysAre DEF Zero

\* A field is written as it is read back, or left out when it is empty.
LEMMA LinesOfField ==
  ASSUME NEW p \in Package, NEW k \in KeySet
  PROVE  \/ LinesOf(p, k) = <<>> /\ Back(p)[k] = Zero[k]
         \/ /\ LinesOf(p, k) = <<[k |-> k, v |-> Back(p)[k]]>>
            /\ [k |-> k, v |-> Back(p)[k]] \in Line
<1>1. Back(p)[k] = IF k = "source" THEN Quoted(p[k]) ELSE p[k]
  BY BackType
<1>2. Back(p)[k] \in Value
  <2>1. Back(p) \in Package
    BY BackType
  <2> QED
    BY <2>1, FieldType
<1>3. [k |-> k, v |-> Back(p)[k]] \in Line
  BY <1>2 DEF Line
<1>4. CASE k \notin Always /\ p[k] = Zero[k]
  BY <1>1, <1>4 DEF LinesOf, Always
<1>5. CASE ~(k \notin Always /\ p[k] = Zero[k])
  BY <1>1, <1>3, <1>5 DEF LinesOf
<1> QED
  BY <1>4, <1>5

-------------------------------------------------------------------------------
(* Decode reads what writeEntry wrote *)

\* What was read so far: finished packages, the one that is open, no error.
State(d, o, c) == DOMAIN d = {"out", "cur", "err"} /\ d.out = o /\ d.cur = c /\ ~d.err

LEMMA FieldLine ==
  ASSUME NEW d, NEW o, NEW q, State(d, o, <<q>>), DOMAIN q = KeySet,
         NEW l, l.k \in KeySet, NEW after, after = [q EXCEPT ![l.k] = l.v]
  PROVE  State(DecodeLine(d, l), o, <<after>>)
<1>1. l.k # Skipped /\ l.k # Header.k /\ l.k \notin {NoEq, Malformed}
  BY KeysAre DEF Skipped, Header, NoEq, Malformed
<1>2. ~d.err /\ d.cur = <<q>> /\ <<q>> # <<>> /\ d.cur[1] = q
  BY DEF State
<1>3. DecodeLine(d, l) = [d EXCEPT !.cur = <<setField(q, l)>>]
  BY <1>1, <1>2 DEF DecodeLine
<1>4. setField(q, l) = after
  BY DEF setField
<1>5. DecodeLine(d, l) = [d EXCEPT !.cur = <<after>>]
  BY <1>3, <1>4
<1> QED
  BY <1>5 DEF State

LEMMA HeaderLine ==
  ASSUME NEW d, NEW o, NEW c, State(d, o, c)
  PROVE  State(DecodeLine(d, Header), o \o c, <<Zero>>)
<1>1. Header.k # Skipped /\ ~d.err /\ d.cur = c /\ d.out = o
  BY DEF Header, Skipped, State
<1>2. DecodeLine(d, Header) = [Flush(d) EXCEPT !.cur = <<Zero>>]
  BY <1>1 DEF DecodeLine
<1> DEFINE e == Flush(d)
<1>3. DOMAIN e = {"out", "cur", "err"} /\ e.out = o \o c /\ ~e.err
  BY <1>1 DEF Flush
<1> HIDE DEF e
<1>4. DecodeLine(d, Header) = [e EXCEPT !.cur = <<Zero>>]
  BY <1>2 DEF e
<1> QED
  BY <1>3, <1>4 DEF State

LEMMA HeaderType == Header \in Line
<1>1. Header.v \in Value /\ Header = [k |-> Header.k, v |-> Header.v]
  BY ValuesAssumption DEF Header, Value
<1> QED
  BY <1>1 DEF Line

LEMMA LinesAssociative ==
  \A x, y, z \in Seq(Line) : (x \o y) \o z = x \o (y \o z)
BY ConcatAssociative

\* The package a block holds after its first n fields.
Partial(p, n) == [k \in KeySet |-> IF \E j \in 1..n : Keys[j] = k THEN Back(p)[k] ELSE Zero[k]]

LEMMA PartialEnds ==
  ASSUME NEW p \in Package
  PROVE  Partial(p, 0) = Zero /\ Partial(p, 9) = Back(p)
<1>1. Partial(p, 0) = Zero
  <2>1. \A k \in KeySet : ~ \E j \in 1..0 : Keys[j] = k
    OBVIOUS
  <2>2. Partial(p, 0) = [k \in KeySet |-> Zero[k]]
    BY <2>1 DEF Partial
  <2> QED
    BY <2>2, ZeroFields
<1>2. Partial(p, 9) = Back(p)
  <2>1. \A k \in KeySet : \E j \in 1..9 : Keys[j] = k
    BY KeysAre DEF KeySet, ToSet
  <2>2. Partial(p, 9) = [k \in KeySet |-> Back(p)[k]]
    BY <2>1 DEF Partial
  <2>3. Back(p) = [k \in DOMAIN Back(p) |-> Back(p)[k]]
    BY DEF Back
  <2> QED
    BY <2>2, <2>3, BackType
<1> QED
  BY <1>1, <1>2

LEMMA PartialStep ==
  ASSUME NEW p \in Package, NEW n \in 1..9
  PROVE  Partial(p, n) = [Partial(p, n - 1) EXCEPT ![Keys[n]] = Back(p)[Keys[n]]]
<1>1. Keys[n] \in KeySet
  BY KeysAre
<1>2. \A k \in KeySet : (\E j \in 1..n : Keys[j] = k) <=> k = Keys[n] \/ \E j \in 1..(n - 1) : Keys[j] = k
  OBVIOUS
<1>3. Partial(p, n) = [k \in KeySet |-> IF k = Keys[n] THEN Back(p)[Keys[n]] ELSE Partial(p, n - 1)[k]]
  BY <1>2 DEF Partial
<1>4. DOMAIN Partial(p, n - 1) = KeySet
  BY DEF Partial
<1> HIDE DEF KeySet
<1> QED
  BY <1>1, <1>3, <1>4

\* A block is read as its package; the block before it is finished.
LEMMA ReadBlock ==
  ASSUME NEW lines \in Seq(Line), NEW o, NEW c, State(ReadLines(lines), o, c),
         NEW p \in Package
  PROVE  /\ writeEntry(p) \in Seq(Line)
         /\ State(ReadLines(lines \o writeEntry(p)), o \o c, <<Back(p)>>)
<1> DEFINE pieces == [i \in DOMAIN Keys |-> LinesOf(p, Keys[i])]
           top == Append(lines, Header)
<1>1. Header \in Line /\ top \in Seq(Line) /\ State(ReadLines(top), o \o c, <<Zero>>)
  <2>1. Header \in Line
    BY HeaderType
  <2>2. ReadLines(top) = DecodeLine(ReadLines(lines), Header)
    BY <2>1, ReadAppend
  <2>3. State(ReadLines(top), o \o c, <<Zero>>)
    BY <2>2, HeaderLine
  <2>4. top \in Seq(Line)
    BY <2>1
  <2> QED
    BY <2>1, <2>3, <2>4
<1>2. \A i \in 1..9 : LinesOf(p, Keys[i]) \in Seq(Line)
  <2> SUFFICES ASSUME NEW i \in 1..9 PROVE LinesOf(p, Keys[i]) \in Seq(Line)
    OBVIOUS
  <2>1. Keys[i] \in KeySet
    BY KeysAre
  <2>2. CASE LinesOf(p, Keys[i]) = <<>>
    BY <2>2
  <2>3. CASE LinesOf(p, Keys[i]) # <<>>
    <3>1. \E l \in Line : LinesOf(p, Keys[i]) = <<l>>
      BY <2>1, <2>3, LinesOfField
    <3> QED
      BY <3>1
  <2> QED
    BY <2>2, <2>3
<1>3. pieces \in Seq(Seq(Line)) /\ Len(pieces) = 9 /\ \A i \in 1..9 : pieces[i] = LinesOf(p, Keys[i])
  <2>1. pieces \in [1..9 -> Seq(Line)] /\ \A i \in 1..9 : pieces[i] = LinesOf(p, Keys[i])
    BY <1>2, KeysAre
  <2> QED
    BY <2>1
<1>4. writeEntry(p) = <<Header>> \o FlattenSeq(pieces)
  BY DEF writeEntry
<1> HIDE DEF pieces, top
<1>5. PICK f : /\ Flattens(f, pieces)
               /\ \A n \in 0..9 : f[n] \in Seq(Line)
               /\ FlattenSeq(pieces) = f[9]
  <2>1. pieces \in Seq(Seq(Line)) /\ Len(pieces) = 9
    BY <1>3
  <2> QED
    BY <2>1, FlattenRuns, Zenon
<1> DEFINE Good == {n \in 0..9 : State(ReadLines(top \o f[n]), o \o c, <<Partial(p, n)>>)}
<1>6. 0 \in Good
  <2>1. f[0] = <<>> /\ top \o <<>> = top
    BY <1>1, <1>5 DEF Flattens
  <2>2. Partial(p, 0) = Zero
    BY PartialEnds
  <2>3. State(ReadLines(top \o f[0]), o \o c, <<Partial(p, 0)>>)
    BY <1>1, <2>1, <2>2
  <2>4. 0 \in 0..9
    OBVIOUS
  <2> QED
    BY <2>3, <2>4
<1>7. ASSUME NEW n \in 1..9, n - 1 \in Good PROVE n \in Good
  <2> DEFINE before == top \o f[n - 1]
             k == Keys[n]
  <2>1. n - 1 \in 0..9 /\ n \in 0..9
    OBVIOUS
  <2>2. f[n - 1] \in Seq(Line) /\ f[n] = f[n - 1] \o LinesOf(p, k)
    BY <1>3, <1>5, <2>1 DEF Flattens
  <2>3. before \in Seq(Line) /\ State(ReadLines(before), o \o c, <<Partial(p, n - 1)>>)
    <3>1. before \in Seq(Line)
      BY <1>1, <2>2
    <3>2. State(ReadLines(before), o \o c, <<Partial(p, n - 1)>>)
      BY <1>7
    <3> QED
      BY <3>1, <3>2
  <2>4. top \o f[n] = before \o LinesOf(p, k)
    <3>1. top \in Seq(Line) /\ f[n - 1] \in Seq(Line) /\ LinesOf(p, k) \in Seq(Line)
      BY <1>1, <1>2, <2>2
    <3>2. (top \o f[n - 1]) \o LinesOf(p, k) = top \o (f[n - 1] \o LinesOf(p, k))
      <4> DEFINE x == f[n - 1]
                 y == LinesOf(p, k)
      <4>1. x \in Seq(Line) /\ y \in Seq(Line)
        BY <3>1
      <4>2. top \in Seq(Line)
        BY <3>1
      <4> HIDE DEF x, y
      <4>3. (top \o x) \o y = top \o (x \o y)
        BY <4>1, <4>2, LinesAssociative, Zenon
      <4> QED
        BY <4>3 DEF x, y
    <3> QED
      BY <2>2, <3>2
  <2>5. k \in KeySet
    BY KeysAre
  <2>6. Partial(p, n) = [Partial(p, n - 1) EXCEPT ![k] = Back(p)[k]]
    BY PartialStep
  <2> HIDE DEF before, k, Good
  <2>7. CASE LinesOf(p, k) = <<>> /\ Back(p)[k] = Zero[k]
    <3>1. Partial(p, n - 1)[k] = Back(p)[k] /\ DOMAIN Partial(p, n - 1) = KeySet
      BY <2>5, <2>7 DEF Partial
    <3>2. Partial(p, n - 1) = [j \in KeySet |-> Partial(p, n - 1)[j]]
      BY DEF Partial
    <3>3. Partial(p, n) = Partial(p, n - 1)
      BY <2>5, <2>6, <3>1, <3>2
    <3>4. top \o f[n] = before
      BY <2>3, <2>4, <2>7
    <3>5. State(ReadLines(top \o f[n]), o \o c, <<Partial(p, n)>>)
      BY <2>3, <3>3, <3>4
    <3> QED
      BY <2>1, <3>5 DEF Good
  <2>8. CASE /\ LinesOf(p, k) = <<[k |-> k, v |-> Back(p)[k]]>>
             /\ [k |-> k, v |-> Back(p)[k]] \in Line
    <3> DEFINE l == [k |-> k, v |-> Back(p)[k]]
               q == Partial(p, n - 1)
               after == Partial(p, n)
               out == o \o c
    <3>1. l \in Line /\ top \o f[n] = before \o <<l>> /\ l.k = k /\ l.v = Back(p)[k]
      BY <2>4, <2>8
    <3>2. DOMAIN q = KeySet
      BY DEF Partial
    <3>3. l.k \in KeySet /\ after = [q EXCEPT ![l.k] = l.v]
      BY <2>5, <2>6, <3>1
    <3> HIDE DEF l, q, after, out
    <3>4. top \o f[n] = Append(before, l)
      BY <2>3, <3>1
    <3>5. ReadLines(top \o f[n]) = DecodeLine(ReadLines(before), l)
      BY <2>3, <3>1, <3>4, ReadAppend
    <3>6. State(DecodeLine(ReadLines(before), l), out, <<after>>)
      <4>1. State(ReadLines(before), out, <<q>>)
        BY <2>3 DEF out, q
      <4> QED
        BY <3>2, <3>3, <4>1, FieldLine
    <3>7. State(ReadLines(top \o f[n]), o \o c, <<Partial(p, n)>>)
      BY <3>5, <3>6 DEF after, out
    <3> QED
      BY <2>1, <3>7 DEF Good
  <2> QED
    BY <2>5, <2>7, <2>8, LinesOfField
<1>8. 9 \in Good
  <2> HIDE DEF Good
  <2>1. \A n \in 0..9 : n \in Good
    BY <1>6, <1>7, UpTo
  <2> QED
    BY <2>1
<1>9. State(ReadLines(top \o f[9]), o \o c, <<Back(p)>>)
  BY <1>8, PartialEnds
<1>10. f[9] \in Seq(Line)
  BY <1>5
<1>11. writeEntry(p) = <<Header>> \o f[9] /\ writeEntry(p) \in Seq(Line)
  BY <1>1, <1>4, <1>5, <1>10
<1>12. lines \o writeEntry(p) = top \o f[9]
  <2>1. top = lines \o <<Header>> /\ <<Header>> \in Seq(Line)
    BY <1>1 DEF top
  <2>2. (lines \o <<Header>>) \o f[9] = lines \o (<<Header>> \o f[9])
    BY <1>10, <2>1, LinesAssociative
  <2> QED
    BY <1>11, <2>1, <2>2
<1> QED
  BY <1>9, <1>11, <1>12

\* What is written after an error is not read.
LEMMA ReadError ==
  ASSUME NEW lines \in Seq(Line), ReadLines(lines).err, NEW s \in Seq(Line)
  PROVE  ReadLines(lines \o s) = ReadLines(lines)
<1> DEFINE d == ReadLines(lines)
           N == Len(s)
           Same == {n \in 0..N : ReadLines(lines \o SubSeq(s, 1, n)) = d}
<1>1. N \in Nat /\ SubSeq(s, 1, 0) = <<>> /\ lines \o <<>> = lines
  OBVIOUS
<1>2. 0 \in Same
  <2>1. lines \o SubSeq(s, 1, 0) = lines
    BY <1>1
  <2>2. 0 \in 0..N
    BY <1>1
  <2> QED
    BY <2>1, <2>2
<1>3. ASSUME NEW n \in 1..N, n - 1 \in Same PROVE n \in Same
  <2>1. SubSeq(s, 1, n) = Append(SubSeq(s, 1, n - 1), s[n])
    BY SubSeqRecursiveSecond
  <2>2. s[n] \in Line /\ SubSeq(s, 1, n - 1) \in Seq(Line) /\ n \in 0..N
    BY <1>1
  <2> DEFINE t == SubSeq(s, 1, n - 1)
             l == s[n]
  <2>3. ReadLines(lines \o t) = d
    BY <1>3
  <2> HIDE DEF t, l, d
  <2>4. lines \o Append(t, l) = Append(lines \o t, l) /\ lines \o t \in Seq(Line)
    BY <2>2 DEF t, l
  <2>5. ReadLines(lines \o Append(t, l)) = DecodeLine(d, l)
    BY <2>2, <2>3, <2>4, ReadAppend DEF l
  <2>6. DecodeLine(d, l) = d
    BY DEF DecodeLine, d
  <2> QED
    BY <2>1, <2>2, <2>5, <2>6 DEF t, l
<1>4. N \in Same
  <2> HIDE DEF Same
  <2>1. \A n \in 0..N : n \in Same
    BY <1>1, <1>2, <1>3, UpTo
  <2> QED
    BY <1>1, <2>1
<1>5. SubSeq(s, 1, N) = s
  BY SubSeqFull
<1> QED
  BY <1>4, <1>5

LEMMA ReadPreamble ==
  /\ Preamble \in Seq(Line)
  /\ State(ReadLines(Preamble), <<>>, <<>>)
<1> DEFINE a == [k |-> NoEq, v |-> ""]
           b == [k |-> "version", v |-> 1]
<1>1. a \in Line /\ b \in Line
  BY ValuesAssumption, KeysAre DEF Line, Value
<1>2. /\ Preamble = Append(Append(<<>>, a), b)
      /\ a.k # Header.k /\ b.k # Header.k
  <2>1. ASSUME NEW x, NEW y PROVE <<x, y>> = Append(Append(<<>>, x), y)
    OBVIOUS
  <2>2. Preamble = Append(Append(<<>>, a), b)
    BY <2>1 DEF Preamble
  <2> QED
    BY <2>2 DEF Header, NoEq
<1> HIDE DEF a, b
<1>3. <<>> \in Seq(Line) /\ Append(<<>>, a) \in Seq(Line) /\ Preamble \in Seq(Line)
  BY <1>1, <1>2
<1>4. ReadLines(<<>>) = Start
  <2>1. PICK f : f[0] = Start /\ ReadLines(<<>>) = f[Len(<<>>)]
    BY <1>3, ReadRuns
  <2> QED
    BY <2>1
<1>5. State(Start, <<>>, <<>>)
  BY DEF State, Start
<1>6. DecodeLine(Start, a) = Start /\ DecodeLine(Start, b) = Start
  BY <1>2 DEF DecodeLine, Start
<1>7. ReadLines(Append(<<>>, a)) = Start
  BY <1>1, <1>3, <1>4, <1>6, ReadAppend
<1>8. ReadLines(Preamble) = Start
  BY <1>1, <1>2, <1>3, <1>6, <1>7, ReadAppend
<1> QED
  BY <1>3, <1>5, <1>8

-------------------------------------------------------------------------------
(* Documents hold whole packages *)

Whole(d) ==
  /\ DOMAIN d = {"out", "cur", "err"}
  /\ d.out \in Seq(Package)
  /\ d.cur = <<>> \/ \E p \in Package : d.cur = <<p>>

LEMMA WholeFlush ==
  ASSUME NEW d, Whole(d)
  PROVE  /\ Flush(d).out \in Seq(Package) /\ Flush(d).cur = <<>>
         /\ d.out \o d.cur \in Seq(Package)
<1>1. d.cur \in Seq(Package) /\ d.out \in Seq(Package)
  <2>1. CASE d.cur = <<>>
    BY <2>1 DEF Whole
  <2>2. CASE d.cur # <<>>
    <3>1. PICK p \in Package : d.cur = <<p>>
      BY <2>2 DEF Whole
    <3> QED
      BY <3>1 DEF Whole
  <2> QED
    BY <2>1, <2>2
<1>2. d.out \o d.cur \in Seq(Package)
  BY <1>1
<1> QED
  BY <1>2 DEF Flush

\* A line appended by hand leaves whole packages.
LEMMA WholeLine ==
  ASSUME NEW d, Whole(d), NEW l,
         l.k \in {Skipped, NoEq, Malformed, "since"} \/ (l.k = "version" /\ l.v \in Versions)
  PROVE  Whole(DecodeLine(d, l))
<1>1. l.k # Header.k
  BY DEF Header, Skipped, NoEq, Malformed
<1>2. CASE l.k = Skipped \/ d.err \/ d.cur = <<>>
  BY <1>1, <1>2 DEF DecodeLine
<1>3. CASE ~(l.k = Skipped \/ d.err \/ d.cur = <<>>)
  <2>1. PICK p \in Package : d.cur = <<p>>
    BY <1>3 DEF Whole
  <2>2. d.cur[1] = p
    BY <2>1
  <2>3. DecodeLine(d, l) = IF l.k \in {NoEq, Malformed} THEN [d EXCEPT !.err = TRUE]
                           ELSE [d EXCEPT !.cur = <<setField(p, l)>>]
    BY <1>1, <1>3, <2>2 DEF DecodeLine
  <2>4. CASE l.k \in {NoEq, Malformed}
    <3> DEFINE e == DecodeLine(d, l)
    <3>1. e = [d EXCEPT !.err = TRUE]
      BY <2>3, <2>4
    <3> HIDE DEF e
    <3>2. DOMAIN e = {"out", "cur", "err"} /\ e.out = d.out /\ e.cur = d.cur
      BY <3>1 DEF Whole
    <3> QED
      BY <3>2 DEF Whole, e
  <2>5. CASE l.k \notin {NoEq, Malformed}
    <3> DEFINE q == setField(p, l)
    <3>1. q \in Package
      <4>1. DOMAIN p = KeySet
        BY KeysAre DEF Package
      <4>2. CASE l.k = "version"
        <5>1. q = [p EXCEPT !.version = l.v]
          BY <4>1, <4>2, KeysAre DEF setField
        <5>2. l.v \in Versions
          BY <4>2 DEF Skipped, NoEq, Malformed
        <5> QED
          BY <5>1, <5>2 DEF Package
      <4>3. CASE l.k # "version"
        <5>1. l.k \notin KeySet
          BY <1>3, <2>5, <4>3, KeysAre
        <5> QED
          BY <4>1, <5>1 DEF setField
      <4> QED
        BY <4>2, <4>3
    <3> HIDE DEF q
    <3> DEFINE e == DecodeLine(d, l)
    <3>2. e = [d EXCEPT !.cur = <<q>>]
      BY <2>3, <2>5 DEF q
    <3> HIDE DEF e
    <3>3. DOMAIN e = {"out", "cur", "err"} /\ e.out = d.out /\ e.cur = <<q>>
      BY <3>2 DEF Whole
    <3> QED
      BY <3>1, <3>3 DEF Whole, e
  <2> QED
    BY <2>4, <2>5
<1> QED
  BY <1>2, <1>3

\* So does a block that is merged in, also after an error.
LEMMA WholeBlock ==
  ASSUME NEW lines \in Seq(Line), Whole(ReadLines(lines)), NEW p \in Package
  PROVE  writeEntry(p) \in Seq(Line) /\ Whole(ReadLines(lines \o writeEntry(p)))
<1> DEFINE d == ReadLines(lines)
<1>1. writeEntry(p) \in Seq(Line)
  BY ReadPreamble, ReadBlock
<1>2. CASE d.err
  BY <1>1, <1>2, ReadError
<1>3. CASE ~d.err
  <2>1. State(d, d.out, d.cur)
    BY <1>3 DEF Whole, State
  <2>2. State(ReadLines(lines \o writeEntry(p)), d.out \o d.cur, <<Back(p)>>)
    BY <2>1, ReadBlock
  <2>3. d.out \o d.cur \in Seq(Package)
    BY WholeFlush
  <2>4. Back(p) \in Package
    BY BackType
  <2> QED
    BY <1>1, <2>2, <2>3, <2>4 DEF State, Whole
<1> QED
  BY <1>2, <1>3

-------------------------------------------------------------------------------
(* Encode *)

LEMMA PackageNumbers == \A p \in Package : p.module \in Nat /\ p.version \in Nat
BY ValuesAssumption DEF Package

Distinct(ps) == \A i, j \in DOMAIN ps : ps[i].module = ps[j].module => i = j

\* Packages of different modules have an order: a package goes to the place that is
\* the number of those up to it.
LEMMA ArrangementExists ==
  ASSUME NEW ps \in Seq(Package), Distinct(ps)
  PROVE  \E f \in Bijection(DOMAIN ps, DOMAIN ps) :
           \A i, j \in DOMAIN ps : i < j => ps[f[i]].module < ps[f[j]].module
<1> DEFINE n == Len(ps)
           D == 1..n
           UpToIt(i) == {k \in D : ps[k].module <= ps[i].module}
           rank == [i \in D |-> Cardinality(UpToIt(i))]
           f == [m \in D |-> CHOOSE i \in D : rank[i] = m]
<1>1. DOMAIN ps = D /\ n \in Nat
  OBVIOUS
<1>2. \A i \in D : ps[i].module \in Nat
  <2>1. \A i \in D : ps[i] \in Package
    OBVIOUS
  <2> QED
    BY <2>1, PackageNumbers
<1>3. \A i, j \in D : ps[i].module = ps[j].module => i = j
  BY DEF Distinct
<1>4. IsFiniteSet(D) /\ Cardinality(D) = n
  <2>1. IsFiniteSet(1..n)
    BY <1>1, FS_Interval
  <2> QED
    BY <1>1, <2>1, UpToSize
<1> HIDE DEF D, n
<1>5. ASSUME NEW i \in D PROVE IsFiniteSet(UpToIt(i)) /\ rank[i] = Cardinality(UpToIt(i)) /\ rank[i] \in D
  <2>1. UpToIt(i) \in SUBSET D /\ i \in UpToIt(i)
    BY <1>2
  <2>2. IsFiniteSet(UpToIt(i)) /\ Cardinality(UpToIt(i)) <= n
    BY <1>4, <2>1, FS_Subset
  <2>3. Cardinality(UpToIt(i)) \in Nat /\ Cardinality(UpToIt(i)) # 0
    BY <2>1, <2>2, FS_CardinalityType, FS_EmptySet
  <2>4. rank[i] = Cardinality(UpToIt(i))
    OBVIOUS
  <2>5. Cardinality(UpToIt(i)) \in 1..n
    BY <1>1, <2>2, <2>3
  <2> QED
    BY <2>2, <2>4, <2>5 DEF D
<1>6. ASSUME NEW i \in D, NEW j \in D, ps[i].module < ps[j].module PROVE rank[i] < rank[j]
  <2>1. UpToIt(i) \in SUBSET UpToIt(j) /\ j \in UpToIt(j) /\ j \notin UpToIt(i)
    BY <1>2, <1>6
  <2>2. IsFiniteSet(UpToIt(j)) /\ IsFiniteSet(UpToIt(i))
    BY <1>5
  <2>3. Cardinality(UpToIt(i)) <= Cardinality(UpToIt(j)) /\ Cardinality(UpToIt(i)) # Cardinality(UpToIt(j))
    BY <2>1, <2>2, FS_Subset
  <2>4. Cardinality(UpToIt(i)) \in Nat /\ Cardinality(UpToIt(j)) \in Nat
    BY <2>2, FS_CardinalityType
  <2> HIDE DEF UpToIt
  <2> QED
    BY <1>5, <2>3, <2>4
<1> HIDE DEF rank
<1>7. \A i \in D : rank[i] \in Nat
  <2>1. \A m \in D : m \in Nat
    BY <1>1 DEF D
  <2> QED
    BY <1>5, <2>1
<1>8. \A i, j \in D : rank[i] = rank[j] => i = j
  <2> SUFFICES ASSUME NEW i \in D, NEW j \in D, rank[i] = rank[j] PROVE i = j
    OBVIOUS
  <2>1. ~(ps[i].module < ps[j].module) /\ ~(ps[j].module < ps[i].module)
    BY <1>6, <1>7
  <2> QED
    BY <1>2, <1>3, <2>1
<1>9. \A m \in D : \E i \in D : rank[i] = m
  <2>1. rank \in [D -> D]
    BY <1>5 DEF rank
  <2>2. rank \in Injection(D, D)
    BY <1>8, <2>1 DEF Injection, IsInjective
  <2>3. rank \in Surjection(D, D)
    BY <1>4, <2>2, FS_Injection
  <2> QED
    BY <2>3 DEF Surjection
<1>10. \A m \in D : f[m] \in D /\ rank[f[m]] = m
  BY <1>9
<1>11. f \in [D -> D]
  BY <1>9
<1> HIDE DEF f
<1>12. f \in Bijection(D, D)
  <2>1. \A i \in D : f[rank[i]] = i
    BY <1>5, <1>8, <1>10
  <2>2. f \in Surjection(D, D)
    BY <1>5, <1>11, <2>1 DEF Surjection
  <2>3. \A m, l \in D : f[m] = f[l] => m = l
    BY <1>10
  <2>4. f \in Injection(D, D)
    BY <1>11, <2>3 DEF Injection, IsInjective
  <2> QED
    BY <2>2, <2>4 DEF Bijection
<1>13. ASSUME NEW i \in D, NEW j \in D, i < j PROVE ps[f[i]].module < ps[f[j]].module
  <2>1. f[i] \in D /\ f[j] \in D /\ rank[f[i]] < rank[f[j]]
    BY <1>10, <1>13
  <2>2. ~(ps[f[j]].module < ps[f[i]].module) /\ f[i] # f[j]
    <3>1. rank[f[i]] \in Nat /\ rank[f[j]] \in Nat
      BY <1>7, <2>1
    <3> QED
      BY <1>6, <2>1, <3>1
  <2>3. ps[f[i]].module # ps[f[j]].module
    BY <1>3, <2>1, <2>2
  <2> QED
    BY <1>2, <2>1, <2>2, <2>3
<1> QED
  BY <1>1, <1>12, <1>13

LEMMA SortedIs ==
  ASSUME NEW ps \in Seq(Package), Distinct(ps)
  PROVE  /\ Sorted(ps) \in Seq(Package) /\ Len(Sorted(ps)) = Len(ps)
         /\ \A i \in 1..Len(ps) : \E j \in 1..Len(ps) : ps[i] = Sorted(ps)[j]
         /\ \A i, j \in 1..Len(ps) : i < j => Sorted(ps)[i].module < Sorted(ps)[j].module
<1> DEFINE D == DOMAIN ps
           Arrangements == {[i \in D |-> ps[f[i]]] : f \in Bijection(D, D)}
           InOrder(qs) == \A i, j \in D : i < j => ~Before(qs[j], qs[i])
<1>1. D = 1..Len(ps) /\ Len(ps) \in Nat /\ \A i \in D : ps[i] \in Package
  OBVIOUS
<1>2. Sorted(ps) = CHOOSE qs \in Arrangements : InOrder(qs)
  BY DEF Sorted
<1>3. \A i \in D : ps[i].module \in Nat /\ ps[i].version \in Nat
  BY <1>1, PackageNumbers
<1>4. \A i, j \in D : ps[i].module = ps[j].module => i = j
  BY DEF Distinct
<1>5. PICK f \in Bijection(D, D) : \A i, j \in D : i < j => ps[f[i]].module < ps[f[j]].module
  BY ArrangementExists
<1> HIDE DEF D
<1>6. [i \in D |-> ps[f[i]]] \in Arrangements
  OBVIOUS
<1>7. InOrder([i \in D |-> ps[f[i]]])
  <2> DEFINE qs == [i \in D |-> ps[f[i]]]
  <2> SUFFICES ASSUME NEW i \in D, NEW j \in D, i < j PROVE ~Before(qs[j], qs[i])
    OBVIOUS
  <2>1. qs[i] = ps[f[i]] /\ qs[j] = ps[f[j]]
    OBVIOUS
  <2>2. f[i] \in D /\ f[j] \in D
    BY <1>5 DEF Bijection, Injection
  <2>3. ps[f[i]].module < ps[f[j]].module /\ ps[f[i]].module \in Nat /\ ps[f[j]].module \in Nat
    BY <1>3, <1>5, <2>2
  <2> HIDE DEF qs
  <2> QED
    BY <2>1, <2>3 DEF Before
<1> HIDE DEF Arrangements, InOrder
<1>8. Sorted(ps) \in Arrangements /\ InOrder(Sorted(ps))
  BY <1>2, <1>6, <1>7
<1> USE DEF Arrangements, InOrder
<1>9. PICK g \in Bijection(D, D) : Sorted(ps) = [i \in D |-> ps[g[i]]]
  BY <1>8
<1>10. /\ \A i \in D : g[i] \in D /\ Sorted(ps)[i] = ps[g[i]]
       /\ \A i, j \in D : g[i] = g[j] => i = j
       /\ \A i \in D : \E j \in D : g[j] = i
  BY <1>9 DEF Bijection, Injection, Surjection, IsInjective
<1>11. Sorted(ps) \in [1..Len(ps) -> Package]
  BY <1>1, <1>9, <1>10
<1>12. Sorted(ps) \in Seq(Package) /\ Len(Sorted(ps)) = Len(ps)
  BY <1>1, <1>11
<1>13. \A i \in D : \E j \in D : ps[i] = Sorted(ps)[j]
  BY <1>10
<1>14. ASSUME NEW i \in D, NEW j \in D, i < j PROVE Sorted(ps)[i].module < Sorted(ps)[j].module
  <2>1. ~Before(Sorted(ps)[j], Sorted(ps)[i])
    BY <1>8, <1>14
  <2>2. g[i] \in D /\ g[j] \in D /\ g[i] # g[j]
    BY <1>1, <1>10, <1>14
  <2>3. ps[g[i]].module # ps[g[j]].module /\ ps[g[i]].module \in Nat /\ ps[g[j]].module \in Nat
    BY <1>3, <1>4, <2>2
  <2>4. ~(ps[g[j]].module < ps[g[i]].module)
    BY <1>10, <2>1 DEF Before
  <2> QED
    BY <1>10, <2>3, <2>4
<1> QED
  BY <1>1, <1>12, <1>13, <1>14

\* A document Encode wrote is read as the packages, in order.
LEMMA ReadEncode ==
  ASSUME NEW ps \in Seq(Package), Distinct(ps)
  PROVE  LET d == ReadLines(Preamble \o Encode(ps)) IN
         /\ Encode(ps) \in Seq(Line)
         /\ Whole(d) /\ ~d.err
         /\ d.out \o d.cur = [i \in 1..Len(ps) |-> Back(Sorted(ps)[i])]
<1> DEFINE qs == Sorted(ps)
           N == Len(ps)
           pieces == [i \in DOMAIN qs |-> writeEntry(qs[i])]
<1>1. N \in Nat /\ qs \in Seq(Package) /\ Len(qs) = N /\ \A i \in 1..N : qs[i] \in Package
  BY SortedIs
<1>2. Encode(ps) = FlattenSeq(pieces)
  BY DEF Encode
<1> HIDE DEF qs, N
<1>3. \A i \in 1..N : writeEntry(qs[i]) \in Seq(Line)
  BY <1>1, ReadPreamble, ReadBlock
<1>4. pieces \in Seq(Seq(Line)) /\ Len(pieces) = N /\ \A i \in 1..N : pieces[i] = writeEntry(qs[i])
  <2>1. DOMAIN qs = 1..N
    BY <1>1
  <2>2. pieces \in [1..N -> Seq(Line)] /\ \A i \in 1..N : pieces[i] = writeEntry(qs[i])
    BY <1>3, <2>1
  <2> QED
    BY <1>1, <2>2
<1> HIDE DEF pieces
<1>5. PICK f : /\ Flattens(f, pieces)
               /\ \A n \in 0..N : f[n] \in Seq(Line)
               /\ FlattenSeq(pieces) = f[N]
  BY <1>4, FlattenRuns
<1> DEFINE backs(n) == [i \in 1..n |-> Back(qs[i])]
           Reads(d, n) == Whole(d) /\ ~d.err /\ d.out \o d.cur = backs(n)
           Good == {n \in 0..N : Reads(ReadLines(Preamble \o f[n]), n)}
<1>6. 0 \in Good
  <2>1. Preamble \o f[0] = Preamble
    BY <1>5, ReadPreamble DEF Flattens
  <2> DEFINE d == ReadLines(Preamble)
  <2>2. DOMAIN d = {"out", "cur", "err"} /\ d.out = <<>> /\ d.cur = <<>> /\ ~d.err
    BY ReadPreamble DEF State
  <2> HIDE DEF d
  <2>3. Whole(d) /\ ~d.err
    BY <2>2 DEF Whole
  <2>4. d.out \o d.cur = backs(0)
    BY <2>2
  <2>5. Reads(d, 0)
    BY <2>3, <2>4
  <2>6. 0 \in 0..N
    BY <1>1
  <2> HIDE DEF Reads
  <2> QED
    BY <2>1, <2>5, <2>6 DEF d
<1>7. ASSUME NEW n \in 1..N, n - 1 \in Good PROVE n \in Good
  <2> DEFINE lines == Preamble \o f[n - 1]
             p == qs[n]
             d == ReadLines(lines)
             e == ReadLines(lines \o writeEntry(p))
  <2>1. n \in Nat /\ n - 1 \in 0..N /\ n \in 0..N /\ p \in Package
    BY <1>1
  <2>2. Reads(d, n - 1)
    BY <1>7
  <2>3. lines \in Seq(Line)
    BY <1>5, <2>1, ReadPreamble
  <2>4. Preamble \o f[n] = lines \o writeEntry(p)
    <3>1. f[n] = f[n - 1] \o writeEntry(p)
      BY <1>4, <1>5, <2>1 DEF Flattens
    <3>2. f[n - 1] \in Seq(Line) /\ writeEntry(p) \in Seq(Line) /\ Preamble \in Seq(Line)
      BY <1>3, <1>5, <2>1, ReadPreamble
    <3>3. (Preamble \o f[n - 1]) \o writeEntry(p) = Preamble \o (f[n - 1] \o writeEntry(p))
      BY <3>2, LinesAssociative
    <3> QED
      BY <3>1, <3>3
  <2> HIDE DEF lines, d, e, p
  <2>5. State(d, d.out, d.cur)
    BY <2>2 DEF Whole, State
  <2>6. State(e, d.out \o d.cur, <<Back(p)>>)
    BY <2>1, <2>3, <2>5, ReadBlock DEF d, e
  <2>7. d.out \o d.cur \in Seq(Package) /\ Back(p) \in Package
    BY <2>1, <2>2, WholeFlush, BackType
  <2>8. Whole(e) /\ ~e.err
    BY <2>6, <2>7 DEF Whole, State
  <2>9. e.out \o e.cur = backs(n)
    <3> DEFINE x == d.out \o d.cur
               y == Back(p)
    <3>1. x = backs(n - 1) /\ y = Back(qs[n])
      BY <2>2 DEF p
    <3>2. e.out \o e.cur = x \o <<y>>
      BY <2>6 DEF State
    <3>3. x \in Seq(Package) /\ y \in Package
      BY <2>7
    <3> HIDE DEF x, y
    <3>4. e.out \o e.cur = Append(x, y)
      BY <3>2, <3>3
    <3>5. Append(backs(n - 1), Back(qs[n])) = backs(n)
      BY <2>1
    <3> QED
      BY <3>1, <3>4, <3>5
  <2>10. Reads(e, n)
    BY <2>8, <2>9
  <2> HIDE DEF Reads
  <2> QED
    BY <2>1, <2>4, <2>10 DEF e
<1>8. Reads(ReadLines(Preamble \o f[N]), N)
  <2> HIDE DEF Good, Reads
  <2>1. \A n \in 0..N : n \in Good
    BY <1>1, <1>6, <1>7, UpTo
  <2>2. N \in Good
    BY <1>1, <2>1
  <2> QED
    BY <2>2 DEF Good
<1>9. Encode(ps) = f[N] /\ Encode(ps) \in Seq(Line)
  BY <1>1, <1>2, <1>5
<1> QED
  BY <1>8, <1>9 DEF N, qs

-------------------------------------------------------------------------------
(* Lists compared as bags *)

LEMMA CountType ==
  ASSUME NEW T, NEW a \in Seq(T), NEW x
  PROVE  /\ IsFiniteSet({i \in DOMAIN a : a[i] = x}) /\ Count(a, x) \in Nat
         /\ Count(a, x) # 0 <=> x \in ToSet(a)
<1> DEFINE at == {i \in DOMAIN a : a[i] = x}
<1>1. IsFiniteSet(DOMAIN a)
  <2>1. DOMAIN a = 1..Len(a) /\ Len(a) \in Nat
    OBVIOUS
  <2> QED
    BY <2>1, FS_Interval
<1>2. at \in SUBSET DOMAIN a /\ (at # {} <=> x \in ToSet(a))
  BY DEF ToSet
<1> HIDE DEF at
<1>3. IsFiniteSet(at)
  BY <1>1, <1>2, FS_Subset
<1>4. Cardinality(at) \in Nat /\ (Cardinality(at) = 0 <=> at = {})
  BY <1>3, FS_CardinalityType, FS_EmptySet
<1> QED
  BY <1>2, <1>3, <1>4 DEF at, Count

LEMMA DisjointUnion ==
  ASSUME NEW S, IsFiniteSet(S), NEW T, IsFiniteSet(T), S \cap T = {}
  PROVE  Cardinality(S \cup T) = Cardinality(S) + Cardinality(T)
<1>1. Cardinality(S \cup T) = Cardinality(S) + Cardinality(T) - Cardinality(S \cap T)
  BY FS_Union
<1>2. Cardinality(S \cap T) = 0
  BY FS_EmptySet
<1>3. Cardinality(S) \in Nat /\ Cardinality(T) \in Nat
  BY FS_CardinalityType
<1> QED
  BY <1>1, <1>2, <1>3

\* Lists of the same elements, each as often in one as in the other, are equally long.
LEMMA CountsGiveLength ==
  ASSUME NEW T, NEW a \in Seq(T), NEW b \in Seq(T), ToSet(a) = ToSet(b),
         \A x \in ToSet(a) : Count(a, x) = Count(b, x)
  PROVE  Len(a) = Len(b)
<1> DEFINE V == ToSet(a)
           m == Cardinality(V)
<1>1. /\ Len(a) \in Nat /\ DOMAIN a = 1..Len(a) /\ IsFiniteSet(DOMAIN a)
      /\ Len(b) \in Nat /\ DOMAIN b = 1..Len(b) /\ IsFiniteSet(DOMAIN b)
  BY FS_Interval
<1>2. IsFiniteSet(V)
  <2>1. a \in Surjection(DOMAIN a, V)
    BY DEF Surjection, ToSet
  <2> QED
    BY <1>1, <2>1, FS_Surjection
<1>3. m \in Nat /\ \E v : v \in [1..m -> V] /\ \A x \in V : \E k \in 1..m : v[k] = x
  <2>1. PICK v : v \in Bijection(1..m, V)
    BY <1>2, FS_CardinalityType DEF ExistsBijection
  <2> QED
    BY <1>2, <2>1, FS_CardinalityType DEF Bijection, Injection, Surjection
<1>4. PICK v : v \in [1..m -> V] /\ \A x \in V : \E k \in 1..m : v[k] = x
  BY <1>3
<1> DEFINE First(k) == {v[l] : l \in 1..k}
           At(s, k) == {i \in DOMAIN s : s[i] \in First(k)}
           One(s, k) == {i \in DOMAIN s : s[i] = v[k]}
           Good == {k \in 0..m : Cardinality(At(a, k)) = Cardinality(At(b, k))}
<1>5. \A k \in 1..m : v[k] \in V
  BY <1>4
<1> HIDE DEF m, V
<1>6. \A k \in 0..m : IsFiniteSet(At(a, k)) /\ IsFiniteSet(At(b, k))
  <2> SUFFICES ASSUME NEW k \in 0..m PROVE IsFiniteSet(At(a, k)) /\ IsFiniteSet(At(b, k))
    OBVIOUS
  <2>1. At(a, k) \in SUBSET DOMAIN a /\ At(b, k) \in SUBSET DOMAIN b
    OBVIOUS
  <2> HIDE DEF At
  <2> QED
    BY <1>1, <2>1, FS_Subset
<1>7. 0 \in Good
  <2>1. At(a, 0) = {} /\ At(b, 0) = {}
    OBVIOUS
  <2>2. 0 \in 0..m
    BY <1>3 DEF m
  <2> HIDE DEF At
  <2> QED
    BY <2>1, <2>2
<1>8. ASSUME NEW k \in 1..m, k - 1 \in Good PROVE k \in Good
  <2>1. k \in 0..m /\ k - 1 \in 0..m /\ k \in Nat
    BY <1>3 DEF m
  <2>2. \A l \in 1..k : l = k \/ l \in 1..(k - 1)
    BY <2>1
  <2>3. First(k) = First(k - 1) \cup {v[k]}
    <3>1. k \in 1..k /\ \A l \in 1..(k - 1) : l \in 1..k
      BY <2>1
    <3> QED
      BY <2>2, <3>1
  <2>4. CASE v[k] \in First(k - 1)
    <3>1. At(a, k) = At(a, k - 1) /\ At(b, k) = At(b, k - 1)
      BY <2>3, <2>4
    <3> HIDE DEF At
    <3> QED
      BY <1>8, <2>1, <3>1
  <2>5. CASE v[k] \notin First(k - 1)
    <3>1. /\ At(a, k) = At(a, k - 1) \cup One(a, k) /\ At(a, k - 1) \cap One(a, k) = {}
          /\ At(b, k) = At(b, k - 1) \cup One(b, k) /\ At(b, k - 1) \cap One(b, k) = {}
      BY <2>3, <2>5
    <3>2. IsFiniteSet(One(a, k)) /\ IsFiniteSet(One(b, k))
      BY CountType
    <3>3. Cardinality(One(a, k)) = Cardinality(One(b, k))
      <4>1. Count(a, v[k]) = Count(b, v[k])
        BY <1>5 DEF V
      <4> QED
        BY <4>1 DEF Count
    <3>4. IsFiniteSet(At(a, k - 1)) /\ IsFiniteSet(At(b, k - 1))
      BY <1>6, <2>1
    <3>5. Cardinality(At(a, k - 1)) = Cardinality(At(b, k - 1))
      BY <1>8
    <3> HIDE DEF At, One
    <3>6. Cardinality(At(a, k)) = Cardinality(At(a, k - 1)) + Cardinality(One(a, k))
      BY <3>1, <3>2, <3>4, DisjointUnion
    <3>7. Cardinality(At(b, k)) = Cardinality(At(b, k - 1)) + Cardinality(One(b, k))
      BY <3>1, <3>2, <3>4, DisjointUnion
    <3>8. Cardinality(At(a, k)) = Cardinality(At(b, k))
      BY <3>3, <3>5, <3>6, <3>7
    <3> QED
      BY <2>1, <3>8
  <2> QED
    BY <2>4, <2>5
<1>9. Cardinality(At(a, m)) = Cardinality(At(b, m))
  <2> HIDE DEF Good
  <2>1. \A k \in 0..m : k \in Good
    BY <1>3, <1>7, <1>8, UpTo DEF m
  <2>2. m \in Good
    BY <1>3, <2>1 DEF m
  <2> QED
    BY <2>2 DEF Good
<1>10. At(a, m) = DOMAIN a /\ At(b, m) = DOMAIN b
  <2>1. \A x \in V : x \in First(m)
    BY <1>4
  <2>2. (\A i \in DOMAIN a : a[i] \in V) /\ \A i \in DOMAIN b : b[i] \in V
    BY DEF V, ToSet
  <2> HIDE DEF First
  <2> QED
    BY <2>1, <2>2
<1>11. Cardinality(DOMAIN a) = Cardinality(DOMAIN b)
  BY <1>9, <1>10
<1>12. Cardinality(DOMAIN a) = Len(a) /\ Cardinality(DOMAIN b) = Len(b)
  <2>1. Cardinality(1..Len(a)) = Len(a)
    BY <1>1, UpToSize
  <2>2. Cardinality(1..Len(b)) = Len(b)
    BY <1>1, UpToSize
  <2> QED
    BY <1>1, <2>1, <2>2
<1> QED
  BY <1>11, <1>12

LEMMA EqualIsSameBag ==
  ASSUME NEW T, NEW a \in Seq(T), NEW b \in Seq(T)
  PROVE  equalStringSet(a, b) <=>
           [x \in ToSet(a) |-> Count(a, x)] = [x \in ToSet(b) |-> Count(b, x)]
<1> DEFINE A == [x \in ToSet(a) |-> Count(a, x)]
           B == [x \in ToSet(b) |-> Count(b, x)]
<1>1. \A x : /\ (Count(a, x) # 0 <=> x \in ToSet(a))
             /\ (Count(b, x) # 0 <=> x \in ToSet(b))
  BY CountType
<1>2. ASSUME equalStringSet(a, b) PROVE A = B
  <2>1. \A x \in ToSet(a) \cup ToSet(b) : Count(a, x) = Count(b, x)
    BY <1>2 DEF equalStringSet
  <2>2. ToSet(a) = ToSet(b)
    BY <1>1, <2>1
  <2> QED
    BY <2>1, <2>2
<1>3. ASSUME A = B PROVE equalStringSet(a, b)
  <2>1. DOMAIN A = ToSet(a) /\ DOMAIN B = ToSet(b)
    OBVIOUS
  <2>2. ToSet(a) = ToSet(b)
    BY <1>3, <2>1
  <2>3. \A x \in ToSet(a) : A[x] = Count(a, x) /\ B[x] = Count(b, x)
    BY <2>2
  <2>4. \A x \in ToSet(a) : Count(a, x) = Count(b, x)
    BY <1>3, <2>3
  <2>5. Len(a) = Len(b)
    BY <2>2, <2>4, CountsGiveLength
  <2> QED
    BY <2>2, <2>4, <2>5 DEF equalStringSet
<1> QED
  BY <1>2, <1>3
-------------------------------------------------------------------------------
(* The inductive invariant *)

\* A module is imported once; the packages are whole ones.
LiveInv == live \in Seq(Package) /\ Distinct(live)

\* Whatever was merged into the document or appended to it, reading it to its end
\* leaves whole packages.
DocInv == doc \in Seq(Line) /\ Whole(ReadLines(doc))

IInv == edits \in 0..MaxEdits /\ LiveInv /\ DocInv

LEMMA MaxEditsType == MaxEdits \in Nat
BY ValuesAssumption

LEMMA InitIInv == Init => IInv
<1> SUFFICES ASSUME Init PROVE IInv
  OBVIOUS
<1>1. live = <<>> /\ doc = Preamble /\ edits = 0
  BY DEF Init
<1>2. 0 \in 0..MaxEdits
  BY MaxEditsType
<1>3. LiveInv
  BY <1>1 DEF LiveInv, Distinct
<1>4. Whole(ReadLines(Preamble))
  BY ReadPreamble DEF State, Whole
<1>5. DocInv
  BY <1>1, <1>4, ReadPreamble DEF DocInv
<1> QED
  BY <1>1, <1>2, <1>3, <1>5 DEF IInv

LEMMA EditBound ==
  ASSUME edits \in 0..MaxEdits, Edit
  PROVE  edits' \in 0..MaxEdits
BY MaxEditsType DEF Edit

\* Another value for one package of the same module.
LEMMA ReplaceKeeps ==
  ASSUME NEW ps \in Seq(Package), Distinct(ps), NEW i \in DOMAIN ps,
         NEW q \in Package, q.module = ps[i].module,
         NEW after, after = [ps EXCEPT ![i] = q]
  PROVE  after \in Seq(Package) /\ Distinct(after)
<1>1. after \in Seq(Package) /\ DOMAIN after = DOMAIN ps
  OBVIOUS
<1>2. \A j \in DOMAIN ps : after[j].module = ps[j].module
  OBVIOUS
<1> QED
  BY <1>1, <1>2 DEF Distinct

LEMMA ImportKeeps ==
  ASSUME LiveInv, NEW p \in NewPackages, Import(p)
  PROVE  LiveInv'
<1>1. p \in Package /\ live \in Seq(Package) /\ live' = Append(live, p)
  BY ValuesAssumption DEF LiveInv, Import
<1>2. live' \in Seq(Package) /\ Len(live') = Len(live) + 1 /\ live'[Len(live) + 1] = p
  BY <1>1
<1>3. \A i \in 1..Len(live) : live'[i] = live[i]
  BY <1>1
<1>4. \A i \in 1..Len(live) : live[i].module # p.module
  BY <1>1 DEF Import, Names
<1>5. \A i \in DOMAIN live' : i \in 1..Len(live) \/ i = Len(live) + 1
  BY <1>1, <1>2
<1>6. Distinct(live')
  <2> SUFFICES ASSUME NEW i \in DOMAIN live', NEW j \in DOMAIN live',
                      live'[i].module = live'[j].module
               PROVE  i = j
    BY DEF Distinct
  <2>1. CASE i \in 1..Len(live) /\ j \in 1..Len(live)
    BY <1>1, <1>3, <2>1 DEF LiveInv, Distinct
  <2>2. CASE ~(i \in 1..Len(live) /\ j \in 1..Len(live))
    BY <1>2, <1>3, <1>4, <1>5, <2>2
  <2> QED
    BY <2>1, <2>2
<1> QED
  BY <1>2, <1>6 DEF LiveInv

LEMMA TailElements ==
  ASSUME NEW T, NEW s \in Seq(T), NEW i \in 1..Len(s)
  PROVE  \A j \in 1..(Len(s) - i) : SubSeq(s, i + 1, Len(s))[j] = s[i + j]
<1> SUFFICES ASSUME NEW j \in 1..(Len(s) - i)
             PROVE  SubSeq(s, i + 1, Len(s))[j] = s[i + j]
  OBVIOUS
<1>1. i + 1 + j - 1 = i + j /\ j \in 1..(Len(s) - (i + 1) + 1)
  OBVIOUS
<1> QED
  BY <1>1

LEMMA DropKeeps ==
  ASSUME LiveInv, NEW i \in DOMAIN live, Drop(i)
  PROVE  LiveInv'
<1> DEFINE n == Len(live)
           head == SubSeq(live, 1, i - 1)
           tail == SubSeq(live, i + 1, n)
<1>1. live \in Seq(Package) /\ n \in Nat /\ i \in 1..n /\ live' = head \o tail
  BY DEF LiveInv, Drop, RemoveAt
<1>2. head \in Seq(Package) /\ Len(head) = i - 1 /\ \A j \in 1..(i - 1) : head[j] = live[j]
  BY <1>1
<1>3. tail \in Seq(Package) /\ Len(tail) = n - i /\ \A j \in 1..(n - i) : tail[j] = live[i + j]
  <2>1. tail \in Seq(Package)
    BY <1>1
  <2>2. Len(tail) = n - i
    BY <1>1
  <2>3. \A j \in 1..(n - i) : tail[j] = live[i + j]
    BY <1>1, TailElements
  <2> QED
    BY <2>1, <2>2, <2>3
<1> HIDE DEF head, tail, n
<1>4. live' \in Seq(Package) /\ Len(live') = n - 1
  <2>1. Len(head \o tail) = Len(head) + Len(tail) /\ head \o tail \in Seq(Package)
    BY <1>2, <1>3, ConcatProperties
  <2> QED
    BY <1>1, <1>2, <1>3, <2>1
<1>5. \A j \in 1..(n - 1) : live'[j] = live[IF j < i THEN j ELSE j + 1]
  <2> SUFFICES ASSUME NEW j \in 1..(n - 1) PROVE live'[j] = live[IF j < i THEN j ELSE j + 1]
    OBVIOUS
  <2>1. CASE j < i
    <3>1. j \in 1..(i - 1)
      BY <1>1, <2>1
    <3>2. live'[j] = head[j]
      BY <1>1, <1>2, <1>3, <3>1
    <3> QED
      BY <1>2, <2>1, <3>1, <3>2
  <2>2. CASE ~(j < i)
    <3>1. j - (i - 1) \in 1..(n - i) /\ i + (j - (i - 1)) = j + 1
      BY <1>1, <2>2
    <3>2. live'[j] = tail[j - (i - 1)]
      <4>1. j \in 1..Len(live') /\ ~(j <= Len(head))
        BY <1>1, <1>2, <1>4, <2>2
      <4>2. \A x \in 1..(Len(head) + Len(tail)) :
              (head \o tail)[x] = IF x <= Len(head) THEN head[x] ELSE tail[x - Len(head)]
        BY <1>2, <1>3, ConcatProperties, Zenon
      <4>3. j \in 1..(Len(head) + Len(tail))
        BY <1>1, <1>2, <1>3
      <4> QED
        BY <1>1, <1>2, <4>1, <4>2, <4>3
    <3> QED
      BY <1>3, <2>2, <3>1, <3>2
  <2> QED
    BY <2>1, <2>2
<1>6. DOMAIN live' = 1..(n - 1)
  BY <1>4
<1>7. Distinct(live')
  <2> DEFINE at(j) == IF j < i THEN j ELSE j + 1
  <2> SUFFICES ASSUME NEW j \in 1..(n - 1), NEW k \in 1..(n - 1),
                      live'[j].module = live'[k].module
               PROVE  j = k
    BY <1>6, Zenon DEF Distinct
  <2>1. at(j) \in DOMAIN live /\ at(k) \in DOMAIN live
    BY <1>1 DEF n
  <2>2. live[at(j)].module = live[at(k)].module
    BY <1>5
  <2>3. at(j) = at(k)
    <3> HIDE DEF at
    <3> QED
      BY <2>1, <2>2 DEF LiveInv, Distinct
  <2> QED
    BY <1>1, <2>3
<1> QED
  BY <1>4, <1>7 DEF LiveInv

LEMMA ChangeKeeps ==
  ASSUME LiveInv, NEW i \in DOMAIN live,
         \/ \E v \in Versions : Upgrade(i, v)
         \/ \E k \in Hashes, d \in Digests : Refresh(i, k, d)
         \/ \E c \in CapLists : Redeclare(i, c)
  PROVE  LiveInv'
<1>1. live \in Seq(Package) /\ Distinct(live) /\ live[i] \in Package
  BY DEF LiveInv
<1>2. \E q \in Package : q.module = live[i].module /\ live' = [live EXCEPT ![i] = q]
  <2>1. ASSUME NEW v \in Versions, Upgrade(i, v)
        PROVE  \E q \in Package : q.module = live[i].module /\ live' = [live EXCEPT ![i] = q]
    <3> DEFINE q == [live[i] EXCEPT !.version = v]
    <3>1. q \in Package /\ q.module = live[i].module
      BY <1>1 DEF Package
    <3>2. live' = [live EXCEPT ![i] = q]
      BY <2>1 DEF Upgrade
    <3> HIDE DEF q
    <3> QED
      BY <3>1, <3>2
  <2>2. ASSUME NEW k \in Hashes, NEW d \in Digests, Refresh(i, k, d)
        PROVE  \E q \in Package : q.module = live[i].module /\ live' = [live EXCEPT ![i] = q]
    <3> DEFINE q == [live[i] EXCEPT ![k] = d]
    <3>1. q \in Package /\ q.module = live[i].module
      <4>1. CASE k = "zip"
        BY <1>1, <4>1 DEF Package
      <4>2. CASE k = "sumdb"
        BY <1>1, <4>2 DEF Package
      <4>3. CASE k = "api"
        BY <1>1, <4>3 DEF Package
      <4>4. CASE k = "wrapper"
        BY <1>1, <4>4 DEF Package
      <4> QED
        BY <4>1, <4>2, <4>3, <4>4 DEF Hashes
    <3>2. live' = [live EXCEPT ![i] = q]
      BY <2>2 DEF Refresh
    <3> HIDE DEF q
    <3> QED
      BY <3>1, <3>2
  <2>3. ASSUME NEW c \in CapLists, Redeclare(i, c)
        PROVE  \E q \in Package : q.module = live[i].module /\ live' = [live EXCEPT ![i] = q]
    <3> DEFINE q == [live[i] EXCEPT !.caps = c]
    <3>1. q \in Package /\ q.module = live[i].module
      BY <1>1 DEF Package
    <3>2. live' = [live EXCEPT ![i] = q]
      BY <2>3 DEF Redeclare
    <3> HIDE DEF q
    <3> QED
      BY <3>1, <3>2
  <2> QED
    BY <2>1, <2>2, <2>3
<1>3. PICK q \in Package : q.module = live[i].module /\ live' = [live EXCEPT ![i] = q]
  BY <1>2
<1>4. live' \in Seq(Package) /\ Distinct(live')
  BY <1>1, <1>3, ReplaceKeeps
<1> QED
  BY <1>4 DEF LiveInv
\* A line that is appended by hand.
HandLines ==
  {[k |-> "version", v |-> v] : v \in Versions} \cup
  {[k |-> k, v |-> ""] : k \in {Skipped, NoEq, Malformed, "since"}}

LEMMA HandLineType ==
  ASSUME NEW l \in HandLines
  PROVE  /\ l \in Line
         /\ l.k \in {Skipped, NoEq, Malformed, "since"} \/ (l.k = "version" /\ l.v \in Versions)
<1>1. "" \in Value /\ "version" \in KeySet
  BY ValuesAssumption, KeysAre DEF Value
<1>2. Versions \subseteq Value
  BY ValuesAssumption DEF Value
<1>3. CASE l \in {[k |-> "version", v |-> v] : v \in Versions}
  <2>1. PICK v \in Versions : l = [k |-> "version", v |-> v]
    BY <1>3
  <2>2. "version" \in KeySet /\ v \in Value
    BY <1>1, <1>2
  <2> HIDE DEF KeySet, Value
  <2> QED
    BY <2>1, <2>2 DEF Line
<1>4. CASE l \in {[k |-> k, v |-> ""] : k \in {Skipped, NoEq, Malformed, "since"}}
  <2>1. PICK k \in {Skipped, NoEq, Malformed, "since"} : l = [k |-> k, v |-> ""]
    BY <1>4
  <2>2. k \in KeySet \cup {Header.k, Skipped, NoEq, Malformed, "since"} /\ "" \in Value
    BY <1>1
  <2> HIDE DEF KeySet, Value
  <2> QED
    BY <2>1, <2>2 DEF Line
<1> QED
  BY <1>3, <1>4 DEF HandLines

LEMMA AppendKeeps ==
  ASSUME DocInv, NEW l \in HandLines, doc' = Append(doc, l)
  PROVE  DocInv'
<1>1. l \in Line /\ doc \in Seq(Line) /\ Whole(ReadLines(doc))
  BY HandLineType DEF DocInv
<1>2. doc' \in Seq(Line)
  BY <1>1
<1>3. ReadLines(doc') = DecodeLine(ReadLines(doc), l)
  BY <1>1, ReadAppend
<1>4. Whole(DecodeLine(ReadLines(doc), l))
  BY <1>1, HandLineType, WholeLine
<1> QED
  BY <1>2, <1>3, <1>4 DEF DocInv

LEMMA MergeKeeps ==
  ASSUME DocInv, NEW p \in NewPackages, Merge(p)
  PROVE  DocInv'
<1>1. p \in Package /\ doc \in Seq(Line) /\ Whole(ReadLines(doc)) /\ doc' = doc \o writeEntry(p)
  BY ValuesAssumption DEF DocInv, Merge
<1>2. writeEntry(p) \in Seq(Line) /\ Whole(ReadLines(doc'))
  BY <1>1, WholeBlock
<1>3. doc' \in Seq(Line)
  BY <1>1, <1>2
<1> QED
  BY <1>2, <1>3 DEF DocInv

LEMMA LockKeeps ==
  ASSUME LiveInv, Lock
  PROVE  DocInv'
<1>1. live \in Seq(Package) /\ Distinct(live) /\ doc' = Preamble \o Encode(live)
  BY DEF LiveInv, Lock
<1>2. Encode(live) \in Seq(Line) /\ Whole(ReadLines(doc'))
  BY <1>1, ReadEncode
<1>3. doc' \in Seq(Line)
  BY <1>1, <1>2, ReadPreamble
<1> QED
  BY <1>2, <1>3 DEF DocInv

LEMMA NextIInv == IInv /\ [Next]_vars => IInv'
<1> SUFFICES ASSUME IInv, [Next]_vars PROVE IInv'
  OBVIOUS
<1>1. edits \in 0..MaxEdits /\ LiveInv /\ DocInv
  BY DEF IInv
<1>2. ASSUME NEW p \in NewPackages, Import(p) PROVE IInv'
  <2>1. Edit /\ UNCHANGED doc
    BY <1>2 DEF Import, EditLive
  <2>2. LiveInv'
    BY <1>1, <1>2, ImportKeeps
  <2>3. DocInv'
    BY <1>1, <2>1 DEF DocInv
  <2> QED
    BY <1>1, <2>1, <2>2, <2>3, EditBound DEF IInv
<1>3. ASSUME NEW p \in NewPackages, Merge(p) PROVE IInv'
  <2>1. Edit /\ UNCHANGED live
    BY <1>3 DEF Merge, EditDoc
  <2>2. DocInv'
    BY <1>1, <1>3, MergeKeeps
  <2>3. LiveInv'
    BY <1>1, <2>1 DEF LiveInv
  <2> QED
    BY <1>1, <2>1, <2>2, <2>3, EditBound DEF IInv
<1>4. ASSUME NEW i \in DOMAIN live, Drop(i) PROVE IInv'
  <2>1. Edit /\ UNCHANGED doc
    BY <1>4 DEF Drop, EditLive
  <2>2. LiveInv'
    BY <1>1, <1>4, DropKeeps
  <2>3. DocInv'
    BY <1>1, <2>1 DEF DocInv
  <2> QED
    BY <1>1, <2>1, <2>2, <2>3, EditBound DEF IInv
<1>5. ASSUME NEW i \in DOMAIN live,
             \/ \E v \in Versions : Upgrade(i, v)
             \/ \E k \in Hashes, d \in Digests : Refresh(i, k, d)
             \/ \E c \in CapLists : Redeclare(i, c)
      PROVE  IInv'
  <2>1. Edit /\ UNCHANGED doc
    BY <1>5 DEF Upgrade, Refresh, Redeclare, EditLive
  <2>2. LiveInv'
    BY <1>1, <1>5, ChangeKeeps
  <2>3. DocInv'
    BY <1>1, <2>1 DEF DocInv
  <2> QED
    BY <1>1, <2>1, <2>2, <2>3, EditBound DEF IInv
<1>6. CASE Lock
  <2>1. UNCHANGED <<live, edits>>
    BY <1>6 DEF Lock
  <2>2. DocInv'
    BY <1>1, <1>6, LockKeeps
  <2>3. LiveInv'
    BY <1>1, <2>1 DEF LiveInv
  <2> QED
    BY <1>1, <2>1, <2>2, <2>3 DEF IInv
<1>7. CASE (\E v \in Versions : Repin(v)) \/ Comment \/ Unknown \/ OtherTable \/ Garble
  <2>1. \E l \in HandLines : EditDoc /\ doc' = Append(doc, l)
    <3>1. CASE \E v \in Versions : Repin(v)
      BY <3>1 DEF Repin, HandLines
    <3>2. CASE Comment
      BY <3>2 DEF Comment, HandLines
    <3>3. CASE Unknown
      BY <3>3 DEF Unknown, HandLines
    <3>4. CASE OtherTable
      BY <3>4 DEF OtherTable, HandLines
    <3>5. CASE Garble
      BY <3>5 DEF Garble, HandLines
    <3> QED
      BY <1>7, <3>1, <3>2, <3>3, <3>4, <3>5
  <2>2. Edit /\ UNCHANGED live
    BY <2>1 DEF EditDoc
  <2>3. DocInv'
    BY <1>1, <2>1, AppendKeeps
  <2>4. LiveInv'
    BY <1>1, <2>2 DEF LiveInv
  <2> QED
    BY <1>1, <2>2, <2>3, <2>4, EditBound DEF IInv
<1>8. CASE UNCHANGED vars
  BY <1>1, <1>8 DEF IInv, LiveInv, DocInv, vars
<1> QED
  BY <1>2, <1>3, <1>4, <1>5, <1>6, <1>7, <1>8 DEF Next

LEMMA Invariant == Spec => []IInv
BY InitIInv, NextIInv, PTL DEF Spec
-------------------------------------------------------------------------------
(* The theorems *)

\* The last entry of a module is an entry of that module.
LEMMA ByModIs ==
  ASSUME NEW ps \in Seq(Package), NEW m \in Names(ps)
  PROVE  \E i \in DOMAIN ps : ps[i].module = m /\ ByMod(ps, m) = ps[i]
<1> DEFINE n == Len(ps)
           Of == {i \in 1..n : ps[i].module = m}
           FromEnd == {k \in Nat : \E i \in Of : k = n - i}
           IsLast(i) == ps[i].module = m /\ \A j \in DOMAIN ps : ps[j].module = m => j <= i
<1>1. n \in Nat /\ DOMAIN ps = 1..n
  OBVIOUS
<1>2. PICK i \in Of : TRUE
  BY <1>1 DEF Names
<1>3. n - i \in FromEnd
  <2>1. n - i \in Nat
    BY <1>1
  <2> QED
    BY <2>1
<1>4. PICK k \in FromEnd : \A x \in FromEnd : k <= x
  <2>1. FromEnd \in SUBSET Nat /\ FromEnd # {}
    BY <1>3
  <2> HIDE DEF FromEnd
  <2> QED
    BY <2>1, Least
<1>5. PICK last \in Of : k = n - last
  BY <1>4
<1>6. ASSUME NEW j \in Of PROVE n - j \in FromEnd
  <2>1. j \in 1..n
    OBVIOUS
  <2>2. n - j \in Nat
    <3> HIDE DEF n, Of
    <3> QED
      BY <1>1, <2>1
  <2> QED
    BY <2>2
<1>7. ASSUME NEW j \in Of PROVE j <= last
  <2>1. k <= n - j /\ k = n - last /\ j \in 1..n /\ last \in 1..n
    BY <1>4, <1>5, <1>6
  <2> QED
    BY <1>1, <2>1
<1>8. last \in DOMAIN ps /\ IsLast(last)
  BY <1>1, <1>5, <1>7
<1>9. ByMod(ps, m) = ps[CHOOSE j \in DOMAIN ps : IsLast(j)]
  BY DEF ByMod
<1> DEFINE c == CHOOSE j \in DOMAIN ps : IsLast(j)
<1>10. c \in DOMAIN ps /\ IsLast(c)
  <2> HIDE DEF Last
  <2> QED
    BY <1>8
<1> QED
  BY <1>9, <1>10

\* Entries of one module and version that compare equal are in the same state.
LEMMA SameStateIs ==
  ASSUME NEW p \in Package, NEW q \in Package, p.module = q.module
  PROVE  SameState(p, q) <=> p.version = q.version /\ compareSame(q, p) = {}
<1> DEFINE BagOf(s) == [x \in ToSet(s) |-> Count(s, x)]
<1>1. p.caps \in Seq(STRING) /\ q.caps \in Seq(STRING)
  BY ValuesAssumption DEF Package
<1>2. equalStringSet(q.caps, p.caps) <=> BagOf(q.caps) = BagOf(p.caps)
  BY <1>1, EqualIsSameBag
<1>3. SameState(p, q) <=> /\ p.version = q.version
                          /\ \A k \in Hashes : p[k] = q[k]
                          /\ BagOf(p.caps) = BagOf(q.caps)
  BY DEF SameState
<1>4. compareSame(q, p) = {} <=> /\ \A k \in Hashes : p[k] = q[k]
                                 /\ equalStringSet(q.caps, p.caps)
  BY DEF compareSame
<1> HIDE DEF BagOf
<1> QED
  BY <1>2, <1>3, <1>4

LEMMA SingleIsDistinct ==
  ASSUME NEW ps \in Seq(Package), Cardinality(Names(ps)) = Len(ps)
  PROVE  Distinct(ps)
<1> DEFINE f == [i \in 1..Len(ps) |-> ps[i].module]
<1>1. Len(ps) \in Nat /\ DOMAIN ps = 1..Len(ps)
  OBVIOUS
<1>2. f \in Surjection(1..Len(ps), Names(ps))
  BY <1>1 DEF Surjection, Names
<1>3. IsFiniteSet(1..Len(ps)) /\ Cardinality(1..Len(ps)) = Len(ps)
  BY <1>1, FS_Interval, UpToSize
<1>4. f \in Injection(1..Len(ps), Names(ps))
  <2> HIDE DEF f
  <2> QED
    BY <1>2, <1>3, FS_Surjection
<1>5. \A i, j \in 1..Len(ps) : f[i] = f[j] => i = j
  <2> HIDE DEF f
  <2> QED
    BY <1>4 DEF Injection, IsInjective
<1> QED
  BY <1>1, <1>5 DEF Distinct

\* An open block is finished, and only that.
LEMMA DecodedType ==
  ASSUME DocInv
  PROVE  Decode(doc).out \in Seq(Package) /\ Decode(doc).cur = <<>>
BY WholeFlush DEF DocInv, Decode

LEMMA Reported ==
  ASSUME NEW locked, NEW ps, NEW d
  PROVE  d \in CheckDrift(locked, ps) <=>
           (\E i \in DOMAIN ps : d \in LiveDrifts(locked, ps[i])) \/ d \in StaleDrifts(locked, ps)
BY DEF CheckDrift

\* Nothing is reported exactly if every live package compares equal to the last
\* entry of its module, and there is no entry of another module.
LEMMA NoReport ==
  ASSUME NEW locked, NEW ps
  PROVE  CheckDrift(locked, ps) = {} <=>
           /\ \A i \in DOMAIN ps :
                /\ ps[i].module \in Names(locked)
                /\ ByMod(locked, ps[i].module).version = ps[i].version
                /\ compareSame(ByMod(locked, ps[i].module), ps[i]) = {}
           /\ Names(locked) \subseteq Names(ps)
<1>1. CheckDrift(locked, ps) = {} <=> /\ \A i \in DOMAIN ps : LiveDrifts(locked, ps[i]) = {}
                                      /\ StaleDrifts(locked, ps) = {}
  BY Reported
<1>2. \A i \in DOMAIN ps :
        LiveDrifts(locked, ps[i]) = {} <=>
          /\ ps[i].module \in Names(locked)
          /\ ByMod(locked, ps[i].module).version = ps[i].version
          /\ compareSame(ByMod(locked, ps[i].module), ps[i]) = {}
  BY DEF LiveDrifts
<1>3. StaleDrifts(locked, ps) = {} <=> \A i \in DOMAIN locked : locked[i].module \in Names(ps)
  BY DEF StaleDrifts
<1>4. (\A i \in DOMAIN locked : locked[i].module \in Names(ps)) <=> Names(locked) \subseteq Names(ps)
  BY DEF Names
<1> QED
  BY <1>1, <1>2, <1>3, <1>4

LEMMA DriftsAreOfModules ==
  ASSUME NEW locked, NEW ps, NEW d \in CheckDrift(locked, ps)
  PROVE  d.module \in Names(ps) \cup Names(locked)
<1>1. CASE d \in StaleDrifts(locked, ps)
  <2>1. PICK i \in DOMAIN locked : d = Drift(locked[i], "stale")
    BY <1>1 DEF StaleDrifts
  <2>2. d.module = locked[i].module
    BY <2>1 DEF Drift
  <2> QED
    BY <2>2 DEF Names
<1>2. CASE \E i \in DOMAIN ps : d \in LiveDrifts(locked, ps[i])
  <2>1. PICK i \in DOMAIN ps : d \in LiveDrifts(locked, ps[i])
    BY <1>2
  <2>2. \E kind : d = Drift(ps[i], kind)
    BY <2>1 DEF LiveDrifts
  <2>3. d.module = ps[i].module
    BY <2>2 DEF Drift
  <2> QED
    BY <2>3 DEF Names
<1> QED
  BY <1>1, <1>2, Reported

\* Whatever was imported, edited, merged or broken by hand, Decode finishes the block
\* that is open and returns packages of the types their fields have, and CheckDrift
\* reports on modules that are live or locked only.
THEOREM DecodedIsTyped == Spec => []TypeOK
<1>1. IInv => TypeOK
  <2> SUFFICES ASSUME IInv PROVE TypeOK
    OBVIOUS
  <2>1. edits \in 0..MaxEdits /\ live \in Seq(Package)
    BY DEF IInv, LiveInv
  <2>2. Decode(doc).out \in Seq(Package) /\ Decode(doc).cur = <<>>
    BY DecodedType DEF IInv
  <2>3. \A d \in CheckDrift(Decode(doc).out, live) :
          d.module \in Names(live) \cup Names(Decode(doc).out)
    BY DriftsAreOfModules
  <2> QED
    BY <2>1, <2>2, <2>3 DEF TypeOK
<1> QED
  BY Invariant, <1>1, PTL

\* A check without a report means that the lock file holds the live state, and nothing
\* else: every live package is locked in its version, with its hashes and its list of
\* capabilities as a bag, although only the last entry of a module is compared; and
\* without second entries such a lock file is not reported.
THEOREM NoDriftIsLocked == Spec => []CleanIffLocked
<1>1. IInv => CleanIffLocked
  <2> SUFFICES ASSUME IInv PROVE CleanIffLocked
    OBVIOUS
  <2> DEFINE locked == Decode(doc).out
             covers == /\ \A i \in DOMAIN live : \E j \in DOMAIN locked : SameState(live[i], locked[j])
                       /\ Names(locked) \subseteq Names(live)
  <2>1. live \in Seq(Package) /\ locked \in Seq(Package)
    BY DecodedType DEF IInv, LiveInv
  <2>2. /\ \A i \in DOMAIN live : live[i] \in Package
        /\ \A j \in DOMAIN locked : locked[j] \in Package
    BY <2>1
  <2> HIDE DEF locked
  <2>3. ASSUME CheckDrift(locked, live) = {} PROVE covers
    <3> SUFFICES ASSUME NEW i \in DOMAIN live
                 PROVE  \E j \in DOMAIN locked : SameState(live[i], locked[j])
      BY <2>3, NoReport
    <3>1. /\ live[i].module \in Names(locked)
          /\ ByMod(locked, live[i].module).version = live[i].version
          /\ compareSame(ByMod(locked, live[i].module), live[i]) = {}
      BY <2>3, NoReport
    <3>2. PICK j \in DOMAIN locked : /\ locked[j].module = live[i].module
                                     /\ ByMod(locked, live[i].module) = locked[j]
      BY <2>1, <3>1, ByModIs
    <3>3. live[i] \in Package /\ locked[j] \in Package
      BY <2>2
    <3>4. locked[j].version = live[i].version /\ compareSame(locked[j], live[i]) = {}
      BY <3>1, <3>2
    <3> QED
      BY <3>2, <3>3, <3>4, SameStateIs
  <2>4. ASSUME Cardinality(Names(locked)) = Len(locked), covers
        PROVE  CheckDrift(locked, live) = {}
    <3>1. Distinct(locked)
      BY <2>1, <2>4, SingleIsDistinct
    <3>2. ASSUME NEW i \in DOMAIN live
          PROVE  /\ live[i].module \in Names(locked)
                 /\ ByMod(locked, live[i].module).version = live[i].version
                 /\ compareSame(ByMod(locked, live[i].module), live[i]) = {}
      <4>1. PICK j \in DOMAIN locked : SameState(live[i], locked[j])
        BY <2>4
      <4>2. live[i].module = locked[j].module /\ live[i].module \in Names(locked)
        BY <4>1 DEF SameState, Names
      <4>3. PICK l \in DOMAIN locked : /\ locked[l].module = live[i].module
                                       /\ ByMod(locked, live[i].module) = locked[l]
        BY <2>1, <4>2, ByModIs
      <4>4. ByMod(locked, live[i].module) = locked[j]
        BY <3>1, <4>2, <4>3 DEF Distinct
      <4>5. live[i] \in Package /\ locked[j] \in Package
        BY <2>2
      <4>6. live[i].version = locked[j].version /\ compareSame(locked[j], live[i]) = {}
        BY <4>1, <4>2, <4>5, SameStateIs
      <4> QED
        BY <4>2, <4>4, <4>6
    <3> QED
      BY <2>4, <3>2, NoReport
  <2> QED
    BY <2>3, <2>4 DEF CleanIffLocked, locked
<1> QED
  BY Invariant, <1>1, PTL

\* One more at the end.
LEMMA OneMore ==
  ASSUME NEW S, NEW s \in Seq(S), NEW x \in S
  PROVE  s \o <<x>> = Append(s, x)
OBVIOUS

\* A block behind a document is read as its package, and those before it stay.
LEMMA BlockIsRead ==
  ASSUME DocInv, ~Decode(doc).err, NEW p \in Package
  PROVE  LET read == Decode(doc \o writeEntry(p)) IN
         ~read.err /\ read.out = Append(Decode(doc).out, Back(p))
<1> DEFINE d == ReadLines(doc)
           e == ReadLines(doc \o writeEntry(p))
<1>1. doc \in Seq(Line) /\ Whole(d)
  BY DEF DocInv
<1>2. Decode(doc).out = d.out \o d.cur /\ ~d.err
  BY DEF Decode, Flush
<1>3. State(d, d.out, d.cur)
  BY <1>1, <1>2 DEF State, Whole
<1>4. State(e, d.out \o d.cur, <<Back(p)>>)
  BY <1>1, <1>3, ReadBlock
<1>5. d.out \o d.cur \in Seq(Package) /\ Back(p) \in Package
  BY <1>1, WholeFlush, BackType
<1> HIDE DEF d, e
<1>6. e.out = d.out \o d.cur /\ e.cur = <<Back(p)>> /\ ~e.err
  BY <1>4 DEF State
<1>7. e.out \o e.cur = Append(d.out \o d.cur, Back(p))
  BY <1>5, <1>6, OneMore
<1> QED
  BY <1>2, <1>6, <1>7 DEF Decode, Flush, e

\* A line that says nothing about a package changes none.
LEMMA OtherLineIsRead ==
  ASSUME DocInv, ~Decode(doc).err, NEW k \in {Skipped, "since"}
  PROVE  LET read == Decode(doc \o <<[k |-> k, v |-> ""]>>) IN
         ~read.err /\ read.out = Decode(doc).out
<1> DEFINE d == ReadLines(doc)
           l == [k |-> k, v |-> ""]
           e == DecodeLine(d, l)
<1>1. doc \in Seq(Line) /\ Whole(d)
  BY DEF DocInv
<1>2. Decode(doc).out = d.out \o d.cur /\ ~d.err
  BY DEF Decode, Flush
<1>3. l \in Line
  BY HandLineType DEF HandLines
<1>4. doc \o <<l>> = Append(doc, l)
  <2> HIDE DEF l
  <2> QED
    BY <1>1, <1>3, OneMore
<1>5. ReadLines(doc \o <<l>>) = e
  BY <1>1, <1>3, <1>4, ReadAppend
<1>6. e.out = d.out /\ e.cur = d.cur /\ e.err = d.err
  <2>1. CASE k = Skipped \/ d.cur = <<>>
    BY <1>2, <2>1 DEF DecodeLine, Header, Skipped
  <2>2. CASE ~(k = Skipped \/ d.cur = <<>>)
    <3>1. PICK p \in Package : d.cur = <<p>>
      BY <1>1, <2>2 DEF Whole
    <3>2. k = "since" /\ l.k = "since" /\ "since" \notin DOMAIN p
      BY <2>2, KeysAre DEF Package
    <3>3. d.cur[1] = p /\ setField(p, l) = p
      BY <3>1, <3>2 DEF setField
    <3>4. e = [d EXCEPT !.cur = <<p>>]
      BY <1>2, <2>2, <3>2, <3>3 DEF DecodeLine, Header, Skipped, NoEq, Malformed
    <3> QED
      BY <1>1, <3>1, <3>4 DEF Whole
  <2> QED
    BY <2>1, <2>2
<1> QED
  BY <1>2, <1>5, <1>6 DEF Decode, Flush

\* What Encode writes for a live state that edits have led to is read back by Decode
\* without an error, after whatever else the document began with: as many packages,
\* every field of each, the escapes of a source aside, and in the order of the modules.
\* A block behind any document that edits have led to is read as its package, and what
\* was there before it stays.
THEOREM WrittenIsReadBack == Spec => []RoundTrip
<1>1. IInv => RoundTrip
  <2> SUFFICES ASSUME IInv PROVE RoundTrip
    OBVIOUS
  <2> DEFINE n == Len(live)
             qs == Sorted(live)
             d == ReadLines(Preamble \o Encode(live))
             back == Decode(Preamble \o Encode(live))
  <2>1. live \in Seq(Package) /\ Distinct(live) /\ n \in Nat /\ DOMAIN live = 1..n
    BY DEF IInv, LiveInv
  <2>2. ~d.err /\ d.out \o d.cur = [i \in 1..n |-> Back(qs[i])]
    BY <2>1, ReadEncode
  <2>3. ~back.err /\ back.out = [i \in 1..n |-> Back(qs[i])]
    BY <2>2 DEF Decode, Flush
  <2>4. /\ \A i \in 1..n : \E j \in 1..n : live[i] = qs[j]
        /\ \A i, j \in 1..n : i < j => qs[i].module < qs[j].module
        /\ \A i \in 1..n : qs[i] \in Package
    BY <2>1, SortedIs
  <2>m. ASSUME ~Decode(doc).err
        PROVE  /\ \A p \in NewPackages :
                    LET read == Decode(doc \o writeEntry(p)) IN
                    ~read.err /\ read.out = Append(Decode(doc).out, Back(p))
               /\ \A k \in {Skipped, "since"} :
                    LET read == Decode(doc \o <<[k |-> k, v |-> ""]>>) IN
                    ~read.err /\ read.out = Decode(doc).out
    <3>1. DocInv /\ NewPackages \subseteq Package
      BY ValuesAssumption DEF IInv
    <3> QED
      BY <2>m, <3>1, BlockIsRead, OtherLineIsRead, Zenon
  <2> HIDE DEF back, qs, n
  <2>5. Len(back.out) = n /\ DOMAIN back.out = 1..n
    BY <2>1, <2>3
  <2>6. \A j \in 1..n : back.out[j] = Back(qs[j])
    BY <2>3
  <2>7. \A i \in 1..n : \E j \in 1..n : Back(live[i]) = back.out[j]
    BY <2>4, <2>6
  <2>8. \A i \in 1..n : back.out[i].module = qs[i].module
    BY <2>4, <2>6 DEF Back, Package
  <2>9. \A i, j \in 1..n : i < j => back.out[i].module < back.out[j].module
    BY <2>4, <2>8
  <2> QED
    BY <2>1, <2>3, <2>5, <2>7, <2>9, <2>m DEF RoundTrip, back, Back, n
<1> QED
  BY Invariant, <1>1, PTL

===============================================================================

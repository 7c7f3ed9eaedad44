------------------------------ MODULE WrapperProofs ------------------------------
(***************************************************************************)
(* Theorems of Wrapper, for all surfaces, of any number of types and       *)
(* functions.                                                              *)
(***************************************************************************)
EXTENDS Wrapper, FiniteSetTheorems, FunctionTheorems, SequenceTheorems,
        WellFoundedInduction, TLAPS

-------------------------------------------------------------------------------
(* Numbers and sets *)

\* A set of natural numbers that is not empty has a least element.
LEMMA Least ==
  ASSUME NEW S \in SUBSET Nat, S # {}
  PROVE  \E m \in S : \A x \in S : m <= x
<1> DEFINE Less == {ss \in Nat \X Nat : ss[1] < ss[2]}
<1>1. IsWellFoundedOn(Less, Nat)
  BY NatLessThanWellFounded, SMT DEF OpToRel
<1>2. PICK m \in S : \A x \in S : <<x, m>> \notin Less
  <2> HIDE DEF Less
  <2> QED
    BY <1>1, WFMin
<1>3. \A x \in S : ~(x < m)
  BY <1>2
<1> QED
  BY <1>3

\* What is so at 0, and at the number after each one at which it is, is so at all.
LEMMA Induction ==
  ASSUME NEW S, 0 \in S, \A n \in Nat : n \in S => n + 1 \in S
  PROVE  \A n \in Nat : n \in S
<1> DEFINE Not == {n \in Nat : n \notin S}
<1> SUFFICES ASSUME Not # {} PROVE FALSE
  OBVIOUS
<1>1. Not \in SUBSET Nat
  OBVIOUS
<1> HIDE DEF Not
<1>2. PICK m \in Not : \A x \in Not : m <= x
  BY <1>1, Least
<1> USE DEF Not
<1>3. m \in Nat /\ m # 0
  BY <1>2
<1>4. m - 1 \in Nat /\ m - 1 + 1 = m /\ ~(m <= m - 1)
  BY <1>3
<1>5. m - 1 \in S
  BY <1>2, <1>4
<1> QED
  BY <1>2, <1>4, <1>5

-------------------------------------------------------------------------------
(* The levels of meaning *)

\* Meaning is what its definition says: nothing at level 0, and the structural step on.
LEMMA MeaningLevels ==
  /\ Meaning[0] = [t \in Types |-> Endless]
  /\ \A n \in Nat : Meaning[n + 1] = [t \in Types |-> Structural(Meaning[n], t)]
<1> DEFINE First     == [t \in Types |-> Endless]
           Step(b)   == [t \in Types |-> Structural(b, t)]
           Runs(f, m) == f[0] = First /\ \A n \in 1..m : f[n] = Step(f[n - 1])
           Can       == {m \in Nat : \E f : Runs(f, m)}
           It(m)     == CHOOSE f : Runs(f, m)
           Levels    == [n \in Nat |-> It(n)[n]]
           Solves(f) == f = [n \in Nat |-> IF n = 0 THEN First ELSE Step(f[n - 1])]
<1>1. Meaning = CHOOSE f : Solves(f)
  BY DEF Meaning
<1> HIDE DEF First, Step
<1>2. 0 \in Can
  <2>1. Runs([n \in {0} |-> First], 0)
    BY Z3
  <2> QED
    BY <2>1
<1>3. ASSUME NEW m \in Nat, m \in Can PROVE m + 1 \in Can
  <2>1. PICK f : Runs(f, m)
    BY <1>3
  <2> DEFINE h == [n \in 0..(m + 1) |-> IF n = m + 1 THEN Step(f[m]) ELSE f[n]]
  <2>2. h[0] = First
    BY <2>1
  <2>3. ASSUME NEW n \in 1..(m + 1) PROVE h[n] = Step(h[n - 1])
    <3>1. CASE n = m + 1
      <4>1. h[n] = Step(f[m]) /\ n - 1 = m /\ m \in 0..(m + 1) /\ m # m + 1
        BY <3>1
      <4>2. h[n - 1] = f[m]
        BY <4>1
      <4> HIDE DEF h
      <4> QED
        BY <4>1, <4>2
    <3>2. CASE n # m + 1
      <4>1. n \in 1..m /\ n - 1 \in 0..m /\ n \in 0..(m + 1) /\ n - 1 \in 0..(m + 1) /\ n - 1 # m + 1
        BY <3>2
      <4>2. h[n] = f[n] /\ h[n - 1] = f[n - 1]
        BY <3>2, <4>1
      <4> HIDE DEF h
      <4> QED
        BY <2>1, <4>1, <4>2
    <3> QED
      BY <3>1, <3>2
  <2>4. Runs(h, m + 1)
    <3> HIDE DEF h
    <3> QED
      BY <2>2, <2>3
  <2> HIDE DEF h, Runs
  <2> QED
    BY <2>4
<1>4. \A m \in Nat : m \in Can
  <2> HIDE DEF Can
  <2> QED
    BY <1>2, <1>3, Induction
<1>5. ASSUME NEW m \in Nat PROVE Runs(It(m), m)
  <2>1. \E f : Runs(f, m)
    BY <1>4
  <2> HIDE DEF Runs
  <2> QED
    BY <2>1
\* Two runs agree as far as both go.
<1>6. ASSUME NEW f, NEW g, NEW m \in Nat, NEW k \in Nat, Runs(f, m), Runs(g, k)
      PROVE  \A n \in Nat : n <= m /\ n <= k => f[n] = g[n]
  <2> DEFINE Same == {n \in Nat : n <= m /\ n <= k => f[n] = g[n]}
  <2>1. 0 \in Same
    BY <1>6
  <2>2. ASSUME NEW n \in Nat, n \in Same PROVE n + 1 \in Same
    <3> SUFFICES ASSUME n + 1 <= m, n + 1 <= k PROVE f[n + 1] = g[n + 1]
      OBVIOUS
    <3>1. n + 1 \in 1..m /\ n + 1 \in 1..k /\ n + 1 - 1 = n /\ n <= m /\ n <= k
      OBVIOUS
    <3>2. f[n] = g[n]
      BY <2>2, <3>1
    <3>3. f[n + 1] = Step(f[n]) /\ g[n + 1] = Step(g[n])
      BY <1>6, <3>1
    <3> QED
      BY <3>2, <3>3
  <2> HIDE DEF Same
  <2>3. \A n \in Nat : n \in Same
    BY <2>1, <2>2, Induction
  <2> QED
    BY <2>3 DEF Same
<1> HIDE DEF It
<1>7. Levels[0] = First
  <2>1. Runs(It(0), 0)
    BY <1>5
  <2> QED
    BY <2>1
<1>8. ASSUME NEW n \in Nat PROVE Levels[n + 1] = Step(Levels[n])
  <2>1. Runs(It(n + 1), n + 1) /\ Runs(It(n), n)
    BY <1>5
  <2>2. It(n + 1)[n] = It(n)[n]
    <3> HIDE DEF Runs
    <3> QED
      BY <1>6, <2>1
  <2>3. It(n + 1)[n + 1] = Step(It(n + 1)[n])
    <3>1. n + 1 \in 1..(n + 1) /\ n + 1 - 1 = n
      OBVIOUS
    <3> QED
      BY <2>1, <3>1
  <2>4. Levels[n + 1] = It(n + 1)[n + 1] /\ Levels[n] = It(n)[n]
    OBVIOUS
  <2> HIDE DEF Levels
  <2> QED
    BY <2>2, <2>3, <2>4
<1>9. Solves(Levels)
  <2>1. ASSUME NEW n \in Nat PROVE Levels[n] = IF n = 0 THEN First ELSE Step(Levels[n - 1])
    <3>1. CASE n = 0
      BY <1>7, <3>1
    <3>2. CASE n # 0
      <4>1. n - 1 \in Nat /\ n - 1 + 1 = n
        BY <3>2
      <4> HIDE DEF Levels
      <4> QED
        BY <1>8, <3>2, <4>1
    <3> QED
      BY <3>1, <3>2
  <2>2. Levels = [n \in Nat |-> Levels[n]]
    OBVIOUS
  <2> HIDE DEF Levels
  <2> QED
    BY <2>1, <2>2, Zenon
<1>10. Solves(Meaning)
  <2> HIDE DEF Solves, Levels
  <2> QED
    BY <1>1, <1>9
<1>11. Meaning[0] = First
  BY <1>10, Zenon
<1>12. ASSUME NEW n \in Nat PROVE Meaning[n + 1] = Step(Meaning[n])
  <2>1. n + 1 \in Nat /\ n + 1 # 0 /\ n + 1 - 1 = n
    OBVIOUS
  <2> DEFINE k == n + 1
  <2>2. Meaning[k] = IF k = 0 THEN First ELSE Step(Meaning[k - 1])
    <3>1. k \in Nat
      BY <2>1
    <3> HIDE DEF k
    <3> QED
      BY <1>10, <3>1, Zenon
  <2> QED
    BY <2>1, <2>2
<1> QED
  BY <1>11, <1>12 DEF First, Step
-------------------------------------------------------------------------------
(* Types and declarations *)

FieldSet == [exported : BOOLEAN, type : Types]

LEMMA Declared ==
  ASSUME surface \in Surfaces, NEW d \in DOMAIN surface.types
  PROVE  \/ surface.types[d] = <<"opaque">>
         \/ \E u \in Types : surface.types[d] = <<"unfold", u>>
         \/ \E fs \in Seq(FieldSet) : surface.types[d] = <<"struct", fs>>
<1> DEFINE decl == surface.types[d]
<1>1. \/ decl = <<"opaque">>
      \/ decl[1] = "unfold" /\ decl = <<"unfold", decl[2]>> /\ decl[2] \in Types
      \/ decl[1] = "struct" /\ decl = <<"struct", decl[2]>> /\ decl[2] \in Seq(FieldSet)
  BY DeclarationsAssumption DEF FieldSet
<1> HIDE DEF decl
<1>2. \/ decl = <<"opaque">>
      \/ \E u \in Types : decl = <<"unfold", u>>
      \/ \E fs \in Seq(FieldSet) : decl = <<"struct", fs>>
  BY <1>1
<1> QED
  BY <1>2 DEF decl

LEMMA DeclarationForm ==
  ASSUME surface \in Surfaces, NEW t
  PROVE  \/ DeclOf(t) = <<"absent">>
         \/ DeclOf(t) = <<"opaque">>
         \/ \E u \in Types : DeclOf(t) = <<"unfold", u>>
         \/ \E fs \in Seq(FieldSet) : DeclOf(t) = <<"struct", fs>>
<1> DEFINE d == <<IF t[2] = 0 THEN SelfPackage(t[3]) ELSE t[2], t[3]>>
<1>1. DeclOf(t) = IF d \in DOMAIN surface.types THEN surface.types[d] ELSE <<"absent">>
  BY DEF DeclOf
<1> HIDE DEF d
<1>2. CASE d \in DOMAIN surface.types
  BY <1>1, <1>2, Declared
<1> QED
  BY <1>1, <1>2

\* The shapes of types.
Leaf(t)  == t[1] \in {"basic", "chan", "iface", "struct", "nil"}
Inner(t) == t[1] \in {"ptr", "array", "ellipsis"}

LEMMA TypeForm ==
  ASSUME NEW t \in Types
  PROVE  \/ Leaf(t)
         \/ Inner(t) /\ t[2] \in Types
         \/ t[1] = "slice" /\ t[2] \in Types
         \/ t[1] = "map" /\ t[2] \in Types /\ t[3] \in Types
         \/ t[1] = "func" /\ t[2] \in Seq(Types) /\ t[3] \in Seq(Types)
         \/ t[1] = "named"
BY TypesAssumption DEF Leaf, Inner

LEMMA VisibleFields ==
  ASSUME NEW t, NEW fs \in Seq(FieldSet), Fields(t) = fs
  PROVE  /\ Visible(t) \in 0..Len(fs)
         /\ Visible(t) = 0 => \A i \in 1..Len(fs) : fs[i].exported
         /\ Visible(t) # 0 => /\ ~fs[Visible(t)].exported
                              /\ \A i \in 1..(Visible(t) - 1) : fs[i].exported
<1> DEFINE At == {i \in 1..Len(fs) : ~fs[i].exported}
<1>1. Visible(t) = IF At # {} THEN CHOOSE x \in At : \A y \in At : x <= y ELSE 0
  BY DEF Visible, SelectInSeq, Min
<1>2. At \in SUBSET Nat /\ Len(fs) \in Nat /\ At \in SUBSET (1..Len(fs))
  OBVIOUS
<1>3. \A i \in 1..Len(fs) : i \notin At => fs[i].exported
  OBVIOUS
<1>4. \A i \in At : ~fs[i].exported
  OBVIOUS
<1> HIDE DEF At
<1>5. At # {} => \E x \in At : \A y \in At : x <= y
  BY <1>2, Least
<1>6. CASE At # {}
  <2>1. Visible(t) \in At /\ \A y \in At : Visible(t) <= y
    BY <1>1, <1>5, <1>6
  <2>2. Visible(t) \in 1..Len(fs)
    BY <1>2, <2>1
  <2>3. ASSUME NEW i \in 1..(Visible(t) - 1) PROVE i \in 1..Len(fs) /\ i \notin At
    BY <1>2, <2>1, <2>2
  <2> QED
    BY <1>3, <1>4, <2>1, <2>2, <2>3
<1>7. CASE At = {}
  BY <1>1, <1>2, <1>3, <1>7
<1> QED
  BY <1>6, <1>7

LEMMA ShownFields ==
  ASSUME NEW t, NEW fs \in Seq(FieldSet), Fields(t) = fs
  PROVE  /\ Shown(t) \in Seq(FieldSet) /\ Len(Shown(t)) <= Len(fs)
         /\ \A i \in 1..Len(Shown(t)) : Shown(t)[i] = fs[i] /\ fs[i].exported
         /\ Visible(t) = 0 => Len(Shown(t)) = Len(fs)
         /\ Visible(t) # 0 => /\ Len(Shown(t)) + 1 \in 1..Len(fs)
                              /\ ~fs[Len(Shown(t)) + 1].exported
<1>1. Shown(t) = IF Visible(t) = 0 THEN fs ELSE SubSeq(fs, 1, Visible(t) - 1)
  BY DEF Shown
<1>2. CASE Visible(t) = 0
  BY <1>1, <1>2, VisibleFields
<1>3. CASE Visible(t) # 0
  <2> DEFINE v == Visible(t)
  <2>1. v \in 1..Len(fs) /\ Len(fs) \in Nat /\ ~fs[v].exported /\ \A i \in 1..(v - 1) : fs[i].exported
    BY <1>3, VisibleFields
  <2>2. Shown(t) = SubSeq(fs, 1, v - 1)
    BY <1>1, <1>3
  <2> HIDE DEF v
  <2>3. Shown(t) \in Seq(FieldSet) /\ Len(Shown(t)) = v - 1
    BY <2>1, <2>2
  <2>4. \A i \in 1..(v - 1) : Shown(t)[i] = fs[i]
    BY <2>1, <2>2
  <2>5. Len(Shown(t)) + 1 = v /\ v # 0 /\ v - 1 <= Len(fs)
    BY <2>1, <2>3
  <2> QED
    BY <2>1, <2>3, <2>4, <2>5 DEF v
<1> QED
  BY <1>2, <1>3

\* The parts of a type are types.
LEMMA ParamsType ==
  ASSUME NEW ps \in Seq(Types)
  PROVE  /\ Params(ps) \in Seq(Types) /\ Len(Params(ps)) = Len(ps)
         /\ IsVariadic(ps) => Len(ps) # 0
<1>1. CASE IsVariadic(ps)
  <2>1. ps # <<>> /\ Last(ps)[1] = "ellipsis" /\ Last(ps) \in Types /\ Len(ps) \in Nat \ {0}
    BY <1>1 DEF IsVariadic, Last
  <2>2. Last(ps)[2] \in Types
    BY <2>1, TypeForm DEF Leaf, Inner
  <2>3. Front(ps) = SubSeq(ps, 1, Len(ps) - 1) /\ Len(ps) - 1 \in Nat /\ Len(ps) - 1 <= Len(ps)
    BY <2>1 DEF Front
  <2>4. Front(ps) \in Seq(Types) /\ Len(Front(ps)) = Len(ps) - 1
    <3> DEFINE n == Len(ps) - 1
    <3>1. n \in Nat /\ n <= Len(ps) /\ Front(ps) = SubSeq(ps, 1, n)
      BY <2>3
    <3> HIDE DEF n
    <3>2. Front(ps) \in Seq(Types) /\ Len(Front(ps)) = n
      BY <3>1
    <3> QED
      BY <3>2 DEF n
  <2> QED
    BY <1>1, <2>1, <2>2, <2>4 DEF Params
<1>2. CASE ~IsVariadic(ps)
  BY <1>2 DEF Params
<1> QED
  BY <1>1, <1>2

LEMMA PartsOfLeaf ==
  ASSUME NEW t, Leaf(t) \/ (t[1] = "slice" /\ t[2] = Byte)
  PROVE  Parts(t) = <<>>
BY DEF Leaf, Parts, IsRecord

LEMMA PartsOfInner ==
  ASSUME NEW t, Inner(t) \/ (t[1] = "slice" /\ t[2] # Byte)
  PROVE  Parts(t) = <<t[2]>>
BY DEF Inner, Parts, IsRecord

LEMMA PartsOfMap ==
  ASSUME NEW t, t[1] = "map"
  PROVE  Parts(t) = <<t[2], t[3]>>
BY DEF Parts, IsRecord

LEMMA PartsOfFunc ==
  ASSUME NEW t, t[1] = "func"
  PROVE  Parts(t) = Params(t[2]) \o t[3]
BY DEF Parts, IsRecord

LEMMA PartsOfRecord ==
  ASSUME NEW t, IsRecord(t)
  PROVE  Parts(t) = [i \in DOMAIN Shown(t) |-> Shown(t)[i].type]
BY DEF Parts, IsRecord

LEMMA PartsOfUnfold ==
  ASSUME NEW t, t[1] = "named", DeclOf(t)[1] = "unfold"
  PROVE  Parts(t) = <<DeclOf(t)[2]>>
BY DEF Parts, IsRecord

LEMMA PartsOfHandle ==
  ASSUME NEW t, t[1] = "named", DeclOf(t)[1] \in {"absent", "opaque"}
  PROVE  Parts(t) = <<>>
BY DEF Parts, IsRecord

LEMMA PartsOfFields ==
  ASSUME NEW t, t[1] = "named", NEW fs \in Seq(FieldSet), DeclOf(t) = <<"struct", fs>>
  PROVE  /\ IsRecord(t) /\ Fields(t) = fs
         /\ Parts(t) \in Seq(Types) /\ Len(Parts(t)) = Len(Shown(t))
         /\ \A i \in 1..Len(Parts(t)) : Parts(t)[i] = fs[i].type
<1>1. IsRecord(t) /\ Fields(t) = fs
  BY DEF IsRecord, Fields
<1> DEFINE sh == Shown(t)
<1>2. sh \in Seq(FieldSet) /\ \A i \in 1..Len(sh) : sh[i] = fs[i]
  BY <1>1, ShownFields
<1>3. Parts(t) = [i \in DOMAIN sh |-> sh[i].type]
  BY <1>1, PartsOfRecord
<1> HIDE DEF sh
<1>4. Parts(t) = [i \in 1..Len(sh) |-> sh[i].type] /\ Len(sh) \in Nat
  BY <1>2, <1>3
<1>5. ASSUME NEW i \in 1..Len(sh) PROVE sh[i].type \in Types
  <2>1. sh[i] \in FieldSet
    BY <1>2
  <2> QED
    BY <2>1 DEF FieldSet
<1>6. Parts(t) \in Seq(Types) /\ Len(Parts(t)) = Len(sh)
  BY <1>4, <1>5
<1>7. \A i \in 1..Len(Parts(t)) : Parts(t)[i] = fs[i].type
  BY <1>2, <1>4, <1>6
<1> QED
  BY <1>1, <1>6, <1>7 DEF sh

LEMMA PartsType ==
  ASSUME surface \in Surfaces, NEW t \in Types
  PROVE  Parts(t) \in Seq(Types)
<1>1. CASE Leaf(t) \/ (t[1] = "slice" /\ t[2] = Byte)
  <2>1. Parts(t) = <<>>
    BY <1>1, PartsOfLeaf
  <2> QED
    BY <2>1
<1>2. CASE Inner(t) \/ (t[1] = "slice" /\ t[2] # Byte)
  <2>1. t[2] \in Types
    BY <1>2, TypeForm DEF Leaf, Inner
  <2> QED
    BY <1>2, <2>1, PartsOfInner
<1>3. CASE t[1] = "map"
  <2>1. t[2] \in Types /\ t[3] \in Types
    BY <1>3, TypeForm DEF Leaf, Inner
  <2> QED
    <3>1. Parts(t) = <<t[2], t[3]>>
      BY <1>3, PartsOfMap
    <3> QED
      BY <2>1, <3>1
<1>4. CASE t[1] = "func"
  <2>1. t[2] \in Seq(Types) /\ t[3] \in Seq(Types)
    BY <1>4, TypeForm DEF Leaf, Inner
  <2>2. Params(t[2]) \in Seq(Types)
    BY <2>1, ParamsType
  <2> QED
    <3>1. Parts(t) = Params(t[2]) \o t[3]
      BY <1>4, PartsOfFunc
    <3> QED
      BY <2>1, <2>2, <3>1
<1>5. CASE t[1] = "named"
  <2>1. CASE DeclOf(t) = <<"absent">> \/ DeclOf(t) = <<"opaque">>
    <3>1. DeclOf(t)[1] \in {"absent", "opaque"}
      BY <2>1
    <3>2. Parts(t) = <<>>
      BY <1>5, <3>1, PartsOfHandle
    <3> QED
      BY <3>2
  <2>2. CASE \E u \in Types : DeclOf(t) = <<"unfold", u>>
    BY <1>5, <2>2, PartsOfUnfold
  <2>3. CASE \E fs \in Seq(FieldSet) : DeclOf(t) = <<"struct", fs>>
    BY <1>5, <2>3, PartsOfFields
  <2> QED
    BY <2>1, <2>2, <2>3, DeclarationForm
<1> QED
  BY <1>1, <1>2, <1>3, <1>4, <1>5, TypeForm
-------------------------------------------------------------------------------
(* Mappings and meanings *)

\* What Map can answer; an endless meaning is no mapping.
IsMapping(m) == m = Unmappable \/ m.dir \in {"copy", "handle"}

LEMMA Failures ==
  /\ Endless.dir = "none" /\ Unmappable.dir = "none" /\ Endless # Unmappable
  /\ Endless.mochi = <<"endless">> /\ Unmappable.mochi = <<"none">>
BY DEF Endless, Unmappable

LEMMA MappingFails ==
  ASSUME NEW m, IsMapping(m)
  PROVE  m # Endless /\ (m \in Fails <=> m = Unmappable)
BY Failures DEF IsMapping, Fails

LEMMA Made ==
  ASSUME NEW x
  PROVE  /\ Copying(x).dir = "copy" /\ Handling(x).dir = "handle" /\ HandleTo(x).dir = "handle"
         /\ IsMapping(Copying(x)) /\ IsMapping(Handling(x)) /\ IsMapping(HandleTo(x))
BY DEF IsMapping, Copying, Handling, HandleTo

\* If no meaning fails, the whole is meant; or the first that fails is.
LEMMA SequentialWhole ==
  ASSUME NEW ms, NEW whole, \A i \in DOMAIN ms : ms[i] \notin Fails
  PROVE  Sequentially(ms, whole) = whole
BY DEF Sequentially

LEMMA LeastIs ==
  ASSUME NEW S \in SUBSET Nat, NEW k \in S, \A i \in S : k <= i
  PROVE  (CHOOSE i \in S : \A j \in S : i <= j) = k
<1> DEFINE c == CHOOSE i \in S : \A j \in S : i <= j
<1>1. c \in S /\ \A j \in S : c <= j
  <2> QED
    BY Zenon
<1> HIDE DEF c
<1>2. c <= k /\ k <= c /\ c \in Nat /\ k \in Nat
  BY <1>1
<1>3. c = k
  BY <1>2
<1> QED
  BY <1>3 DEF c

LEMMA SequentialFirst ==
  ASSUME NEW ms, NEW whole, DOMAIN ms \in SUBSET Nat, NEW k \in DOMAIN ms, ms[k] \in Fails,
         \A i \in DOMAIN ms : i < k => ms[i] \notin Fails
  PROVE  Sequentially(ms, whole) = ms[k]
<1> DEFINE bad == {i \in DOMAIN ms : ms[i] \in Fails}
<1>1. bad \in SUBSET Nat /\ k \in bad
  OBVIOUS
<1>2. ASSUME NEW i \in bad PROVE k <= i
  <2>1. i \in Nat /\ k \in Nat /\ ~(i < k)
    BY <1>2
  <2> QED
    BY <2>1
<1>3. Sequentially(ms, whole) = IF bad = {} THEN whole ELSE ms[CHOOSE i \in bad : \A j \in bad : i <= j]
  BY DEF Sequentially
<1> HIDE DEF bad
<1>4. (CHOOSE i \in bad : \A j \in bad : i <= j) = k
  BY <1>1, <1>2, LeastIs
<1> QED
  BY <1>1, <1>3, <1>4

\* One meaning that fails is the meaning of the whole.
LEMMA SequentialOne ==
  ASSUME NEW m, NEW whole
  PROVE  Sequentially(<<m>>, whole) = IF m \in Fails THEN m ELSE whole
<1> DEFINE ms == <<m>>
<1>1. DOMAIN ms = {1} /\ ms[1] = m
  OBVIOUS
<1> HIDE DEF ms
<1>2. CASE m \in Fails
  <2>1. DOMAIN ms \in SUBSET Nat /\ 1 \in DOMAIN ms /\ ms[1] \in Fails
    BY <1>1, <1>2
  <2>2. \A i \in DOMAIN ms : i < 1 => ms[i] \notin Fails
    BY <1>1
  <2>3. Sequentially(ms, whole) = ms[1]
    BY <2>1, <2>2, SequentialFirst
  <2> QED
    BY <1>1, <1>2, <2>3 DEF ms
<1>3. CASE m \notin Fails
  <2>1. Sequentially(ms, whole) = whole
    BY <1>1, <1>3, SequentialWhole
  <2> QED
    BY <1>3, <2>1 DEF ms
<1> QED
  BY <1>2, <1>3

\* The first field that is not plain decides on a record.
Plain(field, m) == field.exported /\ m.dir = "copy"

LEMMA RecordWhole ==
  ASSUME NEW name, NEW fields, NEW ms, \A i \in DOMAIN fields : Plain(fields[i], ms[i])
  PROVE  RecordMeaning(name, fields, ms) = Copying(<<"record", name, [i \in DOMAIN ms |-> ms[i].mochi]>>)
BY DEF RecordMeaning, Plain

LEMMA RecordFirst ==
  ASSUME NEW name, NEW fields, NEW ms, DOMAIN fields \in SUBSET Nat,
         NEW k \in DOMAIN fields, ~Plain(fields[k], ms[k]),
         \A i \in DOMAIN fields : i < k => Plain(fields[i], ms[i])
  PROVE  RecordMeaning(name, fields, ms) = IF fields[k].exported /\ ms[k] = Endless THEN Endless
                                           ELSE HandleTo(<<"bare", name>>)
<1> DEFINE odd == {i \in DOMAIN fields : ~Plain(fields[i], ms[i])}
           first == CHOOSE i \in odd : \A j \in odd : i <= j
<1>1. odd \in SUBSET Nat /\ k \in odd
  OBVIOUS
<1>2. ASSUME NEW i \in odd PROVE k <= i
  <2>1. i \in Nat /\ k \in Nat /\ ~(i < k)
    BY <1>2
  <2> QED
    BY <2>1
<1>3. odd # {} => RecordMeaning(name, fields, ms) =
                    IF fields[first].exported /\ ms[first] = Endless THEN Endless
                    ELSE HandleTo(<<"bare", name>>)
  BY Zenon DEF RecordMeaning, Plain
<1> HIDE DEF odd
<1>4. first = k
  BY <1>1, <1>2, LeastIs
<1> HIDE DEF first
<1> QED
  BY <1>1, <1>3, <1>4
-------------------------------------------------------------------------------
(* What Map answers for the parts that it mapped is what the type means *)

\* Mappings of the first parts of t, with none before the last that cuts the visit.
MappedParts(t, got, V) ==
  /\ got \in Seq(V) /\ Len(got) <= Len(Parts(t))
  /\ \A i \in 1..(Len(got) - 1) : ~Cuts(t, got[i], i)

LEMMA MappedType ==
  ASSUME NEW t, NEW got, NEW V, MappedParts(t, got, V)
  PROVE  /\ got \in Seq(V) /\ Len(got) \in Nat /\ DOMAIN got = 1..Len(got)
         /\ Len(got) <= Len(Parts(t)) /\ (Len(got) # 0 => got # <<>> /\ Last(got) = got[Len(got)])
         /\ \A i \in 1..Len(got) : got[i] \in V
<1>1. got \in Seq(V) /\ Len(got) <= Len(Parts(t))
  BY DEF MappedParts
<1> QED
  BY <1>1 DEF Last

LEMMA LeafComplete ==
  ASSUME NEW t, Leaf(t), NEW of
  PROVE  Structural(of, t) = mapType(t, <<>>) /\ IsMapping(mapType(t, <<>>))
<1>1. Structural(of, t) = mapType(t, <<>>)
  BY DEF Leaf, Structural
<1>2. mapType(t, <<>>) = CASE t[1] = "basic"  -> mapBasic(t[2])
                           [] t[1] = "chan"   -> HandleTo(t)
                           [] t[1] = "iface"  -> IF t[2] = "empty" THEN Handling(<<"any">>) ELSE HandleTo(<<"iface">>)
                           [] t[1] = "struct" -> HandleTo(<<"struct">>)
                           [] t[1] = "nil"    -> Unmappable
  BY DEF Leaf, mapType, IsRecord
<1>3. IsMapping(mapBasic(t[2])) /\ IsMapping(Unmappable)
  BY Made DEF mapBasic, IsMapping
<1> QED
  BY <1>1, <1>2, <1>3, Made DEF Leaf

LEMMA BytesComplete ==
  ASSUME NEW t, t[1] = "slice", t[2] = Byte, NEW of
  PROVE  Structural(of, t) = mapType(t, <<>>) /\ IsMapping(mapType(t, <<>>))
<1>1. Structural(of, t) = Copying(<<"scalar", "bytes">>)
  BY DEF Structural
<1>2. mapType(t, <<>>) = Copying(<<"scalar", "bytes">>)
  BY DEF mapType, mapSlice, IsRecord
<1> QED
  BY <1>1, <1>2, Made

LEMMA HandleComplete ==
  ASSUME NEW t, t[1] = "named", DeclOf(t)[1] \in {"absent", "opaque"}, NEW of
  PROVE  Structural(of, t) = mapType(t, <<>>) /\ IsMapping(mapType(t, <<>>))
<1>1. Structural(of, t) = mapNamed(t, <<>>)
  BY DEF Structural
<1>2. mapType(t, <<>>) = mapNamed(t, <<>>)
  BY DEF mapType, IsRecord
<1>3. IsMapping(mapNamed(t, <<>>))
  BY Made DEF mapNamed
<1> QED
  BY <1>1, <1>2, <1>3

\* What a type of one part means, from what its part means.
Lifted(t, m) ==
  IF t[1] = "ptr" THEN mapPointer(m)
  ELSE IF t[1] = "array" THEN Copying(<<"list", m.mochi>>)
  ELSE [mochi |-> <<"list", m.mochi>>, dir |-> m.dir]

LEMMA InnerMeaning ==
  ASSUME NEW t, Inner(t) \/ (t[1] = "slice" /\ t[2] # Byte), NEW of
  PROVE  Structural(of, t) = Sequentially(<<of[t[2]]>>, Lifted(t, of[t[2]]))
<1>1. CASE t[1] = "ptr"
  BY <1>1 DEF Structural, Lifted, mapPointer
<1>2. CASE t[1] = "array"
  BY <1>2 DEF Structural, Lifted
<1>3. CASE t[1] = "ellipsis"
  BY <1>3 DEF Structural, Lifted
<1>4. CASE t[1] = "slice" /\ t[2] # Byte
  BY <1>4 DEF Structural, Lifted
<1> QED
  BY <1>1, <1>2, <1>3, <1>4 DEF Inner

LEMMA InnerAnswer ==
  ASSUME NEW t, Inner(t) \/ (t[1] = "slice" /\ t[2] # Byte), NEW m, IsMapping(m)
  PROVE  /\ mapType(t, <<m>>) = IF m = Unmappable THEN Unmappable ELSE Lifted(t, m)
         /\ IsMapping(mapType(t, <<m>>))
<1> DEFINE got == <<m>>
<1>1. got[1] = m /\ DOMAIN got = {1}
  OBVIOUS
<1> HIDE DEF got
<1>2. ~IsRecord(t) /\ (Cuts(t, got[1], 1) <=> m = Unmappable)
  BY <1>1 DEF IsRecord, Inner, Cuts
<1>3. CASE m = Unmappable
  <2>1. mapType(t, got) = Unmappable
    BY <1>1, <1>2, <1>3 DEF mapType
  <2> QED
    BY <1>3, <2>1 DEF IsMapping, got
<1>4. CASE m # Unmappable
  <2>0. ~ \E i \in DOMAIN got : Cuts(t, got[i], i)
    BY <1>1, <1>2, <1>4
  <2>1. mapType(t, got) = Lifted(t, m)
    <3>1. CASE t[1] = "ptr"
      BY <1>1, <2>0, <3>1 DEF mapType, Lifted
    <3>2. CASE t[1] = "array"
      BY <1>1, <2>0, <3>2 DEF mapType, Lifted
    <3>3. CASE t[1] = "ellipsis"
      BY <1>1, <2>0, <3>3 DEF mapType, Lifted
    <3>4. CASE t[1] = "slice" /\ t[2] # Byte
      BY <1>1, <2>0, <3>4 DEF mapType, mapSlice, Lifted
    <3> QED
      BY <3>1, <3>2, <3>3, <3>4 DEF Inner
  <2>2. m.dir \in {"copy", "handle"}
    BY <1>4 DEF IsMapping
  <2>3. Lifted(t, m).dir \in {"copy", "handle"}
    BY <2>2, Made DEF Lifted, mapPointer
  <2> QED
    BY <1>4, <2>1, <2>3 DEF IsMapping, got
<1> QED
  BY <1>3, <1>4

LEMMA UnfoldMeaning ==
  ASSUME NEW t, t[1] = "named", DeclOf(t)[1] = "unfold", NEW of, NEW m, IsMapping(m)
  PROVE  Structural(of, t) = of[DeclOf(t)[2]] /\ mapType(t, <<m>>) = m
<1> DEFINE got == <<m>>
<1>1. got[1] = m /\ DOMAIN got = {1}
  OBVIOUS
<1> HIDE DEF got
<1>2. ~IsRecord(t) /\ (Cuts(t, got[1], 1) <=> m = Unmappable)
  BY <1>1 DEF IsRecord, Cuts
<1>3. mapNamed(t, got) = m
  BY <1>1 DEF mapNamed
<1>4. CASE m = Unmappable
  <2>1. mapType(t, got) = Unmappable
    BY <1>1, <1>2, <1>4 DEF mapType
  <2> QED
    BY <1>4, <2>1 DEF Structural, got
<1>5. CASE m # Unmappable
  <2>0. ~ \E i \in DOMAIN got : Cuts(t, got[i], i)
    BY <1>1, <1>2, <1>5
  <2>1. mapType(t, got) = m
    BY <1>3, <2>0 DEF mapType
  <2> QED
    BY <2>1 DEF Structural, got
<1> QED
  BY <1>4, <1>5
LEMMA SequentialTwo ==
  ASSUME NEW k, NEW v, NEW whole
  PROVE  Sequentially(<<k, v>>, whole) = IF k \in Fails THEN k ELSE IF v \in Fails THEN v ELSE whole
<1> DEFINE ms == <<k, v>>
<1>1. DOMAIN ms = {1, 2} /\ ms[1] = k /\ ms[2] = v
  OBVIOUS
<1> HIDE DEF ms
<1>2. CASE k \in Fails
  <2>1. Sequentially(ms, whole) = ms[1]
    <3>1. DOMAIN ms \in SUBSET Nat /\ 1 \in DOMAIN ms /\ ms[1] \in Fails
      BY <1>1, <1>2
    <3>2. \A i \in DOMAIN ms : i < 1 => ms[i] \notin Fails
      BY <1>1
    <3> QED
      BY <3>1, <3>2, SequentialFirst
  <2> QED
    BY <1>1, <1>2, <2>1 DEF ms
<1>3. CASE k \notin Fails /\ v \in Fails
  <2>1. Sequentially(ms, whole) = ms[2]
    <3>1. DOMAIN ms \in SUBSET Nat /\ 2 \in DOMAIN ms /\ ms[2] \in Fails
      BY <1>1, <1>3
    <3>2. \A i \in DOMAIN ms : i < 2 => ms[i] \notin Fails
      BY <1>1, <1>3
    <3> QED
      BY <3>1, <3>2, SequentialFirst
  <2> QED
    BY <1>1, <1>3, <2>1 DEF ms
<1>4. CASE k \notin Fails /\ v \notin Fails
  <2>1. Sequentially(ms, whole) = whole
    BY <1>1, <1>4, SequentialWhole
  <2> QED
    BY <1>4, <2>1 DEF ms
<1> QED
  BY <1>2, <1>3, <1>4

LEMMA MapMeaning ==
  ASSUME NEW t, t[1] = "map", NEW of
  PROVE  Structural(of, t) =
           LET k == of[t[2]]  v == of[t[3]] IN
             IF k \in Fails THEN k ELSE IF k.mochi[1] # "scalar" THEN Unmappable
             ELSE IF v \in Fails THEN v ELSE Copying(<<"map", k.mochi, v.mochi>>)
<1> DEFINE k == of[t[2]]
           v == of[t[3]]
           whole == Copying(<<"map", k.mochi, v.mochi>>)
<1>1. Structural(of, t) = IF k \notin Fails /\ k.mochi[1] # "scalar" THEN Unmappable
                          ELSE Sequentially(<<k, v>>, whole)
  BY DEF Structural
<1> HIDE DEF k, v
<1>2. Structural(of, t) = IF k \in Fails THEN k ELSE IF k.mochi[1] # "scalar" THEN Unmappable
                          ELSE IF v \in Fails THEN v ELSE whole
  BY <1>1, SequentialTwo
<1> QED
  BY <1>2 DEF k, v

LEMMA MapComplete ==
  ASSUME NEW t, t[1] = "map", NEW V, \A m \in V : IsMapping(m), NEW got, MappedParts(t, got, V),
         Done(t, got), NEW of, \A i \in 1..Len(got) : of[Parts(t)[i]] = got[i]
  PROVE  Structural(of, t) = mapType(t, got) /\ IsMapping(mapType(t, got))
<1>1. Parts(t) = <<t[2], t[3]>> /\ ~IsRecord(t)
  BY PartsOfMap DEF IsRecord
<1>2. got \in Seq(V) /\ Len(got) \in 0..2 /\ DOMAIN got = 1..Len(got)
  <2>1. Len(Parts(t)) = 2
    BY <1>1
  <2>2. got \in Seq(V) /\ Len(got) \in Nat /\ Len(got) <= 2 /\ DOMAIN got = 1..Len(got)
    BY <2>1, MappedType
  <2>3. ASSUME NEW n \in Nat, n <= 2 PROVE n \in 0..2
    BY <2>3
  <2> QED
    BY <2>2, <2>3, Zenon
<1>3. \A i \in 1..Len(got) : IsMapping(got[i])
  BY <1>2
<1>4. ASSUME NEW m, NEW i PROVE Cuts(t, m, i) <=> m = Unmappable \/ (i = 1 /\ m.mochi[1] # "scalar")
  BY <1>1 DEF Cuts, IsScalar
<1>5. IsMapping(Unmappable)
  BY DEF IsMapping
<1>6. Len(got) = 1 \/ Len(got) = 2
  BY <1>1, <1>2 DEF Done
<1>7. CASE Len(got) = 1
  <2>1. Cuts(t, got[1], 1)
    BY <1>1, <1>2, <1>7 DEF Done, Last
  <2>2. mapType(t, got) = Unmappable
    BY <1>1, <1>2, <1>7, <2>1 DEF mapType
  <2>3. of[t[2]] = got[1] /\ IsMapping(got[1])
    BY <1>1, <1>3, <1>7
  <2>4. of[t[2]] \in Fails <=> of[t[2]] = Unmappable
    BY <2>3, MappingFails
  <2>5. Structural(of, t) = Unmappable
    BY <1>4, <2>1, <2>3, <2>4, MapMeaning
  <2> QED
    BY <1>5, <2>2, <2>5
<1>8. CASE Len(got) = 2
  <2>1. ~Cuts(t, got[1], 1)
    BY <1>8 DEF MappedParts
  <2>2. of[t[2]] = got[1] /\ IsMapping(got[1]) /\ of[t[3]] = got[2] /\ IsMapping(got[2])
    BY <1>1, <1>3, <1>8
  <2>3. got[1] # Unmappable /\ got[1].mochi[1] = "scalar" /\ got[1] \notin Fails
    BY <1>4, <2>1, <2>2, MappingFails
  <2>4. got[2] \in Fails <=> got[2] = Unmappable
    BY <2>2, MappingFails
  <2>5. Structural(of, t) = IF got[2] = Unmappable THEN Unmappable ELSE Copying(<<"map", got[1].mochi, got[2].mochi>>)
    BY <2>2, <2>3, <2>4, MapMeaning
  <2>6. (\E i \in DOMAIN got : Cuts(t, got[i], i)) <=> got[2] = Unmappable
    BY <1>2, <1>4, <1>8, <2>1
  <2>7. mapType(t, got) = IF got[2] = Unmappable THEN Unmappable ELSE Copying(<<"map", got[1].mochi, got[2].mochi>>)
    BY <1>1, <2>6 DEF mapType
  <2> QED
    BY <1>5, <2>5, <2>7, Made
<1> QED
  BY <1>6, <1>7, <1>8

LEMMA MapStuck ==
  ASSUME NEW t, t[1] = "map", NEW V, \A m \in V : IsMapping(m), NEW got, MappedParts(t, got, V),
         ~Done(t, got), NEW of, \A i \in 1..Len(got) : of[Parts(t)[i]] \in {Endless, got[i]},
         of[Parts(t)[Len(got) + 1]] = Endless
  PROVE  Structural(of, t) = Endless
<1>1. Parts(t) = <<t[2], t[3]>> /\ ~IsRecord(t)
  BY PartsOfMap DEF IsRecord
<1>2. got \in Seq(V) /\ Len(got) \in 0..2 /\ Len(got) # 2
  <2>1. Len(Parts(t)) = 2
    BY <1>1
  <2>2. got \in Seq(V) /\ Len(got) \in Nat /\ Len(got) <= 2
    BY <2>1, MappedType
  <2>3. Len(got) # 2
    BY <2>1 DEF Done
  <2>4. ASSUME NEW n \in Nat, n <= 2 PROVE n \in 0..2
    BY <2>4
  <2> QED
    BY <2>2, <2>3, <2>4, Zenon
<1>3. Endless \in Fails
  BY DEF Fails
<1>4. CASE Len(got) = 0
  <2>1. of[t[2]] = Endless
    BY <1>1, <1>4
  <2> QED
    <3> DEFINE k == of[t[2]]
               v == of[t[3]]
    <3>1. Structural(of, t) = IF k \in Fails THEN k ELSE IF k.mochi[1] # "scalar" THEN Unmappable
                              ELSE IF v \in Fails THEN v ELSE Copying(<<"map", k.mochi, v.mochi>>)
      BY MapMeaning, Zenon
    <3>2. k = Endless
      BY <2>1
    <3> HIDE DEF k, v
    <3> QED
      BY <1>3, <3>1, <3>2
<1>5. CASE Len(got) = 1
  <2>1. of[t[2]] \in {Endless, got[1]} /\ of[t[3]] = Endless
    BY <1>1, <1>5
  <2>2. ~Cuts(t, got[1], 1) /\ IsMapping(got[1])
    <3>1. got # <<>> /\ Last(got) = got[1] /\ got[1] \in V
      BY <1>2, <1>5, MappedType
    <3> QED
      BY <1>5, <3>1 DEF Done
  <2>3. got[1] \notin Fails /\ got[1].mochi[1] = "scalar"
    BY <2>2, MappingFails DEF Cuts, IsScalar
  <2> QED
    <3> DEFINE k == of[t[2]]
               v == of[t[3]]
    <3>1. Structural(of, t) = IF k \in Fails THEN k ELSE IF k.mochi[1] # "scalar" THEN Unmappable
                              ELSE IF v \in Fails THEN v ELSE Copying(<<"map", k.mochi, v.mochi>>)
      BY MapMeaning, Zenon
    <3>2. k \in {Endless, got[1]} /\ v = Endless
      BY <2>1
    <3> HIDE DEF k, v
    <3> QED
      BY <1>3, <2>3, <3>1, <3>2
<1> QED
  BY <1>2, <1>4, <1>5

LEMMA OneComplete ==
  ASSUME NEW t, NEW u, Parts(t) = <<u>>, Inner(t) \/ (t[1] = "slice" /\ t[2] # Byte) \/ (t[1] = "named" /\ DeclOf(t)[1] = "unfold"),
         NEW V, \A m \in V : IsMapping(m), NEW got, MappedParts(t, got, V),
         Done(t, got), NEW of, \A i \in 1..Len(got) : of[Parts(t)[i]] = got[i]
  PROVE  Structural(of, t) = mapType(t, got) /\ IsMapping(mapType(t, got))
<1>1. got \in Seq(V) /\ Len(got) = 1
  BY DEF MappedParts, Done
<1> DEFINE m == got[1]
<1>2. got = <<m>> /\ IsMapping(m) /\ of[u] = m
  <2>1. m \in V /\ got = <<m>>
    BY <1>1
  <2>2. 1 \in 1..Len(got) /\ Parts(t)[1] = u
    BY <1>1
  <2>3. of[u] = m
    BY <2>2, Zenon
  <2>4. IsMapping(m)
    BY <2>1, Zenon
  <2> QED
    BY <2>1, <2>3, <2>4
<1> HIDE DEF m
<1>3. CASE Inner(t) \/ (t[1] = "slice" /\ t[2] # Byte)
  <2>1. u = t[2]
    BY <1>3, PartsOfInner
  <2>2. Structural(of, t) = Sequentially(<<m>>, Lifted(t, m))
    BY <1>2, <1>3, <2>1, InnerMeaning
  <2>3. Structural(of, t) = IF m = Unmappable THEN Unmappable ELSE Lifted(t, m)
    BY <1>2, <2>2, SequentialOne, MappingFails
  <2>4. mapType(t, <<m>>) = (IF m = Unmappable THEN Unmappable ELSE Lifted(t, m)) /\ IsMapping(mapType(t, <<m>>))
    BY <1>2, <1>3, InnerAnswer
  <2> QED
    BY <1>2, <2>3, <2>4
<1>4. CASE t[1] = "named" /\ DeclOf(t)[1] = "unfold"
  <2>1. u = DeclOf(t)[2]
    BY <1>4, PartsOfUnfold
  <2> QED
    BY <1>2, <1>4, <2>1, UnfoldMeaning
<1> QED
  BY <1>3, <1>4

LEMMA OneStuck ==
  ASSUME NEW t, NEW u, Parts(t) = <<u>>, Inner(t) \/ (t[1] = "slice" /\ t[2] # Byte) \/ (t[1] = "named" /\ DeclOf(t)[1] = "unfold"),
         NEW V, NEW got, MappedParts(t, got, V),
         ~Done(t, got), NEW of, of[Parts(t)[Len(got) + 1]] = Endless
  PROVE  Structural(of, t) = Endless
<1>1. got \in Seq(V) /\ Len(got) = 0
  BY DEF MappedParts, Done
<1>2. of[u] = Endless /\ Endless \in Fails
  BY <1>1 DEF Fails
<1>3. CASE Inner(t) \/ (t[1] = "slice" /\ t[2] # Byte)
  <2>1. u = t[2]
    BY <1>3, PartsOfInner
  <2>2. Structural(of, t) = Sequentially(<<Endless>>, Lifted(t, Endless))
    BY <1>2, <1>3, <2>1, InnerMeaning
  <2> QED
    BY <1>2, <2>2, SequentialOne
<1>4. CASE t[1] = "named" /\ DeclOf(t)[1] = "unfold"
  <2>1. u = DeclOf(t)[2]
    BY <1>4, PartsOfUnfold
  <2>2. IsMapping(Unmappable)
    BY DEF IsMapping
  <2> QED
    BY <1>2, <1>4, <2>1, <2>2, UnfoldMeaning
<1> QED
  BY <1>3, <1>4
\* The meanings of some types, in their order; and of all.
Each(of, ts) == [i \in DOMAIN ts |-> of[ts[i]]]
EachOf(of)   == {of[u] : u \in Types}

LEMMA EachType ==
  ASSUME NEW of, NEW ts \in Seq(Types)
  PROVE  /\ Each(of, ts) \in Seq(EachOf(of)) /\ Len(Each(of, ts)) = Len(ts)
         /\ DOMAIN Each(of, ts) = 1..Len(ts)
         /\ \A i \in 1..Len(ts) : Each(of, ts)[i] = of[ts[i]]
<1>1. Len(ts) \in Nat /\ DOMAIN ts = 1..Len(ts) /\ \A i \in 1..Len(ts) : ts[i] \in Types
  OBVIOUS
<1>2. Each(of, ts) = [i \in 1..Len(ts) |-> of[ts[i]]]
  BY <1>1 DEF Each
<1>3. \A i \in 1..Len(ts) : of[ts[i]] \in EachOf(of)
  BY <1>1 DEF EachOf
<1> QED
  BY <1>1, <1>2, <1>3

LEMMA EachConcat ==
  ASSUME NEW of, NEW ps \in Seq(Types), NEW rs \in Seq(Types)
  PROVE  Each(of, ps) \o Each(of, rs) = Each(of, ps \o rs)
<1> DEFINE X == EachOf(of)
           a == Each(of, ps)
           b == Each(of, rs)
           c == Each(of, ps \o rs)
<1>1. ps \o rs \in Seq(Types) /\ Len(ps \o rs) = Len(ps) + Len(rs)
  OBVIOUS
<1>2. a \in Seq(X) /\ Len(a) = Len(ps) /\ \A i \in 1..Len(ps) : a[i] = of[ps[i]]
  BY EachType
<1>3. b \in Seq(X) /\ Len(b) = Len(rs) /\ \A i \in 1..Len(rs) : b[i] = of[rs[i]]
  BY EachType
<1>4. /\ c \in Seq(X) /\ Len(c) = Len(ps) + Len(rs)
      /\ \A i \in 1..(Len(ps) + Len(rs)) : c[i] = of[(ps \o rs)[i]]
  <2> DEFINE q == ps \o rs
  <2>1. q \in Seq(Types) /\ Len(q) = Len(ps) + Len(rs)
    BY <1>1
  <2> HIDE DEF q
  <2>2. Each(of, q) \in Seq(X) /\ Len(Each(of, q)) = Len(q) /\ \A i \in 1..Len(q) : Each(of, q)[i] = of[q[i]]
    BY <2>1, EachType
  <2> QED
    BY <2>1, <2>2 DEF q
<1>5. a \o b \in Seq(X) /\ Len(a \o b) = Len(ps) + Len(rs)
  <2>1. a \in Seq(X) /\ b \in Seq(X)
    BY <1>2, <1>3
  <2> HIDE DEF a, b, X
  <2>2. a \o b \in Seq(X) /\ Len(a \o b) = Len(a) + Len(b)
    BY <2>1
  <2> QED
    BY <1>2, <1>3, <2>2
<1>6. Len(ps) \in Nat /\ Len(rs) \in Nat
  OBVIOUS
<1>7. ASSUME NEW i \in 1..(Len(ps) + Len(rs)) PROVE (a \o b)[i] = c[i]
  <2>1. CASE i <= Len(ps)
    <3>1. i \in 1..Len(ps) /\ (ps \o rs)[i] = ps[i]
      BY <1>6, <2>1
    <3>2. (a \o b)[i] = a[i]
      <4> HIDE DEF a, b, X
      <4> QED
        BY <1>2, <1>3, <3>1
    <3> HIDE DEF a, b, c
    <3> QED
      BY <1>2, <1>4, <3>1, <3>2
  <2>2. CASE i > Len(ps)
    <3>1. i - Len(ps) \in 1..Len(rs) /\ (ps \o rs)[i] = rs[i - Len(ps)]
      BY <1>6, <2>2
    <3>2. (a \o b)[i] = b[i - Len(ps)]
      <4> HIDE DEF a, b, X
      <4> QED
        BY <1>2, <1>3, <1>6, <2>2
    <3> HIDE DEF a, b, c
    <3> QED
      BY <1>3, <1>4, <3>1, <3>2
  <2>3. i \in Int /\ Len(ps) \in Int
    BY <1>6
  <2>4. i <= Len(ps) \/ i > Len(ps)
    BY <2>3
  <2> QED
    BY <2>1, <2>2, <2>4
<1> HIDE DEF a, b, c, X
<1>8. a \o b = c
  <2> DEFINE ab == a \o b
  <2>1. ab \in Seq(X) /\ c \in Seq(X) /\ Len(ab) = Len(c)
    BY <1>4, <1>5
  <2>2. \A i \in 1..Len(ab) : ab[i] = c[i]
    BY <1>5, <1>7
  <2> HIDE DEF ab
  <2>3. ab = c
    BY <2>1, <2>2, SeqEqual, Zenon
  <2> QED
    BY <2>3 DEF ab
<1> QED
  BY <1>8 DEF a, b, c

\* The mappings of a function type's parameters, a list for the variadic one.
Listed(ps, ms) == IF IsVariadic(ps) THEN [ms EXCEPT ![Len(ms)] = <<"list", @>>] ELSE ms

FuncOf(t, of) ==
  Handling(<<"func", Listed(t[2], Mochis(Each(of, Params(t[2])))), Mochis(Each(of, t[3]))>>)

LEMMA FuncMeaning ==
  ASSUME NEW t, t[1] = "func", t[2] \in Seq(Types), t[3] \in Seq(Types), NEW of
  PROVE  Structural(of, t) = Sequentially(Each(of, Parts(t)), FuncOf(t, of))
<1>1. Params(t[2]) \in Seq(Types)
  BY ParamsType
<1>2. Parts(t) = Params(t[2]) \o t[3]
  BY PartsOfFunc
<1>3. Each(of, Params(t[2])) \o Each(of, t[3]) = Each(of, Parts(t))
  BY <1>1, <1>2, EachConcat, SMTT(30)
<1>4. Structural(of, t) = Sequentially(Each(of, Params(t[2])) \o Each(of, t[3]), FuncOf(t, of))
  BY Zenon DEF Structural, Each, FuncOf, Listed
<1> QED
  BY <1>3, <1>4
LEMMA MochisType ==
  ASSUME NEW V, NEW ms \in Seq(V)
  PROVE  /\ Mochis(ms) \in Seq({m.mochi : m \in V}) /\ Len(Mochis(ms)) = Len(ms)
         /\ \A i \in 1..Len(ms) : Mochis(ms)[i] = ms[i].mochi
<1>1. Len(ms) \in Nat /\ DOMAIN ms = 1..Len(ms) /\ \A i \in 1..Len(ms) : ms[i] \in V
  OBVIOUS
<1>2. Mochis(ms) = [i \in 1..Len(ms) |-> ms[i].mochi]
  BY <1>1 DEF Mochis
<1>3. \A i \in 1..Len(ms) : ms[i].mochi \in {m.mochi : m \in V}
  BY <1>1
<1> QED
  BY <1>1, <1>2, <1>3

LEMMA FuncAnswer ==
  ASSUME NEW t, t[1] = "func", t[2] \in Seq(Types), t[3] \in Seq(Types), NEW V,
         NEW got \in Seq(V), Len(got) = Len(Parts(t)), NEW of, \A i \in 1..Len(got) : of[Parts(t)[i]] = got[i]
  PROVE  mapFunc(t, got) = FuncOf(t, of)
<1> DEFINE ps == Params(t[2])
           rs == t[3]
           n  == Len(t[2])
           ms == Mochis(got)
           X  == EachOf(of)
           Y  == {m.mochi : m \in V}
           Z  == {m.mochi : m \in X}
           A  == Mochis(Each(of, ps))
           B  == Mochis(Each(of, rs))
           C  == SubSeq(ms, 1, n)
           D  == SubSeq(ms, n + 1, Len(ms))
<1>1. ps \in Seq(Types) /\ Len(ps) = n /\ rs \in Seq(Types) /\ n \in Nat /\ Len(rs) \in Nat
  BY ParamsType
<1>2. Parts(t) = ps \o rs
  BY PartsOfFunc
<1> HIDE DEF ps, rs, n
<1>3. A \in Seq(Z) /\ Len(A) = n /\ \A i \in 1..n : A[i] = of[ps[i]].mochi
  <2> DEFINE e == Each(of, ps)
  <2>0. e \in Seq(X) /\ Len(e) = Len(ps) /\ \A i \in 1..Len(ps) : e[i] = of[ps[i]]
    <3>1. ps \in Seq(Types)
      BY <1>1
    <3>2. /\ Each(of, ps) \in Seq(EachOf(of)) /\ Len(Each(of, ps)) = Len(ps)
          /\ \A i \in 1..Len(ps) : Each(of, ps)[i] = of[ps[i]]
      BY <3>1, EachType
    <3> QED
      BY <3>2
  <2>1. e \in Seq(X) /\ Len(e) = n /\ \A i \in 1..n : e[i] = of[ps[i]]
    BY <1>1, <2>0, Zenon
  <2> HIDE DEF e, X
  <2>2. Mochis(e) \in Seq(Z) /\ Len(Mochis(e)) = n /\ \A i \in 1..n : Mochis(e)[i] = e[i].mochi
    BY <2>1, MochisType
  <2> QED
    BY <2>1, <2>2 DEF e
<1>4. B \in Seq(Z) /\ Len(B) = Len(rs) /\ \A i \in 1..Len(rs) : B[i] = of[rs[i]].mochi
  <2> DEFINE e == Each(of, rs)
  <2>1. e \in Seq(X) /\ Len(e) = Len(rs) /\ \A i \in 1..Len(rs) : e[i] = of[rs[i]]
    <3>1. rs \in Seq(Types)
      BY <1>1
    <3>2. /\ Each(of, rs) \in Seq(EachOf(of)) /\ Len(Each(of, rs)) = Len(rs)
          /\ \A i \in 1..Len(rs) : Each(of, rs)[i] = of[rs[i]]
      BY <3>1, EachType
    <3> QED
      BY <3>2
  <2> HIDE DEF e, X
  <2>2. Mochis(e) \in Seq(Z) /\ Len(Mochis(e)) = Len(rs) /\ \A i \in 1..Len(rs) : Mochis(e)[i] = e[i].mochi
    BY <2>1, MochisType
  <2> QED
    BY <2>1, <2>2 DEF e
<1>5. Len(got) = n + Len(rs)
  <2>1. Len(ps \o rs) = Len(ps) + Len(rs)
    BY <1>1, ConcatProperties
  <2> QED
    BY <1>1, <1>2, <2>1
<1>6. ms \in Seq(Y) /\ Len(ms) = n + Len(rs) /\ \A i \in 1..(n + Len(rs)) : ms[i] = of[(ps \o rs)[i]].mochi
  <2>1. ms \in Seq(Y) /\ Len(ms) = Len(got) /\ \A i \in 1..Len(got) : ms[i] = got[i].mochi
    BY MochisType
  <2> HIDE DEF ms, Y, n, ps, rs
  <2> QED
    BY <1>2, <1>5, <2>1
<1>7. \A i \in 1..n : i \in 1..(n + Len(rs)) /\ (ps \o rs)[i] = ps[i]
  <2> HIDE DEF ps, rs, n
  <2> QED
    BY <1>1
<1>8. \A i \in 1..Len(rs) : n + i \in 1..(n + Len(rs)) /\ (ps \o rs)[n + i] = rs[i]
  <2> HIDE DEF ps, rs, n
  <2> QED
    BY <1>1
<1> HIDE DEF A, B, ms, X, Y, Z, ps, rs, n
<1>9. C \in Seq(Y) /\ Len(C) = n /\ \A i \in 1..n : C[i] = ms[i]
  BY <1>1, <1>6
<1>10. D \in Seq(Y) /\ Len(D) = Len(rs) /\ \A i \in 1..Len(rs) : D[i] = ms[n + i]
  <2>1. n + 1 \in Nat /\ Len(ms) \in Nat /\ Len(ms) - (n + 1) + 1 = Len(rs)
    BY <1>1, <1>6
  <2>2. n + 1 \in 1..(Len(ms) + 1) /\ Len(ms) \in ((n + 1) - 1)..Len(ms)
    BY <1>1, <1>6
  <2>3. /\ D \in Seq(Y) /\ Len(D) = Len(ms) - (n + 1) + 1
        /\ \A i \in 1..(Len(ms) - (n + 1) + 1) : D[i] = ms[(n + 1) + i - 1]
    <3> DEFINE a == n + 1
               b == Len(ms)
    <3>1. a \in Int /\ b \in Int /\ (b - a + 1 = IF a <= b THEN b - a + 1 ELSE 0)
      BY <1>1, <1>6
    <3>2. \A i \in a..b : ms[i] \in Y
      BY <1>1, <1>6
    <3> HIDE DEF a, b
    <3>3. /\ SubSeq(ms, a, b) \in Seq(Y) /\ Len(SubSeq(ms, a, b)) = b - a + 1
          /\ \A i \in 1..(b - a + 1) : SubSeq(ms, a, b)[i] = ms[a + i - 1]
      BY <3>1, <3>2, SubSeqProperties
    <3> QED
      BY <3>3 DEF a, b
  <2>4. ASSUME NEW i \in 1..Len(rs) PROVE (n + 1) + i - 1 = n + i
    BY <1>1
  <2> HIDE DEF D
  <2> QED
    BY <2>1, <2>3, <2>4
<1> HIDE DEF C, D
<1>11. A = C
  <2>1. ASSUME NEW i \in 1..n PROVE A[i] = C[i]
    <3>1. i \in 1..(n + Len(rs)) /\ (ps \o rs)[i] = ps[i]
      BY <1>7
    <3>2. ms[i] = of[(ps \o rs)[i]].mochi
      BY <1>6, <3>1, Zenon
    <3> QED
      BY <1>3, <1>9, <3>1, <3>2, Zenon
  <2> QED
    BY <1>1, <1>3, <1>9, <2>1
<1>12. B = D
  <2>1. ASSUME NEW i \in 1..Len(rs) PROVE B[i] = D[i]
    <3>1. n + i \in 1..(n + Len(rs)) /\ (ps \o rs)[n + i] = rs[i]
      BY <1>8
    <3>2. ms[n + i] = of[(ps \o rs)[n + i]].mochi
      BY <1>6, <3>1, Zenon
    <3> QED
      BY <1>4, <1>10, <3>1, <3>2, Zenon
  <2>2. B \in Seq(Z) /\ D \in Seq(Y) /\ Len(B) = Len(D) /\ \A i \in 1..Len(B) : B[i] = D[i]
    BY <1>4, <1>10, <2>1
  <2>3. B \in Seq(Z \cup Y) /\ D \in Seq(Z \cup Y)
    BY <2>2
  <2> QED
    BY <2>2, <2>3, SeqEqual
<1>13. mapFunc(t, got) = Handling(<<"func", IF IsVariadic(t[2]) THEN [C EXCEPT ![n] = <<"list", @>>] ELSE C, D>>)
  BY Zenon DEF mapFunc, n, ms, C, D
<1>14. FuncOf(t, of) = Handling(<<"func", IF IsVariadic(t[2]) THEN [A EXCEPT ![Len(A)] = <<"list", @>>] ELSE A, B>>)
  BY Zenon DEF FuncOf, Listed, A, B, ps, rs
<1> QED
  <2>1. Len(C) = n
    BY <1>9
  <2>2. FuncOf(t, of) = Handling(<<"func", IF IsVariadic(t[2]) THEN [C EXCEPT ![n] = <<"list", @>>] ELSE C, D>>)
    BY <1>11, <1>12, <1>14, <2>1, Zenon
  <2> QED
    BY <1>13, <2>2

LEMMA FuncComplete ==
  ASSUME NEW t, t[1] = "func", t[2] \in Seq(Types), t[3] \in Seq(Types), Parts(t) \in Seq(Types),
         NEW V, \A m \in V : IsMapping(m), NEW got, MappedParts(t, got, V),
         Done(t, got), NEW of, \A i \in 1..Len(got) : of[Parts(t)[i]] = got[i]
  PROVE  Structural(of, t) = mapType(t, got) /\ IsMapping(mapType(t, got))
<1> DEFINE E == Each(of, Parts(t))
           k == Len(got)
<1>1. ~IsRecord(t) /\ \A m, i : Cuts(t, m, i) <=> m = Unmappable
  BY DEF IsRecord, Cuts
<1>2. /\ got \in Seq(V) /\ k \in Nat /\ DOMAIN got = 1..k /\ k <= Len(Parts(t))
      /\ (k # 0 => got # <<>> /\ Last(got) = got[k]) /\ \A i \in 1..k : got[i] \in V
  BY MappedType
<1>3. DOMAIN E = 1..Len(Parts(t)) /\ \A i \in 1..k : E[i] = got[i]
  <2>1. DOMAIN E = 1..Len(Parts(t)) /\ \A i \in 1..Len(Parts(t)) : E[i] = of[Parts(t)[i]]
    BY EachType
  <2>2. \A i \in 1..k : i \in 1..Len(Parts(t))
    BY <1>2
  <2> QED
    BY <2>1, <2>2
<1>4. Structural(of, t) = Sequentially(E, FuncOf(t, of))
  BY FuncMeaning
<1> HIDE DEF E
<1>5. ASSUME NEW i \in 1..(k - 1) PROVE i \in 1..k /\ got[i] # Unmappable /\ got[i] \notin Fails
  <2>1. i \in 1..k /\ got[i] # Unmappable
    BY <1>1, <1>2 DEF MappedParts
  <2>2. IsMapping(got[i])
    BY <1>2, <2>1
  <2> QED
    BY <2>1, <2>2, MappingFails
<1>6. CASE k # 0 /\ got[k] = Unmappable
  <2>1. k \in DOMAIN E /\ E[k] = Unmappable /\ Unmappable \in Fails /\ DOMAIN E \in SUBSET Nat
    BY <1>2, <1>3, <1>6 DEF Fails
  <2>2. ASSUME NEW i \in DOMAIN E, i < k PROVE E[i] \notin Fails
    <3>1. i \in 1..(k - 1)
      BY <1>2, <1>3, <2>2
    <3> QED
      BY <1>3, <1>5, <3>1
  <2>3. Sequentially(E, FuncOf(t, of)) = E[k]
    <3> HIDE DEF k
    <3> QED
      BY <2>1, <2>2, SequentialFirst
  <2>4. k \in DOMAIN got /\ Cuts(t, got[k], k)
    BY <1>1, <1>2, <1>6
  <2>5. mapType(t, got) = Unmappable
    <3> HIDE DEF k
    <3> QED
      BY <1>1, <2>4 DEF mapType
  <2> QED
    BY <1>4, <2>1, <2>3, <2>5 DEF IsMapping
<1>7. CASE ~(k # 0 /\ got[k] = Unmappable)
  <2>1. k = Len(Parts(t))
    <3>1. got = <<>> => k = 0
      BY <1>2
    <3> QED
      BY <1>1, <1>2, <1>7, <3>1 DEF Done
  <2>2. ASSUME NEW i \in 1..k PROVE got[i] # Unmappable /\ got[i] \notin Fails
    <3>1. CASE i = k
      <4>1. got[i] # Unmappable /\ IsMapping(got[i])
        BY <1>2, <1>7, <3>1
      <4> QED
        BY <4>1, MappingFails
    <3>2. CASE i # k
      <4>1. i \in 1..(k - 1)
        <5> HIDE DEF k
        <5> QED
          BY <1>2, <3>2
      <4> QED
        BY <1>5, <4>1
    <3> QED
      BY <3>1, <3>2
  <2>3. Sequentially(E, FuncOf(t, of)) = FuncOf(t, of)
    <3>1. \A i \in DOMAIN E : E[i] \notin Fails
      BY <1>3, <2>1, <2>2
    <3> QED
      BY <3>1, SequentialWhole
  <2>4. ~ \E i \in DOMAIN got : Cuts(t, got[i], i)
    BY <1>1, <1>2, <2>2
  <2>5. mapType(t, got) = mapFunc(t, got)
    BY <1>1, <2>4 DEF mapType
  <2>6. mapFunc(t, got) = FuncOf(t, of)
    BY <1>2, <2>1, FuncAnswer
  <2>7. IsMapping(FuncOf(t, of))
    BY Made DEF FuncOf
  <2> QED
    BY <1>4, <2>3, <2>5, <2>6, <2>7
<1> QED
  BY <1>6, <1>7

LEMMA FuncStuck ==
  ASSUME NEW t, t[1] = "func", t[2] \in Seq(Types), t[3] \in Seq(Types), Parts(t) \in Seq(Types),
         NEW V, \A m \in V : IsMapping(m), NEW got, MappedParts(t, got, V),
         ~Done(t, got), NEW of, \A i \in 1..Len(got) : of[Parts(t)[i]] \in {Endless, got[i]},
         of[Parts(t)[Len(got) + 1]] = Endless
  PROVE  Structural(of, t) = Endless
<1> DEFINE E == Each(of, Parts(t))
           k == Len(got)
<1>1. \A m, i : Cuts(t, m, i) <=> m = Unmappable
  BY DEF IsRecord, Cuts
<1>2. /\ got \in Seq(V) /\ k \in Nat /\ k <= Len(Parts(t)) /\ Len(Parts(t)) \in Nat
      /\ (k # 0 => got # <<>> /\ Last(got) = got[k]) /\ \A i \in 1..k : got[i] \in V
  BY MappedType
<1>3. k + 1 \in 1..Len(Parts(t)) /\ (k # 0 => got[k] # Unmappable)
  <2>1. k # Len(Parts(t)) /\ (got # <<>> => Last(got) # Unmappable)
    BY <1>1 DEF Done
  <2> QED
    BY <1>2, <2>1
<1>4. ASSUME NEW i \in 1..k PROVE got[i] \notin Fails
  <2>1. got[i] # Unmappable
    <3>1. CASE i = k
      BY <1>3, <3>1
    <3>2. CASE i # k
      <4>1. i \in 1..(k - 1)
        BY <1>2, <3>2
      <4> QED
        BY <1>1, <4>1 DEF MappedParts
    <3> QED
      BY <3>1, <3>2
  <2>2. IsMapping(got[i])
    BY <1>2
  <2> QED
    BY <2>1, <2>2, MappingFails
<1>5. /\ DOMAIN E = 1..Len(Parts(t)) /\ E[k + 1] = Endless
      /\ \A i \in 1..k : E[i] \in {Endless, got[i]}
  <2>1. DOMAIN E = 1..Len(Parts(t)) /\ \A i \in 1..Len(Parts(t)) : E[i] = of[Parts(t)[i]]
    BY EachType
  <2>2. \A i \in 1..k : i \in 1..Len(Parts(t))
    BY <1>2
  <2> QED
    BY <1>3, <2>1, <2>2
<1>6. Structural(of, t) = Sequentially(E, FuncOf(t, of))
  BY FuncMeaning
<1> DEFINE bad == {i \in 1..(k + 1) : E[i] \in Fails}
<1>7. k + 1 \in bad
  BY <1>2, <1>5 DEF Fails
<1>8. PICK j \in bad : \A i \in bad : j <= i
  <2>1. bad \in SUBSET Nat
    OBVIOUS
  <2> HIDE DEF bad
  <2> QED
    BY <1>7, <2>1, Least
<1>9. E[j] = Endless
  <2>1. CASE j = k + 1
    BY <1>5, <2>1
  <2>2. CASE j # k + 1
    <3>1. j \in 1..k /\ E[j] \in Fails
      BY <1>2, <1>8, <2>2
    <3> QED
      BY <1>4, <1>5, <3>1
  <2> QED
    BY <2>1, <2>2
<1>10. j \in DOMAIN E /\ E[j] \in Fails /\ DOMAIN E \in SUBSET Nat /\ j \in Nat
  BY <1>2, <1>3, <1>5, <1>8
<1>11. ASSUME NEW i \in DOMAIN E, i < j PROVE E[i] \notin Fails
  <2>1. i \in 1..(k + 1) /\ ~(j <= i)
    BY <1>2, <1>5, <1>8, <1>11
  <2> QED
    BY <1>8, <2>1
<1>12. Sequentially(E, FuncOf(t, of)) = E[j]
  <2> HIDE DEF E, bad, k
  <2> QED
    BY <1>10, <1>11, SequentialFirst
<1> QED
  BY <1>6, <1>9, <1>12
\* The fields that are looked at for a struct, and what they mean: E is what all mean,
\* k of them are mapped, and L are shown.
RecordFacts(t, of, fs, got, E, k, L) ==
  /\ Structural(of, t) = RecordMeaning(t[3], fs, E)
  /\ mapType(t, got) = mapStructDecl(t, got)
  /\ DOMAIN fs = 1..Len(fs) /\ Len(fs) \in Nat /\ k \in Nat /\ L \in Nat /\ k <= L /\ L <= Len(fs)
  /\ DOMAIN got = 1..k
  /\ \A i \in 1..L : fs[i].exported /\ E[i] = of[Parts(t)[i]]
  /\ Visible(t) = 0 => L = Len(fs)
  /\ Visible(t) # 0 => L + 1 \in 1..Len(fs) /\ ~fs[L + 1].exported
  /\ \A i \in 1..k : IsMapping(got[i])
  /\ \A i \in 1..(k - 1) : got[i].dir = "copy"
  /\ Done(t, got) <=> k = L \/ (k # 0 /\ got[k].dir # "copy")

LEMMA RecordVisit ==
  ASSUME NEW t, t[1] = "named", NEW fs \in Seq(FieldSet), DeclOf(t) = <<"struct", fs>>, NEW of,
         NEW V, \A m \in V : IsMapping(m), NEW got, MappedParts(t, got, V)
  PROVE  RecordFacts(t, of, fs, got, [i \in DOMAIN fs |-> of[fs[i].type]], Len(got), Len(Parts(t)))
<1> DEFINE E == [i \in DOMAIN fs |-> of[fs[i].type]]
           k == Len(got)
           L == Len(Parts(t))
<1>1. /\ IsRecord(t) /\ Fields(t) = fs /\ L = Len(Shown(t)) /\ Parts(t) \in Seq(Types)
      /\ \A i \in 1..L : Parts(t)[i] = fs[i].type
  BY PartsOfFields
<1>2. /\ L \in Nat /\ L <= Len(fs) /\ \A i \in 1..L : fs[i].exported
      /\ Visible(t) = 0 => L = Len(fs)
      /\ Visible(t) # 0 => L + 1 \in 1..Len(fs) /\ ~fs[L + 1].exported
  <2>1. L \in Nat
    BY <1>1
  <2> DEFINE sh == Shown(t)
  <2>2. /\ Len(sh) <= Len(fs) /\ \A i \in 1..Len(sh) : fs[i].exported
        /\ Visible(t) = 0 => Len(sh) = Len(fs)
        /\ Visible(t) # 0 => Len(sh) + 1 \in 1..Len(fs) /\ ~fs[Len(sh) + 1].exported
    BY <1>1, ShownFields
  <2> HIDE DEF sh
  <2>3. L = Len(sh)
    BY <1>1 DEF sh
  <2> HIDE DEF L
  <2> QED
    BY <2>1, <2>2, <2>3
<1>3. Structural(of, t) = RecordMeaning(t[3], fs, E)
  BY DEF Structural
<1>4. mapType(t, got) = mapStructDecl(t, got)
  BY <1>1 DEF mapType, mapNamed
<1>5. /\ got \in Seq(V) /\ k \in Nat /\ DOMAIN got = 1..k /\ k <= L
      /\ (k # 0 => got # <<>> /\ Last(got) = got[k]) /\ \A i \in 1..k : got[i] \in V
  BY MappedType
<1>6. DOMAIN fs = 1..Len(fs) /\ Len(fs) \in Nat
  OBVIOUS
<1>7. ASSUME NEW i \in 1..L PROVE E[i] = of[Parts(t)[i]]
  <2>1. i \in DOMAIN fs /\ Parts(t)[i] = fs[i].type
    <3>1. i \in 1..Len(fs)
      <4>1. L \in Nat /\ L <= Len(fs) /\ i \in 1..L /\ Len(fs) \in Nat
        BY <1>2, <1>6
      <4> HIDE DEF L
      <4> QED
        BY <4>1
    <3> QED
      BY <1>1, <1>6, <3>1
  <2> QED
    BY <2>1
<1>8. ASSUME NEW i \in 1..k, NEW j PROVE IsMapping(got[i]) /\ (Cuts(t, got[i], j) <=> got[i].dir # "copy")
  <2>1. IsMapping(got[i])
    BY <1>5
  <2>2. Cuts(t, got[i], j) <=> got[i] = Unmappable \/ got[i].dir = "handle"
    BY <1>1 DEF Cuts, IsRecord
  <2> QED
    BY <2>1, <2>2, Failures DEF IsMapping
<1>9. ASSUME NEW i \in 1..(k - 1) PROVE got[i].dir = "copy"
  <2>1. i \in 1..k
    BY <1>5
  <2>2. ~Cuts(t, got[i], i)
    BY DEF MappedParts
  <2> QED
    BY <1>8, <2>1, <2>2
<1>10. Done(t, got) <=> k = L \/ (k # 0 /\ got[k].dir # "copy")
  <2>1. got # <<>> <=> k # 0
    BY <1>5
  <2>2. k # 0 => (Cuts(t, Last(got), k) <=> got[k].dir # "copy")
    <3> SUFFICES ASSUME k # 0 PROVE Cuts(t, got[k], k) <=> got[k].dir # "copy"
      BY <1>5
    <3>1. k \in 1..k
      BY <1>5
    <3> HIDE DEF k
    <3> QED
      BY <1>8, <3>1
  <2> QED
    BY <2>1, <2>2 DEF Done
<1>11. \A i \in 1..k : IsMapping(got[i])
  BY <1>5
<1> HIDE DEF E, k, L
<1>12. RecordFacts(t, of, fs, got, E, k, L)
  BY <1>2, <1>3, <1>4, <1>5, <1>6, <1>7, <1>9, <1>10, <1>11, Zenon DEF RecordFacts
<1> QED
  BY <1>12, Zenon DEF E, k, L

LEMMA RecordComplete ==
  ASSUME NEW t, t[1] = "named", NEW fs \in Seq(FieldSet), DeclOf(t) = <<"struct", fs>>,
         NEW V, \A m \in V : IsMapping(m), NEW got, MappedParts(t, got, V),
         Done(t, got), NEW of, \A i \in 1..Len(got) : of[Parts(t)[i]] = got[i]
  PROVE  Structural(of, t) = mapType(t, got) /\ IsMapping(mapType(t, got))
<1> DEFINE E == [i \in DOMAIN fs |-> of[fs[i].type]]
           k == Len(got)
           L == Len(Parts(t))
<1>0. RecordFacts(t, of, fs, got, E, k, L)
  BY RecordVisit, Zenon
<1>1. /\ DOMAIN fs = 1..Len(fs) /\ Len(fs) \in Nat /\ k \in Nat /\ L \in Nat /\ k <= L /\ L <= Len(fs)
      /\ DOMAIN got = 1..k
  BY <1>0, Zenon DEF RecordFacts
<1>2. DOMAIN E = 1..Len(fs)
  BY <1>1
<1>3. \A i \in 1..k : of[Parts(t)[i]] = got[i]
  OBVIOUS
<1>4. ToSet(got) = {got[i] : i \in 1..k}
  BY <1>1 DEF ToSet
<1> HIDE DEF E, k, L
<1>5. ASSUME NEW i \in 1..k PROVE fs[i].exported /\ E[i] = got[i] /\ i \in 1..Len(fs)
  <2>1. i \in 1..L /\ i \in 1..Len(fs)
    BY <1>1
  <2>2. fs[i].exported /\ E[i] = of[Parts(t)[i]]
    BY <1>0, <2>1, Zenon DEF RecordFacts
  <2> QED
    BY <1>3, <2>1, <2>2
<1>6. ASSUME NEW i \in 1..k
      PROVE  /\ IsMapping(got[i])
             /\ got[i].dir = "copy" \/ got[i] = Unmappable \/ got[i].dir = "handle"
  <2>1. IsMapping(got[i])
    BY <1>0, Zenon DEF RecordFacts
  <2> QED
    BY <2>1 DEF IsMapping
<1>a. \A i \in 1..(k - 1) : got[i].dir = "copy"
  BY <1>0, Zenon DEF RecordFacts
<1>b. /\ Structural(of, t) = RecordMeaning(t[3], fs, E)
      /\ mapType(t, got) = mapStructDecl(t, got)
  BY <1>0, Zenon DEF RecordFacts
<1>c. k = L \/ (k # 0 /\ got[k].dir # "copy")
  BY <1>0, Zenon DEF RecordFacts
<1>d. Visible(t) = 0 => L = Len(fs)
  BY <1>0, Zenon DEF RecordFacts
<1>e. Visible(t) # 0 => L + 1 \in 1..Len(fs) /\ ~fs[L + 1].exported
  BY <1>0, Zenon DEF RecordFacts
<1>7. CASE k # 0 /\ got[k].dir # "copy"
  <2>1. k \in 1..k /\ k \in DOMAIN fs /\ ~Plain(fs[k], E[k]) /\ E[k] # Endless
    <3>1. k \in 1..k
      BY <1>1, <1>7
    <3>2. IsMapping(got[k]) /\ E[k] = got[k] /\ k \in DOMAIN fs
      BY <1>1, <1>5, <1>6, <3>1
    <3> QED
      BY <1>7, <3>1, <3>2, MappingFails DEF Plain
  <2>2. ASSUME NEW i \in DOMAIN fs, i < k PROVE Plain(fs[i], E[i])
    <3>1. i \in 1..(k - 1) /\ i \in 1..k
      BY <1>1, <2>2
    <3> QED
      BY <1>a, <1>5, <3>1 DEF Plain
  <2>3. RecordMeaning(t[3], fs, E) = HandleTo(<<"bare", t[3]>>)
    <3>1. DOMAIN fs \in SUBSET Nat
      BY <1>1
    <3>2. RecordMeaning(t[3], fs, E) = IF fs[k].exported /\ E[k] = Endless THEN Endless ELSE HandleTo(<<"bare", t[3]>>)
      BY <2>1, <2>2, <3>1, RecordFirst
    <3> QED
      BY <2>1, <3>2
  <2>4. mapStructDecl(t, got) = HandleTo(<<"bare", t[3]>>)
    <3>1. got[k] = Unmappable \/ got[k].dir = "handle"
      BY <1>6, <1>7, <2>1
    <3>2. k \in DOMAIN got /\ got[k] \in ToSet(got)
      BY <1>1, <1>4, <2>1
    <3>3. Unmappable \in ToSet(got) \/ \E i \in DOMAIN got : got[i].dir = "handle"
      BY <3>1, <3>2
    <3> QED
      BY <3>3 DEF mapStructDecl
  <2> QED
    BY <1>b, <2>3, <2>4, Made
<1>8. CASE ~(k # 0 /\ got[k].dir # "copy")
  <2>1. k = L
    BY <1>c, <1>8
  <2>2. ASSUME NEW i \in 1..k PROVE got[i].dir = "copy" /\ got[i] # Unmappable /\ got[i].dir # "handle"
    <3>1. got[i].dir = "copy"
      <4>1. CASE i = k
        BY <1>8, <4>1
      <4>2. CASE i # k
        <5>1. i \in 1..(k - 1)
          BY <1>1, <4>2
        <5> QED
          BY <1>a, <5>1
      <4> QED
        BY <4>1, <4>2
    <3> QED
      BY <3>1, Failures
  <2>3. ~(Unmappable \in ToSet(got)) /\ ~ \E i \in DOMAIN got : got[i].dir = "handle"
    BY <1>1, <1>4, <2>2
  <2>4. \A i \in 1..k : Plain(fs[i], E[i])
    BY <1>5, <2>2 DEF Plain
  <2>5. CASE Visible(t) = 0
    <3>1. k = Len(fs)
      BY <1>d, <2>1, <2>5
    <3>2. \A i \in DOMAIN fs : Plain(fs[i], E[i])
      BY <1>1, <2>4, <3>1
    <3>3. RecordMeaning(t[3], fs, E) = Copying(<<"record", t[3], [i \in DOMAIN E |-> E[i].mochi]>>)
      BY <3>2, RecordWhole
    <3>4. [i \in DOMAIN E |-> E[i].mochi] = Mochis(got)
      <4>1. DOMAIN E = DOMAIN got /\ \A i \in DOMAIN got : E[i] = got[i]
        BY <1>1, <1>2, <1>5, <3>1
      <4> QED
        BY <4>1 DEF Mochis
    <3>5. mapStructDecl(t, got) = Copying(<<"record", t[3], Mochis(got)>>)
      BY <2>3, <2>5 DEF mapStructDecl
    <3> QED
      BY <1>b, <3>3, <3>4, <3>5, Made
  <2>6. CASE Visible(t) # 0
    <3>1. k + 1 \in DOMAIN fs /\ ~fs[k + 1].exported /\ k \in Nat
      BY <1>1, <1>e, <2>1, <2>6
    <3> DEFINE n == k + 1
    <3>2. ~Plain(fs[n], E[n]) /\ n \in DOMAIN fs /\ DOMAIN fs \in SUBSET Nat
      BY <1>1, <3>1 DEF Plain
    <3>3. ASSUME NEW i \in DOMAIN fs, i < n PROVE Plain(fs[i], E[i])
      <4>1. i \in 1..k
        BY <1>1, <3>1, <3>3
      <4> QED
        BY <2>4, <4>1
    <3>4. ~fs[n].exported
      BY <3>1
    <3> HIDE DEF n
    <3>5. RecordMeaning(t[3], fs, E) = HandleTo(<<"bare", t[3]>>)
      <4>1. RecordMeaning(t[3], fs, E) = IF fs[n].exported /\ E[n] = Endless THEN Endless ELSE HandleTo(<<"bare", t[3]>>)
        BY <3>2, <3>3, RecordFirst
      <4> QED
        BY <3>4, <4>1
    <3>6. mapStructDecl(t, got) = HandleTo(<<"bare", t[3]>>)
      BY <2>6 DEF mapStructDecl
    <3> QED
      BY <1>b, <3>5, <3>6, Made
  <2> QED
    BY <2>5, <2>6
<1> QED
  BY <1>7, <1>8

LEMMA RecordStuck ==
  ASSUME NEW t, t[1] = "named", NEW fs \in Seq(FieldSet), DeclOf(t) = <<"struct", fs>>,
         NEW V, \A m \in V : IsMapping(m), NEW got, MappedParts(t, got, V),
         ~Done(t, got), NEW of, \A i \in 1..Len(got) : of[Parts(t)[i]] \in {Endless, got[i]},
         of[Parts(t)[Len(got) + 1]] = Endless
  PROVE  Structural(of, t) = Endless
<1> DEFINE E == [i \in DOMAIN fs |-> of[fs[i].type]]
           k == Len(got)
           L == Len(Parts(t))
<1>0. RecordFacts(t, of, fs, got, E, k, L)
  BY RecordVisit, Zenon
<1>1. /\ DOMAIN fs = 1..Len(fs) /\ Len(fs) \in Nat /\ k \in Nat /\ L \in Nat /\ k <= L /\ L <= Len(fs)
      /\ ~(k = L \/ (k # 0 /\ got[k].dir # "copy"))
  BY <1>0, Zenon DEF RecordFacts
<1>a. \A i \in 1..L : fs[i].exported /\ E[i] = of[Parts(t)[i]]
  BY <1>0, Zenon DEF RecordFacts
<1>b. \A i \in 1..(k - 1) : got[i].dir = "copy"
  BY <1>0, Zenon DEF RecordFacts
<1>c. Structural(of, t) = RecordMeaning(t[3], fs, E)
  BY <1>0, Zenon DEF RecordFacts
<1>2. /\ \A i \in 1..k : of[Parts(t)[i]] \in {Endless, got[i]}
      /\ of[Parts(t)[k + 1]] = Endless
  OBVIOUS
<1> HIDE DEF E, k, L
<1>3. k \in Nat /\ k + 1 \in 1..L /\ k + 1 \in DOMAIN fs /\ \A i \in 1..(k + 1) : i \in 1..L /\ i \in DOMAIN fs
  BY <1>1
<1>4. ASSUME NEW i \in 1..(k + 1) PROVE fs[i].exported /\ (Plain(fs[i], E[i]) \/ E[i] = Endless)
  <2>1. fs[i].exported /\ E[i] = of[Parts(t)[i]]
    BY <1>a, <1>3
  <2>2. CASE i = k + 1
    BY <1>2, <2>1, <2>2
  <2>3. CASE i # k + 1
    <3>1. i \in 1..k
      BY <1>3, <2>3
    <3>2. got[i].dir = "copy"
      <4>1. CASE i = k
        BY <1>1, <3>1, <4>1
      <4>2. CASE i # k
        <5>1. i \in 1..(k - 1)
          BY <1>3, <3>1, <4>2
        <5> QED
          BY <1>b, <5>1
      <4> QED
        BY <4>1, <4>2
    <3> QED
      BY <1>2, <2>1, <3>1, <3>2 DEF Plain
  <2> QED
    BY <2>2, <2>3
<1> DEFINE odd == {i \in 1..(k + 1) : ~Plain(fs[i], E[i])}
<1>5. k + 1 \in odd
  <2>1. k + 1 \in 1..(k + 1) /\ E[k + 1] = Endless
    BY <1>a, <1>2, <1>3
  <2>2. ~Plain(fs[k + 1], E[k + 1])
    BY <2>1, Failures DEF Plain
  <2> QED
    BY <2>1, <2>2
<1>6. PICK j \in odd : \A i \in odd : j <= i
  <2>1. odd \in SUBSET Nat
    OBVIOUS
  <2> HIDE DEF odd
  <2> QED
    BY <1>5, <2>1, Least
<1>7. j \in 1..(k + 1) /\ ~Plain(fs[j], E[j])
  BY <1>6
<1>8. j \in DOMAIN fs /\ fs[j].exported /\ E[j] = Endless /\ DOMAIN fs \in SUBSET Nat
  BY <1>1, <1>3, <1>4, <1>7
<1>9. ASSUME NEW i \in DOMAIN fs, i < j PROVE Plain(fs[i], E[i])
  <2>1. i \in 1..(k + 1) /\ ~(j <= i)
    BY <1>1, <1>3, <1>7, <1>9
  <2> QED
    BY <1>6, <2>1
<1> HIDE DEF odd
<1>10. RecordMeaning(t[3], fs, E) = IF fs[j].exported /\ E[j] = Endless THEN Endless ELSE HandleTo(<<"bare", t[3]>>)
  <2>1. j \in DOMAIN fs /\ DOMAIN fs \in SUBSET Nat /\ ~Plain(fs[j], E[j])
    BY <1>7, <1>8
  <2>2. \A i \in DOMAIN fs : i < j => Plain(fs[i], E[i])
    BY <1>9
  <2> DEFINE name == t[3]
  <2> HIDE DEF name
  <2>3. RecordMeaning(name, fs, E) = IF fs[j].exported /\ E[j] = Endless THEN Endless ELSE HandleTo(<<"bare", name>>)
    BY <2>1, <2>2, RecordFirst, ZenonT(40)
  <2> QED
    BY <2>3 DEF name
<1> QED
  BY <1>c, <1>8, <1>10
\* A type that Map is done with means what Map answers.
LEMMA Complete ==
  ASSUME surface \in Surfaces, NEW t \in Types,
         NEW V, \A m \in V : IsMapping(m), NEW got, MappedParts(t, got, V),
         Done(t, got), NEW of, \A i \in 1..Len(got) : of[Parts(t)[i]] = got[i]
  PROVE  Structural(of, t) = mapType(t, got) /\ IsMapping(mapType(t, got))
<1>1. Parts(t) \in Seq(Types)
  BY PartsType
<1>2. ASSUME Parts(t) = <<>> PROVE got = <<>>
  <2>1. got \in Seq(V) /\ Len(got) \in Nat /\ Len(got) <= Len(Parts(t))
    BY MappedType
  <2>2. Len(Parts(t)) = 0
    BY <1>2
  <2> QED
    BY <2>1, <2>2
<1>3. CASE Leaf(t)
  BY <1>2, <1>3, PartsOfLeaf, LeafComplete
<1>4. CASE t[1] = "slice" /\ t[2] = Byte
  BY <1>2, <1>4, PartsOfLeaf, BytesComplete
<1>5. CASE Inner(t) \/ (t[1] = "slice" /\ t[2] # Byte)
  BY <1>5, PartsOfInner, OneComplete
<1>6. CASE t[1] = "map"
  BY <1>6, MapComplete
<1>7. CASE t[1] = "func"
  <2>1. t[2] \in Seq(Types) /\ t[3] \in Seq(Types)
    BY <1>7, TypeForm DEF Leaf, Inner
  <2> QED
    BY <1>1, <1>7, <2>1, FuncComplete
<1>8. CASE t[1] = "named"
  <2>1. CASE DeclOf(t) = <<"absent">> \/ DeclOf(t) = <<"opaque">>
    <3>1. DeclOf(t)[1] \in {"absent", "opaque"}
      BY <2>1
    <3> QED
      BY <1>2, <1>8, <3>1, PartsOfHandle, HandleComplete
  <2>2. CASE \E u \in Types : DeclOf(t) = <<"unfold", u>>
    <3>1. DeclOf(t)[1] = "unfold"
      BY <2>2
    <3> QED
      BY <1>8, <3>1, PartsOfUnfold, OneComplete
  <2>3. CASE \E fs \in Seq(FieldSet) : DeclOf(t) = <<"struct", fs>>
    BY <1>8, <2>3, RecordComplete
  <2> QED
    BY <2>1, <2>2, <2>3, DeclarationForm
<1> QED
  BY <1>3, <1>4, <1>5, <1>6, <1>7, <1>8, TypeForm

\* A type is endless if the part that Map asks for next is.
LEMMA Stuck ==
  ASSUME surface \in Surfaces, NEW t \in Types,
         NEW V, \A m \in V : IsMapping(m), NEW got, MappedParts(t, got, V),
         ~Done(t, got), NEW of, \A i \in 1..Len(got) : of[Parts(t)[i]] \in {Endless, got[i]},
         of[Parts(t)[Len(got) + 1]] = Endless
  PROVE  Structural(of, t) = Endless
<1>1. Parts(t) \in Seq(Types)
  BY PartsType
<1>2. Parts(t) # <<>>
  <2>1. got \in Seq(V) /\ Len(got) \in Nat /\ Len(got) <= Len(Parts(t))
    BY MappedType
  <2>2. Len(got) # Len(Parts(t))
    BY DEF Done
  <2> QED
    BY <1>1, <2>1, <2>2
<1>3. ~Leaf(t) /\ ~(t[1] = "slice" /\ t[2] = Byte)
  BY <1>2, PartsOfLeaf
<1>5. CASE Inner(t) \/ (t[1] = "slice" /\ t[2] # Byte)
  BY <1>5, PartsOfInner, OneStuck
<1>6. CASE t[1] = "map"
  BY <1>6, MapStuck
<1>7. CASE t[1] = "func"
  <2>1. t[2] \in Seq(Types) /\ t[3] \in Seq(Types)
    BY <1>7, TypeForm DEF Leaf, Inner
  <2> QED
    BY <1>1, <1>7, <2>1, FuncStuck
<1>8. CASE t[1] = "named"
  <2>1. CASE DeclOf(t) = <<"absent">> \/ DeclOf(t) = <<"opaque">>
    <3>1. DeclOf(t)[1] \in {"absent", "opaque"}
      BY <2>1
    <3> QED
      BY <1>2, <1>8, <3>1, PartsOfHandle
  <2>2. CASE \E u \in Types : DeclOf(t) = <<"unfold", u>>
    <3>1. DeclOf(t)[1] = "unfold"
      BY <2>2
    <3> QED
      BY <1>8, <3>1, PartsOfUnfold, OneStuck
  <2>3. CASE \E fs \in Seq(FieldSet) : DeclOf(t) = <<"struct", fs>>
    BY <1>8, <2>3, RecordStuck
  <2> QED
    BY <2>1, <2>2, <2>3, DeclarationForm
<1> QED
  BY <1>3, <1>5, <1>6, <1>7, <1>8, TypeForm

-------------------------------------------------------------------------------
(* From one level of meaning to the next *)

\* What a level of meaning is: a mapping, or no end so far.
IsLevel(of)       == \A u \in Types : of[u] = Endless \/ IsMapping(of[u])
Extends(of, more) == \A u \in Types : of[u] \in {Endless, more[u]}
MappingsOf(of)    == {of[u] : u \in Types} \ {Endless}

\* A visit of t in which the parts mean `of' gets done, or to an endless part.
LEMMA Visit ==
  ASSUME surface \in Surfaces, NEW t \in Types, NEW of, IsLevel(of)
  PROVE  \E got : /\ MappedParts(t, got, MappingsOf(of))
                  /\ \A i \in 1..Len(got) : got[i] # Endless /\ of[Parts(t)[i]] = got[i]
                  /\ ~Done(t, got) => of[Parts(t)[Len(got) + 1]] = Endless
<1> DEFINE P == Parts(t)
           stops == {i \in 1..Len(P) : of[P[i]] = Endless \/ Cuts(t, of[P[i]], i)}
           To(n) == [i \in 1..n |-> of[P[i]]]
<1>1. P \in Seq(Types) /\ Len(P) \in Nat
  BY PartsType
<1> HIDE DEF P
<1>2. ASSUME NEW n \in 0..Len(P), \A i \in 1..n : of[P[i]] # Endless,
             \A i \in 1..(n - 1) : ~Cuts(t, of[P[i]], i)
      PROVE  /\ MappedParts(t, To(n), MappingsOf(of)) /\ Len(To(n)) = n
             /\ \A i \in 1..n : To(n)[i] = of[P[i]]
  <2>1. \A i \in 1..n : of[P[i]] \in MappingsOf(of)
    BY <1>1, <1>2 DEF MappingsOf
  <2>2. To(n) \in Seq(MappingsOf(of)) /\ Len(To(n)) = n /\ \A i \in 1..n : To(n)[i] = of[P[i]]
    BY <2>1
  <2> HIDE DEF To
  <2>3. n <= Len(P) /\ n \in Nat
    BY <1>1
  <2>4. \A i \in 1..(n - 1) : ~Cuts(t, To(n)[i], i)
    BY <1>2, <2>2, <2>3
  <2> QED
    BY <2>2, <2>3, <2>4 DEF MappedParts, P
<1> HIDE DEF To
<1>3. CASE stops = {}
  <2> DEFINE n == Len(P)
  <2>1. /\ n \in 0..Len(P) /\ \A i \in 1..n : of[P[i]] # Endless
        /\ \A i \in 1..(n - 1) : ~Cuts(t, of[P[i]], i)
    BY <1>1, <1>3
  <2>2. /\ MappedParts(t, To(n), MappingsOf(of)) /\ Len(To(n)) = n
        /\ \A i \in 1..n : To(n)[i] = of[P[i]]
    <3> HIDE DEF n
    <3> QED
      BY <1>2, <2>1
  <2>3. Done(t, To(n))
    BY <2>2 DEF Done, P
  <2> HIDE DEF n
  <2> WITNESS To(n)
  <2> QED
    BY <2>1, <2>2, <2>3 DEF P
<1>4. CASE stops # {}
  <2>1. PICK k \in stops : \A i \in stops : k <= i
    <3>1. stops \in SUBSET Nat
      BY <1>1
    <3> HIDE DEF stops
    <3> QED
      BY <1>4, <3>1, Least
  <2>2. k \in 1..Len(P) /\ k \in Nat
    BY <1>1, <2>1
  <2>3. ASSUME NEW i \in 1..(k - 1) PROVE of[P[i]] # Endless /\ ~Cuts(t, of[P[i]], i)
    <3>1. i \in 1..Len(P) /\ ~(k <= i)
      BY <1>1, <2>2
    <3> QED
      BY <2>1, <3>1
  <2>4. CASE of[P[k]] = Endless
    <3> DEFINE n == k - 1
    <3>1. /\ n \in 0..Len(P) /\ \A i \in 1..n : of[P[i]] # Endless
          /\ \A i \in 1..(n - 1) : ~Cuts(t, of[P[i]], i)
      BY <1>1, <2>2, <2>3
    <3>2. /\ MappedParts(t, To(n), MappingsOf(of)) /\ Len(To(n)) = n
          /\ \A i \in 1..n : To(n)[i] = of[P[i]]
      <4> HIDE DEF n
      <4> QED
        BY <1>2, <3>1
    <3>3. n + 1 = k
      BY <2>2
    <3> HIDE DEF n
    <3>4. of[P[Len(To(n)) + 1]] = Endless
      BY <2>4, <3>2, <3>3
    <3> WITNESS To(n)
    <3> QED
      BY <3>1, <3>2, <3>4 DEF P
  <2>5. CASE of[P[k]] # Endless
    <3>1. /\ k \in 0..Len(P) /\ \A i \in 1..k : of[P[i]] # Endless
          /\ \A i \in 1..(k - 1) : ~Cuts(t, of[P[i]], i)
      <4>1. ASSUME NEW i \in 1..k PROVE of[P[i]] # Endless
        <5>1. i = k \/ i \in 1..(k - 1)
          BY <2>2
        <5> QED
          BY <2>3, <2>5, <5>1
      <4> QED
        BY <1>1, <2>2, <2>3, <4>1
    <3>2. /\ MappedParts(t, To(k), MappingsOf(of)) /\ Len(To(k)) = k
          /\ \A i \in 1..k : To(k)[i] = of[P[i]]
      BY <1>2, <3>1
    <3>3. Done(t, To(k))
      <4>1. Cuts(t, of[P[k]], k)
        BY <2>1, <2>5
      <4>2. To(k) # <<>> /\ Last(To(k)) = To(k)[k] /\ To(k)[k] = of[P[k]]
        <5>1. k \in 1..k /\ k # 0
          BY <2>2
        <5> QED
          BY <3>2, <5>1, MappedType
      <4> QED
        BY <3>2, <4>1, <4>2 DEF Done
    <3> WITNESS To(k)
    <3> QED
      BY <3>1, <3>2, <3>3 DEF P
  <2> QED
    BY <2>4, <2>5
<1> QED
  BY <1>3, <1>4

LEMMA LevelMappings ==
  ASSUME NEW of, IsLevel(of)
  PROVE  \A m \in MappingsOf(of) : IsMapping(m)
BY DEF IsLevel, MappingsOf

LEMMA StepIsLevel ==
  ASSUME surface \in Surfaces, NEW t \in Types, NEW of, IsLevel(of)
  PROVE  Structural(of, t) = Endless \/ IsMapping(Structural(of, t))
<1>1. PICK got : /\ MappedParts(t, got, MappingsOf(of))
                 /\ \A i \in 1..Len(got) : got[i] # Endless /\ of[Parts(t)[i]] = got[i]
                 /\ ~Done(t, got) => of[Parts(t)[Len(got) + 1]] = Endless
  BY Visit
<1>2. \A m \in MappingsOf(of) : IsMapping(m)
  BY LevelMappings
<1>3. CASE Done(t, got)
  <2>1. Structural(of, t) = mapType(t, got) /\ IsMapping(mapType(t, got))
    BY <1>1, <1>2, <1>3, Complete
  <2> QED
    BY <2>1
<1>4. CASE ~Done(t, got)
  <2>1. \A i \in 1..Len(got) : of[Parts(t)[i]] \in {Endless, got[i]}
    BY <1>1
  <2>2. Structural(of, t) = Endless
    BY <1>1, <1>2, <1>4, <2>1, Stuck
  <2> QED
    BY <2>2
<1> QED
  BY <1>3, <1>4

LEMMA StepGrows ==
  ASSUME surface \in Surfaces, NEW t \in Types, NEW of, IsLevel(of), NEW more, Extends(of, more)
  PROVE  Structural(of, t) \in {Endless, Structural(more, t)}
<1>1. PICK got : /\ MappedParts(t, got, MappingsOf(of))
                 /\ \A i \in 1..Len(got) : got[i] # Endless /\ of[Parts(t)[i]] = got[i]
                 /\ ~Done(t, got) => of[Parts(t)[Len(got) + 1]] = Endless
  BY Visit
<1>2. \A m \in MappingsOf(of) : IsMapping(m)
  BY LevelMappings
<1>3. CASE Done(t, got)
  <2>1. ASSUME NEW i \in 1..Len(got) PROVE more[Parts(t)[i]] = got[i]
    <3>1. Parts(t)[i] \in Types
      <4>1. Parts(t) \in Seq(Types)
        BY PartsType
      <4>2. Len(got) \in Nat /\ Len(got) <= Len(Parts(t))
        BY <1>1, MappedType
      <4> QED
        BY <4>1, <4>2
    <3>2. of[Parts(t)[i]] = got[i] /\ got[i] # Endless
      BY <1>1
    <3> QED
      BY <3>1, <3>2 DEF Extends
  <2>2. Structural(of, t) = mapType(t, got)
    BY <1>1, <1>2, <1>3, Complete
  <2>3. Structural(more, t) = mapType(t, got)
    BY <1>1, <1>2, <1>3, <2>1, Complete
  <2> QED
    BY <2>2, <2>3
<1>4. CASE ~Done(t, got)
  <2>1. \A i \in 1..Len(got) : of[Parts(t)[i]] \in {Endless, got[i]}
    BY <1>1
  <2>2. Structural(of, t) = Endless
    BY <1>1, <1>2, <1>4, <2>1, Stuck
  <2> QED
    BY <2>2
<1> QED
  BY <1>3, <1>4
-------------------------------------------------------------------------------
(* All levels *)

LEMMA MeaningStep ==
  ASSUME NEW t \in Types
  PROVE  /\ Meaning[0][t] = Endless
         /\ \A n \in Nat : Meaning[n + 1][t] = Structural(Meaning[n], t)
BY MeaningLevels

LEMMA MeaningIsLevel ==
  ASSUME surface \in Surfaces
  PROVE  \A n \in Nat : IsLevel(Meaning[n])
<1> DEFINE S == {n \in Nat : IsLevel(Meaning[n])}
<1>1. 0 \in S
  BY MeaningStep DEF IsLevel
<1>2. ASSUME NEW n \in Nat, n \in S PROVE n + 1 \in S
  <2>1. IsLevel(Meaning[n]) /\ n + 1 \in Nat
    BY <1>2
  <2>2. ASSUME NEW u \in Types PROVE Meaning[n + 1][u] = Endless \/ IsMapping(Meaning[n + 1][u])
    <3>1. Meaning[n + 1][u] = Structural(Meaning[n], u)
      BY MeaningStep
    <3> QED
      BY <2>1, <3>1, StepIsLevel
  <2> QED
    BY <2>1, <2>2 DEF IsLevel
<1> HIDE DEF S
<1>3. \A n \in Nat : n \in S
  BY <1>1, <1>2, Induction
<1> QED
  BY <1>3 DEF S

LEMMA MeaningGrows ==
  ASSUME surface \in Surfaces
  PROVE  \A n \in Nat : Extends(Meaning[n], Meaning[n + 1])
<1> DEFINE S == {n \in Nat : Extends(Meaning[n], Meaning[n + 1])}
<1>1. 0 \in S
  BY MeaningStep DEF Extends
<1>2. ASSUME NEW n \in Nat, n \in S PROVE n + 1 \in S
  <2> DEFINE k == n + 1
  <2>1. Extends(Meaning[n], Meaning[k]) /\ k \in Nat /\ IsLevel(Meaning[n])
    BY <1>2, MeaningIsLevel
  <2>2. ASSUME NEW u \in Types PROVE Meaning[k][u] \in {Endless, Meaning[k + 1][u]}
    <3>1. Meaning[k][u] = Structural(Meaning[n], u)
      BY MeaningStep
    <3> HIDE DEF k
    <3>2. Meaning[k + 1][u] = Structural(Meaning[k], u)
      BY <2>1, MeaningStep
    <3>3. Structural(Meaning[n], u) \in {Endless, Structural(Meaning[k], u)}
      BY <2>1, StepGrows
    <3> QED
      BY <3>1, <3>2, <3>3
  <2> QED
    BY <2>1, <2>2 DEF Extends
<1> HIDE DEF S
<1>3. \A n \in Nat : n \in S
  BY <1>1, <1>2, Induction
<1> QED
  BY <1>3 DEF S

\* A meaning that is reached at some level stays at the levels above.
LEMMA MeaningStays ==
  ASSUME surface \in Surfaces, NEW t \in Types, NEW n \in Nat, Meaning[n][t] # Endless
  PROVE  \A k \in Nat : k >= n => Meaning[k][t] = Meaning[n][t]
<1> DEFINE S == {d \in Nat : Meaning[n + d][t] = Meaning[n][t]}
<1>1. 0 \in S
  BY n + 0 = n
<1>2. ASSUME NEW d \in Nat, d \in S PROVE d + 1 \in S
  <2> DEFINE k == n + d
  <2>1. k \in Nat /\ n + (d + 1) = k + 1 /\ Meaning[k][t] = Meaning[n][t]
    BY <1>2
  <2> HIDE DEF k
  <2>2. Meaning[k + 1][t] = Meaning[n][t]
    <3>1. Extends(Meaning[k], Meaning[k + 1])
      BY <2>1, MeaningGrows
    <3> QED
      BY <2>1, <3>1 DEF Extends
  <2> QED
    BY <2>1, <2>2
<1> HIDE DEF S
<1>3. \A d \in Nat : d \in S
  BY <1>1, <1>2, Induction
<1>4. ASSUME NEW k \in Nat, k >= n PROVE Meaning[k][t] = Meaning[n][t]
  <2>1. k - n \in Nat /\ n + (k - n) = k
    BY <1>4
  <2>2. k - n \in S
    BY <1>3, <2>1
  <2> QED
    BY <2>1, <2>2 DEF S
<1> QED
  BY <1>4

\* What t means, at whatever level.
Means(t, m) == m # Endless /\ \E n \in Nat : Meaning[n][t] = m
Meanings    == {m \in {Meaning[n][t] : n \in Nat, t \in Types} : m # Endless}

LEMMA MeansOnce ==
  ASSUME surface \in Surfaces, NEW t \in Types, NEW m, Means(t, m), NEW n \in Nat
  PROVE  Meaning[n][t] = Endless \/ Meaning[n][t] = m
<1>1. PICK k \in Nat : Meaning[k][t] = m /\ m # Endless
  BY DEF Means
<1>2. CASE n >= k
  BY <1>1, <1>2, MeaningStays
<1>3. CASE k >= n /\ Meaning[n][t] # Endless
  <2>1. Meaning[k][t] = Meaning[n][t]
    BY <1>3, MeaningStays
  <2> QED
    BY <1>1, <2>1
<1>4. n >= k \/ k >= n
  OBVIOUS
<1> QED
  BY <1>2, <1>3, <1>4

LEMMA MeansMapping ==
  ASSUME surface \in Surfaces, NEW t \in Types, NEW m, Means(t, m)
  PROVE  m \in Meanings /\ IsMapping(m)
<1>1. PICK n \in Nat : Meaning[n][t] = m /\ m # Endless
  BY DEF Means
<1>2. m \in Meanings
  BY <1>1 DEF Meanings
<1>3. IsLevel(Meaning[n])
  BY MeaningIsLevel
<1> QED
  BY <1>1, <1>2, <1>3 DEF IsLevel

LEMMA MeaningsMap ==
  ASSUME surface \in Surfaces
  PROVE  \A m \in Meanings : IsMapping(m)
<1> TAKE m \in Meanings
<1>1. PICK n \in Nat, t \in Types : Meaning[n][t] = m /\ m # Endless
  BY DEF Meanings
<1>2. IsLevel(Meaning[n])
  BY MeaningIsLevel
<1> QED
  BY <1>1, <1>2 DEF IsLevel

\* A call of Map under way for t: its parts so far are mapped to what they mean.
Under(t, got) ==
  /\ MappedParts(t, got, Meanings)
  /\ \A i \in 1..Len(got) : Means(Parts(t)[i], got[i])

LEMMA UnderType ==
  ASSUME surface \in Surfaces, NEW t \in Types, NEW got, Under(t, got)
  PROVE  /\ got \in Seq(Meanings) /\ Len(got) \in Nat /\ Len(got) <= Len(Parts(t))
         /\ Parts(t) \in Seq(Types) /\ \A i \in 1..Len(got) : Parts(t)[i] \in Types
<1>1. got \in Seq(Meanings) /\ Len(got) \in Nat /\ Len(got) <= Len(Parts(t))
  BY MappedType DEF Under
<1>2. Parts(t) \in Seq(Types)
  BY PartsType
<1> QED
  BY <1>1, <1>2

\* A type whose parts are done means what Map answers.
LEMMA DoneMeans ==
  ASSUME surface \in Surfaces, NEW t \in Types, NEW got, Under(t, got), Done(t, got)
  PROVE  Means(t, mapType(t, got))
<1> DEFINE P == Parts(t)
           L == Len(got)
           At(n, j) == \A i \in 1..j : Meaning[n][P[i]] = got[i]
           S == {j \in Nat : j <= L => \E n \in Nat : At(n, j)}
<1>1. L \in Nat /\ \A i \in 1..L : P[i] \in Types
  BY UnderType
<1>2. \A i \in 1..L : Means(P[i], got[i])
  BY DEF Under
<1> HIDE DEF P, L
<1>3. 0 \in S
  OBVIOUS
<1>4. ASSUME NEW j \in Nat, j \in S PROVE j + 1 \in S
  <2> SUFFICES ASSUME j + 1 <= L PROVE \E n \in Nat : At(n, j + 1)
    OBVIOUS
  <2>1. PICK a \in Nat : At(a, j)
    BY <1>1, <1>4
  <2>2. j + 1 \in 1..L /\ P[j + 1] \in Types
    BY <1>1
  <2>3. PICK b \in Nat : Meaning[b][P[j + 1]] = got[j + 1] /\ got[j + 1] # Endless
    BY <1>2, <2>2 DEF Means
  <2> DEFINE n == a + b
  <2>4. n \in Nat /\ n >= a /\ n >= b
    OBVIOUS
  <2> HIDE DEF n
  <2>5. ASSUME NEW i \in 1..(j + 1) PROVE Meaning[n][P[i]] = got[i]
    <3>1. CASE i = j + 1
      BY <2>2, <2>3, <2>4, <3>1, MeaningStays
    <3>2. CASE i # j + 1
      <4>1. i \in 1..j /\ i \in 1..L
        BY <1>1, <3>2
      <4>2. Meaning[a][P[i]] = got[i] /\ got[i] # Endless /\ P[i] \in Types
        BY <1>1, <1>2, <2>1, <4>1 DEF Means
      <4> QED
        BY <2>4, <4>2, MeaningStays
    <3> QED
      BY <3>1, <3>2
  <2> QED
    BY <2>4, <2>5
<1>5. \A j \in Nat : j \in S
  <2> HIDE DEF S
  <2> QED
    BY <1>3, <1>4, Induction
<1>6. PICK n \in Nat : At(n, L)
  <2>1. L \in S
    <3> HIDE DEF S
    <3> QED
      BY <1>1, <1>5
  <2>2. L <= L
    BY <1>1
  <2> QED
    BY <2>1, <2>2
<1>7. \A m \in Meanings : IsMapping(m)
  BY MeaningsMap
<1>8. MappedParts(t, got, Meanings)
  BY DEF Under
<1>9. \A i \in 1..Len(got) : Meaning[n][Parts(t)[i]] = got[i]
  BY <1>6 DEF P, L
<1>10. Structural(Meaning[n], t) = mapType(t, got) /\ IsMapping(mapType(t, got))
  BY <1>7, <1>8, <1>9, Complete
<1>11. n + 1 \in Nat /\ Meaning[n + 1][t] = mapType(t, got)
  BY <1>10, MeaningStep
<1> QED
  BY <1>10, <1>11, MappingFails DEF Means

\* A type has no meaning up to the level above one at which the next part has none.
LEMMA StuckEndless ==
  ASSUME surface \in Surfaces, NEW t \in Types, NEW got, Under(t, got), ~Done(t, got),
         NEW n \in Nat, Meaning[n][Parts(t)[Len(got) + 1]] = Endless
  PROVE  Meaning[n + 1][t] = Endless
<1>1. \A m \in Meanings : IsMapping(m)
  BY MeaningsMap
<1>2. MappedParts(t, got, Meanings)
  BY DEF Under
<1>3. ASSUME NEW i \in 1..Len(got) PROVE Meaning[n][Parts(t)[i]] \in {Endless, got[i]}
  <2>1. Parts(t)[i] \in Types
    BY UnderType
  <2>2. Means(Parts(t)[i], got[i])
    BY DEF Under
  <2> QED
    BY <2>1, <2>2, MeansOnce
<1>4. Structural(Meaning[n], t) = Endless
  BY <1>1, <1>2, <1>3, Stuck
<1> QED
  BY <1>4, MeaningStep
-------------------------------------------------------------------------------
(* The calls of Map *)

\* A step that keeps the surface keeps what types are and mean.
LEMMA SurfaceKept ==
  ASSUME surface' = surface
  PROVE  /\ Meaning' = Meaning
         /\ \A t : Parts(t)' = Parts(t)
         /\ \A t, m, i : Cuts(t, m, i)' <=> Cuts(t, m, i)
<1>1. \A t : DeclOf(t)' = DeclOf(t)
  BY DEF DeclOf, SelfPackage, Packages
<1>2. /\ \A t : IsRecord(t)' <=> IsRecord(t)
      /\ \A t : Fields(t)' = Fields(t)
  BY <1>1 DEF IsRecord, Fields
<1>3. ASSUME NEW t PROVE Visible(t)' = Visible(t)
  BY <1>2 DEF Visible, SelectInSeq
<1>4. \A t : Shown(t)' = Shown(t)
  BY <1>2, <1>3, Zenon DEF Shown
<1>5. \A t : Parts(t)' = Parts(t)
  BY <1>1, <1>2, <1>4, Zenon DEF Parts
<1>6. \A t, m, i : Cuts(t, m, i)' <=> Cuts(t, m, i)
  BY <1>2, Zenon DEF Cuts
<1>7. \A t, got : mapNamed(t, got)' = mapNamed(t, got)
  BY <1>1, <1>3, Zenon DEF mapNamed, mapStructDecl
<1>8. ASSUME NEW t, NEW got PROVE mapType(t, got)' = mapType(t, got)
  BY DEF mapType, mapNamed, mapStructDecl, Visible, Fields, Cuts, IsRecord, DeclOf, SelfPackage, Packages
<1>9. ASSUME NEW of, NEW t PROVE Structural(of, t)' = Structural(of, t)
  BY <1>1, <1>7, <1>8 DEF Structural
<1>10. Meaning' = Meaning
  BY <1>9, Zenon DEF Meaning
<1> QED
  BY <1>5, <1>6, <1>10

LEMMA UnderKept ==
  ASSUME surface' = surface
  PROVE  /\ Meanings' = Meanings
         /\ \A t, m : Means(t, m)' <=> Means(t, m)
         /\ \A t, got : Done(t, got)' <=> Done(t, got)
         /\ \A t, got : Under(t, got)' <=> Under(t, got)
<1>1. Meaning' = Meaning
  BY SurfaceKept
<1>2. \A t : Parts(t)' = Parts(t)
  BY SurfaceKept
<1>3. \A t, m, i : Cuts(t, m, i)' <=> Cuts(t, m, i)
  BY SurfaceKept
<1>4. Meanings' = Meanings
  BY <1>1 DEF Meanings
<1>5. \A t, m : Means(t, m)' <=> Means(t, m)
  BY <1>1, Zenon DEF Means
<1>6. ASSUME NEW t, NEW got PROVE Done(t, got)' <=> Done(t, got)
  BY <1>2, <1>3, Zenon DEF Done
<1>7. ASSUME NEW t, NEW got PROVE MappedParts(t, got, Meanings)' <=> MappedParts(t, got, Meanings)
  BY <1>2, <1>3, <1>4, Zenon DEF MappedParts
<1>8. ASSUME NEW t, NEW got PROVE Under(t, got)' <=> Under(t, got)
  BY <1>2, <1>5, <1>7, Zenon DEF Under
<1> QED
  BY <1>4, <1>5, <1>6, <1>8
LEMMA UnderNone ==
  ASSUME surface \in Surfaces, NEW t \in Types
  PROVE  Under(t, <<>>)
<1>1. Len(Parts(t)) \in Nat
  BY PartsType
<1>2. <<>> \in Seq(Meanings) /\ Len(<<>>) = 0
  OBVIOUS
<1> QED
  BY <1>1, <1>2 DEF Under, MappedParts

\* The part that Map asks for next is a type.
LEMMA NextPart ==
  ASSUME surface \in Surfaces, NEW t \in Types, NEW got, Under(t, got), ~Done(t, got)
  PROVE  Len(got) + 1 \in 1..Len(Parts(t)) /\ Parts(t)[Len(got) + 1] \in Types
<1>1. /\ Len(got) \in Nat /\ Len(got) <= Len(Parts(t))
      /\ Parts(t) \in Seq(Types) /\ Len(Parts(t)) \in Nat
  BY UnderType
<1>2. Len(got) # Len(Parts(t))
  BY DEF Done
<1>3. Len(got) + 1 \in 1..Len(Parts(t))
  BY <1>1, <1>2
<1> QED
  BY <1>1, <1>3

LEMMA UnderMore ==
  ASSUME surface \in Surfaces, NEW t \in Types, NEW got, Under(t, got), ~Done(t, got),
         NEW m, Means(Parts(t)[Len(got) + 1], m)
  PROVE  Under(t, Append(got, m))
<1> DEFINE n    == Len(got)
           more == Append(got, m)
<1>1. got \in Seq(Meanings) /\ n \in Nat /\ n + 1 <= Len(Parts(t)) /\ Parts(t)[n + 1] \in Types
  <2>1. Len(Parts(t)) \in Nat
    BY UnderType
  <2> QED
    BY <2>1, UnderType, NextPart
<1>2. m \in Meanings
  BY <1>1, MeansMapping
<1>3. /\ more \in Seq(Meanings) /\ Len(more) = n + 1 /\ more[n + 1] = m
      /\ \A i \in 1..n : more[i] = got[i]
  BY <1>1, <1>2
<1>4. ASSUME NEW i \in 1..n PROVE ~Cuts(t, got[i], i)
  <2>1. CASE i = n
    <3>1. got # <<>> /\ Last(got) = got[n]
      BY <1>1, <2>1 DEF Last
    <3> QED
      BY <2>1, <3>1 DEF Done
  <2>2. CASE i # n
    <3>1. i \in 1..(n - 1)
      BY <1>1, <2>2
    <3> QED
      BY <3>1 DEF Under, MappedParts
  <2> QED
    BY <2>1, <2>2
<1>5. \A i \in 1..n : Means(Parts(t)[i], got[i])
  BY DEF Under
<1> HIDE DEF more, n
<1>6. ASSUME NEW i \in 1..(n + 1) PROVE Means(Parts(t)[i], more[i])
  <2>1. CASE i = n + 1
    BY <1>3, <2>1, n = Len(got) DEF n
  <2>2. CASE i # n + 1
    <3>1. i \in 1..n
      BY <1>1, <2>2
    <3> QED
      BY <1>3, <1>5, <3>1
  <2> QED
    BY <2>1, <2>2
<1>7. \A i \in 1..(n + 1 - 1) : ~Cuts(t, more[i], i)
  BY <1>1, <1>3, <1>4
<1>8. MappedParts(t, more, Meanings)
  BY <1>1, <1>3, <1>7 DEF MappedParts
<1> QED
  BY <1>3, <1>6, <1>8 DEF Under, more

\* The calls of Map under way: each has the next part of the one below it.
FrameSet == [t : Types, got : Seq(Meanings)]

Frames(st) ==
  /\ st \in Seq(FrameSet) /\ Len(st) <= MaxDepth
  /\ \A k \in 1..Len(st) : Under(st[k].t, st[k].got)
  /\ \A k \in 1..(Len(st) - 1) : /\ ~Done(st[k].t, st[k].got)
                                 /\ st[k + 1].t = Parts(st[k].t)[Len(st[k].got) + 1]

LEMMA FramesKept ==
  ASSUME surface' = surface, NEW st
  PROVE  Frames(st)' <=> Frames(st)
<1>1. FrameSet' = FrameSet
  BY UnderKept DEF FrameSet
<1>2. \A t, got : Under(t, got)' <=> Under(t, got)
  BY UnderKept
<1>3. \A t, got : Done(t, got)' <=> Done(t, got)
  BY UnderKept
<1>4. \A t : Parts(t)' = Parts(t)
  BY SurfaceKept
<1> QED
  BY <1>1, <1>2, <1>3, <1>4, Zenon DEF Frames

LEMMA FrameFields ==
  ASSUME NEW st, Frames(st), NEW k \in 1..Len(st)
  PROVE  st[k] \in FrameSet /\ st[k].t \in Types /\ st[k].got \in Seq(Meanings)
<1>1. st[k] \in FrameSet
  BY DEF Frames
<1> QED
  BY <1>1 DEF FrameSet

LEMMA FramesStart ==
  ASSUME surface \in Surfaces, NEW t \in Types
  PROVE  Frames(<<Frame(t)>>)
<1> DEFINE st == <<Frame(t)>>
<1>1. Frame(t) \in FrameSet /\ Frame(t).t = t /\ Frame(t).got = <<>>
  BY DEF Frame, FrameSet
<1>2. st \in Seq(FrameSet) /\ Len(st) = 1 /\ st[1] = Frame(t)
  BY <1>1
<1> HIDE DEF st
<1>3. Under(st[1].t, st[1].got)
  BY <1>1, <1>2, UnderNone
<1>4. Frames(st)
  BY <1>2, <1>3, DepthAssumption DEF Frames
<1> QED
  BY <1>4 DEF st

LEMMA FramesPush ==
  ASSUME surface \in Surfaces, NEW st, Frames(st), st # <<>>, Len(st) < MaxDepth,
         NEW top, top = Last(st), ~Done(top.t, top.got)
  PROVE  LET after == Append(st, Frame(Parts(top.t)[Len(top.got) + 1])) IN
           Frames(after) /\ after # <<>> /\ after[1] = st[1]
<1> DEFINE n == Len(st)
           u == Parts(top.t)[Len(top.got) + 1]
           after == Append(st, Frame(u))
<1>1. st \in Seq(FrameSet) /\ n \in Nat /\ n # 0 /\ top = st[n]
  BY DEF Frames, Last
<1>2. top.t \in Types /\ Under(top.t, top.got)
  <2>1. n \in 1..Len(st)
    BY <1>1
  <2> QED
    BY <1>1, <2>1, FrameFields DEF Frames
<1>3. u \in Types
  BY <1>2, NextPart
<1> HIDE DEF u
<1>4. Frame(u) \in FrameSet /\ Frame(u).t = u /\ Frame(u).got = <<>> /\ Under(u, <<>>)
  BY <1>3, UnderNone DEF Frame, FrameSet
<1>5. /\ after \in Seq(FrameSet) /\ Len(after) = n + 1 /\ after[n + 1] = Frame(u)
      /\ \A k \in 1..n : after[k] = st[k]
  BY <1>1, <1>4
<1> HIDE DEF after
<1>6. ASSUME NEW k \in 1..(n + 1) PROVE Under(after[k].t, after[k].got)
  <2>1. CASE k = n + 1
    BY <1>4, <1>5, <2>1
  <2>2. CASE k # n + 1
    <3>1. k \in 1..n
      BY <1>1, <2>2
    <3> QED
      BY <1>5, <3>1 DEF Frames
  <2> QED
    BY <2>1, <2>2
<1>7. ASSUME NEW k \in 1..n
      PROVE  ~Done(after[k].t, after[k].got) /\ after[k + 1].t = Parts(after[k].t)[Len(after[k].got) + 1]
  <2>1. CASE k = n
    <3>1. after[k] = top /\ after[k + 1] = Frame(u)
      BY <1>1, <1>5, <2>1
    <3> QED
      BY <1>4, <3>1 DEF u
  <2>2. CASE k # n
    <3>1. k \in 1..(n - 1) /\ k + 1 \in 1..n
      BY <1>1, <2>2
    <3>2. after[k] = st[k] /\ after[k + 1] = st[k + 1]
      BY <1>5, <3>1
    <3> QED
      BY <3>1, <3>2 DEF Frames
  <2> QED
    BY <2>1, <2>2
<1>8. Frames(after)
  <2>1. n + 1 <= MaxDepth /\ n + 1 - 1 = n
    BY <1>1, DepthAssumption
  <2> QED
    BY <1>5, <1>6, <1>7, <2>1 DEF Frames
<1>9. after # <<>> /\ after[1] = st[1]
  <2>1. 1 \in 1..n /\ n + 1 # 0
    BY <1>1
  <2> QED
    BY <1>5, <2>1
<1> QED
  BY <1>8, <1>9 DEF after, u

LEMMA FramesPop ==
  ASSUME surface \in Surfaces, NEW st, Frames(st), st # <<>>, Len(st) # 1, NEW m, Means(Last(st).t, m)
  PROVE  LET after == [Front(st) EXCEPT ![Len(st) - 1].got = Append(@, m)] IN
           Frames(after) /\ after # <<>> /\ after[1].t = st[1].t
<1> DEFINE n == Len(st) - 1
           front == Front(st)
           f == st[n]
           g == [f EXCEPT !.got = Append(f.got, m)]
           after == [front EXCEPT ![n] = g]
<1>1. st \in Seq(FrameSet) /\ n \in Nat /\ n # 0 /\ n + 1 = Len(st) /\ Last(st) = st[n + 1]
  BY DEF Frames, Last
<1>2. front \in Seq(FrameSet) /\ Len(front) = n /\ \A k \in 1..n : front[k] = st[k]
  <2>1. front = SubSeq(st, 1, n)
    BY DEF Front
  <2> HIDE DEF front, n
  <2> QED
    BY <1>1, <2>1
<1>3. f \in FrameSet /\ f.t \in Types /\ f.got \in Seq(Meanings) /\ Under(f.t, f.got)
  <2>1. n \in 1..Len(st)
    BY <1>1
  <2> HIDE DEF n
  <2> QED
    BY <2>1, FrameFields DEF Frames
<1>4. ~Done(f.t, f.got) /\ Means(Parts(f.t)[Len(f.got) + 1], m)
  <2>1. n \in 1..(Len(st) - 1)
    BY <1>1
  <2>2. ~Done(f.t, f.got) /\ st[n + 1].t = Parts(f.t)[Len(f.got) + 1]
    <3> HIDE DEF n
    <3> QED
      BY <2>1 DEF Frames
  <2> QED
    BY <1>1, <2>2
<1> HIDE DEF f
<1>5. Under(f.t, Append(f.got, m))
  BY <1>3, <1>4, UnderMore
<1>6. g \in FrameSet /\ g.t = f.t /\ g.got = Append(f.got, m)
  <2>1. Append(f.got, m) \in Seq(Meanings)
    <3>1. Append(f.got, m) \in Seq(Meanings)
      BY <1>5 DEF Under, MappedParts
    <3> QED
      BY <3>1
  <2> QED
    BY <1>3, <2>1 DEF FrameSet
<1> HIDE DEF g, front, n
<1>7. /\ after \in Seq(FrameSet) /\ Len(after) = n /\ after[n] = g
      /\ \A k \in 1..n : k # n => after[k] = st[k]
  BY <1>1, <1>2, <1>6
<1> HIDE DEF after
<1>8. ASSUME NEW k \in 1..n PROVE Under(after[k].t, after[k].got)
  <2>1. CASE k = n
    BY <1>5, <1>6, <1>7, <2>1
  <2>2. CASE k # n
    <3>1. k \in 1..Len(st) /\ after[k] = st[k]
      BY <1>1, <1>7, <2>2
    <3> QED
      BY <3>1 DEF Frames
  <2> QED
    BY <2>1, <2>2
<1>9. ASSUME NEW k \in 1..n PROVE after[k].t = st[k].t
  BY <1>6, <1>7 DEF f
<1>10. ASSUME NEW k \in 1..(n - 1)
       PROVE  ~Done(after[k].t, after[k].got) /\ after[k + 1].t = Parts(after[k].t)[Len(after[k].got) + 1]
  <2>1. k \in 1..n /\ k # n /\ k + 1 \in 1..n /\ k \in 1..(Len(st) - 1)
    BY <1>1
  <2>2. after[k] = st[k] /\ after[k + 1].t = st[k + 1].t
    BY <1>7, <1>9, <2>1
  <2> QED
    BY <2>1, <2>2 DEF Frames
<1>11. Frames(after)
  <2>1. n <= MaxDepth
    <3>1. Len(st) <= MaxDepth /\ MaxDepth \in Nat
      BY DepthAssumption DEF Frames
    <3> QED
      BY <1>1, <3>1
  <2> QED
    BY <1>7, <1>8, <1>10, <2>1 DEF Frames
<1>12. after # <<>> /\ after[1].t = st[1].t
  <2>1. 1 \in 1..n
    BY <1>1
  <2> QED
    BY <1>1, <1>7, <1>9, <2>1
<1>13. [Front(st) EXCEPT ![Len(st) - 1].got = Append(@, m)] = after
  <2>1. front[n] = f
    BY <1>1, <1>2 DEF f
  <2>2. [front EXCEPT ![n].got = Append(@, m)] = [front EXCEPT ![n] = [front[n] EXCEPT !.got = Append(front[n].got, m)]]
    BY Zenon
  <2> QED
    BY <2>1, <2>2, Zenon DEF front, n, after, g
<1> QED
  BY <1>11, <1>12, <1>13

\* If the stack overflows, what the outermost Map was asked for has no meaning up to there.
LEMMA OverflowEndless ==
  ASSUME surface \in Surfaces, NEW st, Frames(st), Len(st) = MaxDepth, NEW top, top = Last(st), ~Done(top.t, top.got)
  PROVE  Meaning[MaxDepth][st[1].t] = Endless
<1> DEFINE S == {j \in Nat : j < MaxDepth => Meaning[j + 1][st[MaxDepth - j].t] = Endless}
<1>1. MaxDepth \in Nat /\ MaxDepth # 0 /\ st \in Seq(FrameSet)
  BY DepthAssumption DEF Frames
<1>2. ASSUME NEW k \in 1..MaxDepth PROVE st[k].t \in Types /\ Under(st[k].t, st[k].got)
  BY FrameFields DEF Frames
<1>3. 0 \in S
  <2>1. top = st[MaxDepth] /\ MaxDepth \in 1..MaxDepth /\ MaxDepth - 0 = MaxDepth
    BY <1>1 DEF Last
  <2>2. top.t \in Types /\ Under(top.t, top.got)
    BY <1>2, <2>1
  <2>3. Meaning[0][Parts(top.t)[Len(top.got) + 1]] = Endless
    BY <2>2, NextPart, MeaningStep
  <2>4. Meaning[0 + 1][top.t] = Endless
    BY <2>2, <2>3, StuckEndless
  <2> QED
    BY <2>1, <2>4
<1>4. ASSUME NEW j \in Nat, j \in S PROVE j + 1 \in S
  <2> SUFFICES ASSUME j + 1 < MaxDepth PROVE Meaning[j + 1 + 1][st[MaxDepth - (j + 1)].t] = Endless
    OBVIOUS
  <2> DEFINE k == MaxDepth - (j + 1)
             n == j + 1
  <2>1. k \in 1..MaxDepth /\ k \in 1..(Len(st) - 1) /\ k + 1 = MaxDepth - j /\ n \in Nat /\ j < MaxDepth
    BY <1>1
  <2>2. Meaning[n][st[k + 1].t] = Endless
    BY <1>4, <2>1
  <2> HIDE DEF k, n
  <2>3. ~Done(st[k].t, st[k].got) /\ st[k + 1].t = Parts(st[k].t)[Len(st[k].got) + 1]
    BY <2>1 DEF Frames
  <2>4. st[k].t \in Types /\ Under(st[k].t, st[k].got)
    BY <1>2, <2>1
  <2>5. Meaning[n + 1][st[k].t] = Endless
    BY <2>1, <2>2, <2>3, <2>4, StuckEndless
  <2> QED
    BY <2>5 DEF k, n
<1>5. \A j \in Nat : j \in S
  <2> HIDE DEF S
  <2> QED
    BY <1>3, <1>4, Induction
<1>6. MaxDepth - 1 \in Nat /\ MaxDepth - 1 < MaxDepth /\ MaxDepth - 1 + 1 = MaxDepth /\ MaxDepth - (MaxDepth - 1) = 1
  BY <1>1
<1>7. MaxDepth - 1 \in S
  <2> HIDE DEF S
  <2> QED
    BY <1>5, <1>6
<1> QED
  BY <1>6, <1>7
-------------------------------------------------------------------------------
(* Enough levels *)

\* One more level than the stack has frames adds nothing.
Settled == \A t \in Types : Meaning[MaxDepth + 1][t] = Meaning[MaxDepth][t]

LEMMA MeaningFunction ==
  \A n \in Nat : Meaning[n] = [t \in Types |-> Meaning[n][t]]
<1> TAKE n \in Nat
<1>1. CASE n = 0
  BY <1>1, MeaningLevels
<1>2. CASE n # 0
  <2> DEFINE k == n - 1
  <2>1. k \in Nat /\ k + 1 = n
    BY <1>2
  <2> HIDE DEF k
  <2>2. Meaning[k + 1] = [t \in Types |-> Structural(Meaning[k], t)]
    BY <2>1, MeaningLevels
  <2> QED
    BY <2>1, <2>2
<1> QED
  BY <1>1, <1>2

LEMMA StableStays ==
  ASSUME NEW n \in Nat, Meaning[n + 1] = Meaning[n]
  PROVE  \A k \in Nat : k >= n => Meaning[k] = Meaning[n]
<1> DEFINE S == {d \in Nat : Meaning[n + d] = Meaning[n]}
<1>1. 0 \in S
  BY n + 0 = n
<1>2. ASSUME NEW d \in Nat, d \in S PROVE d + 1 \in S
  <2> DEFINE k == n + d
  <2>1. k \in Nat /\ n + (d + 1) = k + 1 /\ Meaning[k] = Meaning[n]
    BY <1>2
  <2> HIDE DEF k
  <2>2. /\ Meaning[k + 1] = [t \in Types |-> Structural(Meaning[k], t)]
        /\ Meaning[n + 1] = [t \in Types |-> Structural(Meaning[n], t)]
    BY <2>1, MeaningLevels
  <2>3. Meaning[k + 1] = Meaning[n]
    BY <2>1, <2>2
  <2> QED
    BY <2>1, <2>3
<1> HIDE DEF S
<1>3. \A d \in Nat : d \in S
  BY <1>1, <1>2, Induction
<1>4. ASSUME NEW k \in Nat, k >= n PROVE Meaning[k] = Meaning[n]
  <2>1. k - n \in Nat /\ n + (k - n) = k
    BY <1>4
  <2>2. k - n \in S
    BY <1>3, <2>1
  <2> QED
    BY <2>1, <2>2 DEF S
<1> QED
  BY <1>4

\* Each level before the last one gives a meaning to one type more: no more levels than types.
LEMMA FewTypesSettle ==
  ASSUME surface \in Surfaces, IsFiniteSet(Types), Cardinality(Types) <= MaxDepth
  PROVE  Settled
<1> DEFINE E(n) == {t \in Types : Meaning[n][t] # Endless}
           S == {n \in Nat : Meaning[n + 1] = Meaning[n] \/ Cardinality(E(n + 1)) >= n + 1}
           C == Cardinality(Types)
<1>1. ASSUME NEW n \in Nat PROVE IsFiniteSet(E(n)) /\ Cardinality(E(n)) \in Nat /\ Cardinality(E(n)) <= C
  <2>1. E(n) \in SUBSET Types
    OBVIOUS
  <2> HIDE DEF E
  <2> QED
    BY <2>1, FS_Subset, FS_CardinalityType
<1>2. ASSUME NEW n \in Nat PROVE E(n) \subseteq E(n + 1)
  BY MeaningGrows DEF Extends
<1>3. ASSUME NEW n \in Nat, E(n) = E(n + 1) PROVE Meaning[n + 1] = Meaning[n]
  <2> DEFINE k == n + 1
  <2>1. k \in Nat /\ Extends(Meaning[n], Meaning[k]) /\ E(n) = E(k)
    BY <1>3, MeaningGrows
  <2> HIDE DEF k
  <2>2. ASSUME NEW t \in Types PROVE Meaning[k][t] = Meaning[n][t]
    BY <2>1 DEF Extends
  <2>3. Meaning[k] = [t \in Types |-> Meaning[k][t]] /\ Meaning[n] = [t \in Types |-> Meaning[n][t]]
    BY <2>1, MeaningFunction
  <2>4. Meaning[k] = Meaning[n]
    BY <2>2, <2>3
  <2> QED
    BY <2>4 DEF k
<1>4. ASSUME NEW n \in Nat, Meaning[n + 1] # Meaning[n] PROVE Cardinality(E(n + 1)) >= Cardinality(E(n)) + 1
  <2> DEFINE A == E(n)
             B == E(n + 1)
  <2>1. A \subseteq B /\ A # B
    BY <1>2, <1>3, <1>4
  <2>2. IsFiniteSet(B) /\ Cardinality(A) \in Nat /\ Cardinality(B) \in Nat
    <3>1. n + 1 \in Nat
      OBVIOUS
    <3> HIDE DEF E
    <3> QED
      BY <1>1, <3>1
  <2> HIDE DEF A, B
  <2>3. Cardinality(A) <= Cardinality(B) /\ Cardinality(A) # Cardinality(B)
    BY <2>1, <2>2, FS_Subset
  <2>4. Cardinality(B) >= Cardinality(A) + 1
    BY <2>2, <2>3
  <2> QED
    BY <2>4 DEF A, B
<1>5. 0 \in S
  <2>1. Cardinality(E(0)) \in Nat
    <3> HIDE DEF E
    <3> QED
      BY <1>1
  <2>2. Meaning[0 + 1] # Meaning[0] => Cardinality(E(0 + 1)) >= Cardinality(E(0)) + 1
    <3> HIDE DEF E
    <3> QED
      BY <1>4
  <2>3. Cardinality(E(0 + 1)) \in Nat
    <3> HIDE DEF E
    <3> QED
      BY <1>1
  <2> HIDE DEF E
  <2> QED
    BY <2>1, <2>2, <2>3
<1>6. ASSUME NEW n \in Nat, n \in S PROVE n + 1 \in S
  <2> DEFINE k == n + 1
  <2>1. k \in Nat /\ (Meaning[k] = Meaning[n] \/ Cardinality(E(k)) >= k)
    BY <1>6
  <2>2. CASE Meaning[k] = Meaning[n]
    <3>1. Meaning[n + 1] = Meaning[n] /\ n + 1 + 1 \in Nat /\ n + 1 + 1 >= n /\ n + 1 >= n
      BY <2>2
    <3>2. Meaning[n + 1 + 1] = Meaning[n + 1]
      BY <3>1, StableStays
    <3> QED
      BY <3>2
  <2>3. CASE Meaning[k + 1] # Meaning[k] /\ Cardinality(E(k)) >= k
    <3>1. Cardinality(E(k + 1)) >= Cardinality(E(k)) + 1
      <4> HIDE DEF k, E
      <4> QED
        BY <1>4, <2>1, <2>3
    <3>2. Cardinality(E(k)) \in Nat /\ Cardinality(E(k + 1)) \in Nat
      <4>1. k \in Nat /\ k + 1 \in Nat
        OBVIOUS
      <4> HIDE DEF k, E
      <4> QED
        BY <1>1, <4>1
    <3> HIDE DEF E
    <3>3. Cardinality(E(k + 1)) >= k + 1
      BY <2>1, <2>3, <3>1, <3>2
    <3> QED
      BY <3>3
  <2>4. CASE Meaning[k + 1] = Meaning[k]
    BY <2>4
  <2> HIDE DEF S, k
  <2> QED
    BY <2>1, <2>2, <2>3, <2>4
<1>7. C \in Nat
  BY FS_CardinalityType
<1>8. C \in S
  <2> HIDE DEF S, C
  <2> QED
    BY <1>5, <1>6, <1>7, Induction
<1>9. Meaning[C + 1] = Meaning[C]
  <2>1. Cardinality(E(C + 1)) \in Nat /\ Cardinality(E(C + 1)) <= C
    <3>1. C + 1 \in Nat
      BY <1>7
    <3> HIDE DEF C, E
    <3> QED
      BY <1>1, <3>1
  <2>2. Meaning[C + 1] = Meaning[C] \/ Cardinality(E(C + 1)) >= C + 1
    BY <1>8
  <2> HIDE DEF C, E
  <2> QED
    BY <1>7, <2>1, <2>2
<1>10. MaxDepth \in Nat /\ MaxDepth + 1 \in Nat /\ MaxDepth >= C /\ MaxDepth + 1 >= C
  BY <1>7, DepthAssumption
<1>11. Meaning[MaxDepth + 1] = Meaning[C] /\ Meaning[MaxDepth] = Meaning[C]
  <2> HIDE DEF C
  <2> QED
    BY <1>7, <1>9, <1>10, StableStays
<1> QED
  BY <1>11 DEF Settled

\* If no level above is missing, a meaning is the one the reference gives.
LEMMA SettledMeaning ==
  ASSUME surface \in Surfaces, Settled, NEW t \in Types
  PROVE  /\ \A m : Means(t, m) => MeaningOf(t) = m
         /\ Meaning[MaxDepth][t] = MeaningOf(t)
         /\ \A n \in Nat : Meaning[n][t] \in {Endless, MeaningOf(t)}
<1> DEFINE D == MaxDepth
<1>1. D \in Nat /\ D + 1 \in Nat /\ D + 2 \in Nat /\ D + 2 >= D
  BY DepthAssumption
<1>2. Meaning[D + 1] = Meaning[D]
  <2>1. Meaning[D + 1] = [u \in Types |-> Meaning[D + 1][u]] /\ Meaning[D] = [u \in Types |-> Meaning[D][u]]
    BY <1>1, MeaningFunction
  <2>2. \A u \in Types : Meaning[D + 1][u] = Meaning[D][u]
    BY DEF Settled
  <2> QED
    BY <2>1, <2>2
<1> HIDE DEF D
<1>3. \A k \in Nat : k >= D => Meaning[k] = Meaning[D]
  BY <1>1, <1>2, StableStays
<1>4. MeaningOf(t) = Meaning[D][t]
  <2>1. MeaningOf(t) = Meaning[D + 2][t]
    BY DEF MeaningOf, D
  <2> QED
    BY <1>1, <1>3, <2>1
<1>5. ASSUME NEW m, Means(t, m) PROVE MeaningOf(t) = m
  <2>1. PICK n \in Nat : Meaning[n][t] = m /\ m # Endless
    BY <1>5 DEF Means
  <2> DEFINE k == n + D
  <2>2. k \in Nat /\ k >= n /\ k >= D
    BY <1>1, <2>1
  <2> HIDE DEF k
  <2>3. Meaning[k][t] = m
    BY <2>1, <2>2, MeaningStays
  <2> QED
    BY <1>3, <1>4, <2>2, <2>3
<1>6. ASSUME NEW n \in Nat PROVE Meaning[n][t] \in {Endless, MeaningOf(t)}
  <2>1. CASE Meaning[n][t] # Endless
    <3>1. Means(t, Meaning[n][t])
      BY <2>1 DEF Means
    <3> QED
      BY <1>5, <3>1
  <2> QED
    BY <2>1
<1> QED
  BY <1>4, <1>5, <1>6 DEF D
-------------------------------------------------------------------------------
(* What Map is asked for *)

Functions == ToSet(surface.funcs)

\* The parameters and results that the emitter asks about are types.
LEMMA FunctionSlots ==
  ASSUME surface \in Surfaces, NEW f \in Functions
  PROVE  /\ f.pkg \in DOMAIN surface.names /\ f.params \in Seq(Types) /\ f.results \in Seq(Types)
         /\ Results(f) \in Seq(Types) /\ Slots(f) \in Seq(Types) /\ Len(Slots(f)) \in Nat
<1>1. PICK i \in DOMAIN surface.funcs : f = surface.funcs[i]
  BY DEF Functions, ToSet
<1>2. f.pkg \in DOMAIN surface.names /\ f.params \in Seq(Types) /\ f.results \in Seq(Types)
  BY <1>1, FunctionsAssumption
<1>3. Results(f) \in Seq(Types)
  <2>1. CASE HasError(f)
    <3>1. f.results # <<>>
      BY <2>1 DEF HasError
    <3>2. Front(f.results) \in Seq(Types)
      BY <1>2, <3>1 DEF Front
    <3> QED
      BY <2>1, <3>2 DEF Results
  <2>2. CASE ~HasError(f)
    BY <1>2, <2>2 DEF Results
  <2> QED
    BY <2>1, <2>2
<1>4. Slots(f) \in Seq(Types)
  BY <1>2, <1>3 DEF Slots
<1> QED
  BY <1>2, <1>3, <1>4

\* The next slot of the function that is visited.
Asking == Visiting /\ slot <= Len(Slots(Fn))

QueueRight ==
  /\ queue \in Seq(Functions)
  /\ queue # <<>> => slot \in 1..Len(Slots(Fn)) + 1

StackRight ==
  /\ Frames(stack) /\ crash \in BOOLEAN
  /\ crash => Len(stack) = MaxDepth /\ ~Done(Top.t, Top.got)

CacheRight == \A t \in DOMAIN cache : t \in Types /\ Means(t, cache[t]) /\ cache[t] # Unmappable

AskRight ==
  /\ stack # <<>> => ret = <<>> /\ Asking /\ stack[1].t = Slots(Fn)[slot]
  /\ ret # <<>> => Asking /\ \E m : ret = <<m>> /\ Means(Slots(Fn)[slot], m)

MapInv == surface \in Surfaces /\ QueueRight /\ StackRight /\ CacheRight /\ AskRight

LEMMA FramesNext ==
  ASSUME surface' = surface, Frames(stack')
  PROVE  Frames(stack)'
BY FramesKept

LEMMA AskedType ==
  ASSUME MapInv, Asking
  PROVE  Fn \in Functions /\ slot \in 1..Len(Slots(Fn)) /\ Slots(Fn)[slot] \in Types
<1>1. Fn \in Functions /\ slot \in 1..Len(Slots(Fn)) + 1
  BY DEF MapInv, QueueRight, Asking, Visiting, Fn
<1>2. Slots(Fn) \in Seq(Types) /\ Len(Slots(Fn)) \in Nat
  BY <1>1, FunctionSlots DEF MapInv
<1>3. slot \in 1..Len(Slots(Fn))
  BY <1>1, <1>2 DEF Asking
<1> QED
  BY <1>1, <1>2, <1>3

LEMMA BusyTop ==
  ASSUME MapInv, Busy
  PROVE  /\ stack \in Seq(FrameSet) /\ Len(stack) \in Nat \ {0} /\ Top = stack[Len(stack)]
         /\ Top \in FrameSet /\ Top.t \in Types /\ Under(Top.t, Top.got)
<1>1. Frames(stack) /\ stack # <<>>
  BY DEF MapInv, StackRight, Busy
<1>2. stack \in Seq(FrameSet) /\ Len(stack) \in Nat \ {0} /\ Top = stack[Len(stack)]
  BY <1>1 DEF Frames, Top, Last
<1>3. Len(stack) \in 1..Len(stack)
  BY <1>2
<1> QED
  BY <1>1, <1>2, <1>3, FrameFields DEF Frames

\* Map returns what its type means: to the call below, or to the emitter that asked.
LEMMA ReturnMeans ==
  ASSUME MapInv, Busy, surface' = surface, NEW m, Means(Top.t, m), Return(m), UNCHANGED emitVars
  PROVE  /\ Frames(stack)'
         /\ stack' # <<>> => /\ stack'[1].t = stack[1].t /\ ret' = ret
         /\ stack' = <<>> => /\ ret' = <<m>> /\ Means(Slots(Fn)[slot], m)
<1>1. stack \in Seq(FrameSet) /\ Len(stack) \in Nat \ {0} /\ Top = stack[Len(stack)] /\ Frames(stack) /\ stack # <<>>
  BY BusyTop DEF MapInv, StackRight, Busy
<1>2. CASE Len(stack) = 1
  <2>1. stack' = <<>> /\ ret' = <<m>>
    BY <1>2 DEF Return
  <2>2. Frames(<<>>)
    BY DepthAssumption DEF Frames
  <2>3. stack[1].t = Slots(Fn)[slot]
    BY <1>1 DEF MapInv, AskRight
  <2>4. Frames(stack)'
    BY <2>1, <2>2, FramesNext
  <2> QED
    BY <1>1, <1>2, <2>1, <2>3, <2>4
<1>3. CASE Len(stack) # 1
  <2>1. stack' = [Front(stack) EXCEPT ![Len(stack) - 1].got = Append(@, m)] /\ ret' = ret
    BY <1>3 DEF Return
  <2>2. surface \in Surfaces /\ Last(stack) = Top
    BY DEF MapInv, Top
  <2>3. Frames(stack') /\ stack' # <<>> /\ stack'[1].t = stack[1].t
    BY <1>1, <1>3, <2>1, <2>2, FramesPop
  <2>4. Frames(stack)'
    BY <2>3, FramesNext
  <2> QED
    BY <2>1, <2>3, <2>4
<1> QED
  BY <1>2, <1>3
\* Nothing of what the functions are changes with a step.
LEMMA SlotsKept ==
  ASSUME surface' = surface
  PROVE  /\ Functions' = Functions
         /\ \A f : Slots(f)' = Slots(f)
         /\ \A t, m : Means(t, m)' <=> Means(t, m)
         /\ \A t, got : Done(t, got)' <=> Done(t, got)
<1>1. \A t, m : Means(t, m)' <=> Means(t, m)
  BY UnderKept
<1>2. \A t, got : Done(t, got)' <=> Done(t, got)
  BY UnderKept
<1> QED
  BY <1>1, <1>2 DEF Functions, Slots, Results, HasError

\* The emitter goes on to the next function: no call of Map is left.
LEMMA NextFunction ==
  ASSUME MapInv, queue # <<>>, stack = <<>>, queue' = Tail(queue), slot' = 1, ret' = <<>>,
         UNCHANGED <<surface, cache, stack, crash>>
  PROVE  MapInv'
<1>1. /\ Functions' = Functions
      /\ \A f : Slots(f)' = Slots(f)
      /\ \A t, m : Means(t, m)' <=> Means(t, m)
  BY SlotsKept
<1>2. queue' \in Seq(Functions)
  BY DEF MapInv, QueueRight
<1>3. surface \in Surfaces
  BY DEF MapInv
<1>4. QueueRight'
  <2>1. ASSUME queue' # <<>> PROVE Len(Slots(Fn)') \in Nat
    <3>1. Fn' \in Functions
      BY <1>2, <2>1 DEF Fn
    <3>2. Len(Slots(Fn')) \in Nat
      BY <1>3, <3>1, FunctionSlots
    <3>3. Slots(Fn)' = Slots(Fn')
      BY DEF Slots, Results, HasError
    <3> QED
      BY <3>2, <3>3
  <2>2. queue' # <<>> => 1 \in 1..Len(Slots(Fn)') + 1
    BY <2>1
  <2> QED
    BY <1>1, <1>2, <2>2 DEF QueueRight
<1>5. Frames(stack) /\ crash = FALSE
  <2>1. Len(stack) = 0 /\ MaxDepth # 0
    BY DepthAssumption
  <2> QED
    BY <2>1 DEF MapInv, StackRight
<1>6. StackRight'
  <2>1. Frames(stack)'
    BY <1>5, FramesNext
  <2> QED
    BY <1>5, <2>1 DEF StackRight
<1>7. CacheRight'
  BY <1>1 DEF MapInv, CacheRight
<1>8. AskRight'
  BY DEF AskRight
<1> QED
  BY <1>3, <1>4, <1>6, <1>7, <1>8 DEF MapInv

\* A call of Map is under way, or its answer is there, only while a slot is asked about.
LEMMA Idle ==
  ASSUME MapInv, ~Asking
  PROVE  stack = <<>> /\ ret = <<>> /\ crash = FALSE
<1>1. stack = <<>> /\ ret = <<>>
  BY DEF MapInv, AskRight
<1>2. Len(stack) = 0 /\ MaxDepth # 0
  BY <1>1, DepthAssumption
<1> QED
  BY <1>1, <1>2 DEF MapInv, StackRight

\* The queue and the slot stay as they are: so does what is asked about.
LEMMA AskKept ==
  ASSUME MapInv, surface' = surface, UNCHANGED <<queue, slot>>
  PROVE  /\ QueueRight' /\ Slots(Fn)' = Slots(Fn)
         /\ Asking' <=> Asking
<1>1. Functions' = Functions
  BY SlotsKept
<1>2. Fn' = Fn
  BY DEF Fn
<1>3. Slots(Fn)' = Slots(Fn)
  BY <1>2 DEF Slots, Results, HasError
<1>4. QueueRight'
  BY <1>1, <1>3 DEF MapInv, QueueRight
<1>5. Visiting' <=> Visiting
  BY <1>2 DEF Visiting
<1> QED
  BY <1>3, <1>4, <1>5 DEF Asking

LEMMA SkipGenericKeeps ==
  ASSUME MapInv, SkipGeneric
  PROVE  MapInv'
<1>1. stack = <<>> /\ ret = <<>>
  BY Idle DEF SkipGeneric, Asking, Visiting
<1>2. queue # <<>> /\ queue' = Tail(queue) /\ slot' = 1 /\ UNCHANGED <<surface, cache, stack, ret, crash>>
  BY DEF SkipGeneric, Skip, mapperVars
<1> QED
  BY <1>1, <1>2, NextFunction

LEMMA EmitFuncKeeps ==
  ASSUME MapInv, EmitFunc
  PROVE  MapInv'
<1>1. queue # <<>> /\ queue' = Tail(queue) /\ slot' = 1 /\ UNCHANGED <<surface, cache, stack, ret, crash>>
  BY DEF EmitFunc, mapperVars, Visiting
<1>2. ~Asking
  <2>1. Fn \in Functions /\ slot \in 1..Len(Slots(Fn)) + 1 /\ surface \in Surfaces
    BY <1>1 DEF MapInv, QueueRight, Fn
  <2>2. Len(Slots(Fn)) \in Nat
    BY <2>1, FunctionSlots
  <2>3. slot > Len(Slots(Fn))
    BY DEF EmitFunc
  <2> QED
    BY <2>1, <2>2, <2>3 DEF Asking
<1>3. stack = <<>> /\ ret = <<>>
  BY <1>2, Idle
<1> QED
  BY <1>1, <1>3, NextFunction

LEMMA AskSlotKeeps ==
  ASSUME MapInv, AskSlot
  PROVE  MapInv'
<1> DEFINE t == Slots(Fn)[slot]
<1>1. /\ Asking /\ surface' = surface /\ UNCHANGED <<queue, slot, cache, ret, crash>>
      /\ stack = <<>> /\ ret = <<>> /\ crash = FALSE /\ stack' = <<Frame(t)>>
  BY DEF AskSlot, Map, Asking, emitVars, MapInv, StackRight
<1>2. t \in Types /\ surface \in Surfaces
  BY <1>1, AskedType DEF MapInv
<1>3. QueueRight' /\ Slots(Fn)' = Slots(Fn) /\ Asking'
  BY <1>1, AskKept
<1>4. Frames(stack)'
  <2> HIDE DEF t
  <2>1. Frames(<<Frame(t)>>)
    BY <1>2, FramesStart
  <2>2. Frames(stack')
    BY <1>1, <2>1
  <2> QED
    BY <1>1, <2>2, FramesNext
<1>5. StackRight'
  BY <1>1, <1>4 DEF StackRight
<1>6. \A u, m : Means(u, m)' <=> Means(u, m)
  BY <1>1, SlotsKept
<1>7. CacheRight'
  BY <1>1, <1>6 DEF MapInv, CacheRight
<1>8. stack'[1].t = Slots(Fn)[slot]
  BY <1>1 DEF Frame
<1>9. AskRight'
  BY <1>1, <1>3, <1>8 DEF AskRight
<1> QED
  BY <1>1, <1>2, <1>3, <1>5, <1>7, <1>9 DEF MapInv

LEMMA TakeSlotKeeps ==
  ASSUME MapInv, TakeSlot
  PROVE  MapInv'
<1>1. ret # <<>> /\ ret' = <<>> /\ Visiting /\ UNCHANGED <<surface, cache, stack, crash>>
  BY DEF TakeSlot, Answered
<1>2. stack = <<>> /\ Asking
  BY <1>1 DEF MapInv, AskRight
<1>3. CASE queue' = Tail(queue) /\ slot' = 1
  BY <1>1, <1>2, <1>3, NextFunction DEF Visiting
<1>4. CASE slot' = slot + 1 /\ UNCHANGED queue
  <2>1. surface \in Surfaces /\ Fn \in Functions /\ slot \in 1..Len(Slots(Fn))
    BY <1>2, AskedType DEF MapInv
  <2>2. Len(Slots(Fn)) \in Nat
    BY <2>1, FunctionSlots
  <2>3. Functions' = Functions /\ \A u, m : Means(u, m)' <=> Means(u, m)
    BY <1>1, SlotsKept
  <2>4. Slots(Fn)' = Slots(Fn)
    BY <1>1, <1>4 DEF Fn, Slots, Results, HasError
  <2>5. slot' \in 1..Len(Slots(Fn)) + 1
    BY <1>4, <2>1, <2>2
  <2>6. QueueRight'
    BY <1>4, <2>3, <2>4, <2>5 DEF MapInv, QueueRight
  <2>7. CacheRight'
    BY <1>1, <2>3 DEF MapInv, CacheRight
  <2>8. AskRight'
    BY <1>1, <1>2 DEF AskRight
  <2>9. StackRight'
    <3>1. Frames(stack)'
      BY <1>1, FramesNext DEF MapInv, StackRight
    <3>2. Len(stack) = 0 /\ MaxDepth # 0
      BY <1>2, DepthAssumption
    <3> QED
      BY <1>1, <3>1, <3>2 DEF MapInv, StackRight
  <2> QED
    BY <1>1, <2>1, <2>6, <2>7, <2>8, <2>9 DEF MapInv
<1> QED
  BY <1>3, <1>4 DEF TakeSlot, Skip

\* A call returns: the stack, what it means and what is asked about stay right.
LEMMA ReturnKeeps ==
  ASSUME MapInv, Busy, surface' = surface, NEW m, Means(Top.t, m), Return(m),
         UNCHANGED emitVars, crash' = crash
  PROVE  QueueRight' /\ StackRight' /\ AskRight'
<1>1. /\ Frames(stack)'
      /\ stack' # <<>> => stack'[1].t = stack[1].t /\ ret' = ret
      /\ stack' = <<>> => ret' = <<m>> /\ Means(Slots(Fn)[slot], m)
  BY ReturnMeans
<1>2. QueueRight' /\ Slots(Fn)' = Slots(Fn) /\ (Asking' <=> Asking)
  BY AskKept DEF emitVars
<1>3. StackRight'
  BY <1>1 DEF StackRight, MapInv, Busy
<1>4. ret = <<>> /\ Asking /\ stack[1].t = Slots(Fn)[slot]
  BY DEF MapInv, AskRight, Busy
<1>5. \A t, n : Means(t, n)' <=> Means(t, n)
  BY SlotsKept
<1>6. slot' = slot
  BY DEF emitVars
<1>7. CASE stack' # <<>>
  <2>1. ret' = <<>> /\ Asking' /\ stack'[1].t = Slots(Fn)[slot]
    BY <1>1, <1>2, <1>4, <1>7
  <2>2. (Slots(Fn)[slot])' = Slots(Fn)[slot]
    BY <1>2, <1>6
  <2> QED
    BY <1>2, <1>3, <2>1, <2>2 DEF AskRight
<1>8. CASE stack' = <<>>
  <2>1. ret' = <<m>> /\ Asking'
    BY <1>1, <1>2, <1>4, <1>8
  <2>2. (Slots(Fn)[slot])' = Slots(Fn)[slot]
    BY <1>2, <1>6
  <2>3. Means(Slots(Fn)[slot], m)'
    BY <1>1, <1>5, <1>8, <2>2
  <2> QED
    BY <1>2, <1>3, <1>8, <2>1, <2>3 DEF AskRight
<1> QED
  BY <1>2, <1>3, <1>7, <1>8

LEMMA HitKeeps ==
  ASSUME MapInv, Hit, UNCHANGED emitVars
  PROVE  MapInv'
<1> DEFINE m == cache[Top.t]
<1>1. Busy /\ surface' = surface /\ cache' = cache /\ crash' = crash /\ Return(m) /\ Top.t \in DOMAIN cache
  BY DEF Hit
<1>2. Means(Top.t, m)
  BY <1>1 DEF MapInv, CacheRight
<1>3. QueueRight' /\ StackRight' /\ AskRight'
  <2> HIDE DEF m
  <2> QED
    BY <1>1, <1>2, ReturnKeeps
<1>4. \A t, n : Means(t, n)' <=> Means(t, n)
  BY <1>1, SlotsKept
<1>5. CacheRight'
  BY <1>1, <1>4 DEF MapInv, CacheRight
<1> QED
  BY <1>1, <1>3, <1>5 DEF MapInv

LEMMA FinishKeeps ==
  ASSUME MapInv, Finish, UNCHANGED emitVars
  PROVE  MapInv'
<1> DEFINE m == mapType(Top.t, Top.got)
<1>1. /\ Busy /\ Done(Top.t, Top.got) /\ surface' = surface /\ crash' = crash /\ Return(m)
      /\ cache' = IF m = Unmappable THEN cache
                  ELSE [k \in DOMAIN cache \cup {Top.t} |-> IF k = Top.t THEN m ELSE cache[k]]
  BY DEF Finish, Missed
<1>2. surface \in Surfaces /\ Top.t \in Types /\ Under(Top.t, Top.got)
  BY <1>1, BusyTop DEF MapInv
<1>3. Means(Top.t, m)
  BY <1>1, <1>2, DoneMeans
<1> HIDE DEF m
<1>4. QueueRight' /\ StackRight' /\ AskRight'
  BY <1>1, <1>3, ReturnKeeps
<1>5. \A t, n : Means(t, n)' <=> Means(t, n)
  BY <1>1, SlotsKept
<1>6. \A t \in DOMAIN cache' : t \in Types /\ Means(t, cache'[t]) /\ cache'[t] # Unmappable
  <2>1. CASE m = Unmappable
    BY <1>1, <2>1 DEF MapInv, CacheRight
  <2>2. CASE m # Unmappable
    BY <1>1, <1>2, <1>3, <2>2 DEF MapInv, CacheRight
  <2> QED
    BY <2>1, <2>2
<1>7. CacheRight'
  BY <1>5, <1>6 DEF CacheRight, Unmappable
<1> QED
  BY <1>1, <1>2, <1>4, <1>7 DEF MapInv

LEMMA DescendKeeps ==
  ASSUME MapInv, Descend, UNCHANGED emitVars
  PROVE  MapInv'
<1> DEFINE u == Parts(Top.t)[Len(Top.got) + 1]
<1>1. Busy /\ ~Done(Top.t, Top.got) /\ surface' = surface /\ cache' = cache /\ ret' = ret /\ stack # <<>>
  BY DEF Descend, Missed, Busy
<1>2. surface \in Surfaces /\ Frames(stack) /\ Top = Last(stack) /\ Len(stack) \in Nat /\ Len(stack) <= MaxDepth
  BY <1>1, BusyTop DEF MapInv, StackRight, Top, Frames
<1>3. QueueRight' /\ Slots(Fn)' = Slots(Fn) /\ (Asking' <=> Asking) /\ slot' = slot
  BY <1>1, AskKept DEF emitVars
<1>4. \A t, n : Means(t, n)' <=> Means(t, n)
  BY <1>1, SlotsKept
<1>5. CacheRight'
  BY <1>1, <1>4 DEF MapInv, CacheRight
<1>6. ret = <<>> /\ Asking /\ stack[1].t = Slots(Fn)[slot]
  BY <1>1 DEF MapInv, AskRight
<1>7. CASE Len(stack) < MaxDepth
  <2>1. stack' = Append(stack, Frame(u)) /\ crash' = crash
    BY <1>7 DEF Descend
  <2>2. Frames(stack') /\ stack' # <<>> /\ stack'[1] = stack[1]
    BY <1>1, <1>2, <1>7, <2>1, FramesPush
  <2>3. Frames(stack)'
    BY <1>1, <2>2, FramesNext
  <2>4. StackRight'
    BY <1>1, <2>1, <2>3 DEF StackRight, MapInv, Busy
  <2>5. AskRight'
    BY <1>1, <1>3, <1>6, <2>2 DEF AskRight
  <2> QED
    BY <1>1, <1>2, <1>3, <1>5, <2>4, <2>5 DEF MapInv
<1>8. CASE ~(Len(stack) < MaxDepth)
  <2>1. stack' = stack /\ crash' = TRUE
    BY <1>8 DEF Descend
  <2>2. Len(stack) = MaxDepth
    BY <1>2, <1>8, DepthAssumption
  <2>3. Frames(stack)'
    BY <1>1, <1>2, <2>1, FramesNext
  <2>4. Top' = Top /\ \A t, got : Done(t, got)' <=> Done(t, got)
    BY <1>1, <2>1, SlotsKept DEF Top
  <2>5. ~Done(Top.t, Top.got)'
    BY <1>1, <2>4
  <2>6. StackRight'
    BY <2>1, <2>2, <2>3, <2>5 DEF StackRight
  <2>7. AskRight'
    BY <1>1, <1>3, <1>6, <2>1 DEF AskRight
  <2> QED
    BY <1>1, <1>2, <1>3, <1>5, <2>6, <2>7 DEF MapInv
<1> QED
  BY <1>7, <1>8
-------------------------------------------------------------------------------
(* Sequences that list a set *)

\* What is so at 0, and at each number of a range if at the one before, is so on the range.
LEMMA UpTo ==
  ASSUME NEW last \in Nat, NEW S, 0 \in S, \A n \in 1..last : n - 1 \in S => n \in S
  PROVE  \A n \in 0..last : n \in S
<1> DEFINE R == {n \in Nat : n <= last => n \in S}
<1>1. 0 \in R
  OBVIOUS
<1>2. ASSUME NEW n \in Nat, n \in R PROVE n + 1 \in R
  <2> SUFFICES ASSUME n + 1 <= last PROVE n + 1 \in S
    OBVIOUS
  <2>1. n \in S /\ n + 1 \in 1..last /\ n + 1 - 1 = n
    BY <1>2
  <2> QED
    BY <2>1
<1> HIDE DEF R
<1>3. \A n \in Nat : n \in R
  BY <1>1, <1>2, Induction
<1> QED
  BY <1>3 DEF R

\* FlattenSeq goes through its pieces from the left.
Flattens(f, pieces) ==
  f[0] = <<>> /\ \A n \in 1..Len(pieces) : f[n] = f[n - 1] \o pieces[n]

LEMMA FlattenRuns ==
  ASSUME NEW T, NEW pieces \in Seq(Seq(T))
  PROVE  \E f : /\ Flattens(f, pieces)
                /\ \A n \in 0..Len(pieces) : f[n] \in Seq(T)
                /\ FlattenSeq(pieces) = f[Len(pieces)]
<1> DEFINE N == Len(pieces)
           Solves(f) == f = [i \in 1..N |-> IF i = 1 THEN pieces[i] ELSE f[i - 1] \o pieces[i]]
           flatten == CHOOSE f : Solves(f)
           Runs(f, m) == f[0] = <<>> /\ \A n \in 1..m : f[n] = f[n - 1] \o pieces[n]
           Can == {m \in 0..N : \E f : Runs(f, m)}
<1>1. N \in Nat /\ (N = 0 <=> pieces = <<>>) /\ \A n \in 1..N : pieces[n] \in Seq(T)
  OBVIOUS
<1>2. FlattenSeq(pieces) = IF N = 0 THEN pieces ELSE flatten[N]
  BY DEF FlattenSeq
<1> HIDE DEF N
<1>3. 0 \in Can
  <2>1. Runs([n \in {0} |-> <<>>], 0)
    OBVIOUS
  <2>2. 0 \in 0..N
    BY <1>1
  <2> HIDE DEF Runs
  <2> QED
    BY <2>1, <2>2
<1>4. ASSUME NEW m \in 1..N, m - 1 \in Can PROVE m \in Can
  <2>1. PICK f : Runs(f, m - 1)
    BY <1>4
  <2> DEFINE h == [n \in 0..m |-> IF n = m THEN f[m - 1] \o pieces[m] ELSE f[n]]
  <2>2. h[0] = <<>>
    BY <2>1
  <2>3. ASSUME NEW n \in 1..m PROVE h[n] = h[n - 1] \o pieces[n]
    <3>1. n \in 0..m /\ n - 1 \in 0..m /\ n - 1 # m
      OBVIOUS
    <3>2. h[n - 1] = f[n - 1]
      BY <3>1
    <3>3. CASE n = m
      BY <3>1, <3>2, <3>3
    <3>4. CASE n # m
      <4>1. n \in 1..(m - 1)
        BY <3>4
      <4>2. h[n] = f[n] /\ f[n] = f[n - 1] \o pieces[n]
        BY <2>1, <3>1, <3>4, <4>1
      <4> QED
        BY <3>2, <4>2
    <3> QED
      BY <3>3, <3>4
  <2> HIDE DEF h
  <2>4. Runs(h, m)
    BY <2>2, <2>3
  <2>5. m \in 0..N
    BY <1>1
  <2> HIDE DEF Runs
  <2> QED
    BY <2>4, <2>5
<1>5. N \in Can
  <2> HIDE DEF Can
  <2>1. \A n \in 0..N : n \in Can
    BY <1>1, <1>3, <1>4, UpTo
  <2> QED
    BY <1>1, <2>1
<1>6. PICK f : Runs(f, N)
  BY <1>5
<1>7. \A n \in 0..N : f[n] \in Seq(T)
  <2> DEFINE Typed == {n \in 0..N : f[n] \in Seq(T)}
  <2>1. 0 \in Typed
    <3>1. <<>> \in Seq(T) /\ 0 \in 0..N
      BY <1>1
    <3> QED
      BY <1>6, <3>1
  <2>2. ASSUME NEW n \in 1..N, n - 1 \in Typed PROVE n \in Typed
    <3>1. f[n - 1] \in Seq(T) /\ pieces[n] \in Seq(T)
      BY <1>1, <2>2
    <3>2. f[n - 1] \o pieces[n] \in Seq(T)
      BY <3>1
    <3>3. f[n] = f[n - 1] \o pieces[n]
      BY <1>6
    <3>4. n \in 0..N
      BY <1>1
    <3> QED
      BY <3>2, <3>3, <3>4
  <2> HIDE DEF Typed
  <2>3. \A n \in 0..N : n \in Typed
    BY <1>1, <2>1, <2>2, UpTo
  <2> QED
    BY <2>3 DEF Typed
<1>8. \A y \in Seq(T) : <<>> \o y = y
  OBVIOUS
<1>9. \E g : Solves(g)
  <2> DEFINE g == [i \in 1..N |-> f[i]]
  <2>1. ASSUME NEW i \in 1..N PROVE f[i] = IF i = 1 THEN pieces[i] ELSE g[i - 1] \o pieces[i]
    <3>1. CASE i = 1
      <4>1. f[1] = f[0] \o pieces[1] /\ pieces[1] \in Seq(T)
        <5>1. 1 \in 1..N /\ 1 - 1 = 0
          BY <3>1
        <5> QED
          BY <1>1, <1>6, <5>1
      <4> QED
        BY <1>6, <1>8, <3>1, <4>1
    <3>2. CASE i # 1
      <4>1. i - 1 \in 1..N
        BY <1>1, <3>2
      <4> QED
        BY <1>6, <3>2, <4>1
    <3> QED
      BY <3>1, <3>2
  <2>2. g = [i \in 1..N |-> f[i]]
    OBVIOUS
  <2> HIDE DEF g
  <2>3. Solves(g)
    BY <2>1, <2>2
  <2> QED
    BY <2>3
<1>10. Solves(flatten)
  BY <1>9
<1> HIDE DEF flatten
<1> DEFINE Same == {n \in 0..N : n # 0 => flatten[n] = f[n]}
<1>11. 0 \in Same
  BY <1>1
<1>12. ASSUME NEW n \in 1..N, n - 1 \in Same PROVE n \in Same
  <2>1. CASE n = 1
    <3>1. flatten[1] = pieces[1] /\ pieces[1] \in Seq(T)
      BY <1>1, <1>10, <2>1
    <3>2. f[1] = f[0] \o pieces[1]
      <4>1. 1 \in 1..N /\ 1 - 1 = 0
        BY <2>1
      <4> QED
        BY <1>6, <4>1
    <3> QED
      BY <1>6, <1>8, <2>1, <3>1, <3>2
  <2>2. CASE n # 1
    <3>1. n - 1 \in 1..N /\ n - 1 # 0 /\ n \in 0..N
      BY <1>1, <2>2
    <3>2. flatten[n] = flatten[n - 1] \o pieces[n]
      BY <1>10, <2>2
    <3>3. f[n] = f[n - 1] \o pieces[n]
      BY <1>6
    <3> QED
      BY <1>12, <3>1, <3>2, <3>3
  <2> QED
    BY <2>1, <2>2
<1>13. N # 0 => flatten[N] = f[N]
  <2> HIDE DEF Same
  <2>1. \A n \in 0..N : n \in Same
    BY <1>1, <1>11, <1>12, UpTo
  <2>2. N \in Same
    BY <1>1, <2>1
  <2> QED
    BY <2>2 DEF Same
<1>14. FlattenSeq(pieces) = f[N]
  <2>1. CASE N = 0
    BY <1>1, <1>2, <1>6, <2>1
  <2>2. CASE N # 0
    BY <1>2, <1>13, <2>2
  <2> QED
    BY <2>1, <2>2
<1>15. Flattens(f, pieces)
  BY <1>6 DEF Flattens, N
<1> QED
  BY <1>7, <1>14, <1>15 DEF N

\* Each of X is in the sequence, once, and nothing else is.
Lists(s, X) ==
  /\ s \in Seq(X)
  /\ \A i, j \in 1..Len(s) : s[i] = s[j] => i = j
  /\ \A x \in X : \E i \in 1..Len(s) : s[i] = x

LEMMA ListsNone == Lists(<<>>, {})
BY DEF Lists

LEMMA ListsOne ==
  ASSUME NEW X, NEW s, Lists(s, X), NEW x, x \notin X, NEW Y, Y = X \cup {x}
  PROVE  Lists(Append(s, x), Y) /\ Lists(s \o <<x>>, Y) /\ Len(Append(s, x)) = Len(s) + 1
<1> DEFINE n == Len(s)
           a == Append(s, x)
<1>1. s \in Seq(X) /\ s \in Seq(Y) /\ n \in Nat /\ x \in Y /\ \A i \in 1..n : s[i] \in X
  BY DEF Lists
<1>2. a \in Seq(Y) /\ Len(a) = n + 1 /\ a[n + 1] = x /\ \A i \in 1..n : a[i] = s[i]
  BY <1>1
<1>3. s \o <<x>> = a
  <2>1. <<x>> \in Seq(Y) /\ Len(<<x>>) = 1
    BY <1>1
  <2> DEFINE b == s \o <<x>>
  <2>2. b \in Seq(Y) /\ Len(b) = n + 1 /\ \A i \in 1..(n + 1) : b[i] = IF i <= n THEN s[i] ELSE <<x>>[i - n]
    BY <1>1, <2>1, ConcatProperties
  <2> HIDE DEF a, b
  <2>3. \A i \in 1..(n + 1) : b[i] = a[i]
    BY <1>1, <1>2, <2>2
  <2>4. a = b
    BY <1>2, <2>2, <2>3, SeqEqual
  <2> QED
    BY <2>4 DEF b
<1> HIDE DEF a, n
<1>4. ASSUME NEW i \in 1..(n + 1), NEW j \in 1..(n + 1), a[i] = a[j] PROVE i = j
  <2>1. CASE i \in 1..n /\ j \in 1..n
    <3>1. \A k, l \in 1..n : s[k] = s[l] => k = l
      BY DEF Lists, n
    <3>2. a[i] = s[i] /\ a[j] = s[j]
      BY <1>2, <2>1
    <3> QED
      BY <1>4, <2>1, <3>1, <3>2
  <2>2. CASE i = n + 1 /\ j = n + 1
    BY <2>2
  <2>3. CASE i \in 1..n /\ j = n + 1
    <3>1. a[i] \in X /\ a[j] = x
      BY <1>1, <1>2, <2>3
    <3> QED
      BY <1>4, <3>1
  <2>4. CASE i = n + 1 /\ j \in 1..n
    <3>1. a[j] \in X /\ a[i] = x
      BY <1>1, <1>2, <2>4
    <3> QED
      BY <1>4, <3>1
  <2> QED
    BY <1>1, <2>1, <2>2, <2>3, <2>4
<1>5. ASSUME NEW y \in Y PROVE \E i \in 1..(n + 1) : a[i] = y
  <2>1. CASE y = x
    <3>1. n + 1 \in 1..(n + 1)
      BY <1>1
    <3> QED
      BY <1>2, <2>1, <3>1
  <2>2. CASE y # x
    <3>1. PICK i \in 1..n : s[i] = y
      BY <2>2 DEF Lists, n
    <3>2. i \in 1..(n + 1)
      BY <1>1
    <3> QED
      BY <1>2, <3>1, <3>2
  <2> QED
    BY <2>1, <2>2
<1>6. Lists(a, Y)
  BY <1>2, <1>4, <1>5 DEF Lists
<1> QED
  BY <1>2, <1>3, <1>6 DEF a, n

\* What is listed counts once, and anything else not at all.
LEMMA CountListed ==
  ASSUME NEW X, NEW s, Lists(s, X), NEW x
  PROVE  Cardinality({i \in DOMAIN s : s[i] = x}) = (IF x \in X THEN 1 ELSE 0)
<1> DEFINE at == {i \in DOMAIN s : s[i] = x}
<1>1. DOMAIN s = 1..Len(s) /\ \A i \in 1..Len(s) : s[i] \in X
  BY DEF Lists
<1>2. CASE x \in X
  <2>1. PICK i \in 1..Len(s) : s[i] = x
    BY <1>2 DEF Lists
  <2>2. at = {i}
    BY <1>1, <2>1 DEF Lists
  <2> QED
    BY <1>2, <2>2, FS_Singleton
<1>3. CASE x \notin X
  <2>1. at = {}
    BY <1>1, <1>3
  <2> QED
    BY <1>3, <2>1, FS_EmptySet
<1> QED
  BY <1>2, <1>3

\* A finite set as a sequence.
LEMMA SetListed ==
  ASSUME NEW X, IsFiniteSet(X)
  PROVE  Lists(SetToSeq(X), X)
<1> DEFINE C == Cardinality(X)
           s == SetToSeq(X)
<1>1. C \in Nat /\ ExistsBijection(1..C, X)
  BY FS_CardinalityType
<1>2. \E f \in [1..C -> X] : IsInjective(f)
  BY <1>1 DEF ExistsBijection, Bijection, Injection
<1>3. s \in [1..C -> X] /\ IsInjective(s)
  BY <1>2 DEF SetToSeq
<1> HIDE DEF s
<1>4. s \in Injection(1..C, X)
  BY <1>3 DEF Injection
<1>5. Cardinality(1..C) = C
  <2>1. Cardinality(1..C) = IF 1 > C THEN 0 ELSE C - 1 + 1
    BY <1>1, FS_Interval
  <2> HIDE DEF C
  <2> QED
    BY <1>1, <2>1
<1>6. s \in Surjection(1..C, X)
  <2> HIDE DEF C
  <2> QED
    BY <1>4, <1>5, FS_Injection DEF C
<1> HIDE DEF C
<1>7. \A x \in X : \E i \in 1..C : s[i] = x
  BY <1>6 DEF Surjection
<1>8. s \in Seq(X) /\ Len(s) = C
  BY <1>1, <1>3
<1>9. \A i, j \in 1..C : s[i] = s[j] => i = j
  BY <1>3 DEF IsInjective
<1>10. Lists(s, X)
  BY <1>7, <1>8, <1>9 DEF Lists
<1> QED
  BY <1>10 DEF s
-------------------------------------------------------------------------------
(* What Emit visits and what it only notes *)

Library   == {f \in Functions : ~IsMain(f.pkg)}
MainNotes == {[pkg |-> p] : p \in {p \in DOMAIN surface.names : IsMain(p)}}

LEMMA MainsListed ==
  ASSUME surface \in Surfaces
  PROVE  Lists(Mains, MainNotes)
<1> DEFINE M == {p \in DOMAIN surface.names : IsMain(p)}
           note == [p \in M |-> [pkg |-> p]]
<1>1. IsFiniteSet(M)
  <2>1. IsFiniteSet(DOMAIN surface.names) /\ M \in SUBSET DOMAIN surface.names
    BY FunctionsAssumption
  <2> HIDE DEF M
  <2> QED
    BY <2>1, FS_Subset
<1>2. MainNotes = {[pkg |-> p] : p \in M}
  BY DEF MainNotes
<1> HIDE DEF M
<1>3. note \in Bijection(M, MainNotes)
  <2>1. note \in [M -> MainNotes] /\ \A x \in MainNotes : \E p \in M : note[p] = x
    BY <1>2
  <2>2. \A p, q \in M : note[p] = note[q] => p = q
    OBVIOUS
  <2> HIDE DEF note
  <2>3. DOMAIN note = M
    BY <2>1
  <2> QED
    BY <2>1, <2>2, <2>3 DEF Bijection, Injection, Surjection, IsInjective
<1>4. IsFiniteSet(MainNotes)
  <2> HIDE DEF note
  <2>1. ExistsBijection(M, MainNotes)
    BY <1>3 DEF ExistsBijection
  <2> QED
    BY <1>1, <2>1, FS_Bijection
<1>5. Mains = SetToSeq(MainNotes)
  BY DEF Mains, MainNotes
<1> QED
  BY <1>4, <1>5, SetListed

\* Each function of a library package is visited, once.
LEMMA VisitsListed ==
  ASSUME surface \in Surfaces
  PROVE  Lists(Visits, Library)
<1> DEFINE fs == surface.funcs
           N == Len(fs)
           piece(g) == IF IsMain(g.pkg) THEN <<>> ELSE <<g>>
           pieces == [i \in DOMAIN fs |-> piece(fs[i])]
           Upto(n) == {g \in Functions : ~IsMain(g.pkg) /\ \E i \in 1..n : fs[i] = g}
<1>1. fs \in Seq(Functions) /\ N \in Nat /\ DOMAIN fs = 1..N /\ \A i \in 1..N : fs[i] \in Functions
  BY FunctionsAssumption DEF Functions
<1>2. \A i, j \in 1..N : fs[i] = fs[j] => i = j
  BY <1>1, FunctionsAssumption
<1>3. \A g \in Functions : \E i \in 1..N : fs[i] = g
  BY <1>1 DEF Functions, ToSet
<1>4. Visits = FlattenSeq(pieces)
  BY DEF Visits
<1> HIDE DEF fs, N
<1>5. pieces \in Seq(Seq(Functions)) /\ Len(pieces) = N /\ \A i \in 1..N : pieces[i] = piece(fs[i])
  <2>1. \A i \in 1..N : piece(fs[i]) \in Seq(Functions)
    BY <1>1
  <2> HIDE DEF piece
  <2> QED
    BY <1>1, <2>1
<1> HIDE DEF pieces
<1>6. PICK f : Flattens(f, pieces) /\ FlattenSeq(pieces) = f[N] /\ \A n \in 0..N : f[n] \in Seq(Functions)
  BY <1>5, FlattenRuns
<1> DEFINE S == {n \in 0..N : Lists(f[n], Upto(n))}
<1>7. 0 \in S
  <2>1. f[0] = <<>> /\ Upto(0) = {} /\ 0 \in 0..N
    BY <1>1, <1>6 DEF Flattens
  <2> HIDE DEF Upto
  <2> QED
    BY <2>1, ListsNone
<1>8. ASSUME NEW n \in 1..N, n - 1 \in S PROVE n \in S
  <2> DEFINE g == fs[n]
             X == Upto(n - 1)
             Y == Upto(n)
  <2>1. f[n] = f[n - 1] \o piece(g) /\ g \in Functions /\ n \in 0..N /\ n - 1 \in 0..N
    <3>1. f[n] = f[n - 1] \o pieces[n]
      BY <1>5, <1>6 DEF Flattens
    <3>2. pieces[n] = piece(g) /\ g \in Functions
      BY <1>1, <1>5
    <3>3. n \in 0..N /\ n - 1 \in 0..N
      BY <1>1
    <3> HIDE DEF piece, g
    <3> QED
      BY <3>1, <3>2, <3>3
  <2>2. Lists(f[n - 1], X) /\ f[n - 1] \in Seq(Functions)
    BY <1>6, <1>8, <2>1
  <2>3. CASE IsMain(g.pkg)
    <3>1. f[n] = f[n - 1]
      BY <2>1, <2>2, <2>3
    <3>2. X = Y
      <4>1. \A i \in 1..n : i = n \/ i \in 1..(n - 1)
        BY <1>1
      <4>2. \A i \in 1..(n - 1) : i \in 1..n
        BY <1>1
      <4> QED
        BY <2>3, <4>1, <4>2
    <3> HIDE DEF X, Y
    <3>3. Lists(f[n], Y)
      BY <2>2, <3>1, <3>2
    <3> QED
      BY <2>1, <3>3 DEF Y
  <2>4. CASE ~IsMain(g.pkg)
    <3>1. f[n] = f[n - 1] \o <<g>>
      BY <2>1, <2>4
    <3>2. Y = X \cup {g}
      <4>1. \A i \in 1..n : i = n \/ i \in 1..(n - 1)
        BY <1>1
      <4>2. n \in 1..n /\ \A i \in 1..(n - 1) : i \in 1..n
        BY <1>1
      <4> QED
        BY <2>1, <2>4, <4>1, <4>2
    <3>3. g \notin X
      <4>1. ASSUME NEW i \in 1..(n - 1) PROVE fs[i] # g
        <5>1. i \in 1..N /\ i # n
          BY <1>1
        <5> QED
          BY <1>2, <5>1
      <4> QED
        BY <4>1
    <3> HIDE DEF X, Y, g
    <3>4. Lists(f[n], Y)
      BY <2>2, <3>1, <3>2, <3>3, ListsOne
    <3> QED
      BY <2>1, <3>4 DEF Y
  <2> QED
    BY <2>3, <2>4
<1>9. Lists(f[N], Upto(N))
  <2> HIDE DEF S
  <2>1. N \in S
    BY <1>1, <1>7, <1>8, UpTo
  <2> QED
    BY <2>1 DEF S
<1>10. Upto(N) = Library
  BY <1>3 DEF Library
<1> QED
  BY <1>4, <1>6, <1>9, <1>10

-------------------------------------------------------------------------------
(* The invariant of the emitter and the mapper *)

LEMMA MapInvInit ==
  ASSUME Init
  PROVE  MapInv
<1>1. /\ surface \in Surfaces /\ cache = <<>> /\ stack = <<>> /\ ret = <<>> /\ crash = FALSE
      /\ queue = Visits /\ slot = 1
  BY DEF Init, MapperInit
<1>2. queue \in Seq(Functions)
  <2>1. Visits \in Seq(Library)
    BY <1>1, VisitsListed DEF Lists
  <2> QED
    BY <1>1, <2>1 DEF Library
<1>3. QueueRight
  <2>1. queue # <<>> => Len(Slots(Fn)) \in Nat
    <3>1. queue # <<>> => Fn \in Functions
      BY <1>2 DEF Fn
    <3> QED
      BY <1>1, <3>1, FunctionSlots
  <2>2. queue # <<>> => 1 \in 1..Len(Slots(Fn)) + 1
    BY <2>1
  <2> QED
    BY <1>1, <1>2, <2>2 DEF QueueRight
<1>4. StackRight
  <2>1. Frames(<<>>)
    BY DepthAssumption DEF Frames
  <2> QED
    BY <1>1, <2>1 DEF StackRight
<1>5. CacheRight
  BY <1>1 DEF CacheRight
<1>6. AskRight
  BY <1>1 DEF AskRight
<1> QED
  BY <1>1, <1>3, <1>4, <1>5, <1>6 DEF MapInv

LEMMA MapInvStep ==
  ASSUME MapInv, [Next]_vars
  PROVE  MapInv'
<1>1. CASE SkipGeneric
  BY <1>1, SkipGenericKeeps
<1>2. CASE AskSlot
  BY <1>2, AskSlotKeeps
<1>3. CASE TakeSlot
  BY <1>3, TakeSlotKeeps
<1>4. CASE EmitFunc
  BY <1>4, EmitFuncKeeps
<1>5. ASSUME UNCHANGED <<mapperVars, emitVars>> PROVE MapInv'
  <2>1. UNCHANGED <<surface, cache, stack, ret, crash, queue, slot>>
    BY <1>5 DEF mapperVars, emitVars
  <2>2. QueueRight' /\ Slots(Fn)' = Slots(Fn) /\ (Asking' <=> Asking)
    BY <2>1, AskKept
  <2>3. /\ \A t, m : Means(t, m)' <=> Means(t, m)
        /\ \A t, got : Done(t, got)' <=> Done(t, got)
    BY <2>1, SlotsKept
  <2>4. Frames(stack)'
    BY <2>1, FramesNext DEF MapInv, StackRight
  <2>5. StackRight'
    BY <2>1, <2>3, <2>4 DEF MapInv, StackRight, Top
  <2>6. CacheRight'
    BY <2>1, <2>3 DEF MapInv, CacheRight
  <2>7. AskRight'
    BY <2>1, <2>2, <2>3 DEF MapInv, AskRight
  <2> QED
    BY <2>1, <2>2, <2>5, <2>6, <2>7 DEF MapInv
<1>6. CASE Bind
  BY <1>5, <1>6 DEF Bind
<1>7. CASE MapStep /\ UNCHANGED <<emitVars, bindVars>>
  BY <1>7, HitKeeps, FinishKeeps, DescendKeeps DEF MapStep
<1>8. CASE UNCHANGED vars
  BY <1>5, <1>8 DEF vars
<1> QED
  BY <1>1, <1>2, <1>3, <1>4, <1>6, <1>7, <1>8 DEF Next
LEMMA MapInvariant == Spec => []MapInv
<1>1. Init => MapInv
  BY MapInvInit
<1>2. MapInv /\ [Next]_vars => MapInv'
  BY MapInvStep
<1> QED
  BY <1>1, <1>2, PTL DEF Spec

LEMMA MapInvType ==
  ASSUME MapInv
  PROVE  TypeOK
<1>1. Frames(stack) /\ surface \in Surfaces
  BY DEF MapInv, StackRight
<1>2. Len(stack) <= MaxDepth /\ \A i \in DOMAIN stack : Len(stack[i].got) <= Len(Parts(stack[i].t))
  <2>1. stack \in Seq(FrameSet) /\ Len(stack) <= MaxDepth
    BY <1>1 DEF Frames
  <2>2. ASSUME NEW i \in 1..Len(stack) PROVE Len(stack[i].got) <= Len(Parts(stack[i].t))
    <3>1. stack[i].t \in Types /\ Under(stack[i].t, stack[i].got)
      BY <1>1, <2>2, FrameFields DEF Frames
    <3> QED
      BY <1>1, <3>1, UnderType
  <2> QED
    BY <2>1, <2>2
<1>3. Len(ret) <= 1
  <2>1. CASE ret = <<>>
    BY <2>1
  <2>2. CASE ret # <<>>
    <3>1. PICK m : ret = <<m>>
      BY <2>2 DEF MapInv, AskRight
    <3> QED
      BY <3>1
  <2> QED
    BY <2>1, <2>2
<1>4. ASSUME NEW t \in DOMAIN cache PROVE cache[t].dir \in {"copy", "handle"}
  <2>1. t \in Types /\ Means(t, cache[t]) /\ cache[t] # Unmappable
    BY DEF MapInv, CacheRight
  <2>2. IsMapping(cache[t])
    BY <1>1, <2>1, MeansMapping
  <2> QED
    BY <2>1, <2>2 DEF IsMapping
<1>5. queue # <<>> => slot \in 1..Len(Slots(Fn)) + 1
  BY DEF MapInv, QueueRight
<1>6. stack # <<>> \/ Answered => Visiting /\ slot <= Len(Slots(Fn))
  BY DEF MapInv, AskRight, Answered, Asking
<1> QED
  BY <1>2, <1>3, <1>4, <1>5, <1>6 DEF TypeOK

\* In every run the call stack, its answer and the visit fit together: no call has more
\* mapped parts than parts, a call is under way only for a slot of the function visited,
\* and nothing unmappable is in the cache.
THEOREM TypeCorrect == Spec => []TypeOK
<1>1. MapInv => TypeOK
  BY MapInvType
<1> QED
  BY <1>1, MapInvariant, PTL

\* A type named without its package means what the one does that is looked up.
LEMMA OwnMeaning ==
  ASSUME surface \in Surfaces, NEW t \in Types, NEW p, FirstIn(p, t)
  PROVE  LET u == <<"named", p, t[3]>> IN
           u \in Types /\ \A n \in Nat : Meaning[n][u] = Meaning[n][t]
<1> DEFINE u == <<"named", p, t[3]>>
           d == <<p, t[3]>>
           ps == {q \in Packages : <<q, t[3]>> \in DOMAIN surface.types}
<1>1. t[1] = "named" /\ t[2] = 0 /\ d \in DOMAIN surface.types
  BY DEF FirstIn
<1>2. \A e \in DOMAIN surface.types : e[1] \in Nat \ {0} /\ <<"named", e[1], e[2]>> \in Types
  BY DeclarationsAssumption
<1>3. d[1] = p /\ d[2] = t[3]
  OBVIOUS
<1>4. p \in Nat \ {0} /\ u \in Types
  BY <1>1, <1>2, <1>3
<1>5. p \in ps /\ \A q \in ps : p <= q
  <2>1. p \in Packages
    BY <1>1, <1>3 DEF Packages
  <2>2. ASSUME NEW q \in ps PROVE p <= q
    <3>1. q \in Nat
      BY <1>2, <2>2 DEF Packages
    <3>2. ~(q < p)
      BY <2>2 DEF FirstIn
    <3> QED
      BY <1>4, <3>1, <3>2
  <2> QED
    BY <1>1, <2>1, <2>2
<1>6. SelfPackage(t[3]) = p
  <2>1. \A q \in ps : q \in Nat
    BY <1>2 DEF Packages
  <2>2. SelfPackage(t[3]) = CHOOSE q \in ps : \A r \in ps : q <= r
    BY <1>5 DEF SelfPackage
  <2>3. \A q \in ps : (\A r \in ps : q <= r) => q = p
    BY <1>4, <1>5, <2>1
  <2> HIDE DEF ps
  <2> QED
    BY <1>5, <2>2, <2>3
<1> HIDE DEF ps
<1>7. u[1] = "named" /\ u[2] = p /\ u[3] = t[3]
  OBVIOUS
<1>8. DeclOf(u) = surface.types[d] /\ DeclOf(t) = surface.types[d]
  BY <1>1, <1>4, <1>6, <1>7 DEF DeclOf
<1> HIDE DEF u
<1>9. DeclOf(u) = DeclOf(t) /\ DeclOf(t)[1] \in {"opaque", "unfold", "struct"}
  BY <1>1, <1>8, Declared
<1>10. ASSUME NEW of PROVE Structural(of, u) = Structural(of, t)
  <2>1. mapNamed(u, <<>>) = mapNamed(t, <<>>) \/ DeclOf(t)[1] # "opaque"
    BY <1>7, <1>9 DEF mapNamed
  <2>2. CASE DeclOf(t)[1] = "opaque"
    BY <1>1, <1>7, <1>9, <2>1, <2>2 DEF Structural
  <2>3. CASE DeclOf(t)[1] = "unfold"
    BY <1>1, <1>7, <1>9, <2>3 DEF Structural
  <2>4. CASE DeclOf(t)[1] = "struct"
    BY <1>1, <1>7, <1>9, <2>4 DEF Structural
  <2> QED
    BY <1>9, <2>2, <2>3, <2>4
<1>11. ASSUME NEW n \in Nat PROVE Meaning[n][u] = Meaning[n][t]
  <2>1. CASE n = 0
    BY <1>4, <2>1, MeaningStep
  <2>2. CASE n # 0
    <3>1. n - 1 \in Nat /\ (n - 1) + 1 = n
      BY <2>2
    <3>2. \A v \in Types : Meaning[n][v] = Structural(Meaning[n - 1], v)
      <4>1. \A v \in Types : Meaning[(n - 1) + 1][v] = Structural(Meaning[n - 1], v)
        BY <3>1, MeaningStep, Zenon
      <4> QED
        BY <3>1, <4>1, Zenon
    <3> QED
      BY <1>4, <1>10, <3>2, Zenon
  <2> QED
    BY <2>1, <2>2
<1> QED
  BY <1>4, <1>11 DEF u

LEMMA MapInvMeaning ==
  ASSUME MapInv, Settled
  PROVE  MapIsMeaning
<1>1. surface \in Surfaces
  BY DEF MapInv
<1>2. ASSUME Answered PROVE ret[1] = MeaningOf(Slots(Fn)[slot])
  <2>1. PICK m : Asking /\ ret = <<m>> /\ Means(Slots(Fn)[slot], m)
    BY <1>2 DEF MapInv, AskRight, Answered
  <2>2. Slots(Fn)[slot] \in Types
    BY <2>1, AskedType
  <2>3. MeaningOf(Slots(Fn)[slot]) = m
    BY <1>1, <2>1, <2>2, SettledMeaning
  <2> QED
    BY <2>1, <2>3
<1>3. ASSUME Answered, FirstIn(Fn.pkg, Slots(Fn)[slot])
      PROVE  ret[1] = MeaningOf(<<"named", Fn.pkg, Slots(Fn)[slot][3]>>)
  <2> DEFINE t == Slots(Fn)[slot]
  <2>1. Asking
    BY <1>3 DEF MapInv, AskRight, Answered
  <2>2. t \in Types
    BY <2>1, AskedType
  <2> HIDE DEF t
  <2>4. MaxDepth + 2 \in Nat
    BY DepthAssumption
  <2>5. MeaningOf(<<"named", Fn.pkg, t[3]>>) = MeaningOf(t)
    BY <1>1, <1>3, <2>2, <2>4, OwnMeaning DEF MeaningOf, t
  <2> QED
    BY <1>2, <1>3, <2>5 DEF t
<1>4. ASSUME NEW t \in DOMAIN cache PROVE cache[t] = MeaningOf(t)
  <2>1. t \in Types /\ Means(t, cache[t])
    BY DEF MapInv, CacheRight
  <2> QED
    BY <1>1, <2>1, SettledMeaning
<1>5. ASSUME crash PROVE MeaningOf(stack[1].t) = Endless
  <2>1. Frames(stack) /\ Len(stack) = MaxDepth /\ ~Done(Top.t, Top.got) /\ Top = Last(stack)
    BY <1>5 DEF MapInv, StackRight, Top
  <2>2. Meaning[MaxDepth][stack[1].t] = Endless
    BY <1>1, <2>1, OverflowEndless
  <2>3. stack[1].t \in Types
    <3>1. 1 \in 1..Len(stack)
      BY <2>1, DepthAssumption
    <3> QED
      BY <2>1, <3>1, FrameFields
  <2> QED
    BY <1>1, <2>2, <2>3, SettledMeaning
<1> QED
  BY <1>2, <1>3, <1>4, <1>5 DEF MapIsMeaning

\* If the stack has as many frames as levels of meaning are worth, then what Map answers,
\* and what its cache holds, is what the types mean, the function's own ones if no earlier
\* package hides them, and it overflows only on a type without a meaning.
THEOREM MappingsMean == Spec => [](Settled => MapIsMeaning)
<1>1. MapInv => (Settled => MapIsMeaning)
  BY MapInvMeaning
<1> QED
  BY <1>1, MapInvariant, PTL

\* So it is if the stack has a frame for every type: a deeper recursion is one that would
\* not end.
THEOREM MappingsAreRight ==
  ASSUME IsFiniteSet(Types), Cardinality(Types) <= MaxDepth
  PROVE  Spec => []MapIsMeaning
<1>1. MapInv => MapIsMeaning
  <2>1. MapInv => Settled
    BY FewTypesSettle DEF MapInv
  <2> QED
    BY <2>1, MapInvMeaning
<1> QED
  BY <1>1, MapInvariant, PTL
-------------------------------------------------------------------------------
(* What has become of the functions visited *)

\* Seen functions are visited; the rest of the visits is the queue.
Seen    == Len(Visits) - Len(queue)
Visited == {Visits[i] : i \in 1..Seen}

\* Some level gives the type a meaning that the wrapper lowers.
Lowers(t) == \E n \in Nat : Meaning[n][t].mochi \in Baseline
Wraps(f)  == ~f.generic /\ \A i \in 1..Len(Slots(f)) : Lowers(Slots(f)[i])

Wrapped == {f \in Visited : Wraps(f)}
Noted   == MainNotes \cup {f \in Visited : ~Wraps(f)}

LeftRight ==
  /\ Len(queue) <= Len(Visits)
  /\ \A i \in 1..Len(queue) : queue[i] = Visits[Seen + i]
  /\ Visiting => \A i \in 1..(slot - 1) : Lowers(Slots(Fn)[i])

EmitRight ==
  /\ Lists(funcs, Wrapped) /\ Lists(skipped, Noted)
  /\ Len(funcs) + Len(skipped) = Seen + Len(Mains)

\* What Bind has gone through.
Through  == Len(externs) + Len(dropped)
Bound    == {f \in {funcs[i] : i \in 1..Through} : Len(Results(f)) <= 1}
Externed == {Extern(f) : f \in Bound}

BindRight ==
  /\ queue # <<>> => externs = <<>> /\ dropped = <<>>
  /\ Len(dropped) \in Nat /\ Through <= Len(funcs)
  /\ Lists(externs, Externed)

EmitInv == LeftRight /\ EmitRight /\ BindRight

LEMMA EmitKept ==
  ASSUME surface' = surface
  PROVE  /\ Visits' = Visits /\ Mains' = Mains /\ MainNotes' = MainNotes
         /\ \A t : Lowers(t)' <=> Lowers(t)
         /\ \A f : Wraps(f)' <=> Wraps(f)
         /\ \A f : Slots(f)' = Slots(f)
         /\ \A f : Extern(f)' = Extern(f)
<1>1. Meaning' = Meaning
  BY SurfaceKept
<1>2. \A t : Lowers(t)' <=> Lowers(t)
  BY <1>1, Zenon DEF Lowers, Baseline
<1>3. \A f : Slots(f)' = Slots(f)
  BY SlotsKept
<1>4. \A f : Wraps(f)' <=> Wraps(f)
  BY <1>2, <1>3, Zenon DEF Wraps
<1>5. Visits' = Visits /\ Mains' = Mains /\ MainNotes' = MainNotes
  BY DEF Visits, Mains, MainNotes, IsMain
<1>6. \A f : Extern(f)' = Extern(f)
  BY DEF Extern, exportSymbol
<1> QED
  BY <1>2, <1>3, <1>4, <1>5, <1>6

\* The function that is visited is the next of the visits: of a library package, not seen.
LEMMA VisitNext ==
  ASSUME MapInv, EmitInv, queue # <<>>
  PROVE  /\ Visits \in Seq(Library) /\ queue \in Seq(Functions)
         /\ Seen \in Nat /\ Seen < Len(Visits) /\ Fn = Visits[Seen + 1] /\ Fn \in Library
         /\ Fn \notin Visited /\ Fn \notin MainNotes
<1>1. Lists(Visits, Library) /\ queue \in Seq(Functions)
  BY VisitsListed DEF MapInv, QueueRight
<1>2. Visits \in Seq(Library) /\ Len(Visits) \in Nat /\ Len(queue) \in Nat /\ Len(queue) # 0
  BY <1>1 DEF Lists
<1>3. Seen \in Nat /\ Seen < Len(Visits)
  BY <1>2 DEF EmitInv, LeftRight, Seen
<1>4. Fn = Visits[Seen + 1]
  <2>1. 1 \in 1..Len(queue) /\ Fn = queue[1]
    BY <1>1, <1>2 DEF Fn
  <2> QED
    BY <2>1 DEF EmitInv, LeftRight
<1>5. Seen + 1 \in 1..Len(Visits)
  BY <1>2, <1>3
<1>6. Fn \in Library
  BY <1>2, <1>4, <1>5
<1>7. Fn \notin Visited
  <2>1. ASSUME NEW i \in 1..Seen PROVE Visits[i] # Fn
    <3>1. i \in 1..Len(Visits) /\ i # Seen + 1
      BY <1>2, <1>3
    <3>2. \A j, k \in 1..Len(Visits) : Visits[j] = Visits[k] => j = k
      BY <1>1 DEF Lists
    <3> QED
      BY <1>4, <1>5, <3>1, <3>2
  <2> QED
    BY <2>1 DEF Visited
<1>8. Fn \notin MainNotes
  BY <1>6 DEF Library, MainNotes
<1> QED
  BY <1>1, <1>2, <1>3, <1>4, <1>6, <1>7, <1>8

\* The emitter is done with a function: it is seen from now on.
LEMMA VisitDone ==
  ASSUME MapInv, EmitInv, queue # <<>>, queue' = Tail(queue), slot' = 1, surface' = surface
  PROVE  LeftRight' /\ Seen' = Seen + 1 /\ Visited' = Visited \cup {Fn}
<1>1. /\ Visits \in Seq(Library) /\ queue \in Seq(Functions) /\ Seen \in Nat /\ Seen < Len(Visits)
      /\ Fn = Visits[Seen + 1]
  BY VisitNext
<1>2. Visits' = Visits
  BY EmitKept
<1>3. /\ queue' \in Seq(Functions) /\ Len(queue') = Len(queue) - 1 /\ Len(queue) \in Nat
      /\ \A i \in 1..Len(queue') : queue'[i] = queue[i + 1]
  BY <1>1, HeadTailProperties
<1>4. Seen' = Seen + 1 /\ Len(Visits) \in Nat /\ Len(queue) <= Len(Visits) /\ Seen = Len(Visits) - Len(queue)
  BY <1>1, <1>2, <1>3 DEF Seen, EmitInv, LeftRight
<1>5. Len(queue') <= Len(Visits)
  BY <1>3, <1>4
<1>6. ASSUME NEW i \in 1..Len(queue') PROVE queue'[i] = Visits[Seen + 1 + i]
  <2>1. i + 1 \in 1..Len(queue) /\ Seen + (i + 1) = Seen + 1 + i
    BY <1>1, <1>3
  <2>2. queue[i + 1] = Visits[Seen + (i + 1)]
    BY <2>1 DEF EmitInv, LeftRight
  <2> QED
    BY <1>3, <2>1, <2>2
<1>7. \A i \in 1..(slot' - 1) : FALSE
  OBVIOUS
<1>8. LeftRight'
  BY <1>2, <1>4, <1>5, <1>6, <1>7 DEF LeftRight
<1>9. Visited' = Visited \cup {Fn}
  <2>1. Visited' = {Visits[i] : i \in 1..(Seen + 1)}
    BY <1>2, <1>4 DEF Visited
  <2>2. \A i \in 1..(Seen + 1) : i = Seen + 1 \/ i \in 1..Seen
    BY <1>1
  <2>3. Seen + 1 \in 1..(Seen + 1) /\ \A i \in 1..Seen : i \in 1..(Seen + 1)
    BY <1>1
  <2> QED
    BY <1>1, <2>1, <2>2, <2>3 DEF Visited
<1> QED
  BY <1>4, <1>8, <1>9

\* A function that the wrapper cannot lower is noted as skipped.
LEMMA SkipRight ==
  ASSUME MapInv, EmitInv, queue # <<>>, Skip, UNCHANGED <<surface, bindVars>>, ~Wraps(Fn)
  PROVE  EmitInv'
<1>1. queue' = Tail(queue) /\ slot' = 1 /\ skipped' = Append(skipped, Fn) /\ funcs' = funcs /\ surface' = surface
  BY DEF Skip
<1>2. LeftRight' /\ Seen' = Seen + 1 /\ Visited' = Visited \cup {Fn}
  BY <1>1, VisitDone
<1>3. Fn \notin Visited /\ Fn \notin MainNotes /\ Seen \in Nat
  BY VisitNext
<1>4. /\ Mains' = Mains /\ MainNotes' = MainNotes /\ (\A f : Wraps(f)' <=> Wraps(f))
      /\ (\A f : Extern(f)' = Extern(f))
  BY <1>1, EmitKept
<1>5. Wrapped' = Wrapped
  BY <1>2, <1>4 DEF Wrapped
<1>6. Noted' = Noted \cup {Fn} /\ Fn \notin Noted
  BY <1>2, <1>3, <1>4 DEF Noted
<1>7. Lists(funcs, Wrapped) /\ Lists(skipped, Noted)
  BY DEF EmitInv, EmitRight
<1>8. Lists(funcs', Wrapped')
  BY <1>1, <1>5, <1>7
<1>9. Lists(skipped', Noted') /\ Len(skipped') = Len(skipped) + 1
  BY <1>1, <1>6, <1>7, ListsOne
<1>10. Len(funcs') + Len(skipped') = Seen' + Len(Mains')
  <2>1. Len(funcs) \in Nat /\ Len(skipped) \in Nat
    BY <1>7 DEF Lists
  <2>2. Len(Mains) \in Nat
    BY MainsListed DEF MapInv, Lists
  <2>3. Len(funcs) + Len(skipped) = Seen + Len(Mains)
    BY DEF EmitInv, EmitRight
  <2>4. Len(funcs') = Len(funcs)
    BY <1>1
  <2> QED
    BY <1>2, <1>3, <1>4, <1>9, <2>1, <2>2, <2>3, <2>4
<1>11. EmitRight'
  BY <1>8, <1>9, <1>10 DEF EmitRight, Lists
<1>12. externs = <<>> /\ dropped = <<>> /\ UNCHANGED <<externs, dropped>>
  BY DEF EmitInv, BindRight, bindVars
<1>13. BindRight'
  <2>1. Through' = 0 /\ Len(dropped') = 0 /\ externs' = <<>> /\ dropped' = <<>>
    BY <1>12 DEF Through
  <2>2. Bound' = {}
    BY <2>1 DEF Bound
  <2>3. Externed' = {}
    BY <2>2 DEF Externed
  <2>4. Lists(externs', Externed')
    BY <2>1, <2>3, ListsNone
  <2>5. Len(funcs') \in Nat
    BY <1>8 DEF Lists
  <2> QED
    BY <2>1, <2>4, <2>5 DEF BindRight, Lists
<1> QED
  BY <1>2, <1>11, <1>13 DEF EmitInv
\* A function all of whose slots are lowered is wrapped.
LEMMA WrapRight ==
  ASSUME MapInv, EmitInv, queue # <<>>, queue' = Tail(queue), slot' = 1, funcs' = Append(funcs, Fn),
         UNCHANGED <<surface, skipped, bindVars>>, Wraps(Fn)
  PROVE  EmitInv'
<1>1. LeftRight' /\ Seen' = Seen + 1 /\ Visited' = Visited \cup {Fn}
  BY VisitDone
<1>2. Fn \notin Visited /\ Seen \in Nat
  BY VisitNext
<1>3. Mains' = Mains /\ MainNotes' = MainNotes /\ (\A f : Wraps(f)' <=> Wraps(f))
  BY EmitKept
<1>4. Wrapped' = Wrapped \cup {Fn} /\ Fn \notin Wrapped
  BY <1>1, <1>2, <1>3 DEF Wrapped
<1>5. Noted' = Noted
  BY <1>1, <1>3 DEF Noted
<1>6. Lists(funcs, Wrapped) /\ Lists(skipped, Noted)
  BY DEF EmitInv, EmitRight
<1>7. Lists(funcs', Wrapped') /\ Len(funcs') = Len(funcs) + 1
  BY <1>4, <1>6, ListsOne
<1>8. Lists(skipped', Noted')
  BY <1>5, <1>6
<1>9. Len(funcs') + Len(skipped') = Seen' + Len(Mains')
  <2>1. Len(funcs) \in Nat /\ Len(skipped) \in Nat
    BY <1>6 DEF Lists
  <2>2. Len(Mains) \in Nat
    BY MainsListed DEF MapInv, Lists
  <2>3. Len(funcs) + Len(skipped) = Seen + Len(Mains)
    BY DEF EmitInv, EmitRight
  <2>4. Len(skipped') = Len(skipped) /\ Len(Mains') = Len(Mains) /\ Len(funcs') = Len(funcs) + 1
    BY <1>3, <1>7
  <2>5. Seen' = Seen + 1 /\ Seen \in Nat
    BY <1>1, <1>2
  <2> QED
    BY <2>1, <2>2, <2>3, <2>4, <2>5
<1>10. EmitRight'
  BY <1>7, <1>8, <1>9 DEF EmitRight, Lists
<1>11. externs = <<>> /\ dropped = <<>> /\ UNCHANGED <<externs, dropped>>
  BY DEF EmitInv, BindRight, bindVars
<1>12. BindRight'
  <2>1. Through' = 0 /\ Len(dropped') = 0 /\ externs' = <<>> /\ dropped' = <<>>
    BY <1>11 DEF Through
  <2>2. Bound' = {}
    BY <2>1 DEF Bound
  <2>3. Externed' = {}
    BY <2>2 DEF Externed
  <2>4. Lists(externs', Externed')
    BY <2>1, <2>3, ListsNone
  <2>5. Len(funcs') \in Nat
    BY <1>7 DEF Lists
  <2> QED
    BY <2>1, <2>4, <2>5 DEF BindRight, Lists
<1> QED
  BY <1>1, <1>10, <1>12 DEF EmitInv

\* Only the mapper's variables, or none, change.
LEMMA EmitSame ==
  ASSUME EmitInv, UNCHANGED <<surface, queue, slot, funcs, skipped, externs, dropped>>
  PROVE  EmitInv'
<1>1. /\ Visits' = Visits /\ Mains' = Mains /\ MainNotes' = MainNotes
      /\ (\A t : Lowers(t)' <=> Lowers(t)) /\ (\A f : Wraps(f)' <=> Wraps(f))
      /\ (\A f : Slots(f)' = Slots(f)) /\ (\A f : Extern(f)' = Extern(f))
  BY EmitKept
<1>2. Seen' = Seen /\ Visited' = Visited /\ Fn' = Fn /\ (Visiting' <=> Visiting)
  BY <1>1 DEF Seen, Visited, Fn, Visiting
<1>3. Slots(Fn)' = Slots(Fn)
  BY <1>2 DEF Slots, Results, HasError
<1>4. LeftRight'
  BY <1>1, <1>2, <1>3 DEF EmitInv, LeftRight
<1>5. Wrapped' = Wrapped /\ Noted' = Noted
  BY <1>1, <1>2 DEF Wrapped, Noted
<1>6. EmitRight'
  BY <1>1, <1>2, <1>5 DEF EmitInv, EmitRight, Lists
<1>7. Through' = Through /\ Bound' = Bound
  BY DEF Through, Bound, Results, HasError
<1>8. Externed' = Externed
  BY <1>1, <1>7 DEF Externed
<1>9. BindRight'
  BY <1>7, <1>8 DEF EmitInv, BindRight, Lists
<1> QED
  BY <1>4, <1>6, <1>9 DEF EmitInv

\* No scalar is the mark of a meaning that is missing.
LEMMA MeansLowers ==
  ASSUME surface \in Surfaces, NEW t \in Types, NEW m, Means(t, m)
  PROVE  Lowers(t) <=> m.mochi \in Baseline
<1>1. PICK k \in Nat : Meaning[k][t] = m
  BY DEF Means
<1>2. Endless.mochi \notin Baseline
  <2>1. Endless.mochi = <<"endless">>
    BY DEF Endless
  <2>2. \A s : <<"endless">> # <<"scalar", s>>
    OBVIOUS
  <2> QED
    BY <2>1, <2>2 DEF Baseline
<1>3. ASSUME NEW n \in Nat, Meaning[n][t].mochi \in Baseline PROVE m.mochi \in Baseline
  <2>1. Meaning[n][t] = Endless \/ Meaning[n][t] = m
    BY MeansOnce
  <2> QED
    BY <1>2, <1>3, <2>1
<1> QED
  BY <1>1, <1>3 DEF Lowers

LEMMA TakeSlotRight ==
  ASSUME MapInv, EmitInv, TakeSlot
  PROVE  EmitInv'
<1> DEFINE t == Slots(Fn)[slot]
<1>1. ret # <<>> /\ Visiting /\ UNCHANGED <<surface, bindVars>> /\ queue # <<>> /\ surface \in Surfaces
  BY DEF TakeSlot, Answered, Visiting, MapInv
<1>2. PICK m : ret = <<m>> /\ Means(t, m) /\ Asking
  BY <1>1 DEF MapInv, AskRight
<1>3. Fn \in Functions /\ slot \in 1..Len(Slots(Fn)) /\ t \in Types /\ Len(Slots(Fn)) \in Nat
  <2>1. Fn \in Functions /\ slot \in 1..Len(Slots(Fn)) /\ t \in Types
    BY <1>2, AskedType
  <2> QED
    BY <1>1, <2>1, FunctionSlots
<1>4. Lowers(t) <=> ret[1].mochi \in Baseline
  <2> HIDE DEF t
  <2>1. ret[1] = m
    BY <1>2
  <2> QED
    BY <1>1, <1>2, <1>3, <2>1, MeansLowers
<1>5. CASE ret[1].mochi \in Baseline
  <2>1. slot' = slot + 1 /\ UNCHANGED <<queue, funcs, skipped, externs, dropped>> /\ surface' = surface
    BY <1>1, <1>5 DEF TakeSlot, bindVars
  <2>2. /\ Visits' = Visits /\ Mains' = Mains /\ MainNotes' = MainNotes
        /\ (\A u : Lowers(u)' <=> Lowers(u)) /\ (\A f : Wraps(f)' <=> Wraps(f))
        /\ (\A f : Extern(f)' = Extern(f))
    BY <2>1, EmitKept
  <2>3. Seen' = Seen /\ Visited' = Visited /\ Fn' = Fn
    BY <2>1, <2>2 DEF Seen, Visited, Fn
  <2>4. Slots(Fn)' = Slots(Fn)
    BY <2>3 DEF Slots, Results, HasError
  <2>5. ASSUME NEW i \in 1..(slot' - 1) PROVE Lowers(Slots(Fn)[i])
    <3>1. i = slot \/ i \in 1..(slot - 1)
      BY <1>3, <2>1
    <3>2. CASE i = slot
      BY <1>4, <1>5, <3>2
    <3>3. CASE i \in 1..(slot - 1)
      BY <1>1, <3>3 DEF EmitInv, LeftRight
    <3> QED
      BY <3>1, <3>2, <3>3
  <2>6. LeftRight'
    BY <2>1, <2>2, <2>3, <2>4, <2>5 DEF EmitInv, LeftRight
  <2>7. Wrapped' = Wrapped /\ Noted' = Noted
    BY <2>2, <2>3 DEF Wrapped, Noted
  <2>8. EmitRight'
    BY <2>1, <2>2, <2>3, <2>7 DEF EmitInv, EmitRight, Lists
  <2>9. Through' = Through /\ Bound' = Bound
    BY <2>1 DEF Through, Bound, Results, HasError
  <2>10. Externed' = Externed
    BY <2>2, <2>9 DEF Externed
  <2>11. BindRight'
    BY <2>1, <2>9, <2>10 DEF EmitInv, BindRight, Lists
  <2> QED
    BY <2>6, <2>8, <2>11 DEF EmitInv
<1>6. CASE ret[1].mochi \notin Baseline
  <2>1. Skip
    BY <1>6 DEF TakeSlot
  <2>2. ~Wraps(Fn)
    BY <1>3, <1>4, <1>6 DEF Wraps
  <2> QED
    BY <1>1, <2>1, <2>2, SkipRight
<1> QED
  BY <1>5, <1>6

LEMMA EmitFuncRight ==
  ASSUME MapInv, EmitInv, EmitFunc
  PROVE  EmitInv'
<1>1. /\ Visiting /\ slot > Len(Slots(Fn)) /\ funcs' = Append(funcs, Fn) /\ queue # <<>>
      /\ queue' = Tail(queue) /\ slot' = 1 /\ UNCHANGED <<surface, skipped, bindVars>>
  BY DEF EmitFunc, Visiting, mapperVars
<1>2. Fn \in Functions /\ slot \in 1..Len(Slots(Fn)) + 1 /\ surface \in Surfaces
  BY <1>1 DEF MapInv, QueueRight, Fn
<1>3. Len(Slots(Fn)) \in Nat
  BY <1>2, FunctionSlots
<1>4. slot - 1 = Len(Slots(Fn))
  BY <1>1, <1>2, <1>3
<1>5. Wraps(Fn)
  BY <1>1, <1>4 DEF EmitInv, LeftRight, Wraps, Visiting
<1> QED
  BY <1>1, <1>5, WrapRight
\* Bind goes on to the next wrapped function.
LEMMA BindKeepsRight ==
  ASSUME MapInv, EmitInv, Bind
  PROVE  EmitInv'
<1> DEFINE f == funcs[Through + 1]
<1>1. /\ queue = <<>> /\ Through < Len(funcs) /\ UNCHANGED <<surface, queue, slot, funcs, skipped>>
      /\ IF Len(Results(f)) <= 1 THEN externs' = Append(externs, Extern(f)) /\ dropped' = dropped
         ELSE dropped' = Append(dropped, f) /\ externs' = externs
  BY DEF Bind, Through, mapperVars, emitVars
<1>2. /\ Visits' = Visits /\ Mains' = Mains /\ MainNotes' = MainNotes
      /\ (\A u : Lowers(u)' <=> Lowers(u)) /\ (\A g : Wraps(g)' <=> Wraps(g))
      /\ (\A g : Extern(g)' = Extern(g))
  BY <1>1, EmitKept
<1>3. Seen' = Seen /\ Visited' = Visited
  BY <1>1, <1>2 DEF Seen, Visited
<1>4. LeftRight'
  <2>1. queue' = <<>> /\ ~Visiting' /\ Len(queue') = Len(queue)
    BY <1>1 DEF Visiting
  <2>2. \A i \in 1..Len(queue') : FALSE
    BY <2>1
  <2> QED
    BY <1>1, <1>2, <2>1, <2>2 DEF EmitInv, LeftRight
<1>5. Wrapped' = Wrapped /\ Noted' = Noted
  BY <1>2, <1>3 DEF Wrapped, Noted
<1>6. EmitRight'
  BY <1>1, <1>2, <1>3, <1>5 DEF EmitInv, EmitRight, Lists
<1>7. Lists(externs, Externed) /\ Lists(funcs, Wrapped) /\ Len(dropped) \in Nat
  BY DEF EmitInv, BindRight, EmitRight
<1>8. Len(externs) \in Nat /\ Len(funcs) \in Nat /\ Through \in Nat /\ Through + 1 \in 1..Len(funcs)
  <2>1. Len(externs) \in Nat /\ Len(funcs) \in Nat
    BY <1>7 DEF Lists
  <2> QED
    BY <1>1, <1>7, <2>1 DEF Through
<1>9. ASSUME NEW i \in 1..Through PROVE funcs[i] # f
  <2>1. i \in 1..Len(funcs) /\ i # Through + 1
    BY <1>8
  <2>2. \A j, k \in 1..Len(funcs) : funcs[j] = funcs[k] => j = k
    BY <1>7 DEF Lists
  <2> QED
    BY <1>8, <2>1, <2>2
<1>10. {funcs[i] : i \in 1..(Through + 1)} = {funcs[i] : i \in 1..Through} \cup {f}
  <2>1. \A i \in 1..(Through + 1) : i = Through + 1 \/ i \in 1..Through
    BY <1>8
  <2>2. Through + 1 \in 1..(Through + 1) /\ \A i \in 1..Through : i \in 1..(Through + 1)
    BY <1>8
  <2> QED
    BY <2>1, <2>2
<1> HIDE DEF f
<1>11. CASE Len(Results(f)) <= 1
  <2>1. externs' = Append(externs, Extern(f)) /\ dropped' = dropped
    BY <1>1, <1>11
  <2>2. Bound' = Bound \cup {f} => Externed' = Externed \cup {Extern(f)}
    BY <1>2 DEF Externed
  <2>3. Extern(f) \notin Externed
    <3>1. f \notin Bound
      BY <1>9 DEF Bound
    <3>2. \A g : Extern(g).fn = g
      BY DEF Extern
    <3> QED
      BY <3>1, <3>2 DEF Externed
  <2>4. Externed' = Externed \cup {Extern(f)} => Lists(externs', Externed') /\ Len(externs') = Len(externs) + 1
    BY <1>7, <2>1, <2>3, ListsOne
  <2>5. Len(externs') = Len(externs) + 1
    <3>1. externs \in Seq(Externed)
      BY <1>7 DEF Lists
    <3> QED
      BY <2>1, <3>1
  <2>6. Through' = Through + 1 /\ Len(dropped') = Len(dropped)
    BY <1>7, <1>8, <2>1, <2>5 DEF Through
  <2>7. Bound' = Bound \cup {f}
    BY <1>1, <1>10, <1>11, <2>6 DEF Bound, Results, HasError
  <2>8. Lists(externs', Externed')
    BY <2>2, <2>4, <2>7
  <2>9. Len(dropped') \in Nat /\ Through' <= Len(funcs') /\ queue' = <<>>
    BY <1>1, <1>7, <1>8, <2>6
  <2>10. BindRight'
    BY <2>8, <2>9 DEF BindRight, Lists
  <2> QED
    BY <1>4, <1>6, <2>10 DEF EmitInv
<1>12. CASE ~(Len(Results(f)) <= 1)
  <2>1. dropped' = Append(dropped, f) /\ externs' = externs
    BY <1>1, <1>12
  <2>2. Len(dropped') = Len(dropped) + 1
    BY <1>7, <2>1
  <2>3. Through' = Through + 1
    BY <1>7, <1>8, <2>1, <2>2 DEF Through
  <2>4. Bound' = Bound
    BY <1>1, <1>10, <1>12, <2>3 DEF Bound, Results, HasError
  <2>5. Externed' = Externed
    BY <1>2, <2>4 DEF Externed
  <2> QED
    BY <1>1, <1>4, <1>6, <1>7, <1>8, <2>1, <2>2, <2>3, <2>5 DEF EmitInv, BindRight, Lists
<1> QED
  BY <1>11, <1>12

LEMMA EmitInvInit ==
  ASSUME Init
  PROVE  EmitInv
<1>1. /\ surface \in Surfaces /\ queue = Visits /\ skipped = Mains /\ slot = 1 /\ funcs = <<>>
      /\ externs = <<>> /\ dropped = <<>>
  BY DEF Init, MapperInit
<1>2. Visits \in Seq(Library) /\ Len(Visits) \in Nat /\ Lists(Mains, MainNotes)
  BY <1>1, VisitsListed, MainsListed DEF Lists
<1>3. Seen = 0
  BY <1>1, <1>2 DEF Seen
<1>4. Visited = {}
  BY <1>3 DEF Visited
<1>5. LeftRight
  BY <1>1, <1>2, <1>3 DEF LeftRight
<1>6. Wrapped = {} /\ Noted = MainNotes
  BY <1>4 DEF Wrapped, Noted
<1>7. EmitRight
  <2>1. Len(Mains) \in Nat /\ Len(funcs) = 0
    BY <1>1, <1>2 DEF Lists
  <2>2. Lists(funcs, Wrapped)
    BY <1>1, <1>6, ListsNone
  <2> QED
    BY <1>1, <1>2, <1>3, <1>6, <2>1, <2>2 DEF EmitRight
<1>8. BindRight
  <2>1. Through = 0
    BY <1>1 DEF Through
  <2>2. Externed = {}
    BY <2>1 DEF Externed, Bound
  <2>3. Lists(externs, Externed)
    BY <1>1, <2>2, ListsNone
  <2> QED
    BY <1>1, <2>1, <2>3 DEF BindRight
<1> QED
  BY <1>5, <1>7, <1>8 DEF EmitInv

LEMMA EmitInvStep ==
  ASSUME MapInv, EmitInv, [Next]_vars
  PROVE  EmitInv'
<1>1. CASE SkipGeneric
  <2>1. queue # <<>> /\ Skip /\ UNCHANGED <<surface, bindVars>>
    BY <1>1 DEF SkipGeneric, mapperVars
  <2>2. ~Wraps(Fn)
    BY <1>1 DEF SkipGeneric, Wraps
  <2> QED
    BY <2>1, <2>2, SkipRight
<1>2. CASE AskSlot
  BY <1>2, EmitSame DEF AskSlot, emitVars, bindVars
<1>3. CASE TakeSlot
  BY <1>3, TakeSlotRight
<1>4. CASE EmitFunc
  BY <1>4, EmitFuncRight
<1>5. CASE Bind
  BY <1>5, BindKeepsRight
<1>6. CASE MapStep /\ UNCHANGED <<emitVars, bindVars>>
  <2>1. surface' = surface
    BY <1>6 DEF MapStep, Hit, Descend, Finish
  <2> QED
    BY <1>6, <2>1, EmitSame DEF emitVars, bindVars
<1>7. CASE UNCHANGED vars
  BY <1>7, EmitSame DEF vars, mapperVars, emitVars, bindVars
<1> QED
  BY <1>1, <1>2, <1>3, <1>4, <1>5, <1>6, <1>7 DEF Next

LEMMA EmitInvariant == Spec => [](MapInv /\ EmitInv)
<1>1. Init => EmitInv
  BY EmitInvInit
<1>2. MapInv /\ EmitInv /\ [Next]_vars => EmitInv'
  BY EmitInvStep
<1> QED
  BY <1>1, <1>2, MapInvariant, PTL DEF Spec
-------------------------------------------------------------------------------
(* The account at the end *)

\* At the end all functions of the library packages are visited, and all wrapped ones bound.
LEMMA AllVisited ==
  ASSUME MapInv, EmitInv, queue = <<>>, Through = Len(funcs)
  PROVE  Visited = Library /\ Seen = Len(Visits) /\ Bound = {f \in Wrapped : Len(Results(f)) <= 1}
<1>1. Lists(Visits, Library)
  BY VisitsListed DEF MapInv
<1>2. Visits \in Seq(Library) /\ Len(Visits) \in Nat /\ \A f \in Library : \E i \in 1..Len(Visits) : Visits[i] = f
  BY <1>1 DEF Lists
<1>3. Seen = Len(Visits)
  BY <1>2 DEF Seen
<1>4. Visited = Library
  BY <1>2, <1>3 DEF Visited
<1>5. funcs \in Seq(Wrapped) /\ \A f \in Wrapped : \E i \in 1..Len(funcs) : funcs[i] = f
  BY DEF EmitInv, EmitRight, Lists
<1>6. {funcs[i] : i \in 1..Through} = Wrapped
  BY <1>5
<1> QED
  BY <1>3, <1>4, <1>6 DEF Bound

\* The functions that are wrapped are those all of whose slots mean a baseline scalar.
LEMMA WrapsMeaning ==
  ASSUME surface \in Surfaces, Settled, NEW f \in Functions
  PROVE  Wraps(f) <=> ~f.generic /\ \A i \in DOMAIN Slots(f) : MeaningOf(Slots(f)[i]).mochi \in Baseline
<1>1. Slots(f) \in Seq(Types) /\ Len(Slots(f)) \in Nat /\ DOMAIN Slots(f) = 1..Len(Slots(f))
  <2>1. Slots(f) \in Seq(Types)
    BY FunctionSlots
  <2> QED
    BY <2>1
<1>2. Endless.mochi \notin Baseline
  <2>1. Endless.mochi = <<"endless">>
    BY DEF Endless
  <2>2. \A s : <<"endless">> # <<"scalar", s>>
    OBVIOUS
  <2> QED
    BY <2>1, <2>2 DEF Baseline
<1>3. ASSUME NEW t \in Types PROVE Lowers(t) <=> MeaningOf(t).mochi \in Baseline
  <2>1. \A n \in Nat : Meaning[n][t] \in {Endless, MeaningOf(t)}
    BY SettledMeaning
  <2>2. MaxDepth \in Nat /\ Meaning[MaxDepth][t] = MeaningOf(t)
    BY SettledMeaning, DepthAssumption
  <2> QED
    BY <1>2, <2>1, <2>2 DEF Lowers
<1> QED
  BY <1>1, <1>3 DEF Wraps

\* A sequence cut in two.
LEMMA CutJoins ==
  ASSUME NEW S, NEW b \in Seq(S), NEW i \in 0..Len(b)
  PROVE  /\ SubSeq(b, 1, i) \in Seq(S) /\ Len(SubSeq(b, 1, i)) = i
         /\ \A k \in 1..i : SubSeq(b, 1, i)[k] = b[k]
         /\ SubSeq(b, i + 1, Len(b)) \in Seq(S)
         /\ SubSeq(b, 1, i) \o SubSeq(b, i + 1, Len(b)) = b
<1> DEFINE w == SubSeq(b, 1, i)
           v == SubSeq(b, i + 1, Len(b))
<1>1. Len(b) \in Nat /\ i \in Int /\ \A k \in 1..Len(b) : b[k] \in S
  BY LenProperties
<1>2. w \in Seq(S) /\ Len(w) = i /\ \A k \in 1..i : w[k] = b[k]
  <2>1. /\ w \in Seq(S) /\ Len(w) = IF 1 <= i THEN i - 1 + 1 ELSE 0
        /\ \A k \in 1..i - 1 + 1 : w[k] = b[1 + k - 1]
    BY <1>1, SubSeqProperties
  <2> QED
    BY <1>1, <2>1
<1>3. v \in Seq(S) /\ Len(v) = Len(b) - i /\ \A k \in 1..Len(b) - i : v[k] = b[i + k]
  <2>1. /\ v \in Seq(S) /\ Len(v) = IF i + 1 <= Len(b) THEN Len(b) - (i + 1) + 1 ELSE 0
        /\ \A k \in 1..Len(b) - (i + 1) + 1 : v[k] = b[i + 1 + k - 1]
    BY <1>1, SubSeqProperties
  <2> QED
    BY <1>1, <2>1
<1> HIDE DEF w, v
<1>4. w \o v = b
  <2>1. /\ w \o v \in Seq(S) /\ Len(w \o v) = Len(w) + Len(v)
        /\ \A k \in 1..Len(w) + Len(v) : (w \o v)[k] = IF k <= Len(w) THEN w[k] ELSE v[k - Len(w)]
    BY <1>2, <1>3, ConcatProperties
  <2>2. Len(w \o v) = Len(b)
    BY <1>1, <1>2, <1>3, <2>1
  <2>3. \A k \in 1..Len(w \o v) : (w \o v)[k] = b[k]
    BY <1>1, <1>2, <1>3, <2>1, <2>2
  <2> QED
    BY <2>1, <2>2, <2>3, SeqEqual
<1> QED
  BY <1>2, <1>3, <1>4 DEF w, v

\* Joining is associative.
LEMMA JoinedThree ==
  ASSUME NEW S, NEW a \in Seq(S), NEW w \in Seq(S), NEW v \in Seq(S)
  PROVE  (a \o w) \o v = a \o (w \o v)
  BY ConcatAssociative

\* What a cut of b gives back when a comes before it.
LEMMA CutJoined ==
  ASSUME NEW S, NEW a \in Seq(S), NEW b \in Seq(S), NEW i \in 0..Len(b)
  PROVE  (a \o SubSeq(b, 1, i)) \o SubSeq(b, i + 1, Len(b)) = a \o b
<1>1. /\ SubSeq(b, 1, i) \in Seq(S) /\ SubSeq(b, i + 1, Len(b)) \in Seq(S)
      /\ SubSeq(b, 1, i) \o SubSeq(b, i + 1, Len(b)) = b
  BY CutJoins
<1>2. (a \o SubSeq(b, 1, i)) \o SubSeq(b, i + 1, Len(b))
        = a \o (SubSeq(b, 1, i) \o SubSeq(b, i + 1, Len(b)))
  <2>1. PICK w, v : w = SubSeq(b, 1, i) /\ v = SubSeq(b, i + 1, Len(b))
    OBVIOUS
  <2>2. w \in Seq(S) /\ v \in Seq(S)
    BY <1>1, <2>1, Zenon
  <2>3. (a \o w) \o v = a \o (w \o v)
    BY <2>2, JoinedThree, SMTT(60)
  <2> QED
    BY <2>1, <2>3, Zenon
<1> QED
  BY <1>1, <1>2, Zenon

\* c is a and a beginning of b, and d is the rest of b.
Recut(a, b, c, d) ==
  \E i \in 0..Len(b) : c = a \o SubSeq(b, 1, i) /\ d = SubSeq(b, i + 1, Len(b))

\* If a joined with b is c joined with d, and c is no shorter than a, then c is a and what
\* b begins with, and d is the rest of b.
LEMMA JoinedCut ==
  ASSUME NEW S, NEW a \in Seq(S), NEW b \in Seq(S), NEW c \in Seq(S), NEW d \in Seq(S),
         a \o b = c \o d, Len(a) <= Len(c)
  PROVE  Recut(a, b, c, d)
<1> DEFINE i == Len(c) - Len(a)
<1>1. /\ Len(a) \in Nat /\ Len(b) \in Nat /\ Len(c) \in Nat /\ Len(d) \in Nat
      /\ Len(a) + Len(b) = Len(c) + Len(d)
  BY ConcatProperties, LenProperties
<1>2. i \in 0..Len(b)
  BY <1>1
<1> HIDE DEF i
<1>3. PICK w, v : w = SubSeq(b, 1, i) /\ v = SubSeq(b, i + 1, Len(b))
  OBVIOUS
<1>4. /\ w \in Seq(S) /\ Len(w) = i /\ \A k \in 1..i : w[k] = b[k]
      /\ v \in Seq(S) /\ w \o v = b
  <2>1. /\ SubSeq(b, 1, i) \in Seq(S) /\ Len(SubSeq(b, 1, i)) = i
        /\ \A k \in 1..i : SubSeq(b, 1, i)[k] = b[k]
        /\ SubSeq(b, i + 1, Len(b)) \in Seq(S)
        /\ SubSeq(b, 1, i) \o SubSeq(b, i + 1, Len(b)) = b
    BY <1>2, CutJoins
  <2> QED
    BY <1>3, <2>1, Zenon
<1>5. c = a \o w
  <2>1. /\ a \o w \in Seq(S) /\ Len(a \o w) = Len(a) + Len(w)
        /\ \A k \in 1..Len(a) + Len(w) : (a \o w)[k] = IF k <= Len(a) THEN a[k] ELSE w[k - Len(a)]
    BY <1>4, ConcatProperties
  <2>2. \A k \in 1..Len(a) + Len(b) : (a \o b)[k] = IF k <= Len(a) THEN a[k] ELSE b[k - Len(a)]
    BY ConcatProperties
  <2>3. \A k \in 1..Len(c) + Len(d) : (a \o b)[k] = IF k <= Len(c) THEN c[k] ELSE d[k - Len(c)]
    BY ConcatProperties
  <2>4. Len(c) = Len(a \o w)
    BY <1>1, <1>4, <2>1 DEF i
  <2>5. ASSUME NEW k \in 1..Len(c) PROVE c[k] = (a \o w)[k]
    <3>1. k \in 1..Len(a) + Len(b) /\ k \in 1..Len(c) + Len(d) /\ k \in 1..Len(a) + Len(w)
      BY <1>1, <2>1, <2>4
    <3>2. c[k] = (a \o b)[k]
      BY <2>3, <3>1
    <3>3. CASE k <= Len(a)
      BY <2>1, <2>2, <3>1, <3>2, <3>3
    <3>4. CASE ~(k <= Len(a))
      <4>1. k - Len(a) \in 1..i
        BY <1>1, <3>4 DEF i
      <4> QED
        BY <1>4, <2>1, <2>2, <3>1, <3>2, <3>4, <4>1
    <3> QED
      BY <3>3, <3>4
  <2> QED
    BY <2>1, <2>4, <2>5, SeqEqual
<1>6. d = v
  <2>1. (a \o w) \o v = a \o b
    BY <1>2, <1>3, CutJoined, Zenon
  <2>2. c \o v = c \o d
    BY <1>4, <1>5, <2>1, Zenon
  <2> QED
    BY <1>4, <2>2, ConcatSimplifications, Zenon
<1> QED
  BY <1>2, <1>3, <1>5, <1>6 DEF Recut

\* What Accounted says of the names of f and g.
Prolongs(f, g) == \E i \in 0..Len(f.name) :
  /\ surface.names[g.pkg] = surface.names[f.pkg] \o SubSeq(f.name, 1, i)
  /\ g.name = SubSeq(f.name, i + 1, Len(f.name))

\* Names that join to the same are those of which one extends the other; within a package
\* they do not.
LEMMA SymbolsApart ==
  ASSUME surface \in Surfaces, NEW f \in Functions, NEW g \in Functions, f # g
  PROVE  /\ exportSymbol(f) = exportSymbol(g) <=> Prolongs(f, g) \/ Prolongs(g, f)
         /\ f.name = g.name \/ exportSymbol(f) = exportSymbol(g) => f.pkg # g.pkg
<1>1. PICK i \in DOMAIN surface.funcs, j \in DOMAIN surface.funcs : f = surface.funcs[i] /\ g = surface.funcs[j]
  BY DEF Functions, ToSet
<1>2. PICK a, b, c, d : a = surface.names[f.pkg] /\ b = f.name /\ c = surface.names[g.pkg] /\ d = g.name
  OBVIOUS
<1>3. a \in Seq(STRING) /\ b \in Seq(STRING) /\ c \in Seq(STRING) /\ d \in Seq(STRING)
  BY <1>1, <1>2, FunctionsAssumption, Zenon
<1>4. ~(f.pkg = g.pkg /\ b = d)
  BY <1>1, <1>2, FunctionsAssumption, Zenon
<1>5. exportSymbol(f) = a \o b /\ exportSymbol(g) = c \o d
  BY <1>2, Zenon DEF exportSymbol
<1>6. (Prolongs(f, g) <=> Recut(a, b, c, d)) /\ (Prolongs(g, f) <=> Recut(c, d, a, b))
  BY <1>2, Zenon DEF Prolongs, Recut
<1>7. ASSUME a \o b = c \o d PROVE Prolongs(f, g) \/ Prolongs(g, f)
  <2>1. Len(a) \in Nat /\ Len(c) \in Nat
    BY <1>3, LenProperties
  <2>2. CASE Len(a) <= Len(c)
    <3>1. Recut(a, b, c, d)
      BY <1>3, <1>7, <2>2, JoinedCut, Zenon
    <3> QED
      BY <1>6, <3>1, Zenon
  <2>3. CASE Len(c) <= Len(a)
    <3>1. Recut(c, d, a, b)
      <4>1. c \o d = a \o b
        BY <1>7, Zenon
      <4> QED
        BY <1>3, <2>3, <4>1, JoinedCut, Zenon
    <3> QED
      BY <1>6, <3>1, Zenon
  <2>4. Len(a) <= Len(c) \/ Len(c) <= Len(a)
    BY <2>1
  <2> QED
    BY <2>2, <2>3, <2>4, Zenon
<1>8. ASSUME Prolongs(f, g) \/ Prolongs(g, f) PROVE a \o b = c \o d
  <2>1. CASE Prolongs(f, g)
    BY <1>3, <1>6, <2>1, CutJoined, Zenon DEF Recut
  <2>2. CASE Prolongs(g, f)
    BY <1>3, <1>6, <2>2, CutJoined, Zenon DEF Recut
  <2> QED
    BY <1>8, <2>1, <2>2, Zenon
<1>9. ASSUME a \o b = c \o d, f.pkg = g.pkg PROVE FALSE
  <2>1. a = c
    BY <1>2, <1>9, Zenon
  <2>2. b = d
    BY <1>3, <1>9, <2>1, ConcatSimplifications
  <2> QED
    BY <1>4, <1>9, <2>2, Zenon
<1> QED
  BY <1>2, <1>4, <1>5, <1>7, <1>8, <1>9, Zenon

LEMMA EmitInvAccount ==
  ASSUME MapInv, EmitInv, Settled
  PROVE  Accounted
<1> DEFINE Count(s, x)  == Cardinality({i \in DOMAIN s : s[i] = x})
           Wrappable(f) == ~f.generic /\ \A i \in DOMAIN Slots(f) : MeaningOf(Slots(f)[i]).mochi \in Baseline
           Continues(x, y) == \E i \in 0..Len(x.name) :
             /\ surface.names[y.fn.pkg] = surface.names[x.fn.pkg] \o SubSeq(x.name, 1, i)
             /\ y.name = SubSeq(x.name, i + 1, Len(x.name))
<1> SUFFICES ASSUME queue = <<>>, Len(externs) + Len(dropped) = Len(funcs)
             PROVE  /\ \A f \in ToSet(surface.funcs) : ~IsMain(f.pkg) =>
                         /\ Count(funcs, f) = (IF Wrappable(f) THEN 1 ELSE 0)
                         /\ Count(skipped, f) = 1 - Count(funcs, f)
                         /\ Count(externs, Extern(f)) = (IF Wrappable(f) /\ Len(Results(f)) <= 1 THEN 1 ELSE 0)
                    /\ Len(funcs) + Len(skipped) = Len(Visits) + Len(Mains)
                    /\ \A x, y \in ToSet(externs) : x # y =>
                         /\ x.name = y.name => x.fn.pkg # y.fn.pkg
                         /\ x.symbol = y.symbol => x.fn.pkg # y.fn.pkg
                         /\ x.symbol = y.symbol <=> Continues(x, y) \/ Continues(y, x)
  BY DEF Accounted
<1>1. surface \in Surfaces
  BY DEF MapInv
<1>2. Visited = Library /\ Seen = Len(Visits) /\ Bound = {f \in Wrapped : Len(Results(f)) <= 1}
  BY AllVisited DEF Through
<1>3. Lists(funcs, Wrapped) /\ Lists(skipped, Noted) /\ Lists(externs, Externed)
  BY DEF EmitInv, EmitRight, BindRight
<1>4. ASSUME NEW s, NEW X, Lists(s, X), NEW x PROVE Count(s, x) = (IF x \in X THEN 1 ELSE 0)
  BY <1>4, CountListed
<1> HIDE DEF Count
<1>5. ASSUME NEW f \in Library
      PROVE  /\ Count(funcs, f) = (IF Wrappable(f) THEN 1 ELSE 0)
             /\ Count(skipped, f) = 1 - Count(funcs, f)
             /\ Count(externs, Extern(f)) = (IF Wrappable(f) /\ Len(Results(f)) <= 1 THEN 1 ELSE 0)
  <2>1. f \in Functions /\ f \notin MainNotes
    BY DEF Library, MainNotes
  <2>2. Wraps(f) <=> Wrappable(f)
    BY <1>1, <2>1, WrapsMeaning
  <2> HIDE DEF Wrappable
  <2>3. (f \in Wrapped <=> Wrappable(f)) /\ (f \in Noted <=> ~Wrappable(f))
    BY <1>2, <2>1, <2>2 DEF Wrapped, Noted
  <2>4. Count(funcs, f) = (IF Wrappable(f) THEN 1 ELSE 0)
    BY <1>3, <1>4, <2>3
  <2>5. Count(skipped, f) = (IF Wrappable(f) THEN 0 ELSE 1)
    BY <1>3, <1>4, <2>3
  <2>6. Extern(f) \in Externed <=> Wrappable(f) /\ Len(Results(f)) <= 1
    <3>1. \A g : Extern(g) = Extern(f) => g = f
      <4>1. \A g : Extern(g).fn = g
        BY DEF Extern
      <4> QED
        BY <4>1
    <3>2. Extern(f) \in Externed <=> f \in Bound
      BY <3>1 DEF Externed
    <3> QED
      BY <1>2, <2>3, <3>2
  <2>7. Count(externs, Extern(f)) = (IF Wrappable(f) /\ Len(Results(f)) <= 1 THEN 1 ELSE 0)
    BY <1>3, <1>4, <2>6
  <2> QED
    BY <2>4, <2>5, <2>7
<1>6. Len(funcs) + Len(skipped) = Len(Visits) + Len(Mains)
  BY <1>2 DEF EmitInv, EmitRight
<1>7. ASSUME NEW x \in ToSet(externs), NEW y \in ToSet(externs), x # y
      PROVE  /\ x.name = y.name => x.fn.pkg # y.fn.pkg
             /\ x.symbol = y.symbol => x.fn.pkg # y.fn.pkg
             /\ x.symbol = y.symbol <=> Continues(x, y) \/ Continues(y, x)
  <2>1. x \in Externed /\ y \in Externed
    BY <1>3 DEF ToSet, Lists
  <2>2. PICK f \in Bound, g \in Bound : x = Extern(f) /\ y = Extern(g)
    BY <2>1 DEF Externed
  <2>3. f \in Functions /\ g \in Functions /\ f # g
    BY <1>2, <1>7, <2>2 DEF Wrapped, Library
  <2>4. /\ x.fn = f /\ x.name = f.name /\ x.symbol = exportSymbol(f)
        /\ y.fn = g /\ y.name = g.name /\ y.symbol = exportSymbol(g)
    BY <2>2 DEF Extern
  <2>5. (Continues(x, y) <=> Prolongs(f, g)) /\ (Continues(y, x) <=> Prolongs(g, f))
    BY <2>4, Zenon DEF Prolongs
  <2> HIDE DEF Continues
  <2> QED
    BY <1>1, <2>3, <2>4, <2>5, SymbolsApart
<1>8. ASSUME NEW f \in ToSet(surface.funcs), ~IsMain(f.pkg) PROVE f \in Library
  BY <1>8 DEF Library, Functions
<1> QED
  <2> HIDE DEF Wrappable, Continues
  <2> QED
    BY <1>5, <1>6, <1>7, <1>8

\* At the end, if the stack has as many frames as levels of meaning are worth, each function
\* of a library package is wrapped or noted as skipped, once, by what its slots mean, each
\* wrapped one that fits has its extern, once, and two externs share a symbol exactly if
\* they are of two packages and their names, joined with underscores, read the same.
THEOREM AccountMeans == Spec => [](Settled => Accounted)
<1>1. MapInv /\ EmitInv => (Settled => Accounted)
  BY EmitInvAccount
<1> QED
  BY <1>1, EmitInvariant, PTL

\* So it is if the stack has a frame for every type.
THEOREM NothingIsLost ==
  ASSUME IsFiniteSet(Types), Cardinality(Types) <= MaxDepth
  PROVE  Spec => []Accounted
<1>1. MapInv /\ EmitInv => Accounted
  <2>1. MapInv => Settled
    BY FewTypesSettle DEF MapInv
  <2> QED
    BY <2>1, EmitInvAccount
<1> QED
  BY <1>1, EmitInvariant, PTL

===============================================================================

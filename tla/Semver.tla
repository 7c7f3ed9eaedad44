---------------------------------- MODULE Semver ----------------------------------
(***************************************************************************)
(* Versions of Go modules and their order (semver/version.go).             *)
(*                                                                         *)
(* A text is the sequence of its bytes.  A value that may be nil or an     *)
(* error is <<>> or <<x>>.                                                 *)
(***************************************************************************)
EXTENDS Integers, Sequences, SequencesExt

CONSTANT MaxInt  \* the largest int; bound

ASSUME MaxIntAssumption == MaxInt \in Nat

Text == Seq(Nat)

Digits == 48..57
Upper  == 65..90
Lower  == 97..122
Plus   == 43
Dash   == 45
Dot    == 46

-------------------------------------------------------------------------------
(* Texts *)

\* The order of Go's strings.
TextLess(a, b) ==
  \E k \in 1..Len(b) :
    /\ \A j \in 1..(k - 1) : j <= Len(a) /\ a[j] = b[j]
    /\ k = Len(a) + 1 \/ (k <= Len(a) /\ a[k] < b[k])

\* What is in front of the first byte c, or all of the text; and what is after it.
FirstAt(text, c) == SelectInSeq(text, LAMBDA x : x = c)
Before(text, c) == IF FirstAt(text, c) = 0 THEN text ELSE SubSeq(text, 1, FirstAt(text, c) - 1)
After(text, c)  == SubSeq(text, FirstAt(text, c) + 1, Len(text))

\* strings.Split: c ends a piece, another byte is added to the last one.
Split(text, c) ==
  LET pieces[n \in 0..Len(text)] ==
        IF n = 0 THEN <<<<>>>>
        ELSE IF text[n] = c THEN Append(pieces[n - 1], <<>>)
        ELSE [pieces[n - 1] EXCEPT ![Len(pieces[n - 1])] = Append(@, text[n])]
  IN  pieces[Len(text)]

-------------------------------------------------------------------------------
(* Parse *)

\* What %d prints of an int; without a leading zero, strconv.Atoi reads nothing else.
Decimal[n \in 0..MaxInt] ==
  IF n < 10 THEN <<48 + n>> ELSE Append(Decimal[n \div 10], 48 + (n % 10))
IsInt(text)  == \E n \in 0..MaxInt : Decimal[n] = text
Atoi(text)   == CHOOSE n \in 0..MaxInt : Decimal[n] = text

isAllDigits(id)  == id # <<>> /\ ToSet(id) \subseteq Digits
isIdentChars(id) == ToSet(id) \subseteq Digits \cup Upper \cup Lower \cup {Dash}

\* Build metadata goes first, then the pre-release, and three ints are left.  An
\* empty list of identifiers is a list with an empty one.
Parse(s) ==
  LET rest  == Before(Tail(s), Plus)
      build == IF Plus \in ToSet(s) THEN Split(After(s, Plus), Dot) ELSE <<>>
      pre   == IF Dash \in ToSet(rest) THEN Split(After(rest, Dash), Dot) ELSE <<>>
      parts == Split(Before(rest, Dash), Dot)
  IN  IF /\ s # <<>> /\ s[1] = 118
         /\ \A i \in DOMAIN build : build[i] # <<>> /\ isIdentChars(build[i])
         /\ \A i \in DOMAIN pre :
              /\ pre[i] # <<>> /\ isIdentChars(pre[i])
              /\ ~(isAllDigits(pre[i]) /\ Len(pre[i]) > 1 /\ pre[i][1] = 48)
         /\ Len(parts) = 3 /\ \A i \in 1..3 : IsInt(parts[i])
      THEN <<[major |-> Atoi(parts[1]), minor |-> Atoi(parts[2]), patch |-> Atoi(parts[3]),
              pre |-> pre]>>
      ELSE <<>>

-------------------------------------------------------------------------------
(* Compare *)

cmpInt(a, b)  == IF a < b THEN -1 ELSE IF a > b THEN 1 ELSE 0
cmpText(a, b) == IF TextLess(a, b) THEN -1 ELSE IF TextLess(b, a) THEN 1 ELSE 0

\* isNumericIdent: digits that make an int.
isNumericIdent(id) == isAllDigits(id) /\ IsInt(id)

\* Faulty: identifiers of digits are compared like the others.
compareIdentText(a, b) == cmpText(a, b)

compareIdent(a, b) ==
  IF isNumericIdent(a) /\ isNumericIdent(b) THEN cmpInt(Atoi(a), Atoi(b))
  ELSE IF isNumericIdent(a) THEN -1
  ELSE IF isNumericIdent(b) THEN 1
  ELSE cmpText(a, b)

\* The first identifiers that differ decide, or the shorter list is the lower one.
PreLess(a, b) ==
  \E k \in 1..Len(b) :
    /\ \A j \in 1..(k - 1) : j <= Len(a) /\ compareIdent(a[j], b[j]) = 0
    /\ k = Len(a) + 1 \/ (k <= Len(a) /\ compareIdent(a[k], b[k]) = -1)

\* A release is above its pre-releases.
comparePre(a, b) ==
  IF a = <<>> \/ b = <<>> THEN cmpInt(Len(b), Len(a))
  ELSE IF PreLess(a, b) THEN -1
  ELSE IF PreLess(b, a) THEN 1
  ELSE 0

Compare(a, b) ==
  IF a = <<>> \/ b = <<>> THEN cmpInt(Len(a), Len(b))
  ELSE LET v == a[1]  w == b[1] IN
       IF v.major # w.major THEN cmpInt(v.major, w.major)
       ELSE IF v.minor # w.minor THEN cmpInt(v.minor, w.minor)
       ELSE IF v.patch # w.patch THEN cmpInt(v.patch, w.patch)
       ELSE comparePre(v.pre, w.pre)

\* A text that is no version is above those that are.
CompareStrings(a, b) ==
  LET va == Parse(a)  vb == Parse(b) IN
  IF va # <<>> /\ vb # <<>> THEN Compare(va, vb)
  ELSE IF vb # <<>> THEN 1
  ELSE IF va # <<>> THEN -1
  ELSE cmpText(a, b)

\* The same texts, each as often as it is there, in another order or in this one.
Rearranged(texts) == {[i \in DOMAIN texts |-> texts[p[i]]] : p \in SetToSeqs(DOMAIN texts)}

\* Sort: sort.Slice, which puts texts that compare as equal in any order.
Sorted(texts) ==
  {s \in Rearranged(texts) : \A i, j \in DOMAIN s : i < j => CompareStrings(s[i], s[j]) <= 0}

\* Faulty: starts from the empty text.
MaxOfEmpty(texts) ==
  LET highest[n \in 0..Len(texts)] ==
        IF n = 0 THEN <<>>
        ELSE IF CompareStrings(texts[n], highest[n - 1]) > 0 THEN texts[n] ELSE highest[n - 1]
  IN  highest[Len(texts)]

\* Max: the first of the highest; the empty text if there is none.
MaxOf(texts) ==
  LET highest[n \in 1..Len(texts)] ==
        IF n = 1 THEN texts[1]
        ELSE IF CompareStrings(texts[n], highest[n - 1]) > 0 THEN texts[n] ELSE highest[n - 1]
  IN  IF texts = <<>> THEN <<>> ELSE highest[Len(texts)]

===============================================================================

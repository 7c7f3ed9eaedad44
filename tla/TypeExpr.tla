--------------------------------- MODULE TypeExpr ---------------------------------
(***************************************************************************)
(* Go type expressions (apisurface/typeexpr.go): the tree GoType, its      *)
(* String, and ParseType, which reads a text back.  A text is a sequence   *)
(* of tokens; what a string holds between them is left out.                *)
(*                                                                         *)
(* A tree is <<"basic", n>>, <<"named", pkg, n, args>>, <<"ptr", t>>,      *)
(* <<"slice", t>>, <<"array", len, t>>, <<"map", k, v>>, <<"chan", dir,    *)
(* t>>, <<"func", params, results>>, <<"ellipsis", t>>, <<"iface", body>>  *)
(* or <<"struct", body>>, with a body kept as its tokens.  A token is      *)
(* <<"word", pkg, n>> for pkg.n, <<"num", n>>, or a mark as <<"[">>.       *)
(***************************************************************************)
EXTENDS Integers, Sequences, FiniteSets, SequencesExt

CONSTANT Unreadable  \* import paths that parseIdentPath and tryKeyword do not take as one word

\* A path with no word for itself is the one of universe and own names.
ASSUME PathAssumption == "" \notin Unreadable

Mark(m)       == <<m>>
Word(pkg, n)  == <<"word", pkg, n>>
Marks(ms)     == [i \in DOMAIN ms |-> Mark(ms[i])]

basicSet == {
  "bool", "byte", "complex64", "complex128", "error", "float32", "float64", "int", "int8", "int16", "int32", "int64",
  "rune", "string", "uint", "uint8", "uint16", "uint32", "uint64", "uintptr", "any", "comparable"}

-------------------------------------------------------------------------------
(* Trees *)

\* walkTypes: what is under a node.  Bodies are not walked.
Children(t) ==
  CASE t[1] \in {"ptr", "slice", "ellipsis"} -> <<t[2]>>
    [] t[1] \in {"array", "chan"}            -> <<t[3]>>
    [] t[1] = "map"                          -> <<t[2], t[3]>>
    [] t[1] = "func"                         -> t[2] \o t[3]
    [] t[1] = "named"                        -> t[4]
    [] OTHER                                 -> <<>>

\* Texts with a comma between them.
Listed(texts) ==
  FoldLeft(LAMBDA acc, x : IF acc = <<>> THEN x ELSE acc \o <<Mark(",")>> \o x, <<>>, texts)
In(open, texts, close) == <<Mark(open)>> \o Listed(texts) \o <<Mark(close)>>

\* The node around the texts of its children, where every printer agrees.
Around(t, kids) ==
  CASE t[1] = "basic"    -> <<Word("", t[2])>>
    [] t[1] = "ptr"      -> <<Mark("*")>> \o kids[1]
    [] t[1] = "slice"    -> Marks(<<"[", "]">>) \o kids[1]
    [] t[1] = "array"    -> <<Mark("["), <<"num", t[2]>>, Mark("]")>> \o kids[1]
    [] t[1] = "map"      -> Marks(<<"map", "[">>) \o kids[1] \o <<Mark("]")>> \o kids[2]
    [] t[1] = "chan"     -> Marks(CASE t[2] = "send" -> <<"chan", "<-">>
                                    [] t[2] = "recv" -> <<"<-", "chan">>
                                    [] OTHER         -> <<"chan">>) \o kids[1]
    [] t[1] = "ellipsis" -> <<Mark("...")>> \o kids[1]
    [] t[1] = "named"    -> <<Word(t[2], t[3])>> \o (IF kids = <<>> THEN <<>> ELSE In("[", kids, "]"))
    [] t[1] \in {"iface", "struct"} -> <<Mark(t[1])>> \o t[2]

\* Faulty: several results are listed without their parentheses.
resultsBare(rs, texts) == IF rs = <<>> THEN <<>> ELSE Listed(texts)

\* FuncType.String after the parameters: one result stands alone unless it is a func.
resultsText(rs, texts) ==
  CASE rs = <<>>                            -> <<>>
    [] Len(rs) = 1 /\ rs[1][1] # "func"     -> texts[1]
    [] OTHER                                -> In("(", texts, ")")

RECURSIVE String(_)
String(t) ==
  LET kids == [i \in DOMAIN Children(t) |-> String(Children(t)[i])]
      n    == Len(t[2])
  IN  IF t[1] # "func" THEN Around(t, kids)
      ELSE <<Mark("func")>> \o In("(", SubSeq(kids, 1, n), ")")
             \o resultsText(t[3], SubSeq(kids, n + 1, Len(kids)))

-------------------------------------------------------------------------------
(* ParseType *)

\* A parse is Fail, or the tree and the position after it.
Fail       == <<>>
Kind(s, i) == IF i \in DOMAIN s THEN s[i][1] ELSE "end"

\* The node with what was parsed for its element.
Under(node, r) == IF r = Fail THEN Fail ELSE <<Append(node, r[1]), r[2]>>

\* parseBraceBody: up to the brace that balances the one at i.
parseBraceBody(s, i) ==
  LET n(j, b) == Cardinality({k \in i..j : Kind(s, k) = b})
      ends    == {j \in i..Len(s) : n(j, "{") = n(j, "}")}
      last    == CHOOSE j \in ends : \A k \in ends : j <= k
  IN  IF Kind(s, i) # "{" \/ ends = {} THEN Fail ELSE <<SubSeq(s, i, last), last + 1>>

\* The marks canStartType takes for the end of a signature without results.
Enders == {"end", ")", ",", "]", "}"}

RECURSIVE parseType(_, _), parseItems(_, _, _)

\* The types between commas up to the closing mark.
parseItems(s, i, close) ==
  LET r    == parseType(s, i)
      rest == parseItems(s, r[2] + 1, close)
  IN  CASE r = Fail               -> Fail
        [] Kind(s, r[2]) = close  -> <<<<r[1]>>, r[2] + 1>>
        [] Kind(s, r[2]) = ","    -> IF rest = Fail THEN Fail ELSE <<<<r[1]>> \o rest[1], rest[2]>>
        [] OTHER                  -> Fail

parseList(s, i, close) == IF Kind(s, i) = close THEN <<<<>>, i + 1>> ELSE parseItems(s, i, close)

parseFuncSig(s, i) ==
  LET ps   == IF Kind(s, i) = "(" THEN parseList(s, i + 1, ")") ELSE Fail
      j    == ps[2]
      rs   == parseList(s, j + 1, ")")
      one  == parseType(s, j)
  IN  CASE ps = Fail            -> Fail
        [] Kind(s, j) = "("     -> IF rs = Fail THEN Fail ELSE <<<<"func", ps[1], rs[1]>>, rs[2]>>
        [] Kind(s, j) \in Enders -> <<<<"func", ps[1], <<>>>>, j>>
        [] OTHER                -> IF one = Fail THEN Fail ELSE <<<<"func", ps[1], <<one[1]>>>>, one[2]>>

parseNamed(s, i) ==
  LET args == IF Kind(s, i + 1) = "[" THEN parseList(s, i + 2, "]") ELSE <<<<>>, i + 1>>
  IN  CASE s[i][2] \in Unreadable \/ args = Fail -> Fail
        [] s[i][2] = "" /\ args[1] = <<>> /\ s[i][3] \in basicSet -> <<<<"basic", s[i][3]>>, args[2]>>
        [] OTHER -> <<<<"named", s[i][2], s[i][3], args[1]>>, args[2]>>

parseMap(s, i) ==
  LET k == IF Kind(s, i) = "[" THEN parseType(s, i + 1) ELSE Fail
  IN  IF k = Fail \/ Kind(s, k[2]) # "]" THEN Fail ELSE Under(<<"map", k[1]>>, parseType(s, k[2] + 1))

parseType(s, i) ==
  LET k    == Kind(s, i)
      next == Kind(s, i + 1)
      body == parseBraceBody(s, i + 1)
  IN  CASE k = "*"    -> Under(<<"ptr">>, parseType(s, i + 1))
        [] k = "<-"   -> IF next = "chan" THEN Under(<<"chan", "recv">>, parseType(s, i + 2)) ELSE Fail
        [] k = "["    -> CASE next = "]" -> Under(<<"slice">>, parseType(s, i + 2))
                           [] next = "num" /\ Kind(s, i + 2) = "]"
                                         -> Under(<<"array", s[i + 1][2]>>, parseType(s, i + 3))
                           [] OTHER      -> Fail
        [] k = "map"  -> parseMap(s, i + 1)
        [] k = "chan" -> IF next = "<-" THEN Under(<<"chan", "send">>, parseType(s, i + 2))
                         ELSE Under(<<"chan", "both">>, parseType(s, i + 1))
        [] k = "func" -> parseFuncSig(s, i + 1)
        [] k \in {"iface", "struct"} -> IF body = Fail THEN Fail ELSE <<<<k, body[1]>>, body[2]>>
        [] k = "..."  -> Under(<<"ellipsis">>, parseType(s, i + 1))
        [] k = "word" -> parseNamed(s, i)
        [] OTHER      -> Fail

\* The tree a whole text stands for, or Fail.
ParseType(s) ==
  LET r == parseType(s, 1) IN IF r = Fail \/ r[2] <= Len(s) THEN Fail ELSE r[1]

===============================================================================

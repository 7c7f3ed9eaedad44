------------------------------- MODULE MCWrapper -------------------------------
(***************************************************************************)
(* Surfaces for Wrapper: packages 1 and 2 are libraries and declare types  *)
(* of the same name, package 3 is a main package.  T and U range over what *)
(* leads through the recursion: records, handles, aliases, cycles through  *)
(* each constructor, and an unexported or unmappable field.                *)
(***************************************************************************)
EXTENDS Wrapper, TLC

B(n)  == <<"basic", n>>
N(n)  == <<"named", 0, n>>
F(t)  == [exported |-> TRUE, type |-> t]
Hidden == [exported |-> FALSE, type |-> B("int")]

MCT == {
  <<"struct", <<F(B("int")), F(<<"slice", Byte>>)>>>>,
  <<"struct", <<F(N("U")), F(<<"ptr", B("bool")>>)>>>>,
  <<"struct", <<F(<<"ptr", N("T")>>)>>>>,
  <<"struct", <<Hidden, F(N("T"))>>>>,
  <<"struct", <<F(<<"chan", N("T")>>), F(N("T"))>>>>,
  <<"struct", <<F(B("complex128"))>>>>,
  <<"struct", <<F(<<"array", N("U")>>)>>>>,
  <<"unfold", N("U")>>,
  <<"unfold", B("string")>>,
  <<"unfold", <<"func", <<N("T")>>, <<>>>>>>,
  <<"opaque">>}

MCU == {
  <<"struct", <<F(B("float64"))>>>>,
  <<"struct", <<F(<<"map", B("string"), N("T")>>)>>>>,
  <<"unfold", <<"map", N("T"), B("int")>>>>,
  <<"unfold", B("byte")>>,
  <<"unfold", <<"ptr", N("T")>>>>,
  <<"unfold", <<"iface", "empty">>>>,
  <<"opaque">>}

Fun(p, n, params, results) ==
  [pkg |-> p, name |-> n, generic |-> FALSE, params |-> params, results |-> results]

MCArgs == {
  B("int"), <<"slice", Byte>>, <<"slice", N("T")>>, <<"ptr", N("U")>>, N("T"), N("U"),
  <<"func", <<N("U"), <<"ellipsis", N("T")>>>>, <<B("error")>>>>,
  <<"map", N("T"), N("U")>>, <<"named", 2, "T">>, <<"named", 9, "T">>,
  <<"iface", "methods">>, <<"struct">>, <<"ellipsis", N("U")>>, <<"nil">>}

\* What the second function asks for, with the cache the first one left.
MCLater == {N("T"), N("U"), <<"slice", N("U")>>, <<"ptr", N("T")>>, <<"named", 2, "T">>, B("int")}

\* A path that ends in /v2 or internal/x may have the name of another one, and a name
\* with an underscore may join to what other names join to.
MCNamesakes ==
  {[types |-> <<1, "T">> :> t @@ <<1, "U">> :> <<"opaque">> @@ <<2, "T">> :> <<"unfold", B("int")>>,
    names |-> (1 :> <<"a">> @@ 2 :> name @@ 3 :> <<"main">>),
    funcs |-> <<Fun(1, <<"X", "Y">>, <<x>>, <<B("error")>>),
                Fun(1, <<"Y">>, <<>>, <<B("int")>>),
                Fun(2, <<"X", "Y">>, <<B("int")>>, <<>>),
                Fun(2, <<"Y">>, <<y>>, <<>>)>>]
     : t \in MCT, name \in {<<"a">>, <<"a", "X">>, <<"b">>}, x \in MCArgs, y \in MCLater}

\* The types of the surfaces, and what they lead to.
MCParts(t) ==
  CASE t[1] \in {"ptr", "slice", "array", "ellipsis", "chan"} -> {t[2]}
    [] t[1] = "map"  -> {t[2], t[3]}
    [] t[1] = "func" -> ToSet(t[2]) \cup ToSet(t[3])
    [] OTHER         -> {}
MCDeclared(d) ==
  CASE d[1] = "unfold" -> {d[2]}
    [] d[1] = "struct" -> {d[2][i].type : i \in DOMAIN d[2]}
    [] OTHER           -> {}
MCWith(ts)  == ts \cup UNION {MCParts(t) : t \in ts}
MCTypes     == MCWith(MCWith(MCWith(
  MCArgs \cup MCLater \cup UNION {MCDeclared(d) : d \in MCT \cup MCU}
    \cup {B(n) : n \in {"int", "string", "bool", "error"}}
    \cup {<<"named", p, n>> : p \in 1..2, n \in {"T", "U"}})))

MCSurfaces == MCNamesakes \cup
  {[types |-> (<<1, "T">> :> t @@ <<1, "U">> :> u @@ <<2, "T">> :> <<"unfold", B("int")>>),
    names |-> (1 :> <<"a">> @@ 2 :> <<"b">> @@ 3 :> <<"main">>),
    funcs |-> <<Fun(1, <<"F">>, <<x>>, <<B("error")>>),
                Fun(1, <<"G">>, <<>>, <<y, B("error")>>),
                [Fun(2, <<"F">>, <<>>, <<>>) EXCEPT !.generic = TRUE],
                Fun(2, <<"H">>, <<B("int")>>, <<B("string"), B("bool"), B("error")>>),
                Fun(3, <<"M">>, <<>>, <<>>)>>]
     : t \in MCT, u \in MCU, x \in MCArgs, y \in MCLater}
===============================================================================

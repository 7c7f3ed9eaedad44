------------------------------- MODULE MCApiPipeline -------------------------------
(***************************************************************************)
(* Sources for ApiPipeline: a package "m" with one type of MCTypes at each *)
(* place a declaration has for one, and a second package.  Foreign         *)
(* documents hold one text: every sequence of up to four tokens, and the   *)
(* texts of all trees of two levels.                                       *)
(***************************************************************************)
EXTENDS ApiPipeline

B(n)        == <<"basic", n>>
N(p, n)     == <<"named", p, n, <<>>>>
Own         == N("m", "A")
T           == <<"tparam", "T">>
U           == <<"tparam", "U">>
Fn(ps, rs)  == <<"func", ps, rs, {}>>
LikeReflect == N("reflect.dev/x", "Value")
Recv(t)     == <<"chan", "recv", t>>
Body(ws)    == <<Mark("{")>> \o ws \o <<Mark("}")>>
Ptr(t)      == <<"ptr", t>>
Slice(t)    == <<"slice", t>>
Bytes       == <<"array", 4, B("int")>>

MCUnreadable == {"9fans", "chan.io"}

MCTypes == {
  B("int"), B("error"), Own, N("io", "Reader"), N("9fans", "Win"), Ptr(N("chan.io", "C")),
  Ptr(N("reflect", "Value")), Slice(N("unsafe", "Pointer")), N("unsafe", "Sized"),
  <<"map", Own, Slice(N("reflect", "Type"))>>, <<"map", Bytes, N("reflect", "Type")>>,
  <<"map", N("reflect", "Type"), B("int")>>, <<"map", <<"array", 4, N("reflect", "Type")>>, B("int")>>, <<"array", 3, Ptr(N("runtime/cgo", "Handle"))>>,
  <<"chan", "send", N("reflect", "Value")>>, N("syscall/js", "Value"), Ptr(N("os/exec", "Cmd")),
  <<"chan", "both", Recv(Own)>>, <<"chan", "both", <<"chan", "send", B("int")>>>>,
  <<"chan", "send", Recv(Own)>>, Recv(<<"chan", "both", Own>>),
  Fn(<<>>, <<>>), Fn(<<B("int")>>, <<Fn(<<Own>>, <<>>)>>), Fn(<<Fn(<<>>, <<>>), <<"ellipsis", Own>>>>, <<B("int"), B("error")>>),
  <<"func", <<Own, B("int")>>, <<B("error")>>, {"params"}>>, Slice(<<"func", <<B("int")>>, <<>>, {"params"}>>),
  <<"func", <<Own>>, <<B("int")>>, {"results"}>>, <<"func", <<>>, <<B("error"), B("int")>>, {"results", "params"}>>,
  Ptr(LikeReflect), <<"map", B("int"), LikeReflect>>, N("reflectx", "Value"), N("runtime/debug.v2", "Stats"),
  <<"named", "m", "Pair", <<B("int"), Slice(Own)>>>>, <<"map", <<"named", "m", "Pair", <<Own>>>>, Fn(<<>>, <<Own>>)>>,
  <<"struct", Body(<<Mark("{")>>)>>, Slice(<<"struct", Body(Marks(<<"}">>))>>), <<"struct", Body(Marks(<<"{", "}">>))>>,
  <<"iface", Body(<<>>)>>, <<"struct", Body(<<Word("", "x"), Word("io", "Reader")>> \o Marks(<<"struct">>) \o Body(<<>>))>>,
  <<"union", <<B("int"), B("string")>>>>, N("m", "T"), N("m", "error"), Slice(N("reflect", "T"))}

\* Types with parameters, for generic functions.
MCGeneric == {
  T, Slice(T), N("m", "T"), <<"chan", "both", T>>, <<"chan", "send", T>>, <<"map", T, Ptr(U)>>, Fn(<<T, U>>, <<T>>), <<"named", "m", "Pair", <<U, T>>>>,
  Ptr(N("testing", "T")), N("m", "Tx"), N("x/T-1", "Y"), N("x/Tea", "Y"), <<"struct", Body(<<Word("", "T"), Word("", "U")>>)>>}

Param(n, c) == [name |-> n, constraint |-> c]
Func(n, tps, ps, rs) ==
  [name |-> n, exported |-> TRUE, recv |-> "", tparams |-> tps, params |-> ps, results |-> rs, variadic |-> FALSE]
Method(n, ps)  == [Func(n, <<>>, ps, <<B("error")>>) EXCEPT !.recv = "S"]
Struct(fields) == [name |-> "S", tparams |-> <<>>, alias |-> Nil, under |-> <<"struct", Body(<<>>)>>, fields |-> fields,
                   embeds |-> <<>>, methods |-> {}, imethods |-> {}]

Object(is, d) == [is |-> is, name |-> d.name, exported |-> TRUE, decl |-> d]
Type(d)       == Object("type", d)
AnyOf         == B("any")

\* Each place of a declaration.
Places(t) == {
  Object("func", Func("F", <<>>, <<B("int"), t>>, <<>>)),
  Object("func", Func("F", <<>>, <<>>, <<t, B("error")>>)),
  Object("func", [Func("F", <<>>, <<Slice(t)>>, <<>>) EXCEPT !.variadic = TRUE]),
  Object("func", Func("F", <<Param("T", t)>>, <<T>>, <<>>)),
  Object("func", [Func("F", <<>>, <<t>>, <<>>) EXCEPT !.exported = FALSE]),
  Object("const", [name |-> "C", type |-> t]),
  Object("var", [name |-> "V", type |-> t]),
  Type([Struct(<<>>) EXCEPT !.under = t]),
  Type([Struct(<<>>) EXCEPT !.alias = t]),
  Type([Struct(<<>>) EXCEPT !.alias = Slice(T), !.tparams = <<Param("T", t)>>]),
  Type(Struct(<<[exported |-> FALSE, type |-> t]>>)),
  Type([Struct(<<>>) EXCEPT !.tparams = <<Param("T", t)>>, !.methods = {Method("Get", <<T>>)}]),
  Type([Struct(<<>>) EXCEPT !.methods = {Method("Put", <<t>>), Method("Get", <<>>)}]),
  Type([Struct(<<>>) EXCEPT !.methods = {[Method("put", <<t>>) EXCEPT !.exported = FALSE]}]),
  Type([Struct(<<>>) EXCEPT !.under = <<"iface", Body(<<>>)>>, !.imethods = {Method("Do", <<t>>)}]),
  Type([Struct(<<>>) EXCEPT !.under = <<"iface", Body(<<>>)>>, !.embeds = <<t>>])}

Generic(t) == {
  Object("func", Func("F", <<Param("T", AnyOf)>>, <<t, T>>, <<B("error")>>)),
  Object("func", Func("F", <<Param("T", AnyOf), Param("U", B("comparable"))>>, <<t>>, <<U, t>>))}

Hidden == [is |-> "var", name |-> "v", exported |-> FALSE, decl |-> [name |-> "v", type |-> N("net/http", "Client")]]
Source(o) ==
  {[path |-> "m", name |-> "m",
    objs |-> {[o EXCEPT !.exported = IF o.is = "func" THEN o.decl.exported ELSE TRUE], Hidden}]}

Other == [path |-> "m/b", name |-> "b",
          objs |-> {Object("func", Func("F", <<Param("T", AnyOf)>>, <<N("m", "A"), T>>, <<N("m/b", "A")>>))}]

\* Packages that are themselves banned, or that have a path the parser cannot read.
Itself(path) ==
  {[path |-> path, name |-> "p", objs |-> {Object("func", Func("F", <<Param("T", c)>>, <<Ptr(N(path, "C")), T>>, <<>>))}]
     : c \in {AnyOf, N(path, "I")}}

\* A parameter may have the name of a type that an alias gives the signature all the same.
Shadowing == Object("func", Func("F", <<Param("error", AnyOf)>>, <<<<"tparam", "error">>>>, <<B("error")>>))

MCGenericSources == {Source(o) : o \in {Shadowing} \cup UNION {Generic(t) : t \in MCGeneric}}
MCSources ==
  MCGenericSources \cup {Source(o) : o \in UNION {Places(t) : t \in MCTypes}}
    \cup {{p} : p \in UNION {Itself(path) : path \in MCUnreadable \cup {"reflect", "net/http", "reflect.dev/x"}}}
    \cup {Source(o) \cup {Other} : o \in Places(Own) \cup Places(N("9fans", "Win"))}

Item(i) == <<"item", i>>
Args(x) == <<"T", x>>
IntText == <<Word("", "int")>>
MCTables == {
  <<>>,
  <<<<Item(<<"m", "F">>), Args(IntText)>>, <<Item(<<"m/b", "F">>), Args(<<Word("m", "A")>>)>>>>,
  <<<<Args(IntText), Item(<<"m", "F">>), Args(Marks(<<"[", "]">>) \o <<Word("io", "Reader")>>)>>, <<Item(<<"m", "S", "Get">>), Args(IntText)>>>>,
  <<<<Item(<<"m", "F">>), Args(<<Word("io", "U"), Mark(",")>> \o IntText)>>>>,
  <<<<Item(<<"m", "F">>), Args(Marks(<<"map", "[">>) \o IntText \o <<Mark(","), Word("", "int"), Mark("]")>>)>>>>,
  <<<<Item(<<"m", "F">>), Args(Marks(<<"<-", "chan">>) \o IntText)>>>>,
  <<<<Item(<<"m", "F">>), Args(<<Mark(",")>>)>>>>,
  <<<<Item(<<"m", "F">>), Args(IntText), <<"constraint", IntText>>>>>>}

-------------------------------------------------------------------------------

Leaves == {B("int"), N("p", "X"), <<"struct", Body(<<Mark("{"), Mark("}")>>)>>}
Level(ts) ==
  {<<k, t>> : k \in {"ptr", "slice", "ellipsis"}, t \in ts}
    \cup {<<"chan", d, t>> : d \in {"both", "send", "recv"}, t \in ts}
    \cup {<<"array", 2, t>> : t \in ts}
    \cup {<<"map", k, v>> : k \in ts, v \in Leaves}
    \cup {<<"named", "", "G", <<t>>>> : t \in ts} \cup {<<"named", "", "G", <<B("int"), t>>>> : t \in ts}
    \cup {<<"func", ps, rs>> : ps \in {<<>>, <<B("int"), B("error")>>} \cup {<<t>> : t \in ts},
                              rs \in {<<>>} \cup {<<t>> : t \in ts} \cup {<<B("int"), t>> : t \in ts}}
Trees == Level(Leaves \cup Level(Leaves \ {B("int")}))

Tokens == Marks(<<"*", "[", "]", "map", "chan", "<-", "func", "(", ")", ",", "...">>)
Texts  == UNION {[1..n -> ToSet(Tokens) \cup {Word("", "int"), Word("p", "X")}] : n \in 1..4}

Document(x) == [schema |-> 1, packages |-> {[path |-> "f", name |-> "f", imports |-> {"q"}, funcs |-> {}, types |-> {},
                                             values |-> {[name |-> "V", type |-> x]}, skipped |-> {}]}]
MCForeign ==
  {Document(x) : x \in Texts \cup {String(t) : t \in Trees}}
    \cup {[Document(IntText) EXCEPT !.schema = 2]}
===============================================================================

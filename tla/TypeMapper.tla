------------------------------- MODULE TypeMapper -------------------------------
(***************************************************************************)
(* typemap.Mapper (typemap/mapper.go): Map turns a Go type of the surface  *)
(* into a Mochi type and the direction its values cross the boundary in,   *)
(* recursively, with a cache that a mapping enters once it is complete.    *)
(*                                                                         *)
(* The call stack of Map is a variable, so that a recursion without an end *)
(* shows.  A type is <<shape, parts...>>: <<"ptr", t>>, <<"map", k, v>>,   *)
(* <<"func", params, results>>, <<"named", pkg, name>> with pkg 0 for the  *)
(* package itself, <<"struct">> a struct literal.  It stands for its own   *)
(* String, the key of the cache.  The surface declares a named type        *)
(* <<"struct", fields>>, <<"opaque">> (an interface or an unknown kind) or *)
(* <<"unfold", t>> (an alias and the kinds that map as their underlying).  *)
(* Notes are left out.                                                     *)
(***************************************************************************)
EXTENDS Naturals, Sequences, SequencesExt

CONSTANTS
  Types,      \* the types that occur in the surfaces, with their parts
  Surfaces,   \* the loaded surfaces: types and, for Wrapper, functions
  MaxDepth    \* the frames a goroutine's stack holds; bound

ASSUME DepthAssumption == MaxDepth \in Nat \ {0}

ASSUME TypesAssumption ==
  \A t \in Types :
    \/ t \in {<<"struct">>, <<"nil">>}
    \/ t[1] \in {"basic", "iface"} /\ t = <<t[1], t[2]>>
    \/ /\ t[1] \in {"ptr", "slice", "array", "ellipsis", "chan"}
       /\ t = <<t[1], t[2]>> /\ t[2] \in Types
    \/ t[1] = "map" /\ t = <<"map", t[2], t[3]>> /\ {t[2], t[3]} \subseteq Types
    \/ t[1] = "func" /\ t = <<"func", t[2], t[3]>> /\ {t[2], t[3]} \subseteq Seq(Types)
    \/ t[1] = "named" /\ t = <<"named", t[2], t[3]>>

\* Packages are numbered in the order of their paths, and what they declare is a type and
\* made of types.
ASSUME DeclarationsAssumption ==
  \A s \in Surfaces : \A d \in DOMAIN s.types : LET decl == s.types[d] IN
    /\ d = <<d[1], d[2]>> /\ d[1] \in Nat \ {0} /\ <<"named", d[1], d[2]>> \in Types
    /\ \/ decl = <<"opaque">>
       \/ decl[1] = "unfold" /\ decl = <<"unfold", decl[2]>> /\ decl[2] \in Types
       \/ /\ decl[1] = "struct" /\ decl = <<"struct", decl[2]>>
          /\ decl[2] \in Seq([exported : BOOLEAN, type : Types])

VARIABLES
  surface,  \* Mapper.surface; never written
  cache,    \* Mapper.cache
  stack,    \* the calls of Map under way: a type, and its parts' mappings so far
  ret,      \* <<m>>: the outermost Map returned m
  crash     \* the goroutine stack overflowed

mapperVars == <<surface, cache, stack, ret, crash>>

-------------------------------------------------------------------------------
(* Mappings *)

Copying(m)   == [mochi |-> m, dir |-> "copy"]
Handling(m)  == [mochi |-> m, dir |-> "handle"]
HandleTo(n)  == Handling(<<"handle", n>>)
Unmappable   == [mochi |-> <<"none">>, dir |-> "none"]

Scalars  == [int |-> "int", byte |-> "int", float64 |-> "float", bool |-> "bool",
             string |-> "string", error |-> "error"]
Byte     == <<"basic", "byte">>
IsScalar(m) == m.mochi[1] = "scalar"

\* lookupSelfType takes the first package in path order that declares the name.
Packages == {d[1] : d \in DOMAIN surface.types}
SelfPackage(name) ==
  LET ps == {p \in Packages : <<p, name>> \in DOMAIN surface.types}
  IN  IF ps = {} THEN 0 ELSE CHOOSE p \in ps : \A q \in ps : p <= q

\* mapNamed: the declaration of a named type, if the surface has it.
DeclOf(t) ==
  LET d == <<IF t[2] = 0 THEN SelfPackage(t[3]) ELSE t[2], t[3]>>
  IN  IF d \in DOMAIN surface.types THEN surface.types[d] ELSE <<"absent">>

IsRecord(t) == t[1] = "named" /\ DeclOf(t)[1] = "struct"
Fields(t)   == DeclOf(t)[2]

\* The fields of a struct are looked at in order up to the first unexported one.
Visible(t) == SelectInSeq(Fields(t), LAMBDA f : ~f.exported)
Shown(t)   == IF Visible(t) = 0 THEN Fields(t) ELSE SubSeq(Fields(t), 1, Visible(t) - 1)

IsVariadic(ps) == ps # <<>> /\ Last(ps)[1] = "ellipsis"
Params(ps)     == IF IsVariadic(ps) THEN Append(Front(ps), Last(ps)[2]) ELSE ps

\* What Map calls itself with, in order.
Parts(t) ==
  CASE t[1] \in {"ptr", "array", "ellipsis"}   -> <<t[2]>>
    [] t[1] = "slice" /\ t[2] # Byte           -> <<t[2]>>
    [] t[1] = "map"                            -> <<t[2], t[3]>>
    [] t[1] = "func"                           -> Params(t[2]) \o t[3]
    [] IsRecord(t)                             -> [i \in DOMAIN Shown(t) |-> Shown(t)[i].type]
    [] t[1] = "named" /\ DeclOf(t)[1] = "unfold" -> <<DeclOf(t)[2]>>
    [] OTHER                                   -> <<>>

\* A part that ends the visit before the rest is mapped.
Cuts(t, m, i) ==
  \/ m = Unmappable
  \/ IsRecord(t) /\ m.dir = "handle"
  \/ t[1] = "map" /\ i = 1 /\ ~IsScalar(m)

Done(t, got) ==
  Len(got) = Len(Parts(t)) \/ (got # <<>> /\ Cuts(t, Last(got), Len(got)))

-------------------------------------------------------------------------------
(* What Map answers when the parts are mapped *)

Mochis(got) == [i \in DOMAIN got |-> got[i].mochi]

mapBasic(name) ==
  IF name \in DOMAIN Scalars THEN Copying(<<"scalar", Scalars[name]>>)
  ELSE IF name = "any" THEN Handling(<<"any">>)
  ELSE Unmappable

\* A pointer to a handle is that handle.
mapPointer(m) == IF m.mochi[1] = "handle" THEN m ELSE [mochi |-> <<"option", m.mochi>>, dir |-> m.dir]
mapSlice(t, got) ==
  IF t[2] = Byte THEN Copying(<<"scalar", "bytes">>)
  ELSE [mochi |-> <<"list", got[1].mochi>>, dir |-> got[1].dir]

mapFunc(t, got) ==
  LET n  == Len(t[2])
      ms == Mochis(got)
      ps == IF IsVariadic(t[2]) THEN [SubSeq(ms, 1, n) EXCEPT ![n] = <<"list", @>>] ELSE SubSeq(ms, 1, n)
  IN  Handling(<<"func", ps, SubSeq(ms, n + 1, Len(ms))>>)

\* Faulty: a field that needs a handle does not make the struct one.
mapStructDeclLoose(t, got) ==
  IF Visible(t) # 0 \/ Unmappable \in ToSet(got)
    THEN HandleTo(<<"bare", t[3]>>)
    ELSE Copying(<<"record", t[3], Mochis(got)>>)

\* A struct is a record if all its fields are exported, mapped, and not handles.
mapStructDecl(t, got) ==
  IF Visible(t) # 0 \/ Unmappable \in ToSet(got) \/ \E i \in DOMAIN got : got[i].dir = "handle"
    THEN HandleTo(<<"bare", t[3]>>)
    ELSE Copying(<<"record", t[3], Mochis(got)>>)

mapNamed(t, got) ==
  CASE DeclOf(t)[1] = "absent" -> HandleTo(IF t[2] = 0 THEN <<"bare", t[3]>> ELSE t)
    [] DeclOf(t)[1] = "opaque" -> HandleTo(<<"bare", t[3]>>)
    [] DeclOf(t)[1] = "unfold" -> got[1]
    [] DeclOf(t)[1] = "struct" -> mapStructDecl(t, got)

mapType(t, got) ==
  IF ~IsRecord(t) /\ \E i \in DOMAIN got : Cuts(t, got[i], i) THEN Unmappable
  ELSE CASE t[1] = "basic"    -> mapBasic(t[2])
         [] t[1] = "ptr"      -> mapPointer(got[1])
         [] t[1] = "slice"    -> mapSlice(t, got)
         [] t[1] = "array"    -> Copying(<<"list", got[1].mochi>>)
         [] t[1] = "ellipsis" -> [mochi |-> <<"list", got[1].mochi>>, dir |-> got[1].dir]
         [] t[1] = "map"      -> Copying(<<"map", got[1].mochi, got[2].mochi>>)
         [] t[1] = "chan"     -> HandleTo(t)
         [] t[1] = "func"     -> mapFunc(t, got)
         [] t[1] = "iface"    -> IF t[2] = "empty" THEN Handling(<<"any">>) ELSE HandleTo(<<"iface">>)
         [] t[1] = "struct"   -> HandleTo(<<"struct">>)
         [] t[1] = "named"    -> mapNamed(t, got)
         [] t[1] = "nil"      -> Unmappable

-------------------------------------------------------------------------------
(* The recursion *)

MapperInit ==
  /\ surface \in Surfaces
  /\ cache = <<>> /\ stack = <<>> /\ ret = <<>> /\ crash = FALSE

Frame(t) == [t |-> t, got |-> <<>>]
Busy     == stack # <<>> /\ ~crash
Top      == Last(stack)

Return(m) ==
  IF Len(stack) = 1
    THEN stack' = <<>> /\ ret' = <<m>>
    ELSE /\ stack' = [Front(stack) EXCEPT ![Len(stack) - 1].got = Append(@, m)]
         /\ UNCHANGED ret

\* Map returns what the cache has.
Hit ==
  /\ Busy /\ Top.got = <<>> /\ Top.t \in DOMAIN cache
  /\ Return(cache[Top.t])
  /\ UNCHANGED <<surface, cache, crash>>

Missed == Busy /\ (Top.got # <<>> \/ Top.t \notin DOMAIN cache)

\* Faulty: a named type is cached as a handle while its parts are being mapped.
DescendMarked ==
  /\ Missed /\ ~Done(Top.t, Top.got)
  /\ IF Len(stack) < MaxDepth
       THEN stack' = Append(stack, Frame(Parts(Top.t)[Len(Top.got) + 1])) /\ UNCHANGED crash
       ELSE crash' = TRUE /\ UNCHANGED stack
  /\ cache' = IF Top.t[1] = "named"
                THEN [k \in DOMAIN cache \cup {Top.t} |->
                        IF k = Top.t THEN HandleTo(<<"bare", k[3]>>) ELSE cache[k]]
                ELSE cache
  /\ UNCHANGED <<surface, ret>>

\* The next part is mapped, one frame deeper.
Descend ==
  /\ Missed /\ ~Done(Top.t, Top.got)
  /\ IF Len(stack) < MaxDepth
       THEN stack' = Append(stack, Frame(Parts(Top.t)[Len(Top.got) + 1])) /\ UNCHANGED crash
       ELSE crash' = TRUE /\ UNCHANGED stack
  /\ UNCHANGED <<surface, cache, ret>>

\* A complete mapping enters the cache; an error does not.
Finish ==
  /\ Missed /\ Done(Top.t, Top.got)
  /\ LET m == mapType(Top.t, Top.got) IN
       /\ Return(m)
       /\ cache' = IF m = Unmappable THEN cache
                   ELSE [k \in DOMAIN cache \cup {Top.t} |-> IF k = Top.t THEN m ELSE cache[k]]
  /\ UNCHANGED <<surface, crash>>

MapStep == Hit \/ Descend \/ Finish

\* Somebody calls Map and later takes the answer.
Map(t)     == stack = <<>> /\ ret = <<>> /\ ~crash /\ stack' = <<Frame(t)>>
Answered   == ret # <<>>

===============================================================================

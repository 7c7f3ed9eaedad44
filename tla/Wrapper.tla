-------------------------------- MODULE Wrapper --------------------------------
(***************************************************************************)
(* From a surface to the two sides of the bridge: wrapper.Emitter picks    *)
(* the functions it can wrap, asking the type mapper about every parameter *)
(* and result (wrapper/wrapper.go, wrapper/emit.go), and emit.Emitter      *)
(* declares an extern for each of them (emit/emit.go).                     *)
(*                                                                         *)
(* A function is [pkg, name, generic, params, results]; surface.names maps *)
(* a package to its name, surface.funcs lists the functions by package     *)
(* path and name.  A name is the sequence of its words, what stands between *)
(* its underscores, so that names joined with an underscore are            *)
(* concatenated: package a_b and func C are <<"a", "b">> and <<"C">>.      *)
(* Rendering is left out.                                                  *)
(***************************************************************************)
EXTENDS TypeMapper, FiniteSets

\* A surface names its packages, and has a function of a name once in each of them.
ASSUME FunctionsAssumption ==
  \A s \in Surfaces :
    /\ IsFiniteSet(DOMAIN s.names) /\ s.funcs \in Seq(ToSet(s.funcs))
    /\ \A i \in DOMAIN s.funcs : LET f == s.funcs[i] IN
         /\ f.pkg \in DOMAIN s.names
         /\ s.names[f.pkg] \in Seq(STRING) /\ f.name \in Seq(STRING)
         /\ f.params \in Seq(Types) /\ f.results \in Seq(Types)
    /\ \A i, j \in DOMAIN s.funcs :
         s.funcs[i].pkg = s.funcs[j].pkg /\ s.funcs[i].name = s.funcs[j].name => i = j

VARIABLES
  queue,    \* the functions Emit has not visited, in its order
  slot,     \* the next parameter or result of the first of them
  funcs,    \* wrapper.Result.Funcs
  skipped,  \* wrapper.Result.Skipped: a function, or a main package
  externs,  \* emit.Result.Externs
  dropped   \* emit.Result.Skipped

emitVars == <<queue, slot, funcs, skipped>>
bindVars == <<externs, dropped>>
vars     == <<mapperVars, emitVars, bindVars>>

-------------------------------------------------------------------------------
(* wrapper.Emitter *)

IsMain(p) == surface.names[p] = <<"main">>

\* What Emit visits: the functions of a library package, a main package itself.
Visits == FlattenSeq([i \in DOMAIN surface.funcs |->
            IF IsMain(surface.funcs[i].pkg) THEN <<>> ELSE <<surface.funcs[i]>>])
Mains  == SetToSeq({[pkg |-> p] : p \in {p \in DOMAIN surface.names : IsMain(p)}})

Init ==
  /\ MapperInit
  /\ queue = Visits /\ skipped = Mains
  /\ slot = 1 /\ funcs = <<>>
  /\ externs = <<>> /\ dropped = <<>>

Fn == Head(queue)

\* A trailing error becomes the status code.
ErrorType   == <<"basic", "error">>
HasError(f) == f.results # <<>> /\ Last(f.results) = ErrorType
Results(f)  == IF HasError(f) THEN Front(f.results) ELSE f.results
Slots(f)    == f.params \o Results(f)

\* baselineParamCType and baselineResultCType: the scalars but error.
Baseline == {<<"scalar", s>> : s \in {"int", "float", "bool", "string", "bytes"}}

\* "mochi_go_<module>_", the same for all, and then <package>_<func>.
exportSymbol(f) == surface.names[f.pkg] \o f.name

Skip ==
  /\ skipped' = Append(skipped, Fn)
  /\ queue' = Tail(queue) /\ slot' = 1
  /\ UNCHANGED funcs

SkipGeneric ==
  /\ queue # <<>> /\ Fn.generic
  /\ Skip
  /\ UNCHANGED <<mapperVars, bindVars>>

Visiting == queue # <<>> /\ ~Fn.generic

AskSlot ==
  /\ Visiting /\ slot <= Len(Slots(Fn))
  /\ Map(Slots(Fn)[slot])
  /\ UNCHANGED <<surface, cache, ret, crash, emitVars, bindVars>>

\* Faulty: only unmappable slots skip the function.
TakeSlotLoose ==
  /\ Visiting /\ Answered
  /\ ret' = <<>>
  /\ IF ret[1] # Unmappable
       THEN slot' = slot + 1 /\ UNCHANGED <<queue, funcs, skipped>>
       ELSE Skip
  /\ UNCHANGED <<surface, cache, stack, crash, bindVars>>

\* One slot that is unmappable or no baseline scalar skips the function.
TakeSlot ==
  /\ Visiting /\ Answered
  /\ ret' = <<>>
  /\ IF ret[1].mochi \in Baseline
       THEN slot' = slot + 1 /\ UNCHANGED <<queue, funcs, skipped>>
       ELSE Skip
  /\ UNCHANGED <<surface, cache, stack, crash, bindVars>>

\* Faulty: the slots of the function before are counted on.
EmitFuncNoReset ==
  /\ Visiting /\ slot > Len(Slots(Fn)) /\ ~Answered
  /\ funcs' = Append(funcs, Fn)
  /\ queue' = Tail(queue)
  /\ UNCHANGED <<mapperVars, slot, skipped, bindVars>>

\* emitFunc: every slot is one the wrapper can lower.
EmitFunc ==
  /\ Visiting /\ slot > Len(Slots(Fn)) /\ ~Answered
  /\ funcs' = Append(funcs, Fn)
  /\ queue' = Tail(queue) /\ slot' = 1
  /\ UNCHANGED <<mapperVars, skipped, bindVars>>

-------------------------------------------------------------------------------
(* emit.Emitter *)

\* The name a Mochi caller uses, after the alias, and the symbol it is linked to.
Extern(f) == [fn |-> f, name |-> f.name, symbol |-> exportSymbol(f)]

\* Faulty: the trailing error counts as a result.
BindErrorTwice ==
  /\ queue = <<>> /\ ~crash /\ Len(externs) + Len(dropped) < Len(funcs)
  /\ LET f == funcs[Len(externs) + Len(dropped) + 1] IN
       IF Len(f.results) <= 1
         THEN externs' = Append(externs, Extern(f)) /\ UNCHANGED dropped
         ELSE dropped' = Append(dropped, f) /\ UNCHANGED externs
  /\ UNCHANGED <<mapperVars, emitVars>>

\* emitOne: an extern for each wrapped function with at most one result.
Bind ==
  /\ queue = <<>> /\ ~crash /\ Len(externs) + Len(dropped) < Len(funcs)
  /\ LET f == funcs[Len(externs) + Len(dropped) + 1] IN
       IF Len(Results(f)) <= 1
         THEN externs' = Append(externs, Extern(f)) /\ UNCHANGED dropped
         ELSE dropped' = Append(dropped, f) /\ UNCHANGED externs
  /\ UNCHANGED <<mapperVars, emitVars>>

Next ==
  \/ SkipGeneric \/ AskSlot \/ TakeSlot \/ EmitFunc \/ Bind
  \/ (MapStep /\ UNCHANGED <<emitVars, bindVars>>)

Spec == Init /\ [][Next]_vars

-------------------------------------------------------------------------------
(* What a type means on the other side: the reference for Map *)

Endless == [mochi |-> <<"endless">>, dir |-> "none"]
Fails   == {Unmappable, Endless}

\* The first of a sequence of meanings that is not one decides.
Sequentially(ms, whole) ==
  LET bad == {i \in DOMAIN ms : ms[i] \in Fails}
  IN  IF bad = {} THEN whole ELSE ms[CHOOSE i \in bad : \A j \in bad : i <= j]

\* A struct means a record if all its fields are exported and mean copies.  Fields
\* are looked at in order, so an endless one counts only if all before it are copies.
RecordMeaning(name, fields, ms) ==
  LET plain(i) == fields[i].exported /\ ms[i].dir = "copy"
      odd      == {i \in DOMAIN fields : ~plain(i)}
      first    == CHOOSE i \in odd : \A j \in odd : i <= j
  IN  IF odd = {} THEN Copying(<<"record", name, [i \in DOMAIN ms |-> ms[i].mochi]>>)
      ELSE IF fields[first].exported /\ ms[first] = Endless THEN Endless
      ELSE HandleTo(<<"bare", name>>)

\* What t means by its structure, when `of' is what its parts mean.
Structural(of, t) ==
  LET decl       == DeclOf(t)
      all(ts)    == [i \in DOMAIN ts |-> of[ts[i]]]
      listed(ms) == IF IsVariadic(t[2]) THEN [ms EXCEPT ![Len(ms)] = <<"list", @>>] ELSE ms
      ListOf(m)  == [mochi |-> <<"list", m.mochi>>, dir |-> m.dir]
  IN
  CASE t[1] \in {"basic", "chan", "iface", "struct", "nil"} -> mapType(t, <<>>)
    [] t[1] = "ptr"      -> LET m == of[t[2]] IN Sequentially(<<m>>,
                              IF m.mochi[1] = "handle" THEN m
                              ELSE [mochi |-> <<"option", m.mochi>>, dir |-> m.dir])
    [] t[1] = "slice"    -> IF t[2] = Byte THEN Copying(<<"scalar", "bytes">>)
                            ELSE LET m == of[t[2]] IN Sequentially(<<m>>, ListOf(m))
    [] t[1] = "ellipsis" -> LET m == of[t[2]] IN Sequentially(<<m>>, ListOf(m))
    [] t[1] = "array"    -> LET m == of[t[2]] IN Sequentially(<<m>>, Copying(<<"list", m.mochi>>))
    [] t[1] = "map"      -> LET k == of[t[2]]  v == of[t[3]] IN
                              IF k \notin Fails /\ k.mochi[1] # "scalar" THEN Unmappable
                              ELSE Sequentially(<<k, v>>, Copying(<<"map", k.mochi, v.mochi>>))
    [] t[1] = "func"     -> LET ps == all(Params(t[2]))  rs == all(t[3]) IN
                              Sequentially(ps \o rs, Handling(<<"func", listed(Mochis(ps)), Mochis(rs)>>))
    [] t[1] = "named"    ->
         CASE decl[1] = "struct" -> RecordMeaning(t[3], decl[2],
                                      [i \in DOMAIN decl[2] |-> of[decl[2][i].type]])
           [] decl[1] = "unfold" -> of[decl[2]]
           [] OTHER              -> mapNamed(t, <<>>)

\* The meanings that take at most n levels; the others are Endless.
Meaning[n \in Nat] ==
  IF n = 0 THEN [t \in Types |-> Endless]
  ELSE [t \in Types |-> Structural(Meaning[n - 1], t)]

\* Two levels more than Map has frames: MaxDepth must be enough for types that end.
MeaningOf(t) == Meaning[MaxDepth + 2][t]

-------------------------------------------------------------------------------
(* Properties *)

\* A call of Map has mapped no more parts than its type has, answers only the
\* outermost caller, and a visit is at one of the function's slots.
TypeOK ==
  /\ Len(stack) <= MaxDepth /\ Len(ret) <= 1
  /\ \A i \in DOMAIN stack : Len(stack[i].got) <= Len(Parts(stack[i].t))
  /\ \A t \in DOMAIN cache : cache[t].dir \in {"copy", "handle"}
  /\ queue # <<>> => slot \in 1..Len(Slots(Fn)) + 1
  /\ stack # <<>> \/ Answered => Visiting /\ slot <= Len(Slots(Fn))

\* A type named without its package that package p declares and none before p, so that
\* lookupSelfType, which is not told whose function it is, finds the one of p.
FirstIn(p, t) ==
  /\ t[1] = "named" /\ t[2] = 0 /\ <<p, t[3]>> \in DOMAIN surface.types
  /\ \A q \in Packages : q < p => <<q, t[3]>> \notin DOMAIN surface.types

\* What Map answers, from the cache or not and whatever was mapped before, is the
\* meaning of the type, and of the function's own type if no earlier package hides it;
\* and Map recurses without end exactly on a type that has none, one that contains itself.
MapIsMeaning ==
  /\ Answered => /\ ret[1] = MeaningOf(Slots(Fn)[slot])
                 /\ FirstIn(Fn.pkg, Slots(Fn)[slot]) =>
                      ret[1] = MeaningOf(<<"named", Fn.pkg, Slots(Fn)[slot][3]>>)
                 /\ \A t \in DOMAIN cache : cache[t] = MeaningOf(t)
  /\ crash    => MeaningOf(stack[1].t) = Endless

\* Nothing is lost on the way: each function of a library package is wrapped or
\* noted as skipped, once; it is wrapped if all it takes and gives is a baseline
\* scalar, by its own meaning; a wrapped one has one extern, unless it has several
\* results.  Of a main package there is one note.  Two externs of one name are those of
\* two packages, and so are two that are linked to one symbol: they are what Continues
\* says, namesakes in packages that share a name, or X_Y of package a and Y of package a_X.
Accounted ==
  LET Count(s, x)  == Cardinality({i \in DOMAIN s : s[i] = x})
      Wrappable(f) == ~f.generic /\ \A i \in DOMAIN Slots(f) : MeaningOf(Slots(f)[i]).mochi \in Baseline
      \* y's package has the name of x's and the first i words, or none, of x's function,
      \* and y's function has the rest.
      Continues(x, y) == \E i \in 0..Len(x.name) :
        /\ surface.names[y.fn.pkg] = surface.names[x.fn.pkg] \o SubSeq(x.name, 1, i)
        /\ y.name = SubSeq(x.name, i + 1, Len(x.name))
  IN  queue = <<>> /\ Len(externs) + Len(dropped) = Len(funcs) =>
        /\ \A f \in ToSet(surface.funcs) : ~IsMain(f.pkg) =>
             /\ Count(funcs, f) = (IF Wrappable(f) THEN 1 ELSE 0)
             /\ Count(skipped, f) = 1 - Count(funcs, f)
             /\ Count(externs, Extern(f)) = (IF Wrappable(f) /\ Len(Results(f)) <= 1 THEN 1 ELSE 0)
        /\ Len(funcs) + Len(skipped) = Len(Visits) + Len(Mains)
        /\ \A x, y \in ToSet(externs) : x # y =>
             /\ x.name = y.name => x.fn.pkg # y.fn.pkg
             /\ x.symbol = y.symbol => x.fn.pkg # y.fn.pkg
             /\ x.symbol = y.symbol <=> Continues(x, y) \/ Continues(y, x)

===============================================================================

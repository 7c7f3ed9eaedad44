--------------------------------- MODULE Surface ---------------------------------
(***************************************************************************)
(* From the packages of a Go module to the typed surface of the bridge:    *)
(* go-ingest writes what the type checker found into an ApiSurface         *)
(* document (apisurface/ingest.go, cmd/go-ingest/main.go), Decode and Load *)
(* read one back (apisurface/types.go, apisurface/surface.go).             *)
(*                                                                         *)
(* A source package is [path, name, objs], an object [name, exported, is,  *)
(* decl].  Its types are the type checker's: trees as in TypeExpr, but for *)
(* <<"func", params, results, named>>, where named says which of "params"  *)
(* and "results" have names, <<"tparam", n>> and <<"union", terms>>, and   *)
(* with the path of the own package.  Lists that the code sorts by name    *)
(* are sets; docs, positions and constants' values are left out, and so    *)
(* are packages without types.                                             *)
(***************************************************************************)
EXTENDS TypeExpr

CONSTANTS
  Sources,   \* the packages a run of go-ingest may load
  Foreign    \* documents that something else wrote

VARIABLES
  source,   \* the loaded packages, or {} for a foreign document; never written
  strict,   \* LoadOptions.StrictCrossReferences; never written
  doc,      \* <<f>>: the encoded File
  loaded    \* <<s>>: what Load answered, its error as Refused

surfaceVars == <<source, strict, doc, loaded>>

SchemaVersion == 1
Refused       == <<>>
Nil           == <<"nil">>

-------------------------------------------------------------------------------
(* go/types: how it prints a type, and which packages it names *)

RECURSIVE Printed(_)
Printed(t) ==
  LET kids == [i \in DOMAIN Children(t) |-> Printed(Children(t)[i])]
      n    == Len(t[2])
      rs   == SubSeq(kids, n + 1, Len(kids))
      Named(which, texts) ==
        IF which \in t[4] THEN [i \in DOMAIN texts |-> <<Word("", "x")>> \o texts[i]] ELSE texts
  IN  CASE t[1] = "tparam" -> <<Word("", t[2])>>
        [] t[1] = "union"  -> FoldLeft(LAMBDA acc, u : acc \o (IF acc = <<>> THEN <<>> ELSE <<Mark("|")>>)
                                                         \o <<Mark("~")>> \o Printed(u), <<>>, t[2])
        [] t[1] = "chan" /\ t[2] = "both" /\ t[3][1] = "chan" /\ t[3][2] = "recv"
                           -> Around(t, <<In("(", kids, ")")>>)
        [] t[1] = "func"   ->
             <<Mark("func")>> \o In("(", Named("params", SubSeq(kids, 1, n)), ")")
               \o (IF Len(rs) > 1 \/ "results" \in t[4] THEN In("(", Named("results", rs), ")") ELSE Listed(rs))
        [] OTHER           -> Around(t, kids)

\* typeString: the own package goes without its path.
typeString(t, selfPkg) ==
  LET s == Printed(t) IN
  [i \in DOMAIN s |-> IF s[i][1] = "word" /\ s[i][2] = selfPkg THEN Word("", s[i][3]) ELSE s[i]]

\* What a call of typeString adds to importSet.
Mentions(text) == {text[i][2] : i \in {i \in DOMAIN text : text[i][1] = "word"}} \ {""}

-------------------------------------------------------------------------------
(* Declarations: the same shape for types, for texts and for what Load read *)

\* A function with E of its parameters and results and C of its constraints.
OverFunc(f, E(_), C(_)) ==
  [f EXCEPT !.tparams = [i \in DOMAIN f.tparams |-> [name |-> f.tparams[i].name,
                                                     constraint |-> C(f.tparams[i].constraint)]],
            !.params  = [i \in DOMAIN f.params  |-> E(f.params[i])],
            !.results = [i \in DOMAIN f.results |-> E(f.results[i])]]

OverFuncs(fs, E(_), C(_)) == {OverFunc(f, E, C) : f \in fs}

\* A type; U is for its underlying type.
OverType(t, E(_), C(_), U(_)) ==
  [t EXCEPT !.tparams  = [i \in DOMAIN t.tparams |-> [name |-> t.tparams[i].name,
                                                      constraint |-> C(t.tparams[i].constraint)]],
            !.alias    = E(t.alias),
            !.under    = U(t.under),
            !.fields   = [i \in DOMAIN t.fields |-> [exported |-> t.fields[i].exported, type |-> E(t.fields[i].type)]],
            !.embeds   = [i \in DOMAIN t.embeds |-> E(t.embeds[i])],
            !.methods  = OverFuncs(t.methods, E, C),
            !.imethods = OverFuncs(t.imethods, E, C)]

OverPackage(p, E(_), C(_), U(_)) ==
  [p EXCEPT !.funcs  = OverFuncs(p.funcs, E, C),
            !.types  = {OverType(t, E, C, U) : t \in p.types},
            !.values = {[v EXCEPT !.type = E(v.type)] : v \in p.values}]

FuncExprs(f)   == ToSet(f.params) \cup ToSet(f.results)
Constraints(d) == {d.tparams[i].constraint : i \in DOMAIN d.tparams}
AllFuncs(p)    == p.funcs \cup UNION {t.methods \cup t.imethods : t \in p.types}

\* What parseAndCheck and what ParseType alone is called for.
Checked(p) ==
  UNION {FuncExprs(f) : f \in AllFuncs(p)} \cup {v.type : v \in p.values}
    \cup UNION {{t.alias} \cup ToSet(t.embeds) \cup {t.fields[i].type : i \in DOMAIN t.fields} : t \in p.types}
Unchecked(p) ==
  UNION {Constraints(d) : d \in AllFuncs(p) \cup p.types} \cup {t.under : t \in p.types}

-------------------------------------------------------------------------------
(* Ingest *)

Objects(p, is) == {o.decl : o \in {o \in p.objs : o.exported /\ o.is = is}}

\* typeFromObj: an alias keeps what it stands for and nothing else, not even its type
\* parameters; the methods are attached when all objects are seen, the exported ones.
declared(t) ==
  IF t.alias # Nil THEN [t EXCEPT !.tparams = <<>>, !.under = Nil, !.methods = {}]
  ELSE [t EXCEPT !.methods = {m \in @ : m.exported}]

\* The exported objects of the package's scope.
Exported(p) ==
  [path    |-> p.path, name |-> p.name, imports |-> {},
   funcs   |-> Objects(p, "func"),
   types   |-> {declared(t) : t \in Objects(p, "type")},
   values  |-> Objects(p, "const") \cup Objects(p, "var"),
   skipped |-> {[kind |-> o.is, name |-> o.name] : o \in {o \in p.objs : ~o.exported}}]

Text(t, self) == IF t = Nil THEN <<>> ELSE typeString(t, self)

\* Faulty: the imports are collected before the methods are attached.
ingestPackageEarly(p) ==
  LET e  == Exported(p)
      of(q) == OverPackage(q, LAMBDA t : Text(t, p.path), LAMBDA t : Text(t, ""), LAMBDA t : Text(t, p.path))
      early == of([e EXCEPT !.types = {[t EXCEPT !.methods = {}] : t \in @}])
  IN  [of(e) EXCEPT !.imports = UNION {Mentions(x) : x \in Checked(early) \cup Unchecked(early)}]

\* ingestPackage: all the texts, with the packages they mention as the imports.
ingestPackage(p) ==
  LET out == OverPackage(Exported(p), LAMBDA t : Text(t, p.path), LAMBDA t : Text(t, ""),
                                      LAMBDA t : Text(t, p.path))
  IN  [out EXCEPT !.imports = UNION {Mentions(x) : x \in Checked(out) \cup Unchecked(out)}]

-------------------------------------------------------------------------------
(* Load *)

\* parseAndCheck and the guards of loadType: an absent text is an absent type.
Parsed(text) == IF text = <<>> THEN Nil ELSE ParseType(text)

\* walkTypes with checkRef: the packages of the named types in a tree.
RECURSIVE References(_)
References(t) ==
  (IF t[1] = "named" THEN {t[2]} ELSE {}) \cup UNION {References(Children(t)[i]) : i \in DOMAIN Children(t)}

checkRef(p, t) == References(t) \subseteq p.imports \cup {"", p.path}

\* loadFunc, loadType and loadValue of all declarations.
Loads(p) ==
  /\ \A x \in Checked(p) \cup Unchecked(p) : Parsed(x) # Fail
  /\ strict => \A x \in Checked(p) : checkRef(p, Parsed(x))

View(p) == OverPackage(p, Parsed, Parsed, Parsed)

-------------------------------------------------------------------------------
(* The steps *)

SurfaceInit ==
  /\ strict \in BOOLEAN
  /\ \/ source \in Sources /\ doc = <<>>
     \/ source = {} /\ doc \in {<<f>> : f \in Foreign}
  /\ loaded = <<>>

\* go-ingest: Ingest of every loaded package, and Encode.
Ingest ==
  /\ doc = <<>>
  /\ doc' = <<[schema |-> SchemaVersion, packages |-> {ingestPackage(p) : p \in source}]>>
  /\ UNCHANGED <<source, strict, loaded>>

\* Decode and Load: the schema version is ours and every type is read, or there is no surface.
Load ==
  /\ doc # <<>> /\ loaded = <<>>
  /\ loaded' = <<IF doc[1].schema = SchemaVersion /\ \A p \in doc[1].packages : Loads(p)
                 THEN [p \in {q.path : q \in doc[1].packages} |->
                         View(CHOOSE q \in doc[1].packages : q.path = p)]
                 ELSE Refused>>
  /\ UNCHANGED <<source, strict, doc>>

===============================================================================

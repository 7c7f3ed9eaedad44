------------------------------- MODULE ApiPipeline -------------------------------
(***************************************************************************)
(* What the bridge does with the API of a module: go-ingest writes the     *)
(* surface document, Load reads it, the gates of Embedded check it, and    *)
(* Monomorphise makes instances of its generic functions.  Each works on   *)
(* the document; the order is that of the bridge's phases.                 *)
(***************************************************************************)
EXTENDS Embedded, Monomorphise

CONSTANTS
  Tables,        \* the fragments of manifests' [go.monomorphise] tables
  MaxRenderings  \* renderings of one instance that differ; bound

ASSUME RenderingsAssumption == MaxRenderings \in Nat \ {0}

VARIABLES
  table,      \* the fragments; never written
  report,     \* <<r>>: what the gates answered for each package
  instances,  \* <<s>>: the instances of a package, by its path
  rendered    \* what RenderInstance returned

vars == <<surfaceVars, table, report, instances, rendered>>

Paths   == {p.path : p \in doc[1].packages}
File(q) == CHOOSE p \in doc[1].packages : p.path = q

Init ==
  /\ SurfaceInit
  /\ table \in IF source = {} THEN {<<>>} ELSE Tables
  /\ report = <<>> /\ instances = <<>> /\ rendered = {}

Gate ==
  /\ instances # <<>> /\ report = <<>>
  /\ report' = <<[q \in Paths |-> [embedded |-> CheckPackage("embedded", File(q)),
                                   standard |-> CheckPackage("standard", File(q)),
                                   wasip1   |-> CheckPublish("wasm-wasip1", File(q)),
                                   js       |-> CheckPublish("wasm-js", File(q))]]>>
  /\ UNCHANGED <<surfaceVars, table, instances, rendered>>

Instantiate ==
  /\ loaded # <<>> /\ instances = <<>>
  /\ LET specs == ParseSpecs(table) IN
     instances' = <<[q \in Paths |-> IF specs = Refused THEN {} ELSE Resolve(File(q), specs[1])]>>
  /\ UNCHANGED <<surfaceVars, table, report, rendered>>

\* An instance may be rendered in one run of the bridge and again in the next.
Render ==
  /\ report # <<>>
  /\ \E q \in Paths : \E inst \in instances[1][q] :
       \E ps \in [DOMAIN inst.fn.params -> Orders(inst)], rs \in [DOMAIN inst.fn.results -> Orders(inst)] :
         /\ Cardinality({r \in rendered : r.inst = inst}) < MaxRenderings
         /\ rendered' = rendered \cup {RenderInstance(inst, ps, rs)}
  /\ UNCHANGED <<surfaceVars, table, report, instances>>

Next ==
  \/ Ingest /\ UNCHANGED <<table, report, instances, rendered>>
  \/ Load /\ UNCHANGED <<table, report, instances, rendered>>
  \/ Gate \/ Instantiate \/ Render

Spec == Init /\ [][Next]_vars

-------------------------------------------------------------------------------
(* What the texts stand for: the reference for printing and parsing *)

RECURSIVE Nodes(_)
Nodes(t) ==
  {t} \cup UNION {Nodes(Children(t)[i]) : i \in DOMAIN Children(t)}
      \cup (IF t[1] = "union" THEN UNION {Nodes(u) : u \in ToSet(t[2])} ELSE {})

\* The braces of a body, the ones in the tags of its fields included, first match at its end.
Closes(body) ==
  LET open(k) == Cardinality({i \in 1..k : body[i] = Mark("{")}) - Cardinality({i \in 1..k : body[i] = Mark("}")})
  IN  \A k \in DOMAIN body : open(k) = 0 <=> k = Len(body)

\* A type that ParseType takes as go/types prints it in package self: no union, no named
\* parameters or results, no parentheses around a channel, no odd brace in the tag of a
\* field, no path it cannot read but the own one.
Readable(t, self) ==
  \A n \in Nodes(t) :
    /\ n[1] # "union"
    /\ n[1] = "func" => n[4] = {}
    /\ n[1] \in {"iface", "struct"} => Closes(n[2])
    /\ n[1] = "chan" /\ n[2] = "both" => n[3][1] # "chan" \/ n[3][2] # "recv"
    /\ n[1] = "named" => n[2] \notin Unreadable \ {self}

\* A name without a path: one of a predeclared type is taken for that type.
Local(n, args) ==
  IF args = <<>> /\ n \in basicSet THEN <<"basic", n>> ELSE <<"named", "", n, args>>

\* The tree a type reads as in package self, with env for type parameters.
RECURSIVE Reading(_, _, _)
Reading(t, self, env) ==
  LET of(u)   == Reading(u, self, env)
      all(ts) == [i \in DOMAIN ts |-> of(ts[i])]
      own(w)  == IF Kind(<<w>>, 1) = "word" /\ w[2] = self THEN Word("", w[3]) ELSE w
  IN  CASE t[1] \in {"basic", "nil"} -> t
        [] t[1] = "tparam" -> IF t[2] \in DOMAIN env THEN env[t[2]] ELSE Local(t[2], <<>>)
        [] t[1] = "named"  -> IF t[2] = self THEN Local(t[3], all(t[4])) ELSE <<"named", t[2], t[3], all(t[4])>>
        [] t[1] = "func"   -> <<"func", all(t[2]), all(t[3])>>
        [] t[1] = "map"    -> <<"map", of(t[2]), of(t[3])>>
        [] t[1] \in {"ptr", "slice", "ellipsis"} -> <<t[1], of(t[2])>>
        [] t[1] \in {"array", "chan"}            -> <<t[1], t[2], of(t[3])>>
        [] t[1] \in {"iface", "struct"} -> <<t[1], [i \in DOMAIN t[2] |-> own(t[2][i])]>>

\* The types of a package that end up in the document; constraints are written with the own path.
Placed(p)       == (Checked(Exported(p)) \cup {t.under : t \in Exported(p).types}) \ {Nil}
Constraining(p) == UNION {Constraints(d) : d \in AllFuncs(Exported(p)) \cup Exported(p).types}

\* The packages that types name, bodies included.
Named(ts) ==
  UNION {{n[2] : n \in {n \in Nodes(t) : n[1] = "named"}}
           \cup UNION {Mentions(n[2]) : n \in {n \in Nodes(t) : n[1] \in {"iface", "struct"}}} : t \in ts}

\* The packages the exported surface names.  The own one is among them if a constraint names it.
Needed(p) == (Named(Placed(p)) \ {p.path}) \cup Named(Constraining(p))

\* The surface a source stands for.
Meant(p) ==
  LET read(t) == Reading(t, p.path, <<>>)
      full(t) == Reading(t, "", <<>>)
  IN  [OverPackage(Exported(p), read, full, read) EXCEPT !.imports = Needed(p)]

\* The gate takes the first closing bracket for the end of a map's key.
Misread(t) == t[1] = "map" /\ Mark("]") \in ToSet(Printed(t[2]))

\* Past pointers, slices, arrays and maps, up to a map that is misread.
RECURSIVE Peeled(_)
Peeled(t) ==
  CASE t[1] \in {"ptr", "slice", "ellipsis"} -> Peeled(t[2])
    [] t[1] = "array" -> Peeled(t[3])
    [] t[1] = "map" /\ ~Misread(t) -> Peeled(t[3])
    [] OTHER -> t

\* The types the subset bans: those of two packages, and one of each of two others.
Banned(pkg, n) ==
  pkg \in {"reflect", "runtime/debug"} \/ <<pkg, n>> \in {<<"runtime/cgo", "Handle">>, <<"unsafe", "Pointer">>}

\* The types that are taken for one of these: those of a package whose path goes on with a
\* dot after a banned package's, or whose path or name goes on after a banned type's.
Resembles(pkg, n) ==
  \/ \E p \in {"reflect.", "runtime/debug.", "runtime/cgo.Handle", "unsafe.Pointer"} : IsPrefix(p, pkg)
  \/ pkg = "runtime/cgo" /\ IsStrictPrefix("Handle", n)
  \/ pkg = "unsafe" /\ IsStrictPrefix("Pointer", n)

\* Types of the own package are written without its path, and are none of the gate's business.
Offends(t, self) ==
  LET b == Peeled(t) IN b[1] = "named" /\ b[2] # self /\ (Banned(b[2], b[3]) \/ Resembles(b[2], b[3]))

-------------------------------------------------------------------------------
(* Properties *)

\* Load gives back what the type checker had: a document of go-ingest is refused only if
\* a type in it is outside the grammar of ParseType, strict cross references or not; else
\* every declaration has its types, and the imports are the packages these name.
LoadedIsSource ==
  loaded # <<>> /\ source # {} =>
    LET fine == \A p \in source : /\ \A t \in Placed(p) : Readable(t, p.path)
                                 /\ \A t \in Constraining(p) : Readable(t, "")
    IN  loaded[1] = IF fine THEN [q \in Paths |-> Meant(CHOOSE p \in source : p.path = q)] ELSE Refused

\* String writes what ParseType reads: any type of a loaded surface, from whatever document,
\* is printed as a text that reads as the same type.
RoundTrip ==
  loaded # <<>> /\ loaded[1] # Refused =>
    \A q \in DOMAIN loaded[1] : \A t \in (Checked(loaded[1][q]) \cup Unchecked(loaded[1][q])) \ {Nil} :
      ParseType(String(t)) = t

\* A gate reports, by their types and not by how these are written, each banned package
\* that the exported surface names, and each function or method that takes or gives a
\* banned type; nothing else, but for the types that resemble a banned one, and nothing at
\* all outside its profile.  A function with a map that is misread may be reported or not.
GateReports ==
  report # <<>> /\ source # {} =>
    \A p \in source :
      LET sigs == Signatures(Exported(p))
          imports(banned) == {<<"import", q>> : q \in Needed(p) \cap banned}
          Of(kind, ss)  == {<<kind, s.where>> : s \in ss}
          params(Is(_)) == Of("param-type", {s \in sigs : \E t \in ToSet(s.fn.params) : Is(t)})
          results(Is(_)) == Of("result-type", {s \in sigs : \E t \in ToSet(s.fn.results) : Is(t)})
          all(Is(_))    == params(Is) \cup results(Is)
          unclear       == all(LAMBDA t : Misread(Peeled(t)))
      IN  report[1][p.path] =
            [embedded |-> imports(BannedImports) \cup all(LAMBDA t : Offends(t, p.path))
                            \cup (report[1][p.path].embedded \cap unclear),
             standard |-> {},
             wasip1   |-> imports(wasmBanned("wasm-wasip1")),
             js       |-> imports(wasmBanned("wasm-js"))]

\* A name of the type parameters of f that is also the name of something else in its types
\* or in the arguments, or a part of a path there: replacing one by text may hit the other.  So may a receive channel
\* for the element of a channel, as its arrow then is the other one's.
Captured(f, args) ==
  LET names    == {f.tparams[i].name : i \in DOMAIN f.tparams}
      inWord(pkg, n) == n \in names \/ \E m \in names : InPath(m, pkg)
      in(text) == \E w \in ToSet(text) : w[1] = "word" /\ inWord(w[2], w[3])
      arrow(n) == \E i \in DOMAIN args : n = f.tparams[i].name /\ Kind(args[i], 1) = "<-"
  IN  \/ \E x \in ToSet(args) : in(x)
      \/ \E n \in UNION {Nodes(t) : t \in FuncExprs(f)} :
           \/ n[1] = "basic" /\ n[2] \in names
           \/ n[1] = "named" /\ inWord(n[2], n[3])
           \/ n[1] \in {"iface", "struct"} /\ in(n[2])
           \/ n[1] = "chan" /\ n[2] = "both" /\ n[3][1] = "tparam" /\ arrow(n[3][2])

\* The instances of a package are its exported generic functions that the table names
\* with as many arguments as they have parameters; and a rendered signature is the
\* function's with the arguments for the parameters, if no name is captured.
InstancesAreTyped ==
  instances # <<>> /\ source # {} =>
    \A p \in source :
      /\ ParseSpecs(table) # Refused =>
           {[at |-> i.at, fn |-> i.fn.name] : i \in instances[1][p.path]} =
             UNION {{[at |-> i, fn |-> f.name] : f \in
                       {f \in Exported(p).funcs : /\ <<p.path, f.name>> = ParseSpecs(table)[1][i].item
                                                  /\ Len(f.tparams) = Len(ParseSpecs(table)[1][i].args)}}
                      : i \in DOMAIN table}
      /\ \A r \in rendered : r.inst \in instances[1][p.path] =>
           LET f   == CHOOSE f \in Exported(p).funcs : f.name = r.inst.fn.name
               env == [n \in {f.tparams[i].name : i \in DOMAIN f.tparams} |->
                         ParseType(r.inst.args[CHOOSE i \in DOMAIN f.tparams : f.tparams[i].name = n])]
               meant(ts) == [i \in DOMAIN ts |-> Reading(ts[i], p.path, env)]
               got(xs)   == [i \in DOMAIN xs |-> ParseType(xs[i])]
           IN  /\ ~Captured(f, r.inst.args)
               /\ \A t \in FuncExprs(f) : Readable(t, p.path)
               /\ \A x \in ToSet(r.inst.args) : ParseType(x) # Fail
               => got(r.params) = meant(f.params) /\ got(r.results) = meant(f.results)

\* One instance is rendered as one text, whenever it is rendered.
RenderDeterministic ==
  \A r, s \in rendered : r.inst = s.inst => r = s

===============================================================================

------------------------------- MODULE Monomorphise -------------------------------
(***************************************************************************)
(* Instances of generic functions (monomorphise/monomorphise.go): the      *)
(* manifest's table names generic functions and type arguments, Resolve    *)
(* finds the functions in a package of a surface document, and             *)
(* RenderInstance writes a function without type parameters for each.      *)
(*                                                                         *)
(* A fragment of the table is a sequence of lines <<key, value>>: an item  *)
(* is <<package, name>> or <<package, type, method>>, a T is a text.  The  *)
(* suffix and the order of the instances, the names of parameters and the  *)
(* body of the rendered function are left out.                             *)
(***************************************************************************)
EXTENDS Surface

\* The pieces of a text between the commas, the empty ones left out.
SplitAtCommas(text) ==
  LET cuts == {0, Len(text) + 1} \cup {i \in DOMAIN text : text[i] = Mark(",")}
      ends == SetToSortSeq({c \in cuts : c - 1 \in (1..Len(text)) \ cuts}, <)
      from(c) == CHOOSE d \in cuts : d < c /\ \A e \in cuts : e < c => e <= d
  IN  [i \in DOMAIN ends |-> SubSeq(text, from(ends[i]) + 1, ends[i] - 1)]

\* parseFragment: the last item line counts, the T lines add up.
parseFragment(lines) ==
  LET items == SelectSeq(lines, LAMBDA l : l[1] = "item")
      Ts    == SelectSeq(lines, LAMBDA l : l[1] = "T")
  IN  [item |-> IF items = <<>> THEN <<>> ELSE Last(items)[2],
       args |-> FlattenSeq([i \in DOMAIN Ts |-> SplitAtCommas(Ts[i][2])])]

\* ParseSpecs with Validate: one bad entry and there is no table.
ParseSpecs(fragments) ==
  LET specs == [i \in DOMAIN fragments |-> parseFragment(fragments[i])]
  IN  IF /\ \A i \in DOMAIN fragments : \A j \in DOMAIN fragments[i] : fragments[i][j][1] \in {"item", "T"}
         /\ \A i \in DOMAIN specs : specs[i].item # <<>> /\ specs[i].args # <<>>
      THEN <<specs>> ELSE Refused

\* The lookup table: generic functions, and all methods of generic types.
Generics(p) ==
  {[item |-> <<p.path, f.name>>, fn |-> f] : f \in {f \in p.funcs : f.tparams # <<>>}}
    \cup UNION {{[item |-> <<p.path, t.name, m.name>>, fn |-> m] : m \in t.methods}
                  : t \in {t \in p.types : t.tparams # <<>>}}

\* Resolve: the entries with a function of as many type parameters as they have arguments.
Resolve(p, specs) ==
  UNION {{[at |-> i, fn |-> g.fn, args |-> specs[i].args] :
            g \in {g \in Generics(p) : g.item = specs[i].item /\ Len(g.fn.tparams) = Len(specs[i].args)}}
           : i \in DOMAIN specs}

\* The bytes of a path that are none of an identifier.
Boundaries == {"/", "-", ".", "~", "+"}

\* The name stands between two boundaries of the path.
InPath(name, path) ==
  \E i \in 1..Len(path) - Len(name) + 1 :
    LET j == i + Len(name) IN
    /\ SubSeq(path, i, j - 1) = name
    /\ i = 1 \/ SubSeq(path, i - 1, i - 1) \in Boundaries
    /\ j > Len(path) \/ SubSeq(path, j, j) \in Boundaries

\* replaceIdentBoundary: dots and slashes are boundaries, so the name in a qualified word is
\* replaced too, and so is a part of the path.  What comes of the latter, and of a type that
\* is no single name, is not looked into.
replaceIdentBoundary(text, old, new) ==
  FlattenSeq([i \in DOMAIN text |->
    LET w == text[i] IN
    IF Kind(text, i) # "word" \/ (w[3] # old /\ ~InPath(old, w[2])) THEN <<w>>
    ELSE IF w[2] = "" THEN new
    ELSE IF ~InPath(old, w[2]) /\ Len(new) = 1 /\ new[1][1] = "word" /\ new[1][2] = ""
      THEN <<Word(w[2], new[1][3])>>
    ELSE <<<<"glued", w, old, new>>>>])

\* Faulty: only the first type parameter is replaced.
concretiseFirst(text, names, args) ==
  IF names = <<>> THEN text ELSE replaceIdentBoundary(text, names[1], args[names[1]])

\* concretiseType: one name after the other.  The names come from a map and are sorted by
\* their length alone; here all have the same, so any order of them is possible.
concretiseType(text, names, args) ==
  FoldLeft(LAMBDA acc, n : replaceIdentBoundary(acc, n, args[n]), text, names)

\* RenderInstance; ps and rs give the order for each parameter and each result.
RenderInstance(inst, ps, rs) ==
  LET tps  == inst.fn.tparams
      args == [n \in {tps[i].name : i \in DOMAIN tps} |->
                 inst.args[CHOOSE i \in DOMAIN tps : tps[i].name = n]]
  IN  [inst    |-> inst,
       params  |-> [i \in DOMAIN inst.fn.params  |-> concretiseType(inst.fn.params[i], ps[i], args)],
       results |-> [i \in DOMAIN inst.fn.results |-> concretiseType(inst.fn.results[i], rs[i], args)]]

Orders(inst) ==
  {names \in [DOMAIN inst.fn.tparams -> {inst.fn.tparams[i].name : i \in DOMAIN inst.fn.tparams}] :
     \A i, j \in DOMAIN names : names[i] = names[j] => i = j}

===============================================================================

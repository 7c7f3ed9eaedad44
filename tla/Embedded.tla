--------------------------------- MODULE Embedded ---------------------------------
(***************************************************************************)
(* The gates on a package of a surface document: the TinyGo subset         *)
(* (tinygo/tinygo.go) and publishing to wasm (vanity/vanity.go).  A gate   *)
(* works on the document's texts.  Violations are sets of <<kind, what>>,  *)
(* without the sorting and the wording.                                    *)
(***************************************************************************)
EXTENDS Surface

BannedImports == {
  "debug/buildinfo", "debug/dwarf", "debug/elf", "debug/gosym", "debug/macho", "debug/pe", "debug/plan9obj",
  "encoding/gob", "go/ast", "go/parser", "go/types", "net/http", "net/rpc", "net/smtp", "os/exec", "plugin",
  "reflect", "runtime/cgo", "runtime/debug", "runtime/pprof", "runtime/trace", "syscall/js", "text/template", "unsafe"}

wasmBanned(target) ==
  {"runtime/cgo", "debug/elf", "debug/macho", "debug/pe", "os/exec", "plugin"}
    \cup (IF target = "wasm-wasip1" THEN {"syscall/js"} ELSE {})

BannedTypePrefixes == {"reflect.", "runtime/cgo.Handle", "runtime/debug.", "unsafe.Pointer"}

\* strings.HasPrefix on a text that begins with the word w; no prefix ends at a word
\* without a path, nor beyond a word.
BannedType(w) == \E prefix \in BannedTypePrefixes : IsPrefix(prefix, w[2] \o "." \o w[3])

Rest(s, n) == SubSeq(s, n + 1, Len(s))

\* Faulty: a map is not looked into.
RECURSIVE stripWrappersNoMap(_)
stripWrappersNoMap(s) ==
  CASE Kind(s, 1) \in {"*", "..."}                -> stripWrappersNoMap(Rest(s, 1))
    [] Kind(s, 1) = "[" /\ \E i \in DOMAIN s : s[i] = Mark("]")
                                                  -> stripWrappersNoMap(Rest(s, SelectInSeq(s, LAMBDA x : x = Mark("]"))))
    [] OTHER                                      -> s

\* stripWrappers: marks before the type are cut off, a bracket up to the first closing one.
RECURSIVE stripWrappers(_)
stripWrappers(s) ==
  LET close == SelectInSeq(s, LAMBDA x : x = Mark("]"))
  IN  CASE Kind(s, 1) \in {"*", "..."} -> stripWrappers(Rest(s, 1))
        [] close # 0 /\ (Kind(s, 1) = "[" \/ (Kind(s, 1) = "map" /\ Kind(s, 2) = "["))
                                       -> stripWrappers(Rest(s, close))
        [] OTHER                       -> s

bannedTypeReason(s) ==
  LET bare == stripWrappers(s) IN Kind(bare, 1) = "word" /\ BannedType(bare[1])

\* A function is <<receiver, name>>; the receiver of an interface's method is the interface.
Signatures(p) ==
  {[where |-> <<"", f.name>>, fn |-> f] : f \in p.funcs}
    \cup UNION {{[where |-> <<t.name, f.name>>, fn |-> f] : f \in t.methods \cup t.imethods} : t \in p.types}

checkFunc(sig) ==
  (IF \E i \in DOMAIN sig.fn.params : bannedTypeReason(sig.fn.params[i])
     THEN {<<"param-type", sig.where>>} ELSE {})
  \cup (IF \E i \in DOMAIN sig.fn.results : bannedTypeReason(sig.fn.results[i])
     THEN {<<"result-type", sig.where>>} ELSE {})

CheckPackage(profile, p) ==
  IF profile # "embedded" THEN {}
  ELSE {<<"import", imp>> : imp \in p.imports \cap BannedImports}
         \cup UNION {checkFunc(sig) : sig \in Signatures(p)}

CheckPublish(target, p) == {<<"import", imp>> : imp \in p.imports \cap wasmBanned(target)}

===============================================================================

--------------------------------- MODULE Versions ---------------------------------
(***************************************************************************)
(* Getting versions of modules over the module proxy protocol: the client  *)
(* (moduleproxy/client.go) lists what a proxy has and fetches an artifact, *)
(* the names it asks and stores by are escaped (moduleproxy/escape.go,     *)
(* moduleproxy/cache.go), and Semver orders what was listed.               *)
(*                                                                         *)
(* One artifact per version stands for the four.  The file system may be   *)
(* one that ignores case, for which the escaping is there.                 *)
(***************************************************************************)
EXTENDS Semver

CONSTANTS
  Lists,      \* what a proxy may list: lines, the blank ones left out
  Requests    \* sets of requests [module, version] to fetch

\* Lines and names are texts.
ASSUME InputsAssumption ==
  /\ Lists \subseteq Seq(Text)
  /\ \A q \in Requests : q \subseteq [module : Text, version : Text]

VARIABLES
  published,  \* <<l>>: what the proxy lists; never written
  held,       \* <<s>>: the versions List returned, as the caller has them now
  best,       \* <<v>>: what Max answered
  todo,       \* the requests that were not made yet
  fetched,    \* the requests whose artifact was stored
  cache       \* the artifacts on disk: records of path and body

clientVars == <<published, held, best, todo, fetched, cache>>

-------------------------------------------------------------------------------
(* Names *)

Bang == 33

\* The loop of EscapePath and EscapeVersion.
Escaped(text) ==
  FlattenSeq([i \in DOMAIN text |-> IF text[i] \in Upper THEN <<Bang, text[i] + 32>> ELSE <<text[i]>>])

EscapePath(path) == IF path = <<>> THEN <<>> ELSE <<Escaped(path)>>

\* Faulty: the upper-case letters are lowered, unmarked.
EscapeVersionLowered(version) ==
  <<[i \in DOMAIN version |-> IF version[i] \in Upper THEN version[i] + 32 ELSE version[i]]>>

\* No slash, backslash, colon or control character.
EscapeVersion(version) ==
  IF version = <<>> \/ ToSet(version) \cap ({47, 92, 58, 127} \cup 0..31) # {} THEN <<>>
  ELSE <<Escaped(version)>>

\* UnescapePath: a mark and the letter after it, which has to be there, are one byte.
\* Two marks in a row are refused, so a mark never follows a mark.
UnescapePath(path) ==
  LET marks == {i \in DOMAIN path : path[i] = Bang}
      byte(i) == CASE i \in marks     -> <<>>
                   [] i - 1 \in marks -> <<path[i] - 32>>
                   [] OTHER           -> <<path[i]>>
  IN  IF path = <<>> \/ \E i \in marks : i = Len(path) \/ path[i + 1] \notin Lower THEN <<>>
      ELSE <<FlattenSeq([i \in DOMAIN path |-> byte(i)])>>

\* artifactPath on a file system that ignores case.
Folded(text) == [i \in DOMAIN text |-> IF text[i] \in Upper THEN text[i] + 32 ELSE text[i]]
artifactPath(r) == <<Folded(EscapePath(r.module)[1]), Folded(EscapeVersion(r.version)[1])>>

-------------------------------------------------------------------------------
ClientInit ==
  /\ \/ (\E l \in Lists : published = <<l>>) /\ todo = {}
     \/ published = <<>> /\ todo \in Requests
  /\ held = <<>> /\ best = <<>> /\ fetched = {} /\ cache = {}

\* List: the lines sorted as text.
List ==
  /\ published # <<>> /\ held = <<>>
  /\ \E s \in Rearranged(published[1]) :
       /\ \A i, j \in DOMAIN s : i < j => ~TextLess(s[j], s[i])
       /\ held' = <<s>>
  /\ UNCHANGED <<published, best, todo, fetched, cache>>

Sort ==
  /\ held # <<>>
  /\ \E s \in Sorted(held[1]) : held' = <<s>>
  /\ UNCHANGED <<published, best, todo, fetched, cache>>

TakeMax ==
  /\ held # <<>>
  /\ best' = <<MaxOf(held[1])>>
  /\ UNCHANGED <<published, held, todo, fetched, cache>>

\* The proxy takes the names out of the URL, and serves the version they name.
Served(url) ==
  LET m == UnescapePath(url[1])  v == UnescapePath(url[2]) IN
  IF m = <<>> \/ v = <<>> THEN {} ELSE {[module |-> m[1], version |-> v[1]]}

\* Info, Mod or Zip, and the Store of what it returned.
Fetch(r) ==
  /\ r \in todo
  /\ EscapePath(r.module) # <<>> /\ EscapeVersion(r.version) # <<>>
  /\ \E body \in Served(<<EscapePath(r.module)[1], EscapeVersion(r.version)[1]>>) :
       cache' = {f \in cache : f.path # artifactPath(r)} \cup {[path |-> artifactPath(r), body |-> body]}
  /\ todo' = todo \ {r} /\ fetched' = fetched \cup {r}
  /\ UNCHANGED <<published, held, best>>

\* A name is refused, the proxy answers with another status, or the transport fails.
FetchFails(r) ==
  /\ r \in todo
  /\ todo' = todo \ {r}
  /\ UNCHANGED <<published, held, best, fetched, cache>>

ClientNext ==
  \/ List \/ Sort \/ TakeMax
  \/ \E r \in todo : Fetch(r) \/ FetchFails(r)

ClientSpec == ClientInit /\ [][ClientNext]_clientVars

-------------------------------------------------------------------------------
(* The reference: precedence as the order of keys.  A release has a key above  *)
(* those of its pre-releases; numbers have no largest.                         *)

Value(digits) ==
  LET value[n \in 0..Len(digits)] == IF n = 0 THEN 0 ELSE 10 * value[n - 1] + digits[n] - 48
  IN  value[Len(digits)]
Overflows(id) == isAllDigits(id) /\ Value(id) > MaxInt

\* A position of a key: an end, a number, a text, or the mark of a release.
Key(v) ==
  <<<<1, <<v.major>>>>, <<1, <<v.minor>>>>, <<1, <<v.patch>>>>>>
    \o (IF v.pre = <<>> THEN <<<<3, <<>>>>>>
        ELSE [i \in DOMAIN v.pre |-> IF isAllDigits(v.pre[i]) THEN <<1, <<Value(v.pre[i])>>>>
                                     ELSE <<2, v.pre[i]>>]
               \o <<<<0, <<>>>>>>)

KeyLess(a, b) ==
  \E k \in DOMAIN a \cap DOMAIN b :
    /\ SubSeq(a, 1, k - 1) = SubSeq(b, 1, k - 1)
    /\ a[k][1] < b[k][1] \/ (a[k][1] = b[k][1] /\ TextLess(a[k][2], b[k][2]))

Precedes(a, b) ==
  LET v == Parse(a)  w == Parse(b) IN
  CASE v # <<>> /\ w # <<>> -> KeyLess(Key(v[1]), Key(w[1]))
    [] v = <<>> /\ w = <<>> -> TextLess(a, b)
    [] OTHER                -> w = <<>>

Fits(text) == \A v \in ToSet(Parse(text)) : \A i \in DOMAIN v.pre : ~Overflows(v.pre[i])

-------------------------------------------------------------------------------
(* Properties *)

Count(texts, v)  == Cardinality({i \in DOMAIN texts : texts[i] = v})
SameTexts(s, t) == ToSet(s) = ToSet(t) /\ \A v \in ToSet(t) : Count(s, v) = Count(t, v)

\* What the caller holds is what the proxy listed, each text as often, and Max picks one
\* of it if there is any.
ClientTypeOK ==
  /\ held # <<>> => SameTexts(held[1], published[1])
  /\ best # <<>> => held # <<>> /\ best[1] \in IF held[1] = <<>> THEN {<<>>} ELSE ToSet(published[1])
  /\ todo \cap fetched = {} /\ Cardinality(cache) <= Cardinality(fetched)

\* Max picks a version that none of the listed ones precedes, however the list is
\* ordered; and Sort can put each of those it may pick last.  Numbers beyond int in a
\* pre-release, which are compared as text, are excepted; the order is still one order.
MaxIsHighest ==
  best # <<>> =>
    /\ \A v \in ToSet(published[1]) : Fits(v) /\ Fits(best[1]) => ~Precedes(best[1], v)
    /\ \A v \in ToSet(published[1]) : CompareStrings(v, best[1]) <= 0
    /\ held[1] # <<>> => \E s \in Sorted(held[1]) : Last(s) = best[1]

\* Each fetched artifact is found by the module and version it was asked for, and is
\* the artifact of these; no other request, whatever its case, has overwritten it.  A
\* name with the escaping's own mark is read as another.
CacheIsRight ==
  \A r \in fetched :
    Bang \notin ToSet(r.module) \cup ToSet(r.version) =>
      [path |-> artifactPath(r), body |-> r] \in cache

===============================================================================

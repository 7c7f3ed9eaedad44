-------------------------------- MODULE Lockfile --------------------------------
(***************************************************************************)
(* The lockfile package (lockfile/lockfile.go): Encode renders packages as *)
(* [[go-package]] blocks of mochi.lock, Decode reads them back, CheckDrift *)
(* compares what was read with the live state.                             *)
(*                                                                         *)
(* A document is its sequence of lines, a line a key and the value after   *)
(* '='.  Of the strings, all but a source's path are of an alphabet %q     *)
(* leaves alone.  zip stands for zip-blake3 and zip-h1, sumdb for its      *)
(* three keys, deps also for build-tags.  Around the package, people and   *)
(* the rest of the toolchain edit the live state and the document.         *)
(***************************************************************************)
EXTENDS Integers, Sequences, SequencesExt, FiniteSets

CONSTANTS
  Modules, Versions,  \* numbered in the order of their strings
  Digests,            \* the values of a hash, "" when there is none
  CapLists,           \* the capability lists a manifest declares
  NewPackages,        \* the packages that can be imported, or merged in
  MaxEdits            \* bound: edits in a behaviour

\* GoPackage.  A source is a path or URL, and how often it was escaped.
Package ==
  [module : Modules, version : Versions, source : STRING \X Nat, zip : Digests, sumdb : Digests,
   api : Digests, wrapper : Digests, caps : CapLists, deps : Seq(STRING)]

ASSUME ValuesAssumption ==
  /\ Modules \subseteq Nat \ {0} /\ Versions \subseteq Nat \ {0}
  /\ "" \in Digests /\ CapLists \subseteq Seq(STRING)
  /\ NewPackages \subseteq Package /\ MaxEdits \in Nat

VARIABLES
  live,     \* the packages the project resolves to now, in import order
  doc,      \* the lines of mochi.lock
  edits     \* edits so far

vars == <<live, doc, edits>>

-------------------------------------------------------------------------------
(* Encode *)

\* &GoPackage{}
Zero == [module |-> 0, version |-> 0, source |-> <<"", 0>>, zip |-> "", sumdb |-> "",
         api |-> "", wrapper |-> "", caps |-> <<>>, deps |-> <<>>]

Keys   == <<"module", "version", "source", "zip", "sumdb", "api", "wrapper", "caps", "deps">>
Always == {"module", "version", "source", "sumdb"}
Hashes == {"zip", "sumdb", "api", "wrapper"}

Header == [k |-> "[[go-package]]", v |-> ""]

\* %q: a path that holds a quote or a backslash is escaped (once more).
Quoted(src) == IF src[2] = 0 THEN src ELSE <<src[1], src[2] + 1>>

\* One field: an optional one that is empty has no line.
LinesOf(p, k) ==
  IF k \notin Always /\ p[k] = Zero[k] THEN <<>>
  ELSE <<[k |-> k, v |-> IF k = "source" THEN Quoted(p[k]) ELSE p[k]]>>

writeEntry(p) == <<Header>> \o FlattenSeq([i \in DOMAIN Keys |-> LinesOf(p, Keys[i])])

Before(p, q) == p.module < q.module \/ (p.module = q.module /\ p.version < q.version)

\* sort.Slice: an arrangement in which none comes after one it is before.
Sorted(ps) ==
  CHOOSE qs \in {[i \in DOMAIN ps |-> ps[f[i]]] : f \in Bijection(DOMAIN ps, DOMAIN ps)} :
    \A i, j \in DOMAIN ps : i < j => ~Before(qs[j], qs[i])

Encode(ps) == LET qs == Sorted(ps) IN FlattenSeq([i \in DOMAIN qs |-> writeEntry(qs[i])])

-------------------------------------------------------------------------------
(* Decode *)

\* Comments and empty lines; a line without '=', such as another table's header;
\* a known key with a value that does not parse.
Skipped   == "#"
NoEq      == "[[rust-package]]"
Malformed == "zip = a"

\* Faulty: the case of one key is missing.
setFieldForgets(p, line) ==
  IF line.k \in DOMAIN p \ {"deps"} THEN [p EXCEPT ![line.k] = line.v] ELSE p

\* A key that is not known is dropped.  Quotes are cut off, escapes stay.
setField(p, line) == IF line.k \in DOMAIN p THEN [p EXCEPT ![line.k] = line.v] ELSE p

\* flush: the block that is open, if one is, is finished.
Flush(d) == [out |-> d.out \o d.cur, cur |-> <<>>, err |-> d.err]

DecodeLine(d, line) ==
  CASE line.k = Skipped \/ d.err       -> d
    [] line.k = Header.k /\ ~d.err     -> [Flush(d) EXCEPT !.cur = <<Zero>>]
    [] OTHER                           ->
         IF d.cur = <<>> THEN d
         ELSE IF line.k \in {NoEq, Malformed} THEN [d EXCEPT !.err = TRUE]
         ELSE [d EXCEPT !.cur = <<setField(d.cur[1], line)>>]

ReadLines(lines) ==
  LET read[n \in 0..Len(lines)] ==
        IF n = 0 THEN [out |-> <<>>, cur |-> <<>>, err |-> FALSE]
        ELSE DecodeLine(read[n - 1], lines[n])
  IN  read[Len(lines)]

\* Faulty: the last block is not flushed.
DecodeUnflushed(lines) == ReadLines(lines)

\* decodeBytes: the packages, or an error.
Decode(lines) == Flush(ReadLines(lines))

-------------------------------------------------------------------------------
(* CheckDrift *)

\* Faulty: lists are compared as sets.
equalStringSetLax(a, b) == ToSet(a) = ToSet(b)

\* Equal up to order; as often in one as in the other.
Count(a, s)          == Cardinality({i \in DOMAIN a : a[i] = s})
equalStringSet(a, b) == Len(a) = Len(b) /\ \A s \in ToSet(a) \cup ToSet(b) : Count(a, s) = Count(b, s)

\* The field-level drifts of two entries of one module and version.
compareSame(lp, p) ==
  {k \in Hashes : lp[k] # p[k]} \cup (IF equalStringSet(lp.caps, p.caps) THEN {} ELSE {"caps"})

Names(ps) == {ps[i].module : i \in DOMAIN ps}

\* lockedByMod and liveByMod: the last entry of a module.
ByMod(ps, m) ==
  ps[CHOOSE i \in DOMAIN ps :
       ps[i].module = m /\ \A j \in DOMAIN ps : ps[j].module = m => j <= i]

Drift(p, kind) == [module |-> p.module, version |-> p.version, kind |-> kind]

\* Faulty: entries of different versions are compared as if they were of one.
LiveDriftsNoVersion(locked, p) ==
  IF p.module \notin Names(locked) THEN {Drift(p, "missing")}
  ELSE {Drift(p, k) : k \in compareSame(ByMod(locked, p.module), p)}

\* One live package: not locked, locked at another version, or compared.
LiveDrifts(locked, p) ==
  LET lp == ByMod(locked, p.module) IN
    IF p.module \notin Names(locked) THEN {Drift(p, "missing")}
    ELSE IF lp.version # p.version THEN {Drift(p, "version")}
    ELSE {Drift(p, k) : k \in compareSame(lp, p)}

StaleDrifts(locked, ps) ==
  {Drift(locked[i], "stale") : i \in {i \in DOMAIN locked : locked[i].module \notin Names(ps)}}

CheckDrift(locked, ps) ==
  (UNION {LiveDrifts(locked, ps[i]) : i \in DOMAIN ps}) \cup StaleDrifts(locked, ps)

-------------------------------------------------------------------------------
(* Around the package *)

\* What else mochi.lock holds before the go packages: also keys of theirs.
Preamble == <<[k |-> NoEq, v |-> ""], [k |-> "version", v |-> 1]>>

Init == live = <<>> /\ doc = Preamble /\ edits = 0

Edit     == edits < MaxEdits /\ edits' = edits + 1
EditLive == Edit /\ UNCHANGED doc
EditDoc  == Edit /\ UNCHANGED live

\* An import go line comes or goes; a module has one version in the live state.
Import(p) == EditLive /\ p.module \notin Names(live) /\ live' = Append(live, p)
Drop(i)   == EditLive /\ live' = RemoveAt(live, i)

\* A module resolves to another version, or something about it to another value.
Upgrade(i, v)    == EditLive /\ live' = [live EXCEPT ![i].version = v]
Refresh(i, k, d) == EditLive /\ live[i][k] # d /\ live' = [live EXCEPT ![i][k] = d]
Redeclare(i, c)  == EditLive /\ live' = [live EXCEPT ![i].caps = c]

\* mochi pkg lock
Lock == doc' = Preamble \o Encode(live) /\ UNCHANGED <<live, edits>>

\* A merge keeps both sides' entries; a hand edits the last entry; the document
\* goes on with a table of somebody else.
Merge(p)    == EditDoc /\ doc' = doc \o writeEntry(p)
Repin(v)    == EditDoc /\ doc' = Append(doc, [k |-> "version", v |-> v])
Comment     == EditDoc /\ doc' = Append(doc, [k |-> Skipped, v |-> ""])
Unknown     == EditDoc /\ doc' = Append(doc, [k |-> "since", v |-> ""])
OtherTable  == EditDoc /\ doc' = Append(doc, [k |-> NoEq, v |-> ""])
Garble      == EditDoc /\ doc' = Append(doc, [k |-> Malformed, v |-> ""])

Next ==
  \/ \E p \in NewPackages : Import(p) \/ Merge(p)
  \/ \E i \in DOMAIN live :
       \/ Drop(i)
       \/ \E v \in Versions : Upgrade(i, v)
       \/ \E k \in Hashes, d \in Digests : Refresh(i, k, d)
       \/ \E c \in CapLists : Redeclare(i, c)
  \/ Lock
  \/ \E v \in Versions : Repin(v)
  \/ Comment \/ Unknown \/ OtherTable \/ Garble

Spec == Init /\ [][Next]_vars

-------------------------------------------------------------------------------
(* Properties *)

\* The live state, what the document holds and a report have the shapes of the
\* package's types, and one drift is of one live or locked module.
TypeOK ==
  LET read == Decode(doc) IN
    /\ edits \in 0..MaxEdits /\ live \in Seq(Package)
    /\ read.cur = <<>> /\ read.out \in Seq(Package)
    /\ \A d \in CheckDrift(read.out, live) : d.module \in Names(live) \cup Names(read.out)

\* Nothing CheckDrift looks at differs between two entries of a module; capability
\* lists are bags of names.
SameState(p, q) ==
  /\ p.module = q.module /\ p.version = q.version
  /\ \A k \in Hashes : p[k] = q[k]
  /\ LET BagOf(s) == [x \in ToSet(s) |-> Count(s, x)] IN BagOf(p.caps) = BagOf(q.caps)

\* A check that reports nothing vouches for the lock: every live package is locked
\* as it is and no other module is locked, also when merges left several entries
\* of a module in the file.  With one entry for each module it is also the other
\* way round: a lock that records the live state is never reported.
CleanIffLocked ==
  LET read   == Decode(doc)
      locked == read.out
      report == CheckDrift(locked, live)
      covers == /\ \A i \in DOMAIN live : \E j \in DOMAIN locked : SameState(live[i], locked[j])
                /\ Names(locked) \subseteq Names(live)
      single == Cardinality(Names(locked)) = Len(locked)
  IN  ~read.err => /\ report = {} => covers
                   /\ single /\ covers => report = {}

\* Decode reads back what Encode wrote, in order, after whatever the document holds
\* before it: all fields, the empty ones left out included, but for a source's
\* escapes, which Decode does not undo.  And whatever locks, merges and hands have made
\* of the document, a block behind it is read as its package and leaves those before it
\* as they are, and so does a comment or a key nobody knows, inside a block or not.
RoundTrip ==
  LET back == Decode(Preamble \o Encode(live))
      now  == Decode(doc)
      Reads(lines, ps) == LET read == Decode(doc \o lines) IN ~read.err /\ read.out = ps
      Read(p)          == [p EXCEPT !.source = Quoted(@)]
  IN  /\ ~back.err /\ Len(back.out) = Len(live)
      /\ \A i \in DOMAIN live : \E j \in DOMAIN back.out : Read(live[i]) = back.out[j]
      /\ \A i, j \in DOMAIN back.out : i < j => back.out[i].module < back.out[j].module
      /\ ~now.err =>
           /\ \A p \in NewPackages : Reads(writeEntry(p), Append(now.out, Read(p)))
           /\ \A k \in {Skipped, "since"} : Reads(<<[k |-> k, v |-> ""]>>, now.out)

===============================================================================

------------------------------ MODULE ModuleCache ------------------------------
(***************************************************************************)
(* moduleproxy.CacheLayout (moduleproxy/cache.go): processes store, look   *)
(* up and verify the four artifacts of one module version in a directory   *)
(* they share.                                                             *)
(*                                                                         *)
(* WriteFile writes a temporary file and renames it over the artifact, so  *)
(* one artifact changes in one step; StoreZip, Has and VerifyZip touch     *)
(* several artifacts, one after the other.  A body stands for its h1:      *)
(* digest, which is its own in the .ziphash file.                          *)
(***************************************************************************)
EXTENDS Naturals, Sequences, FiniteSets

CONSTANTS
  Procs,          \* the processes that share the cache
  Zips,           \* the zip bodies offered to be stored
  Texts,          \* the .info and .mod bodies offered to be stored
  BadZips,        \* the zips whose entries lack the module@version prefix
  Missing

ASSUME BodiesAssumption == BadZips \subseteq Zips /\ Missing \notin Zips \cup Texts

VARIABLES
  file,       \* file[a]: the artifact a on disk
  pc,         \* each process's step
  art, body,  \* WriteFile's dst and data
  tmp,        \* the calls whose temporary file is on disk; what a killed process
              \* leaves there nobody looks at again
  nth, seen,  \* Has: the artifacts to stat; VerifyZip: the zip it read
  out,        \* the answer of the call that returned in the last step
  offered,    \* history: offered[a], the bodies StoreX was called with
  alone,      \* history: the StoreZips under way that overlapped no other
  torn,       \* history: StoreZips overlapped, or one stopped between its files,
              \* and no StoreZip ran alone since
  removed     \* history: some artifact was removed

callVars == <<pc, art, body, nth, seen>>
history  == <<offered, alone, torn, removed>>
vars     == <<file, callVars, tmp, out, history>>

-------------------------------------------------------------------------------
(* Helpers *)

Artifacts == {"info", "mod", "zip", "ziphash"}
Bodies    == Zips \cup Texts
HasOrder  == <<"info", "mod", "zip", "ziphash">>

Go(p, step)    == pc' = [pc EXCEPT ![p] = step]
Return(p, ans) ==
  /\ Go(p, "idle") /\ out' = ans
  /\ art' = [art EXCEPT ![p] = "info"] /\ body' = [body EXCEPT ![p] = Missing]
  /\ nth' = [nth EXCEPT ![p] = 1] /\ seen' = [seen EXCEPT ![p] = Missing]
Writing == {"create", "write", "rename"}
StoringZip(p) == pc[p] = "hash" \/ (pc[p] \in Writing /\ art[p] \in {"zip", "ziphash"})
BetweenFiles(p) == pc[p] \in Writing /\ art[p] = "ziphash"

-------------------------------------------------------------------------------
Init ==
  /\ file = [a \in Artifacts |-> Missing]
  /\ pc   = [p \in Procs |-> "idle"] /\ art = [p \in Procs |-> "info"]
  /\ body = [p \in Procs |-> Missing]
  /\ nth  = [p \in Procs |-> 1] /\ seen = [p \in Procs |-> Missing]
  /\ tmp  = {} /\ out = "none"
  /\ offered = [a \in Artifacts |-> {}] /\ alone = {} /\ torn = FALSE /\ removed = FALSE

\* StoreInfo and StoreMod write what they are given.
StoreInfoOrMod(p, a, b) ==
  /\ pc[p] = "idle"
  /\ Go(p, "create")
  /\ art' = [art EXCEPT ![p] = a] /\ body' = [body EXCEPT ![p] = b]
  /\ offered' = [offered EXCEPT ![a] = @ \cup {b}]
  /\ out' = "none"
  /\ UNCHANGED <<file, nth, seen, tmp, alone, torn, removed>>

StoreZip(p, b) ==
  /\ pc[p] = "idle"
  /\ Go(p, "hash")
  /\ art' = [art EXCEPT ![p] = "zip"] /\ body' = [body EXCEPT ![p] = b]
  /\ LET overlaps == \E q \in Procs : StoringZip(q) IN
       /\ torn'  = (torn \/ overlaps)
       /\ alone' = IF overlaps THEN {} ELSE {p}
  /\ out' = "none"
  /\ UNCHANGED <<file, nth, seen, tmp, offered, removed>>

\* Faulty: a body that fails the check is persisted all the same.
HashUnchecked(p) ==
  /\ pc[p] = "hash"
  /\ Go(p, "create") /\ out' = "none"
  /\ UNCHANGED <<file, art, body, nth, seen, tmp, history>>

\* HashZip: a body with a foreign entry is an error and is not persisted.
Hash(p) ==
  /\ pc[p] = "hash"
  /\ IF body[p] \in BadZips
       THEN Return(p, "error") /\ UNCHANGED offered
       ELSE /\ Go(p, "create") /\ out' = "none"
            /\ offered' = [offered EXCEPT !["zip"] = @ \cup {body[p]},
                                          !["ziphash"] = @ \cup {body[p]}]
            /\ UNCHANGED <<art, body, nth, seen>>
  /\ UNCHANGED <<file, tmp, alone, torn, removed>>

-------------------------------------------------------------------------------
(* WriteFile *)

\* os.CreateTemp in the artifact's directory.
Create(p) ==
  /\ pc[p] = "create"
  /\ Go(p, "write") /\ tmp' = tmp \cup {p} /\ out' = "none"
  /\ UNCHANGED <<file, art, body, nth, seen, history>>

\* Faulty: the artifact itself is opened, truncated and written.
WriteInPlace(p) ==
  /\ pc[p] = "write"
  /\ Go(p, "rename") /\ out' = "none"
  /\ file' = [file EXCEPT ![art[p]] = "prefix"]
  /\ UNCHANGED <<art, body, tmp, nth, seen, history>>

\* Write, Chmod, Close: the body is whole in the temporary file.
Write(p) ==
  /\ pc[p] = "write"
  /\ Go(p, "rename") /\ out' = "none"
  /\ UNCHANGED <<file, art, body, tmp, nth, seen, history>>

\* The call went on: StoreZip writes the .ziphash after the .zip.
Wrote(p) ==
  IF art[p] = "zip"
    THEN /\ Go(p, "create") /\ art' = [art EXCEPT ![p] = "ziphash"] /\ out' = "none"
         /\ UNCHANGED <<body, nth, seen>>
    ELSE Return(p, "stored")

\* Faulty: an artifact that exists is left as it is.
RenameIfAbsent(p) ==
  /\ pc[p] = "rename"
  /\ file' = [file EXCEPT ![art[p]] =
                 IF art[p] = "ziphash" /\ @ # Missing THEN @ ELSE body[p]]
  /\ tmp' = tmp \ {p}
  /\ Wrote(p)
  /\ torn' = (torn /\ ~(art[p] = "ziphash" /\ p \in alone))
  /\ UNCHANGED <<offered, alone, removed>>

\* os.Rename replaces the artifact in one step.
Rename(p) ==
  /\ pc[p] = "rename"
  /\ file' = [file EXCEPT ![art[p]] = body[p]]
  /\ tmp' = tmp \ {p}
  /\ Wrote(p)
  /\ torn' = (torn /\ ~(art[p] = "ziphash" /\ p \in alone))
  /\ UNCHANGED <<offered, alone, removed>>

\* Faulty: StoreZip ignores the error of writing the zip.
WriteFailsIgnored(p) ==
  /\ pc[p] \in Writing
  /\ tmp' = tmp \ {p}
  /\ Wrote(p)
  /\ UNCHANGED <<file, history>>

\* Any step of WriteFile fails: the temporary file is removed, the error returned.
WriteFails(p) ==
  /\ pc[p] \in Writing
  /\ tmp' = tmp \ {p}
  /\ torn' = (torn \/ BetweenFiles(p))
  /\ Return(p, "error")
  /\ UNCHANGED <<file, offered, alone, removed>>

\* The process is killed, and its temporary file is litter.
Crash(p) ==
  /\ pc[p] # "idle"
  /\ tmp' = tmp \ {p}
  /\ torn' = (torn \/ BetweenFiles(p))
  /\ Return(p, "none")
  /\ UNCHANGED <<file, offered, alone, removed>>

-------------------------------------------------------------------------------
(* Has and VerifyZip *)

Ask(p, step) ==
  /\ pc[p] = "idle"
  /\ Go(p, step) /\ out' = "none"
  /\ UNCHANGED <<file, art, body, nth, seen, tmp, history>>
CallHas(p)    == Ask(p, "stat")
CallVerify(p) == Ask(p, "readZip")

\* One os.Stat of Has.
Stat(p) ==
  /\ pc[p] = "stat"
  /\ IF file[HasOrder[nth[p]]] = Missing THEN Return(p, "no")
     ELSE IF nth[p] = Len(HasOrder) THEN Return(p, "has")
     ELSE /\ nth' = [nth EXCEPT ![p] = @ + 1] /\ out' = "none"
          /\ UNCHANGED <<pc, art, body, seen>>
  /\ UNCHANGED <<file, tmp, history>>

ReadZip(p) ==
  /\ pc[p] = "readZip"
  /\ IF file["zip"] = Missing
       THEN Return(p, "corrupt: no zip")
       ELSE /\ Go(p, "readHash") /\ seen' = [seen EXCEPT ![p] = file["zip"]] /\ out' = "none"
            /\ UNCHANGED <<art, body, nth>>
  /\ UNCHANGED <<file, tmp, history>>

\* The sidecar is read and the zip's bytes are hashed and compared with it.
ReadHash(p) ==
  /\ pc[p] = "readHash"
  /\ Return(p, IF file["ziphash"] = Missing THEN "corrupt: no ziphash"
               ELSE IF seen[p] \in BadZips THEN "corrupt: rehash"
               ELSE IF seen[p] # file["ziphash"] THEN "corrupt: mismatch"
               ELSE "verified")
  /\ UNCHANGED <<file, tmp, history>>

\* A caller that was told of corruption deletes an artifact, to refetch it.
Discard(a) ==
  /\ file[a] # Missing
  /\ file' = [file EXCEPT ![a] = Missing]
  /\ removed' = TRUE /\ out' = "none"
  /\ UNCHANGED <<callVars, tmp, offered, alone, torn>>

-------------------------------------------------------------------------------
Step(p) ==
  \/ \E b \in Zips : StoreZip(p, b)
  \/ \E b \in Texts, a \in {"info", "mod"} : StoreInfoOrMod(p, a, b)
  \/ Hash(p)
  \/ Create(p) \/ Write(p) \/ Rename(p) \/ WriteFails(p) \/ Crash(p)
  \/ CallHas(p) \/ Stat(p)
  \/ CallVerify(p) \/ ReadZip(p) \/ ReadHash(p)

Next == (\E p \in Procs : Step(p)) \/ (\E a \in Artifacts : Discard(a))

Spec == Init /\ [][Next]_vars

-------------------------------------------------------------------------------
(* Properties *)

\* An artifact is missing or a whole body, every call under way has its own
\* destination, data and position, and only a call between CreateTemp and Rename has
\* a temporary file on disk, however it failed.
TypeOK ==
  /\ file \in [Artifacts -> Bodies \cup {Missing}]
  /\ pc \in [Procs -> Writing \cup {"idle", "hash", "stat", "readZip", "readHash"}]
  /\ art \in [Procs -> Artifacts] /\ body \in [Procs -> Bodies \cup {Missing}]
  /\ tmp = {p \in Procs : pc[p] \in {"write", "rename"}}
  /\ nth \in [Procs -> 1..Len(HasOrder)] /\ seen \in [Procs -> Bodies \cup {Missing}]
  /\ offered \in [Artifacts -> SUBSET Bodies]
  /\ alone \subseteq Procs /\ torn \in BOOLEAN /\ removed \in BOOLEAN

\* The zip is on disk before the record of its digest: as long as one body was
\* stored and nothing removed, a .ziphash vouches for the .zip beside it, after
\* any crash, failure and overlap.
DigestAfterZip ==
  Cardinality(offered["zip"]) <= 1 /\ ~removed /\ file["ziphash"] # Missing =>
    file["zip"] = file["ziphash"]

\* StoreZip replaces the pair, and heals it: while no StoreZip is under way, .zip
\* and .ziphash agree, however many bodies were stored, unless StoreZips overlapped
\* or one was cut off between its files and none ran on its own to its end since.
SettledPairAgrees ==
  ~torn /\ (\A p \in Procs : ~StoringZip(p)) =>
    \/ Missing \in {file["zip"], file["ziphash"]}
    \/ file["zip"] = file["ziphash"]

\* Each artifact is an atomic register of whole bodies that passed the check on
\* store: what the comment on CacheLayout promises concurrent processes.
Register == INSTANCE ModuleCacheSpec
ImplementsRegister == Register!RegisterSpec

===============================================================================

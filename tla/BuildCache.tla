------------------------------ MODULE BuildCache ------------------------------
(***************************************************************************)
(* build.Driver.Build (build/build.go, build/driver.go): drivers of        *)
(* several processes compile wrapper modules into archives and share one   *)
(* content-addressed cache directory.                                      *)
(*                                                                         *)
(* A lookup finds an entry by its manifest and copies the archives and     *)
(* headers into the driver's work directory; a miss compiles them there    *)
(* and copies them into the entry, file by file, the manifest last.  No    *)
(* lock guards the entry, and copyFile truncates its destination and then  *)
(* writes it, so drivers that populate one entry together, or crash in it, *)
(* leave what the outcomes of Finish below say.                            *)
(***************************************************************************)
EXTENDS Integers, Sequences, SequencesExt, FiniteSets

CONSTANTS
  Drivers,        \* one Driver per process
  Modules,        \* the wrappers of a plan, in the plan's order ...
  ByName,         \* ... and in the order of their names
  Sources,        \* what computeCacheKey digests: sources, go.work, target, cgo
  Envs,           \* what it does not: ExtraEnv
  Missing, Partial, Mixed,  \* no file; a prefix of one; bytes of several
  Crashed         \* a driver that stopped in the middle of a file

ASSUME ModulesAssumption ==
  /\ Modules \in Seq(STRING) /\ Modules # <<>>
  /\ ByName \in Seq(STRING) /\ Len(ByName) = Len(Modules) /\ ToSet(ByName) = ToSet(Modules)

Plans == [src : Sources, env : Envs]

ASSUME CrashedAssumption == Crashed \notin Plans

VARIABLES
  manifest,   \* the keys whose entry has a manifest.txt
  cache,      \* cache[k][f]: the content of file f of the entry of key k
  writers,    \* writers[k][f]: the drivers that truncated f and still write it
  blend,      \* blend[k][f]: whose bytes the present writers of f may mix
  pc, at,     \* each driver's step, and the position of the file it is at
  plan, mode, \* the plan, and whether NoCache or SkipBuild is set
  work,       \* work[d][f]: file f of d's work directory, as Build will return it
  result,     \* how d's last Build returned
  clash       \* history: keys populated by two drivers at once or over an older
              \* entry, or whose manifest was removed

entryVars == <<manifest, cache, writers, blend, clash>>
callVars  == <<plan, mode>>
vars      == <<entryVars, callVars, pc, at, work, result>>

-------------------------------------------------------------------------------
(* Helpers *)

Key(d) == plan[d].src

\* Two files per wrapper, in the order the loops visit them: .a, then .h.
Files == ToSet(Modules) \X {".a", ".h"}
FileOf(order, n) == <<order[(n + 1) \div 2], IF n % 2 = 1 THEN ".a" ELSE ".h">>
FileAt(n)   == FileOf(Modules, n)   \* of tryCacheHit and of the builds
CachedAt(n) == FileOf(ByName, n)    \* of populateCache
LastFile == 2 * Len(Modules)
Content == Plans \cup {Missing, Partial, Mixed}

Go(d, step, n) == pc' = [pc EXCEPT ![d] = step] /\ at' = [at EXCEPT ![d] = n]
Return(d, how) ==
  /\ pc' = [pc EXCEPT ![d] = "idle"] /\ at' = [at EXCEPT ![d] = 1]
  /\ result' = [result EXCEPT ![d] = how]
NoFiles(d) == work' = [work EXCEPT ![d] = [f \in Files |-> Missing]]
Fail(d, how) == Return(d, how) /\ NoFiles(d)   \* no result, no path to a file
Populating(k) == {d \in Drivers : pc[d] \in {"open", "write", "manifest"} /\ Key(d) = k}
Put(d, f, c) == work' = [work EXCEPT ![d][f] = c]

-------------------------------------------------------------------------------
Init ==
  /\ manifest = {} /\ clash = {}
  /\ cache   = [k \in Sources |-> [f \in Files |-> Missing]]
  /\ writers = [k \in Sources |-> [f \in Files |-> {}]]
  /\ blend   = [k \in Sources |-> [f \in Files |-> {}]]
  /\ pc = [d \in Drivers |-> "idle"] /\ at = [d \in Drivers |-> 1]
  /\ plan \in [Drivers -> Plans] /\ mode = [d \in Drivers |-> "build"]
  /\ work = [d \in Drivers |-> [f \in Files |-> Missing]]
  /\ result = [d \in Drivers |-> "none"]

\* A new driver allocates its work directory; the plan is valid, the workspace and
\* the wrapper modules are written there, and the key is computed.
Start(d) ==
  /\ pc[d] = "idle"
  /\ \E p \in Plans, m \in {"build", "nocache", "skip"} :
       plan' = [plan EXCEPT ![d] = p] /\ mode' = [mode EXCEPT ![d] = m]
  /\ Go(d, "lookup", 1)
  /\ NoFiles(d)
  /\ result' = [result EXCEPT ![d] = "none"]
  /\ UNCHANGED entryVars

-------------------------------------------------------------------------------
(* tryCacheHit *)

\* A miss builds, unless SkipBuild is set: then the paths are returned as if.
Miss(d) ==
  IF mode[d] = "skip"
    THEN Return(d, "skipped")
    ELSE Go(d, "build", 1) /\ UNCHANGED result

\* cacheArtefactDir is empty under NoCache; the manifest says there is an entry.
LookupMiss(d) ==
  /\ pc[d] = "lookup"
  /\ mode[d] = "nocache" \/ Key(d) \notin manifest
  /\ Miss(d)
  /\ UNCHANGED <<entryVars, callVars, work>>

LookupEntry(d) ==
  /\ pc[d] = "lookup"
  /\ mode[d] # "nocache" /\ Key(d) \in manifest
  /\ Go(d, "stat", 1)
  /\ UNCHANGED <<entryVars, callVars, work, result>>

\* Both files of the wrapper exist, or the lookup is a miss after all.  So it is if they
\* exist and cannot be looked at, whatever the error.
Stat(d) ==
  /\ pc[d] = "stat"
  /\ \/ Miss(d)
     \/ /\ Missing \notin {cache[Key(d)][FileAt(n)] : n \in {at[d], at[d] + 1}}
        /\ Go(d, "copy", at[d]) /\ UNCHANGED result
  /\ UNCHANGED <<entryVars, callVars, work>>

\* copyFile out of the entry reads what is there: Partial, if it is truncated
\* before or while it is read.
Copy(d) ==
  /\ pc[d] = "copy"
  /\ cache[Key(d)][FileAt(at[d])] # Missing
  /\ Put(d, FileAt(at[d]), cache[Key(d)][FileAt(at[d])])
  /\ IF at[d] = LastFile
       THEN Return(d, "hit")
       ELSE Go(d, IF at[d] % 2 = 1 THEN "copy" ELSE "stat", at[d] + 1) /\ UNCHANGED result
  /\ UNCHANGED <<entryVars, callVars>>

\* The file went since the stat, or the disk fails: Build returns the error.
CopyFails(d) ==
  /\ pc[d] = "copy"
  /\ Fail(d, "error")
  /\ UNCHANGED <<entryVars, callVars>>

\* So it does when the entry's directory cannot be searched.
LookupFails(d) ==
  /\ pc[d] = "lookup" /\ mode[d] # "nocache"
  /\ Fail(d, "error")
  /\ UNCHANGED <<entryVars, callVars>>

-------------------------------------------------------------------------------
(* buildOne, for each wrapper: go build leaves both files, or fails *)

BuildOne(d) ==
  /\ pc[d] = "build"
  /\ work' = [work EXCEPT ![d][FileAt(at[d])] = plan[d], ![d][FileAt(at[d] + 1)] = plan[d]]
  /\ IF at[d] + 1 < LastFile
       THEN Go(d, "build", at[d] + 2) /\ UNCHANGED result
       ELSE IF mode[d] = "nocache"
              THEN Return(d, "built")
              ELSE Go(d, "open", 1) /\ UNCHANGED result
  /\ clash' = IF at[d] + 1 = LastFile /\ mode[d] = "build"
                   /\ (Key(d) \in manifest \/ Populating(Key(d)) # {})
                THEN clash \cup {Key(d)} ELSE clash
  /\ UNCHANGED <<manifest, cache, writers, blend, callVars>>

BuildFails(d) ==
  /\ pc[d] = "build"
  /\ Fail(d, "error")
  /\ UNCHANGED <<entryVars, callVars>>

-------------------------------------------------------------------------------
(* populateCache *)

\* Faulty: the manifest is written before the files.
OpenManifestFirst(d) ==
  /\ pc[d] = "open"
  /\ LET k == Key(d)  f == CachedAt(at[d]) IN
       /\ cache'   = [cache EXCEPT ![k][f] = Partial]
       /\ writers' = [writers EXCEPT ![k][f] = @ \cup {d}]
       /\ blend'   = [blend EXCEPT ![k][f] = @ \cup {plan[d]}]
       /\ manifest' = manifest \cup {k}
  /\ Go(d, "write", at[d])
  /\ UNCHANGED <<clash, callVars, work, result>>

\* copyFile into the entry: open with O_TRUNC, ...
Open(d) ==
  /\ pc[d] = "open"
  /\ LET k == Key(d)  f == CachedAt(at[d]) IN
       /\ cache'   = [cache EXCEPT ![k][f] = Partial]
       /\ writers' = [writers EXCEPT ![k][f] = @ \cup {d}]
       /\ blend'   = [blend EXCEPT ![k][f] = @ \cup {plan[d]}]
  /\ Go(d, "write", at[d])
  /\ UNCHANGED <<manifest, clash, callVars, work, result>>

\* ... then write and close.  Alone, d leaves its file.  A driver that truncated
\* the file later has cut off what d wrote before, until it wrote it itself: for
\* good if it crashed.  Drivers with different bytes leave some of each.
Finish(d) ==
  LET k == Key(d)  f == CachedAt(at[d])  others == writers[k][f] \ {d} IN
  {c \in {plan[d], Partial, Mixed} :
     /\ c = Partial => others # {} \/ Crashed \in blend[k][f]
     /\ c = Mixed => Cardinality(blend[k][f] \ {Crashed}) > 1}

Close(d, c) ==
  LET k == Key(d)  f == CachedAt(at[d]) IN
  /\ cache'   = [cache EXCEPT ![k][f] = c]
  /\ writers' = [writers EXCEPT ![k][f] = @ \ {d}]
  /\ blend'   = [blend EXCEPT ![k][f] = IF writers'[k][f] = {} THEN {} ELSE @]

\* Faulty: the loop goes one file too far.
WriteTooFar(d) ==
  /\ pc[d] = "write"
  /\ IF d \in writers[Key(d)][CachedAt(at[d])]
       THEN (\E c \in Finish(d) : Close(d, c)) ELSE UNCHANGED <<cache, writers, blend>>
  /\ IF at[d] > LastFile THEN Go(d, "manifest", 1) ELSE Go(d, "open", at[d] + 1)
  /\ UNCHANGED <<manifest, clash, callVars, work, result>>

\* A file that was removed meanwhile has no name that d's bytes could appear under.
Write(d) ==
  /\ pc[d] = "write"
  /\ IF d \in writers[Key(d)][CachedAt(at[d])]
       THEN (\E c \in Finish(d) : Close(d, c)) ELSE UNCHANGED <<cache, writers, blend>>
  /\ IF at[d] = LastFile THEN Go(d, "manifest", 1) ELSE Go(d, "open", at[d] + 1)
  /\ UNCHANGED <<manifest, clash, callVars, work, result>>

WriteManifest(d) ==
  /\ pc[d] = "manifest"
  /\ manifest' = manifest \cup {Key(d)}
  /\ Return(d, "built")
  /\ UNCHANGED <<cache, writers, blend, clash, callVars, work>>

\* A file d is in the middle of keeps a prefix, unless others wrote it as well;
\* half a manifest announces the entry all the same.
LeaveFile(d) ==
  LET k == Key(d)  f == CachedAt(at[d]) IN
  /\ manifest' \in {manifest} \cup (IF pc[d] = "manifest" THEN {manifest \cup {k}} ELSE {})
  /\ IF pc[d] = "write" /\ d \in writers[k][f]
       THEN /\ writers' = [writers EXCEPT ![k][f] = @ \ {d}]
            /\ blend' = [blend EXCEPT ![k][f] =
                            IF writers'[k][f] = {} THEN {} ELSE @ \cup {Crashed}]
            /\ \E c \in {cache[k][f], Partial} \cup
                        (IF Cardinality(blend[k][f] \ {Crashed}) > 1 THEN {Mixed} ELSE {}) :
                 cache' = [cache EXCEPT ![k][f] = c]
       ELSE UNCHANGED <<writers, blend, cache>>

\* Faulty: a file that could not be copied is skipped, and the manifest written.
PopulateFailsIgnored(d) ==
  /\ pc[d] \in {"open", "write"}
  /\ LeaveFile(d)
  /\ Go(d, "manifest", 1)
  /\ UNCHANGED <<clash, callVars, work, result>>

\* The disk fails under populateCache: Build returns the error.
PopulateFails(d) ==
  /\ pc[d] \in {"open", "write", "manifest"}
  /\ LeaveFile(d)
  /\ Fail(d, "error")
  /\ UNCHANGED <<clash, callVars>>

\* The process is killed anywhere.
Crash(d) ==
  /\ pc[d] # "idle"
  /\ LeaveFile(d)
  /\ Fail(d, "crashed")
  /\ UNCHANGED <<clash, callVars>>

-------------------------------------------------------------------------------
\* Somebody clears a file of the user's cache directory.
Evict(k, f) ==
  /\ cache[k][f] # Missing
  /\ cache'   = [cache EXCEPT ![k][f] = Missing]
  /\ writers' = [writers EXCEPT ![k][f] = {}]
  /\ blend'   = [blend EXCEPT ![k][f] = {}]
  /\ UNCHANGED <<manifest, clash, callVars, pc, at, work, result>>

EvictManifest(k) ==
  /\ k \in manifest
  /\ manifest' = manifest \ {k} /\ clash' = clash \cup {k}
  /\ UNCHANGED <<cache, writers, blend, callVars, pc, at, work, result>>

Step(d) ==
  \/ LookupMiss(d) \/ LookupEntry(d) \/ Stat(d) \/ Copy(d)
  \/ BuildOne(d) \/ Open(d) \/ Write(d) \/ WriteManifest(d)

Next ==
  \/ \E d \in Drivers :
       \/ Start(d) \/ Step(d) \/ Crash(d)
       \/ LookupFails(d) \/ CopyFails(d) \/ BuildFails(d) \/ PopulateFails(d)
  \/ \E k \in Sources : EvictManifest(k) \/ \E f \in Files : Evict(k, f)

Spec == Init /\ [][Next]_vars

-------------------------------------------------------------------------------
(* Properties *)

\* Every step of tryCacheHit, buildOne and populateCache stays within the plan's
\* files, and every file holds what some plan compiles to, or an accident.
TypeOK ==
  /\ manifest \subseteq Sources /\ clash \subseteq Sources
  /\ cache \in [Sources -> [Files -> Content]]
  /\ writers \in [Sources -> [Files -> SUBSET Drivers]]
  /\ blend \in [Sources -> [Files -> SUBSET (Plans \cup {Crashed})]]
  /\ pc \in [Drivers -> {"idle", "lookup", "stat", "copy", "build", "open", "write", "manifest"}]
  /\ at \in [Drivers -> 1..LastFile]
  /\ plan \in [Drivers -> Plans] /\ mode \in [Drivers -> {"build", "nocache", "skip"}]
  /\ work \in [Drivers -> [Files -> Content]]
  /\ result \in [Drivers -> {"none", "hit", "built", "skipped", "error", "crashed"}]

\* The manifest is written last: the entry it announces has only whole files of
\* its key (or lost them), whatever builds crashed or failed half-way, as long as
\* the key was never populated by two drivers at once or over an older entry.
ManifestLast ==
  \A k \in manifest \ clash : \A f \in Files :
    cache[k][f] = Missing \/ cache[k][f] \in [src : {k}, env : Envs]

\* A Build that returns archives from the cache returns whole ones compiled from
\* its own sources, under the same proviso.
HitIsWhole ==
  \A d \in Drivers : result[d] = "hit" /\ Key(d) \notin clash =>
    work[d] \in [Files -> [src : {Key(d)}, env : Envs]]

\* What BuildPlan.ExtraEnv says: it is appended to the go build environment.  So
\* what a Build returns was compiled with it.
ExtraEnvApplies ==
  \A d \in Drivers : result[d] = "hit" =>
    \A f \in Files : work[d][f] \in Plans => work[d][f].env = plan[d].env

===============================================================================

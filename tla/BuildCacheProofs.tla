---------------------------- MODULE BuildCacheProofs ----------------------------
(***************************************************************************)
(* Proofs about BuildCache, for any drivers, wrappers, sources and         *)
(* environments.                                                           *)
(***************************************************************************)
EXTENDS BuildCache, FiniteSetTheorems, TLAPS

-------------------------------------------------------------------------------
(* Files.  The loops visit files of the plan, and all of them. *)

LEMMA LastFileFacts == LastFile \in Nat /\ LastFile >= 2 /\ LastFile % 2 = 0
  <1>1. Len(Modules) \in Nat /\ Len(Modules) # 0
    BY ModulesAssumption
  <1> QED
    BY <1>1 DEF LastFile

LEMMA OrderFacts ==
  ASSUME NEW order \in Seq(STRING), Len(order) = Len(Modules), ToSet(order) = ToSet(Modules)
  PROVE  /\ \A n \in 1..LastFile : FileOf(order, n) \in Files
         /\ \A f \in Files : \E n \in 1..LastFile : FileOf(order, n) = f
  <1>1. Len(order) \in Nat /\ LastFile = 2 * Len(order) /\ DOMAIN order = 1..Len(order)
    BY DEF LastFile
  <1>2. ASSUME NEW n \in 1..LastFile PROVE FileOf(order, n) \in Files
    <2>1. (n + 1) \div 2 \in 1..Len(order)
      BY <1>1
    <2>2. order[(n + 1) \div 2] \in ToSet(Modules)
      BY <1>1, <2>1 DEF ToSet
    <2> QED
      BY <2>2 DEF FileOf, Files
  <1>3. ASSUME NEW f \in Files PROVE \E n \in 1..LastFile : FileOf(order, n) = f
    <2>1. PICK m \in ToSet(order), x \in {".a", ".h"} : f = <<m, x>>
      BY DEF Files
    <2>2. PICK i \in 1..Len(order) : order[i] = m
      BY <1>1 DEF ToSet
    <2>3. 2 * i \in 1..LastFile /\ (2 * i + 1) \div 2 = i /\ (2 * i) % 2 = 0
      BY <1>1
    <2>4. 2 * i - 1 \in 1..LastFile /\ (2 * i - 1 + 1) \div 2 = i /\ (2 * i - 1) % 2 = 1
      BY <1>1
    <2>5. CASE x = ".a"
      <3>1. FileOf(order, 2 * i - 1) = f
        BY <2>1, <2>2, <2>4, <2>5 DEF FileOf
      <3> QED
        BY <2>4, <3>1
    <2>6. CASE x = ".h"
      <3>1. FileOf(order, 2 * i) = f
        BY <2>1, <2>2, <2>3, <2>6 DEF FileOf
      <3> QED
        BY <2>3, <3>1
    <2> QED
      BY <2>5, <2>6
  <1> QED
    BY <1>2, <1>3

LEMMA FileFacts ==
  /\ \A n \in 1..LastFile : FileAt(n) \in Files /\ CachedAt(n) \in Files
  /\ \A f \in Files : \E n \in 1..LastFile : FileAt(n) = f
  /\ \A f \in Files : \E n \in 1..LastFile : CachedAt(n) = f
  BY OrderFacts, ModulesAssumption DEF FileAt, CachedAt

-------------------------------------------------------------------------------
(* Type correctness *)

PCs == {"idle", "lookup", "stat", "copy", "build", "open", "write", "manifest"}

EntryOK ==
  /\ manifest \subseteq Sources /\ clash \subseteq Sources
  /\ cache \in [Sources -> [Files -> Content]]
  /\ writers \in [Sources -> [Files -> SUBSET Drivers]]
  /\ blend \in [Sources -> [Files -> SUBSET (Plans \cup {Crashed})]]

\* The pairs of a wrapper's files are visited from the first; a lookup that skips the
\* build does not come to it; a call under way has no result.
CallOK ==
  /\ pc \in [Drivers -> PCs] /\ at \in [Drivers -> 1..LastFile]
  /\ plan \in [Drivers -> Plans] /\ mode \in [Drivers -> {"build", "nocache", "skip"}]
  /\ result \in [Drivers -> {"none", "hit", "built", "skipped", "error", "crashed"}]
  /\ \A d \in Drivers :
       /\ pc[d] \in {"lookup", "stat", "build"} => at[d] % 2 = 1
       /\ pc[d] = "build" => mode[d] # "skip"
       /\ pc[d] # "idle" => result[d] = "none"

WorkOK == work \in [Drivers -> [Files -> Content]]

TypeInv == EntryOK /\ CallOK /\ WorkOK

LEMMA InitType == Init => TypeInv
  <1> SUFFICES ASSUME Init PROVE TypeInv
    OBVIOUS
  <1>1. EntryOK /\ WorkOK
    BY DEF Init, EntryOK, WorkOK, Content
  <1>2. CallOK
    BY LastFileFacts DEF Init, CallOK, PCs
  <1> QED
    BY <1>1, <1>2 DEF TypeInv

LEMMA DriverFacts ==
  ASSUME TypeInv, NEW d \in Drivers
  PROVE  /\ Key(d) \in Sources /\ plan[d] \in Plans /\ at[d] \in 1..LastFile
         /\ FileAt(at[d]) \in Files /\ CachedAt(at[d]) \in Files
  BY FileFacts DEF TypeInv, CallOK, Key, Plans

LEMMA ReturnType ==
  ASSUME TypeInv, NEW d \in Drivers,
         NEW how \in {"hit", "built", "skipped", "error", "crashed"}, Return(d, how),
         UNCHANGED callVars
  PROVE  CallOK'
  BY LastFileFacts DEF Return, callVars, TypeInv, CallOK, PCs

LEMMA GoType ==
  ASSUME TypeInv, NEW d \in Drivers, NEW step \in PCs \ {"idle"}, NEW n \in 1..LastFile, Go(d, step, n),
         pc[d] # "idle", step \in {"lookup", "stat", "build"} => n % 2 = 1,
         step = "build" => mode[d] # "skip", UNCHANGED result, UNCHANGED callVars
  PROVE  CallOK'
  BY DEF Go, callVars, TypeInv, CallOK, PCs

LEMMA MissType ==
  ASSUME TypeInv, NEW d \in Drivers, Miss(d), pc[d] # "idle", UNCHANGED callVars
  PROVE  CallOK'
  <1>1. 1 \in 1..LastFile /\ 1 % 2 = 1
    BY LastFileFacts
  <1>2. CASE mode[d] = "skip"
    BY <1>2, ReturnType DEF Miss
  <1>3. CASE mode[d] # "skip"
    BY <1>1, <1>3, GoType DEF Miss, PCs
  <1> QED
    BY <1>2, <1>3

LEMMA FailType ==
  ASSUME TypeInv, NEW d \in Drivers, NEW how \in {"error", "crashed"}, Fail(d, how), UNCHANGED callVars
  PROVE  CallOK' /\ WorkOK'
  <1>1. CallOK'
    BY ReturnType DEF Fail
  <1>2. WorkOK'
    BY DEF Fail, NoFiles, TypeInv, WorkOK, Content
  <1> QED
    BY <1>1, <1>2

LEMMA LeaveType ==
  ASSUME TypeInv, NEW d \in Drivers, LeaveFile(d), UNCHANGED clash
  PROVE  EntryOK'
  <1> DEFINE k == Key(d)
             f == CachedAt(at[d])
  <1>1. k \in Sources /\ f \in Files
    BY DriverFacts
  <1>2. manifest' \subseteq Sources
    BY <1>1 DEF LeaveFile, TypeInv, EntryOK
  <1>3. CASE UNCHANGED <<writers, blend, cache>>
    BY <1>2, <1>3 DEF TypeInv, EntryOK
  <1>4. CASE ~UNCHANGED <<writers, blend, cache>>
    <2>1. /\ writers' = [writers EXCEPT ![k][f] = @ \ {d}]
          /\ blend' = [blend EXCEPT ![k][f] = IF writers'[k][f] = {} THEN {} ELSE @ \cup {Crashed}]
          /\ \E c \in {cache[k][f], Partial, Mixed} : cache' = [cache EXCEPT ![k][f] = c]
      BY <1>4 DEF LeaveFile
    <2>2. writers' \in [Sources -> [Files -> SUBSET Drivers]]
      BY <1>1, <2>1 DEF TypeInv, EntryOK
    <2>3. blend' \in [Sources -> [Files -> SUBSET (Plans \cup {Crashed})]]
      BY <1>1, <2>1 DEF TypeInv, EntryOK
    <2>4. cache' \in [Sources -> [Files -> Content]]
      BY <1>1, <2>1 DEF TypeInv, EntryOK, Content
    <2> QED
      BY <1>2, <2>2, <2>3, <2>4 DEF TypeInv, EntryOK
  <1> QED
    BY <1>3, <1>4

LEMMA PutType ==
  ASSUME TypeInv, NEW d \in Drivers, NEW f \in Files, NEW c \in Content, Put(d, f, c)
  PROVE  WorkOK'
  BY DEF Put, TypeInv, WorkOK

LEMMA OpenType ==
  ASSUME TypeInv, NEW d \in Drivers, Open(d)
  PROVE  TypeInv'
  <1> DEFINE k == Key(d)
             f == CachedAt(at[d])
  <1>1. k \in Sources /\ f \in Files /\ plan[d] \in Plans /\ at[d] \in 1..LastFile
    BY DriverFacts
  <1>2. /\ cache'   = [cache EXCEPT ![k][f] = Partial]
        /\ writers' = [writers EXCEPT ![k][f] = @ \cup {d}]
        /\ blend'   = [blend EXCEPT ![k][f] = @ \cup {plan[d]}]
        /\ manifest' = manifest /\ clash' = clash /\ work' = work
    BY DEF Open
  <1> HIDE DEF k, f
  <1>3. cache' \in [Sources -> [Files -> Content]]
    BY <1>1, <1>2 DEF TypeInv, EntryOK, Content
  <1>4. writers' \in [Sources -> [Files -> SUBSET Drivers]]
    BY <1>1, <1>2 DEF TypeInv, EntryOK
  <1>5. blend' \in [Sources -> [Files -> SUBSET (Plans \cup {Crashed})]]
    BY <1>1, <1>2 DEF TypeInv, EntryOK
  <1>6. EntryOK' /\ WorkOK'
    BY <1>2, <1>3, <1>4, <1>5 DEF TypeInv, EntryOK, WorkOK
  <1>7. CallOK'
    BY <1>1, GoType DEF Open, PCs
  <1> QED
    BY <1>6, <1>7 DEF TypeInv

LEMMA CloseType ==
  ASSUME TypeInv, NEW d \in Drivers, NEW c \in Content, Close(d, c), UNCHANGED <<manifest, clash>>
  PROVE  EntryOK'
  <1> DEFINE k == Key(d)
             f == CachedAt(at[d])
  <1>1. k \in Sources /\ f \in Files
    BY DriverFacts
  <1>2. /\ cache'   = [cache EXCEPT ![k][f] = c]
        /\ writers' = [writers EXCEPT ![k][f] = @ \ {d}]
        /\ blend'   = [blend EXCEPT ![k][f] = IF writers'[k][f] = {} THEN {} ELSE @]
    BY DEF Close
  <1> HIDE DEF k, f
  <1>3. cache' \in [Sources -> [Files -> Content]]
    BY <1>1, <1>2 DEF TypeInv, EntryOK
  <1>4. writers' \in [Sources -> [Files -> SUBSET Drivers]]
    BY <1>1, <1>2 DEF TypeInv, EntryOK
  <1>5. blend' \in [Sources -> [Files -> SUBSET (Plans \cup {Crashed})]]
    BY <1>1, <1>2 DEF TypeInv, EntryOK
  <1> QED
    BY <1>3, <1>4, <1>5 DEF TypeInv, EntryOK

LEMMA WriteType ==
  ASSUME TypeInv, NEW d \in Drivers, Write(d)
  PROVE  TypeInv'
  <1>1. EntryOK'
    <2>1. Finish(d) \subseteq Content
      BY DriverFacts DEF Finish, Content
    <2>2. CASE d \in writers[Key(d)][CachedAt(at[d])]
      <3>1. PICK c \in Finish(d) : Close(d, c)
        BY <2>2 DEF Write
      <3> QED
        BY <2>1, <3>1, CloseType DEF Write
    <2>3. CASE d \notin writers[Key(d)][CachedAt(at[d])]
      BY <2>3 DEF Write, TypeInv, EntryOK
    <2> QED
      BY <2>2, <2>3
  <1>2. CallOK'
    <2>1. CASE at[d] = LastFile
      BY <2>1, LastFileFacts, GoType DEF Write, PCs
    <2>2. CASE at[d] # LastFile
      <3>1. at[d] + 1 \in 1..LastFile
        BY <2>2, DriverFacts, LastFileFacts
      <3> QED
        BY <2>2, <3>1, GoType DEF Write, PCs
    <2> QED
      BY <2>1, <2>2
  <1> QED
    BY <1>1, <1>2 DEF Write, TypeInv, WorkOK

LEMMA CopyType ==
  ASSUME TypeInv, NEW d \in Drivers, Copy(d)
  PROVE  TypeInv'
  <1>1. cache[Key(d)][FileAt(at[d])] \in Content
    BY DriverFacts DEF TypeInv, EntryOK
  <1>2. WorkOK'
    BY <1>1, DriverFacts, PutType DEF Copy
  <1>3. CallOK'
    <2>1. CASE at[d] = LastFile
      BY <2>1, ReturnType DEF Copy
    <2>2. CASE at[d] # LastFile
      <3>1. at[d] + 1 \in 1..LastFile
        BY <2>2, DriverFacts, LastFileFacts
      <3>2. CASE at[d] % 2 = 1
        BY <2>2, <3>1, <3>2, GoType DEF Copy, PCs
      <3>3. CASE at[d] % 2 # 1
        <4>1. (at[d] + 1) % 2 = 1
          BY <3>3, DriverFacts
        <4> QED
          BY <2>2, <3>1, <3>3, <4>1, GoType DEF Copy, PCs
      <3> QED
        BY <3>2, <3>3
    <2> QED
      BY <2>1, <2>2
  <1> QED
    BY <1>2, <1>3 DEF Copy, entryVars, TypeInv, EntryOK

LEMMA BuildOneType ==
  ASSUME TypeInv, NEW d \in Drivers, BuildOne(d)
  PROVE  TypeInv'
  <1>1. at[d] \in 1..LastFile /\ at[d] % 2 = 1
    BY DriverFacts DEF BuildOne, TypeInv, CallOK
  <1>2. at[d] + 1 \in 1..LastFile
    BY <1>1, LastFileFacts
  <1>3. WorkOK'
    <2>1. plan[d] \in Content /\ FileAt(at[d]) \in Files /\ FileAt(at[d] + 1) \in Files
      BY <1>1, <1>2, DriverFacts, FileFacts DEF Content
    <2>2. work' = [work EXCEPT ![d][FileAt(at[d])] = plan[d], ![d][FileAt(at[d] + 1)] = plan[d]]
      BY DEF BuildOne
    <2> QED
      BY <2>1, <2>2 DEF TypeInv, WorkOK
  <1>4. EntryOK'
    <2>1. clash' \subseteq Sources
      BY DriverFacts DEF BuildOne, TypeInv, EntryOK
    <2> QED
      BY <2>1 DEF BuildOne, TypeInv, EntryOK
  <1>5. CallOK'
    <2>1. CASE at[d] + 1 < LastFile
      <3>1. at[d] + 2 \in 1..LastFile /\ (at[d] + 2) % 2 = 1
        BY <1>1, <2>1, LastFileFacts
      <3>2. mode[d] # "skip"
        BY DEF BuildOne, TypeInv, CallOK
      <3> QED
        BY <2>1, <3>1, <3>2, GoType DEF BuildOne, PCs
    <2>2. CASE ~(at[d] + 1 < LastFile) /\ mode[d] = "nocache"
      BY <2>2, ReturnType DEF BuildOne
    <2>3. CASE ~(at[d] + 1 < LastFile) /\ mode[d] # "nocache"
      BY <2>3, LastFileFacts, GoType DEF BuildOne, PCs
    <2> QED
      BY <2>1, <2>2, <2>3
  <1> QED
    BY <1>3, <1>4, <1>5 DEF TypeInv

\* The steps of a call that only decide how it goes on.
LEMMA DecideType ==
  ASSUME TypeInv, NEW d \in Drivers, LookupMiss(d) \/ LookupEntry(d) \/ Stat(d)
  PROVE  TypeInv'
  <1>1. UNCHANGED <<entryVars, callVars, work>>
    BY DEF LookupMiss, LookupEntry, Stat
  <1>2. CASE Miss(d)
    <2>1. pc[d] # "idle"
      BY DEF LookupMiss, LookupEntry, Stat
    <2> QED
      BY <1>1, <1>2, <2>1, MissType DEF entryVars, TypeInv, EntryOK, WorkOK
  <1>3. CASE LookupEntry(d)
    <2>1. CallOK'
      BY <1>3, LastFileFacts, GoType DEF LookupEntry, PCs
    <2> QED
      BY <1>1, <2>1 DEF entryVars, TypeInv, EntryOK, WorkOK
  <1>4. CASE Stat(d) /\ ~Miss(d)
    <2>1. CallOK'
      BY <1>4, DriverFacts, GoType DEF Stat, PCs
    <2> QED
      BY <1>1, <2>1 DEF entryVars, TypeInv, EntryOK, WorkOK
  <1> QED
    BY <1>2, <1>3, <1>4 DEF LookupMiss

LEMMA StartType ==
  ASSUME TypeInv, NEW d \in Drivers, Start(d)
  PROVE  TypeInv'
  <1>1. CallOK'
    BY LastFileFacts DEF Start, Go, TypeInv, CallOK, PCs
  <1>2. WorkOK'
    BY DEF Start, NoFiles, TypeInv, WorkOK, Content
  <1> QED
    BY <1>1, <1>2 DEF Start, entryVars, TypeInv, EntryOK

LEMMA EvictType ==
  ASSUME TypeInv, NEW k \in Sources, NEW f \in Files, Evict(k, f)
  PROVE  TypeInv'
  <1>1. /\ cache'   = [cache EXCEPT ![k][f] = Missing]
        /\ writers' = [writers EXCEPT ![k][f] = {}]
        /\ blend'   = [blend EXCEPT ![k][f] = {}]
    BY DEF Evict
  <1>2. cache' \in [Sources -> [Files -> Content]]
    BY <1>1 DEF TypeInv, EntryOK, Content
  <1>3. writers' \in [Sources -> [Files -> SUBSET Drivers]]
    BY <1>1 DEF TypeInv, EntryOK
  <1>4. blend' \in [Sources -> [Files -> SUBSET (Plans \cup {Crashed})]]
    BY <1>1 DEF TypeInv, EntryOK
  <1> QED
    BY <1>2, <1>3, <1>4 DEF Evict, callVars, TypeInv, EntryOK, CallOK, WorkOK

LEMMA FailingType ==
  ASSUME TypeInv, NEW d \in Drivers,
         LookupFails(d) \/ CopyFails(d) \/ BuildFails(d) \/ PopulateFails(d) \/ Crash(d)
  PROVE  TypeInv'
  <1>1. \E how \in {"error", "crashed"} : Fail(d, how)
    BY DEF LookupFails, CopyFails, BuildFails, PopulateFails, Crash
  <1>2. UNCHANGED callVars
    BY DEF LookupFails, CopyFails, BuildFails, PopulateFails, Crash
  <1>3. CallOK' /\ WorkOK'
    BY <1>1, <1>2, FailType
  <1>4. EntryOK'
    <2>1. CASE UNCHANGED entryVars
      BY <2>1 DEF entryVars, TypeInv, EntryOK
    <2>2. CASE LeaveFile(d) /\ UNCHANGED clash
      BY <2>2, LeaveType
    <2> QED
      BY <2>1, <2>2 DEF LookupFails, CopyFails, BuildFails, PopulateFails, Crash
  <1> QED
    BY <1>3, <1>4 DEF TypeInv

LEMMA StepType == TypeInv /\ [Next]_vars => TypeInv'
  <1> SUFFICES ASSUME TypeInv, [Next]_vars PROVE TypeInv'
    OBVIOUS
  <1>1. ASSUME NEW d \in Drivers, Step(d) PROVE TypeInv'
    <2>1. CASE WriteManifest(d)
      <3>1. CallOK'
        BY <2>1, ReturnType DEF WriteManifest
      <3> QED
        BY <2>1, <3>1, DriverFacts DEF WriteManifest, TypeInv, EntryOK, WorkOK
    <2> QED
      BY <1>1, <2>1, DecideType, CopyType, BuildOneType, OpenType, WriteType DEF Step
  <1>2. ASSUME NEW k \in Sources, EvictManifest(k) PROVE TypeInv'
    BY <1>2 DEF EvictManifest, callVars, TypeInv, EntryOK, CallOK, WorkOK
  <1>3. CASE UNCHANGED vars
    BY <1>3 DEF vars, entryVars, callVars, TypeInv, EntryOK, CallOK, WorkOK
  <1> QED
    BY <1>1, <1>2, <1>3, StartType, FailingType, EvictType DEF Next

\* Every step of tryCacheHit, buildOne and populateCache stays within the plan's
\* files, and every file of the cache and of a work directory holds what some plan
\* compiles to, or one of the accidents the model names.
THEOREM TypeCorrect == Spec => []TypeOK
  <1>1. TypeInv => TypeOK
    BY DEF TypeInv, EntryOK, CallOK, WorkOK, TypeOK, PCs
  <1> QED
    BY <1>1, InitType, StepType, PTL DEF Spec

-------------------------------------------------------------------------------
(* The manifest is last.  What holds of the entry of one key: *)

Whole(k) == [src : {k}, env : Envs]
Good(k, f) == cache[k][f] = Missing \/ cache[k][f] \in Whole(k)

\* Every file somebody writes is written by drivers that populate the entry and are
\* at that file; a file nobody writes has no bytes to mix.
Linked(k) == \A f \in Files :
  /\ \A e \in writers[k][f] : e \in Populating(k) /\ pc[e] = "write" /\ CachedAt(at[e]) = f
  /\ writers[k][f] = {} => blend[k][f] = {}

\* The files d has left behind in its entry.
Copied(d) ==
  IF pc[d] = "manifest" THEN Files
  ELSE {f \in Files : /\ \E m \in 1..LastFile : m < at[d] /\ CachedAt(m) = f
                      /\ pc[d] = "write" => f # CachedAt(at[d])}

\* A driver that populates the entry of k alone.
Owns(d, k) ==
  /\ \A f \in Copied(d) : Good(k, f)
  /\ pc[d] = "write" =>
       IF d \in writers[k][CachedAt(at[d])]
         THEN blend[k][CachedAt(at[d])] = {plan[d]}
         ELSE Good(k, CachedAt(at[d]))

Alone(k) ==
  /\ \A d, e \in Populating(k) : d = e
  /\ Populating(k) # {} => k \notin manifest
  /\ k \in manifest => \A f \in Files : Good(k, f)
  /\ \A d \in Populating(k) : Owns(d, k)

KeyOK(k) == Linked(k) /\ (k \notin clash => Alone(k))

KeyInv == TypeInv /\ \A k \in Sources : KeyOK(k)

LEMMA InitKeys == Init => KeyInv
  <1> SUFFICES ASSUME Init PROVE KeyInv
    OBVIOUS
  <1>1. \A k : Populating(k) = {}
    BY DEF Init, Populating
  <1>2. ASSUME NEW k \in Sources PROVE KeyOK(k)
    <2>1. Linked(k)
      BY DEF Init, Linked
    <2>2. Alone(k)
      BY <1>1 DEF Init, Alone
    <2> QED
      BY <2>1, <2>2 DEF KeyOK
  <1> QED
    BY <1>2, InitType DEF KeyInv

\* A step that leaves an entry and those who populate it alone.
SamePopulating(k) ==
  /\ Populating(k)' = Populating(k)
  /\ \A e \in Populating(k) : pc'[e] = pc[e] /\ at'[e] = at[e] /\ plan'[e] = plan[e]
SameEntry(k) ==
  /\ cache'[k] = cache[k] /\ writers'[k] = writers[k] /\ blend'[k] = blend[k]
  /\ (k \in manifest') = (k \in manifest)
  /\ clash \subseteq clash'

LEMMA Untouched ==
  ASSUME NEW k \in Sources, KeyOK(k), SamePopulating(k), SameEntry(k)
  PROVE  KeyOK(k)'
  <1>1. Linked(k)'
    BY DEF KeyOK, SamePopulating, SameEntry, Linked
  <1>2. ASSUME k \notin clash' PROVE Alone(k)'
    <2>1. Alone(k)
      BY <1>2 DEF KeyOK, SameEntry
    <2>2. \A f \in Files : Good(k, f) => Good(k, f)'
      BY DEF SameEntry, Good
    <2>3. ASSUME NEW d \in Populating(k) PROVE Owns(d, k)'
      <3>1. Owns(d, k)
        BY <2>1 DEF Alone
      <3>2. Copied(d)' = Copied(d)
        BY DEF SamePopulating, Copied
      <3>3. \A f \in Copied(d) : f \in Files
        BY DEF Copied
      <3>4. \A f \in Copied(d)' : Good(k, f)'
        BY <2>2, <3>1, <3>2, <3>3 DEF Owns
      <3>5. cache'[k] = cache[k] /\ writers'[k] = writers[k] /\ blend'[k] = blend[k]
        BY DEF SameEntry
      <3>6. CachedAt(at[d])' = CachedAt(at[d]) /\ pc'[d] = pc[d] /\ plan'[d] = plan[d]
        BY DEF SamePopulating, CachedAt, FileOf
      <3> QED
        BY <3>1, <3>4, <3>5, <3>6 DEF Owns, Good
    <2> QED
      BY <2>1, <2>2, <2>3 DEF Alone, SamePopulating, SameEntry
  <1> QED
    BY <1>1, <1>2 DEF KeyOK

\* A step of d, of which the others see nothing but the entry.
Elsewhere(d) == \A e \in Drivers \ {d} :
  pc'[e] = pc[e] /\ at'[e] = at[e] /\ plan'[e] = plan[e] /\ work'[e] = work[e] /\ result'[e] = result[e]

LEMMA StepElsewhere ==
  ASSUME TypeInv, NEW d \in Drivers, Start(d) \/ Step(d) \/ Crash(d) \/ LookupFails(d)
           \/ CopyFails(d) \/ BuildFails(d) \/ PopulateFails(d)
  PROVE  Elsewhere(d)
  BY DEF Elsewhere, Start, Step, Crash, LookupFails, CopyFails, BuildFails, PopulateFails,
         LookupMiss, LookupEntry, Stat, Copy, BuildOne, Open, Write, WriteManifest,
         Miss, Go, Return, Fail, NoFiles, Put, callVars, TypeInv, CallOK, WorkOK

\* The entries d does not populate look the same to it.
LEMMA OtherKeys ==
  ASSUME TypeInv, NEW d \in Drivers, Elsewhere(d), NEW k \in Sources,
         d \notin Populating(k), d \notin Populating(k)'
  PROVE  SamePopulating(k)
  BY DEF Elsewhere, SamePopulating, Populating, Key

Populates == {"open", "write", "manifest"}

\* Calls that do not populate an entry, before the step nor after it.
LEMMA QuietKeys ==
  ASSUME KeyInv, TypeInv', NEW d \in Drivers, Elsewhere(d), pc[d] \notin Populates, pc'[d] \notin Populates,
         UNCHANGED <<manifest, cache, writers, blend>>, clash \subseteq clash'
  PROVE  KeyInv'
  <1>1. ASSUME NEW k \in Sources PROVE KeyOK(k)'
    <2>1. d \notin Populating(k) /\ d \notin Populating(k)'
      BY DEF Populates, Populating
    <2>2. SamePopulating(k)
      BY <2>1, OtherKeys DEF KeyInv
    <2>3. SameEntry(k)
      BY DEF SameEntry
    <2> QED
      BY <2>2, <2>3, Untouched DEF KeyInv
  <1> QED
    BY <1>1 DEF KeyInv


LEMMA BuildOneKeys ==
  ASSUME KeyInv, TypeInv', NEW d \in Drivers, BuildOne(d)
  PROVE  KeyInv'
  <1>1. Elsewhere(d) /\ TypeInv
    BY StepElsewhere DEF KeyInv, Step
  <1>2. UNCHANGED <<manifest, cache, writers, blend>> /\ clash \subseteq clash'
    BY DEF BuildOne
  <1>3. CASE pc'[d] \notin Populates
    BY <1>1, <1>2, <1>3, QuietKeys DEF BuildOne, Populates
  <1>4. CASE pc'[d] \in Populates
    <2>1. Go(d, "open", 1) /\ ~(at[d] + 1 < LastFile) /\ mode[d] # "nocache"
      <3>1. \A s \in {"idle", "build", "open"}, n \in Nat : Go(d, s, n) => pc'[d] = s
        BY <1>1 DEF Go, TypeInv, CallOK
      <3>2. Return(d, "built") => pc'[d] = "idle"
        BY <1>1 DEF Return, TypeInv, CallOK
      <3> QED
        BY <1>1, <1>4, <3>1, <3>2, DriverFacts DEF BuildOne, Populates
    <2>2. pc'[d] = "open" /\ at'[d] = 1 /\ plan'[d] = plan[d] /\ pc[d] = "build"
      BY <1>1, <2>1 DEF Go, BuildOne, callVars, TypeInv, CallOK
    <2>3. at[d] + 1 = LastFile /\ mode[d] = "build"
      <3>1. at[d] \in 1..LastFile /\ at[d] % 2 = 1 /\ mode[d] \in {"build", "nocache", "skip"} /\ mode[d] # "skip"
        BY <1>1, <2>2 DEF TypeInv, CallOK
      <3> QED
        BY <2>1, <3>1, LastFileFacts
    <2>4. ASSUME NEW k \in Sources, k # Key(d) PROVE KeyOK(k)'
      <3>1. d \notin Populating(k) /\ d \notin Populating(k)'
        BY <2>2, <2>4 DEF Populating, Key
      <3> QED
        BY <1>1, <1>2, <3>1, OtherKeys, Untouched DEF SameEntry, KeyInv
    <2>5. PICK k \in Sources : k = Key(d) /\ KeyOK(k)
      BY <1>1, DriverFacts DEF KeyInv
    <2>6. Populating(k)' = Populating(k) \cup {d} /\ d \notin Populating(k)
      BY <1>1, <2>2, <2>5 DEF Elsewhere, Populating, Key
    <2>7. \A e \in Populating(k) : pc'[e] = pc[e] /\ at'[e] = at[e]
      BY <1>1, <2>6 DEF Elsewhere, Populating
    <2>8. Linked(k)'
      <3> SUFFICES ASSUME NEW f \in Files
                   PROVE  /\ \A e \in writers'[k][f] :
                               e \in Populating(k)' /\ pc'[e] = "write" /\ CachedAt(at'[e]) = f
                          /\ writers'[k][f] = {} => blend'[k][f] = {}
        BY DEF Linked, CachedAt, FileOf
      <3> QED
        BY <1>2, <2>5, <2>6, <2>7 DEF KeyOK, Linked
    <2>9. ASSUME k \notin clash' PROVE Alone(k)'
      <3>1. k \notin manifest /\ Populating(k) = {} /\ k \notin clash
        BY <1>2, <2>3, <2>5, <2>9 DEF BuildOne
      <3>2. Owns(d, k)'
        <4>1. Copied(d)' = {}
          BY <2>2 DEF Copied
        <4> QED
          BY <2>2, <4>1 DEF Owns
      <3> QED
        BY <1>2, <2>6, <3>1, <3>2 DEF Alone
    <2> QED
      BY <1>1, <2>4, <2>5, <2>8, <2>9 DEF KeyOK, KeyInv
  <1> QED
    BY <1>3, <1>4

\* A step of d on file f of its entry leaves the other files of the entry, and the
\* other entries, as they were.
OnlyFile(k, f) == \A l \in Sources, g \in Files : l # k \/ g # f =>
  cache'[l][g] = cache[l][g] /\ writers'[l][g] = writers[l][g] /\ blend'[l][g] = blend[l][g]

LEMMA OnlyFileElsewhere ==
  ASSUME TypeInv, TypeInv', NEW k \in Sources, NEW f \in Files, OnlyFile(k, f),
         NEW l \in Sources, l # k
  PROVE  cache'[l] = cache[l] /\ writers'[l] = writers[l] /\ blend'[l] = blend[l]
  <1>1. \A g \in Files : cache'[l][g] = cache[l][g] /\ writers'[l][g] = writers[l][g] /\ blend'[l][g] = blend[l][g]
    BY DEF OnlyFile
  <1>2. cache'[l] \in [Files -> Content] /\ cache[l] \in [Files -> Content]
    BY DEF TypeInv, EntryOK
  <1>3. writers'[l] \in [Files -> SUBSET Drivers] /\ writers[l] \in [Files -> SUBSET Drivers]
    BY DEF TypeInv, EntryOK
  <1>4. /\ blend'[l] \in [Files -> SUBSET (Plans \cup {Crashed})]
        /\ blend[l] \in [Files -> SUBSET (Plans \cup {Crashed})]
    BY DEF TypeInv, EntryOK
  <1> QED
    BY <1>1, <1>2, <1>3, <1>4

\* A driver's step from one file of populateCache to the next.
LEMMA OtherEntries ==
  ASSUME KeyInv, TypeInv', NEW d \in Drivers, Elsewhere(d), plan' = plan, clash' = clash,
         NEW f \in Files, OnlyFile(Key(d), f),
         \A l \in Sources : l # Key(d) => (l \in manifest') = (l \in manifest)
  PROVE  \A k \in Sources : k # Key(d) => KeyOK(k)'
  <1> SUFFICES ASSUME NEW k \in Sources, k # Key(d) PROVE KeyOK(k)'
    OBVIOUS
  <1>1. d \notin Populating(k) /\ d \notin Populating(k)'
    BY DEF Populating, Key
  <1>2. SamePopulating(k)
    BY <1>1, OtherKeys DEF KeyInv
  <1>3. Key(d) \in Sources
    BY DriverFacts DEF KeyInv
  <1>4. cache'[k] = cache[k] /\ writers'[k] = writers[k] /\ blend'[k] = blend[k]
    BY <1>3, OnlyFileElsewhere DEF KeyInv
  <1> QED
    BY <1>2, <1>4, Untouched DEF SameEntry, KeyInv

LEMMA OpenKeys ==
  ASSUME KeyInv, TypeInv', NEW d \in Drivers, Open(d)
  PROVE  KeyInv'
  <1> DEFINE K == Key(d)
             F == CachedAt(at[d])
  <1>1. PICK k \in Sources, f \in Files : k = K /\ f = F
    BY DriverFacts DEF KeyInv
  <1>2. Elsewhere(d) /\ TypeInv
    BY StepElsewhere DEF KeyInv, Step
  <1>3. /\ cache' = [cache EXCEPT ![k][f] = Partial]
        /\ writers' = [writers EXCEPT ![k][f] = @ \cup {d}]
        /\ blend' = [blend EXCEPT ![k][f] = @ \cup {plan[d]}]
        /\ manifest' = manifest /\ clash' = clash /\ plan' = plan /\ pc[d] = "open"
    BY <1>1 DEF Open, callVars
  <1>4. pc'[d] = "write" /\ at'[d] = at[d]
    BY <1>2 DEF Open, Go, TypeInv, CallOK
  <1>5. OnlyFile(k, f)
    BY <1>2, <1>3 DEF OnlyFile, TypeInv, EntryOK
  <1>6. writers'[k][f] = writers[k][f] \cup {d} /\ blend'[k][f] = blend[k][f] \cup {plan[d]}
    BY <1>2, <1>3 DEF TypeInv, EntryOK
  <1>7. \A l \in Sources : l # K => KeyOK(l)'
    BY <1>1, <1>2, <1>3, <1>5, OtherEntries
  <1>8. KeyOK(k)
    BY DEF KeyInv
  <1>9. Populating(k)' = Populating(k) /\ d \in Populating(k)
    BY <1>1, <1>2, <1>3, <1>4 DEF Elsewhere, Populating, Key
  <1>10. \A e \in Populating(k) \ {d} : pc'[e] = pc[e] /\ at'[e] = at[e]
    BY <1>2 DEF Elsewhere, Populating
  <1>11. CachedAt(at'[d]) = f
    BY <1>1, <1>4
  <1> HIDE DEF K, F
  <1>12. Linked(k)'
    <2> SUFFICES ASSUME NEW g \in Files
                 PROVE  /\ \A e \in writers'[k][g] :
                             e \in Populating(k)' /\ pc'[e] = "write" /\ CachedAt(at'[e]) = g
                        /\ writers'[k][g] = {} => blend'[k][g] = {}
      BY DEF Linked, CachedAt, FileOf
    <2>1. \A e \in writers[k][g] : e \in Populating(k) /\ e # d /\ pc[e] = "write" /\ CachedAt(at[e]) = g
      BY <1>3, <1>8 DEF KeyOK, Linked
    <2>2. \A e \in writers[k][g] : e \in Populating(k)' /\ pc'[e] = "write" /\ CachedAt(at'[e]) = g
      BY <2>1, <1>9, <1>10
    <2>3. CASE g = f
      BY <2>2, <2>3, <1>4, <1>6, <1>9, <1>11
    <2>4. CASE g # f
      BY <2>2, <2>4, <1>5, <1>8 DEF OnlyFile, KeyOK, Linked
    <2> QED
      BY <2>3, <2>4
  <1>13. ASSUME k \notin clash' PROVE Alone(k)'
    <2>1. Alone(k)
      BY <1>3, <1>8, <1>13 DEF KeyOK
    <2>2. Populating(k) = {d} /\ k \notin manifest
      BY <1>9, <2>1 DEF Alone
    <2>3. writers[k][f] = {} /\ blend[k][f] = {}
      BY <1>3, <1>8, <2>2 DEF KeyOK, Linked
    <2>4. blend'[k][f] = {plan[d]} /\ d \in writers'[k][f]
      BY <1>6, <2>3
    <2>5. \A g \in Copied(d)' : g \in Copied(d) /\ g # f /\ g \in Files
      BY <1>3, <1>4, <1>11 DEF Copied, CachedAt, FileOf
    <2>6. \A g \in Copied(d)' : Good(k, g)'
      BY <1>5, <2>1, <2>5, <1>9 DEF OnlyFile, Good, Alone, Owns
    <2>7. Owns(d, k)'
      BY <1>3, <1>11, <2>4, <2>6 DEF Owns, CachedAt, FileOf
    <2> QED
      BY <1>3, <1>9, <2>2, <2>7 DEF Alone
  <1> QED
    BY <1>1, <1>2, <1>7, <1>12, <1>13 DEF KeyOK, KeyInv, K


\* Alone with its file, a driver leaves what its plan compiles to.
LEMMA FinishAlone ==
  ASSUME TypeInv, NEW d \in Drivers, NEW k \in Sources, NEW f \in Files, k = Key(d), f = CachedAt(at[d]),
         writers[k][f] \subseteq {d}, blend[k][f] = {plan[d]}
  PROVE  Finish(d) \subseteq Whole(k)
  <1>1. plan[d] \in Plans /\ plan[d].src = k
    BY DriverFacts DEF Key
  <1>2. Crashed \notin blend[k][f] /\ blend[k][f] \ {Crashed} = {plan[d]}
    BY <1>1, CrashedAssumption
  <1>3. Cardinality({plan[d]}) = 1
    BY FS_Singleton
  <1>4. \A c \in Finish(d) : c = plan[d]
    BY <1>2, <1>3 DEF Finish
  <1>5. plan[d] \in Whole(k)
    BY <1>1 DEF Whole, Plans
  <1> QED
    BY <1>4, <1>5

\* Write lets go of d's file, and changes no other.
LEMMA WriteFacts ==
  ASSUME KeyInv, NEW d \in Drivers, Write(d), NEW k \in Sources, NEW f \in Files,
         k = Key(d), f = CachedAt(at[d])
  PROVE  /\ OnlyFile(k, f)
         /\ writers'[k][f] = writers[k][f] \ {d}
         /\ writers'[k][f] = {} => blend'[k][f] = {}
         /\ d \in writers[k][f] => cache'[k][f] \in Finish(d)
         /\ d \notin writers[k][f] => cache'[k][f] = cache[k][f]
  <1>1. TypeInv
    BY DEF KeyInv
  <1>2. CASE d \in writers[k][f]
    <2>1. PICK c \in Finish(d) : Close(d, c)
      BY <1>2 DEF Write
    <2>2. /\ cache' = [cache EXCEPT ![k][f] = c]
          /\ writers' = [writers EXCEPT ![k][f] = @ \ {d}]
          /\ blend' = [blend EXCEPT ![k][f] = IF writers'[k][f] = {} THEN {} ELSE @]
      BY <2>1 DEF Close
    <2>3. OnlyFile(k, f)
      BY <1>1, <2>2 DEF OnlyFile, TypeInv, EntryOK
    <2>4. cache'[k][f] = c /\ writers'[k][f] = writers[k][f] \ {d}
      BY <1>1, <2>2 DEF TypeInv, EntryOK
    <2>5. writers'[k][f] = {} => blend'[k][f] = {}
      BY <1>1, <2>2 DEF TypeInv, EntryOK
    <2> QED
      BY <1>2, <2>3, <2>4, <2>5
  <1>3. CASE d \notin writers[k][f]
    <2>1. UNCHANGED <<cache, writers, blend>>
      BY <1>3 DEF Write
    <2>2. writers[k][f] = {} => blend[k][f] = {}
      BY DEF KeyInv, KeyOK, Linked
    <2> QED
      BY <1>3, <2>1, <2>2 DEF OnlyFile
  <1> QED
    BY <1>2, <1>3

LEMMA WriteKeys ==
  ASSUME KeyInv, TypeInv', NEW d \in Drivers, Write(d)
  PROVE  KeyInv'
  <1>1. PICK k \in Sources, f \in Files : k = Key(d) /\ f = CachedAt(at[d])
    BY DriverFacts DEF KeyInv
  <1>2. Elsewhere(d) /\ TypeInv
    BY StepElsewhere DEF KeyInv, Step
  <1>3. manifest' = manifest /\ clash' = clash /\ plan' = plan /\ pc[d] = "write"
    BY DEF Write, callVars
  <1>4. /\ at[d] = LastFile => pc'[d] = "manifest"
        /\ at[d] # LastFile => pc'[d] = "open" /\ at'[d] = at[d] + 1
    BY <1>2 DEF Write, Go, TypeInv, CallOK
  <1>5. /\ OnlyFile(k, f)
        /\ writers'[k][f] = writers[k][f] \ {d}
        /\ writers'[k][f] = {} => blend'[k][f] = {}
        /\ d \in writers[k][f] => cache'[k][f] \in Finish(d)
        /\ d \notin writers[k][f] => cache'[k][f] = cache[k][f]
    BY <1>1, WriteFacts
  <1>6. \A l \in Sources : l # k => KeyOK(l)'
    BY <1>1, <1>2, <1>3, <1>5, OtherEntries
  <1>7. KeyOK(k)
    BY DEF KeyInv
  <1>8. Populating(k)' = Populating(k) /\ d \in Populating(k)
    BY <1>1, <1>2, <1>3, <1>4 DEF Elsewhere, Populating, Key
  <1>9. \A e \in Populating(k) \ {d} : pc'[e] = pc[e] /\ at'[e] = at[e]
    BY <1>2 DEF Elsewhere, Populating
  <1>10. Linked(k)'
    <2> SUFFICES ASSUME NEW g \in Files
                 PROVE  /\ \A e \in writers'[k][g] :
                             e \in Populating(k)' /\ pc'[e] = "write" /\ CachedAt(at'[e]) = g
                        /\ writers'[k][g] = {} => blend'[k][g] = {}
      BY DEF Linked, CachedAt, FileOf
    <2>1. writers'[k][g] \subseteq writers[k][g] \ {d}
      <3>1. CASE g = f
        BY <1>5, <3>1
      <3>2. CASE g # f
        BY <1>1, <1>5, <1>7, <3>2 DEF OnlyFile, KeyOK, Linked
      <3> QED
        BY <3>1, <3>2
    <2>2. \A e \in writers[k][g] : e \in Populating(k) /\ pc[e] = "write" /\ CachedAt(at[e]) = g
      BY <1>7 DEF KeyOK, Linked
    <2>3. writers'[k][g] = {} => blend'[k][g] = {}
      BY <1>5, <1>7 DEF OnlyFile, KeyOK, Linked
    <2> QED
      BY <2>1, <2>2, <2>3, <1>8, <1>9
  <1>11. ASSUME k \notin clash' PROVE Alone(k)'
    <2>1. Alone(k)
      BY <1>3, <1>7, <1>11 DEF KeyOK
    <2>2. Populating(k) = {d} /\ k \notin manifest /\ Owns(d, k)
      BY <1>8, <2>1 DEF Alone
    <2>3. cache'[k][f] = Missing \/ cache'[k][f] \in Whole(k)
      <3>1. CASE d \in writers[k][f]
        <4>1. blend[k][f] = {plan[d]}
          BY <1>1, <1>3, <2>2, <3>1 DEF Owns
        <4>2. writers[k][f] \subseteq {d}
          BY <1>7, <2>2 DEF KeyOK, Linked
        <4> QED
          BY <1>1, <1>2, <1>5, <3>1, <4>1, <4>2, FinishAlone
      <3>2. CASE d \notin writers[k][f]
        BY <1>1, <1>3, <1>5, <2>2, <3>2 DEF Owns, Good
      <3> QED
        BY <3>1, <3>2
    <2>4. \A g \in Copied(d)' : g \in Files /\ (g = f \/ g \in Copied(d))
      <3>1. ASSUME NEW g \in Files, g # f, NEW m \in 1..LastFile, m <= at[d], CachedAt(m) = g
            PROVE  g \in Copied(d)
        <4>1. m < at[d]
          BY <1>1, <1>2, <3>1, DriverFacts, LastFileFacts
        <4> QED
          BY <1>1, <1>3, <3>1, <4>1 DEF Copied
      <3>2. at[d] \in 1..LastFile
        BY <1>2, DriverFacts
      <3>3. CASE at[d] = LastFile
        <4>1. Copied(d)' = Files
          BY <1>4, <3>3 DEF Copied
        <4>2. \A g \in Files : \E m \in 1..LastFile : m <= at[d] /\ CachedAt(m) = g
          BY <3>3, FileFacts, LastFileFacts
        <4> QED
          BY <3>1, <4>1, <4>2
      <3>4. CASE at[d] # LastFile
        <4>1. \A g \in Copied(d)' : g \in Files /\ \E m \in 1..LastFile : m < at[d] + 1 /\ CachedAt(m) = g
          BY <1>4, <3>4 DEF Copied, CachedAt, FileOf
        <4>2. \A m \in 1..LastFile : m < at[d] + 1 => m <= at[d]
          BY <3>2, LastFileFacts
        <4> QED
          BY <3>1, <4>1, <4>2
      <3> QED
        BY <3>3, <3>4
    <2>5. \A g \in Copied(d)' : Good(k, g)'
      <3>1. ASSUME NEW g \in Copied(d)', g # f PROVE Good(k, g)'
        BY <1>5, <2>2, <2>4, <3>1 DEF Good, Owns, OnlyFile
      <3>2. Good(k, f)'
        BY <2>3 DEF Good
      <3> QED
        BY <3>1, <3>2
    <2>6. Owns(d, k)'
      BY <1>4, <2>5 DEF Owns
    <2> QED
      BY <1>3, <1>8, <2>2, <2>6 DEF Alone
  <1> QED
    BY <1>1, <1>2, <1>6, <1>10, <1>11 DEF KeyOK, KeyInv


\* The end of populateCache, well or not: d lets go of its file, the entry may be
\* announced if d was at the manifest, and d is not in the entry any more.
LEMMA EndKeys ==
  ASSUME KeyInv, TypeInv', NEW d \in Drivers, Elsewhere(d), pc'[d] = "idle", UNCHANGED <<plan, clash>>,
         NEW k \in Sources, NEW f \in Files, k = Key(d), f = CachedAt(at[d]), pc[d] \in Populates,
         OnlyFile(k, f), writers'[k][f] = writers[k][f] \ {d}, writers'[k][f] = {} => blend'[k][f] = {},
         pc[d] = "manifest" => cache' = cache,
         manifest' = manifest \/ (pc[d] = "manifest" /\ manifest' = manifest \cup {k})
  PROVE  KeyInv'
  <1>1. \A l \in Sources : l # k => KeyOK(l)'
    BY OtherEntries
  <1>2. TypeInv /\ KeyOK(k)
    BY DEF KeyInv
  <1>3. Populating(k)' = Populating(k) \ {d} /\ d \in Populating(k)
    BY <1>2 DEF Elsewhere, Populating, Key, Populates
  <1>4. \A e \in Populating(k) \ {d} : pc'[e] = pc[e] /\ at'[e] = at[e]
    BY DEF Elsewhere, Populating
  <1>5. Linked(k)'
    <2> SUFFICES ASSUME NEW g \in Files
                 PROVE  /\ \A e \in writers'[k][g] :
                             e \in Populating(k)' /\ pc'[e] = "write" /\ CachedAt(at'[e]) = g
                        /\ writers'[k][g] = {} => blend'[k][g] = {}
      BY DEF Linked, CachedAt, FileOf
    <2>1. writers'[k][g] \subseteq writers[k][g] \ {d}
      <3>1. CASE g = f
        BY <3>1
      <3>2. CASE g # f
        BY <1>2, <3>2 DEF OnlyFile, KeyOK, Linked
      <3> QED
        BY <3>1, <3>2
    <2>2. \A e \in writers[k][g] : e \in Populating(k) /\ pc[e] = "write" /\ CachedAt(at[e]) = g
      BY <1>2 DEF KeyOK, Linked
    <2>3. writers'[k][g] = {} => blend'[k][g] = {}
      BY <1>2 DEF OnlyFile, KeyOK, Linked
    <2> QED
      BY <2>1, <2>2, <2>3, <1>3, <1>4
  <1>6. ASSUME k \notin clash' PROVE Alone(k)'
    <2>1. Alone(k)
      BY <1>2, <1>6 DEF KeyOK
    <2>2. Populating(k) = {d} /\ k \notin manifest /\ Owns(d, k)
      BY <1>3, <2>1 DEF Alone
    <2>3. ASSUME k \in manifest' PROVE \A g \in Files : Good(k, g)'
      <3>1. pc[d] = "manifest" /\ cache' = cache
        BY <2>2, <2>3
      <3>2. Copied(d) = Files
        BY <3>1 DEF Copied
      <3> QED
        BY <2>2, <3>1, <3>2 DEF Owns, Good
    <2> QED
      BY <1>3, <2>2, <2>3 DEF Alone
  <1> QED
    BY <1>1, <1>5, <1>6 DEF KeyOK, KeyInv

\* A driver that is not in the middle of a file writes none.
LEMMA NoWriter ==
  ASSUME KeyInv, NEW d \in Drivers, NEW k \in Sources, NEW f \in Files, pc[d] # "write"
  PROVE  d \notin writers[k][f] /\ (writers[k][f] = {} => blend[k][f] = {})
  BY DEF KeyInv, KeyOK, Linked

LEMMA WriteManifestKeys ==
  ASSUME KeyInv, TypeInv', NEW d \in Drivers, WriteManifest(d)
  PROVE  KeyInv'
  <1>1. PICK k \in Sources, f \in Files : k = Key(d) /\ f = CachedAt(at[d])
    BY DriverFacts DEF KeyInv
  <1>2. Elsewhere(d) /\ TypeInv
    BY StepElsewhere DEF KeyInv, Step
  <1>3. /\ pc[d] = "manifest" /\ UNCHANGED <<cache, writers, blend, clash, plan>>
        /\ manifest' = manifest \cup {k}
    BY <1>1 DEF WriteManifest, callVars
  <1>4. pc'[d] = "idle"
    BY <1>2 DEF WriteManifest, Return, TypeInv, CallOK
  <1>5. d \notin writers[k][f] /\ (writers[k][f] = {} => blend[k][f] = {})
    BY <1>3, NoWriter
  <1>6. OnlyFile(k, f) /\ writers'[k][f] = writers[k][f] \ {d} /\ (writers'[k][f] = {} => blend'[k][f] = {})
    BY <1>3, <1>5 DEF OnlyFile
  <1> QED
    BY <1>1, <1>2, <1>3, <1>4, <1>6, EndKeys DEF Populates

LEMMA LeaveKeys ==
  ASSUME KeyInv, TypeInv', NEW d \in Drivers, Elsewhere(d), LeaveFile(d), pc'[d] = "idle",
         UNCHANGED <<plan, clash>>
  PROVE  KeyInv'
  <1>1. PICK k \in Sources, f \in Files : k = Key(d) /\ f = CachedAt(at[d])
    BY DriverFacts DEF KeyInv
  <1>2. TypeInv
    BY DEF KeyInv
  <1>3. manifest' = manifest \/ (pc[d] = "manifest" /\ manifest' = manifest \cup {k})
    BY <1>1 DEF LeaveFile
  <1>4. CASE pc[d] = "write" /\ d \in writers[k][f]
    <2>1. PICK c : cache' = [cache EXCEPT ![k][f] = c]
      BY <1>1, <1>4 DEF LeaveFile
    <2>2. /\ writers' = [writers EXCEPT ![k][f] = @ \ {d}]
          /\ blend' = [blend EXCEPT ![k][f] = IF writers'[k][f] = {} THEN {} ELSE @ \cup {Crashed}]
      BY <1>1, <1>4 DEF LeaveFile
    <2>3. OnlyFile(k, f)
      BY <1>2, <2>1, <2>2 DEF OnlyFile, TypeInv, EntryOK
    <2>4. writers'[k][f] = writers[k][f] \ {d}
      BY <1>2, <2>2 DEF TypeInv, EntryOK
    <2>5. writers'[k][f] = {} => blend'[k][f] = {}
      BY <1>2, <2>2 DEF TypeInv, EntryOK
    <2> QED
      BY <1>1, <1>3, <1>4, <2>3, <2>4, <2>5, EndKeys DEF Populates
  <1>5. CASE ~(pc[d] = "write" /\ d \in writers[k][f])
    <2>1. UNCHANGED <<cache, writers, blend>>
      BY <1>1, <1>5 DEF LeaveFile
    <2>2. CASE pc[d] \in Populates
      <3>1. d \notin writers[k][f] /\ (writers[k][f] = {} => blend[k][f] = {})
        BY <1>5 DEF KeyInv, KeyOK, Linked
      <3>2. /\ OnlyFile(k, f) /\ writers'[k][f] = writers[k][f] \ {d}
            /\ writers'[k][f] = {} => blend'[k][f] = {}
        BY <2>1, <3>1 DEF OnlyFile
      <3> QED
        BY <1>1, <1>3, <2>1, <2>2, <3>2, EndKeys
    <2>3. CASE pc[d] \notin Populates
      BY <1>3, <2>1, <2>3, QuietKeys DEF Populates
    <2> QED
      BY <2>2, <2>3
  <1> QED
    BY <1>4, <1>5

LEMMA EvictKeys ==
  ASSUME KeyInv, TypeInv', NEW k \in Sources, NEW f \in Files, Evict(k, f)
  PROVE  KeyInv'
  <1>1. TypeInv
    BY DEF KeyInv
  <1>2. UNCHANGED <<manifest, clash, plan, pc, at>>
    BY DEF Evict, callVars
  <1>3. OnlyFile(k, f)
    BY <1>1 DEF Evict, OnlyFile, TypeInv, EntryOK
  <1>4. cache'[k][f] = Missing /\ writers'[k][f] = {} /\ blend'[k][f] = {}
    BY <1>1 DEF Evict, TypeInv, EntryOK
  <1>5. \A l : Populating(l)' = Populating(l) /\ SamePopulating(l)
    BY <1>2 DEF SamePopulating, Populating, Key
  <1>6. ASSUME NEW l \in Sources, l # k PROVE KeyOK(l)'
    <2>1. cache'[l] = cache[l] /\ writers'[l] = writers[l] /\ blend'[l] = blend[l]
      BY <1>1, <1>3, <1>6, OnlyFileElsewhere
    <2> QED
      BY <1>2, <1>5, <2>1, Untouched DEF SameEntry, KeyInv
  <1>7. KeyOK(k)
    BY DEF KeyInv
  <1>8. \A g \in Files : Good(k, g) => Good(k, g)'
    BY <1>3, <1>4 DEF OnlyFile, Good
  <1>9. Linked(k)'
    <2> SUFFICES ASSUME NEW g \in Files
                 PROVE  /\ \A e \in writers'[k][g] :
                             e \in Populating(k) /\ pc[e] = "write" /\ CachedAt(at[e]) = g
                        /\ writers'[k][g] = {} => blend'[k][g] = {}
      BY <1>2, <1>5 DEF Linked, CachedAt, FileOf
    <2> QED
      BY <1>3, <1>4, <1>7 DEF OnlyFile, KeyOK, Linked
  <1>10. ASSUME k \notin clash PROVE Alone(k)'
    <2>1. Alone(k)
      BY <1>7, <1>10 DEF KeyOK
    <2>2. ASSUME NEW d \in Populating(k) PROVE Owns(d, k)'
      <3>1. Owns(d, k) /\ TypeInv
        BY <1>1, <2>1 DEF Alone
      <3>2. Copied(d)' = Copied(d) /\ \A g \in Copied(d) : g \in Files
        BY <1>2 DEF Copied
      <3>3. PICK g \in Files : g = CachedAt(at[d])
        BY <3>1, DriverFacts DEF Populating
      <3>4. CachedAt(at[d])' = g
        BY <1>2, <3>3 DEF CachedAt, FileOf
      <3>5. pc[d] = "write" => IF d \in writers'[k][g] THEN blend'[k][g] = {plan[d]} ELSE Good(k, g)'
        <4>1. pc[d] = "write" => IF d \in writers[k][g] THEN blend[k][g] = {plan[d]} ELSE Good(k, g)
          BY <3>1, <3>3 DEF Owns
        <4>2. CASE g = f
          BY <1>4, <4>2 DEF Good
        <4>3. CASE g # f
          BY <1>3, <1>8, <4>1, <4>3 DEF OnlyFile
        <4> QED
          BY <4>2, <4>3
      <3>6. \A h \in Copied(d)' : Good(k, h)'
        BY <1>8, <3>1, <3>2 DEF Owns
      <3> QED
        BY <1>2, <3>4, <3>5, <3>6 DEF Owns, Good
    <2> QED
      BY <1>2, <1>5, <1>8, <2>1, <2>2 DEF Alone
  <1> QED
    BY <1>2, <1>6, <1>9, <1>10 DEF KeyOK, KeyInv

LEMMA EvictManifestKeys ==
  ASSUME KeyInv, TypeInv', NEW k \in Sources, EvictManifest(k)
  PROVE  KeyInv'
  <1>1. UNCHANGED <<cache, writers, blend, plan, pc, at>>
    BY DEF EvictManifest, callVars
  <1>2. \A l : SamePopulating(l) /\ Populating(l)' = Populating(l)
    BY <1>1 DEF SamePopulating, Populating, Key
  <1>3. ASSUME NEW l \in Sources, l # k PROVE KeyOK(l)'
    <2>1. SameEntry(l)
      BY <1>1, <1>3 DEF EvictManifest, SameEntry
    <2> QED
      BY <1>2, <2>1, Untouched DEF KeyInv
  <1>4. KeyOK(k)'
    <2>1. Linked(k)
      BY DEF KeyInv, KeyOK
    <2>2. Linked(k)'
      BY <1>1, <1>2, <2>1 DEF Linked, CachedAt, FileOf
    <2> QED
      BY <2>2 DEF EvictManifest, KeyOK
  <1> QED
    BY <1>3, <1>4 DEF KeyInv

\* The steps of a call that is not in populateCache.
LEMMA QuietSteps ==
  ASSUME KeyInv, TypeInv', NEW d \in Drivers,
         \/ Start(d) \/ LookupMiss(d) \/ LookupEntry(d) \/ Stat(d) \/ Copy(d)
         \/ LookupFails(d) \/ CopyFails(d) \/ BuildFails(d)
  PROVE  KeyInv'
  <1>1. Elsewhere(d) /\ TypeInv
    BY StepElsewhere DEF KeyInv, Step
  <1>2. UNCHANGED entryVars
    BY DEF Start, LookupMiss, LookupEntry, Stat, Copy, LookupFails, CopyFails, BuildFails
  <1>3. pc[d] \notin Populates
    BY DEF Start, LookupMiss, LookupEntry, Stat, Copy, LookupFails, CopyFails, BuildFails, Populates
  <1>4. pc'[d] \in {"idle", "lookup", "stat", "copy", "build"}
    BY <1>1 DEF Start, LookupMiss, LookupEntry, Stat, Copy, LookupFails, CopyFails, BuildFails,
                Miss, Go, Return, Fail, TypeInv, CallOK
  <1> QED
    BY <1>1, <1>2, <1>3, <1>4, QuietKeys DEF Populates, entryVars

LEMMA StepKeys == KeyInv /\ [Next]_vars => KeyInv'
  <1> SUFFICES ASSUME KeyInv, [Next]_vars PROVE KeyInv'
    OBVIOUS
  <1>1. TypeInv /\ TypeInv'
    BY StepType DEF KeyInv
  <1>2. ASSUME NEW d \in Drivers, PopulateFails(d) \/ Crash(d) PROVE KeyInv'
    <2>1. Elsewhere(d)
      BY <1>1, <1>2, StepElsewhere
    <2>2. LeaveFile(d) /\ UNCHANGED <<plan, clash>>
      BY <1>2 DEF PopulateFails, Crash, callVars
    <2>3. pc'[d] = "idle"
      BY <1>1, <1>2 DEF PopulateFails, Crash, Fail, Return, TypeInv, CallOK
    <2> QED
      BY <1>1, <2>1, <2>2, <2>3, LeaveKeys
  <1>3. CASE UNCHANGED vars
    <2>1. UNCHANGED <<manifest, cache, writers, blend, clash, plan, pc, at>>
      BY <1>3 DEF vars, entryVars, callVars
    <2>2. \A l \in Sources : SamePopulating(l) /\ SameEntry(l)
      BY <2>1 DEF SamePopulating, SameEntry, Populating, Key
    <2> QED
      BY <1>1, <2>2, Untouched DEF KeyInv
  <1> QED
    BY <1>1, <1>2, <1>3, QuietSteps, BuildOneKeys, OpenKeys, WriteKeys, WriteManifestKeys,
       EvictKeys, EvictManifestKeys DEF Next, Step

LEMMA KeysAreInvariant == Spec => []KeyInv
  BY InitKeys, StepKeys, PTL DEF Spec

\* populateCache writes the manifest last: unless its key was populated twice, an
\* entry that tryCacheHit can find has whole archives and headers of the key's
\* sources, or lost some, whatever copies failed or builds were killed.
THEOREM AnnouncedIsWhole == Spec => []ManifestLast
  <1>1. KeyInv => ManifestLast
    <2> SUFFICES ASSUME KeyInv, NEW k \in manifest \ clash, NEW f \in Files
                 PROVE  cache[k][f] = Missing \/ cache[k][f] \in [src : {k}, env : Envs]
      BY DEF ManifestLast
    <2>1. k \in Sources
      BY DEF KeyInv, TypeInv, EntryOK
    <2> QED
      BY <2>1 DEF KeyInv, KeyOK, Alone, Good, Whole
  <1> QED
    BY <1>1, KeysAreInvariant, PTL

-------------------------------------------------------------------------------
(* A hit is whole.  What a lookup has copied so far: *)

HitOK(d) == Key(d) \notin clash =>
  /\ pc[d] \in {"stat", "copy"} =>
       /\ Key(d) \in manifest
       /\ \A m \in 1..LastFile : m < at[d] => work[d][FileAt(m)] \in Whole(Key(d))
  /\ result[d] = "hit" => \A f \in Files : work[d][f] \in Whole(Key(d))

HitInv == KeyInv /\ \A d \in Drivers : HitOK(d)

LEMMA InitHits == Init => HitInv
  BY InitKeys DEF Init, HitInv, HitOK

\* A manifest goes only with its key's proviso.
KeepsManifests == clash \subseteq clash' /\ \A k \in manifest : k \in manifest' \/ k \in clash'

LEMMA NextKeepsManifests ==
  ASSUME [Next]_vars
  PROVE  KeepsManifests
  <1>1. ASSUME NEW d \in Drivers,
               Start(d) \/ Step(d) \/ Crash(d) \/ LookupFails(d) \/ CopyFails(d) \/ BuildFails(d) \/ PopulateFails(d)
        PROVE  KeepsManifests
    BY <1>1 DEF KeepsManifests, Start, Step, LookupMiss, LookupEntry, Stat, Copy, BuildOne, Open, Write,
         WriteManifest, Crash, LookupFails, CopyFails, BuildFails, PopulateFails, LeaveFile, entryVars
  <1>2. ASSUME NEW k \in Sources, EvictManifest(k) \/ \E f \in Files : Evict(k, f) PROVE KeepsManifests
    BY <1>2 DEF KeepsManifests, EvictManifest, Evict
  <1> QED
    BY <1>1, <1>2 DEF Next, KeepsManifests, vars, entryVars

\* Calls that do not move.
LEMMA StillHits ==
  ASSUME KeepsManifests, NEW e \in Drivers, HitOK(e), pc'[e] = pc[e], at'[e] = at[e], plan'[e] = plan[e],
         work'[e] = work[e], result'[e] = result[e]
  PROVE  HitOK(e)'
  <1>1. Key(e)' = Key(e)
    BY DEF Key
  <1>2. \A m \in 1..LastFile : FileAt(m)' = FileAt(m)
    BY DEF FileAt, FileOf
  <1> QED
    BY <1>1, <1>2 DEF KeepsManifests, HitOK

\* Steps that leave d outside tryCacheHit and without a hit.
LEMMA NoHit ==
  ASSUME NEW d \in Drivers, pc'[d] \notin {"stat", "copy"}, result'[d] # "hit"
  PROVE  HitOK(d)'
  BY DEF HitOK

LEMMA CopyHits ==
  ASSUME HitInv, NEW d \in Drivers, Copy(d)
  PROVE  HitOK(d)'
  <1>1. PICK k \in Sources, f \in Files : k = Key(d) /\ f = FileAt(at[d])
    BY DriverFacts DEF HitInv, KeyInv
  <1>2. TypeInv /\ KeyOK(k) /\ pc[d] = "copy" /\ UNCHANGED <<manifest, clash, plan>>
    BY DEF HitInv, KeyInv, Copy, entryVars, callVars
  <1>3. Key(d)' = k
    BY <1>1, <1>2 DEF Key
  <1>4. CASE k \in clash
    BY <1>2, <1>3, <1>4 DEF HitOK
  <1>5. CASE k \notin clash
    <2>1. k \in manifest /\ \A m \in 1..LastFile : m < at[d] => work[d][FileAt(m)] \in Whole(k)
      BY <1>1, <1>2, <1>5 DEF HitInv, HitOK
    <2>2. cache[k][f] \in Whole(k)
      BY <1>1, <1>2, <1>5, <2>1 DEF Copy, KeyOK, Alone, Good
    <2>3. work' = [work EXCEPT ![d][f] = cache[k][f]]
      BY <1>1 DEF Copy, Put
    <2>4. work'[d] = [work[d] EXCEPT ![f] = cache[k][f]] /\ work[d] \in [Files -> Content]
      BY <1>2, <2>3 DEF TypeInv, WorkOK
    <2>5. \A m \in 1..LastFile : m <= at[d] => work'[d][FileAt(m)] \in Whole(k)
      <3> SUFFICES ASSUME NEW m \in 1..LastFile, m <= at[d] PROVE work'[d][FileAt(m)] \in Whole(k)
        OBVIOUS
      <3>1. FileAt(m) \in Files
        BY FileFacts
      <3>2. CASE FileAt(m) = f
        BY <2>2, <2>4, <3>2
      <3>3. CASE FileAt(m) # f
        <4>1. m < at[d]
          BY <1>1, <1>2, <3>3, DriverFacts, LastFileFacts
        <4> QED
          BY <2>1, <2>4, <3>1, <3>3, <4>1
      <3> QED
        BY <3>2, <3>3
    <2>6. CASE at[d] = LastFile
      <3>1. pc'[d] = "idle"
        BY <1>2, <2>6 DEF Copy, Return, TypeInv, CallOK
      <3>2. \A g \in Files : work'[d][g] \in Whole(k)
        BY <2>5, <2>6, FileFacts, LastFileFacts
      <3> QED
        BY <1>3, <3>1, <3>2 DEF HitOK, Whole
    <2>7. CASE at[d] # LastFile
      <3>1. at'[d] = at[d] + 1 /\ result' = result
        BY <1>2, <2>7 DEF Copy, Go, TypeInv, CallOK
      <3>2. result[d] # "hit"
        BY <1>2 DEF TypeInv, CallOK
      <3>3. \A m \in 1..LastFile : m < at'[d] => work'[d][FileAt(m)] \in Whole(k)
        BY <1>2, <2>5, <3>1, DriverFacts, LastFileFacts
      <3>4. \A m \in 1..LastFile : FileAt(m)' = FileAt(m)
        BY DEF FileAt, FileOf
      <3> QED
        BY <1>2, <1>3, <2>1, <3>1, <3>2, <3>3, <3>4 DEF HitOK, Whole
    <2> QED
      BY <2>6, <2>7
  <1> QED
    BY <1>4, <1>5

\* A hit starts at an entry with a manifest, and goes on past files it has copied.
LEMMA LookHits ==
  ASSUME HitInv, NEW d \in Drivers, LookupMiss(d) \/ LookupEntry(d) \/ Stat(d)
  PROVE  HitOK(d)'
  <1>1. TypeInv
    BY DEF HitInv, KeyInv
  <1>2. UNCHANGED <<entryVars, callVars, work>>
    BY DEF LookupMiss, LookupEntry, Stat
  <1>3. pc[d] # "idle" /\ result[d] = "none"
    BY <1>1 DEF LookupMiss, LookupEntry, Stat, TypeInv, CallOK
  <1>4. CASE Miss(d)
    <2>1. pc'[d] \in {"idle", "build"} /\ result'[d] \in {"skipped", "none"}
      BY <1>1, <1>3, <1>4 DEF Miss, Go, Return, TypeInv, CallOK
    <2> QED
      BY <2>1, NoHit
  <1>5. CASE LookupEntry(d)
    <2>1. pc'[d] = "stat" /\ at'[d] = 1 /\ result'[d] = "none" /\ Key(d)' = Key(d) /\ Key(d) \in manifest
      BY <1>1, <1>2, <1>3, <1>5 DEF LookupEntry, Go, TypeInv, CallOK, Key, callVars
    <2> QED
      BY <1>2, <2>1, LastFileFacts DEF HitOK, entryVars
  <1>6. CASE Stat(d) /\ ~Miss(d)
    <2>1. pc[d] = "stat" /\ at'[d] = at[d] /\ result'[d] = "none"
      BY <1>1, <1>3, <1>6 DEF Stat, Go, TypeInv, CallOK
    <2>2. Key(d)' = Key(d) /\ \A m \in 1..LastFile : FileAt(m)' = FileAt(m)
      BY <1>2 DEF Key, callVars, FileAt, FileOf
    <2>3. HitOK(d)
      BY DEF HitInv
    <2> QED
      BY <1>2, <2>1, <2>2, <2>3 DEF HitOK, entryVars, Whole
  <1> QED
    BY <1>4, <1>5, <1>6 DEF LookupMiss

LEMMA OtherHits ==
  ASSUME HitInv, NEW d \in Drivers,
         \/ Start(d) \/ BuildOne(d) \/ Open(d) \/ Write(d) \/ WriteManifest(d)
         \/ LookupFails(d) \/ CopyFails(d) \/ BuildFails(d) \/ PopulateFails(d) \/ Crash(d)
  PROVE  HitOK(d)'
  <1>1. TypeInv
    BY DEF HitInv, KeyInv
  <1>2. CASE Start(d)
    <2>1. pc'[d] = "lookup" /\ result'[d] = "none"
      BY <1>1, <1>2 DEF Start, Go, TypeInv, CallOK
    <2> QED
      BY <2>1, NoHit
  <1>3. CASE BuildOne(d) \/ Open(d) \/ Write(d) \/ WriteManifest(d)
    <2>1. result[d] = "none"
      BY <1>1, <1>3 DEF BuildOne, Open, Write, WriteManifest, TypeInv, CallOK
    <2>2. pc'[d] \in {"idle", "build", "open", "write", "manifest"} /\ result'[d] \in {"none", "built"}
      BY <1>1, <1>3, <2>1 DEF BuildOne, Open, Write, WriteManifest, Go, Return, TypeInv, CallOK
    <2> QED
      BY <2>2, NoHit
  <1>4. CASE LookupFails(d) \/ CopyFails(d) \/ BuildFails(d) \/ PopulateFails(d) \/ Crash(d)
    <2>1. pc'[d] = "idle" /\ result'[d] \in {"error", "crashed"}
      BY <1>1, <1>4 DEF LookupFails, CopyFails, BuildFails, PopulateFails, Crash, Fail, Return, TypeInv, CallOK
    <2> QED
      BY <2>1, NoHit
  <1> QED
    BY <1>2, <1>3, <1>4

LEMMA StepHits == HitInv /\ [Next]_vars => HitInv'
  <1> SUFFICES ASSUME HitInv, [Next]_vars PROVE HitInv'
    OBVIOUS
  <1>1. KeyInv' /\ TypeInv /\ KeepsManifests
    BY StepKeys, NextKeepsManifests DEF HitInv, KeyInv
  <1>2. ASSUME NEW d \in Drivers, Start(d) \/ Step(d) \/ Crash(d) \/ LookupFails(d) \/ CopyFails(d)
                 \/ BuildFails(d) \/ PopulateFails(d)
        PROVE  HitInv'
    <2>1. HitOK(d)'
      BY <1>2, CopyHits, LookHits, OtherHits DEF Step
    <2>2. Elsewhere(d)
      BY <1>1, <1>2, StepElsewhere
    <2>3. \A e \in Drivers \ {d} : HitOK(e)'
      BY <1>1, <2>2, StillHits DEF HitInv, Elsewhere
    <2> QED
      BY <1>1, <2>1, <2>3 DEF HitInv
  <1>3. CASE UNCHANGED <<pc, at, plan, work, result>>
    BY <1>1, <1>3, StillHits DEF HitInv
  <1>4. ASSUME NEW k \in Sources, EvictManifest(k) \/ \E f \in Files : Evict(k, f) PROVE HitInv'
    BY <1>3, <1>4 DEF EvictManifest, Evict, callVars
  <1> QED
    BY <1>2, <1>3, <1>4 DEF Next, vars, callVars

\* A Build that answers from the cache answers with whole archives and headers,
\* compiled from its own sources, unless its key was populated twice.
THEOREM HitsAreWhole == Spec => []HitIsWhole
  <1>1. HitInv => HitIsWhole
    <2> SUFFICES ASSUME HitInv, NEW d \in Drivers, result[d] = "hit", Key(d) \notin clash
                 PROVE  work[d] \in [Files -> [src : {Key(d)}, env : Envs]]
      BY DEF HitIsWhole
    <2>1. \A f \in Files : work[d][f] \in Whole(Key(d))
      BY DEF HitInv, HitOK
    <2>2. work[d] \in [Files -> Content]
      BY DEF HitInv, KeyInv, TypeInv, WorkOK
    <2> QED
      BY <2>1, <2>2 DEF Whole
  <1> QED
    BY <1>1, InitHits, StepHits, PTL DEF Spec

===============================================================================

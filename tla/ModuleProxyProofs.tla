---------------------------- MODULE ModuleProxyProofs ----------------------------
(***************************************************************************)
(* Theorems of the module proxy: of ModuleCache, for any processes and any *)
(* bodies, and of Versions, for every list, every set of requests and      *)
(* every range of int: Compare is a total order of versions, Max answers   *)
(* the highest of a list, and an artifact is stored where only its own     *)
(* name leads.                                                             *)
(***************************************************************************)
EXTENDS ModuleCache, Versions, FiniteSetTheorems, FunctionTheorems, SequenceTheorems,
        WellFoundedInduction, TLAPS

-------------------------------------------------------------------------------
(* Type correctness.  What a call under way writes is a body. *)

TypeInv ==
  /\ TypeOK
  /\ \A p \in Procs : pc[p] \in Writing \cup {"hash"} => body[p] \in Bodies

LEMMA InitType == Init => TypeInv
  <1> SUFFICES ASSUME Init PROVE TypeInv
    OBVIOUS
  <1>1. Len(HasOrder) = 4
    BY DEF HasOrder
  <1>2. tmp = {p \in Procs : pc[p] \in {"write", "rename"}}
    BY DEF Init
  <1>3. offered \in [Artifacts -> SUBSET Bodies]
    BY DEF Init
  <1>4. /\ file \in [Artifacts -> Bodies \cup {Missing}]
        /\ art \in [Procs -> Artifacts] /\ body \in [Procs -> Bodies \cup {Missing}]
        /\ nth \in [Procs -> 1..Len(HasOrder)] /\ seen \in [Procs -> Bodies \cup {Missing}]
    BY <1>1 DEF Init, Artifacts
  <1> QED
    BY <1>2, <1>3, <1>4 DEF Init, TypeInv, TypeOK, Writing

\* Returning from a call, whatever it answers.
LEMMA ReturnType ==
  ASSUME TypeInv, NEW p \in Procs, NEW ans, Return(p, ans)
  PROVE  /\ pc' = [pc EXCEPT ![p] = "idle"]
         /\ art' \in [Procs -> Artifacts] /\ body' \in [Procs -> Bodies \cup {Missing}]
         /\ nth' \in [Procs -> 1..Len(HasOrder)] /\ seen' \in [Procs -> Bodies \cup {Missing}]
         /\ \A q \in Procs : pc'[q] \in Writing \cup {"hash"} => body'[q] \in Bodies
  BY DEF Return, Go, TypeInv, TypeOK, Artifacts, HasOrder, Writing

\* It leaves the other calls alone.
LEMMA ReturnLeaves ==
  ASSUME TypeInv, NEW p \in Procs, NEW ans, Return(p, ans)
  PROVE  /\ pc'[p] = "idle"
         /\ \A q \in Procs \ {p} : pc'[q] = pc[q] /\ art'[q] = art[q] /\ body'[q] = body[q]
  BY DEF Return, Go, TypeInv, TypeOK

\* Looking at the artifacts changes none, and nothing of another call.
LEMMA ReadLeaves ==
  ASSUME TypeInv, NEW p \in Procs, Stat(p) \/ ReadZip(p) \/ ReadHash(p)
  PROVE  /\ UNCHANGED <<file, history>>
         /\ pc'[p] \notin Writing \cup {"hash"}
         /\ \A q \in Procs \ {p} : pc'[q] = pc[q] /\ art'[q] = art[q] /\ body'[q] = body[q]
  <1>1. UNCHANGED <<file, history>>
    BY DEF Stat, ReadZip, ReadHash
  <1>2. ASSUME NEW ans, Return(p, ans)
        PROVE  /\ pc'[p] \notin Writing \cup {"hash"}
               /\ \A q \in Procs \ {p} : pc'[q] = pc[q] /\ art'[q] = art[q] /\ body'[q] = body[q]
    BY <1>2, ReturnLeaves DEF Writing
  <1>3. CASE pc' = [pc EXCEPT ![p] = "readHash"] /\ UNCHANGED <<art, body>>
    BY <1>1, <1>3 DEF TypeInv, TypeOK, Writing
  <1>4. CASE UNCHANGED <<pc, art, body>> /\ pc[p] = "stat"
    BY <1>1, <1>4 DEF Writing
  <1> QED
    BY <1>1, <1>2, <1>3, <1>4 DEF Stat, ReadZip, ReadHash, Go

LEMMA StepType == TypeInv /\ [Next]_vars => TypeInv'
  <1> SUFFICES ASSUME TypeInv, [Next]_vars PROVE TypeInv'
    OBVIOUS
  <1>stutter. CASE UNCHANGED vars
    BY <1>stutter DEF TypeInv, TypeOK, vars, callVars, history
  <1>remove. ASSUME NEW a \in Artifacts, Discard(a) PROVE TypeInv'
    BY <1>remove DEF Discard, TypeInv, TypeOK, callVars
  <1> SUFFICES ASSUME NEW p \in Procs, Step(p) PROVE TypeInv'
    BY <1>stutter, <1>remove DEF Next
  <1>storeZip. ASSUME NEW b \in Zips, StoreZip(p, b) PROVE TypeInv'
    BY <1>storeZip DEF StoreZip, Go, TypeInv, TypeOK, Artifacts, Bodies, Writing
  <1>storeText. ASSUME NEW b \in Texts, NEW a \in {"info", "mod"}, StoreInfoOrMod(p, a, b) PROVE TypeInv'
    BY <1>storeText DEF StoreInfoOrMod, Go, TypeInv, TypeOK, Artifacts, Bodies, Writing
  <1>refuse. CASE Hash(p) /\ body[p] \in BadZips
    BY <1>refuse, ReturnType DEF Hash, TypeInv, TypeOK, Writing
  <1>hash. CASE Hash(p) /\ body[p] \notin BadZips
    BY <1>hash DEF Hash, Go, TypeInv, TypeOK, Artifacts, Writing
  <1>create. CASE Create(p)
    BY <1>create DEF Create, Go, TypeInv, TypeOK, Writing, history
  <1>write. CASE Write(p)
    BY <1>write DEF Write, Go, TypeInv, TypeOK, Writing, history
  <1>rename. CASE Rename(p)
    <2>1. CASE art[p] = "zip"
      BY <1>rename, <2>1 DEF Rename, Wrote, Go, TypeInv, TypeOK, Artifacts, Writing
    <2>2. CASE art[p] # "zip"
      <3>1. Return(p, "stored") /\ tmp' = tmp \ {p} /\ UNCHANGED <<offered, alone, removed>>
        BY <1>rename, <2>2 DEF Rename, Wrote
      <3>2. file' \in [Artifacts -> Bodies \cup {Missing}]
        BY <1>rename DEF Rename, TypeInv, TypeOK, Writing
      <3>3. torn' \in BOOLEAN
        BY <1>rename DEF Rename
      <3>4. tmp' = {q \in Procs : pc'[q] \in {"write", "rename"}}
        BY <3>1, ReturnType DEF TypeInv, TypeOK
      <3>5. pc' \in [Procs -> Writing \cup {"idle", "hash", "stat", "readZip", "readHash"}]
        BY <3>1, ReturnType DEF TypeInv, TypeOK
      <3> QED
        BY <3>1, <3>2, <3>3, <3>4, <3>5, ReturnType DEF TypeInv, TypeOK
    <2> QED
      BY <2>1, <2>2
  <1>fail. CASE WriteFails(p)
    BY <1>fail, ReturnType DEF WriteFails, BetweenFiles, TypeInv, TypeOK, Writing
  <1>crash. CASE Crash(p)
    BY <1>crash, ReturnType DEF Crash, BetweenFiles, TypeInv, TypeOK, Writing
  <1>ask. CASE CallHas(p) \/ CallVerify(p)
    BY <1>ask DEF CallHas, CallVerify, Ask, Go, TypeInv, TypeOK, Writing, history
  <1>stat. CASE Stat(p)
    <2>1. CASE UNCHANGED pc
      BY <1>stat, <2>1 DEF Stat, Return, Go, TypeInv, TypeOK, HasOrder, Writing, history
    <2>2. CASE \E ans : Return(p, ans)
      BY <1>stat, <2>2, ReturnType DEF Stat, TypeInv, TypeOK, Writing, history
    <2> QED
      BY <1>stat, <2>1, <2>2 DEF Stat
  <1>readZip. CASE ReadZip(p)
    <2>1. CASE file["zip"] = Missing
      BY <1>readZip, <2>1, ReturnType DEF ReadZip, TypeInv, TypeOK, Writing, history
    <2>2. CASE file["zip"] # Missing
      BY <1>readZip, <2>2 DEF ReadZip, Go, TypeInv, TypeOK, Artifacts, Writing, history
    <2> QED
      BY <2>1, <2>2
  <1>readHash. CASE ReadHash(p)
    BY <1>readHash, ReturnType DEF ReadHash, TypeInv, TypeOK, Writing, history
  <1> QED
    BY <1>storeZip, <1>storeText, <1>refuse, <1>hash, <1>create, <1>write, <1>rename, <1>fail,
       <1>crash, <1>ask, <1>stat, <1>readZip, <1>readHash DEF Step

\* Artifacts hold whole bodies or nothing, and every call keeps its own place, data and
\* temporary file, whatever fails and whoever is killed.
THEOREM TypeCorrect == Spec => []TypeOK
  <1>1. TypeInv => TypeOK
    BY DEF TypeInv
  <1> QED
    BY InitType, StepType, <1>1, PTL DEF Spec

-------------------------------------------------------------------------------
(* The register that each artifact is *)

\* What a call writes was offered for its artifact, and the artifacts hold what was
\* offered for them.
OfferedInv ==
  /\ \A p \in Procs :
       /\ pc[p] = "hash" => art[p] = "zip"
       /\ pc[p] \in Writing => body[p] \in offered[art[p]]
  /\ \A a \in Artifacts : file[a] \in offered[a] \cup {Missing}
  /\ offered["zip"] = offered["ziphash"]

LEMMA InitOffered == Init => OfferedInv
  BY DEF Init, OfferedInv, Artifacts, Writing

LEMMA StepOffered == TypeInv /\ OfferedInv /\ [Next]_vars => OfferedInv'
  <1> SUFFICES ASSUME TypeInv, OfferedInv, [Next]_vars PROVE OfferedInv'
    OBVIOUS
  <1> USE DEF OfferedInv, TypeInv, TypeOK, Artifacts, Writing
  <1>stutter. CASE UNCHANGED vars
    BY <1>stutter DEF vars, callVars, history
  <1>remove. ASSUME NEW a \in Artifacts, Discard(a) PROVE OfferedInv'
    BY <1>remove DEF Discard, callVars
  <1> SUFFICES ASSUME NEW p \in Procs, Step(p) PROVE OfferedInv'
    BY <1>stutter, <1>remove DEF Next
  <1>storeZip. ASSUME NEW b \in Zips, StoreZip(p, b) PROVE OfferedInv'
    BY <1>storeZip DEF StoreZip, Go
  <1>storeText. ASSUME NEW b \in Texts, NEW a \in {"info", "mod"}, StoreInfoOrMod(p, a, b) PROVE OfferedInv'
    BY <1>storeText DEF StoreInfoOrMod, Go
  <1>refuse. CASE Hash(p) /\ body[p] \in BadZips
    BY <1>refuse DEF Hash, Return, Go
  <1>hash. CASE Hash(p) /\ body[p] \notin BadZips
    <2>1. /\ offered'["zip"] = offered["zip"] \cup {body[p]}
          /\ offered'["ziphash"] = offered["ziphash"] \cup {body[p]}
          /\ offered'["info"] = offered["info"] /\ offered'["mod"] = offered["mod"]
      BY <1>hash DEF Hash
    <2>2. pc[p] = "hash" /\ pc' = [pc EXCEPT ![p] = "create"] /\ UNCHANGED <<file, art, body>>
      BY <1>hash DEF Hash, Go
    <2> QED
      BY <2>1, <2>2
  <1>create. CASE Create(p) \/ Write(p)
    BY <1>create DEF Create, Write, Go, history
  <1>rename. CASE Rename(p)
    <2>1. file' = [file EXCEPT ![art[p]] = body[p]] /\ offered' = offered /\ body[p] \in offered[art[p]]
      BY <1>rename DEF Rename
    <2>2. CASE art[p] = "zip"
      BY <1>rename, <2>1, <2>2 DEF Rename, Wrote, Go
    <2>3. CASE art[p] # "zip"
      BY <1>rename, <2>1, <2>3, ReturnLeaves DEF Rename, Wrote
    <2> QED
      BY <2>2, <2>3
  <1>fail. CASE WriteFails(p) \/ Crash(p)
    <2>1. UNCHANGED <<file, offered>> /\ \E ans : Return(p, ans)
      BY <1>fail DEF WriteFails, Crash
    <2> QED
      BY <2>1, ReturnLeaves
  <1>ask. CASE CallHas(p) \/ CallVerify(p)
    BY <1>ask DEF CallHas, CallVerify, Ask, Go, history
  <1>read. CASE Stat(p) \/ ReadZip(p) \/ ReadHash(p)
    BY <1>read, ReadLeaves DEF history
  <1> QED
    BY <1>storeZip, <1>storeText, <1>refuse, <1>hash, <1>create, <1>rename, <1>fail, <1>ask, <1>read DEF Step

\* Each step is an offer, the store of something offered, a removal, or none of the
\* register's business.
LEMMA StepRegister ==
  TypeInv /\ OfferedInv /\ [Next]_vars => [Register!SpecNext]_<<file, offered>>
  <1> SUFFICES ASSUME TypeInv, OfferedInv, [Next]_vars, ~UNCHANGED <<file, offered>>
               PROVE  Register!SpecNext
    OBVIOUS
  <1> USE DEF Register!SpecNext, Register!Offer, Register!Store, Register!Discard
  <1>stutter. CASE UNCHANGED vars
    BY <1>stutter DEF vars, history
  <1>remove. ASSUME NEW a \in Artifacts, Discard(a) PROVE Register!SpecNext
    BY <1>remove DEF Discard
  <1>storeText. ASSUME NEW p \in Procs, NEW b \in Texts, NEW a \in {"info", "mod"}, StoreInfoOrMod(p, a, b)
                PROVE  Register!SpecNext
    BY <1>storeText DEF StoreInfoOrMod, TypeInv, TypeOK, Artifacts
  <1>hash. ASSUME NEW p \in Procs, Hash(p) PROVE Register!SpecNext
    BY <1>hash DEF Hash, TypeInv, TypeOK, Artifacts
  <1>rename. ASSUME NEW p \in Procs, Rename(p) PROVE Register!SpecNext
    BY <1>rename DEF Rename, TypeInv, TypeOK, OfferedInv, Writing
  <1>rest. ASSUME NEW p \in Procs,
                  \/ \E b \in Zips : StoreZip(p, b)
                  \/ Create(p) \/ Write(p) \/ WriteFails(p) \/ Crash(p)
                  \/ CallHas(p) \/ Stat(p) \/ CallVerify(p) \/ ReadZip(p) \/ ReadHash(p)
           PROVE  UNCHANGED <<file, offered>>
    BY <1>rest DEF StoreZip, Create, Write, WriteFails, Crash, CallHas, Stat, CallVerify, Ask, ReadZip,
       ReadHash, history
  <1> QED
    BY <1>stutter, <1>remove, <1>storeText, <1>hash, <1>rename, <1>rest DEF Next, Step

\* A cached artifact is an atomic register of whole bodies that were given to be stored and
\* passed the check on store, among processes that fail and are killed at any step.
THEOREM RegisterIsImplemented == Spec => ImplementsRegister
  <1>1. Init => Register!SpecInit
    BY DEF Init, Register!SpecInit
  <1> QED
    BY InitType, StepType, InitOffered, StepOffered, StepRegister, <1>1, PTL
       DEF Spec, ImplementsRegister, Register!RegisterSpec

-------------------------------------------------------------------------------
(* The pair of a zip and its digest *)

\* While nothing was removed, what has a digest beside it, or is about to get one, is there.
ZipFirst ==
  /\ IsFiniteSet(offered["zip"])
  /\ ~removed => /\ file["ziphash"] # Missing => file["zip"] # Missing
                 /\ \A p \in Procs : BetweenFiles(p) => file["zip"] # Missing

\* The StoreZip that overlaps no other is the one under way; it is one unless files are
\* torn; and it is followed by what it wrote.
PairInv ==
  /\ \A p \in alone, q \in Procs : StoringZip(q) => q = p
  /\ \A p \in Procs : ~torn /\ StoringZip(p) => p \in alone
  /\ \A p \in alone : BetweenFiles(p) => file["zip"] \in {body[p], Missing}
  /\ ~torn /\ (\A p \in Procs : ~BetweenFiles(p)) =>
       \/ Missing \in {file["zip"], file["ziphash"]}
       \/ file["zip"] = file["ziphash"]

LEMMA InitPair == Init => ZipFirst /\ PairInv
  BY FS_EmptySet DEF Init, ZipFirst, PairInv, Artifacts, BetweenFiles, StoringZip, Writing

LEMMA StepZipFirst == TypeInv /\ OfferedInv /\ ZipFirst /\ [Next]_vars => ZipFirst'
  <1> SUFFICES ASSUME TypeInv, OfferedInv, ZipFirst, [Next]_vars PROVE ZipFirst'
    OBVIOUS
  <1> USE DEF ZipFirst, TypeInv, TypeOK, Artifacts, Writing, BetweenFiles
  <1>stutter. CASE UNCHANGED vars
    BY <1>stutter DEF vars, callVars, history
  <1>remove. ASSUME NEW a \in Artifacts, Discard(a) PROVE ZipFirst'
    BY <1>remove DEF Discard, callVars
  <1> SUFFICES ASSUME NEW p \in Procs, Step(p) PROVE ZipFirst'
    BY <1>stutter, <1>remove DEF Next
  <1>storeZip. ASSUME NEW b \in Zips, StoreZip(p, b) PROVE ZipFirst'
    BY <1>storeZip DEF StoreZip, Go
  <1>storeText. ASSUME NEW b \in Texts, NEW a \in {"info", "mod"}, StoreInfoOrMod(p, a, b) PROVE ZipFirst'
    BY <1>storeText DEF StoreInfoOrMod, Go
  <1>refuse. CASE Hash(p) /\ body[p] \in BadZips
    BY <1>refuse DEF Hash, Return, Go
  <1>hash. CASE Hash(p) /\ body[p] \notin BadZips
    <2>1. offered'["zip"] = offered["zip"] \cup {body[p]}
      BY <1>hash DEF Hash
    <2>2. IsFiniteSet(offered["zip"] \cup {body[p]})
      BY FS_AddElement
    <2> QED
      BY <1>hash, <2>1, <2>2 DEF Hash, Go, OfferedInv
  <1>create. CASE Create(p) \/ Write(p)
    BY <1>create DEF Create, Write, Go, history
  <1>rename. CASE Rename(p)
    <2>1. body[p] # Missing
      BY <1>rename, BodiesAssumption DEF Rename, Bodies
    <2>2. /\ file'[art[p]] = body[p] /\ \A a \in Artifacts \ {art[p]} : file'[a] = file[a]
          /\ UNCHANGED <<offered, removed>> /\ pc[p] = "rename"
      BY <1>rename DEF Rename
    <2>3. CASE art[p] = "zip"
      BY <1>rename, <2>1, <2>2, <2>3 DEF Rename, Wrote, Go
    <2>4. CASE art[p] # "zip"
      BY <1>rename, <2>1, <2>2, <2>4, ReturnLeaves DEF Rename, Wrote
    <2> QED
      BY <2>3, <2>4
  <1>fail. CASE WriteFails(p) \/ Crash(p)
    <2>1. UNCHANGED <<file, offered, removed>> /\ \E ans : Return(p, ans)
      BY <1>fail DEF WriteFails, Crash
    <2> QED
      BY <2>1, ReturnLeaves
  <1>ask. CASE CallHas(p) \/ CallVerify(p)
    BY <1>ask DEF CallHas, CallVerify, Ask, Go, history
  <1>read. CASE Stat(p) \/ ReadZip(p) \/ ReadHash(p)
    BY <1>read, ReadLeaves DEF history
  <1> QED
    BY <1>storeZip, <1>storeText, <1>refuse, <1>hash, <1>create, <1>rename, <1>fail, <1>ask, <1>read DEF Step

\* A call that is not, or not any longer, one of StoreZip does not disturb the pair.
LEMMA PairKept ==
  ASSUME TypeInv, PairInv, NEW p \in Procs,
         alone' = alone, file'["zip"] = file["zip"], file'["ziphash"] = file["ziphash"],
         torn' = (torn \/ BetweenFiles(p)), ~StoringZip(p)',
         \A q \in Procs \ {p} : pc'[q] = pc[q] /\ art'[q] = art[q] /\ body'[q] = body[q]
  PROVE  PairInv'
  <1>1. \A q \in Procs : StoringZip(q)' => q # p /\ StoringZip(q)
    BY DEF StoringZip
  <1>2. \A q \in Procs : BetweenFiles(q)' => BetweenFiles(q) /\ body'[q] = body[q]
    BY DEF BetweenFiles, StoringZip
  <1>3. \A q \in Procs : BetweenFiles(q) => BetweenFiles(q)' \/ torn'
    BY DEF BetweenFiles
  <1> QED
    BY <1>1, <1>2, <1>3 DEF PairInv, TypeInv, TypeOK

LEMMA StepPair == TypeInv /\ OfferedInv /\ PairInv /\ [Next]_vars => PairInv'
  <1> SUFFICES ASSUME TypeInv, OfferedInv, PairInv, [Next]_vars PROVE PairInv'
    OBVIOUS
  <1> USE DEF PairInv, OfferedInv, TypeInv, TypeOK, Artifacts, Writing, BetweenFiles, StoringZip
  <1>stutter. CASE UNCHANGED vars
    BY <1>stutter DEF vars, callVars, history
  <1>remove. ASSUME NEW a \in Artifacts, Discard(a) PROVE PairInv'
    BY <1>remove DEF Discard, callVars
  <1> SUFFICES ASSUME NEW p \in Procs, Step(p) PROVE PairInv'
    BY <1>stutter, <1>remove DEF Next
  <1>storeZip. ASSUME NEW b \in Zips, StoreZip(p, b) PROVE PairInv'
    <2>1. /\ pc[p] = "idle" /\ pc' = [pc EXCEPT ![p] = "hash"] /\ art' = [art EXCEPT ![p] = "zip"]
          /\ body' = [body EXCEPT ![p] = b] /\ file' = file
      BY <1>storeZip DEF StoreZip, Go
    <2>2. CASE \E q \in Procs : StoringZip(q)
      <3>1. alone' = {} /\ torn' = TRUE
        BY <1>storeZip, <2>2 DEF StoreZip
      <3> QED
        BY <3>1
    <2>3. CASE \A q \in Procs : ~StoringZip(q)
      <3>1. alone' = {p} /\ torn' = torn
        BY <1>storeZip, <2>3 DEF StoreZip
      <3>2. \A q \in Procs : (StoringZip(q)' => q = p) /\ ~BetweenFiles(q)' /\ ~BetweenFiles(q)
        BY <2>1, <2>3
      <3> QED
        BY <2>1, <3>1, <3>2
    <2> QED
      BY <2>2, <2>3
  <1>storeText. ASSUME NEW b \in Texts, NEW a \in {"info", "mod"}, StoreInfoOrMod(p, a, b) PROVE PairInv'
    BY <1>storeText DEF StoreInfoOrMod, Go
  <1>hash. CASE Hash(p)
    BY <1>hash DEF Hash, Return, Go
  <1>create. CASE Create(p) \/ Write(p)
    BY <1>create DEF Create, Write, Go, history
  <1>zip. CASE Rename(p) /\ art[p] = "zip"
    BY <1>zip DEF Rename, Wrote, Go
  <1>ziphash. CASE Rename(p) /\ art[p] = "ziphash"
    BY <1>ziphash DEF Rename, Wrote, Return, Go
  <1>text. CASE Rename(p) /\ art[p] \in {"info", "mod"}
    <2>1. /\ Return(p, "stored") /\ alone' = alone /\ torn' = (torn \/ BetweenFiles(p))
          /\ file'["zip"] = file["zip"] /\ file'["ziphash"] = file["ziphash"]
      BY <1>text DEF Rename, Wrote
    <2> QED
      BY <2>1, ReturnLeaves, PairKept
  <1>fail. CASE WriteFails(p) \/ Crash(p)
    <2>1. /\ file' = file /\ alone' = alone /\ torn' = (torn \/ BetweenFiles(p))
          /\ \E ans : Return(p, ans)
      BY <1>fail DEF WriteFails, Crash
    <2> QED
      BY <2>1, ReturnLeaves, PairKept
  <1>ask. CASE CallHas(p) \/ CallVerify(p)
    BY <1>ask DEF CallHas, CallVerify, Ask, Go, history
  <1>stat. CASE Stat(p)
    <2>1. /\ file' = file /\ alone' = alone /\ torn' = (torn \/ BetweenFiles(p)) /\ pc[p] = "stat"
          /\ UNCHANGED <<pc, art, body>> \/ \E ans : Return(p, ans)
      BY <1>stat DEF Stat, history
    <2> QED
      BY <2>1, ReturnLeaves, PairKept
  <1>read. CASE ReadZip(p) \/ ReadHash(p)
    <2>1. file' = file /\ alone' = alone /\ torn' = torn /\ pc[p] \in {"readZip", "readHash"}
      BY <1>read DEF ReadZip, ReadHash, history
    <2>2. CASE pc' = [pc EXCEPT ![p] = "readHash"] /\ UNCHANGED <<art, body>>
      <3>1. /\ ~StoringZip(p)' /\ ~BetweenFiles(p)
            /\ \A q \in Procs \ {p} : pc'[q] = pc[q] /\ art'[q] = art[q] /\ body'[q] = body[q]
        BY <2>1, <2>2
      <3> QED
        BY <2>1, <3>1, PairKept
    <2>3. ASSUME NEW ans, Return(p, ans) PROVE PairInv'
      BY <2>1, <2>3, ReturnLeaves, PairKept
    <2> QED
      BY <1>read, <2>2, <2>3 DEF ReadZip, ReadHash, Go
  <1> QED
    BY <1>storeZip, <1>storeText, <1>hash, <1>create, <1>zip, <1>ziphash, <1>text, <1>fail, <1>ask,
       <1>stat, <1>read DEF Step

\* The zip is renamed before its digest, so a digest vouches for the zip beside it as long
\* as one body was stored and nothing removed: no kill or failure leaves the digest alone.
THEOREM DigestVouches == Spec => []DigestAfterZip
  <1>1. TypeInv /\ OfferedInv /\ ZipFirst => DigestAfterZip
    <2> SUFFICES ASSUME TypeInv, OfferedInv, ZipFirst, Cardinality(offered["zip"]) <= 1, ~removed,
                        file["ziphash"] # Missing
                 PROVE  file["zip"] = file["ziphash"]
      BY DEF DigestAfterZip
    <2>1. file["zip"] \in offered["zip"] /\ file["ziphash"] \in offered["zip"]
      BY DEF OfferedInv, ZipFirst, Artifacts
    <2>2. PICK x : offered["zip"] = {x}
      <3>1. Cardinality(offered["zip"]) \in Nat
        BY FS_CardinalityType DEF ZipFirst
      <3>2. Cardinality(offered["zip"]) # 0
        BY <2>1, FS_EmptySet DEF ZipFirst
      <3>3. Cardinality(offered["zip"]) = 1
        BY <3>1, <3>2
      <3> QED
        BY <3>3, FS_Singleton DEF ZipFirst
    <2> QED
      BY <2>1, <2>2
  <1> QED
    BY InitType, StepType, InitOffered, StepOffered, InitPair, StepZipFirst, <1>1, PTL DEF Spec

\* StoreZip heals: with no StoreZip under way the zip and the digest agree, whatever was
\* stored over whatever, unless StoreZips overlapped or one was cut off between its files,
\* and none ran on its own since.
THEOREM PairHeals == Spec => []SettledPairAgrees
  <1>1. PairInv => SettledPairAgrees
    BY DEF PairInv, SettledPairAgrees, StoringZip, BetweenFiles
  <1> QED
    BY InitType, StepType, InitOffered, StepOffered, InitPair, StepPair, <1>1, PTL DEF Spec

-------------------------------------------------------------------------------
(* Versions *)

Version == [major : Nat, minor : Nat, patch : Nat, pre : Seq(Text)]

-------------------------------------------------------------------------------
(* Numbers: properties are given as the sets of the numbers that have them *)

\* A set of natural numbers that is not empty has a least element.
LEMMA Least ==
  ASSUME NEW S \in SUBSET Nat, S # {}
  PROVE  \E m \in S : \A x \in S : m <= x
<1> DEFINE Less == {ss \in Nat \X Nat : ss[1] < ss[2]}
<1>1. IsWellFoundedOn(Less, Nat)
  BY NatLessThanWellFounded, SMT DEF OpToRel
<1>2. PICK m \in S : \A x \in S : <<x, m>> \notin Less
  <2> HIDE DEF Less
  <2> QED
    BY <1>1, WFMin
<1>3. \A x \in S : ~(x < m)
  BY <1>2
<1> QED
  BY <1>3

\* Induction: what 0 has, and each number has if the one before has it, all have.
LEMMA Induction ==
  ASSUME NEW P \in SUBSET Nat, 0 \in P, \A n \in P : n + 1 \in P
  PROVE  P = Nat
<1> SUFFICES ASSUME Nat \ P # {} PROVE FALSE
  OBVIOUS
<1>1. PICK m \in Nat \ P : \A x \in Nat \ P : m <= x
  BY Least
<1>2. m - 1 \in P
  BY <1>1
<1> QED
  BY <1>1, <1>2

\* What is so before a loop over 1..last and kept by its body is so throughout.
LEMMA LoopInvariant ==
  ASSUME NEW V, NEW last \in Nat, NEW g, g[0] \in V,
         \A n \in 1..last : g[n - 1] \in V => g[n] \in V
  PROVE  \A n \in 0..last : g[n] \in V
<1> DEFINE S == {n \in Nat : n <= last => g[n] \in V}
<1>1. 0 \in S
  OBVIOUS
<1>2. ASSUME NEW n \in S PROVE n + 1 \in S
  <2> SUFFICES ASSUME n + 1 <= last PROVE g[n + 1] \in V
    OBVIOUS
  <2>1. n + 1 \in 1..last /\ (n + 1) - 1 = n /\ g[n] \in V
    OBVIOUS
  <2> QED
    BY <2>1
<1>3. S = Nat
  <2> HIDE DEF S
  <2>1. S \in SUBSET Nat
    BY DEF S
  <2> QED
    BY <1>1, <1>2, <2>1, Induction
<1> QED
  BY <1>3

\* A loop over 1..last, whose body keeps to V, goes through some values.
Loops(f, V, first, last, Body) ==
  /\ f \in [0..last -> V]
  /\ f[0] = first
  /\ \A n \in 1..last : f[n] = Body[n][f[n - 1]]

LEMMA LoopExists ==
  ASSUME NEW V, NEW first \in V, NEW last \in Nat, NEW Body,
         \A n \in 1..last : \A x \in V : Body[n][x] \in V
  PROVE  \E f : Loops(f, V, first, last, Body)
<1> DEFINE Solves(f, m) == /\ f \in [0..m -> V] /\ f[0] = first
                           /\ \A n \in 1..m : f[n] = Body[n][f[n - 1]]
           S == {m \in Nat : m <= last => \E f : Solves(f, m)}
<1>1. 0 \in S
  <2>1. Solves([n \in 0..0 |-> first], 0)
    OBVIOUS
  <2> QED
    BY <2>1
<1>2. ASSUME NEW m \in S PROVE m + 1 \in S
  <2> SUFFICES ASSUME m + 1 <= last PROVE \E h : Solves(h, m + 1)
    OBVIOUS
  <2>1. PICK f : Solves(f, m)
    OBVIOUS
  <2>2. m \in Nat /\ m + 1 \in 1..last /\ f[m] \in V
    BY <2>1
  <2>3. Body[m + 1][f[m]] \in V
    BY <2>2
  <2> DEFINE h == [n \in 0..(m + 1) |-> IF n = m + 1 THEN Body[m + 1][f[m]] ELSE f[n]]
  <2>4. h \in [0..(m + 1) -> V]
    BY <2>1, <2>2, <2>3
  <2>5. h[0] = first
    BY <2>1, <2>2
  <2>6. ASSUME NEW n \in 1..(m + 1) PROVE h[n] = Body[n][h[n - 1]]
    <3>1. CASE n = m + 1
      BY <2>2, <3>1
    <3>2. CASE n # m + 1
      <4>1. n \in 1..m /\ n - 1 \in 0..m /\ n \in 0..(m + 1) /\ n - 1 \in 0..(m + 1) /\ n - 1 # m + 1
        BY <2>2, <3>2
      <4>2. h[n] = f[n] /\ h[n - 1] = f[n - 1]
        BY <3>2, <4>1
      <4> QED
        BY <2>1, <4>1, <4>2
    <3> QED
      BY <3>1, <3>2
  <2> HIDE DEF h
  <2> QED
    BY <2>4, <2>5, <2>6
<1>3. S = Nat
  <2> HIDE DEF S
  <2>1. S \in SUBSET Nat
    BY DEF S
  <2> QED
    BY <1>1, <1>2, <2>1, Induction
<1>4. PICK f : Solves(f, last)
  BY <1>3
<1> QED
  BY <1>4 DEF Loops

-------------------------------------------------------------------------------
(* The order of texts *)

LEMMA TextIrreflexive ==
  ASSUME NEW a \in Text
  PROVE  ~TextLess(a, a)
BY DEF Text, TextLess

LEMMA CharactersOf ==
  \A a \in Text : Len(a) \in Nat /\ \A i \in 1..Len(a) : a[i] \in Nat
BY DEF Text

LEMMA TextTransitive ==
  ASSUME NEW a \in Text, NEW b \in Text, NEW c \in Text, TextLess(a, b), TextLess(b, c)
  PROVE  TextLess(a, c)
<1>1. PICK k \in 1..Len(b) :
        /\ \A j \in 1..(k - 1) : j <= Len(a) /\ a[j] = b[j]
        /\ k = Len(a) + 1 \/ (k <= Len(a) /\ a[k] < b[k])
  BY DEF TextLess
<1>2. PICK l \in 1..Len(c) :
        /\ \A j \in 1..(l - 1) : j <= Len(b) /\ b[j] = c[j]
        /\ l = Len(b) + 1 \/ (l <= Len(b) /\ b[l] < c[l])
  BY DEF TextLess
<1>3. /\ Len(a) \in Nat /\ Len(b) \in Nat /\ Len(c) \in Nat
      /\ \A i \in 1..Len(a) : a[i] \in Nat
      /\ \A i \in 1..Len(b) : b[i] \in Nat
      /\ \A i \in 1..Len(c) : c[i] \in Nat
  BY CharactersOf
<1>4. CASE k < l
  <2>1. k \in 1..Len(c) /\ b[k] = c[k]
    BY <1>2, <1>3, <1>4
  <2>2. \A j \in 1..(k - 1) : j <= Len(a) /\ a[j] = c[j]
    BY <1>1, <1>2, <1>3, <1>4
  <2> QED
    BY <1>1, <2>1, <2>2 DEF TextLess
<1>5. CASE l < k
  <2>1. l <= Len(a) /\ a[l] = b[l] /\ l <= Len(b) /\ b[l] < c[l]
    BY <1>1, <1>2, <1>3, <1>5
  <2>2. \A j \in 1..(l - 1) : j <= Len(a) /\ a[j] = c[j]
    BY <1>1, <1>2, <1>3, <1>5
  <2> QED
    BY <2>1, <2>2 DEF TextLess
<1>6. CASE k = l
  <2>1. \A j \in 1..(k - 1) : j <= Len(a) /\ a[j] = c[j]
    BY <1>1, <1>2, <1>3, <1>6
  <2>2. k = Len(a) + 1 \/ (k <= Len(a) /\ a[k] < c[k])
    BY <1>1, <1>2, <1>3, <1>6
  <2> QED
    BY <1>2, <1>6, <2>1, <2>2 DEF TextLess
<1> QED
  BY <1>1, <1>2, <1>3, <1>4, <1>5, <1>6

\* Two sequences that differ have a first position at which they do.
LEMMA FirstDifference ==
  ASSUME NEW S, NEW a \in Seq(S), NEW b \in Seq(S), a # b
  PROVE  \E k \in Nat \ {0} :
           /\ \A j \in 1..(k - 1) : j <= Len(a) /\ j <= Len(b) /\ a[j] = b[j]
           /\ k <= Len(a) + 1 /\ k <= Len(b) + 1
           /\ k <= Len(a) \/ k <= Len(b)
           /\ k <= Len(a) /\ k <= Len(b) => a[k] # b[k]
<1> DEFINE Last1  == Len(a) + Len(b) + 1
           Differ == {k \in 1..Last1 : k > Len(a) \/ k > Len(b) \/ a[k] # b[k]}
<1>1. Len(a) \in Nat /\ Len(b) \in Nat
  OBVIOUS
<1>2. Differ \in SUBSET Nat /\ Last1 \in Differ
  BY <1>1
<1> HIDE DEF Differ
<1>3. PICK k \in Differ : \A x \in Differ : k <= x
  BY <1>2, Least
<1> USE DEF Differ
<1>4. \A j \in 1..(k - 1) : j <= Len(a) /\ j <= Len(b) /\ a[j] = b[j]
  BY <1>1, <1>3
<1>5. k <= Len(a) + 1 /\ k <= Len(b) + 1 /\ k \in Nat \ {0}
  <2>1. k \in 1..Last1
    OBVIOUS
  <2>2. k - 1 <= Len(a) /\ k - 1 <= Len(b)
    BY <1>1, <1>4, <2>1
  <2> QED
    BY <1>1, <2>1, <2>2
<1>6. ASSUME k > Len(a), k > Len(b) PROVE FALSE
  <2>1. Len(a) = k - 1 /\ Len(b) = k - 1
    BY <1>1, <1>5, <1>6
  <2>2. \A j \in 1..Len(a) : a[j] = b[j]
    BY <1>4, <2>1
  <2> QED
    BY <2>1, <2>2
<1> QED
  BY <1>1, <1>3, <1>4, <1>5, <1>6

LEMMA TextTotal ==
  ASSUME NEW a \in Text, NEW b \in Text, a # b
  PROVE  TextLess(a, b) \/ TextLess(b, a)
<1>1. PICK k \in Nat \ {0} :
        /\ \A j \in 1..(k - 1) : j <= Len(a) /\ j <= Len(b) /\ a[j] = b[j]
        /\ k <= Len(a) + 1 /\ k <= Len(b) + 1
        /\ k <= Len(a) \/ k <= Len(b)
        /\ k <= Len(a) /\ k <= Len(b) => a[k] # b[k]
  BY FirstDifference DEF Text
<1>2. Len(a) \in Nat /\ Len(b) \in Nat
  BY DEF Text
<1>3. CASE k <= Len(a) /\ k <= Len(b)
  <2>1. a[k] \in Nat /\ b[k] \in Nat
    BY <1>2, <1>3 DEF Text
  <2> QED
    BY <1>1, <1>2, <1>3, <2>1 DEF TextLess
<1>4. CASE k > Len(a)
  BY <1>1, <1>2, <1>4 DEF TextLess
<1>5. CASE k > Len(b)
  BY <1>1, <1>2, <1>5 DEF TextLess
<1> QED
  BY <1>2, <1>3, <1>4, <1>5

-------------------------------------------------------------------------------
(* The order of identifiers *)

LEMMA IntsOrdered ==
  ASSUME NEW a \in Int, NEW b \in Int, NEW c \in Int
  PROVE  /\ cmpInt(a, b) \in {-1, 0, 1}
         /\ cmpInt(a, b) = 0 <=> a = b
         /\ cmpInt(a, b) = -1 <=> cmpInt(b, a) = 1
         /\ cmpInt(a, b) = -1 /\ cmpInt(b, c) = -1 => cmpInt(a, c) = -1
BY DEF cmpInt

LEMMA TextsOrdered ==
  ASSUME NEW a \in Text, NEW b \in Text, NEW c \in Text
  PROVE  /\ cmpText(a, b) \in {-1, 0, 1}
         /\ cmpText(a, b) = 0 <=> a = b
         /\ cmpText(a, b) = -1 <=> cmpText(b, a) = 1
         /\ cmpText(a, b) = -1 /\ cmpText(b, c) = -1 => cmpText(a, c) = -1
<1>1. ~(TextLess(a, b) /\ TextLess(b, a))
  BY TextIrreflexive, TextTransitive
<1>2. a # b => TextLess(a, b) \/ TextLess(b, a)
  BY TextTotal
<1>3. a = b => ~TextLess(a, b) /\ ~TextLess(b, a)
  BY TextIrreflexive
<1>4. TextLess(a, b) /\ TextLess(b, c) => TextLess(a, c)
  BY TextTransitive
<1> QED
  BY <1>1, <1>2, <1>3, <1>4 DEF cmpText

\* The int of a text prints as the text.
LEMMA IntOfText ==
  ASSUME NEW a, IsInt(a)
  PROVE  Atoi(a) \in Int /\ Decimal[Atoi(a)] = a
<1>1. Atoi(a) \in 0..MaxInt /\ Decimal[Atoi(a)] = a
  BY DEF IsInt, Atoi
<1> QED
  BY <1>1

LEMMA IdentsOrdered ==
  ASSUME NEW a \in Text, NEW b \in Text, NEW c \in Text
  PROVE  /\ compareIdent(a, b) \in {-1, 0, 1}
         /\ compareIdent(a, b) = 0 <=> a = b
         /\ compareIdent(a, b) = -1 <=> compareIdent(b, a) = 1
         /\ compareIdent(a, b) = -1 /\ compareIdent(b, c) = -1 => compareIdent(a, c) = -1
<1>1. \A x \in {a, b, c} : isNumericIdent(x) => Atoi(x) \in Int /\ Decimal[Atoi(x)] = x
  BY IntOfText DEF isNumericIdent
<1>2. isNumericIdent(a) /\ isNumericIdent(b) => (Atoi(a) = Atoi(b) <=> a = b)
  BY <1>1
<1>3. isNumericIdent(a) \in BOOLEAN /\ isNumericIdent(b) \in BOOLEAN /\ isNumericIdent(c) \in BOOLEAN
  BY DEF isNumericIdent
<1> DEFINE A == isNumericIdent(a)
           B == isNumericIdent(b)
           C == isNumericIdent(c)
           Cmp(P, Q, x, y) == IF P /\ Q THEN cmpInt(Atoi(x), Atoi(y))
                              ELSE IF P THEN -1 ELSE IF Q THEN 1 ELSE cmpText(x, y)
<1>4. /\ compareIdent(a, b) = Cmp(A, B, a, b)
      /\ compareIdent(b, a) = Cmp(B, A, b, a)
      /\ compareIdent(b, c) = Cmp(B, C, b, c)
      /\ compareIdent(a, c) = Cmp(A, C, a, c)
  BY DEF compareIdent
<1>5. A /\ B => /\ cmpInt(Atoi(a), Atoi(b)) \in {-1, 0, 1}
                /\ cmpInt(Atoi(a), Atoi(b)) = 0 <=> a = b
                /\ cmpInt(Atoi(a), Atoi(b)) = -1 <=> cmpInt(Atoi(b), Atoi(a)) = 1
  BY <1>1, <1>2, IntsOrdered
<1>6. A /\ B /\ C => (cmpInt(Atoi(a), Atoi(b)) = -1 /\ cmpInt(Atoi(b), Atoi(c)) = -1
                        => cmpInt(Atoi(a), Atoi(c)) = -1)
  BY <1>1, IntsOrdered
<1>7. /\ cmpText(a, b) \in {-1, 0, 1}
      /\ cmpText(a, b) = 0 <=> a = b
      /\ cmpText(a, b) = -1 <=> cmpText(b, a) = 1
      /\ cmpText(a, b) = -1 /\ cmpText(b, c) = -1 => cmpText(a, c) = -1
  BY TextsOrdered
<1>8. a = b => (A <=> B)
  OBVIOUS
<1> HIDE DEF A, B, C
<1>9. compareIdent(a, b) \in {-1, 0, 1}
  BY <1>4, <1>5, <1>7
<1>10. compareIdent(a, b) = 0 <=> a = b
  BY <1>4, <1>5, <1>7, <1>8
<1>11. compareIdent(a, b) = -1 <=> compareIdent(b, a) = 1
  BY <1>4, <1>5, <1>7
<1>12. compareIdent(a, b) = -1 /\ compareIdent(b, c) = -1 => compareIdent(a, c) = -1
  BY <1>4, <1>6, <1>7
<1> QED
  BY <1>9, <1>10, <1>11, <1>12

-------------------------------------------------------------------------------
(* The order of lists of identifiers *)

LEMMA PreIrreflexive ==
  ASSUME NEW a \in Seq(Text)
  PROVE  ~PreLess(a, a)
<1>1. \A k \in 1..Len(a) : compareIdent(a[k], a[k]) = 0
  BY IdentsOrdered
<1> QED
  BY <1>1 DEF PreLess

LEMMA PreTransitive ==
  ASSUME NEW a \in Seq(Text), NEW b \in Seq(Text), NEW c \in Seq(Text),
         PreLess(a, b), PreLess(b, c)
  PROVE  PreLess(a, c)
<1>1. PICK k \in 1..Len(b) :
        /\ \A j \in 1..(k - 1) : j <= Len(a) /\ compareIdent(a[j], b[j]) = 0
        /\ k = Len(a) + 1 \/ (k <= Len(a) /\ compareIdent(a[k], b[k]) = -1)
  BY DEF PreLess
<1>2. PICK l \in 1..Len(c) :
        /\ \A j \in 1..(l - 1) : j <= Len(b) /\ compareIdent(b[j], c[j]) = 0
        /\ l = Len(b) + 1 \/ (l <= Len(b) /\ compareIdent(b[l], c[l]) = -1)
  BY DEF PreLess
<1>3. /\ Len(a) \in Nat /\ Len(b) \in Nat /\ Len(c) \in Nat
      /\ \A i \in 1..Len(a) : a[i] \in Text
      /\ \A i \in 1..Len(b) : b[i] \in Text
      /\ \A i \in 1..Len(c) : c[i] \in Text
  OBVIOUS
<1>4. \A x, y \in Text : compareIdent(x, y) = 0 <=> x = y
  BY IdentsOrdered
<1>5. /\ \A j \in 1..(k - 1) : j <= Len(a) /\ a[j] = b[j]
      /\ \A j \in 1..(l - 1) : j <= Len(b) /\ b[j] = c[j]
  BY <1>1, <1>2, <1>3, <1>4
<1>6. CASE k < l
  <2>1. k \in 1..Len(c) /\ b[k] = c[k]
    BY <1>2, <1>3, <1>5, <1>6
  <2>2. \A j \in 1..(k - 1) : j <= Len(a) /\ compareIdent(a[j], c[j]) = 0
    BY <1>3, <1>4, <1>5, <1>6
  <2> QED
    BY <1>1, <2>1, <2>2 DEF PreLess
<1>7. CASE l < k
  <2>1. l <= Len(a) /\ a[l] = b[l] /\ l <= Len(b) /\ compareIdent(b[l], c[l]) = -1
    BY <1>1, <1>2, <1>3, <1>5, <1>7
  <2>2. \A j \in 1..(l - 1) : j <= Len(a) /\ compareIdent(a[j], c[j]) = 0
    BY <1>3, <1>4, <1>5, <1>7
  <2> QED
    BY <2>1, <2>2 DEF PreLess
<1>8. CASE k = l
  <2>1. \A j \in 1..(k - 1) : j <= Len(a) /\ compareIdent(a[j], c[j]) = 0
    BY <1>3, <1>4, <1>5, <1>8
  <2>2. k <= Len(b)
    BY <1>3
  <2>3. k <= Len(a) => compareIdent(a[k], c[k]) = -1
    <3> SUFFICES ASSUME k <= Len(a) PROVE compareIdent(a[k], c[k]) = -1
      OBVIOUS
    <3>1. compareIdent(a[k], b[k]) = -1 /\ compareIdent(b[k], c[k]) = -1
      BY <1>1, <1>2, <1>3, <1>8, <2>2
    <3>2. a[k] \in Text /\ b[k] \in Text /\ c[k] \in Text
      BY <1>3, <1>8, <2>2
    <3> QED
      BY <3>1, <3>2, IdentsOrdered
  <2> QED
    BY <1>1, <1>2, <1>3, <1>8, <2>1, <2>3 DEF PreLess
<1> QED
  BY <1>1, <1>2, <1>3, <1>6, <1>7, <1>8

LEMMA PreTotal ==
  ASSUME NEW a \in Seq(Text), NEW b \in Seq(Text), a # b
  PROVE  PreLess(a, b) \/ PreLess(b, a)
<1>1. PICK k \in Nat \ {0} :
        /\ \A j \in 1..(k - 1) : j <= Len(a) /\ j <= Len(b) /\ a[j] = b[j]
        /\ k <= Len(a) + 1 /\ k <= Len(b) + 1
        /\ k <= Len(a) \/ k <= Len(b)
        /\ k <= Len(a) /\ k <= Len(b) => a[k] # b[k]
  BY FirstDifference
<1>2. Len(a) \in Nat /\ Len(b) \in Nat
  OBVIOUS
<1>3. \A j \in 1..(k - 1) : compareIdent(a[j], b[j]) = 0 /\ compareIdent(b[j], a[j]) = 0
  <2> SUFFICES ASSUME NEW j \in 1..(k - 1)
               PROVE  compareIdent(a[j], b[j]) = 0 /\ compareIdent(b[j], a[j]) = 0
    OBVIOUS
  <2>1. a[j] \in Text /\ a[j] = b[j]
    BY <1>1, <1>2
  <2> QED
    BY <2>1, IdentsOrdered
<1>4. CASE k <= Len(a) /\ k <= Len(b)
  <2>1. a[k] \in Text /\ b[k] \in Text /\ a[k] # b[k]
    BY <1>1, <1>2, <1>4
  <2>2. compareIdent(a[k], b[k]) = -1 \/ compareIdent(b[k], a[k]) = -1
    BY <2>1, IdentsOrdered
  <2> QED
    BY <1>1, <1>2, <1>3, <1>4, <2>2 DEF PreLess
<1>5. CASE k > Len(a)
  BY <1>1, <1>2, <1>3, <1>5 DEF PreLess
<1>6. CASE k > Len(b)
  BY <1>1, <1>2, <1>3, <1>6 DEF PreLess
<1> QED
  BY <1>2, <1>4, <1>5, <1>6

LEMMA PresOrdered ==
  ASSUME NEW a \in Seq(Text), NEW b \in Seq(Text), NEW c \in Seq(Text)
  PROVE  /\ comparePre(a, b) \in {-1, 0, 1}
         /\ comparePre(a, b) = 0 <=> a = b
         /\ comparePre(a, b) = -1 <=> comparePre(b, a) = 1
         /\ comparePre(a, b) = -1 /\ comparePre(b, c) = -1 => comparePre(a, c) = -1
<1>1. \A x \in {a, b, c} : Len(x) \in Nat /\ (Len(x) = 0 <=> x = <<>>)
  OBVIOUS
<1>2. \A x, y \in {a, b, c} : ~(PreLess(x, y) /\ PreLess(y, x))
  BY PreIrreflexive, PreTransitive
<1>3. \A x, y \in {a, b, c} : x # y => PreLess(x, y) \/ PreLess(y, x)
  BY PreTotal
<1>4. PreLess(a, b) /\ PreLess(b, c) => PreLess(a, c)
  BY PreTransitive
<1>5. comparePre(a, b) \in {-1, 0, 1}
  BY <1>1 DEF comparePre, cmpInt
<1>6. comparePre(a, b) = 0 <=> a = b
  BY <1>1, <1>2, <1>3 DEF comparePre, cmpInt
<1>7. comparePre(a, b) = -1 <=> comparePre(b, a) = 1
  BY <1>1, <1>2 DEF comparePre, cmpInt
<1>8. comparePre(a, b) = -1 /\ comparePre(b, c) = -1 => comparePre(a, c) = -1
  BY <1>1, <1>2, <1>4 DEF comparePre, cmpInt
<1> QED
  BY <1>5, <1>6, <1>7, <1>8

-------------------------------------------------------------------------------
(* The order of versions *)

\* Compare orders the versions totally, numbers beyond int in pre-releases included: it
\* answers 0 for equal ones alone (build metadata apart, which a version here has not),
\* the opposite when its arguments are swapped, and it is transitive.  So Sort, which
\* sort.Slice only promises for such an order, and Max agree on what is highest.
THEOREM CompareIsTotalOrder ==
  ASSUME NEW u \in Version, NEW v \in Version, NEW w \in Version
  PROVE  /\ Compare(<<u>>, <<v>>) \in {-1, 0, 1}
         /\ Compare(<<u>>, <<v>>) = 0 <=> u = v
         /\ Compare(<<u>>, <<v>>) = -1 <=> Compare(<<v>>, <<u>>) = 1
         /\ Compare(<<u>>, <<v>>) = -1 /\ Compare(<<v>>, <<w>>) = -1 => Compare(<<u>>, <<w>>) = -1
<1> DEFINE Cmp(x, y) == IF x.major # y.major THEN cmpInt(x.major, y.major)
                        ELSE IF x.minor # y.minor THEN cmpInt(x.minor, y.minor)
                        ELSE IF x.patch # y.patch THEN cmpInt(x.patch, y.patch)
                        ELSE comparePre(x.pre, y.pre)
<1>1. /\ Compare(<<u>>, <<v>>) = Cmp(u, v)
      /\ Compare(<<v>>, <<u>>) = Cmp(v, u)
      /\ Compare(<<v>>, <<w>>) = Cmp(v, w)
      /\ Compare(<<u>>, <<w>>) = Cmp(u, w)
  BY DEF Compare
<1>2. /\ \A x \in {u, v, w} : x.major \in Nat /\ x.minor \in Nat /\ x.patch \in Nat /\ x.pre \in Seq(Text)
      /\ u = v <=> u.major = v.major /\ u.minor = v.minor /\ u.patch = v.patch /\ u.pre = v.pre
  BY DEF Version
<1>3. /\ comparePre(u.pre, v.pre) \in {-1, 0, 1}
      /\ comparePre(u.pre, v.pre) = 0 <=> u.pre = v.pre
      /\ comparePre(u.pre, v.pre) = -1 <=> comparePre(v.pre, u.pre) = 1
      /\ comparePre(u.pre, v.pre) = -1 /\ comparePre(v.pre, w.pre) = -1 => comparePre(u.pre, w.pre) = -1
  BY <1>2, PresOrdered
<1>4. Cmp(u, v) \in {-1, 0, 1}
  BY <1>2, <1>3, SMTT(20) DEF cmpInt
<1>5. Cmp(u, v) = 0 <=> u = v
  BY <1>2, <1>3, SMTT(20) DEF cmpInt
<1>6. Cmp(u, v) = -1 <=> Cmp(v, u) = 1
  BY <1>2, <1>3, SMTT(20) DEF cmpInt
<1>7. Cmp(u, v) = -1 /\ Cmp(v, w) = -1 => Cmp(u, w) = -1
  BY <1>2, <1>3, SMTT(20) DEF cmpInt
<1> QED
  BY <1>1, <1>4, <1>5, <1>6, <1>7

-------------------------------------------------------------------------------
(* What Parse makes of a text *)

LEMMA SplitType ==
  ASSUME NEW text \in Text, NEW c
  PROVE  Split(text, c) \in Seq(Text)
<1> DEFINE V == Seq(Text) \ {<<>>}
           N == Len(text)
           Body == [n \in 1..N |-> [x \in V |->
                      IF text[n] = c THEN Append(x, <<>>)
                      ELSE [x EXCEPT ![Len(x)] = Append(@, text[n])]]]
           Solves(f) == f = [n \in 0..N |->
                               IF n = 0 THEN <<<<>>>>
                               ELSE IF text[n] = c THEN Append(f[n - 1], <<>>)
                               ELSE [f[n - 1] EXCEPT ![Len(f[n - 1])] = Append(@, text[n])]]
           pieces == CHOOSE f : Solves(f)
<1>1. Split(text, c) = pieces[N]
  BY DEF Split
<1>2. N \in Nat /\ <<>> \in Text /\ <<<<>>>> \in V
  BY DEF Text
<1>3. ASSUME NEW n \in 1..N, NEW x \in V PROVE Body[n][x] \in V
  <2>1. text[n] \in Nat /\ x \in Seq(Text) /\ x # <<>>
    BY DEF Text
  <2>2. Append(x, <<>>) \in V
    BY <1>2, <2>1
  <2>3. Len(x) \in 1..Len(x) /\ x[Len(x)] \in Text
    BY <2>1
  <2>4. Append(x[Len(x)], text[n]) \in Text
    BY <2>1, <2>3 DEF Text
  <2>5. [x EXCEPT ![Len(x)] = Append(@, text[n])] \in V
    BY <2>1, <2>3, <2>4, ExceptSeq
  <2> QED
    BY <2>2, <2>5
<1>4. Body \in [1..N -> [V -> V]]
  BY <1>3
<1>5. \A n \in 1..N, x \in V :
        Body[n][x] = IF text[n] = c THEN Append(x, <<>>) ELSE [x EXCEPT ![Len(x)] = Append(@, text[n])]
  OBVIOUS
<1> HIDE DEF Body, N, V
<1>6. PICK f : Loops(f, V, <<<<>>>>, N, Body)
  BY <1>2, <1>3, LoopExists
<1>7. Solves(f)
  <2>1. ASSUME NEW n \in 0..N, n # 0
        PROVE  f[n] = IF text[n] = c THEN Append(f[n - 1], <<>>)
                      ELSE [f[n - 1] EXCEPT ![Len(f[n - 1])] = Append(@, text[n])]
    <3>1. n \in 1..N /\ n - 1 \in 0..N
      BY <1>2, <2>1
    <3>2. f[n - 1] \in V
      BY <1>6, <3>1 DEF Loops
    <3> QED
      BY <1>5, <1>6, <3>1, <3>2 DEF Loops
  <2> QED
    BY <1>6, <2>1 DEF Loops
<1>8. Solves(pieces)
  BY <1>7
<1> HIDE DEF pieces
<1>9. pieces[0] \in V
  BY <1>2, <1>8
<1>10. ASSUME NEW n \in 1..N, pieces[n - 1] \in V PROVE pieces[n] \in V
  <2>1. n \in 0..N /\ n # 0
    BY <1>2
  <2>2. pieces[n] = IF text[n] = c THEN Append(pieces[n - 1], <<>>)
                    ELSE [pieces[n - 1] EXCEPT ![Len(pieces[n - 1])] = Append(@, text[n])]
    BY <1>8, <2>1
  <2> QED
    <3>1. Body[n][pieces[n - 1]] \in V
      BY <1>3, <1>10
    <3>2. Body[n][pieces[n - 1]] = pieces[n]
      <4> DEFINE x == pieces[n - 1]
      <4>1. x \in V
        BY <1>10
      <4>2. pieces[n] = IF text[n] = c THEN Append(x, <<>>) ELSE [x EXCEPT ![Len(x)] = Append(@, text[n])]
        BY <2>2
      <4> HIDE DEF x
      <4>3. Body[n][x] = pieces[n]
        BY <1>5, <4>1, <4>2
      <4> QED
        BY <4>3 DEF x
    <3> QED
      BY <3>1, <3>2
<1>11. \A n \in 0..N : pieces[n] \in V
  BY <1>2, <1>9, <1>10, LoopInvariant
<1> QED
  BY <1>1, <1>2, <1>11 DEF V

LEMMA FirstAtType ==
  ASSUME NEW text \in Text, NEW c
  PROVE  FirstAt(text, c) \in 0..Len(text)
<1> DEFINE At == {i \in 1..Len(text) : text[i] = c}
<1>1. FirstAt(text, c) = IF At # {} THEN CHOOSE x \in At : \A y \in At : x <= y ELSE 0
  BY DEF FirstAt, SelectInSeq, Min
<1>2. At \in SUBSET Nat /\ Len(text) \in Nat /\ At \in SUBSET (0..Len(text))
  BY DEF Text
<1> HIDE DEF At
<1>3. At # {} => \E x \in At : \A y \in At : x <= y
  BY <1>2, Least
<1>4. CASE At # {}
  <2>1. FirstAt(text, c) \in At
    BY <1>1, <1>3, <1>4
  <2> QED
    BY <1>2, <2>1
<1>5. CASE At = {}
  BY <1>1, <1>2, <1>5
<1> QED
  BY <1>4, <1>5

LEMMA CutType ==
  ASSUME NEW text \in Text, NEW c
  PROVE  Before(text, c) \in Text /\ After(text, c) \in Text
<1>1. FirstAt(text, c) \in Int /\ 0 <= FirstAt(text, c) /\ FirstAt(text, c) <= Len(text)
  BY FirstAtType DEF Text
<1>2. Len(text) \in Nat
  BY DEF Text
<1>3. ASSUME NEW m \in Int, NEW n \in Int, 1 <= m, n <= Len(text) PROVE SubSeq(text, m, n) \in Text
  BY <1>2, <1>3 DEF Text
<1>4. FirstAt(text, c) # 0 => SubSeq(text, 1, FirstAt(text, c) - 1) \in Text
  BY <1>1, <1>2, <1>3
<1>5. SubSeq(text, FirstAt(text, c) + 1, Len(text)) \in Text
  BY <1>1, <1>2, <1>3
<1> QED
  BY <1>4, <1>5 DEF Before, After

\* Parse answers a version or none.
LEMMA ParseType ==
  ASSUME NEW s \in Text
  PROVE  Parse(s) = <<>> \/ \E v \in Version : Parse(s) = <<v>>
<1> DEFINE rest  == Before(Tail(s), Plus)
           pre   == IF Dash \in ToSet(rest) THEN Split(After(rest, Dash), Dot) ELSE <<>>
           parts == Split(Before(rest, Dash), Dot)
           v     == [major |-> Atoi(parts[1]), minor |-> Atoi(parts[2]), patch |-> Atoi(parts[3]), pre |-> pre]
<1> SUFFICES ASSUME Parse(s) # <<>> PROVE v \in Version /\ Parse(s) = <<v>>
  OBVIOUS
<1>1. s # <<>> /\ (\A i \in 1..3 : IsInt(parts[i])) /\ Parse(s) = <<v>>
  BY DEF Parse
<1>2. pre \in Seq(Text)
  <2>1. Tail(s) \in Text
    BY <1>1 DEF Text
  <2>2. rest \in Text
    BY <2>1, CutType
  <2>3. Split(After(rest, Dash), Dot) \in Seq(Text)
    BY <2>2, CutType, SplitType
  <2> HIDE DEF rest
  <2> QED
    BY <2>3
<1>3. \A i \in 1..3 : Atoi(parts[i]) \in Nat
  BY <1>1, MaxIntAssumption DEF IsInt, Atoi
<1> HIDE DEF pre, parts
<1>4. v \in Version
  BY <1>2, <1>3 DEF Version
<1> QED
  BY <1>1, <1>4

-------------------------------------------------------------------------------
(* The order of texts that may be versions *)

LEMMA AtMostTransitive ==
  ASSUME NEW u \in Version, NEW v \in Version, NEW w \in Version,
         Compare(<<u>>, <<v>>) <= 0, Compare(<<v>>, <<w>>) <= 0
  PROVE  Compare(<<u>>, <<w>>) <= 0
<1>1. /\ Compare(<<u>>, <<v>>) \in {-1, 0, 1} /\ Compare(<<v>>, <<w>>) \in {-1, 0, 1}
      /\ Compare(<<u>>, <<v>>) = 0 <=> u = v
      /\ Compare(<<u>>, <<v>>) = -1 /\ Compare(<<v>>, <<w>>) = -1 => Compare(<<u>>, <<w>>) = -1
  BY CompareIsTotalOrder
<1>2. Compare(<<v>>, <<w>>) = 0 <=> v = w
  BY CompareIsTotalOrder
<1>3. CASE u = v
  BY <1>3
<1>4. CASE v = w
  BY <1>4
<1>5. CASE u # v /\ v # w
  BY <1>1, <1>2, <1>5
<1> QED
  BY <1>3, <1>4, <1>5

LEMMA TextAtMostTransitive ==
  ASSUME NEW a \in Text, NEW b \in Text, NEW c \in Text, cmpText(a, b) <= 0, cmpText(b, c) <= 0
  PROVE  cmpText(a, c) <= 0
<1>1. /\ cmpText(a, b) \in {-1, 0, 1} /\ cmpText(b, c) \in {-1, 0, 1}
      /\ cmpText(a, b) = 0 <=> a = b
      /\ cmpText(a, b) = -1 /\ cmpText(b, c) = -1 => cmpText(a, c) = -1
  BY TextsOrdered
<1>2. cmpText(b, c) = 0 <=> b = c
  BY TextsOrdered
<1> QED
  BY <1>1, <1>2

\* CompareStrings orders all texts, those that are no versions included, in one order in
\* which texts may be level.
LEMMA StringsOrdered ==
  ASSUME NEW a \in Text, NEW b \in Text, NEW c \in Text
  PROVE  /\ CompareStrings(a, b) \in {-1, 0, 1}
         /\ CompareStrings(a, a) = 0
         /\ CompareStrings(a, b) = -1 <=> CompareStrings(b, a) = 1
         /\ CompareStrings(a, b) <= 0 /\ CompareStrings(b, c) <= 0 => CompareStrings(a, c) <= 0
<1> DEFINE Cmp(x, y) == IF x # <<>> /\ y # <<>> THEN Compare(x, y)
                        ELSE IF y # <<>> THEN 1 ELSE -1
           va == Parse(a)  vb == Parse(b)  vc == Parse(c)
           None(x) == x = <<>>
           One(x)  == \E v \in Version : x = <<v>>
<1>1. /\ None(va) \/ One(va)
      /\ None(vb) \/ One(vb)
      /\ None(vc) \/ One(vc)
  BY ParseType
<1>2. \A x, y \in {a, b, c} :
        CompareStrings(x, y) = IF Parse(x) = <<>> /\ Parse(y) = <<>> THEN cmpText(x, y)
                               ELSE Cmp(Parse(x), Parse(y))
  BY DEF CompareStrings
<1>3. ASSUME NEW x, NEW y, One(x), One(y)
      PROVE  /\ x # <<>> /\ y # <<>>
             /\ Compare(x, y) \in {-1, 0, 1}
             /\ Compare(x, x) = 0
             /\ Compare(x, y) = -1 <=> Compare(y, x) = 1
  <2>1. PICK u \in Version, v \in Version : x = <<u>> /\ y = <<v>>
    BY <1>3
  <2>2. Compare(<<u>>, <<u>>) = 0
    BY CompareIsTotalOrder
  <2>3. Compare(<<u>>, <<v>>) \in {-1, 0, 1} /\ (Compare(<<u>>, <<v>>) = -1 <=> Compare(<<v>>, <<u>>) = 1)
    BY CompareIsTotalOrder
  <2> QED
    BY <2>1, <2>2, <2>3
<1>4. ASSUME NEW x, NEW y, NEW z, One(x), One(y), One(z), Compare(x, y) <= 0, Compare(y, z) <= 0
      PROVE  Compare(x, z) <= 0
  BY <1>4, AtMostTransitive
<1>5. /\ cmpText(a, b) \in {-1, 0, 1} /\ cmpText(a, a) = 0
      /\ cmpText(a, b) = -1 <=> cmpText(b, a) = 1
      /\ cmpText(a, b) <= 0 /\ cmpText(b, c) <= 0 => cmpText(a, c) <= 0
  BY TextsOrdered, TextAtMostTransitive
<1> HIDE DEF va, vb, vc, One
<1>6. CompareStrings(a, b) \in {-1, 0, 1}
  BY <1>1, <1>2, <1>3, <1>5 DEF va, vb
<1>7. CompareStrings(a, a) = 0
  BY <1>1, <1>2, <1>3, <1>5 DEF va
<1>8. CompareStrings(a, b) = -1 <=> CompareStrings(b, a) = 1
  BY <1>1, <1>2, <1>3, <1>5 DEF va, vb
<1>9. CompareStrings(a, b) <= 0 /\ CompareStrings(b, c) <= 0 => CompareStrings(a, c) <= 0
  BY <1>1, <1>2, <1>3, <1>4, <1>5 DEF va, vb, vc
<1> QED
  BY <1>6, <1>7, <1>8, <1>9

LEMMA AtMost ==
  ASSUME NEW a \in Text, NEW b \in Text
  PROVE  /\ CompareStrings(a, b) \in {-1, 0, 1}
         /\ CompareStrings(a, b) <= 0 \/ CompareStrings(b, a) <= 0
         /\ CompareStrings(a, b) > 0 => CompareStrings(b, a) <= 0
<1>1. /\ CompareStrings(a, b) \in {-1, 0, 1} /\ CompareStrings(b, a) \in {-1, 0, 1}
      /\ CompareStrings(b, a) = -1 <=> CompareStrings(a, b) = 1
  BY StringsOrdered
<1> QED
  BY <1>1

-------------------------------------------------------------------------------
(* Max *)

\* Max answers one of the texts, and none of them is above it.
LEMMA MaxOfIsHighest ==
  ASSUME NEW texts \in Seq(Text), texts # <<>>
  PROVE  /\ MaxOf(texts) \in ToSet(texts)
         /\ \A v \in ToSet(texts) : CompareStrings(v, MaxOf(texts)) <= 0
<1> DEFINE N == Len(texts)
           V == ToSet(texts)
           Solves(f) == f = [n \in 1..N |->
                               IF n = 1 THEN texts[1]
                               ELSE IF CompareStrings(texts[n], f[n - 1]) > 0 THEN texts[n] ELSE f[n - 1]]
           highest == CHOOSE f : Solves(f)
           Body == [n \in 1..(N - 1) |-> [x \in V |->
                      IF CompareStrings(texts[n + 1], x) > 0 THEN texts[n + 1] ELSE x]]
<1>1. MaxOf(texts) = highest[N]
  BY DEF MaxOf
<1>2. N \in Nat \ {0} /\ V = {texts[i] : i \in 1..N} /\ \A i \in 1..N : texts[i] \in V /\ texts[i] \in Text
  BY DEF ToSet
<1> HIDE DEF V, N
<1>3. \E f : Solves(f)
  <2>1. N - 1 \in Nat /\ texts[1] \in V
    BY <1>2
  <2>2. \A n \in 1..(N - 1) : n + 1 \in 1..N
    BY <1>2
  <2>3. Body \in [1..(N - 1) -> [V -> V]]
    BY <1>2, <2>2
  <2>4. \A n \in 1..(N - 1), x \in V :
          Body[n][x] = IF CompareStrings(texts[n + 1], x) > 0 THEN texts[n + 1] ELSE x
    OBVIOUS
  <2> HIDE DEF Body
  <2>5. \A n \in 1..(N - 1) : \A x \in V : Body[n][x] \in V
    BY <2>3
  <2>6. \E g : Loops(g, V, texts[1], N - 1, Body)
    BY <2>1, <2>5, LoopExists
  <2>7. PICK g : /\ g \in [0..(N - 1) -> V] /\ g[0] = texts[1]
                 /\ \A n \in 1..(N - 1) : g[n] = Body[n][g[n - 1]]
    BY <2>6 DEF Loops
  <2> DEFINE f == [n \in 1..N |-> g[n - 1]]
  <2>8. ASSUME NEW n \in 1..N
        PROVE  f[n] = IF n = 1 THEN texts[1]
                      ELSE IF CompareStrings(texts[n], f[n - 1]) > 0 THEN texts[n] ELSE f[n - 1]
    <3>1. CASE n = 1
      BY <2>7, <3>1
    <3>2. CASE n # 1
      <4>1. n - 1 \in 1..(N - 1) /\ (n - 1) + 1 = n /\ n - 1 \in 1..N
        BY <1>2, <3>2
      <4>2. f[n - 1] = g[(n - 1) - 1] /\ f[n] = g[n - 1]
        BY <4>1
      <4>5. (n - 1) - 1 \in 0..(N - 1)
        BY <1>2, <4>1
      <4>3. g[(n - 1) - 1] \in V
        BY <2>7, <4>5
      <4>4. g[n - 1] = Body[n - 1][g[(n - 1) - 1]]
        BY <2>7, <4>1
      <4> HIDE DEF f
      <4> QED
        BY <2>4, <3>2, <4>1, <4>2, <4>3, <4>4
    <3> QED
      BY <3>1, <3>2
  <2>9. f = [n \in 1..N |-> f[n]]
    OBVIOUS
  <2> HIDE DEF f
  <2>10. Solves(f)
    BY <2>8, <2>9
  <2> QED
    BY <2>10
<1>4. Solves(highest)
  BY <1>3
<1> HIDE DEF highest
<1> DEFINE Good(n) == /\ highest[n] \in V
                      /\ \A i \in 1..n : CompareStrings(texts[i], highest[n]) <= 0
           S == {n \in Nat : n + 1 <= N => Good(n + 1)}
<1>5. 0 \in S
  <2>1. highest[1] = texts[1]
    BY <1>2, <1>4
  <2>2. CompareStrings(texts[1], texts[1]) = 0
    BY <1>2, StringsOrdered
  <2> QED
    BY <1>2, <2>1, <2>2
<1>6. ASSUME NEW n \in S PROVE n + 1 \in S
  <2> DEFINE k == n + 1
  <2>1. n \in Nat /\ k \in Nat
    OBVIOUS
  <2> SUFFICES ASSUME k + 1 <= N PROVE Good(k + 1)
    OBVIOUS
  <2>2. k + 1 \in 1..N /\ k + 1 # 1 /\ (k + 1) - 1 = k /\ k \in 1..N
    BY <1>2, <2>1
  <2>7. Good(k)
    <3>1. n + 1 <= N
      BY <1>2, <2>1
    <3> QED
      BY <3>1, Zenon
  <2> HIDE DEF k
  <2>3. highest[k + 1] = IF CompareStrings(texts[k + 1], highest[k]) > 0 THEN texts[k + 1] ELSE highest[k]
    BY <1>4, <2>2
  <2>4. highest[k] \in V /\ highest[k] \in Text /\ texts[k + 1] \in V /\ texts[k + 1] \in Text
    BY <1>2, <2>2, <2>7
  <2>5. highest[k + 1] \in V
    BY <2>3, <2>4
  <2>6. ASSUME NEW i \in 1..(k + 1) PROVE CompareStrings(texts[i], highest[k + 1]) <= 0
    <3>1. CompareStrings(texts[k + 1], texts[k + 1]) = 0
      BY <2>4, StringsOrdered
    <3>2. CompareStrings(texts[k + 1], highest[k]) \in {-1, 0, 1}
      BY <2>4, StringsOrdered
    <3>3. CASE i = k + 1
      BY <2>3, <3>1, <3>2, <3>3
    <3>4. CASE i # k + 1
      <4>1. i \in 1..k /\ i \in 1..N
        BY <1>2, <2>2, <3>4
      <4>2. CompareStrings(texts[i], highest[k]) <= 0 /\ texts[i] \in Text
        BY <1>2, <2>7, <4>1
      <4>3. CompareStrings(texts[k + 1], highest[k]) > 0 => CompareStrings(highest[k], texts[k + 1]) <= 0
        BY <2>4, AtMost
      <4>4. CompareStrings(highest[k], texts[k + 1]) <= 0 => CompareStrings(texts[i], texts[k + 1]) <= 0
        BY <2>4, <4>2, StringsOrdered
      <4> QED
        BY <2>3, <4>2, <4>3, <4>4
    <3> QED
      BY <3>3, <3>4
  <2> QED
    BY <2>5, <2>6
<1>7. S = Nat
  <2> HIDE DEF S
  <2>1. S \in SUBSET Nat
    BY DEF S
  <2> QED
    BY <1>5, <1>6, <2>1, Induction
<1>8. Good(N)
  <2> DEFINE m == N - 1
  <2>1. m \in Nat /\ m + 1 = N /\ m + 1 <= N
    BY <1>2
  <2> HIDE DEF m
  <2>2. m \in S
    BY <1>7, <2>1
  <2>3. Good(m + 1)
    BY <2>1, <2>2, Zenon
  <2> QED
    BY <2>1, <2>3, Zenon
<1> QED
  BY <1>1, <1>2, <1>8 DEF V

-------------------------------------------------------------------------------
(* Arrangements of what was listed *)

LEMMA Arranged ==
  ASSUME NEW T, IsFiniteSet(T), NEW s
  PROVE  s \in SetToSeqs(T) <=>
           /\ s \in [1..Cardinality(T) -> T]
           /\ \A i, j \in 1..Cardinality(T) : i # j => s[i] # s[j]
BY DEF SetToSeqs

\* An arrangement of a set is a sequence of all its elements.
LEMMA ArrangedRange ==
  ASSUME NEW T, IsFiniteSet(T), NEW s \in SetToSeqs(T)
  PROVE  /\ s \in Seq(T)
         /\ Len(s) = Cardinality(T)
         /\ DOMAIN s = 1..Cardinality(T)
         /\ ToSet(s) = T
<1> DEFINE n == Cardinality(T)
<1>1. n \in Nat
  BY FS_CardinalityType
<1>2. s \in [1..n -> T] /\ \A i, j \in 1..n : s[i] = s[j] => i = j
  BY Arranged
<1>3. IsFiniteSet(1..n) /\ Cardinality(1..n) = n
  <2> HIDE DEF n
  <2> QED
    BY <1>1, FS_Interval
<1>4. s \in Injection(1..n, T)
  BY <1>2, Fun_IsInj
<1>5. s \in Surjection(1..n, T)
  BY <1>3, <1>4, FS_Injection
<1>6. \A t \in T : \E i \in 1..n : s[i] = t
  BY <1>5 DEF Surjection
<1> HIDE DEF n
<1>7. s \in Seq(T) /\ Len(s) = n /\ DOMAIN s = 1..n
  BY <1>1, <1>2
<1>8. ToSet(s) = T
  BY <1>2, <1>6 DEF ToSet
<1> QED
  BY <1>7, <1>8 DEF n

\* A text that none of a list's is below.
LEMMA HighestExists ==
  ASSUME NEW h \in Seq(Text), NEW T \in SUBSET DOMAIN h, IsFiniteSet(T), T # {}
  PROVE  \E top \in T : \A v \in T : CompareStrings(h[v], h[top]) <= 0
<1>1. PICK p : p \in Bijection(1..Cardinality(T), T)
  BY FS_CardinalityType DEF ExistsBijection
<1>2. Cardinality(T) \in Nat
  BY FS_CardinalityType
<1>3. p \in [1..Cardinality(T) -> T] /\ \A t \in T : \E i \in 1..Cardinality(T) : p[i] = t
  BY <1>1 DEF Bijection, Injection, Surjection
<1> DEFINE n == Cardinality(T)
           s == [i \in 1..n |-> h[p[i]]]
<1>4. s \in Seq(Text) /\ s # <<>> /\ DOMAIN s = 1..n
  <2>1. n \in Nat /\ n # 0
    BY <1>2, <1>3
  <2>2. \A v \in T : h[v] \in Text
    OBVIOUS
  <2> HIDE DEF n
  <2>3. s \in [1..n -> Text]
    BY <1>3, <2>2 DEF n
  <2>4. s \in Seq(Text) /\ Len(s) = n /\ DOMAIN s = 1..n
    BY <2>1, <2>3
  <2> QED
    BY <2>1, <2>4
<1>5. MaxOf(s) \in ToSet(s) /\ \A v \in ToSet(s) : CompareStrings(v, MaxOf(s)) <= 0
  BY <1>4, MaxOfIsHighest
<1>6. \A i \in 1..n : s[i] = h[p[i]] /\ p[i] \in T
  BY <1>3
<1> HIDE DEF s, n
<1>7. ToSet(s) = {s[i] : i \in 1..n}
  BY <1>4 DEF ToSet
<1>8. PICK i \in 1..n : MaxOf(s) = h[p[i]]
  BY <1>5, <1>6, <1>7
<1>9. \A v \in T : h[v] \in ToSet(s)
  BY <1>3, <1>6, <1>7 DEF n
<1> QED
  BY <1>5, <1>6, <1>8, <1>9

\* An order in which Sort may leave the texts at some places of a list.
Ordered(h, s) == \A i, j \in DOMAIN s : i < j => CompareStrings(h[s[i]], h[s[j]]) <= 0

\* A place that none is below goes last.
LEMMA HighestLast ==
  ASSUME NEW h, NEW T, IsFiniteSet(T), NEW top \in T,
         \A v \in T : CompareStrings(h[v], h[top]) <= 0,
         NEW s \in SetToSeqs(T \ {top}), Ordered(h, s)
  PROVE  Append(s, top) \in SetToSeqs(T) /\ Ordered(h, Append(s, top)) /\ Last(Append(s, top)) = top
<1> DEFINE U == T \ {top}
           n == Cardinality(U)
           t == Append(s, top)
<1>1. IsFiniteSet(U) /\ n \in Nat /\ Cardinality(T) = n + 1
  <2>1. IsFiniteSet(U) /\ Cardinality(U) = Cardinality(T) - 1
    BY FS_RemoveElement
  <2>2. Cardinality(T) \in Nat /\ Cardinality(U) \in Nat
    BY <2>1, FS_CardinalityType
  <2> QED
    BY <2>1, <2>2
<1>2. s \in Seq(U) /\ Len(s) = n /\ DOMAIN s = 1..n
  BY <1>1, ArrangedRange
<1>3. \A i, j \in 1..n : i # j => s[i] # s[j]
  BY <1>1, Arranged
<1> HIDE DEF n
<1>4. s \in Seq(T) /\ \A i \in 1..n : s[i] \in T /\ s[i] # top
  BY <1>2
<1>5. /\ t \in Seq(T) /\ Len(t) = n + 1 /\ DOMAIN t = 1..(n + 1)
      /\ t[n + 1] = top
      /\ \A i \in 1..n : t[i] = s[i]
  BY <1>1, <1>2, <1>4
<1> HIDE DEF t, U
<1>6. t \in [1..(n + 1) -> T]
  BY <1>1, <1>5
<1>7. ASSUME NEW i \in 1..(n + 1), NEW j \in 1..(n + 1), i # j PROVE t[i] # t[j]
  <2>1. CASE i \in 1..n /\ j \in 1..n
    BY <1>3, <1>5, <1>7, <2>1
  <2>2. CASE i = n + 1
    <3>1. j \in 1..n
      BY <1>1, <1>7, <2>2
    <3> QED
      BY <1>4, <1>5, <2>2, <3>1
  <2>3. CASE j = n + 1
    <3>1. i \in 1..n
      BY <1>1, <1>7, <2>3
    <3> QED
      BY <1>4, <1>5, <2>3, <3>1
  <2> QED
    BY <1>1, <2>1, <2>2, <2>3
<1>8. t \in SetToSeqs(T)
  BY <1>1, <1>6, <1>7, Arranged
<1>9. Ordered(h, t)
  <2> SUFFICES ASSUME NEW i \in 1..(n + 1), NEW j \in 1..(n + 1), i < j
               PROVE  CompareStrings(h[t[i]], h[t[j]]) <= 0
    BY <1>5 DEF Ordered
  <2>1. i \in 1..n
    BY <1>1
  <2>2. CASE j = n + 1
    BY <1>4, <1>5, <2>1, <2>2
  <2>3. CASE j # n + 1
    <3>1. j \in 1..n
      BY <1>1, <2>3
    <3> QED
      BY <1>2, <1>5, <2>1, <3>1 DEF Ordered
  <2> QED
    BY <2>2, <2>3
<1>10. Last(t) = top
  BY <1>5 DEF Last
<1> QED
  BY <1>8, <1>9, <1>10 DEF t

\* The texts at any finite set of places can be sorted.
LEMMA OrderedExists ==
  ASSUME NEW h \in Seq(Text), NEW T \in SUBSET DOMAIN h, IsFiniteSet(T)
  PROVE  \E s \in SetToSeqs(T) : Ordered(h, s)
<1> DEFINE Can(U) == \E s \in SetToSeqs(U) : Ordered(h, s)
           S == {n \in Nat : \A U \in SUBSET DOMAIN h : IsFiniteSet(U) /\ Cardinality(U) = n => Can(U)}
<1>1. 0 \in S
  <2> SUFFICES ASSUME NEW U \in SUBSET DOMAIN h, IsFiniteSet(U), Cardinality(U) = 0 PROVE Can(U)
    OBVIOUS
  <2>1. <<>> \in [1..Cardinality(U) -> U] /\ 1..Cardinality(U) = {}
    OBVIOUS
  <2>2. <<>> \in SetToSeqs(U)
    BY <2>1, Arranged
  <2>3. Ordered(h, <<>>)
    BY DEF Ordered
  <2> QED
    BY <2>2, <2>3
<1>2. ASSUME NEW n \in S PROVE n + 1 \in S
  <2> SUFFICES ASSUME NEW U \in SUBSET DOMAIN h, IsFiniteSet(U), Cardinality(U) = n + 1 PROVE Can(U)
    OBVIOUS
  <2>1. U # {}
    BY FS_EmptySet
  <2>2. PICK top \in U : \A v \in U : CompareStrings(h[v], h[top]) <= 0
    BY <2>1, HighestExists
  <2>3. IsFiniteSet(U \ {top}) /\ Cardinality(U \ {top}) = n
    <3>1. n \in Nat
      OBVIOUS
    <3>2. IsFiniteSet(U \ {top}) /\ Cardinality(U \ {top}) = (n + 1) - 1
      BY FS_RemoveElement
    <3> QED
      BY <3>1, <3>2
  <2>4. Can(U \ {top})
    BY <2>3
  <2> HIDE DEF S
  <2>5. PICK s \in SetToSeqs(U \ {top}) : Ordered(h, s)
    BY <2>4
  <2> QED
    BY <2>2, <2>5, HighestLast
<1>3. S = Nat
  <2> HIDE DEF S
  <2>1. S \in SUBSET Nat
    BY DEF S
  <2> QED
    BY <1>1, <1>2, <2>1, Induction
<1> QED
  BY <1>3, FS_CardinalityType

\* What is rearranged is the same texts.
LEMMA RearrangedSame ==
  ASSUME NEW h \in Seq(Text), NEW s \in Rearranged(h)
  PROVE  s \in Seq(Text) /\ SameTexts(s, h)
<1> DEFINE n == Len(h)
           D == 1..n
<1>1. n \in Nat /\ DOMAIN h = D /\ h \in [D -> Text]
  OBVIOUS
<1>2. IsFiniteSet(D) /\ Cardinality(D) = n
  <2> HIDE DEF n
  <2> QED
    BY <1>1, FS_Interval
<1>3. PICK p \in SetToSeqs(D) : s = [i \in D |-> h[p[i]]]
  BY <1>1 DEF Rearranged
<1>4. p \in [D -> D] /\ (\A i, j \in D : i # j => p[i] # p[j]) /\ ToSet(p) = D /\ DOMAIN p = D
  BY <1>2, <1>3, Arranged, ArrangedRange
<1>5. s \in Seq(Text) /\ DOMAIN s = D /\ \A i \in D : s[i] = h[p[i]]
  BY <1>1, <1>3, <1>4
<1>6. \A j \in D : \E i \in D : p[i] = j
  BY <1>4 DEF ToSet
<1> HIDE DEF D
<1>7. ToSet(s) = ToSet(h)
  BY <1>1, <1>4, <1>5, <1>6 DEF ToSet
<1>8. ASSUME NEW v PROVE Count(s, v) = Count(h, v)
  <2> DEFINE S == {i \in D : s[i] = v}
             H == {i \in D : h[i] = v}
             f == [i \in S |-> p[i]]
  <2>1. f \in [S -> H]
    BY <1>4, <1>5
  <2>2. \A a, b \in S : f[a] = f[b] => a = b
    BY <1>4
  <2>3. \A t \in H : \E i \in S : f[i] = t
    BY <1>5, <1>6
  <2>4. IsFiniteSet(S)
    BY <1>2, FS_Subset
  <2> HIDE DEF S, H, f
  <2>5. f \in Bijection(S, H)
    BY <2>1, <2>2, <2>3, Fun_IsBij
  <2>6. Cardinality(H) = Cardinality(S)
    BY <2>4, <2>5, FS_Bijection DEF ExistsBijection
  <2> QED
    BY <1>1, <1>5, <2>6 DEF Count, S, H
<1> QED
  BY <1>5, <1>7, <1>8 DEF SameTexts

\* Sort may put one last that none of a list's texts is below.
LEMMA SortedLast ==
  ASSUME NEW h \in Seq(Text), NEW b \in ToSet(h), \A v \in ToSet(h) : CompareStrings(v, b) <= 0
  PROVE  \E s \in Sorted(h) : Last(s) = b
<1> DEFINE n == Len(h)
           D == 1..n
<1>1. n \in Nat /\ DOMAIN h = D /\ h \in [D -> Text] /\ \A i \in D : h[i] \in ToSet(h)
  BY DEF ToSet
<1>2. PICK top \in D : h[top] = b
  BY <1>1 DEF ToSet
<1>3. \A v \in D : CompareStrings(h[v], h[top]) <= 0
  BY <1>1, <1>2
<1>4. IsFiniteSet(D) /\ Cardinality(D) = n
  <2> HIDE DEF n
  <2> QED
    BY <1>1, FS_Interval
<1>5. IsFiniteSet(D \ {top}) /\ D \ {top} \subseteq DOMAIN h
  BY <1>1, <1>4, FS_RemoveElement
<1>6. PICK q \in SetToSeqs(D \ {top}) : Ordered(h, q)
  BY <1>5, OrderedExists
<1> DEFINE p == Append(q, top)
           s == [i \in D |-> h[p[i]]]
<1> HIDE DEF p
<1>7. p \in SetToSeqs(D) /\ Ordered(h, p) /\ Last(p) = top
  BY <1>3, <1>4, <1>6, HighestLast DEF p
<1>8. p \in [D -> D] /\ p \in Seq(D) /\ Len(p) = n /\ DOMAIN p = D
  BY <1>4, <1>7, Arranged, ArrangedRange
<1>9. s \in Rearranged(h)
  BY <1>1, <1>7 DEF Rearranged
<1>10. DOMAIN s = D /\ (\A i \in D : s[i] = h[p[i]]) /\ n \in D
  BY <1>1, <1>2
<1>11. Len(s) = n
  BY <1>1, <1>10
<1> HIDE DEF s
<1>12. s \in Sorted(h)
  BY <1>1, <1>7, <1>8, <1>9, <1>10 DEF Sorted, Ordered
<1>13. Last(s) = h[p[n]] /\ p[n] = top
  BY <1>7, <1>8, <1>10, <1>11 DEF Last
<1> QED
  BY <1>2, <1>12, <1>13

-------------------------------------------------------------------------------
(* Numbers in texts *)

\* Decimal is given by its recursion.
LEMMA DecimalFact ==
  Decimal = [n \in 0..MaxInt |->
               IF n < 10 THEN <<48 + n>> ELSE Append(Decimal[n \div 10], 48 + (n % 10))]
<1> DEFINE Solves(g, m) == g = [n \in 0..m |-> IF n < 10 THEN <<48 + n>>
                                               ELSE Append(g[n \div 10], 48 + (n % 10))]
           S == {m \in Nat : \E g : Solves(g, m)}
<1>1. 0 \in S
  <2> DEFINE g == [n \in 0..0 |-> <<48 + n>>]
  <2>1. Solves(g, 0)
    OBVIOUS
  <2> QED
    BY <2>1
<1>2. ASSUME NEW m \in S PROVE m + 1 \in S
  <2>1. PICK g : Solves(g, m)
    OBVIOUS
  <2> DEFINE NextDigits(f, n) == IF n < 10 THEN <<48 + n>> ELSE Append(f[n \div 10], 48 + (n % 10))
             h == [n \in 0..(m + 1) |-> NextDigits(g, n)]
  <2>2. ASSUME NEW n \in 0..(m + 1), n >= 10 PROVE h[n \div 10] = g[n \div 10]
    <3>1. m \in Nat /\ n \in Nat
      OBVIOUS
    <3>2. n \div 10 \in 0..m /\ n \div 10 \in 0..(m + 1)
      BY <2>2, <3>1
    <3> QED
      BY <2>1, <3>2
  <2>3. h = [n \in 0..(m + 1) |-> NextDigits(g, n)]
    OBVIOUS
  <2> HIDE DEF h
  <2>4. \A n \in 0..(m + 1) : NextDigits(g, n) = NextDigits(h, n)
    BY <2>2
  <2> HIDE DEF NextDigits
  <2>5. h = [n \in 0..(m + 1) |-> NextDigits(h, n)]
    BY <2>3, <2>4
  <2>6. Solves(h, m + 1)
    BY <2>5 DEF NextDigits
  <2> HIDE DEF Solves
  <2> QED
    BY <2>6
<1>3. S = Nat
  <2> HIDE DEF S
  <2>1. S \in SUBSET Nat
    BY DEF S
  <2> QED
    BY <1>1, <1>2, <2>1, Induction
<1>4. \E g : Solves(g, MaxInt)
  BY <1>3, MaxIntAssumption
<1> QED
  BY <1>4 DEF Decimal

LEMMA DecimalType ==
  \A n \in 0..MaxInt : Decimal[n] \in Text \ {<<>>}
<1> DEFINE Good(n) == Decimal[n] \in Text \ {<<>>}
           S == {m \in Nat : \A n \in 0..MaxInt : n <= m => Good(n)}
<1>1. 0 \in S
  <2>1. \A n \in 0..MaxInt : n <= 0 => Decimal[n] = <<48>>
    BY DecimalFact
  <2>2. <<48>> \in Text \ {<<>>}
    BY DEF Text
  <2> QED
    BY <2>1, <2>2
<1>2. ASSUME NEW m \in S PROVE m + 1 \in S
  <2>1. m \in Nat
    OBVIOUS
  <2> SUFFICES ASSUME NEW n \in 0..MaxInt, n <= m + 1 PROVE Good(n)
    BY <2>1
  <2>2. n \in Nat
    BY MaxIntAssumption
  <2>3. CASE n < 10
    BY <2>2, <2>3, DecimalFact DEF Text
  <2>4. CASE ~(n < 10)
    <3>1. n \div 10 \in 0..MaxInt /\ n \div 10 <= m /\ n % 10 \in Nat
      BY <2>1, <2>2, <2>4, MaxIntAssumption
    <3>2. Good(n \div 10)
      BY <3>1
    <3>3. Decimal[n] = Append(Decimal[n \div 10], 48 + (n % 10))
      BY <2>4, DecimalFact
    <3> DEFINE t == Decimal[n \div 10]  d == 48 + (n % 10)
    <3>4. t \in Text /\ d \in Nat
      BY <3>1, <3>2
    <3> HIDE DEF t, d
    <3>5. Append(t, d) \in Text \ {<<>>}
      BY <3>4 DEF Text
    <3> QED
      BY <3>3, <3>5 DEF t, d
  <2> QED
    BY <2>3, <2>4
<1>3. S = Nat
  <2> HIDE DEF S
  <2>1. S \in SUBSET Nat
    BY DEF S
  <2> QED
    BY <1>1, <1>2, <2>1, Induction
<1> SUFFICES ASSUME NEW n \in 0..MaxInt PROVE Good(n)
  OBVIOUS
<1>4. MaxInt \in Nat /\ n <= MaxInt
  BY MaxIntAssumption
<1>5. MaxInt \in S
  BY <1>3, <1>4
<1> HIDE DEF Good
<1> QED
  BY <1>4, <1>5

LEMMA AppendEqual ==
  ASSUME NEW s \in Text, NEW t \in Text, NEW x \in Nat, NEW y \in Nat, Append(s, x) = Append(t, y)
  PROVE  s = t /\ x = y
<1>1. s \in Seq(Nat) /\ t \in Seq(Nat)
  BY DEF Text
<1>2. Append(s, x) = Append(t, y) <=> s = t /\ x = y
  BY <1>1, AppendInjective
<1> QED
  BY <1>2

\* No two numbers have one decimal.
LEMMA DecimalInjective ==
  ASSUME NEW a \in 0..MaxInt, NEW b \in 0..MaxInt, Decimal[a] = Decimal[b]
  PROVE  a = b
<1> DEFINE S == {k \in Nat : \A m, n \in 0..MaxInt : m <= k /\ Decimal[m] = Decimal[n] => m = n}
           Many(n) == n \in Nat /\ ~(n < 10)
<1>1. ASSUME NEW n \in 0..MaxInt PROVE n \in Nat /\ (n < 10 => Decimal[n] = <<48 + n>>)
  BY MaxIntAssumption, DecimalFact
<1>2. ASSUME NEW n \in 0..MaxInt, Many(n)
      PROVE  /\ n \div 10 \in 0..MaxInt /\ n \div 10 < n /\ n % 10 \in Nat /\ n = 10 * (n \div 10) + (n % 10)
             /\ Decimal[n \div 10] \in Text \ {<<>>}
             /\ Decimal[n] = Append(Decimal[n \div 10], 48 + (n % 10))
  <2>1. n \div 10 \in 0..MaxInt /\ n \div 10 < n /\ n % 10 \in Nat /\ n = 10 * (n \div 10) + (n % 10)
    <3>1. n \in Nat /\ MaxInt \in Nat /\ n <= MaxInt /\ n >= 10
      BY <1>2, MaxIntAssumption
    <3>2. n \div 10 \in Nat /\ n % 10 \in Nat
      BY <3>1
    <3>3. n \div 10 < n
      BY <3>1
    <3>4. n = 10 * (n \div 10) + (n % 10)
      BY <3>1
    <3> QED
      BY <3>1, <3>2, <3>3, <3>4
  <2>2. Decimal[n] = Append(Decimal[n \div 10], 48 + (n % 10))
    BY <1>2, DecimalFact
  <2> QED
    BY <2>1, <2>2, DecimalType
<1>3. ASSUME NEW m \in 0..MaxInt, NEW n \in 0..MaxInt, m < 10, Many(n), Decimal[m] = Decimal[n] PROVE FALSE
  <2> DEFINE t == Decimal[n \div 10]
         c == 48 + (n % 10)
  <2>1. Decimal[m] = <<48 + m>> /\ Decimal[n] = Append(t, c)
    BY <1>1, <1>2, <1>3
  <2>2. t \in Seq(Nat) /\ t # <<>> /\ c \in Nat
    BY <1>2, <1>3 DEF Text
  <2> HIDE DEF t, c
  <2>3. Len(t) \in Nat /\ Len(t) # 0 /\ Len(Append(t, c)) = Len(t) + 1
    BY <2>2
  <2>4. Len(Append(t, c)) = 1
    <3>1. Append(t, c) = <<48 + m>>
      BY <1>3, <2>1, Zenon
    <3>2. Len(<<48 + m>>) = 1
      OBVIOUS
    <3> QED
      BY <3>1, <3>2, Zenon
  <2> QED
    BY <2>3, <2>4
<1>4. ASSUME NEW m \in 0..MaxInt, NEW n \in 0..MaxInt, Decimal[m] = Decimal[n], m < 10 PROVE m = n
  <2>1. n < 10
    BY <1>1, <1>3, <1>4
  <2>2. <<48 + m>> = <<48 + n>> /\ m \in Nat /\ n \in Nat
    BY <1>1, <1>4, <2>1
  <2> QED
    BY <2>2
<1>5. 0 \in S
  BY <1>4, MaxIntAssumption
<1>6. ASSUME NEW k \in S PROVE k + 1 \in S
  <2> SUFFICES ASSUME NEW m \in 0..MaxInt, NEW n \in 0..MaxInt, m <= k + 1, Decimal[m] = Decimal[n]
               PROVE  m = n
    OBVIOUS
  <2>1. CASE m < 10
    BY <1>4, <2>1
  <2>2. CASE Many(m) /\ n < 10
    BY <1>3, <2>2
  <2>3. CASE Many(m) /\ Many(n)
    <3> DEFINE p == m \div 10  q == n \div 10  c == 48 + (m % 10)  d == 48 + (n % 10)
    <3>1. /\ p \in 0..MaxInt /\ q \in 0..MaxInt /\ p < m /\ c \in Nat /\ d \in Nat
          /\ m = 10 * p + (c - 48) /\ n = 10 * q + (d - 48)
      BY <1>2, <2>3
    <3>2. Decimal[p] \in Text /\ Decimal[q] \in Text
      BY <1>2, <2>3
    <3>3. Append(Decimal[p], c) = Append(Decimal[q], d)
      BY <1>2, <2>3
    <3>4. p <= k
      BY <1>1, <3>1
    <3> HIDE DEF p, q, c, d
    <3>5. Decimal[p] = Decimal[q] /\ c = d
      <4> DEFINE s == Decimal[p]  t == Decimal[q]
      <4>1. s \in Text /\ t \in Text /\ c \in Nat /\ d \in Nat /\ Append(s, c) = Append(t, d)
        BY <3>1, <3>2, <3>3
      <4> HIDE DEF s, t
      <4>2. s = t /\ c = d
        BY <4>1, AppendEqual
      <4> QED
        BY <4>2 DEF s, t
    <3>6. p = q
      BY <3>1, <3>4, <3>5
    <3> QED
      BY <3>1, <3>5, <3>6
  <2> QED
    BY <1>1, <2>1, <2>2, <2>3
<1>7. S = Nat
  <2> HIDE DEF S
  <2>1. S \in SUBSET Nat
    BY DEF S
  <2> QED
    BY <1>5, <1>6, <2>1, Induction
<1> QED
  BY <1>1, <1>7

\* Value goes through the digits from the left.
LEMMA ValueRuns ==
  ASSUME NEW digits \in Text
  PROVE  \E f : /\ f[0] = 0 /\ \A n \in 0..Len(digits) : f[n] \in Int
                /\ \A n \in 1..Len(digits) : f[n] = 10 * f[n - 1] + digits[n] - 48
                /\ Value(digits) = f[Len(digits)]
<1> DEFINE N == Len(digits)
           Solves(f) == f = [n \in 0..N |-> IF n = 0 THEN 0 ELSE 10 * f[n - 1] + digits[n] - 48]
           value == CHOOSE f : Solves(f)
           Body == [n \in 1..N |-> [x \in Int |-> 10 * x + digits[n] - 48]]
<1>1. Value(digits) = value[N]
  BY DEF Value
<1>2. N \in Nat /\ \A n \in 1..N : digits[n] \in Nat
  BY CharactersOf
<1> HIDE DEF N
<1>3. \A n \in 1..N, x \in Int : Body[n][x] = 10 * x + digits[n] - 48
  OBVIOUS
<1>4. \A n \in 1..N : \A x \in Int : Body[n][x] \in Int
  BY <1>2, <1>3
<1> HIDE DEF Body
<1>5. 0 \in Int
  OBVIOUS
<1>6. \E f : Loops(f, Int, 0, N, Body)
  BY <1>2, <1>4, <1>5, LoopExists
<1>7. PICK f : Loops(f, Int, 0, N, Body)
  BY <1>6
<1>8. Solves(f)
  <2>1. ASSUME NEW n \in 0..N, n # 0 PROVE f[n] = 10 * f[n - 1] + digits[n] - 48
    <3>1. n \in 1..N /\ n - 1 \in 0..N
      BY <1>2, <2>1
    <3>2. f[n - 1] \in Int
      BY <1>7, <3>1 DEF Loops
    <3> QED
      BY <1>3, <1>7, <3>1, <3>2 DEF Loops
  <2> QED
    BY <1>7, <2>1 DEF Loops
<1>9. Solves(value)
  BY <1>8
<1> HIDE DEF value
<1>10. value[0] = 0 /\ \A n \in 1..N : value[n] = 10 * value[n - 1] + digits[n] - 48
  <2>1. \A n \in 1..N : n \in 0..N /\ n # 0
    BY <1>2
  <2> QED
    BY <1>2, <1>9, <2>1
<1>11. \A n \in 1..N : value[n - 1] \in Int => value[n] \in Int
  BY <1>2, <1>10
<1>12. value[0] \in Int
  BY <1>10
<1>13. \A n \in 0..N : value[n] \in Int
  BY <1>2, <1>11, <1>12, LoopInvariant
<1> QED
  BY <1>1, <1>10, <1>13 DEF N

\* Of digits without a leading zero, whose value is within int, the decimal of the value
\* are the digits.
LEMMA DecimalOfValue ==
  ASSUME NEW id \in Text, isAllDigits(id), ~(Len(id) > 1 /\ id[1] = 48)
  PROVE  /\ Value(id) \in Nat
         /\ Value(id) <= MaxInt => Decimal[Value(id)] = id
<1> DEFINE N == Len(id)
<1>1. PICK f : /\ f[0] = 0 /\ \A n \in 0..N : f[n] \in Int
               /\ \A n \in 1..N : f[n] = 10 * f[n - 1] + id[n] - 48
               /\ Value(id) = f[N]
  BY ValueRuns
<1>2. N \in Nat \ {0} /\ \A n \in 1..N : id[n] \in 48..57
  <2>1. id \in Seq(Nat) /\ id # <<>>
    BY DEF isAllDigits, Text
  <2>2. \A n \in 1..N : id[n] \in ToSet(id)
    BY <2>1 DEF ToSet
  <2>3. ToSet(id) \subseteq 48..57
    BY DEF isAllDigits, Digits
  <2> HIDE DEF N
  <2>4. N \in Nat \ {0}
    BY <2>1 DEF N
  <2> QED
    BY <2>2, <2>3, <2>4
<1>3. MaxInt \in Nat
  BY MaxIntAssumption
<1>4. N > 1 => id[1] # 48
  OBVIOUS
<1>5. id \in Seq(Nat)
  BY DEF Text
<1> HIDE DEF N
<1> DEFINE Good(n) == /\ f[n] \in Nat /\ (N > 1 => f[n] >= 1)
                      /\ f[n] <= MaxInt => Decimal[f[n]] = SubSeq(id, 1, n)
           S == {m \in Nat : m + 1 <= N => Good(m + 1)}
<1>6. 0 \in S
  <2>1. 1 \in 1..N /\ id[1] \in 48..57
    BY <1>2
  <2>2. f[1] = 10 * f[0] + id[1] - 48
    <3>1. \A n \in 1..N : f[n] = 10 * f[n - 1] + id[n] - 48
      BY <1>1
    <3> QED
      BY <2>1, <3>1
  <2>3. f[1] = id[1] - 48 /\ f[1] \in 0..9
    <3>1. f[0] = 0
      BY <1>1
    <3> DEFINE c == id[1]
    <3>2. c \in 48..57 /\ f[1] = 10 * 0 + c - 48
      BY <2>1, <2>2, <3>1
    <3> HIDE DEF c
    <3>3. f[1] = c - 48 /\ c - 48 \in 0..9
      BY <3>2
    <3> QED
      BY <3>3 DEF c
  <2>4. f[1] <= MaxInt => Decimal[f[1]] = <<48 + f[1]>>
    <3> DEFINE x == f[1]
    <3>1. x \in 0..9
      BY <2>3
    <3> HIDE DEF x
    <3>2. x <= MaxInt => Decimal[x] = <<48 + x>>
      BY <1>3, <3>1, DecimalFact
    <3> QED
      BY <3>2 DEF x
  <2>5. SubSeq(id, 1, 1) = <<id[1]>>
    <3>1. 1 \in 1..Len(id)
      BY <2>1 DEF N
    <3>2. SubSeq(id, 1, 1) = <<id[1]>> \o SubSeq(id, 1 + 1, 1)
      BY <1>5, <3>1, SubSeqRecursiveFirst
    <3>3. SubSeq(id, 1 + 1, 1) = <<>>
      BY SubSeqEmpty
    <3>4. <<id[1]>> \in Seq(Nat)
      BY <2>1
    <3>5. <<id[1]>> \o <<>> = <<id[1]>>
      BY <3>4, ConcatEmptySeq
    <3> QED
      BY <3>2, <3>3, <3>5
  <2>6. 48 + f[1] = id[1]
    BY <2>1, <2>3
  <2>7. Good(1)
    BY <1>4, <2>1, <2>3, <2>4, <2>5, <2>6
  <2> HIDE DEF Good
  <2> QED
    BY <2>7
<1>7. ASSUME NEW m \in S PROVE m + 1 \in S
  <2> DEFINE k == m + 1
  <2>1. m \in Nat /\ k \in Nat /\ k >= 1 /\ k - 1 = m
    OBVIOUS
  <2> SUFFICES ASSUME k + 1 <= N PROVE Good(k + 1)
    OBVIOUS
  <2>2. Good(k)
    <3>1. m + 1 <= N
      BY <1>2, <2>1
    <3> HIDE DEF Good
    <3> QED
      BY <3>1
  <2> HIDE DEF k
  <2>3. k + 1 \in 1..N /\ (k + 1) - 1 = k /\ k \in 1..N
    BY <1>2, <2>1
  <2> DEFINE d == id[k + 1] - 48
  <2>4. d \in 0..9 /\ id[k + 1] = 48 + d /\ id[k + 1] \in Nat
    BY <1>2, <2>3
  <2>5. f[k + 1] = 10 * f[k] + d
    <3>1. f[k + 1] = 10 * f[(k + 1) - 1] + id[k + 1] - 48
      BY <1>1, <2>3
    <3>2. f[k] \in Int
      BY <2>2
    <3> QED
      BY <2>3, <2>4, <3>1, <3>2
  <2> HIDE DEF d
  <2>6. f[k] \in Nat /\ f[k] >= 1 /\ f[k + 1] \in Nat /\ f[k + 1] >= 10 /\ f[k] <= f[k + 1]
    BY <1>2, <2>1, <2>2, <2>3, <2>4, <2>5
  <2>7. f[k + 1] \div 10 = f[k] /\ f[k + 1] % 10 = d
    <3> DEFINE q == f[k]  n == f[k + 1]
    <3>1. n \in Nat /\ q \in Nat /\ d \in 0..9 /\ n = 10 * q + d
      BY <2>4, <2>5, <2>6
    <3> HIDE DEF q, n
    <3>2. n \div 10 = q /\ n % 10 = d
      BY <3>1
    <3> QED
      BY <3>2 DEF q, n
  <2>8. ASSUME f[k + 1] <= MaxInt PROVE Decimal[f[k + 1]] = SubSeq(id, 1, k + 1)
    <3> DEFINE n == f[k + 1]
    <3>1. n \in 0..MaxInt /\ ~(n < 10)
      BY <1>3, <2>6, <2>8
    <3>2. Decimal[n] = Append(Decimal[n \div 10], 48 + (n % 10))
      BY <3>1, DecimalFact
    <3>3. Decimal[n] = Append(Decimal[f[k]], id[k + 1])
      BY <2>4, <2>7, <3>2
    <3>4. Decimal[f[k]] = SubSeq(id, 1, k)
      BY <1>3, <2>2, <2>6, <2>8
    <3>5. SubSeq(id, 1, k + 1) = Append(SubSeq(id, 1, k), id[k + 1])
      <4>1. SubSeq(id, 1, k + 1) = SubSeq(id, 1, (k + 1) - 1) \o <<id[k + 1]>>
        BY <1>2, <1>5, <2>3, SubSeqRecursiveSecond DEF N
      <4>2. SubSeq(id, 1, k) \in Seq(Nat)
        BY <1>5, <2>3 DEF N
      <4>3. Append(SubSeq(id, 1, k), id[k + 1]) = SubSeq(id, 1, k) \o <<id[k + 1]>>
        BY <2>4, <4>2, AppendIsConcat
      <4> QED
        BY <2>3, <4>1, <4>3
    <3> QED
      BY <3>3, <3>4, <3>5
  <2> QED
    BY <2>6, <2>8
<1>8. S = Nat
  <2> HIDE DEF S
  <2>1. S \in SUBSET Nat
    BY DEF S
  <2> QED
    BY <1>6, <1>7, <2>1, Induction
<1>9. Good(N)
  <2> DEFINE m == N - 1
  <2>1. m \in Nat /\ m + 1 = N /\ m + 1 <= N
    BY <1>2
  <2> HIDE DEF m, Good
  <2>2. m \in S
    BY <1>8, <2>1
  <2>3. Good(m + 1)
    BY <2>1, <2>2
  <2> QED
    BY <2>1, <2>3, Zenon
<1>10. SubSeq(id, 1, N) = id
  BY <1>5, SubSeqFull DEF N
<1> QED
  BY <1>1, <1>9, <1>10

\* Such an identifier is one that compareIdent reads as a number, its value.
LEMMA IdentValue ==
  ASSUME NEW id \in Text, isAllDigits(id), ~(Len(id) > 1 /\ id[1] = 48), ~Overflows(id)
  PROVE  isNumericIdent(id) /\ Atoi(id) = Value(id) /\ Value(id) \in Nat
<1>1. Value(id) \in Nat /\ Value(id) <= MaxInt
  BY DecimalOfValue, MaxIntAssumption DEF Overflows
<1>2. Value(id) \in 0..MaxInt /\ Decimal[Value(id)] = id
  BY <1>1, DecimalOfValue, MaxIntAssumption
<1>3. IsInt(id)
  BY <1>2 DEF IsInt
<1>4. Atoi(id) \in 0..MaxInt /\ Decimal[Atoi(id)] = id
  BY <1>3 DEF IsInt, Atoi
<1>5. Atoi(id) = Value(id)
  BY <1>2, <1>4, DecimalInjective
<1> QED
  BY <1>1, <1>3, <1>5 DEF isNumericIdent

-------------------------------------------------------------------------------
(* Keys, the order of the reference *)

\* An identifier Parse lets through, and compareIdent reads as what it is.
Proper(id) ==
  /\ id \in Text
  /\ isAllDigits(id) => isNumericIdent(id) /\ Atoi(id) = Value(id) /\ Value(id) \in Nat

Rank(id) == IF isAllDigits(id) THEN <<1, <<Value(id)>>>> ELSE <<2, id>>

Place == Nat \X Text

Below(p, q) == p[1] < q[1] \/ (p[1] = q[1] /\ TextLess(p[2], q[2]))

LEMMA NumberTexts ==
  ASSUME NEW m \in Nat, NEW n \in Nat
  PROVE  TextLess(<<m>>, <<n>>) => m < n
BY DEF TextLess

LEMMA NoneBelowEmpty == ASSUME NEW t PROVE ~TextLess(t, <<>>)
BY DEF TextLess

LEMMA RankType ==
  ASSUME NEW id, Proper(id)
  PROVE  Rank(id) \in Place /\ Rank(id)[1] \in {1, 2}
<1>1. id \in Text /\ (isAllDigits(id) => Value(id) \in Nat)
  BY DEF Proper
<1>2. CASE isAllDigits(id)
  <2>1. <<Value(id)>> \in Text
    BY <1>1, <1>2 DEF Text
  <2> QED
    BY <1>2, <2>1 DEF Rank, Place
<1>3. CASE ~isAllDigits(id)
  BY <1>1, <1>3 DEF Rank, Place
<1> QED
  BY <1>2, <1>3

LEMMA RankInjective ==
  ASSUME NEW a, NEW b, Proper(a), Proper(b), Rank(a) = Rank(b)
  PROVE  compareIdent(a, b) = 0
<1>1. CASE isAllDigits(a) /\ isAllDigits(b)
  <2>1. Value(a) = Value(b)
    BY <1>1 DEF Rank
  <2> QED
    BY <1>1, <2>1 DEF Proper, compareIdent, cmpInt
<1>2. CASE ~isAllDigits(a) /\ ~isAllDigits(b)
  <2>1. a = b
    BY <1>2 DEF Rank
  <2> QED
    BY <2>1, IdentsOrdered DEF Proper
<1>3. isAllDigits(a) <=> isAllDigits(b)
  BY DEF Rank
<1> QED
  BY <1>1, <1>2, <1>3

LEMMA RankBelow ==
  ASSUME NEW a, NEW b, Proper(a), Proper(b), Below(Rank(a), Rank(b))
  PROVE  compareIdent(a, b) = -1
<1>1. CASE isAllDigits(a) /\ isAllDigits(b)
  <2>1. Rank(a) = <<1, <<Value(a)>>>> /\ Rank(b) = <<1, <<Value(b)>>>>
    BY <1>1 DEF Rank
  <2>2. TextLess(<<Value(a)>>, <<Value(b)>>)
    BY <2>1 DEF Below
  <2>3. Value(a) < Value(b)
    BY <1>1, <2>2, NumberTexts DEF Proper
  <2> QED
    BY <1>1, <2>3 DEF Proper, compareIdent, cmpInt
<1>2. CASE isAllDigits(a) /\ ~isAllDigits(b)
  BY <1>2 DEF Proper, compareIdent, isNumericIdent
<1>3. CASE ~isAllDigits(a) /\ isAllDigits(b)
  <2>1. Rank(a)[1] = 2 /\ Rank(b)[1] = 1
    BY <1>3 DEF Rank
  <2> QED
    BY <2>1 DEF Below
<1>4. CASE ~isAllDigits(a) /\ ~isAllDigits(b)
  <2>1. Rank(a) = <<2, a>> /\ Rank(b) = <<2, b>>
    BY <1>4 DEF Rank
  <2>2. TextLess(a, b)
    BY <2>1 DEF Below
  <2> QED
    BY <1>4, <2>2 DEF compareIdent, cmpText, isNumericIdent
<1> QED
  BY <1>1, <1>2, <1>3, <1>4

\* The places of a key: three numbers, and those of the pre-release.
PlacesOf(pre) == IF pre = <<>> THEN <<<<3, <<>>>>>>
                 ELSE [i \in DOMAIN pre |-> Rank(pre[i])] \o <<<<0, <<>>>>>>

ProperPre(pre) == pre \in Seq(Text) /\ \A i \in 1..Len(pre) : Proper(pre[i])

LEMMA PlacesAre ==
  ASSUME NEW pre, ProperPre(pre), pre # <<>>
  PROVE  /\ PlacesOf(pre) \in Seq(Place)
         /\ Len(PlacesOf(pre)) = Len(pre) + 1
         /\ \A i \in 1..Len(pre) : PlacesOf(pre)[i] = Rank(pre[i])
         /\ PlacesOf(pre)[Len(pre) + 1] = <<0, <<>>>>
<1> DEFINE ranks == [i \in DOMAIN pre |-> Rank(pre[i])]
           end   == <<<<0, <<>>>>>>
<1>1. pre \in Seq(Text) /\ Len(pre) \in Nat /\ DOMAIN pre = 1..Len(pre)
  BY DEF ProperPre
<1>2. \A i \in 1..Len(pre) : Rank(pre[i]) \in Place
  BY RankType DEF ProperPre
<1>3. ranks \in Seq(Place) /\ Len(ranks) = Len(pre) /\ \A i \in 1..Len(pre) : ranks[i] = Rank(pre[i])
  <2>1. ranks \in [1..Len(pre) -> Place]
    BY <1>1, <1>2
  <2> QED
    BY <1>1, <2>1
<1>4. end \in Seq(Place) /\ Len(end) = 1 /\ end[1] = <<0, <<>>>>
  <2>1. <<>> \in Text
    BY DEF Text
  <2>2. <<0, <<>>>> \in Place
    BY <2>1 DEF Place
  <2> QED
    BY <2>2
<1>5. PlacesOf(pre) = ranks \o end
  BY DEF PlacesOf
<1> HIDE DEF ranks, end
<1>6. /\ ranks \o end \in Seq(Place)
      /\ Len(ranks \o end) = Len(ranks) + Len(end)
      /\ \A i \in 1..(Len(ranks) + Len(end)) :
           (ranks \o end)[i] = IF i <= Len(ranks) THEN ranks[i] ELSE end[i - Len(ranks)]
  BY <1>3, <1>4, ConcatProperties
<1> QED
  BY <1>1, <1>3, <1>4, <1>5, <1>6

\* Of two pre-releases the one whose places come first is the lower one.
LEMMA PlacesBelow ==
  ASSUME NEW a, NEW b, ProperPre(a), ProperPre(b),
         NEW k \in 1..Len(PlacesOf(a)), k <= Len(PlacesOf(b)),
         \A j \in 1..(k - 1) : PlacesOf(a)[j] = PlacesOf(b)[j],
         Below(PlacesOf(a)[k], PlacesOf(b)[k])
  PROVE  comparePre(a, b) = -1
<1>1. a \in Seq(Text) /\ b \in Seq(Text) /\ Len(a) \in Nat /\ Len(b) \in Nat
  BY DEF ProperPre
<1>2. CASE a = <<>>
  <2>1. k = 1 /\ PlacesOf(a)[1] = <<3, <<>>>>
    BY <1>2 DEF PlacesOf
  <2>2. CASE b = <<>>
    <3>1. PlacesOf(b)[1] = <<3, <<>>>>
      BY <2>2 DEF PlacesOf
    <3> QED
      BY <2>1, <3>1, NoneBelowEmpty DEF Below
  <2>3. CASE b # <<>>
    <3>1. PlacesOf(b)[1] = Rank(b[1]) /\ Proper(b[1])
      BY <1>1, <2>3, PlacesAre DEF ProperPre
    <3>2. Rank(b[1])[1] \in {1, 2}
      BY <3>1, RankType
    <3> QED
      BY <2>1, <3>1, <3>2 DEF Below
  <2> QED
    BY <2>2, <2>3
<1>3. CASE a # <<>> /\ b = <<>>
  BY <1>1, <1>3 DEF comparePre, cmpInt
<1>4. CASE a # <<>> /\ b # <<>>
  <2>1. /\ k \in 1..(Len(a) + 1) /\ k <= Len(b) + 1
        /\ \A i \in 1..Len(a) : PlacesOf(a)[i] = Rank(a[i]) /\ Proper(a[i]) /\ Rank(a[i])[1] \in {1, 2}
        /\ \A i \in 1..Len(b) : PlacesOf(b)[i] = Rank(b[i]) /\ Proper(b[i]) /\ Rank(b[i])[1] \in {1, 2}
        /\ PlacesOf(a)[Len(a) + 1] = <<0, <<>>>> /\ PlacesOf(b)[Len(b) + 1] = <<0, <<>>>>
    BY <1>4, PlacesAre, RankType DEF ProperPre
  <2>2. k \in 1..Len(b)
    <3> SUFFICES ASSUME k = Len(b) + 1 PROVE FALSE
      BY <1>1, <2>1
    <3>1. PlacesOf(b)[k] = <<0, <<>>>>
      BY <2>1
    <3>2. PlacesOf(a)[k] = <<0, <<>>>> \/ PlacesOf(a)[k][1] \in {1, 2}
      BY <1>1, <2>1
    <3> QED
      BY <3>1, <3>2, NoneBelowEmpty DEF Below
  <2>3. \A j \in 1..(k - 1) : j <= Len(a) /\ compareIdent(a[j], b[j]) = 0
    <3> SUFFICES ASSUME NEW j \in 1..(k - 1) PROVE j <= Len(a) /\ compareIdent(a[j], b[j]) = 0
      OBVIOUS
    <3>1. j \in 1..Len(a) /\ j \in 1..Len(b)
      BY <1>1, <2>1
    <3> QED
      BY <2>1, <3>1, RankInjective
  <2>4. k = Len(a) + 1 \/ (k <= Len(a) /\ compareIdent(a[k], b[k]) = -1)
    <3> SUFFICES ASSUME k # Len(a) + 1 PROVE k <= Len(a) /\ compareIdent(a[k], b[k]) = -1
      OBVIOUS
    <3>1. k \in 1..Len(a)
      BY <1>1, <2>1
    <3> QED
      BY <2>1, <2>2, <3>1, RankBelow
  <2>5. PreLess(a, b)
    BY <2>2, <2>3, <2>4 DEF PreLess
  <2> QED
    BY <1>4, <2>5 DEF comparePre
<1> QED
  BY <1>2, <1>3, <1>4

LEMMA PlacesType ==
  ASSUME NEW pre, ProperPre(pre)
  PROVE  PlacesOf(pre) \in Seq(Place)
<1>1. CASE pre = <<>>
  <2>1. <<>> \in Text
    BY DEF Text
  <2>2. <<3, <<>>>> \in Place
    BY <2>1 DEF Place
  <2> QED
    BY <1>1, <2>2 DEF PlacesOf
<1> QED
  BY <1>1, PlacesAre

LEMMA KeyAre ==
  ASSUME NEW v \in Version, ProperPre(v.pre)
  PROVE  /\ Key(v) \in Seq(Place)
         /\ Len(Key(v)) = 3 + Len(PlacesOf(v.pre))
         /\ Key(v)[1] = <<1, <<v.major>>>>
         /\ Key(v)[2] = <<1, <<v.minor>>>>
         /\ Key(v)[3] = <<1, <<v.patch>>>>
         /\ \A i \in 1..Len(PlacesOf(v.pre)) : Key(v)[3 + i] = PlacesOf(v.pre)[i]
<1> DEFINE core == <<<<1, <<v.major>>>>, <<1, <<v.minor>>>>, <<1, <<v.patch>>>>>>
           rest == PlacesOf(v.pre)
<1>1. Key(v) = core \o rest
  BY DEF Key, PlacesOf, Rank
<1>2. <<v.major>> \in Text /\ <<v.minor>> \in Text /\ <<v.patch>> \in Text
  BY DEF Version, Text
<1>3. /\ core \in Seq(Place) /\ Len(core) = 3
      /\ core[1] = <<1, <<v.major>>>> /\ core[2] = <<1, <<v.minor>>>> /\ core[3] = <<1, <<v.patch>>>>
  BY <1>2 DEF Place
<1>4. rest \in Seq(Place) /\ Len(rest) \in Nat
  BY PlacesType
<1> HIDE DEF core, rest
<1>5. /\ core \o rest \in Seq(Place)
      /\ Len(core \o rest) = Len(core) + Len(rest)
      /\ \A i \in 1..(Len(core) + Len(rest)) :
           (core \o rest)[i] = IF i <= Len(core) THEN core[i] ELSE rest[i - Len(core)]
  BY <1>3, <1>4, ConcatProperties
<1>6. /\ (core \o rest)[1] = core[1] /\ (core \o rest)[2] = core[2] /\ (core \o rest)[3] = core[3]
      /\ \A i \in 1..Len(rest) : (core \o rest)[3 + i] = rest[i]
  BY <1>3, <1>4, <1>5
<1> QED
  BY <1>1, <1>3, <1>5, <1>6 DEF rest

\* What precedes by its key compares as lower.
LEMMA KeyBelow ==
  ASSUME NEW v \in Version, NEW w \in Version, ProperPre(v.pre), ProperPre(w.pre),
         KeyLess(Key(v), Key(w))
  PROVE  Compare(<<v>>, <<w>>) = -1
<1> DEFINE a == Key(v)  b == Key(w)  p == PlacesOf(v.pre)  q == PlacesOf(w.pre)
<1>1. /\ a \in Seq(Place) /\ Len(a) = 3 + Len(p) /\ p \in Seq(Place)
      /\ b \in Seq(Place) /\ Len(b) = 3 + Len(q) /\ q \in Seq(Place)
  BY KeyAre, PlacesType
<1>2. /\ a[1] = <<1, <<v.major>>>> /\ a[2] = <<1, <<v.minor>>>> /\ a[3] = <<1, <<v.patch>>>>
      /\ b[1] = <<1, <<w.major>>>> /\ b[2] = <<1, <<w.minor>>>> /\ b[3] = <<1, <<w.patch>>>>
  BY KeyAre
<1>3. /\ \A i \in 1..Len(p) : a[3 + i] = p[i]
      /\ \A i \in 1..Len(q) : b[3 + i] = q[i]
  BY KeyAre
<1>4. PICK k \in DOMAIN a \cap DOMAIN b :
        /\ SubSeq(a, 1, k - 1) = SubSeq(b, 1, k - 1)
        /\ Below(a[k], b[k])
  BY DEF KeyLess, Below
<1>5. /\ v.major \in Nat /\ v.minor \in Nat /\ v.patch \in Nat
      /\ w.major \in Nat /\ w.minor \in Nat /\ w.patch \in Nat
  BY DEF Version
<1> HIDE DEF a, b, p, q
<1>6. Len(p) \in Nat /\ Len(q) \in Nat /\ k \in 1..Len(a) /\ k \in 1..Len(b)
  BY <1>1, <1>4
<1>7. \A j \in 1..(k - 1) : a[j] = b[j]
  <2> SUFFICES ASSUME NEW j \in 1..(k - 1) PROVE a[j] = b[j]
    OBVIOUS
  <2>1. SubSeq(a, 1, k - 1)[j] = a[j] /\ SubSeq(b, 1, k - 1)[j] = b[j]
    BY <1>1, <1>6
  <2> QED
    BY <1>4, <2>1
<1>8. ASSUME NEW m \in Nat, NEW n \in Nat, Below(<<1, <<m>>>>, <<1, <<n>>>>) PROVE m < n
  BY <1>8, NumberTexts DEF Below
<1>9. CASE k = 1
  <2>1. v.major < w.major
    BY <1>2, <1>4, <1>5, <1>8, <1>9
  <2> QED
    BY <1>5, <2>1 DEF Compare, cmpInt
<1>10. CASE k = 2
  <2>1. v.major = w.major
    BY <1>2, <1>7, <1>10
  <2>2. v.minor < w.minor
    BY <1>2, <1>4, <1>5, <1>8, <1>10
  <2> QED
    BY <1>5, <2>1, <2>2 DEF Compare, cmpInt
<1>11. CASE k = 3
  <2>1. v.major = w.major /\ v.minor = w.minor
    BY <1>2, <1>7, <1>11
  <2>2. v.patch < w.patch
    BY <1>2, <1>4, <1>5, <1>8, <1>11
  <2> QED
    BY <1>5, <2>1, <2>2 DEF Compare, cmpInt
<1>12. CASE k > 3
  <2>1. v.major = w.major /\ v.minor = w.minor /\ v.patch = w.patch
    <3>1. 1 \in 1..(k - 1) /\ 2 \in 1..(k - 1) /\ 3 \in 1..(k - 1)
      BY <1>6, <1>12
    <3> QED
      BY <1>2, <1>7, <3>1
  <2> DEFINE l == k - 3
  <2>2. l \in 1..Len(p) /\ l <= Len(q) /\ l \in 1..Len(q) /\ 3 + l = k
    BY <1>1, <1>6, <1>12
  <2>3. \A j \in 1..(l - 1) : 3 + j \in 1..(k - 1) /\ j \in 1..Len(p) /\ j \in 1..Len(q)
    <3> HIDE DEF l
    <3> SUFFICES ASSUME NEW j \in 1..(l - 1)
                 PROVE  3 + j \in 1..(k - 1) /\ j \in 1..Len(p) /\ j \in 1..Len(q)
      OBVIOUS
    <3>1. l \in Nat /\ j \in Nat /\ j >= 1 /\ j <= l - 1 /\ k = 3 + l
      BY <1>6, <2>2
    <3> QED
      BY <1>6, <2>2, <3>1
  <2> HIDE DEF l
  <2>4. p[l] = a[k] /\ q[l] = b[k]
    BY <1>3, <2>2
  <2>5. \A j \in 1..(l - 1) : p[j] = q[j]
    BY <1>3, <1>7, <2>3
  <2>6. comparePre(v.pre, w.pre) = -1
    BY <1>4, <2>2, <2>4, <2>5, PlacesBelow DEF p, q
  <2> QED
    BY <2>1, <2>6 DEF Compare
<1> QED
  BY <1>6, <1>9, <1>10, <1>11, <1>12

\* The identifiers of what Parse makes of a text that fits are proper.
LEMMA ParsedProper ==
  ASSUME NEW s \in Text, NEW v \in Version, Parse(s) = <<v>>, Fits(s)
  PROVE  ProperPre(v.pre)
<1>1. \A i \in DOMAIN v.pre : ~(isAllDigits(v.pre[i]) /\ Len(v.pre[i]) > 1 /\ v.pre[i][1] = 48)
  <2> DEFINE rest  == Before(Tail(s), Plus)
             pre   == IF Dash \in ToSet(rest) THEN Split(After(rest, Dash), Dot) ELSE <<>>
             parts == Split(Before(rest, Dash), Dot)
             u     == [major |-> Atoi(parts[1]), minor |-> Atoi(parts[2]), patch |-> Atoi(parts[3]), pre |-> pre]
  <2>1. /\ \A i \in DOMAIN pre : ~(isAllDigits(pre[i]) /\ Len(pre[i]) > 1 /\ pre[i][1] = 48)
        /\ Parse(s) = <<u>>
    BY DEF Parse
  <2> HIDE DEF pre, parts
  <2>2. u = v
    BY <2>1
  <2>3. v.pre = pre
    BY <2>2
  <2> QED
    BY <2>1, <2>3
<1>2. v.pre \in Seq(Text) /\ DOMAIN v.pre = 1..Len(v.pre)
  BY DEF Version
<1>3. \A i \in DOMAIN v.pre : ~Overflows(v.pre[i])
  BY DEF Fits, ToSet
<1> SUFFICES ASSUME NEW i \in DOMAIN v.pre PROVE Proper(v.pre[i])
  BY <1>2 DEF ProperPre
<1> DEFINE id == v.pre[i]
<1>4. id \in Text /\ ~(isAllDigits(id) /\ Len(id) > 1 /\ id[1] = 48) /\ ~Overflows(id)
  BY <1>1, <1>2, <1>3
<1> HIDE DEF id
<1>5. isAllDigits(id) => isNumericIdent(id) /\ Atoi(id) = Value(id) /\ Value(id) \in Nat
  BY <1>4, IdentValue
<1>6. Proper(id)
  BY <1>4, <1>5 DEF Proper
<1> QED
  BY <1>6 DEF id

\* CompareStrings follows the reference.
LEMMA PrecedesIsLower ==
  ASSUME NEW a \in Text, NEW b \in Text, Fits(a), Fits(b), Precedes(a, b)
  PROVE  CompareStrings(a, b) = -1
<1>1. Parse(a) = <<>> \/ \E v \in Version : Parse(a) = <<v>>
  BY ParseType
<1>2. Parse(b) = <<>> \/ \E w \in Version : Parse(b) = <<w>>
  BY ParseType
<1>3. CASE Parse(a) # <<>> /\ Parse(b) # <<>>
  <2>1. PICK v \in Version, w \in Version : Parse(a) = <<v>> /\ Parse(b) = <<w>>
    BY <1>1, <1>2, <1>3
  <2>2. KeyLess(Key(v), Key(w))
    BY <1>3, <2>1 DEF Precedes
  <2>3. Compare(<<v>>, <<w>>) = -1
    BY <2>1, <2>2, ParsedProper, KeyBelow
  <2> QED
    BY <1>3, <2>1, <2>3 DEF CompareStrings
<1>4. CASE Parse(a) = <<>> /\ Parse(b) = <<>>
  BY <1>4 DEF Precedes, CompareStrings, cmpText
<1>5. CASE ~(Parse(a) # <<>> /\ Parse(b) # <<>>) /\ ~(Parse(a) = <<>> /\ Parse(b) = <<>>)
  <2>1. Parse(b) = <<>>
    BY <1>5 DEF Precedes
  <2> QED
    BY <1>5, <2>1 DEF CompareStrings
<1> QED
  BY <1>3, <1>4, <1>5

-------------------------------------------------------------------------------
(* Escaped names *)

\* FlattenSeq goes through its pieces from the left.
LEMMA FlattenRuns ==
  ASSUME NEW pieces \in Seq(Text)
  PROVE  \E f : /\ f[0] = <<>> /\ \A n \in 0..Len(pieces) : f[n] \in Text
                /\ \A n \in 1..Len(pieces) : f[n] = f[n - 1] \o pieces[n]
                /\ FlattenSeq(pieces) = f[Len(pieces)]
<1> DEFINE N == Len(pieces)
           Solves(f) == f = [i \in 1..N |-> IF i = 1 THEN pieces[i] ELSE f[i - 1] \o pieces[i]]
           flatten == CHOOSE f : Solves(f)
           Body == [n \in 1..N |-> [x \in Text |-> x \o pieces[n]]]
<1>1. N \in Nat /\ (N = 0 <=> pieces = <<>>) /\ \A n \in 1..N : pieces[n] \in Text
  OBVIOUS
<1>2. FlattenSeq(pieces) = IF N = 0 THEN pieces ELSE flatten[N]
  BY DEF FlattenSeq
<1> HIDE DEF N
<1>3. \A n \in 1..N, x \in Text : Body[n][x] = x \o pieces[n]
  OBVIOUS
<1>4. \A x, y \in Text : x \o y \in Text
  BY DEF Text
<1>5. \A n \in 1..N : \A x \in Text : Body[n][x] \in Text
  BY <1>1, <1>3, <1>4
<1> HIDE DEF Body
<1>6. <<>> \in Text
  BY DEF Text
<1>7. \A y \in Text : <<>> \o y = y
  BY DEF Text
<1>8. \E f : Loops(f, Text, <<>>, N, Body)
  BY <1>1, <1>5, <1>6, LoopExists
<1>9. PICK f : Loops(f, Text, <<>>, N, Body)
  BY <1>8
<1>10. \A n \in 0..N : f[n] \in Text
  BY <1>9 DEF Loops
<1>11. f[0] = <<>> /\ \A n \in 1..N : f[n] = f[n - 1] \o pieces[n]
  <2>1. \A n \in 1..N : n - 1 \in 0..N
    BY <1>1
  <2> QED
    BY <1>3, <1>9, <1>10, <2>1 DEF Loops
<1>12. \E g : Solves(g)
  <2> DEFINE g == [i \in 1..N |-> f[i]]
  <2>1. ASSUME NEW i \in 1..N PROVE f[i] = IF i = 1 THEN pieces[i] ELSE g[i - 1] \o pieces[i]
    <3>1. CASE i = 1
      <4>1. f[1] = f[0] \o pieces[1] /\ pieces[1] \in Text
        <5>1. 1 \in 1..N /\ 1 - 1 = 0
          BY <3>1
        <5> QED
          BY <1>1, <1>11, <5>1
      <4> QED
        BY <1>7, <1>11, <3>1, <4>1
    <3>2. CASE i # 1
      <4>1. i - 1 \in 1..N
        BY <1>1, <3>2
      <4> QED
        BY <1>11, <3>2, <4>1
    <3> QED
      BY <3>1, <3>2
  <2>2. g = [i \in 1..N |-> f[i]]
    OBVIOUS
  <2> HIDE DEF g
  <2>3. Solves(g)
    BY <2>1, <2>2
  <2> QED
    BY <2>3
<1>13. Solves(flatten)
  BY <1>12
<1> HIDE DEF flatten
<1> DEFINE h == [n \in 0..N |-> IF n = 0 THEN <<>> ELSE flatten[n]]
<1>14. h[0] = <<>>
  BY <1>1
<1>15. ASSUME NEW n \in 1..N PROVE h[n] = h[n - 1] \o pieces[n]
  <2>1. n \in 0..N /\ n # 0 /\ n - 1 \in 0..N
    BY <1>1
  <2>2. CASE n = 1
    <3>1. h[n] = pieces[n] /\ h[n - 1] = <<>>
      BY <1>13, <2>1, <2>2
    <3> QED
      BY <1>1, <1>7, <3>1
  <2>3. CASE n # 1
    <3>1. h[n] = flatten[n] /\ h[n - 1] = flatten[n - 1]
      BY <2>1, <2>3
    <3>2. flatten[n] = flatten[n - 1] \o pieces[n]
      BY <1>13, <2>3
    <3> QED
      BY <3>1, <3>2
  <2> QED
    BY <2>2, <2>3
<1>16. FlattenSeq(pieces) = h[N]
  <2>1. CASE N = 0
    BY <1>1, <1>2, <1>14, <2>1
  <2>2. CASE N # 0
    <3>1. N \in 0..N
      BY <1>1
    <3> QED
      BY <1>2, <2>2, <3>1
  <2> QED
    BY <2>1, <2>2
<1> HIDE DEF h
<1>17. h[0] \in Text
  BY <1>6, <1>14
<1>18. \A n \in 1..N : h[n - 1] \in Text => h[n] \in Text
  BY <1>1, <1>4, <1>15
<1>19. \A n \in 0..N : h[n] \in Text
  BY <1>1, <1>17, <1>18, LoopInvariant
<1> QED
  BY <1>14, <1>15, <1>16, <1>19 DEF N

\* What is so at 0 and at each number of a range if at the one before is so on all of it.
LEMMA UpTo ==
  ASSUME NEW last \in Nat, NEW S, 0 \in S, \A n \in 1..last : n - 1 \in S => n \in S
  PROVE  \A n \in 0..last : n \in S
<1> DEFINE g == [n \in 0..last |-> n]
<1>1. \A n \in 0..last : g[n] = n
  OBVIOUS
<1>2. 0 \in 0..last /\ \A n \in 1..last : n \in 0..last /\ n - 1 \in 0..last
  OBVIOUS
<1> HIDE DEF g
<1>3. g[0] \in S /\ \A n \in 1..last : g[n - 1] \in S => g[n] \in S
  BY <1>1, <1>2
<1>4. \A n \in 0..last : g[n] \in S
  BY <1>3, LoopInvariant
<1> QED
  BY <1>1, <1>4

LEMMA Letters ==
  /\ \A c \in Lower : c - 32 \in Nat
  /\ \A c \in Upper : c + 32 # Bang /\ (c + 32) - 32 = c
BY DEF Lower, Upper, Bang

\* A byte of a name as the escaping writes it, and where the bytes of a name end up.
Mark(c) == IF c \in Upper THEN <<Bang, c + 32>> ELSE <<c>>

Placed(t, at) ==
  /\ at[0] = 0 /\ \A n \in 0..Len(t) : at[n] \in Nat
  /\ Len(Escaped(t)) = at[Len(t)]
  /\ \A n \in 1..Len(t) :
       IF t[n] \in Upper
       THEN /\ at[n] = at[n - 1] + 2
            /\ Escaped(t)[at[n - 1] + 1] = Bang /\ Escaped(t)[at[n - 1] + 2] = t[n] + 32
       ELSE at[n] = at[n - 1] + 1 /\ Escaped(t)[at[n - 1] + 1] = t[n]

LEMMA MarkType ==
  ASSUME NEW c \in Nat
  PROVE  /\ Mark(c) \in Text
         /\ c \in Upper => Len(Mark(c)) = 2 /\ Mark(c)[1] = Bang /\ Mark(c)[2] = c + 32
         /\ c \notin Upper => Len(Mark(c)) = 1 /\ Mark(c)[1] = c
<1>1. Bang \in Nat /\ c + 32 \in Nat
  BY DEF Bang
<1> HIDE DEF Bang
<1>2. CASE c \in Upper
  BY <1>1, <1>2 DEF Mark, Text
<1>3. CASE c \notin Upper
  BY <1>3 DEF Mark, Text
<1> QED
  BY <1>2, <1>3

LEMMA EscapedPlaces ==
  ASSUME NEW t \in Text
  PROVE  Escaped(t) \in Text /\ \E at : Placed(t, at)
<1> DEFINE N == Len(t)
           E == Escaped(t)
           marked == [i \in DOMAIN t |-> Mark(t[i])]
<1>1. N \in Nat /\ DOMAIN t = 1..N /\ \A i \in 1..N : t[i] \in Nat
  BY DEF Text
<1>2. E = FlattenSeq(marked)
  BY DEF Escaped, Mark
<1>3. marked \in Seq(Text) /\ Len(marked) = N /\ \A n \in 1..N : marked[n] = Mark(t[n])
  <2>1. \A i \in 1..N : Mark(t[i]) \in Text
    BY <1>1, MarkType
  <2>2. marked \in [1..N -> Text] /\ \A n \in 1..N : marked[n] = Mark(t[n])
    BY <1>1, <2>1
  <2> QED
    BY <1>1, <2>2
<1> HIDE DEF N, E, marked
<1>4. PICK f : /\ f[0] = <<>> /\ \A n \in 0..N : f[n] \in Text
               /\ \A n \in 1..N : f[n] = f[n - 1] \o Mark(t[n])
               /\ E = f[N]
  BY <1>2, <1>3, FlattenRuns
<1> DEFINE at == [n \in 0..N |-> Len(f[n])]
<1>5. \A n \in 0..N : at[n] = Len(f[n]) /\ at[n] \in Nat /\ \A i \in 1..at[n] : f[n][i] \in Nat
  BY <1>4 DEF Text
<1>6. at[0] = 0 /\ at[N] = Len(E) /\ E \in Text
  BY <1>1, <1>4, <1>5
<1> HIDE DEF at
<1>7. ASSUME NEW n \in 1..N
      PROVE  /\ at[n] = at[n - 1] + Len(Mark(t[n]))
             /\ \A i \in 1..at[n - 1] : f[n][i] = f[n - 1][i]
             /\ \A i \in 1..Len(Mark(t[n])) : f[n][at[n - 1] + i] = Mark(t[n])[i]
  <2>1. n \in 0..N /\ n - 1 \in 0..N /\ t[n] \in Nat
    BY <1>1
  <2> DEFINE x == f[n - 1]  y == Mark(t[n])
  <2>2. x \in Seq(Nat) /\ y \in Seq(Nat) /\ f[n] = x \o y
    BY <1>4, <2>1, MarkType DEF Text
  <2>3. at[n] = Len(f[n]) /\ at[n - 1] = Len(x)
    BY <1>5, <2>1
  <2> HIDE DEF x, y
  <2>4. /\ Len(x \o y) = Len(x) + Len(y) /\ Len(x) \in Nat /\ Len(y) \in Nat
        /\ \A i \in 1..(Len(x) + Len(y)) : (x \o y)[i] = IF i <= Len(x) THEN x[i] ELSE y[i - Len(x)]
    BY <2>2, ConcatProperties
  <2>5. \A i \in 1..Len(x) : (x \o y)[i] = x[i]
    BY <2>4
  <2>6. \A i \in 1..Len(y) : (x \o y)[Len(x) + i] = y[i]
    BY <2>4
  <2> QED
    BY <2>2, <2>3, <2>4, <2>5, <2>6 DEF x, y
<1> DEFINE Kept == {m \in 0..N : \A n \in 0..m : at[n] <= at[m] /\ \A i \in 1..at[n] : f[m][i] = f[n][i]}
<1>8. 0 \in Kept
  BY <1>1, <1>5
<1>9. ASSUME NEW m \in 1..N, m - 1 \in Kept PROVE m \in Kept
  <2>1. m \in 0..N /\ m - 1 \in 0..N /\ at[m] \in Nat /\ at[m - 1] \in Nat
    BY <1>1, <1>5
  <2> SUFFICES ASSUME NEW n \in 0..m
               PROVE  at[n] <= at[m] /\ \A i \in 1..at[n] : f[m][i] = f[n][i]
    BY <2>1
  <2>2. CASE n = m
    BY <2>1, <2>2
  <2>3. CASE n # m
    <3>1. n \in 0..(m - 1) /\ n \in 0..N
      BY <1>1, <2>3
    <3>2. at[n] \in Nat /\ at[n] <= at[m - 1] /\ \A i \in 1..at[n] : f[m - 1][i] = f[n][i]
      BY <1>5, <1>9, <3>1
    <3>3. Len(Mark(t[m])) \in Nat
      BY <1>1, MarkType DEF Text
    <3>4. at[n] <= at[m] /\ \A i \in 1..at[n] : i \in 1..at[m - 1]
      BY <1>7, <2>1, <3>2, <3>3
    <3> QED
      BY <1>7, <3>2, <3>4
  <2> QED
    BY <2>2, <2>3
<1>10. N \in Kept
  <2> HIDE DEF Kept
  <2> QED
    <3>1. \A n \in 0..N : n \in Kept
      BY <1>1, <1>8, <1>9, UpTo
    <3> QED
      BY <1>1, <3>1
<1>11. ASSUME NEW n \in 1..N
       PROVE  IF t[n] \in Upper
              THEN at[n] = at[n - 1] + 2 /\ E[at[n - 1] + 1] = Bang /\ E[at[n - 1] + 2] = t[n] + 32
              ELSE at[n] = at[n - 1] + 1 /\ E[at[n - 1] + 1] = t[n]
  <2>1. n \in 0..N /\ n - 1 \in 0..N /\ at[n - 1] \in Nat /\ at[n] \in Nat /\ t[n] \in Nat
    BY <1>1, <1>5
  <2>2. \A i \in 1..at[n] : E[i] = f[n][i]
    BY <1>4, <1>10, <2>1
  <2>3. Len(Mark(t[n])) \in Nat
    BY <2>1, MarkType DEF Text
  <2>4. \A i \in 1..Len(Mark(t[n])) : E[at[n - 1] + i] = Mark(t[n])[i]
    <3> SUFFICES ASSUME NEW i \in 1..Len(Mark(t[n])) PROVE E[at[n - 1] + i] = Mark(t[n])[i]
      OBVIOUS
    <3>1. at[n - 1] + i \in 1..at[n]
      BY <1>7, <2>1, <2>3
    <3> QED
      BY <1>7, <2>2, <3>1
  <2>5. CASE t[n] \in Upper
    <3>1. Len(Mark(t[n])) = 2 /\ Mark(t[n])[1] = Bang /\ Mark(t[n])[2] = t[n] + 32
      BY <2>1, <2>5, MarkType
    <3>2. at[n] = at[n - 1] + 2
      BY <1>7, <3>1
    <3>3. E[at[n - 1] + 1] = Bang /\ E[at[n - 1] + 2] = t[n] + 32
      BY <2>4, <3>1
    <3> QED
      BY <2>5, <3>2, <3>3
  <2>6. CASE t[n] \notin Upper
    <3>1. Len(Mark(t[n])) = 1 /\ Mark(t[n])[1] = t[n]
      BY <2>1, <2>6, MarkType
    <3> QED
      BY <1>7, <2>4, <2>6, <3>1
  <2> QED
    BY <2>5, <2>6
<1>12. Placed(t, at)
  BY <1>5, <1>6, <1>11 DEF Placed, N, E
<1> QED
  BY <1>6, <1>12 DEF E

\* An escaped name has no upper-case letter, and each of its marks has a letter after it.
LEMMA EscapedBytes ==
  ASSUME NEW t \in Text, NEW at, Placed(t, at)
  PROVE  \A n \in 0..Len(t) :
           /\ at[n] \in Nat /\ at[n] <= Len(Escaped(t))
           /\ \A i \in 1..at[n] :
                /\ Escaped(t)[i] \notin Upper
                /\ Bang \notin ToSet(t) /\ Escaped(t)[i] = Bang =>
                     i + 1 <= at[n] /\ Escaped(t)[i + 1] \in Lower
<1> DEFINE N == Len(t)
           E == Escaped(t)
           Good(n, i) == /\ E[i] \notin Upper
                         /\ Bang \notin ToSet(t) /\ E[i] = Bang => i + 1 <= at[n] /\ E[i + 1] \in Lower
           S == {n \in 0..N : at[n] <= at[N] /\ \A i \in 1..at[n] : Good(n, i)}
           Below1 == {n \in 0..N : at[N - n] <= at[N]}
<1>1. N \in Nat /\ \A i \in 1..N : t[i] \in Nat /\ (Bang \notin ToSet(t) => t[i] # Bang)
  BY DEF Text, ToSet
<1>2. /\ at[0] = 0 /\ Len(E) = at[N] /\ \A n \in 0..N : at[n] \in Nat
      /\ \A n \in 1..N :
           IF t[n] \in Upper
           THEN at[n] = at[n - 1] + 2 /\ E[at[n - 1] + 1] = Bang /\ E[at[n - 1] + 2] = t[n] + 32
           ELSE at[n] = at[n - 1] + 1 /\ E[at[n - 1] + 1] = t[n]
  BY DEF Placed
<1> HIDE DEF N, E
<1>3. ASSUME NEW n \in 1..N PROVE n - 1 \in 0..N /\ n \in 0..N /\ at[n - 1] <= at[n]
  <2>1. n - 1 \in 0..N /\ n \in 0..N
    BY <1>1
  <2>2. at[n - 1] \in Nat /\ at[n] \in Nat
    BY <1>2, <2>1
  <2>3. at[n] = at[n - 1] + 2 \/ at[n] = at[n - 1] + 1
    BY <1>2
  <2> QED
    BY <2>1, <2>2, <2>3
<1>4. \A n \in 0..N : n \in Below1
  <2>1. 0 \in Below1
    BY <1>1, <1>2
  <2>2. ASSUME NEW n \in 1..N, n - 1 \in Below1 PROVE n \in Below1
    <3>1. N - (n - 1) \in 1..N /\ (N - (n - 1)) - 1 = N - n /\ n \in 0..N /\ N - n \in 0..N /\ N \in 0..N
      BY <1>1
    <3>2. at[N - n] <= at[N - (n - 1)] /\ at[N - (n - 1)] <= at[N]
      BY <1>3, <2>2, <3>1
    <3>3. at[N - n] \in Nat /\ at[N - (n - 1)] \in Nat /\ at[N] \in Nat
      BY <1>1, <1>2, <3>1
    <3> QED
      BY <3>1, <3>2, <3>3
  <2> HIDE DEF Below1
  <2> QED
    BY <1>1, <2>1, <2>2, UpTo
<1>5. \A n \in 0..N : at[n] <= at[N]
  <2> SUFFICES ASSUME NEW n \in 0..N PROVE at[n] <= at[N]
    OBVIOUS
  <2>1. N - n \in 0..N /\ N - (N - n) = n
    BY <1>1
  <2> QED
    BY <1>4, <2>1
<1>6. 0 \in S
  <2>1. 0 \in 0..N /\ 1..at[0] = {}
    BY <1>1, <1>2
  <2> QED
    BY <1>5, <2>1
<1>7. ASSUME NEW n \in 1..N, n - 1 \in S PROVE n \in S
  <2>1. /\ n \in 0..N /\ n - 1 \in 0..N /\ at[n - 1] \in Nat /\ at[n] \in Nat /\ at[n - 1] <= at[n]
        /\ at[n] <= at[N] /\ t[n] \in Nat
    BY <1>1, <1>2, <1>3, <1>5
  <2>2. \A i \in 1..at[n - 1] : Good(n - 1, i)
    BY <1>7
  <2>3. \A i \in 1..at[n - 1] : Good(n, i)
    <3> SUFFICES ASSUME NEW i \in 1..at[n - 1] PROVE Good(n, i)
      OBVIOUS
    <3>1. Good(n - 1, i)
      BY <2>2
    <3> QED
      BY <2>1, <3>1
  <2>4. CASE t[n] \in Upper
    <3>1. at[n] = at[n - 1] + 2 /\ E[at[n - 1] + 1] = Bang /\ E[at[n - 1] + 2] = t[n] + 32
      BY <1>2, <2>4
    <3>2. Bang \notin Upper /\ t[n] + 32 \in Lower /\ t[n] + 32 # Bang /\ t[n] + 32 \notin Upper
      BY <2>4 DEF Upper, Lower, Bang
    <3> HIDE DEF Bang, Upper, Lower
    <3>3. Good(n, at[n - 1] + 1) /\ Good(n, at[n - 1] + 2)
      BY <2>1, <3>1, <3>2
    <3>4. \A i \in 1..at[n] : i \in 1..at[n - 1] \/ i = at[n - 1] + 1 \/ i = at[n - 1] + 2
      BY <2>1, <3>1
    <3> HIDE DEF Good
    <3>5. \A i \in 1..at[n] : Good(n, i)
      BY <2>3, <3>3, <3>4
    <3> QED
      BY <2>1, <3>5
  <2>5. CASE t[n] \notin Upper
    <3>1. at[n] = at[n - 1] + 1 /\ E[at[n - 1] + 1] = t[n]
      BY <1>2, <2>5
    <3>2. Good(n, at[n - 1] + 1)
      BY <1>1, <2>5, <3>1
    <3>3. \A i \in 1..at[n] : i \in 1..at[n - 1] \/ i = at[n - 1] + 1
      BY <2>1, <3>1
    <3> HIDE DEF Good
    <3>4. \A i \in 1..at[n] : Good(n, i)
      BY <2>3, <3>2, <3>3
    <3> QED
      BY <2>1, <3>4
  <2> QED
    BY <2>4, <2>5
<1>8. \A n \in 0..N : n \in S
  <2> HIDE DEF S
  <2> QED
    BY <1>1, <1>6, <1>7, UpTo
<1> QED
  BY <1>2, <1>8 DEF N, E

\* A file system that ignores case tells escaped names apart.
LEMMA EscapedFolds ==
  ASSUME NEW t \in Text
  PROVE  Folded(Escaped(t)) = Escaped(t)
<1>1. PICK at : Placed(t, at)
  BY EscapedPlaces
<1>2. Escaped(t) \in Text /\ Len(t) \in 0..Len(t)
  BY EscapedPlaces DEF Text
<1>3. at[Len(t)] = Len(Escaped(t))
  BY <1>1 DEF Placed
<1>4. \A i \in 1..Len(Escaped(t)) : Escaped(t)[i] \notin Upper
  BY <1>1, <1>2, <1>3, EscapedBytes
<1> DEFINE E == Escaped(t)
<1> HIDE DEF E
<1>5. E \in Seq(Nat) /\ \A i \in DOMAIN E : E[i] \notin Upper
  BY <1>2, <1>4 DEF E, Text
<1>6. Folded(E) = [i \in DOMAIN E |-> E[i]]
  BY <1>5 DEF Folded
<1> QED
  BY <1>5, <1>6 DEF E

\* A name without the mark is read as it was before it was escaped.
LEMMA Unescaped ==
  ASSUME NEW t \in Text, t # <<>>, Bang \notin ToSet(t)
  PROVE  UnescapePath(Escaped(t)) = <<t>>
<1> DEFINE N == Len(t)
           E == Escaped(t)
           marks == {i \in DOMAIN E : E[i] = Bang}
           byte(i) == CASE i \in marks     -> <<>>
                        [] i - 1 \in marks -> <<E[i] - 32>>
                        [] OTHER           -> <<E[i]>>
           bytes == [i \in DOMAIN E |-> byte(i)]
<1>1. PICK at : Placed(t, at)
  BY EscapedPlaces
<1>2. E \in Text /\ N \in Nat \ {0} /\ \A i \in 1..N : t[i] \in Nat /\ t[i] # Bang
  BY EscapedPlaces DEF Text, ToSet
<1>3. /\ at[0] = 0 /\ Len(E) = at[N] /\ \A n \in 0..N : at[n] \in Nat
      /\ \A n \in 1..N :
           IF t[n] \in Upper
           THEN at[n] = at[n - 1] + 2 /\ E[at[n - 1] + 1] = Bang /\ E[at[n - 1] + 2] = t[n] + 32
           ELSE at[n] = at[n - 1] + 1 /\ E[at[n - 1] + 1] = t[n]
  BY <1>1 DEF Placed
<1>4. \A n \in 0..N : /\ at[n] <= Len(E)
                      /\ \A i \in 1..at[n] : E[i] = Bang => i + 1 <= at[n] /\ E[i + 1] \in Lower
  BY <1>1, EscapedBytes
<1>5. UnescapePath(E) = IF E = <<>> \/ \E i \in marks : i = Len(E) \/ E[i + 1] \notin Lower THEN <<>>
                        ELSE <<FlattenSeq(bytes)>>
  BY DEF UnescapePath
<1> HIDE DEF E, N
<1>6. DOMAIN E = 1..Len(E) /\ Len(E) \in Nat /\ \A i \in 1..Len(E) : E[i] \in Nat
  BY <1>2 DEF Text
<1>7. \A i \in marks : i + 1 <= Len(E) /\ E[i + 1] \in Lower
  <2>1. N \in 0..N
    BY <1>2
  <2> QED
    BY <1>3, <1>4, <1>6, <2>1
<1>8. \A i \in 1..Len(E) : i \in marks <=> E[i] = Bang
  BY <1>6
<1>9. E # <<>>
  <2>1. 1 \in 1..N /\ 1 - 1 = 0 /\ 1 \in 0..N
    BY <1>2
  <2>2. at[1] >= 1
    BY <1>3, <2>1
  <2>3. Len(E) >= 1
    BY <1>3, <1>4, <1>6, <2>1, <2>2
  <2> QED
    BY <2>3
<1>10. UnescapePath(E) = <<FlattenSeq(bytes)>>
  <2>1. ~ \E i \in marks : i = Len(E) \/ E[i + 1] \notin Lower
    BY <1>6, <1>7
  <2> HIDE DEF marks
  <2> QED
    BY <1>5, <1>9, <2>1
<1>11. /\ 0 \notin marks /\ marks \subseteq 1..Len(E)
       /\ \A i \in marks : i - 1 \notin marks
  <2>1. Bang \notin Lower
    BY DEF Bang, Lower
  <2>2. \A i \in marks : (i - 1) + 1 = i
    BY <1>6
  <2> QED
    BY <1>6, <1>7, <1>8, <2>1, <2>2
<1> HIDE DEF marks
<1>12. \A i \in 1..Len(E) : byte(i) \in Text
  <2> SUFFICES ASSUME NEW i \in 1..Len(E) PROVE byte(i) \in Text
    OBVIOUS
  <2>1. CASE i \in marks
    <3>1. byte(i) = <<>>
      BY <1>11, <2>1
    <3> QED
      BY <3>1 DEF Text
  <2>2. CASE i \notin marks /\ i - 1 \in marks
    <3>1. (i - 1) + 1 = i
      BY <1>6
    <3>2. E[i] \in Lower
      BY <1>7, <2>2, <3>1
    <3>3. E[i] - 32 \in Nat
      BY <3>2, Letters
    <3> QED
      BY <2>2, <3>3 DEF Text
  <2>3. CASE i \notin marks /\ i - 1 \notin marks
    <3>1. E[i] \in Nat
      BY <1>6
    <3> QED
      BY <2>3, <3>1 DEF Text
  <2> QED
    BY <2>1, <2>2, <2>3
<1>13. bytes \in Seq(Text) /\ Len(bytes) = Len(E) /\ \A i \in 1..Len(E) : bytes[i] = byte(i)
  <2> HIDE DEF byte
  <2>1. bytes \in [1..Len(E) -> Text]
    BY <1>6, <1>12
  <2> QED
    BY <1>6, <2>1
<1> HIDE DEF bytes
<1>14. PICK g : /\ g[0] = <<>> /\ \A n \in 0..Len(E) : g[n] \in Text
                /\ \A n \in 1..Len(E) : g[n] = g[n - 1] \o bytes[n]
                /\ FlattenSeq(bytes) = g[Len(E)]
  BY <1>13, FlattenRuns
<1> DEFINE S == {n \in 0..N : g[at[n]] = SubSeq(t, 1, n)}
<1>15. 0 \in S
  <2>1. SubSeq(t, 1, 0) = <<>>
    BY DEF Text
  <2>2. 0 \in 0..N
    BY <1>2
  <2> QED
    BY <1>3, <1>14, <2>1, <2>2
<1>16. ASSUME NEW n \in 1..N, n - 1 \in S PROVE n \in S
  <2> DEFINE l == at[n - 1]
  <2>1. n \in 0..N /\ n - 1 \in 0..N /\ l \in Nat /\ at[n] \in Nat /\ at[n] <= Len(E) /\ t[n] \in Nat
    BY <1>2, <1>3, <1>4
  <2>2. l \notin marks
    <3> SUFFICES ASSUME l \in marks PROVE FALSE
      OBVIOUS
    <3>1. l \in 1..Len(E) /\ E[l] = Bang
      BY <1>8, <1>11
    <3>2. l \in 1..l
      BY <3>1
    <3>3. l + 1 <= l
      BY <1>4, <2>1, <3>1, <3>2
    <3> QED
      BY <2>1, <3>3
  <2>3. g[l] = SubSeq(t, 1, n - 1) /\ g[l] \in Text
    <3>1. l \in 0..Len(E)
      BY <1>4, <2>1
    <3> QED
      BY <1>14, <1>16, <3>1
  <2>4. SubSeq(t, 1, n) = Append(SubSeq(t, 1, n - 1), t[n])
    BY <1>2, SubSeqRecursiveSecond DEF N, Text
  <2> HIDE DEF l
  <2>5. \A x \in Text : x \o <<>> = x /\ x \o <<t[n]>> = Append(x, t[n])
    BY <2>1 DEF Text
  <2>6. CASE t[n] \in Upper
    <3>1. at[n] = l + 2 /\ E[l + 1] = Bang /\ E[l + 2] = t[n] + 32
      BY <1>3, <2>6 DEF l
    <3>2. l + 1 \in 1..Len(E) /\ l + 2 \in 1..Len(E) /\ (l + 1) - 1 = l /\ (l + 2) - 1 = l + 1
      BY <1>6, <2>1, <3>1
    <3>3. l + 1 \in marks
      BY <1>8, <3>1, <3>2
    <3>4. l + 2 \notin marks
      <4>1. t[n] + 32 # Bang
        BY <2>6, Letters
      <4> QED
        BY <1>8, <3>1, <3>2, <4>1
    <3>5. bytes[l + 1] = <<>>
      <4>1. byte(l + 1) = <<>>
        BY <1>11, <3>3
      <4> QED
        BY <1>13, <3>2, <4>1
    <3>6. bytes[l + 2] = <<t[n]>>
      <4>1. byte(l + 2) = <<E[l + 2] - 32>>
        BY <3>2, <3>3, <3>4
      <4>2. E[l + 2] - 32 = t[n]
        BY <2>1, <3>1
      <4> QED
        BY <1>13, <3>2, <4>1, <4>2
    <3>7. g[l + 1] = g[l]
      BY <1>14, <2>3, <2>5, <3>2, <3>5
    <3>8. g[l + 2] = g[l + 1] \o bytes[l + 2]
      BY <1>14, <3>2
    <3>9. g[at[n]] = Append(g[l], t[n])
      BY <2>3, <2>5, <3>1, <3>6, <3>7, <3>8
    <3> QED
      BY <2>1, <2>3, <2>4, <3>9
  <2>7. CASE t[n] \notin Upper
    <3>1. at[n] = l + 1 /\ E[l + 1] = t[n]
      BY <1>3, <2>7 DEF l
    <3>2. l + 1 \in 1..Len(E) /\ (l + 1) - 1 = l
      BY <1>6, <2>1, <3>1
    <3>3. l + 1 \notin marks
      BY <1>2, <1>8, <3>1, <3>2
    <3>4. bytes[l + 1] = <<t[n]>>
      BY <1>13, <2>2, <3>1, <3>2, <3>3
    <3>5. g[l + 1] = g[l] \o bytes[l + 1]
      BY <1>14, <3>2
    <3>6. g[at[n]] = Append(g[l], t[n])
      BY <2>3, <2>5, <3>1, <3>4, <3>5
    <3> QED
      BY <2>1, <2>3, <2>4, <3>6
  <2> QED
    BY <2>6, <2>7
<1>17. N \in S
  <2> HIDE DEF S
  <2>1. \A n \in 0..N : n \in S
    BY <1>2, <1>15, <1>16, UpTo
  <2> QED
    BY <1>2, <2>1
<1>18. SubSeq(t, 1, N) = t
  BY SubSeqFull DEF N, Text
<1> QED
  BY <1>3, <1>10, <1>14, <1>17, <1>18 DEF E

-------------------------------------------------------------------------------
(* The inductive invariant *)

Escapable(r) == EscapePath(r.module) # <<>> /\ EscapeVersion(r.version) # <<>>

\* What List and Sort leave is the texts that the proxy published, each as often.
HeldInv ==
  /\ published # <<>> => published[1] \in Seq(Text)
  /\ held # <<>> => /\ published # <<>>
                    /\ held[1] \in Seq(Text) /\ SameTexts(held[1], published[1])

\* What Max answered is one of these, and none is above it, if there are any.
BestInv ==
  best # <<>> =>
    /\ held # <<>>
    /\ held[1] = <<>> => best[1] = <<>>
    /\ held[1] # <<>> => best[1] \in ToSet(published[1])
    /\ \A v \in ToSet(published[1]) : CompareStrings(v, best[1]) <= 0

\* No request is made twice, and each stores at most one artifact.
FetchInv ==
  /\ todo \subseteq [module : Text, version : Text] /\ fetched \subseteq [module : Text, version : Text]
  /\ todo \cap fetched = {}
  /\ IsFiniteSet(fetched) /\ IsFiniteSet(cache) /\ Cardinality(cache) <= Cardinality(fetched)

\* Each artifact that was fetched has one at its path, and what is at a path is what
\* a proxy serves there: so a request that shares the path shares the artifact.
CacheInv ==
  /\ \A r \in fetched : Escapable(r) /\ \E f \in cache : f.path = artifactPath(r)
  /\ \A f \in cache : f = [path |-> f.path, body |-> f.body] /\ f.body \in Served(f.path)

Inv == HeldInv /\ BestInv /\ FetchInv /\ CacheInv

LEMMA RequestText ==
  ASSUME NEW r \in [module : Text, version : Text], Escapable(r)
  PROVE  /\ r.module \in Text /\ r.module # <<>> /\ r.version \in Text /\ r.version # <<>>
         /\ EscapePath(r.module) = <<Escaped(r.module)>>
         /\ EscapeVersion(r.version) = <<Escaped(r.version)>>
         /\ artifactPath(r) = <<Escaped(r.module), Escaped(r.version)>>
         /\ r = [module |-> r.module, version |-> r.version]
<1>1. r.module \in Text /\ r.version \in Text /\ r = [module |-> r.module, version |-> r.version]
  OBVIOUS
<1>2. r.module # <<>> /\ EscapePath(r.module) = <<Escaped(r.module)>>
  BY DEF Escapable, EscapePath
<1>3. r.version # <<>> /\ EscapeVersion(r.version) = <<Escaped(r.version)>>
  BY DEF Escapable, EscapeVersion
<1>4. artifactPath(r) = <<Folded(Escaped(r.module)), Folded(Escaped(r.version))>>
  BY <1>2, <1>3 DEF artifactPath
<1>5. Folded(Escaped(r.module)) = Escaped(r.module) /\ Folded(Escaped(r.version)) = Escaped(r.version)
  BY <1>1, EscapedFolds
<1> QED
  BY <1>1, <1>2, <1>3, <1>4, <1>5

\* At the path of a request the proxy serves nothing but what was asked for.
LEMMA ServedIsAsked ==
  ASSUME NEW r \in [module : Text, version : Text], Escapable(r),
         Bang \notin ToSet(r.module) \cup ToSet(r.version)
  PROVE  Served(artifactPath(r)) = {r}
<1>1. /\ r.module \in Text /\ r.module # <<>> /\ r.version \in Text /\ r.version # <<>>
      /\ artifactPath(r) = <<Escaped(r.module), Escaped(r.version)>>
      /\ r = [module |-> r.module, version |-> r.version]
  BY RequestText
<1>2. UnescapePath(Escaped(r.module)) = <<r.module>>
  BY <1>1, Unescaped
<1>3. UnescapePath(Escaped(r.version)) = <<r.version>>
  BY <1>1, Unescaped
<1>4. Served(<<Escaped(r.module), Escaped(r.version)>>) = {[module |-> r.module, version |-> r.version]}
  BY <1>2, <1>3 DEF Served
<1> QED
  BY <1>1, <1>4

LEMMA InvInit == ClientInit => Inv
<1> SUFFICES ASSUME ClientInit PROVE Inv
  OBVIOUS
<1>1. (\E l \in Lists : published = <<l>>) \/ published = <<>>
  BY DEF ClientInit
<1>2. todo = {} \/ todo \in Requests
  BY DEF ClientInit
<1>3. published # <<>> => published[1] \in Seq(Text)
  BY <1>1, InputsAssumption
<1>4. todo \subseteq [module : Text, version : Text]
  BY <1>2, InputsAssumption
<1>5. held = <<>> /\ best = <<>> /\ fetched = {} /\ cache = {}
  BY DEF ClientInit
<1>6. HeldInv
  BY <1>3, <1>5 DEF HeldInv
<1>7. BestInv /\ CacheInv
  BY <1>5 DEF BestInv, CacheInv
<1>8. FetchInv
  BY <1>4, <1>5, FS_EmptySet DEF FetchInv
<1> QED
  BY <1>6, <1>7, <1>8 DEF Inv

LEMMA SameIsTransitive ==
  ASSUME NEW s, NEW t, NEW u, SameTexts(s, t), SameTexts(t, u)
  PROVE  SameTexts(s, u)
BY DEF SameTexts

LEMMA ListStep == ASSUME Inv, List PROVE Inv'
<1>1. /\ published # <<>> /\ held = <<>>
      /\ published' = published /\ best' = best /\ todo' = todo /\ fetched' = fetched /\ cache' = cache
  BY DEF List
<1>2. PICK s \in Rearranged(published[1]) : held' = <<s>>
  BY DEF List
<1>3. published[1] \in Seq(Text)
  BY <1>1 DEF HeldInv, Inv
<1>4. s \in Seq(Text) /\ SameTexts(s, published[1])
  BY <1>3, RearrangedSame
<1>5. HeldInv'
  BY <1>1, <1>2, <1>3, <1>4 DEF HeldInv
<1>6. BestInv'
  BY <1>1 DEF BestInv, Inv
<1>7. FetchInv' /\ CacheInv'
  BY <1>1 DEF FetchInv, CacheInv, Inv
<1> QED
  BY <1>5, <1>6, <1>7 DEF Inv

\* An empty list has no texts.
LEMMA NoTexts ==
  ASSUME NEW x, x \in Seq(Text)
  PROVE  x = <<>> <=> ToSet(x) = {}
<1>1. DOMAIN x = 1..Len(x) /\ Len(x) \in Nat
  OBVIOUS
<1>2. ASSUME x = <<>> PROVE ToSet(x) = {}
  <2>1. DOMAIN x = {}
    BY <1>2
  <2> QED
    BY <2>1 DEF ToSet
<1>3. ASSUME x # <<>> PROVE ToSet(x) # {}
  <2>1. Len(x) # 0
    BY <1>3
  <2>2. 1 \in DOMAIN x
    BY <1>1, <2>1
  <2> QED
    BY <2>2 DEF ToSet
<1> QED
  BY <1>2, <1>3

\* The same texts are as many as before, or none.
LEMMA SameEmpty ==
  ASSUME NEW s \in Seq(Text), NEW t \in Seq(Text), SameTexts(s, t)
  PROVE  s = <<>> <=> t = <<>>
<1>1. ToSet(s) = ToSet(t)
  BY DEF SameTexts
<1> QED
  BY <1>1, NoTexts

LEMMA SortStep == ASSUME Inv, Sort PROVE Inv'
<1>1. /\ held # <<>>
      /\ published' = published /\ best' = best /\ todo' = todo /\ fetched' = fetched /\ cache' = cache
  BY DEF Sort
<1>2. PICK s \in Rearranged(held[1]) : held' = <<s>>
  BY DEF Sort, Sorted
<1>3. /\ published # <<>> /\ published[1] \in Seq(Text)
      /\ held[1] \in Seq(Text) /\ SameTexts(held[1], published[1])
  BY <1>1 DEF HeldInv, Inv
<1>4. s \in Seq(Text) /\ SameTexts(s, held[1])
  BY <1>3, RearrangedSame
<1>5. SameTexts(s, published[1]) /\ (s = <<>> <=> held[1] = <<>>)
  BY <1>3, <1>4, SameIsTransitive, SameEmpty
<1>6. held' # <<>> /\ held'[1] = s
  BY <1>2
<1>7. HeldInv'
  BY <1>1, <1>3, <1>4, <1>5, <1>6 DEF HeldInv
<1>8. BestInv'
  BY <1>1, <1>5, <1>6 DEF BestInv, Inv
<1>9. FetchInv' /\ CacheInv'
  BY <1>1 DEF FetchInv, CacheInv, Inv
<1> QED
  BY <1>7, <1>8, <1>9 DEF Inv

LEMMA TakeMaxStep == ASSUME Inv, TakeMax PROVE Inv'
<1>1. /\ held # <<>> /\ best' = <<MaxOf(held[1])>>
      /\ published' = published /\ held' = held /\ todo' = todo /\ fetched' = fetched /\ cache' = cache
  BY DEF TakeMax
<1>2. held[1] \in Seq(Text) /\ ToSet(held[1]) = ToSet(published[1])
  BY <1>1 DEF HeldInv, Inv, SameTexts
<1>3. best'[1] = MaxOf(held[1])
  BY <1>1
<1>4. /\ held[1] = <<>> => MaxOf(held[1]) = <<>>
      /\ held[1] # <<>> => MaxOf(held[1]) \in ToSet(published[1])
      /\ \A v \in ToSet(published[1]) : CompareStrings(v, MaxOf(held[1])) <= 0
  <2>1. CASE held[1] = <<>>
    <3>1. ToSet(published[1]) = {}
      BY <1>2, <2>1, NoTexts
    <3> QED
      BY <2>1, <3>1 DEF MaxOf
  <2>2. CASE held[1] # <<>>
    BY <1>2, <2>2, MaxOfIsHighest
  <2> QED
    BY <2>1, <2>2
<1>5. BestInv'
  BY <1>1, <1>3, <1>4 DEF BestInv
<1>6. HeldInv'
  BY <1>1 DEF HeldInv, Inv
<1>7. FetchInv' /\ CacheInv'
  BY <1>1 DEF FetchInv, CacheInv, Inv
<1> QED
  BY <1>5, <1>6, <1>7 DEF Inv

LEMMA FetchStep == ASSUME Inv, NEW r \in todo, Fetch(r) PROVE Inv'
<1> DEFINE path == artifactPath(r)
<1>1. Escapable(r) /\ r \in todo
  BY DEF Fetch, Escapable
<1>2. PICK artifact \in Served(<<EscapePath(r.module)[1], EscapeVersion(r.version)[1]>>) :
        cache' = {f \in cache : f.path # path} \cup {[path |-> path, body |-> artifact]}
  BY DEF Fetch
<1>3. /\ todo' = todo \ {r} /\ fetched' = fetched \cup {r}
      /\ published' = published /\ held' = held /\ best' = best
  BY DEF Fetch
<1>4. r \in [module : Text, version : Text]
  BY DEF FetchInv, Inv
<1>5. artifact \in Served(path)
  BY <1>1, <1>2, <1>4, RequestText
<1> DEFINE new == [path |-> path, body |-> artifact]
           kept == {f \in cache : f.path # path}
<1>6. new.path = path /\ new.body = artifact /\ new = [path |-> new.path, body |-> new.body]
  OBVIOUS
<1>7. HeldInv' /\ BestInv'
  BY <1>3 DEF HeldInv, BestInv, Inv
<1>8. FetchInv'
  <2>1. todo' \subseteq [module : Text, version : Text] /\ fetched' \subseteq [module : Text, version : Text]
        /\ todo' \cap fetched' = {}
    BY <1>3, <1>4 DEF FetchInv, Inv
  <2>2. IsFiniteSet(fetched') /\ Cardinality(fetched') = Cardinality(fetched) + 1
    <3>1. r \notin fetched /\ IsFiniteSet(fetched)
      BY DEF FetchInv, Inv
    <3> QED
      BY <1>3, <3>1, FS_AddElement
  <2>3. IsFiniteSet(kept) /\ Cardinality(kept) <= Cardinality(cache)
    <3>1. IsFiniteSet(cache) /\ kept \subseteq cache
      BY DEF FetchInv, Inv
    <3> HIDE DEF kept
    <3> QED
      BY <3>1, FS_Subset
  <2>4. cache' = kept \cup {new}
    BY <1>2
  <2> HIDE DEF kept, new
  <2>5. IsFiniteSet(cache') /\ (Cardinality(cache') = Cardinality(kept) \/ Cardinality(cache') = Cardinality(kept) + 1)
    BY <2>3, <2>4, FS_AddElement
  <2>6. Cardinality(cache) <= Cardinality(fetched) /\ IsFiniteSet(cache) /\ IsFiniteSet(fetched)
    BY DEF FetchInv, Inv
  <2>7. /\ Cardinality(cache) \in Nat /\ Cardinality(fetched) \in Nat /\ Cardinality(kept) \in Nat
    BY <2>3, <2>6, FS_CardinalityType
  <2>8. Cardinality(cache') <= Cardinality(fetched')
    BY <2>2, <2>3, <2>5, <2>6, <2>7
  <2> QED
    BY <2>1, <2>2, <2>5, <2>8 DEF FetchInv
<1>9. CacheInv'
  <2>1. cache' = kept \cup {new}
    BY <1>2
  <2>2. ASSUME NEW q \in fetched' PROVE Escapable(q) /\ \E f \in cache' : f.path = artifactPath(q)
    <3>1. CASE artifactPath(q) = path
      <4>1. Escapable(q)
        BY <1>1, <1>3 DEF CacheInv, Inv
      <4> QED
        BY <1>6, <2>1, <3>1, <4>1
    <3>2. CASE artifactPath(q) # path
      <4>1. q \in fetched
        BY <1>3, <3>2
      <4>2. Escapable(q) /\ \E f \in cache : f.path = artifactPath(q)
        BY <4>1 DEF CacheInv, Inv
      <4> QED
        BY <2>1, <3>2, <4>2
    <3> QED
      BY <3>1, <3>2
  <2>3. ASSUME NEW f \in cache' PROVE f = [path |-> f.path, body |-> f.body] /\ f.body \in Served(f.path)
    <3>1. CASE f \in kept
      BY <3>1 DEF CacheInv, Inv
    <3>2. CASE f = new
      BY <1>5, <1>6, <3>2
    <3> QED
      BY <2>1, <3>1, <3>2
  <2> QED
    BY <2>2, <2>3 DEF CacheInv
<1> QED
  BY <1>7, <1>8, <1>9 DEF Inv

LEMMA FetchFailsStep == ASSUME Inv, NEW r \in todo, FetchFails(r) PROVE Inv'
<1>1. /\ todo' = todo \ {r}
      /\ published' = published /\ held' = held /\ best' = best /\ fetched' = fetched /\ cache' = cache
  BY DEF FetchFails
<1>2. HeldInv' /\ BestInv'
  BY <1>1 DEF HeldInv, BestInv, Inv
<1>3. FetchInv' /\ CacheInv'
  BY <1>1 DEF FetchInv, CacheInv, Inv
<1> QED
  BY <1>2, <1>3 DEF Inv

LEMMA InvStep == ASSUME Inv, [ClientNext]_clientVars PROVE Inv'
<1>1. CASE List
  BY <1>1, ListStep
<1>2. CASE Sort
  BY <1>2, SortStep
<1>3. CASE TakeMax
  BY <1>3, TakeMaxStep
<1>4. ASSUME NEW r \in todo, Fetch(r) PROVE Inv'
  BY <1>4, FetchStep
<1>5. ASSUME NEW r \in todo, FetchFails(r) PROVE Inv'
  BY <1>5, FetchFailsStep
<1>6. CASE UNCHANGED clientVars
  BY <1>6 DEF clientVars, Inv, HeldInv, BestInv, FetchInv, CacheInv
<1> QED
  BY <1>1, <1>2, <1>3, <1>4, <1>5, <1>6 DEF ClientNext

LEMMA Invariance == ClientSpec => []Inv
<1>1. ClientInit => Inv
  BY InvInit
<1>2. Inv /\ [ClientNext]_clientVars => Inv'
  BY InvStep
<1> QED
  BY <1>1, <1>2, PTL DEF ClientSpec

-------------------------------------------------------------------------------
(* Theorems *)

\* What the caller of List holds stays what the proxy published, each text as often, Max
\* picks one of it if there is any, and no fetch is made twice or stores more than one
\* artifact (Client.List, Sort, Max, Cache.Store).
THEOREM ListedIsKept == ClientSpec => []ClientTypeOK
<1>1. ASSUME Inv PROVE ClientTypeOK
  <2>1. held # <<>> => SameTexts(held[1], published[1])
    BY <1>1 DEF Inv, HeldInv
  <2>2. best # <<>> => /\ held # <<>>
                       /\ best[1] \in IF held[1] = <<>> THEN {<<>>} ELSE ToSet(published[1])
    BY <1>1 DEF Inv, BestInv
  <2>3. todo \cap fetched = {} /\ Cardinality(cache) <= Cardinality(fetched)
    BY <1>1 DEF Inv, FetchInv
  <2> QED
    BY <2>1, <2>2, <2>3 DEF ClientTypeOK
<1> QED
  BY <1>1, Invariance, PTL

\* What Max answered is above or equal to every version listed, by Compare and by the
\* precedence of semantic versions where the numbers of its pre-releases fit an int,
\* and is one that Sort may put last (semver.Max, Sort, CompareStrings).
THEOREM MaxIsTheHighest == ClientSpec => []MaxIsHighest
<1>1. ASSUME Inv PROVE MaxIsHighest
  <2> SUFFICES ASSUME best # <<>>
               PROVE  /\ \A v \in ToSet(published[1]) : Fits(v) /\ Fits(best[1]) => ~Precedes(best[1], v)
                      /\ \A v \in ToSet(published[1]) : CompareStrings(v, best[1]) <= 0
                      /\ held[1] # <<>> => \E s \in Sorted(held[1]) : Last(s) = best[1]
    BY DEF MaxIsHighest
  <2>1. /\ published[1] \in Seq(Text) /\ held[1] \in Seq(Text)
        /\ ToSet(held[1]) = ToSet(published[1])
        /\ held[1] = <<>> => best[1] = <<>>
        /\ held[1] # <<>> => best[1] \in ToSet(published[1])
        /\ \A v \in ToSet(published[1]) : CompareStrings(v, best[1]) <= 0
    BY <1>1 DEF Inv, HeldInv, BestInv, SameTexts
  <2>2. ToSet(published[1]) \subseteq Text
    BY <2>1 DEF ToSet
  <2>3. ASSUME NEW v \in ToSet(published[1]), Fits(v), Fits(best[1]) PROVE ~Precedes(best[1], v)
    <3> SUFFICES ASSUME Precedes(best[1], v) PROVE FALSE
      OBVIOUS
    <3>1. held[1] # <<>>
      BY <2>1, NoTexts
    <3>2. v \in Text /\ best[1] \in Text
      BY <2>1, <2>2, <3>1
    <3>3. CompareStrings(best[1], v) = -1
      BY <2>3, <3>2, PrecedesIsLower
    <3>4. CompareStrings(v, best[1]) = 1
      BY <3>2, <3>3, StringsOrdered
    <3>5. CompareStrings(v, best[1]) <= 0
      BY <2>1
    <3> QED
      BY <3>4, <3>5
  <2>4. ASSUME held[1] # <<>> PROVE \E s \in Sorted(held[1]) : Last(s) = best[1]
    BY <2>1, <2>4, SortedLast
  <2> QED
    BY <2>1, <2>3, <2>4
<1> QED
  BY <1>1, Invariance, PTL

\* Each artifact fetched is at the path of the module and version it was asked for, and
\* is theirs, on a file system that ignores case too (EscapePath, artifactPath, Store).
THEOREM StoredIsAsked == ClientSpec => []CacheIsRight
<1>1. ASSUME Inv PROVE CacheIsRight
  <2> SUFFICES ASSUME NEW r \in fetched, Bang \notin ToSet(r.module) \cup ToSet(r.version)
               PROVE  [path |-> artifactPath(r), body |-> r] \in cache
    BY DEF CacheIsRight
  <2>1. r \in [module : Text, version : Text]
    BY <1>1 DEF Inv, FetchInv
  <2>2. Escapable(r) /\ \E f \in cache : f.path = artifactPath(r)
    BY <1>1 DEF Inv, CacheInv
  <2>3. PICK f \in cache : f.path = artifactPath(r)
    BY <2>2
  <2>4. f = [path |-> f.path, body |-> f.body] /\ f.body \in Served(f.path)
    BY <1>1 DEF Inv, CacheInv
  <2>5. Served(artifactPath(r)) = {r}
    BY <2>1, <2>2, ServedIsAsked
  <2>6. f.body = r
    BY <2>3, <2>4, <2>5
  <2>7. f = [path |-> artifactPath(r), body |-> r]
    BY <2>3, <2>4, <2>6
  <2> QED
    BY <2>7
<1> QED
  BY <1>1, Invariance, PTL

===============================================================================

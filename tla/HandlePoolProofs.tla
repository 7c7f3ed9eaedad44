--------------------------- MODULE HandlePoolProofs ---------------------------
(***************************************************************************)
(* Proofs about HandlePool, for any goroutines, pools, values and caps.    *)
(***************************************************************************)
EXTENDS HandlePool, FiniteSetTheorems, TLAPS

-------------------------------------------------------------------------------
(* Facts about the operators the model is built from *)

\* A cap, once defaulted, is an integer, and never 0.
LEMMA MaxFacts == \A p \in Pools : max[p] \in Int /\ max[p] # 0
  BY CapAssumption DEF max

\* The results methods return are results.
LEMMA ResultFacts ==
  /\ NoResult \in Results /\ Missed \in Results /\ Panicked \in Results
  /\ \A ok \in BOOLEAN : Released(ok) \in Results
  /\ \A n \in Nat : Counted(n) \in Results
  /\ \A p \in Pools, n \in Nat : Exhausted(p, n) \in Results
  /\ \A p \in Pools, i \in Nat, v \in Values :
       Acquired(p, i, v) \in Results /\ Resolved(p, i, v) \in Results
  BY DEF Results, NoResult, Missed, Panicked, Released, Counted, Exhausted,
         Acquired, Resolved

-------------------------------------------------------------------------------
(* Type correctness *)

LEMMA InitType == Init => TypeOK
  <1> SUFFICES ASSUME Init PROVE TypeOK
    OBVIOUS
  <1>1. \A p \in Pools : DOMAIN handles[p] = {} /\ DOMAIN given[p] = {}
    BY DEF Init
  <1> QED
    BY <1>1, FS_EmptySet, ResultFacts DEF Init, TypeOK

\* Entering a method, whatever its arguments.
LEMMA EnterType ==
  ASSUME TypeOK, NEW g \in Goroutines, NEW p \in Pools,
         NEW step \in Waiting, NEW i \in Nat, NEW v \in Values \cup {Nil},
         step = "acqLock" => v \in Values, Enter(g, step, p, i, v)
  PROVE  TypeOK'
  BY ResultFacts DEF TypeOK, Enter, Goto, Waiting, poolVars, cgoVars

\* Returning from a method, for what the return itself writes.
LEMMA ReturnType ==
  ASSUME TypeOK, NEW g \in Goroutines, NEW r \in Results, Return(g, r)
  PROVE  /\ pc' \in [Goroutines -> {"idle"} \cup Waiting \cup InSection \cup AfterUnlock]
         /\ pool' \in [Goroutines -> Pools \cup {Nil}]
         /\ id' \in [Goroutines -> Nat]
         /\ val' \in [Goroutines -> Values \cup {Nil}]
         /\ hnd' \in [Goroutines -> Nat]
         /\ out' \in Results
         /\ \A k \in Goroutines :
              /\ pc'[k] # "idle" => pool'[k] \in Pools
              /\ pc'[k] \in {"acqLock", "acqTest", "acqMint", "acqStore"} => val'[k] \in Values
  BY DEF TypeOK, Return

LEMMA StepType == TypeOK /\ [Next]_vars => TypeOK'
  <1> SUFFICES ASSUME TypeOK, [Next]_vars PROVE TypeOK'
    OBVIOUS
  <1>stutter. CASE UNCHANGED vars
    BY <1>stutter DEF TypeOK, vars, poolVars, cgoVars, argVars
  <1> SUFFICES ASSUME NEW g \in Goroutines, Call(g) \/ Lock(g) \/ Advance(g)
               PROVE  TypeOK'
    BY <1>stutter DEF Next
  <1>call. CASE Call(g)
    <2> PICK p \in Pools : \/ \E v \in Values : CallAcquire(g, p, v)
                           \/ \E i \in 1..IDLimit[p] : CallResolve(g, p, i) \/ CallRelease(g, p, i)
                           \/ CallLive(g, p)
      BY <1>call DEF Call
    <2> QED
      BY EnterType DEF CallAcquire, CallResolve, CallRelease, CallLive, Waiting
  <1>lock. CASE Lock(g)
    BY <1>lock, ResultFacts
       DEF Lock, AfterLock, Goto, TypeOK, Waiting, InSection, cgoVars, argVars
  <1>full. CASE AcquireTestFull(g)
    BY <1>full, ResultFacts
       DEF AcquireTestFull, Goto, Unlock, TypeOK, AfterUnlock, cgoVars, argVars
  <1>exhausted. CASE AcquireExhausted(g)
    <2>1. Live(pool[g]) \in Nat /\ pool[g] \in Pools
      BY <1>exhausted, FS_CardinalityType DEF AcquireExhausted, TypeOK, Live
    <2>2. Exhausted(pool[g], Live(pool[g])) \in Results
      BY <2>1, ResultFacts
    <2> QED
      BY <1>exhausted, <2>2, ReturnType
         DEF AcquireExhausted, TypeOK, poolVars, cgoVars
  <1>room. CASE AcquireTestRoom(g)
    BY <1>room, ResultFacts
       DEF AcquireTestRoom, Goto, TypeOK, InSection, cgoVars
  <1>mint. CASE AcquireMint(g)
    <2>1. val[g] \in Values
      BY <1>mint DEF AcquireMint, TypeOK
    <2>2. /\ DOMAIN cgoTable' \subseteq Nat
          /\ cgoTable' \in [DOMAIN cgoTable' -> Values]
      BY <1>mint, <2>1 DEF AcquireMint, TypeOK, Put
    <2> QED
      BY <1>mint, <2>2, ResultFacts
         DEF AcquireMint, Goto, TypeOK, InSection, poolVars, argVars
  <1>store. CASE AcquireStore(g)
    <2> DEFINE p == pool[g]
    <2>1. p \in Pools /\ val[g] \in Values
      BY <1>store DEF AcquireStore, TypeOK
    <2>2. /\ handles' = [handles EXCEPT ![p] = Put(handles[p], id[g], hnd[g])]
          /\ given' = [given EXCEPT ![p] = Put(given[p], id[g], val[g])]
          /\ mu' = [mu EXCEPT ![p] = Nil]
      BY <1>store DEF AcquireStore, Unlock
    <2>3. /\ IsFiniteSet(DOMAIN Put(handles[p], id[g], hnd[g]))
          /\ DOMAIN Put(handles[p], id[g], hnd[g]) \subseteq Nat
          /\ Put(handles[p], id[g], hnd[g])
               \in [DOMAIN Put(handles[p], id[g], hnd[g]) -> Nat]
      <3>1. IsFiniteSet(DOMAIN handles[p] \cup {id[g]})
        BY <2>1, FS_AddElement DEF TypeOK
      <3> QED
        BY <2>1, <3>1 DEF TypeOK, Put
    <2>4. /\ DOMAIN Put(given[p], id[g], val[g]) \subseteq Nat
          /\ Put(given[p], id[g], val[g])
               \in [DOMAIN Put(given[p], id[g], val[g]) -> Values]
      BY <2>1 DEF TypeOK, Put
    <2>5. Acquired(p, id[g], val[g]) \in Results
      BY <2>1, ResultFacts DEF TypeOK
    <2>6. /\ DOMAIN handles' = Pools
          /\ \A q \in Pools : q # p => handles'[q] = handles[q]
          /\ handles'[p] = Put(handles[p], id[g], hnd[g])
          /\ DOMAIN given' = Pools
          /\ \A q \in Pools : q # p => given'[q] = given[q]
          /\ given'[p] = Put(given[p], id[g], val[g])
          /\ mu' \in [Pools -> Goroutines \cup {Nil}]
      BY <2>1, <2>2 DEF TypeOK
    <2>7. \A q \in Pools :
            /\ handles'[q] \in [DOMAIN handles'[q] -> Nat]
            /\ DOMAIN handles'[q] \subseteq Nat
            /\ IsFiniteSet(DOMAIN handles'[q])
            /\ DOMAIN given'[q] \subseteq Nat
            /\ given'[q] \in [DOMAIN given'[q] -> Values]
      BY <2>3, <2>4, <2>6 DEF TypeOK
    <2>8. /\ Return(g, Acquired(p, id[g], val[g]))
          /\ UNCHANGED <<nextID, cgoIdx, cgoTable>>
      BY <1>store DEF AcquireStore, cgoVars
    <2> HIDE DEF p
    <2>9. /\ pc' \in [Goroutines -> {"idle"} \cup Waiting \cup InSection \cup AfterUnlock]
          /\ pool' \in [Goroutines -> Pools \cup {Nil}]
          /\ id' \in [Goroutines -> Nat]
          /\ val' \in [Goroutines -> Values \cup {Nil}]
          /\ hnd' \in [Goroutines -> Nat]
          /\ out' \in Results
          /\ \A k \in Goroutines :
               /\ pc'[k] # "idle" => pool'[k] \in Pools
               /\ pc'[k] \in {"acqLock", "acqTest", "acqMint", "acqStore"} => val'[k] \in Values
      BY <2>5, <2>8, ReturnType
    <2> QED
      BY <2>6, <2>7, <2>8, <2>9 DEF TypeOK
  <1>hit. CASE ResolveHit(g)
    BY <1>hit, ResultFacts
       DEF ResolveHit, Goto, Unlock, TypeOK, AfterUnlock, cgoVars, argVars
  <1>miss. CASE ResolveMiss(g)
    BY <1>miss, ResultFacts
       DEF ResolveMiss, Return, Unlock, TypeOK, cgoVars
  <1>value. CASE ResolveValue(g)
    <2>1. pool[g] \in Pools /\ id[g] \in Nat
      BY <1>value DEF ResolveValue, TypeOK
    <2>2. hnd[g] \in DOMAIN cgoTable => cgoTable[hnd[g]] \in Values
      BY DEF TypeOK
    <2>3. (IF hnd[g] \in DOMAIN cgoTable
             THEN Resolved(pool[g], id[g], cgoTable[hnd[g]])
             ELSE Panicked) \in Results
      BY <2>1, <2>2, ResultFacts
    <2> QED
      BY <1>value, <2>3, ReturnType DEF ResolveValue, TypeOK, poolVars, cgoVars
  <1>rhit. CASE ReleaseHit(g)
    <2> DEFINE p == pool[g]
    <2>1. p \in Pools /\ handles[p][id[g]] \in Nat
      BY <1>rhit DEF ReleaseHit, TypeOK
    <2>2. /\ IsFiniteSet(DOMAIN Without(handles[p], id[g]))
          /\ DOMAIN Without(handles[p], id[g]) \subseteq Nat
          /\ Without(handles[p], id[g])
               \in [DOMAIN Without(handles[p], id[g]) -> Nat]
      BY <2>1, FS_RemoveElement DEF TypeOK, Without, Restrict
    <2>3. /\ handles' = [handles EXCEPT ![p] = Without(handles[p], id[g])]
          /\ mu' = [mu EXCEPT ![p] = Nil]
          /\ hnd' = [hnd EXCEPT ![g] = handles[p][id[g]]]
      BY <1>rhit DEF ReleaseHit, Unlock
    <2> QED
      BY <1>rhit, <2>1, <2>2, <2>3, ResultFacts
         DEF ReleaseHit, Goto, TypeOK, AfterUnlock, cgoVars, argVars
  <1>rmiss. CASE ReleaseMiss(g)
    BY <1>rmiss, ResultFacts
       DEF ReleaseMiss, Return, Unlock, TypeOK, cgoVars
  <1>delete. CASE ReleaseDelete(g)
    <2>1. /\ DOMAIN cgoTable' \subseteq Nat
          /\ cgoTable' \in [DOMAIN cgoTable' -> Values]
      BY <1>delete DEF ReleaseDelete, TypeOK, Without, Restrict
    <2>2. Released(TRUE) \in Results /\ Panicked \in Results
      BY ResultFacts
    <2> QED
      BY <1>delete, <2>1, <2>2, ReturnType DEF ReleaseDelete, TypeOK, poolVars
  <1>live. CASE LiveRead(g)
    <2>1. Counted(Live(pool[g])) \in Results
      BY <1>live, FS_CardinalityType, ResultFacts DEF LiveRead, TypeOK, Live
    <2> QED
      BY <1>live, <2>1 DEF LiveRead, Return, Unlock, TypeOK, cgoVars
  <1> QED
    BY <1>call, <1>lock, <1>full, <1>exhausted, <1>room, <1>mint, <1>store, <1>hit,
       <1>miss, <1>value, <1>rhit, <1>rmiss, <1>delete, <1>live DEF Advance

\* Every state of HandlePool has the types goroutine.go declares, and a method
\* under way has its receiver and arguments.
THEOREM TypeCorrect == Spec => []TypeOK
  BY InitType, StepType, PTL DEF Spec

-------------------------------------------------------------------------------
(* What a step writes, pointwise *)

Untouched(k) ==
  /\ pc'[k] = pc[k] /\ pool'[k] = pool[k] /\ id'[k] = id[k]
  /\ val'[k] = val[k] /\ hnd'[k] = hnd[k]

\* A call enters one of the four methods, and changes nothing else.
LEMMA CallEnters ==
  ASSUME NEW g \in Goroutines, Call(g)
  PROVE  \E step \in Waiting, p \in Pools, i \in Nat, v \in Values \cup {Nil} :
           Enter(g, step, p, i, v)
  <1> PICK p \in Pools : \/ \E v \in Values : CallAcquire(g, p, v)
                         \/ \E i \in 1..IDLimit[p] : CallResolve(g, p, i) \/ CallRelease(g, p, i)
                         \/ CallLive(g, p)
    BY DEF Call
  <1>acquire. ASSUME NEW v \in Values, CallAcquire(g, p, v)
              PROVE  Enter(g, "acqLock", p, 0, v)
    BY <1>acquire DEF CallAcquire
  <1>byId. ASSUME NEW i \in 1..IDLimit[p], CallResolve(g, p, i) \/ CallRelease(g, p, i)
           PROVE  i \in Nat /\ (Enter(g, "resLock", p, i, Nil) \/ Enter(g, "relLock", p, i, Nil))
    BY <1>byId DEF CallResolve, CallRelease
  <1>live. ASSUME CallLive(g, p) PROVE Enter(g, "liveLock", p, 0, Nil)
    BY <1>live DEF CallLive
  <1>1. {"acqLock", "resLock", "relLock", "liveLock"} \subseteq Waiting /\ 0 \in Nat
    BY DEF Waiting
  <1> QED
    BY <1>acquire, <1>byId, <1>live, <1>1

LEMMA ReturnShape ==
  ASSUME TypeOK, NEW g \in Goroutines, NEW r, Return(g, r)
  PROVE  /\ pc'[g] = "idle" /\ out' = r
         /\ \A k \in Goroutines : k # g => Untouched(k)
  BY DEF TypeOK, Return, Untouched

LEMMA StoreShape ==
  ASSUME TypeOK, NEW g \in Goroutines, AcquireStore(g)
  PROVE  /\ pc[g] = "acqStore" /\ pool[g] \in Pools
         /\ DOMAIN handles'[pool[g]] = DOMAIN handles[pool[g]] \cup {id[g]}
         /\ handles'[pool[g]][id[g]] = hnd[g]
         /\ \A j \in DOMAIN handles[pool[g]] : j # id[g] =>
              handles'[pool[g]][j] = handles[pool[g]][j]
         /\ DOMAIN given'[pool[g]] = DOMAIN given[pool[g]] \cup {id[g]}
         /\ given'[pool[g]][id[g]] = val[g]
         /\ \A j \in DOMAIN given[pool[g]] : j # id[g] =>
              given'[pool[g]][j] = given[pool[g]][j]
         /\ \A q \in Pools : q # pool[g] => handles'[q] = handles[q] /\ given'[q] = given[q]
         /\ nextID' = nextID /\ cgoIdx' = cgoIdx /\ cgoTable' = cgoTable
         /\ pc'[g] = "idle" /\ out'.kind # "value"
         /\ \A k \in Goroutines : k # g => Untouched(k)
  <1> DEFINE p == pool[g]
  <1>1. pc[g] = "acqStore" /\ p \in Pools
    BY DEF AcquireStore, TypeOK
  <1>2. /\ handles' = [handles EXCEPT ![p] = Put(handles[p], id[g], hnd[g])]
        /\ given' = [given EXCEPT ![p] = Put(given[p], id[g], val[g])]
        /\ Return(g, Acquired(p, id[g], val[g]))
        /\ nextID' = nextID /\ cgoIdx' = cgoIdx /\ cgoTable' = cgoTable
    BY DEF AcquireStore, cgoVars
  <1>3. /\ handles'[p] = Put(handles[p], id[g], hnd[g])
        /\ given'[p] = Put(given[p], id[g], val[g])
        /\ \A q \in Pools : q # p => handles'[q] = handles[q] /\ given'[q] = given[q]
    BY <1>1, <1>2 DEF TypeOK
  <1>4. /\ pc'[g] = "idle" /\ out' = Acquired(p, id[g], val[g])
        /\ \A k \in Goroutines : k # g => Untouched(k)
    BY <1>2, ReturnShape
  <1>5. out'.kind # "value"
    BY <1>4 DEF Acquired
  <1> QED
    <2>1. /\ DOMAIN handles'[p] = DOMAIN handles[p] \cup {id[g]}
          /\ handles'[p][id[g]] = hnd[g]
          /\ \A j \in DOMAIN handles[p] : j # id[g] => handles'[p][j] = handles[p][j]
      BY <1>3 DEF Put
    <2>2. /\ DOMAIN given'[p] = DOMAIN given[p] \cup {id[g]}
          /\ given'[p][id[g]] = val[g]
          /\ \A j \in DOMAIN given[p] : j # id[g] => given'[p][j] = given[p][j]
      BY <1>3 DEF Put
    <2> QED
      BY <1>1, <1>2, <1>3, <1>4, <1>5, <2>1, <2>2

LEMMA ReleaseShape ==
  ASSUME TypeOK, NEW g \in Goroutines, ReleaseHit(g)
  PROVE  /\ pc[g] = "relLookup" /\ pool[g] \in Pools
         /\ id[g] \in DOMAIN handles[pool[g]]
         /\ DOMAIN handles'[pool[g]] = DOMAIN handles[pool[g]] \ {id[g]}
         /\ \A j \in DOMAIN handles[pool[g]] : j # id[g] =>
              handles'[pool[g]][j] = handles[pool[g]][j]
         /\ \A q \in Pools : q # pool[g] => handles'[q] = handles[q]
         /\ nextID' = nextID /\ given' = given
         /\ cgoIdx' = cgoIdx /\ cgoTable' = cgoTable
         /\ pc'[g] = "relDelete" /\ pool'[g] = pool[g]
         /\ hnd'[g] = handles[pool[g]][id[g]] /\ out' = NoResult
         /\ \A k \in Goroutines : k # g => Untouched(k)
  <1> DEFINE p == pool[g]
  <1>1. pc[g] = "relLookup" /\ p \in Pools /\ id[g] \in DOMAIN handles[p]
    BY DEF ReleaseHit, TypeOK
  <1>2. /\ handles' = [handles EXCEPT ![p] = Without(handles[p], id[g])]
        /\ hnd' = [hnd EXCEPT ![g] = handles[p][id[g]]]
    BY DEF ReleaseHit
  <1>3. /\ handles'[p] = Without(handles[p], id[g])
        /\ \A q \in Pools : q # p => handles'[q] = handles[q]
    BY <1>1, <1>2 DEF TypeOK
  <1>4. /\ nextID' = nextID /\ given' = given /\ cgoIdx' = cgoIdx /\ cgoTable' = cgoTable
        /\ pc'[g] = "relDelete" /\ pool'[g] = pool[g]
        /\ hnd'[g] = handles[p][id[g]] /\ out' = NoResult
        /\ \A k \in Goroutines : k # g => Untouched(k)
    BY <1>2 DEF ReleaseHit, Goto, TypeOK, Untouched, cgoVars, argVars
  <1> QED
    <2>1. /\ DOMAIN handles'[p] = DOMAIN handles[p] \ {id[g]}
          /\ \A j \in DOMAIN handles[p] : j # id[g] => handles'[p][j] = handles[p][j]
      BY <1>3 DEF Without, Restrict
    <2> QED
      BY <1>1, <1>3, <1>4, <2>1

-------------------------------------------------------------------------------
(* The inductive invariant, in parts that build on each other *)

\* The mutex of a pool is held exactly by the method inside its section.
MutexInv ==
  /\ \A g \in Goroutines : pc[g] \in InSection => mu[pool[g]] = g
  /\ \A p \in Pools, g \in Goroutines : mu[p] = g => pc[g] \in InSection /\ pool[g] = p

\* The identifier an Acquire has drawn is the last one and not yet bound.
IdInv ==
  /\ \A p \in Pools :
       /\ DOMAIN handles[p] \subseteq DOMAIN given[p]
       /\ DOMAIN given[p] \subseteq 1..nextID[p]
  /\ \A g \in Goroutines :
       /\ pc[g] \in {"acqMint", "acqStore"} =>
            /\ id[g] = nextID[pool[g]]
            /\ id[g] \in 1..nextID[pool[g]]
            /\ id[g] \notin DOMAIN given[pool[g]]
       /\ pc[g] = "resValue" => id[g] \in DOMAIN given[pool[g]]

\* A cgo handle keeps the value it was minted with, wherever it is kept.
ValueInv ==
  /\ DOMAIN cgoTable \subseteq 1..cgoIdx
  /\ \A p \in Pools : \A i \in DOMAIN handles[p] :
       cgoTable[handles[p][i]] = given[p][i]
  /\ \A g \in Goroutines :
       /\ pc[g] = "acqStore" => cgoTable[hnd[g]] = val[g]
       /\ pc[g] = "resValue" =>
            /\ hnd[g] \in 1..cgoIdx
            /\ hnd[g] \in DOMAIN cgoTable =>
                 cgoTable[hnd[g]] = given[pool[g]][id[g]]
            /\ id[g] \in DOMAIN handles[pool[g]] =>
                 handles[pool[g]][id[g]] = hnd[g]

HandleInv == NoLeak /\ SoleOwner /\ ValueInv

\* An Acquire past its test still has room when it stores.
CapInv ==
  /\ CapRespected
  /\ \A g \in Goroutines :
       pc[g] \in {"acqMint", "acqStore"} =>
         (max[pool[g]] > 0 => Live(pool[g]) < max[pool[g]])

-------------------------------------------------------------------------------
(* Mutual exclusion *)

LEMMA StepMutex == TypeOK /\ MutexInv /\ [Next]_vars => MutexInv'
  <1> SUFFICES ASSUME TypeOK, MutexInv, [Next]_vars PROVE MutexInv'
    OBVIOUS
  <1> USE NilAssumption
  <1>stutter. CASE UNCHANGED vars
    BY <1>stutter DEF MutexInv, vars, poolVars, cgoVars, argVars
  <1> SUFFICES ASSUME NEW g \in Goroutines, Call(g) \/ Lock(g) \/ Advance(g)
               PROVE  MutexInv'
    BY <1>stutter DEF Next
  <1>call. CASE Call(g)
    <2> PICK step \in Waiting, p \in Pools, i \in Nat, v \in Values \cup {Nil} :
               Enter(g, step, p, i, v)
      BY <1>call, CallEnters
    <2>1. /\ pc[g] = "idle" /\ pc'[g] = step /\ mu' = mu
          /\ \A k \in Goroutines : k # g => Untouched(k)
      BY DEF Enter, Goto, TypeOK, Untouched, poolVars
    <2> QED
      BY <2>1 DEF MutexInv, TypeOK, InSection, Waiting, Untouched
  <1>lock. CASE Lock(g)
    BY <1>lock DEF Lock, AfterLock, Goto, MutexInv, TypeOK, Waiting, InSection, argVars
  <1>inside. CASE AcquireTestRoom(g) \/ AcquireMint(g)
    BY <1>inside
       DEF AcquireTestRoom, AcquireMint, Goto, MutexInv, TypeOK, InSection, poolVars, argVars
  <1>unlock. CASE \/ AcquireTestFull(g) \/ AcquireStore(g) \/ ResolveHit(g) \/ ResolveMiss(g)
                  \/ ReleaseHit(g) \/ ReleaseMiss(g) \/ LiveRead(g)
    <2>1. /\ pc[g] \in InSection
          /\ mu' = [mu EXCEPT ![pool[g]] = Nil]
          /\ pc'[g] \notin InSection
          /\ \A k \in Goroutines : k # g => pc'[k] = pc[k] /\ pool'[k] = pool[k]
      <3>1. CASE AcquireTestFull(g) \/ ResolveHit(g) \/ ReleaseHit(g)
        BY <3>1 DEF AcquireTestFull, ResolveHit, ReleaseHit, Unlock, Goto, TypeOK, InSection, argVars
      <3>2. CASE AcquireStore(g)
        BY <3>2 DEF AcquireStore, Unlock, Return, TypeOK, InSection
      <3>3. CASE ResolveMiss(g) \/ ReleaseMiss(g) \/ LiveRead(g)
        BY <3>3 DEF ResolveMiss, ReleaseMiss, LiveRead, Unlock, Return, TypeOK, InSection
      <3> QED
        BY <1>unlock, <3>1, <3>2, <3>3
    <2> QED
      BY <2>1, SMTT(20) DEF MutexInv, TypeOK
  <1>after. CASE AcquireExhausted(g) \/ ResolveValue(g) \/ ReleaseDelete(g)
    <2>1. /\ pc[g] \notin InSection /\ pc'[g] \notin InSection
          /\ mu' = mu
          /\ \A k \in Goroutines : k # g => pc'[k] = pc[k] /\ pool'[k] = pool[k]
      BY <1>after
         DEF AcquireExhausted, ResolveValue, ReleaseDelete, Return, TypeOK, InSection, poolVars
    <2> QED
      BY <2>1 DEF MutexInv, TypeOK
  <1> QED
    BY <1>call, <1>lock, <1>inside, <1>unlock, <1>after DEF Advance

\* At most one method is inside a pool's critical section, and it holds the
\* pool's mutex.
THEOREM MutualExclusion == Spec => []MutexInv
  <1>1. Init => MutexInv
    BY NilAssumption DEF Init, MutexInv, InSection
  <1> QED
    BY <1>1, TypeCorrect, StepMutex, PTL DEF Spec

-------------------------------------------------------------------------------
(* Identifiers *)

LEMMA StepID == TypeOK /\ MutexInv /\ IdInv /\ [Next]_vars => IdInv'
  <1> SUFFICES ASSUME TypeOK, MutexInv, IdInv, [Next]_vars PROVE IdInv'
    OBVIOUS
  <1>stutter. CASE UNCHANGED vars
    BY <1>stutter DEF IdInv, vars, poolVars, cgoVars, argVars
  <1> SUFFICES ASSUME NEW g \in Goroutines, Call(g) \/ Lock(g) \/ Advance(g)
               PROVE  IdInv'
    BY <1>stutter DEF Next
  <1>call. CASE Call(g)
    <2> PICK step \in Waiting, p \in Pools, i \in Nat, v \in Values \cup {Nil} :
               Enter(g, step, p, i, v)
      BY <1>call, CallEnters
    <2> QED
      BY DEF Enter, Goto, IdInv, TypeOK, Waiting, poolVars
  <1>lock. CASE Lock(g)
    BY <1>lock DEF Lock, AfterLock, Goto, IdInv, TypeOK, Waiting, argVars
  <1>full. CASE AcquireTestFull(g)
    BY <1>full DEF AcquireTestFull, Goto, IdInv, TypeOK, argVars
  <1>exhausted. CASE AcquireExhausted(g) \/ ResolveValue(g) \/ ReleaseDelete(g)
    <2>1. pc'[g] = "idle" /\ \A k \in Goroutines : k # g => Untouched(k)
      BY <1>exhausted, ReturnShape DEF AcquireExhausted, ResolveValue, ReleaseDelete
    <2>2. UNCHANGED <<nextID, handles, given>>
      BY <1>exhausted DEF AcquireExhausted, ResolveValue, ReleaseDelete, poolVars
    <2> QED
      BY <2>1, <2>2 DEF IdInv, Untouched
  <1>room. CASE AcquireTestRoom(g)
    <2>1. \A k \in Goroutines : k # g /\ pc[k] \in {"acqMint", "acqStore"} => pool[k] # pool[g]
      BY <1>room DEF AcquireTestRoom, MutexInv, InSection
    <2>2. pool[g] \in Pools
      BY <1>room DEF AcquireTestRoom, TypeOK
    <2> QED
      BY <1>room, <2>1, <2>2 DEF AcquireTestRoom, Goto, IdInv, TypeOK
  <1>mint. CASE AcquireMint(g)
    BY <1>mint DEF AcquireMint, Goto, IdInv, TypeOK, poolVars, argVars
  <1>store. CASE AcquireStore(g)
    <2>1. \A k \in Goroutines : k # g /\ pc[k] \in {"acqMint", "acqStore"} => pool[k] # pool[g]
      BY <1>store DEF AcquireStore, MutexInv, InSection
    <2> DEFINE p == pool[g]
    <2>2. /\ p \in Pools /\ id[g] \in 1..nextID[p] /\ nextID' = nextID
          /\ DOMAIN handles'[p] = DOMAIN handles[p] \cup {id[g]}
          /\ DOMAIN given'[p] = DOMAIN given[p] \cup {id[g]}
          /\ \A q \in Pools : q # p => handles'[q] = handles[q] /\ given'[q] = given[q]
          /\ pc'[g] = "idle" /\ \A k \in Goroutines : k # g => Untouched(k)
      BY <1>store, StoreShape DEF IdInv
    <2>3. \A q \in Pools : /\ DOMAIN handles'[q] \subseteq DOMAIN given'[q]
                           /\ DOMAIN given'[q] \subseteq 1..nextID'[q]
      BY <2>2 DEF IdInv
    <2>4. \A k \in Goroutines :
            /\ pc'[k] \in {"acqMint", "acqStore"} =>
                 /\ id'[k] = nextID'[pool'[k]]
                 /\ id'[k] \in 1..nextID'[pool'[k]]
                 /\ id'[k] \notin DOMAIN given'[pool'[k]]
            /\ pc'[k] = "resValue" => id'[k] \in DOMAIN given'[pool'[k]]
      <3> TAKE k \in Goroutines
      <3>1. CASE k = g
        BY <2>2, <3>1
      <3>2. CASE k # g
        <4>1. Untouched(k)
          BY <2>2, <3>2
        <4>2. pc[k] # "idle" => pool[k] \in Pools
          BY DEF TypeOK
        <4> QED
          BY <2>1, <2>2, <3>2, <4>1, <4>2 DEF IdInv, Untouched
      <3> QED
        BY <3>1, <3>2
    <2> QED
      BY <2>3, <2>4 DEF IdInv
  <1>hit. CASE ResolveHit(g)
    BY <1>hit DEF ResolveHit, Goto, IdInv, TypeOK, argVars
  <1>miss. CASE ResolveMiss(g) \/ ReleaseMiss(g) \/ LiveRead(g)
    <2>1. pc'[g] = "idle" /\ \A k \in Goroutines : k # g => Untouched(k)
      BY <1>miss, ReturnShape DEF ResolveMiss, ReleaseMiss, LiveRead
    <2>2. UNCHANGED <<nextID, handles, given>>
      BY <1>miss DEF ResolveMiss, ReleaseMiss, LiveRead
    <2> QED
      BY <2>1, <2>2 DEF IdInv, Untouched
  <1>rhit. CASE ReleaseHit(g)
    BY <1>rhit, ReleaseShape DEF IdInv, TypeOK, Untouched
  <1> QED
    BY <1>call, <1>lock, <1>full, <1>exhausted, <1>room, <1>mint, <1>store, <1>hit,
       <1>miss, <1>rhit DEF Advance

\* An identifier an Acquire draws has never been bound before.
THEOREM IdentifiersFresh == Spec => []IdInv
  <1>1. Init => IdInv
    BY DEF Init, IdInv
  <1> QED
    BY <1>1, TypeCorrect, MutualExclusion, StepID, PTL DEF Spec

-------------------------------------------------------------------------------
(* Ownership of the cgo handles *)

\* A step that leaves the maps and every owner and reader of a handle alone.
LEMMA QuietStep ==
  ASSUME HandleInv, UNCHANGED <<handles, given, cgoIdx, cgoTable>>,
         \A k \in Goroutines :
           \/ pc[k] \in {"acqStore", "relDelete"}
           \/ pc'[k] \in {"acqStore", "relDelete", "resValue"}
           => Untouched(k)
  PROVE  HandleInv'
  <1>1. \A h : \A k \in Goroutines : Holds(k, h)' <=> Holds(k, h)
    BY DEF Holds, Untouched
  <1>2. NoLeak'
    BY <1>1 DEF HandleInv, NoLeak, Stores
  <1>3. SoleOwner'
    BY <1>1 DEF HandleInv, SoleOwner, Untouched
  <1>4. ValueInv'
    BY DEF HandleInv, ValueInv, Untouched
  <1> QED
    BY <1>2, <1>3, <1>4 DEF HandleInv

\* Who holds a handle after the step, and SoleOwner of the next state by it.
HoldsNext(k, x) == pc'[k] \in {"acqStore", "relDelete"} /\ hnd'[k] = x

LEMMA SoleOwnerNext ==
  ASSUME \A q \in Pools : \A i \in DOMAIN handles'[q] :
           /\ handles'[q][i] \in DOMAIN cgoTable'
           /\ \A k \in Goroutines : ~HoldsNext(k, handles'[q][i]),
         \A q, r \in Pools : \A i \in DOMAIN handles'[q], j \in DOMAIN handles'[r] :
           handles'[q][i] = handles'[r][j] => q = r /\ i = j,
         \A k \in Goroutines : pc'[k] \in {"acqStore", "relDelete"} =>
           /\ hnd'[k] \in DOMAIN cgoTable'
           /\ \A l \in Goroutines : HoldsNext(l, hnd'[k]) => l = k
  PROVE  SoleOwner'
  BY DEF SoleOwner, Holds, HoldsNext

LEMMA NoLeakNext ==
  ASSUME \A x \in DOMAIN cgoTable' :
           \/ \E q \in Pools : \E i \in DOMAIN handles'[q] : handles'[q][i] = x
           \/ \E k \in Goroutines : HoldsNext(k, x)
  PROVE  NoLeak'
  BY DEF NoLeak, Stores, Holds, HoldsNext

LEMMA StepHandle == TypeOK /\ MutexInv /\ IdInv /\ HandleInv /\ [Next]_vars => HandleInv'
  <1> SUFFICES ASSUME TypeOK, MutexInv, IdInv, HandleInv, [Next]_vars PROVE HandleInv'
    OBVIOUS
  <1>stutter. CASE UNCHANGED vars
    BY <1>stutter, QuietStep DEF vars, poolVars, cgoVars, argVars, Untouched
  <1> SUFFICES ASSUME NEW g \in Goroutines, Call(g) \/ Lock(g) \/ Advance(g)
               PROVE  HandleInv'
    BY <1>stutter DEF Next
  <1>call. CASE Call(g)
    <2> PICK step \in Waiting, p \in Pools, i \in Nat, v \in Values \cup {Nil} :
               Enter(g, step, p, i, v)
      BY <1>call, CallEnters
    <2>1. UNCHANGED <<handles, given, cgoIdx, cgoTable>>
      BY DEF Enter, poolVars, cgoVars
    <2>2. /\ pc[g] = "idle" /\ pc'[g] \in Waiting
          /\ \A k \in Goroutines : k # g => Untouched(k)
      BY DEF Enter, Goto, TypeOK, Untouched
    <2> QED
      BY <2>1, <2>2, QuietStep DEF Waiting
  <1>lock. CASE Lock(g)
    <2>1. UNCHANGED <<handles, given, cgoIdx, cgoTable>>
      BY <1>lock DEF Lock, cgoVars
    <2>2. /\ pc[g] \in Waiting /\ pc'[g] \in {"acqTest", "resLookup", "relLookup", "liveRead"}
          /\ \A k \in Goroutines : k # g => Untouched(k)
      BY <1>lock DEF Lock, Goto, AfterLock, Waiting, TypeOK, Untouched, argVars
    <2> QED
      BY <2>1, <2>2, QuietStep DEF Waiting
  <1>full. CASE AcquireTestFull(g) \/ AcquireTestRoom(g)
    <2>1. UNCHANGED <<handles, given, cgoIdx, cgoTable>>
      BY <1>full DEF AcquireTestFull, AcquireTestRoom, cgoVars
    <2>2. /\ pc[g] = "acqTest" /\ pc'[g] \in {"acqFull", "acqMint"}
          /\ \A k \in Goroutines : k # g => Untouched(k)
      BY <1>full DEF AcquireTestFull, AcquireTestRoom, Goto, TypeOK, Untouched, argVars
    <2> QED
      BY <2>1, <2>2, QuietStep
  <1>return. CASE \/ AcquireExhausted(g) \/ ResolveMiss(g) \/ ResolveValue(g)
                  \/ ReleaseMiss(g) \/ LiveRead(g)
    <2>1. UNCHANGED <<handles, given, cgoIdx, cgoTable>>
      BY <1>return DEF AcquireExhausted, ResolveMiss, ResolveValue, ReleaseMiss, LiveRead,
                       poolVars, cgoVars
    <2>2. /\ pc[g] \notin {"acqStore", "relDelete"} /\ pc'[g] = "idle"
          /\ \A k \in Goroutines : k # g => Untouched(k)
      BY <1>return, ReturnShape
         DEF AcquireExhausted, ResolveMiss, ResolveValue, ReleaseMiss, LiveRead
    <2> QED
      BY <2>1, <2>2, QuietStep
  <1>mint. CASE AcquireMint(g)
    <2> PICK h : h = cgoIdx + 1
      OBVIOUS
    <2>1. /\ pc[g] = "acqMint" /\ pc'[g] = "acqStore" /\ hnd'[g] = h /\ val'[g] = val[g]
          /\ \A k \in Goroutines : k # g => Untouched(k)
          /\ handles' = handles /\ given' = given /\ cgoIdx' = h /\ cgoIdx \in Nat
      BY <1>mint DEF AcquireMint, Goto, TypeOK, Untouched, poolVars, argVars
    <2>2. /\ DOMAIN cgoTable' = DOMAIN cgoTable \cup {h}
          /\ cgoTable'[h] = val[g]
          /\ \A j \in DOMAIN cgoTable : j # h => cgoTable'[j] = cgoTable[j]
      BY <1>mint DEF AcquireMint, Put
    <2>3. h \notin 1..cgoIdx /\ h \notin DOMAIN cgoTable /\ 1..cgoIdx \subseteq 1..h
      BY <2>1 DEF HandleInv, ValueInv
    <2>4. \A x : \A k \in Goroutines : k # g => (HoldsNext(k, x) <=> Holds(k, x))
      BY <2>1 DEF Holds, HoldsNext, Untouched
    <2>5. /\ \A x : ~Holds(g, x)
          /\ \A x : HoldsNext(g, x) <=> x = h
      BY <2>1 DEF Holds, HoldsNext
    <2>6. NoLeak'
      <3>1. \A x \in DOMAIN cgoTable' :
              \/ \E q \in Pools : \E i \in DOMAIN handles'[q] : handles'[q][i] = x
              \/ \E k \in Goroutines : HoldsNext(k, x)
        BY <2>1, <2>2, <2>4, <2>5 DEF HandleInv, NoLeak, Stores
      <3> QED
        BY <3>1, NoLeakNext
    <2>7. SoleOwner'
      <3>1. \A k \in Goroutines : k # g /\ pc'[k] \in {"acqStore", "relDelete"} =>
              hnd'[k] = hnd[k] /\ hnd[k] \in DOMAIN cgoTable /\ hnd[k] # h
                /\ pc[k] \in {"acqStore", "relDelete"}
        BY <2>1, <2>3 DEF HandleInv, SoleOwner, Untouched
      <3>2. \A q \in Pools : \A i \in DOMAIN handles'[q] :
              /\ handles'[q][i] \in DOMAIN cgoTable'
              /\ \A k \in Goroutines : ~HoldsNext(k, handles'[q][i])
        BY <2>1, <2>2, <2>3, <2>4, <2>5 DEF HandleInv, SoleOwner
      <3>3. \A q, r \in Pools : \A i \in DOMAIN handles'[q], j \in DOMAIN handles'[r] :
              handles'[q][i] = handles'[r][j] => q = r /\ i = j
        BY <2>1 DEF HandleInv, SoleOwner
      <3>4. \A k \in Goroutines : pc'[k] \in {"acqStore", "relDelete"} =>
              /\ hnd'[k] \in DOMAIN cgoTable'
              /\ \A l \in Goroutines : HoldsNext(l, hnd'[k]) => l = k
        BY <2>1, <2>2, <2>4, <2>5, <3>1 DEF HandleInv, SoleOwner, Holds, HoldsNext
      <3> QED
        BY <3>2, <3>3, <3>4, SoleOwnerNext
    <2>8. ValueInv'
      <3>1. DOMAIN cgoTable' \subseteq 1..cgoIdx'
        BY <2>1, <2>2, <2>3 DEF HandleInv, ValueInv
      <3>2. \A q \in Pools : \A i \in DOMAIN handles[q] : cgoTable'[handles[q][i]] = given[q][i]
        BY <2>2, <2>3 DEF HandleInv, ValueInv, SoleOwner
      <3>3. \A k \in Goroutines : pc'[k] = "acqStore" => cgoTable'[hnd'[k]] = val'[k]
        BY <2>1, <2>2, <2>3 DEF HandleInv, ValueInv, SoleOwner, Untouched
      <3>4. \A k \in Goroutines : pc'[k] = "resValue" =>
              k # g /\ pc[k] = "resValue" /\ Untouched(k) /\ hnd[k] # h
        BY <2>1, <2>3 DEF HandleInv, ValueInv, Untouched
      <3> QED
        BY <2>1, <2>2, <2>3, <3>1, <3>2, <3>3, <3>4 DEF HandleInv, ValueInv, Untouched
    <2> QED
      BY <2>6, <2>7, <2>8 DEF HandleInv
  <1>store. CASE AcquireStore(g)
    <2> PICK p, i0, h : p = pool[g] /\ i0 = id[g] /\ h = hnd[g]
      OBVIOUS
    <2>1. /\ pc[g] = "acqStore" /\ p \in Pools /\ pc'[g] = "idle"
          /\ DOMAIN handles'[p] = DOMAIN handles[p] \cup {i0}
          /\ handles'[p][i0] = h
          /\ \A j \in DOMAIN handles[p] : j # i0 => handles'[p][j] = handles[p][j]
          /\ DOMAIN given'[p] = DOMAIN given[p] \cup {i0}
          /\ given'[p][i0] = val[g]
          /\ \A j \in DOMAIN given[p] : j # i0 => given'[p][j] = given[p][j]
          /\ \A q \in Pools : q # p => handles'[q] = handles[q] /\ given'[q] = given[q]
          /\ cgoIdx' = cgoIdx /\ cgoTable' = cgoTable
          /\ \A k \in Goroutines : k # g => Untouched(k)
      BY <1>store, StoreShape
    <2>2. /\ i0 \notin DOMAIN given[p] /\ i0 \notin DOMAIN handles[p]
          /\ h \in DOMAIN cgoTable /\ cgoTable[h] = val[g]
          /\ \A q \in Pools : DOMAIN handles[q] \subseteq DOMAIN given[q]
      BY <2>1 DEF IdInv, HandleInv, SoleOwner, ValueInv
    <2>3. /\ \A x : \A k \in Goroutines : k # g => (HoldsNext(k, x) <=> Holds(k, x))
          /\ \A x : Holds(g, x) <=> x = h
          /\ \A x : ~HoldsNext(g, x)
      BY <2>1 DEF Holds, HoldsNext, Untouched
    <2>4. \A q \in Pools : \A i \in DOMAIN handles'[q] :
            \/ q = p /\ i = i0 /\ handles'[q][i] = h
            \/ i \in DOMAIN handles[q] /\ handles'[q][i] = handles[q][i]
                 /\ given'[q][i] = given[q][i] /\ ~(q = p /\ i = i0)
      BY <2>1, <2>2
    <2>5. /\ \A q \in Pools : \A i \in DOMAIN handles[q] :
               i \in DOMAIN handles'[q] /\ handles'[q][i] = handles[q][i]
          /\ i0 \in DOMAIN handles'[p] /\ handles'[p][i0] = h
      BY <2>1, <2>2
    <2>6. NoLeak'
      <3>1. \A x \in DOMAIN cgoTable' :
              \/ \E q \in Pools : \E i \in DOMAIN handles'[q] : handles'[q][i] = x
              \/ \E k \in Goroutines : HoldsNext(k, x)
        BY <2>1, <2>3, <2>5 DEF HandleInv, NoLeak, Stores
      <3> QED
        BY <3>1, NoLeakNext
    <2>7. SoleOwner'
      <3>1. \A q \in Pools : \A i \in DOMAIN handles[q] : handles[q][i] # h
        BY <2>3 DEF HandleInv, SoleOwner
      <3>2. \A k \in Goroutines : k # g => ~Holds(k, h)
        BY <2>1, <2>3 DEF HandleInv, SoleOwner
      <3>3. \A q \in Pools : \A i \in DOMAIN handles'[q] :
              /\ handles'[q][i] \in DOMAIN cgoTable'
              /\ \A k \in Goroutines : ~HoldsNext(k, handles'[q][i])
        <4> TAKE q \in Pools
        <4> TAKE i \in DOMAIN handles'[q]
        <4>1. CASE q = p /\ i = i0 /\ handles'[q][i] = h
          BY <2>1, <2>2, <2>3, <3>2, <4>1
        <4>2. CASE i \in DOMAIN handles[q] /\ handles'[q][i] = handles[q][i]
          BY <2>1, <2>3, <4>2 DEF HandleInv, SoleOwner
        <4> QED
          BY <2>4, <4>1, <4>2
      <3>4. \A q, r \in Pools : \A i \in DOMAIN handles'[q], j \in DOMAIN handles'[r] :
              handles'[q][i] = handles'[r][j] => q = r /\ i = j
        BY <2>4, <3>1 DEF HandleInv, SoleOwner
      <3>5. \A k \in Goroutines : pc'[k] \in {"acqStore", "relDelete"} =>
              /\ hnd'[k] \in DOMAIN cgoTable'
              /\ \A l \in Goroutines : HoldsNext(l, hnd'[k]) => l = k
        BY <2>1, <2>3 DEF HandleInv, SoleOwner, Untouched, HoldsNext, Holds
      <3> QED
        BY <3>3, <3>4, <3>5, SoleOwnerNext
    <2>8. ValueInv'
      <3>1. \A q \in Pools : \A i \in DOMAIN handles'[q] : cgoTable'[handles'[q][i]] = given'[q][i]
        BY <2>1, <2>2, <2>4 DEF HandleInv, ValueInv
      <3>2. \A k \in Goroutines : pc'[k] = "acqStore" => cgoTable'[hnd'[k]] = val'[k]
        BY <2>1 DEF HandleInv, ValueInv, Untouched
      <3>3. ASSUME NEW k \in Goroutines, pc'[k] = "resValue"
            PROVE  /\ hnd'[k] \in 1..cgoIdx'
                   /\ hnd'[k] \in DOMAIN cgoTable' =>
                        cgoTable'[hnd'[k]] = given'[pool'[k]][id'[k]]
                   /\ id'[k] \in DOMAIN handles'[pool'[k]] =>
                        handles'[pool'[k]][id'[k]] = hnd'[k]
        <4>1. k # g /\ Untouched(k)
          BY <2>1, <3>3
        <4>2. pc[k] = "resValue" /\ pool[k] \in Pools /\ id[k] \in DOMAIN given[pool[k]]
          BY <3>3, <4>1 DEF Untouched, TypeOK, IdInv
        <4>3. given'[pool[k]][id[k]] = given[pool[k]][id[k]]
          BY <2>1, <2>2, <4>2
        <4>4. id[k] \in DOMAIN handles'[pool[k]] =>
                /\ id[k] \in DOMAIN handles[pool[k]]
                /\ handles'[pool[k]][id[k]] = handles[pool[k]][id[k]]
          BY <2>2, <2>4, <4>2
        <4> QED
          BY <2>1, <4>1, <4>2, <4>3, <4>4 DEF HandleInv, ValueInv, Untouched
      <3>4. DOMAIN cgoTable' \subseteq 1..cgoIdx'
        BY <2>1 DEF HandleInv, ValueInv
      <3> QED
        BY <3>1, <3>2, <3>3, <3>4 DEF ValueInv
    <2> QED
      BY <2>6, <2>7, <2>8 DEF HandleInv
  <1>hit. CASE ResolveHit(g)
    <2>1. /\ pc[g] = "resLookup" /\ pc'[g] = "resValue" /\ pool[g] \in Pools
          /\ pool'[g] = pool[g] /\ id'[g] = id[g]
          /\ id[g] \in DOMAIN handles[pool[g]] /\ hnd'[g] = handles[pool[g]][id[g]]
          /\ UNCHANGED <<handles, given, cgoIdx, cgoTable>>
          /\ \A k \in Goroutines : k # g => Untouched(k)
      BY <1>hit DEF ResolveHit, Goto, TypeOK, Untouched, cgoVars, argVars
    <2>2. \A x : \A k \in Goroutines : HoldsNext(k, x) <=> Holds(k, x)
      BY <2>1 DEF Holds, HoldsNext, Untouched
    <2>3. NoLeak'
      <3>1. \A x \in DOMAIN cgoTable' :
              \/ \E q \in Pools : \E i \in DOMAIN handles'[q] : handles'[q][i] = x
              \/ \E k \in Goroutines : HoldsNext(k, x)
        BY <2>1, <2>2 DEF HandleInv, NoLeak, Stores
      <3> QED
        BY <3>1, NoLeakNext
    <2>4. SoleOwner'
      <3>1. \A q \in Pools : \A i \in DOMAIN handles'[q] :
              /\ handles'[q][i] \in DOMAIN cgoTable'
              /\ \A k \in Goroutines : ~HoldsNext(k, handles'[q][i])
        BY <2>1, <2>2 DEF HandleInv, SoleOwner
      <3>2. \A q, r \in Pools : \A i \in DOMAIN handles'[q], j \in DOMAIN handles'[r] :
              handles'[q][i] = handles'[r][j] => q = r /\ i = j
        BY <2>1 DEF HandleInv, SoleOwner
      <3>3. \A k \in Goroutines : pc'[k] \in {"acqStore", "relDelete"} =>
              /\ hnd'[k] \in DOMAIN cgoTable'
              /\ \A l \in Goroutines : HoldsNext(l, hnd'[k]) => l = k
        BY <2>1, <2>2 DEF HandleInv, SoleOwner, Untouched, Holds, HoldsNext
      <3> QED
        BY <3>1, <3>2, <3>3, SoleOwnerNext
    <2>5. ValueInv'
      <3>1. hnd'[g] \in 1..cgoIdx /\ cgoTable[hnd'[g]] = given[pool[g]][id[g]]
        BY <2>1 DEF HandleInv, ValueInv, SoleOwner
      <3> QED
        BY <2>1, <3>1 DEF HandleInv, ValueInv, Untouched
    <2> QED
      BY <2>3, <2>4, <2>5 DEF HandleInv
  <1>rhit. CASE ReleaseHit(g)
    <2> PICK p, i0, h : p = pool[g] /\ i0 = id[g] /\ h = handles[p][i0]
      OBVIOUS
    <2>1. /\ pc[g] = "relLookup" /\ p \in Pools /\ i0 \in DOMAIN handles[p]
          /\ DOMAIN handles'[p] = DOMAIN handles[p] \ {i0}
          /\ \A j \in DOMAIN handles[p] : j # i0 => handles'[p][j] = handles[p][j]
          /\ \A q \in Pools : q # p => handles'[q] = handles[q]
          /\ given' = given /\ cgoIdx' = cgoIdx /\ cgoTable' = cgoTable
          /\ pc'[g] = "relDelete" /\ hnd'[g] = h
          /\ \A k \in Goroutines : k # g => Untouched(k)
      BY <1>rhit, ReleaseShape
    <2>2. /\ h \in DOMAIN cgoTable
          /\ \A k \in Goroutines : ~Holds(k, h)
          /\ \A q \in Pools : \A j \in DOMAIN handles[q] :
               handles[q][j] = h => q = p /\ j = i0
      BY <2>1 DEF HandleInv, SoleOwner
    <2>3. /\ \A x : \A k \in Goroutines : k # g => (HoldsNext(k, x) <=> Holds(k, x))
          /\ \A x : ~Holds(g, x)
          /\ \A x : HoldsNext(g, x) <=> x = h
      BY <2>1 DEF Holds, HoldsNext, Untouched
    <2>4. /\ \A q \in Pools : \A i \in DOMAIN handles'[q] :
               /\ i \in DOMAIN handles[q] /\ handles'[q][i] = handles[q][i]
               /\ handles[q][i] # h
          /\ \A q \in Pools : \A i \in DOMAIN handles[q] :
               \/ q = p /\ i = i0 /\ handles[q][i] = h
               \/ i \in DOMAIN handles'[q]
      BY <2>1, <2>2 
    <2>5. NoLeak'
      <3>1. \A x \in DOMAIN cgoTable' :
              \/ \E q \in Pools : \E i \in DOMAIN handles'[q] : handles'[q][i] = x
              \/ \E k \in Goroutines : HoldsNext(k, x)
        BY <2>1, <2>3, <2>4 DEF HandleInv, NoLeak, Stores
      <3> QED
        BY <3>1, NoLeakNext
    <2>6. SoleOwner'
      <3>1. \A k \in Goroutines : pc'[k] \in {"acqStore", "relDelete"} =>
              /\ hnd'[k] \in DOMAIN cgoTable'
              /\ \A l \in Goroutines : HoldsNext(l, hnd'[k]) => l = k
        BY <2>1, <2>2, <2>3 DEF HandleInv, SoleOwner, Untouched, Holds, HoldsNext
      <3>2. \A q \in Pools : \A i \in DOMAIN handles'[q] :
              /\ handles'[q][i] \in DOMAIN cgoTable'
              /\ \A k \in Goroutines : ~HoldsNext(k, handles'[q][i])
        BY <2>1, <2>3, <2>4 DEF HandleInv, SoleOwner
      <3>3. \A q, r \in Pools : \A i \in DOMAIN handles'[q], j \in DOMAIN handles'[r] :
              handles'[q][i] = handles'[r][j] => q = r /\ i = j
        BY <2>4 DEF HandleInv, SoleOwner
      <3> QED
        BY <3>1, <3>2, <3>3, SoleOwnerNext
    <2>7. ValueInv'
      <3>1. \A q \in Pools : \A i \in DOMAIN handles'[q] : cgoTable'[handles'[q][i]] = given'[q][i]
        BY <2>1, <2>4 DEF HandleInv, ValueInv
      <3>2. \A k \in Goroutines : pc'[k] \in {"acqStore", "resValue"} => k # g /\ Untouched(k)
        BY <2>1
      <3>3. \A k \in Goroutines : pc[k] = "resValue" => pool[k] \in Pools
        BY DEF TypeOK
      <3> QED
        BY <2>1, <2>4, <3>1, <3>2, <3>3 DEF HandleInv, ValueInv, Untouched
    <2> QED
      BY <2>5, <2>6, <2>7 DEF HandleInv
  <1>delete. CASE ReleaseDelete(g)
    <2> PICK h : h = hnd[g]
      OBVIOUS
    <2>1. /\ pc[g] = "relDelete" /\ pc'[g] = "idle"
          /\ handles' = handles /\ given' = given /\ cgoIdx' = cgoIdx
          /\ \A k \in Goroutines : k # g => Untouched(k)
      BY <1>delete, ReturnShape DEF ReleaseDelete, poolVars
    <2>2. /\ DOMAIN cgoTable' = DOMAIN cgoTable \ {h}
          /\ \A x \in DOMAIN cgoTable : x # h => cgoTable'[x] = cgoTable[x]
      BY <1>delete DEF ReleaseDelete, Without, Restrict
    <2>3. /\ \A q \in Pools : \A i \in DOMAIN handles[q] : handles[q][i] # h
          /\ \A k \in Goroutines : k # g => ~Holds(k, h)
      BY <2>1 DEF HandleInv, SoleOwner, Holds
    <2>4. /\ \A x : \A k \in Goroutines : k # g => (HoldsNext(k, x) <=> Holds(k, x))
          /\ \A x : Holds(g, x) <=> x = h
          /\ \A x : ~HoldsNext(g, x)
      BY <2>1 DEF Holds, HoldsNext, Untouched
    <2>5. NoLeak'
      <3>1. \A x \in DOMAIN cgoTable' :
              \/ \E q \in Pools : \E i \in DOMAIN handles'[q] : handles'[q][i] = x
              \/ \E k \in Goroutines : HoldsNext(k, x)
        BY <2>1, <2>2, <2>4 DEF HandleInv, NoLeak, Stores
      <3> QED
        BY <3>1, NoLeakNext
    <2>6. SoleOwner'
      <3>1. \A k \in Goroutines : pc'[k] \in {"acqStore", "relDelete"} =>
              /\ hnd'[k] \in DOMAIN cgoTable'
              /\ \A l \in Goroutines : HoldsNext(l, hnd'[k]) => l = k
        BY <2>1, <2>2, <2>3, <2>4 DEF HandleInv, SoleOwner, Untouched, Holds, HoldsNext
      <3>2. \A q \in Pools : \A i \in DOMAIN handles'[q] :
              /\ handles'[q][i] \in DOMAIN cgoTable'
              /\ \A k \in Goroutines : ~HoldsNext(k, handles'[q][i])
        BY <2>1, <2>2, <2>3, <2>4 DEF HandleInv, SoleOwner
      <3>3. \A q, r \in Pools : \A i \in DOMAIN handles'[q], j \in DOMAIN handles'[r] :
              handles'[q][i] = handles'[r][j] => q = r /\ i = j
        BY <2>1 DEF HandleInv, SoleOwner
      <3> QED
        BY <3>1, <3>2, <3>3, SoleOwnerNext
    <2>7. ValueInv'
      <3>1. DOMAIN cgoTable' \subseteq 1..cgoIdx'
        BY <2>1, <2>2 DEF HandleInv, ValueInv
      <3>2. \A q \in Pools : \A i \in DOMAIN handles'[q] : cgoTable'[handles'[q][i]] = given'[q][i]
        BY <2>1, <2>2, <2>3 DEF HandleInv, ValueInv, SoleOwner
      <3>3. \A k \in Goroutines : pc'[k] = "acqStore" => cgoTable'[hnd'[k]] = val'[k]
        BY <2>1, <2>2, <2>3 DEF HandleInv, ValueInv, SoleOwner, Untouched, Holds
      <3>4. \A k \in Goroutines : pc'[k] = "resValue" => k # g /\ Untouched(k)
        BY <2>1
      <3> QED
        BY <2>1, <2>2, <3>1, <3>2, <3>3, <3>4 DEF HandleInv, ValueInv, Untouched
    <2> QED
      BY <2>5, <2>6, <2>7 DEF HandleInv
  <1> QED
    BY <1>call, <1>lock, <1>full, <1>return, <1>mint, <1>store, <1>hit, <1>rhit, <1>delete
       DEF Advance

LEMMA HandleInvariant == Spec => []HandleInv
  <1>1. Init => HandleInv
    BY DEF Init, HandleInv, NoLeak, SoleOwner, ValueInv, Stores, Holds
  <1> QED
    BY <1>1, TypeCorrect, MutualExclusion, IdentifiersFresh, StepHandle, PTL DEF Spec

\* No cgo handle leaks and none is deleted twice, across all pools.
THEOREM HandlesAreOwned == Spec => []HandlesOwned
  <1>1. HandleInv => HandlesOwned
    BY DEF HandleInv, HandlesOwned
  <1> QED
    BY <1>1, HandleInvariant, PTL

-------------------------------------------------------------------------------
(* What Resolve answers *)

\* Only ResolveValue answers a value; the history of bindings only grows.
LEMMA StepFaithful ==
  TypeOK /\ IdInv /\ HandleInv /\ ResolveFaithful /\ [Next]_vars => ResolveFaithful'
  <1> SUFFICES ASSUME TypeOK, IdInv, HandleInv, ResolveFaithful, [Next]_vars
               PROVE  ResolveFaithful'
    OBVIOUS
  <1>stutter. CASE UNCHANGED vars
    BY <1>stutter DEF ResolveFaithful, vars, poolVars
  <1> SUFFICES ASSUME NEW g \in Goroutines, Call(g) \/ Lock(g) \/ Advance(g)
               PROVE  ResolveFaithful'
    BY <1>stutter DEF Next
  <1>value. CASE ResolveValue(g)
    <2>1. CASE hnd[g] \in DOMAIN cgoTable
      <3>1. out' = Resolved(pool[g], id[g], cgoTable[hnd[g]]) /\ given' = given
        BY <1>value, <2>1, ReturnShape DEF ResolveValue, poolVars
      <3>2. cgoTable[hnd[g]] = given[pool[g]][id[g]] /\ id[g] \in DOMAIN given[pool[g]]
        BY <1>value, <2>1 DEF ResolveValue, HandleInv, ValueInv, IdInv
      <3> QED
        BY <3>1, <3>2 DEF ResolveFaithful, Resolved
    <2>2. CASE hnd[g] \notin DOMAIN cgoTable
      <3>1. out' = Panicked
        BY <1>value, <2>2, ReturnShape DEF ResolveValue
      <3> QED
        BY <3>1 DEF ResolveFaithful, Panicked
    <2> QED
      BY <2>1, <2>2
  <1>quiet. CASE \/ Call(g) \/ Lock(g) \/ AcquireTestFull(g) \/ AcquireTestRoom(g)
                 \/ AcquireMint(g) \/ ResolveHit(g) \/ ReleaseHit(g)
    <2>1. out' = NoResult
      BY <1>quiet DEF Call, CallAcquire, CallResolve, CallRelease, CallLive, Enter, Lock,
         AcquireTestFull, AcquireTestRoom, AcquireMint, ResolveHit, ReleaseHit
    <2> QED
      BY <2>1 DEF ResolveFaithful, NoResult
  <1>other. CASE \/ AcquireExhausted(g) \/ AcquireStore(g) \/ ResolveMiss(g)
                 \/ ReleaseMiss(g) \/ ReleaseDelete(g) \/ LiveRead(g)
    <2>1. out'.kind # "value"
      <3>1. CASE AcquireStore(g)
        BY <3>1, StoreShape
      <3>2. CASE AcquireExhausted(g)
        BY <3>2, ReturnShape DEF AcquireExhausted, Exhausted
      <3>3. CASE ResolveMiss(g) \/ ReleaseMiss(g) \/ LiveRead(g)
        BY <3>3, ReturnShape DEF ResolveMiss, ReleaseMiss, LiveRead, Missed, Released, Counted
      <3>4. CASE ReleaseDelete(g)
        <4>1. out' \in {Released(TRUE), Panicked}
          BY <3>4, ReturnShape DEF ReleaseDelete
        <4> QED
          BY <4>1 DEF Released, Panicked
      <3> QED
        BY <1>other, <3>1, <3>2, <3>3, <3>4
    <2> QED
      BY <2>1 DEF ResolveFaithful
  <1> QED
    BY <1>value, <1>quiet, <1>other DEF Advance

\* Resolve answers with the value its identifier was acquired for.
THEOREM ResolveIsFaithful == Spec => []ResolveFaithful
  <1>1. Init => ResolveFaithful
    BY DEF Init, ResolveFaithful, NoResult
  <1> QED
    BY <1>1, TypeCorrect, IdentifiersFresh, HandleInvariant, StepFaithful, PTL DEF Spec

\* Resolve meets a deleted handle only if its identifier was released since.
THEOREM PanicsOnlyAfterRelease == Spec => []PanicOnlyAfterRelease
  <1>1. TypeOK /\ HandleInv => PanicOnlyAfterRelease
    <2> SUFFICES ASSUME TypeOK, HandleInv, NEW g \in Goroutines, pc[g] = "resValue",
                        id[g] \in DOMAIN handles[pool[g]]
                 PROVE  hnd[g] \in DOMAIN cgoTable
      BY DEF PanicOnlyAfterRelease
    <2>1. pool[g] \in Pools /\ hnd[g] = handles[pool[g]][id[g]]
      BY DEF TypeOK, HandleInv, ValueInv
    <2> QED
      BY <2>1 DEF HandleInv, SoleOwner
  <1> QED
    BY <1>1, TypeCorrect, HandleInvariant, PTL

-------------------------------------------------------------------------------
(* The cap *)

LEMMA InitCap == Init => CapInv
  <1> SUFFICES ASSUME Init PROVE CapInv
    OBVIOUS
  <1>1. \A p \in Pools : Live(p) = 0
    BY FS_EmptySet DEF Init, Live
  <1> QED
    BY <1>1, MaxFacts DEF Init, CapInv, CapRespected

LEMMA StepCap == TypeOK /\ MutexInv /\ CapInv /\ [Next]_vars => CapInv'
  <1> SUFFICES ASSUME TypeOK, MutexInv, CapInv, [Next]_vars PROVE CapInv'
    OBVIOUS
  <1>0. \A p \in Pools : Live(p) \in Nat /\ max[p] \in Int
    BY FS_CardinalityType, MaxFacts DEF TypeOK, Live
  <1>quiet. ASSUME handles' = handles,
                   \A k \in Goroutines : pc'[k] \in {"acqMint", "acqStore"} =>
                     pc[k] \in {"acqMint", "acqStore"} /\ pool'[k] = pool[k]
            PROVE  CapInv'
    BY <1>quiet DEF CapInv, CapRespected, Live
  <1>stutter. CASE UNCHANGED vars
    BY <1>stutter, <1>quiet DEF vars, poolVars, argVars
  <1> SUFFICES ASSUME NEW g \in Goroutines, Call(g) \/ Lock(g) \/ Advance(g)
               PROVE  CapInv'
    BY <1>stutter DEF Next
  <1>call. CASE Call(g)
    <2> PICK step \in Waiting, p \in Pools, i \in Nat, v \in Values \cup {Nil} :
               Enter(g, step, p, i, v)
      BY <1>call, CallEnters
    <2> QED
      BY <1>quiet DEF Enter, Goto, TypeOK, Waiting, poolVars
  <1>lock. CASE Lock(g)
    BY <1>lock, <1>quiet DEF Lock, Goto, AfterLock, TypeOK, Waiting, argVars
  <1>full. CASE AcquireTestFull(g) \/ AcquireMint(g) \/ ResolveHit(g)
    BY <1>full, <1>quiet
       DEF AcquireTestFull, AcquireMint, ResolveHit, Goto, TypeOK, poolVars, argVars
  <1>return. CASE \/ AcquireExhausted(g) \/ ResolveMiss(g) \/ ResolveValue(g)
                  \/ ReleaseMiss(g) \/ ReleaseDelete(g) \/ LiveRead(g)
    <2>1. handles' = handles
      BY <1>return DEF AcquireExhausted, ResolveMiss, ResolveValue, ReleaseMiss, ReleaseDelete,
                       LiveRead, poolVars
    <2>2. pc'[g] = "idle" /\ \A k \in Goroutines : k # g => Untouched(k)
      BY <1>return, ReturnShape
         DEF AcquireExhausted, ResolveMiss, ResolveValue, ReleaseMiss, ReleaseDelete, LiveRead
    <2> QED
      BY <2>1, <2>2, <1>quiet DEF Untouched
  <1>room. CASE AcquireTestRoom(g)
    <2>1. /\ handles' = handles /\ pool[g] \in Pools /\ ~Full(pool[g])
          /\ pool'[g] = pool[g] /\ \A k \in Goroutines : k # g => Untouched(k)
      BY <1>room DEF AcquireTestRoom, Goto, TypeOK, Untouched
    <2>2. max[pool[g]] > 0 => Live(pool[g]) < max[pool[g]]
      BY <1>0, <2>1 DEF Full
    <2> QED
      BY <2>1, <2>2 DEF CapInv, CapRespected, Live, Untouched
  <1>store. CASE AcquireStore(g)
    <2> PICK p, i0 : p = pool[g] /\ i0 = id[g]
      OBVIOUS
    <2>1. /\ pc[g] = "acqStore" /\ p \in Pools /\ pc'[g] = "idle"
          /\ DOMAIN handles'[p] = DOMAIN handles[p] \cup {i0}
          /\ \A q \in Pools : q # p => handles'[q] = handles[q]
          /\ \A k \in Goroutines : k # g => Untouched(k)
      BY <1>store, StoreShape
    <2>2. max[p] > 0 => Live(p) < max[p]
      BY <2>1 DEF CapInv
    <2>3. Cardinality(DOMAIN handles'[p]) \in {Live(p), Live(p) + 1}
      <3>1. IsFiniteSet(DOMAIN handles[p])
        BY <2>1 DEF TypeOK
      <3>2. Cardinality(DOMAIN handles[p] \cup {i0})
              \in {Cardinality(DOMAIN handles[p]), Cardinality(DOMAIN handles[p]) + 1}
        BY <3>1, FS_AddElement
      <3> QED
        BY <2>1, <3>2 DEF Live
    <2>4. \A k \in Goroutines : k # g /\ pc[k] \in {"acqMint", "acqStore"} =>
            pool[k] # p /\ pool[k] \in Pools
      BY <2>1 DEF MutexInv, InSection, TypeOK
    <2>5. CapRespected'
      <3> SUFFICES ASSUME NEW q \in Pools, max[q] > 0
                   PROVE  Cardinality(DOMAIN handles'[q]) <= max[q]
        BY DEF CapRespected, Live
      <3>1. Live(q) \in Nat /\ max[q] \in Int /\ Live(q) <= max[q]
        BY <1>0 DEF CapInv, CapRespected
      <3>2. CASE q = p
        <4>1. Cardinality(DOMAIN handles'[q]) \in {Live(q), Live(q) + 1}
          BY <2>3, <3>2
        <4>2. Live(q) < max[q]
          BY <2>2, <3>2
        <4> QED
          BY <3>1, <4>1, <4>2
      <3>3. CASE q # p
        BY <2>1, <3>1, <3>3 DEF Live
      <3> QED
        BY <3>2, <3>3
    <2> QED
      BY <2>1, <2>4, <2>5 DEF CapInv, Live, Untouched
  <1>rhit. CASE ReleaseHit(g)
    <2> PICK p, i0 : p = pool[g] /\ i0 = id[g]
      OBVIOUS
    <2>1. /\ pc[g] = "relLookup" /\ p \in Pools /\ pc'[g] = "relDelete"
          /\ i0 \in DOMAIN handles[p]
          /\ DOMAIN handles'[p] = DOMAIN handles[p] \ {i0}
          /\ \A q \in Pools : q # p => handles'[q] = handles[q]
          /\ \A k \in Goroutines : k # g => Untouched(k)
      BY <1>rhit, ReleaseShape
    <2>2. Cardinality(DOMAIN handles'[p]) = Live(p) - 1
      <3>1. IsFiniteSet(DOMAIN handles[p])
        BY <2>1 DEF TypeOK
      <3>2. Cardinality(DOMAIN handles[p] \ {i0}) = Cardinality(DOMAIN handles[p]) - 1
        BY <2>1, <3>1, FS_RemoveElement
      <3> QED
        BY <2>1, <3>2 DEF Live
    <2>3. \A k \in Goroutines : k # g /\ pc[k] \in {"acqMint", "acqStore"} =>
            pool[k] # p /\ pool[k] \in Pools
      BY <2>1 DEF MutexInv, InSection, TypeOK
    <2>4. CapRespected'
      <3> SUFFICES ASSUME NEW q \in Pools, max[q] > 0
                   PROVE  Cardinality(DOMAIN handles'[q]) <= max[q]
        BY DEF CapRespected, Live
      <3>1. Live(q) \in Nat /\ max[q] \in Int /\ Live(q) <= max[q]
        BY <1>0 DEF CapInv, CapRespected
      <3>2. CASE q = p
        <4>1. Cardinality(DOMAIN handles'[q]) = Live(q) - 1
          BY <2>2, <3>2
        <4> QED
          BY <3>1, <4>1
      <3>3. CASE q # p
        BY <2>1, <3>1, <3>3 DEF Live
      <3> QED
        BY <3>2, <3>3
    <2> QED
      BY <2>1, <2>3, <2>4 DEF CapInv, Live, Untouched
  <1> QED
    BY <1>call, <1>lock, <1>full, <1>return, <1>room, <1>store, <1>rhit DEF Advance

\* A pool never holds more handles than its cap.
THEOREM CapIsRespected == Spec => []CapRespected
  <1>1. Init => CapInv
    BY InitCap
  <1>2. CapInv => CapRespected
    BY DEF CapInv
  <1> QED
    BY <1>1, <1>2, TypeCorrect, MutualExclusion, StepCap, PTL DEF Spec

\* An Acquire is refused only in a state in which its own pool is at its cap.
THEOREM RefusesOnlyWhenFull == Spec => RefusedOnlyWhenFull
  <1>1. TypeOK /\ CapRespected /\ [Next]_vars =>
          [\A g \in Goroutines :
             pc[g] # "acqFull" /\ pc'[g] = "acqFull" =>
               Cardinality(DOMAIN handles[pool[g]]) = max[pool[g]]]_vars
    <2> SUFFICES ASSUME TypeOK, CapRespected, Next, NEW g \in Goroutines,
                        pc[g] # "acqFull", pc'[g] = "acqFull"
                 PROVE  Cardinality(DOMAIN handles[pool[g]]) = max[pool[g]]
      BY DEF vars
    <2> PICK k \in Goroutines : Call(k) \/ Lock(k) \/ Advance(k)
      BY DEF Next
    <2>1. AcquireTestFull(k) => k = g
      BY DEF AcquireTestFull, Goto, TypeOK
    <2>2. AcquireTestFull(k)
      <3>1. ASSUME NEW r, Return(k, r) PROVE FALSE
        BY <3>1 DEF Return, TypeOK
      <3>2. ASSUME NEW step, Goto(k, step), step # "acqFull" PROVE FALSE
        BY <3>2 DEF Goto, TypeOK
      <3>3. ~Call(k)
        BY <3>2 DEF Call, CallAcquire, CallResolve, CallRelease, CallLive, Enter
      <3>4. ~Lock(k)
        BY <3>2 DEF Lock, AfterLock, Waiting
      <3> QED
        BY <3>1, <3>2, <3>3, <3>4
           DEF Advance, AcquireExhausted, AcquireTestRoom, AcquireMint, AcquireStore, ResolveHit,
               ResolveMiss, ResolveValue, ReleaseHit, ReleaseMiss, ReleaseDelete, LiveRead
    <2>3. pool[g] \in Pools /\ Full(pool[g])
      BY <2>1, <2>2 DEF AcquireTestFull, TypeOK
    <2>4. Live(pool[g]) \in Nat /\ max[pool[g]] \in Int
      BY <2>3, FS_CardinalityType, MaxFacts DEF TypeOK, Live
    <2> QED
      BY <2>3, <2>4 DEF Full, CapRespected, Live
  <1> QED
    BY <1>1, TypeCorrect, CapIsRespected, PTL DEF Spec, RefusedOnlyWhenFull

-------------------------------------------------------------------------------
(* Refinement of HandlePoolSpec *)

\* The identifiers drawn and the Acquires that may still draw one stay in bound.
BoundInv == \A p \in Pools : nextID[p] + Cardinality(Acquiring(p)) <= IDLimit[p]

LEMMA AcquiringFinite ==
  \A p : IsFiniteSet(Acquiring(p)) /\ Cardinality(Acquiring(p)) \in Nat
  <1> TAKE p
  <1>1. Acquiring(p) \subseteq Goroutines
    BY DEF Acquiring
  <1> QED
    BY <1>1, GoroutinesAssumption, FS_Subset, FS_CardinalityType

LEMMA StepBound == TypeOK /\ BoundInv /\ [Next]_vars => BoundInv'
  <1> SUFFICES ASSUME TypeOK, BoundInv, [Next]_vars, NEW p \in Pools
               PROVE  nextID'[p] + Cardinality(Acquiring(p)') <= IDLimit[p]
    BY DEF BoundInv
  <1>0. /\ nextID[p] \in Nat /\ IDLimit[p] \in Nat /\ Cardinality(Acquiring(p)) \in Nat
        /\ IsFiniteSet(Acquiring(p))
        /\ nextID[p] + Cardinality(Acquiring(p)) <= IDLimit[p]
    BY AcquiringFinite, IDLimitAssumption DEF TypeOK, BoundInv
  <1>same. ASSUME nextID' = nextID, Acquiring(p)' = Acquiring(p)
           PROVE  nextID'[p] + Cardinality(Acquiring(p)') <= IDLimit[p]
    BY <1>0, <1>same
  <1>stutter. CASE UNCHANGED vars
    BY <1>stutter, <1>same DEF vars, poolVars, argVars, Acquiring
  <1> SUFFICES ASSUME NEW g \in Goroutines, Call(g) \/ Lock(g) \/ Advance(g)
               PROVE  nextID'[p] + Cardinality(Acquiring(p)') <= IDLimit[p]
    BY <1>stutter DEF Next
  <1>acquire. ASSUME NEW q \in Pools, NEW v \in Values, CallAcquire(g, q, v)
              PROVE  nextID'[p] + Cardinality(Acquiring(p)') <= IDLimit[p]
    <2>1. /\ pc[g] = "idle" /\ pc'[g] = "acqLock" /\ pool'[g] = q /\ nextID' = nextID
          /\ \A k \in Goroutines : k # g => Untouched(k)
      BY <1>acquire DEF CallAcquire, Enter, Goto, TypeOK, Untouched, poolVars
    <2>2. CASE q = p
      <3>1. Acquiring(p)' = Acquiring(p) \cup {g} /\ g \notin Acquiring(p)
        BY <2>1, <2>2 DEF Acquiring, Untouched
      <3>2. Cardinality(Acquiring(p)') = Cardinality(Acquiring(p)) + 1
        BY <1>0, <3>1, FS_AddElement
      <3>3. nextID[p] + Cardinality(Acquiring(p)) < IDLimit[p]
        BY <1>acquire, <2>2 DEF CallAcquire
      <3> QED
        BY <1>0, <2>1, <3>2, <3>3
    <2>3. CASE q # p
      <3>1. Acquiring(p)' = Acquiring(p)
        BY <2>1, <2>3 DEF Acquiring, Untouched
      <3> QED
        BY <2>1, <3>1, <1>same
    <2> QED
      BY <2>2, <2>3
  <1>call. ASSUME NEW step \in {"resLock", "relLock", "liveLock"}, NEW q \in Pools, NEW i \in Nat,
                  Enter(g, step, q, i, Nil)
           PROVE  nextID'[p] + Cardinality(Acquiring(p)') <= IDLimit[p]
    <2>1. /\ pc[g] = "idle" /\ pc'[g] = step /\ nextID' = nextID
          /\ \A k \in Goroutines : k # g => Untouched(k)
      BY <1>call DEF Enter, Goto, TypeOK, Untouched, poolVars
    <2>2. Acquiring(p)' = Acquiring(p)
      BY <2>1 DEF Acquiring, Untouched
    <2> QED
      BY <2>1, <2>2, <1>same
  <1>lock. CASE Lock(g)
    <2>1. /\ pc[g] \in Waiting /\ pool'[g] = pool[g] /\ nextID' = nextID
          /\ pc'[g] = "acqTest" <=> pc[g] = "acqLock"
          /\ pc'[g] # "acqLock" /\ pc[g] # "acqTest"
          /\ \A k \in Goroutines : k # g => Untouched(k)
      BY <1>lock DEF Lock, Goto, AfterLock, Waiting, TypeOK, Untouched, argVars
    <2>2. Acquiring(p)' = Acquiring(p)
      BY <2>1 DEF Acquiring, Untouched
    <2> QED
      BY <2>1, <2>2, <1>same
  <1>room. CASE AcquireTestRoom(g)
    <2>1. /\ pc[g] = "acqTest" /\ pc'[g] = "acqMint" /\ pool[g] \in Pools
          /\ nextID'[pool[g]] = nextID[pool[g]] + 1
          /\ \A q \in Pools : q # pool[g] => nextID'[q] = nextID[q]
          /\ \A k \in Goroutines : k # g => Untouched(k)
      BY <1>room DEF AcquireTestRoom, Goto, TypeOK, Untouched
    <2>2. CASE pool[g] = p
      <3>1. Acquiring(p)' = Acquiring(p) \ {g} /\ g \in Acquiring(p)
        BY <2>1, <2>2 DEF Acquiring, Untouched
      <3>2. Cardinality(Acquiring(p)') = Cardinality(Acquiring(p)) - 1
        BY <1>0, <3>1, FS_RemoveElement
      <3>3. nextID'[p] = nextID[p] + 1
        BY <2>1, <2>2
      <3> QED
        BY <1>0, <3>2, <3>3
    <2>3. CASE pool[g] # p
      <3>1. Acquiring(p)' = Acquiring(p)
        BY <2>1, <2>3 DEF Acquiring, Untouched
      <3> QED
        BY <1>0, <2>1, <2>3, <3>1
    <2> QED
      BY <2>2, <2>3
  <1>full. CASE AcquireTestFull(g)
    <2>1. /\ pc'[g] = "acqFull" /\ nextID' = nextID
          /\ \A k \in Goroutines : k # g => Untouched(k)
      BY <1>full DEF AcquireTestFull, Goto, TypeOK, Untouched, argVars
    <2>2. Acquiring(p)' = Acquiring(p) \ {g}
      BY <2>1 DEF Acquiring, Untouched
    <2>3. Cardinality(Acquiring(p)') <= Cardinality(Acquiring(p)) /\ Cardinality(Acquiring(p)') \in Nat
      <3>1. \/ Acquiring(p) \ {g} = Acquiring(p)
            \/ Cardinality(Acquiring(p) \ {g}) = Cardinality(Acquiring(p)) - 1
        BY <1>0, FS_RemoveElement
      <3>2. IsFiniteSet(Acquiring(p) \ {g})
        BY <1>0, FS_RemoveElement
      <3>3. Cardinality(Acquiring(p) \ {g}) \in Nat
        BY <3>2, FS_CardinalityType
      <3> QED
        BY <1>0, <2>2, <3>1, <3>3
    <2> QED
      BY <1>0, <2>1, <2>3
  <1>rest. CASE \/ AcquireExhausted(g) \/ AcquireMint(g) \/ AcquireStore(g) \/ ResolveHit(g)
                \/ ResolveMiss(g) \/ ResolveValue(g) \/ ReleaseHit(g) \/ ReleaseMiss(g)
                \/ ReleaseDelete(g) \/ LiveRead(g)
    <2>1. /\ pc[g] \notin {"acqLock", "acqTest"} /\ nextID' = nextID
          /\ pc'[g] \notin {"acqLock", "acqTest"}
          /\ \A k \in Goroutines : k # g => Untouched(k)
      <3>1. CASE AcquireMint(g) \/ ResolveHit(g)
        BY <3>1 DEF AcquireMint, ResolveHit, Goto, TypeOK, Untouched, poolVars, argVars
      <3>2. CASE ReleaseHit(g)
        BY <3>2, ReleaseShape
      <3>3. CASE AcquireStore(g)
        BY <3>3, StoreShape
      <3>4. CASE \/ AcquireExhausted(g) \/ ResolveMiss(g) \/ ResolveValue(g)
                 \/ ReleaseMiss(g) \/ ReleaseDelete(g) \/ LiveRead(g)
        BY <3>4, ReturnShape
           DEF AcquireExhausted, ResolveMiss, ResolveValue, ReleaseMiss, ReleaseDelete,
               LiveRead, poolVars
      <3> QED
        BY <1>rest, <3>1, <3>2, <3>3, <3>4
    <2>2. Acquiring(p)' = Acquiring(p)
      BY <2>1 DEF Acquiring, Untouched
    <2> QED
      BY <2>1, <2>2, <1>same
  <1>calls. CASE Call(g)
    BY <1>calls, <1>acquire, <1>call DEF Call, CallAcquire, CallResolve, CallRelease, CallLive
  <1> QED
    BY <1>calls, <1>lock, <1>room, <1>full, <1>rest DEF Advance

\* What the refinement needs of a reachable state.
RefInv == TypeOK /\ MutexInv /\ IdInv /\ CapInv /\ BoundInv

LEMMA InitRefines == Init => Abstract!SpecInit
  BY DEF Init, Abstract!SpecInit

\* Storing a fresh handle binds its identifier; taking one out unbinds it; no
\* other step is visible to the specification.
LEMMA StepRefines == RefInv /\ [Next]_vars => [Abstract!SpecNext]_(Abstract!specVars)
  <1> SUFFICES ASSUME RefInv, [Next]_vars
               PROVE  [Abstract!SpecNext]_(Abstract!specVars)
    OBVIOUS
  <1> USE DEF RefInv
  <1>quiet. ASSUME handles' = handles, given' = given
            PROVE  Abstract!specVars' = Abstract!specVars
    BY <1>quiet DEF Abstract!specVars
  <1>stutter. CASE UNCHANGED vars
    BY <1>stutter, <1>quiet DEF vars, poolVars
  <1> SUFFICES ASSUME NEW g \in Goroutines, Call(g) \/ Lock(g) \/ Advance(g)
               PROVE  [Abstract!SpecNext]_(Abstract!specVars)
    BY <1>stutter DEF Next
  <1>other. CASE \/ Call(g) \/ Lock(g) \/ AcquireTestFull(g) \/ AcquireExhausted(g)
                 \/ AcquireTestRoom(g) \/ AcquireMint(g) \/ ResolveHit(g) \/ ResolveMiss(g)
                 \/ ResolveValue(g) \/ ReleaseMiss(g) \/ ReleaseDelete(g) \/ LiveRead(g)
    <2>1. handles' = handles /\ given' = given
      BY <1>other DEF Call, CallAcquire, CallResolve, CallRelease, CallLive, Enter, Lock,
         AcquireTestFull, AcquireExhausted, AcquireTestRoom, AcquireMint, ResolveHit,
         ResolveMiss, ResolveValue, ReleaseMiss, ReleaseDelete, LiveRead, poolVars
    <2> QED
      BY <2>1, <1>quiet
  <1>store. CASE AcquireStore(g)
    <2> PICK p, i, v : p = pool[g] /\ i = id[g] /\ v = val[g]
      OBVIOUS
    <2>1. /\ p \in Pools /\ v \in Values
          /\ i = nextID[p] /\ i \in 1..nextID[p] /\ i \notin DOMAIN given[p]
          /\ max[p] > 0 => Live(p) < max[p]
      BY <1>store DEF AcquireStore, TypeOK, IdInv, CapInv
    <2>2. i \in 1..IDLimit[p]
      BY <2>1, AcquiringFinite, IDLimitAssumption DEF BoundInv, TypeOK
    <2>3. /\ handles' = [handles EXCEPT ![p] = Put(handles[p], i, hnd[g])]
          /\ given' = [given EXCEPT ![p] = Put(given[p], i, v)]
      BY <1>store DEF AcquireStore
    <2>4. [q \in Pools |-> DOMAIN handles[q]]'
            = [[q \in Pools |-> DOMAIN handles[q]] EXCEPT ![p] = DOMAIN handles[p] \cup {i}]
      BY <2>1, <2>3 DEF TypeOK, Put
    <2>5. Abstract!HasRoom(p)
      BY <2>1 DEF Abstract!HasRoom, Live, Abstract!Cardinality, Cardinality
    <2>6. Abstract!Bind(p, i, v)
      BY <2>1, <2>3, <2>4, <2>5 DEF Abstract!Bind, Put
    <2> QED
      BY <2>1, <2>2, <2>6 DEF Abstract!SpecNext
  <1>release. CASE ReleaseHit(g)
    <2> PICK p, i : p = pool[g] /\ i = id[g]
      OBVIOUS
    <2>1. p \in Pools /\ i \in DOMAIN handles[p] /\ given' = given
      BY <1>release DEF ReleaseHit, TypeOK
    <2>2. i \in 1..IDLimit[p]
      BY <2>1, AcquiringFinite, IDLimitAssumption DEF BoundInv, IdInv, TypeOK
    <2>3. handles' = [handles EXCEPT ![p] = Without(handles[p], i)]
      BY <1>release DEF ReleaseHit
    <2>4. [q \in Pools |-> DOMAIN handles[q]]'
            = [[q \in Pools |-> DOMAIN handles[q]] EXCEPT ![p] = DOMAIN handles[p] \ {i}]
      BY <2>1, <2>3 DEF TypeOK, Without, Restrict
    <2>5. Abstract!Unbind(p, i)
      BY <2>1, <2>4 DEF Abstract!Unbind
    <2> QED
      BY <2>1, <2>2, <2>5 DEF Abstract!SpecNext
  <1> QED
    BY <1>other, <1>store, <1>release DEF Advance

\* The pools implement bounded maps in which no identifier is bound twice.
THEOREM RefinesSpec == Spec => ImplementsSpec
  <1>1. Init => CapInv
    BY InitCap
  <1>2. Init => BoundInv
    <2> SUFFICES ASSUME Init, NEW p \in Pools
                 PROVE  nextID[p] + Cardinality(Acquiring(p)) <= IDLimit[p]
      BY DEF BoundInv
    <2>1. Acquiring(p) = {}
      BY DEF Init, Acquiring
    <2> QED
      BY <2>1, FS_EmptySet, IDLimitAssumption DEF Init
  <1>3. Spec => []RefInv
    BY <1>1, <1>2, TypeCorrect, MutualExclusion, IdentifiersFresh, StepCap, StepBound, PTL
       DEF Spec, RefInv
  <1> QED
    BY <1>3, InitRefines, StepRefines, PTL DEF Spec, ImplementsSpec, Abstract!PoolSpec

===============================================================================

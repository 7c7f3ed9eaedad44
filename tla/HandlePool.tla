------------------------------ MODULE HandlePool ------------------------------
(***************************************************************************)
(* goroutine.HandlePool (goroutine/goroutine.go): pools of runtime/cgo     *)
(* handles keyed by opaque identifiers, called by concurrent goroutines.   *)
(*                                                                         *)
(* Every method locks the pool's mutex, touches the map, and unlocks; some *)
(* go on after the unlock.  A method is the sequence of its steps between  *)
(* which another goroutine may run: taking the mutex, the reads and writes *)
(* made under it (the last of them with the unlock), and what follows the  *)
(* unlock.  The table of runtime/cgo handles is one per process and is     *)
(* shared by all pools.                                                    *)
(***************************************************************************)
EXTENDS Integers, FiniteSets, Functions

CONSTANTS
  Goroutines,         \* the concurrent callers
  Pools,              \* one pool per wrapper module
  Values,             \* the Go values callers bind
  Nil,                \* no pool, no value, no owner
  MaxArg,             \* [Pools -> Int]: the argument of NewHandlePool
  DefaultMaxHandles,  \* the cap an argument of 0 picks
  IDLimit             \* bound: [Pools -> Nat], identifiers a pool mints in a behaviour

ASSUME NilAssumption == Nil \notin Goroutines \cup Pools \cup Values
ASSUME CapAssumption ==
  /\ MaxArg \in [Pools -> Int]
  /\ DefaultMaxHandles \in Nat \ {0}
ASSUME IDLimitAssumption == IDLimit \in [Pools -> Nat]
ASSUME GoroutinesAssumption == IsFiniteSet(Goroutines)

VARIABLES
  nextID,     \* nextID[p]
  handles,    \* handles[p]: identifier -> cgo handle, a partial function
  mu,         \* mu[p]: the goroutine that holds the mutex, or Nil
  cgoIdx,     \* runtime/cgo: the last handle minted
  cgoTable,   \* runtime/cgo: the live handles, each with its value
  pc,         \* pc[g]: the step g takes next
  pool, id, val, hnd,   \* g's receiver, arguments and local h
  out,        \* the answer of the call that returned in the last step, if one did
  given       \* history: every binding a pool ever stored

poolVars == <<nextID, handles, mu, given>>
cgoVars  == <<cgoIdx, cgoTable>>
argVars  == <<pool, id, val>>
vars     == <<poolVars, cgoVars, pc, argVars, hnd, out>>

-------------------------------------------------------------------------------
(* Helpers *)

\* NewHandlePool: 0 picks the default, a negative argument disables the cap.
max == [p \in Pools |-> IF MaxArg[p] = 0 THEN DefaultMaxHandles ELSE MaxArg[p]]

Put(f, k, x) == [j \in DOMAIN f \cup {k} |-> IF j = k THEN x ELSE f[j]]
Without(f, k) == Restrict(f, DOMAIN f \ {k})
Live(p) == Cardinality(DOMAIN handles[p])

Waiting == {"acqLock", "resLock", "relLock", "liveLock"}
InSection == {"acqTest", "acqMint", "acqStore", "resLookup", "relLookup", "liveRead"}
AfterUnlock == {"acqFull", "resValue", "relDelete"}

AfterLock ==
  [acqLock |-> "acqTest", resLock |-> "resLookup",
   relLock |-> "relLookup", liveLock |-> "liveRead"]

\* A method returns result r to its caller.
Return(g, r) ==
  /\ pc'   = [pc EXCEPT ![g] = "idle"]
  /\ pool' = [pool EXCEPT ![g] = Nil]
  /\ id'   = [id EXCEPT ![g] = 0]
  /\ val'  = [val EXCEPT ![g] = Nil]
  /\ hnd'  = [hnd EXCEPT ![g] = 0]
  /\ out'  = r

Goto(g, step) == pc' = [pc EXCEPT ![g] = step]
Unlock(p)     == mu' = [mu EXCEPT ![p] = Nil]

NoResult          == [kind |-> "none"]
Acquired(p, i, v) == [kind |-> "id", pool |-> p, id |-> i, value |-> v]
Exhausted(p, n)   == [kind |-> "exhausted", pool |-> p, live |-> n]
Resolved(p, i, v) == [kind |-> "value", pool |-> p, id |-> i, value |-> v]
Missed            == [kind |-> "missed"]
Released(ok)      == [kind |-> "released", ok |-> ok]
Counted(n)        == [kind |-> "live", live |-> n]
Panicked          == [kind |-> "panic"]

Results ==
  [kind : {"none", "missed", "panic"}]
    \cup [kind : {"id", "value"}, pool : Pools, id : Nat, value : Values]
    \cup [kind : {"exhausted"}, pool : Pools, live : Nat]
    \cup [kind : {"released"}, ok : BOOLEAN]
    \cup [kind : {"live"}, live : Nat]

Acquiring(p) ==
  {g \in Goroutines : pool[g] = p /\ pc[g] \in {"acqLock", "acqTest"}}
-------------------------------------------------------------------------------
(* Initial state: NewHandlePool made every pool, nobody called yet. *)

Init ==
  /\ nextID   = [p \in Pools |-> 0]
  /\ handles  = [p \in Pools |-> [i \in {} |-> 0]]
  /\ mu       = [p \in Pools |-> Nil]
  /\ cgoIdx   = 0
  /\ cgoTable = [h \in {} |-> Nil]
  /\ pc       = [g \in Goroutines |-> "idle"]
  /\ pool     = [g \in Goroutines |-> Nil]
  /\ id       = [g \in Goroutines |-> 0]
  /\ val      = [g \in Goroutines |-> Nil]
  /\ hnd      = [g \in Goroutines |-> 0]
  /\ out      = NoResult
  /\ given    = [p \in Pools |-> [i \in {} |-> Nil]]

-------------------------------------------------------------------------------
(* Calls: a goroutine enters a method with any arguments a caller has. *)

Enter(g, step, p, i, v) ==
  /\ pc[g] = "idle"
  /\ Goto(g, step)
  /\ pool' = [pool EXCEPT ![g] = p]
  /\ id'   = [id EXCEPT ![g] = i]
  /\ val'  = [val EXCEPT ![g] = v]
  /\ out'  = NoResult
  /\ UNCHANGED <<poolVars, cgoVars, hnd>>

CallAcquire(g, p, v) ==
  /\ nextID[p] + Cardinality(Acquiring(p)) < IDLimit[p]
  /\ Enter(g, "acqLock", p, 0, v)
CallResolve(g, p, i) == Enter(g, "resLock", p, i, Nil)
CallRelease(g, p, i) == Enter(g, "relLock", p, i, Nil)
CallLive(g, p)       == Enter(g, "liveLock", p, 0, Nil)

\* p.mu.Lock()
Lock(g) ==
  /\ pc[g] \in Waiting
  /\ mu[pool[g]] = Nil
  /\ mu' = [mu EXCEPT ![pool[g]] = g]
  /\ Goto(g, AfterLock[pc[g]])
  /\ out' = NoResult
  /\ UNCHANGED <<nextID, handles, given, cgoVars, argVars, hnd>>

-------------------------------------------------------------------------------
(* Acquire *)

\* Faulty variants of the cap test: off by one, and one cap for the process.
FullOffByOne(p) == max[p] > 0 /\ Live(p) > max[p]
FullForProcess(p) == max[p] > 0 /\ \E q \in Pools : Live(q) >= max[p]

Full(p) == max[p] > 0 /\ Live(p) >= max[p]

\* The cap test; at the cap the mutex is released before the message is built.
AcquireTestFull(g) ==
  /\ pc[g] = "acqTest"
  /\ Full(pool[g])
  /\ Unlock(pool[g])
  /\ Goto(g, "acqFull")
  /\ out' = NoResult
  /\ UNCHANGED <<nextID, handles, given, cgoVars, argVars, hnd>>

\* The error message reads len(p.handles) with the mutex released: a racy load
\* of one word, which finds the count of that moment.
AcquireExhausted(g) ==
  /\ pc[g] = "acqFull"
  /\ Return(g, Exhausted(pool[g], Live(pool[g])))
  /\ UNCHANGED <<poolVars, cgoVars>>

\* Faulty: id := p.nextID + 1, never written back.
AcquireRoomNotCounted(g) ==
  /\ pc[g] = "acqTest"
  /\ ~Full(pool[g])
  /\ id' = [id EXCEPT ![g] = nextID[pool[g]] + 1]
  /\ Goto(g, "acqMint")
  /\ out' = NoResult
  /\ UNCHANGED <<poolVars, cgoVars, pool, val, hnd>>

\* p.nextID++; id := p.nextID
AcquireTestRoom(g) ==
  /\ pc[g] = "acqTest"
  /\ ~Full(pool[g])
  /\ nextID' = [nextID EXCEPT ![pool[g]] = @ + 1]
  /\ id'     = [id EXCEPT ![g] = nextID[pool[g]] + 1]
  /\ Goto(g, "acqMint")
  /\ out' = NoResult
  /\ UNCHANGED <<handles, mu, given, cgoVars, pool, val, hnd>>

\* Faulty: the handle is minted for nil instead of v.
AcquireMintNil(g) ==
  /\ pc[g] = "acqMint"
  /\ cgoIdx'   = cgoIdx + 1
  /\ cgoTable' = Put(cgoTable, cgoIdx + 1, Nil)
  /\ hnd'      = [hnd EXCEPT ![g] = cgoIdx + 1]
  /\ Goto(g, "acqStore")
  /\ out' = NoResult
  /\ UNCHANGED <<poolVars, argVars>>

\* h := cgo.NewHandle(v): a handle number no one had before.
AcquireMint(g) ==
  /\ pc[g] = "acqMint"
  /\ cgoIdx'   = cgoIdx + 1
  /\ cgoTable' = Put(cgoTable, cgoIdx + 1, val[g])
  /\ hnd'      = [hnd EXCEPT ![g] = cgoIdx + 1]
  /\ Goto(g, "acqStore")
  /\ out' = NoResult
  /\ UNCHANGED <<poolVars, argVars>>

\* p.handles[id] = h; p.mu.Unlock(); return id, nil
AcquireStore(g) ==
  /\ pc[g] = "acqStore"
  /\ LET p == pool[g] IN
       /\ handles' = [handles EXCEPT ![p] = Put(@, id[g], hnd[g])]
       /\ given'   = [given EXCEPT ![p] = Put(@, id[g], val[g])]
       /\ Unlock(p)
       /\ Return(g, Acquired(p, id[g], val[g]))
  /\ UNCHANGED <<nextID, cgoVars>>

-------------------------------------------------------------------------------
(* Resolve *)

\* h, ok := p.handles[id]; p.mu.Unlock()
ResolveHit(g) ==
  /\ pc[g] = "resLookup"
  /\ id[g] \in DOMAIN handles[pool[g]]
  /\ hnd' = [hnd EXCEPT ![g] = handles[pool[g]][id[g]]]
  /\ Unlock(pool[g])
  /\ Goto(g, "resValue")
  /\ out' = NoResult
  /\ UNCHANGED <<nextID, handles, given, cgoVars, argVars>>

\* Faulty: the early return forgets to unlock.
ResolveMissLocked(g) ==
  /\ pc[g] = "resLookup"
  /\ id[g] \notin DOMAIN handles[pool[g]]
  /\ Return(g, Missed)
  /\ UNCHANGED <<poolVars, cgoVars>>

ResolveMiss(g) ==
  /\ pc[g] = "resLookup"
  /\ id[g] \notin DOMAIN handles[pool[g]]
  /\ Unlock(pool[g])
  /\ Return(g, Missed)
  /\ UNCHANGED <<nextID, handles, given, cgoVars>>

\* h.Value(), without the mutex: it panics when h was deleted meanwhile.
ResolveValue(g) ==
  /\ pc[g] = "resValue"
  /\ Return(g, IF hnd[g] \in DOMAIN cgoTable
                 THEN Resolved(pool[g], id[g], cgoTable[hnd[g]])
                 ELSE Panicked)
  /\ UNCHANGED <<poolVars, cgoVars>>

-------------------------------------------------------------------------------
(* Release *)

\* Faulty: the entry stays in the map.
ReleaseHitKept(g) ==
  /\ pc[g] = "relLookup"
  /\ id[g] \in DOMAIN handles[pool[g]]
  /\ hnd' = [hnd EXCEPT ![g] = handles[pool[g]][id[g]]]
  /\ Unlock(pool[g])
  /\ Goto(g, "relDelete")
  /\ out' = NoResult
  /\ UNCHANGED <<nextID, handles, given, cgoVars, argVars>>

\* h, ok := p.handles[id]; delete(p.handles, id); p.mu.Unlock()
ReleaseHit(g) ==
  /\ pc[g] = "relLookup"
  /\ LET p == pool[g] IN
       /\ id[g] \in DOMAIN handles[p]
       /\ hnd' = [hnd EXCEPT ![g] = handles[p][id[g]]]
       /\ handles' = [handles EXCEPT ![p] = Without(@, id[g])]
       /\ Unlock(p)
  /\ Goto(g, "relDelete")
  /\ out' = NoResult
  /\ UNCHANGED <<nextID, given, cgoVars, argVars>>

ReleaseMiss(g) ==
  /\ pc[g] = "relLookup"
  /\ id[g] \notin DOMAIN handles[pool[g]]
  /\ Unlock(pool[g])
  /\ Return(g, Released(FALSE))
  /\ UNCHANGED <<nextID, handles, given, cgoVars>>

\* Faulty: h.Delete() is forgotten.
ReleaseNoDelete(g) ==
  /\ pc[g] = "relDelete"
  /\ Return(g, Released(TRUE))
  /\ UNCHANGED <<poolVars, cgoVars>>

\* h.Delete(), without the mutex: it panics when h is not live.
ReleaseDelete(g) ==
  /\ pc[g] = "relDelete"
  /\ cgoTable' = Without(cgoTable, hnd[g])
  /\ Return(g, IF hnd[g] \in DOMAIN cgoTable THEN Released(TRUE) ELSE Panicked)
  /\ UNCHANGED <<poolVars, cgoIdx>>

-------------------------------------------------------------------------------
(* Live *)

LiveRead(g) ==
  /\ pc[g] = "liveRead"
  /\ Unlock(pool[g])
  /\ Return(g, Counted(Live(pool[g])))
  /\ UNCHANGED <<nextID, handles, given, cgoVars>>

-------------------------------------------------------------------------------
Call(g) ==
  \E p \in Pools :
    \/ \E v \in Values : CallAcquire(g, p, v)
    \/ \E i \in 1..IDLimit[p] : CallResolve(g, p, i) \/ CallRelease(g, p, i)
    \/ CallLive(g, p)

\* The steps a goroutine inside a method takes.
Advance(g) ==
  \/ AcquireTestFull(g)
  \/ AcquireExhausted(g)
  \/ AcquireTestRoom(g)
  \/ AcquireMint(g)
  \/ AcquireStore(g)
  \/ ResolveHit(g)
  \/ ResolveMiss(g)
  \/ ResolveValue(g)
  \/ ReleaseHit(g)
  \/ ReleaseMiss(g)
  \/ ReleaseDelete(g)
  \/ LiveRead(g)

Next == \E g \in Goroutines : Call(g) \/ Lock(g) \/ Advance(g)

\* A runnable goroutine is scheduled, and sync.Mutex hands itself to a starving
\* waiter (its starvation mode), so a wait is strongly fair; calls are not fair.
Fairness == \A g \in Goroutines : WF_vars(Advance(g)) /\ SF_vars(Lock(g))

Spec == Init /\ [][Next]_vars
FairSpec == Spec /\ Fairness

-------------------------------------------------------------------------------
(* Properties *)

\* The shape of the state: partial maps from identifiers to handles and from
\* handles to values, and every method's locals, as goroutine.go declares them.
TypeOK ==
  /\ nextID \in [Pools -> Nat]
  /\ DOMAIN handles = Pools
  /\ \A p \in Pools :
       /\ handles[p] \in [DOMAIN handles[p] -> Nat]
       /\ DOMAIN handles[p] \subseteq Nat
       /\ IsFiniteSet(DOMAIN handles[p])
  /\ mu \in [Pools -> Goroutines \cup {Nil}]
  /\ cgoIdx \in Nat
  /\ DOMAIN cgoTable \subseteq Nat
  /\ cgoTable \in [DOMAIN cgoTable -> Values]
  /\ pc \in [Goroutines -> {"idle"} \cup Waiting \cup InSection \cup AfterUnlock]
  /\ pool \in [Goroutines -> Pools \cup {Nil}]
  /\ id \in [Goroutines -> Nat]
  /\ val \in [Goroutines -> Values \cup {Nil}]
  /\ hnd \in [Goroutines -> Nat]
  /\ out \in Results
  /\ DOMAIN given = Pools
  /\ \A p \in Pools :
       /\ DOMAIN given[p] \subseteq Nat
       /\ given[p] \in [DOMAIN given[p] -> Values]
  /\ \A g \in Goroutines :
       /\ pc[g] # "idle" => pool[g] \in Pools
       /\ pc[g] \in {"acqLock", "acqTest", "acqMint", "acqStore"} => val[g] \in Values

\* The soft cap of NewHandlePool bounds the handles a pool holds however its
\* callers interleave: the test and the store are two steps of Acquire.
CapRespected == \A p \in Pools : max[p] > 0 => Live(p) <= max[p]

\* Who has to see to it that handle h is deleted: the pool entry that stores
\* it, the Acquire that is about to store it, the Release about to delete it.
Stores(p, i, h) == i \in DOMAIN handles[p] /\ handles[p][i] = h
Holds(g, h)     == pc[g] \in {"acqStore", "relDelete"} /\ hnd[g] = h

\* Leak-free: every live cgo handle is somebody's to delete.
NoLeak ==
  \A h \in DOMAIN cgoTable :
    \/ \E p \in Pools : \E i \in DOMAIN handles[p] : Stores(p, i, h)
    \/ \E g \in Goroutines : Holds(g, h)

\* Deleted once: what somebody is to delete is live and nobody else's to delete
\* (a second Delete panics), across all pools of the process.
SoleOwner ==
  /\ \A p \in Pools : \A i \in DOMAIN handles[p] :
       /\ handles[p][i] \in DOMAIN cgoTable
       /\ \A q \in Pools : \A j \in DOMAIN handles[q] :
            handles[p][i] = handles[q][j] => p = q /\ i = j
       /\ \A g \in Goroutines : ~Holds(g, handles[p][i])
  /\ \A g \in Goroutines : pc[g] \in {"acqStore", "relDelete"} =>
       /\ hnd[g] \in DOMAIN cgoTable
       /\ \A k \in Goroutines : Holds(k, hnd[g]) => k = g

\* No cgo handle leaks and none is deleted twice.
HandlesOwned == NoLeak /\ SoleOwner

\* Resolve answers with the value its identifier was acquired for, even when
\* a Release of the identifier and other Acquires ran between its lookup and
\* its read of the handle.
ResolveFaithful ==
  out.kind = "value" =>
    /\ out.id \in DOMAIN given[out.pool]
    /\ out.value = given[out.pool][out.id]

\* Resolve reads a deleted handle (and panics) only when a Release took its
\* identifier out of the pool after the lookup: a live identifier resolves.
PanicOnlyAfterRelease ==
  \A g \in Goroutines :
    pc[g] = "resValue" /\ hnd[g] \notin DOMAIN cgoTable =>
      id[g] \notin DOMAIN handles[pool[g]]

\* Acquire of one pool is never refused because of another pool's handles: a
\* refusal was decided while the pool itself was at its cap (one step ago it
\* held max[p] entries under its own mutex).
RefusedOnlyWhenFull ==
  [][\A g \in Goroutines :
       pc[g] # "acqFull" /\ pc'[g] = "acqFull" =>
         Cardinality(DOMAIN handles[pool[g]]) = max[pool[g]]]_vars

\* The pools implement maps whose identifiers are bound once.
Abstract == INSTANCE HandlePoolSpec
  WITH Capacity <- max, Ids <- [p \in Pools |-> 1..IDLimit[p]],
       live <- [p \in Pools |-> DOMAIN handles[p]]
ImplementsSpec == Abstract!PoolSpec

\* Every call returns: no interleaving of Acquire, Resolve, Release and Live
\* leaves a goroutine waiting for a mutex for ever.
EveryCallReturns == \A g \in Goroutines : pc[g] # "idle" ~> pc[g] = "idle"

===============================================================================

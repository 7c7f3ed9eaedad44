------------------------------ MODULE ChannelShim ------------------------------
(***************************************************************************)
(* The runtime that goroutine.RenderRuntime, RenderChannelShim and         *)
(* RenderCallbackShim emit into a wrapper module (goroutine/goroutine.go): *)
(* channels and callbacks cross the cgo boundary as handle identifiers,    *)
(* and each exported _new, _send, _recv, _close, _call and _release first  *)
(* resolves or releases its identifier.                                    *)
(*                                                                         *)
(* A critical section of the emitted pool is one step here (HandlePool     *)
(* models the mutex); what follows the unlock is a step of its own.  An    *)
(* identifier also stands for its cgo handle and for the channel or        *)
(* function behind it: all are drawn together and never change.  Elements  *)
(* are only counted.  A panic in an exported function ends the process.    *)
(***************************************************************************)
EXTENDS Integers, FiniteSets

CONSTANTS
  Threads,        \* the Mochi threads that call the exported functions
  BufferSize,     \* ChannelShim.BufferSize: the default a shim is rendered with
  BufArgs,        \* the arguments _new is called with
  MaxMake,        \* the largest buffer make(chan T, n) accepts
  IDLimit         \* bound: identifiers minted in a behaviour

ASSUME BufferAssumption == BufferSize \in Int /\ BufArgs \subseteq Int /\ MaxMake \in Nat
ASSUME BoundAssumption == IDLimit \in Nat

VARIABLES
  nextID,     \* mochiNextID
  channels,   \* the identifiers minted for channels; the others are callbacks
  bound,      \* the identifiers in mochiHandles
  alive,      \* the identifiers whose cgo handle is not deleted
  size,       \* size[i]: the capacity channel i was made with
  buffered,   \* buffered[i]: the elements in its buffer
  closed,     \* the channels that were closed
  pc, id,     \* each thread's step, and the argument of its call
  crash       \* [why, at, id]: the panic that ended the process, if one did

poolVars == <<nextID, channels, bound, alive>>
chanVars == <<size, buffered, closed>>
vars     == <<poolVars, chanVars, pc, id, crash>>

-------------------------------------------------------------------------------
(* Helpers *)

IDs     == 1..IDLimit
NoCrash == [why |-> "none", at |-> "idle", id |-> 0]
Running == crash = NoCrash

\* Faulty: the argument is passed to make unchecked.
CapacityRaw(n) == n

\* A BufferSize <= 0 is rendered as 1; an argument n <= 0 takes what was rendered.
Default     == IF BufferSize <= 0 THEN 1 ELSE BufferSize
Capacity(n) == IF n <= 0 THEN Default ELSE n

At(t, step)   == Running /\ pc[t] = step
Goto(t, step) == pc' = [pc EXCEPT ![t] = step] /\ UNCHANGED <<id, crash>>
Return(t)     == pc' = [pc EXCEPT ![t] = "idle"] /\ id' = [id EXCEPT ![t] = 0] /\ UNCHANGED crash
Panic(t, why) == crash' = [why |-> why, at |-> pc[t], id |-> id[t]] /\ UNCHANGED <<pc, id>>

-------------------------------------------------------------------------------
Init ==
  /\ nextID = 0 /\ channels = {} /\ bound = {} /\ alive = {}
  /\ size = [i \in IDs |-> 0] /\ buffered = [i \in IDs |-> 0]
  /\ closed = {}
  /\ pc = [t \in Threads |-> "idle"] /\ id = [t \in Threads |-> 0]
  /\ crash = NoCrash

\* mochiAcquireHandle: a fresh identifier, bound and alive.
Acquire ==
  /\ nextID < IDLimit
  /\ nextID' = nextID + 1
  /\ bound'  = bound \cup {nextID + 1}
  /\ alive'  = alive \cup {nextID + 1}

\* _new(n)
New(t, n) ==
  /\ At(t, "idle")
  /\ Capacity(n) <= MaxMake
  /\ Acquire
  /\ channels' = channels \cup {nextID + 1}
  /\ size' = [size EXCEPT ![nextID + 1] = Capacity(n)]
  /\ UNCHANGED <<buffered, closed, pc, id, crash>>

\* make panics before an identifier is drawn.
NewTooLarge(t, n) ==
  /\ At(t, "idle")
  /\ Capacity(n) > MaxMake
  /\ Panic(t, "make")
  /\ UNCHANGED <<poolVars, chanVars>>

\* The host hands a function value over: it calls mochiAcquireHandle itself.
Register(t) ==
  /\ At(t, "idle")
  /\ Acquire
  /\ UNCHANGED <<channels, chanVars, pc, id, crash>>

\* A thread enters an exported function with an identifier it was given.
Enter(t, step, i) ==
  /\ At(t, "idle")
  /\ pc' = [pc EXCEPT ![t] = step]
  /\ id' = [id EXCEPT ![t] = i]
  /\ UNCHANGED <<poolVars, chanVars, crash>>

CallChannel(t, i) ==
  \/ Enter(t, "sendFind", i)
  \/ Enter(t, "recvFind", i)
  \/ Enter(t, "closeFind", i)
CallCallback(t, i) ==
  \/ Enter(t, "callFind", i)
  \/ Enter(t, "relFind", i)

-------------------------------------------------------------------------------
(* mochiResolveHandle: the lookup, then h.Value() without the mutex. *)

AfterFind  == [sendFind |-> "sendValue", recvFind |-> "recvValue",
               closeFind |-> "closeValue", callFind |-> "callValue"]
AfterValue == [sendValue |-> "sending", recvValue |-> "receiving",
               closeValue |-> "closing", callValue |-> "calling"]

\* A miss is nil: _close returns, the others assert a type on it and panic.
FindMiss(t) ==
  /\ Running /\ pc[t] \in DOMAIN AfterFind
  /\ id[t] \notin bound
  /\ IF pc[t] = "closeFind" THEN Return(t) ELSE Panic(t, "nil")
  /\ UNCHANGED <<poolVars, chanVars>>

FindHit(t) ==
  /\ Running /\ pc[t] \in DOMAIN AfterFind
  /\ id[t] \in bound
  /\ Goto(t, AfterFind[pc[t]])
  /\ UNCHANGED <<poolVars, chanVars>>

Value(t) ==
  /\ Running /\ pc[t] \in DOMAIN AfterValue
  /\ IF id[t] \in alive THEN Goto(t, AfterValue[pc[t]]) ELSE Panic(t, "deleted handle")
  /\ UNCHANGED <<poolVars, chanVars>>

-------------------------------------------------------------------------------
(* _send and _recv: ch <- v and <-ch on the channel resolved before *)

Send(t) ==
  /\ At(t, "sending")
  /\ \/ /\ id[t] \in closed
        /\ Panic(t, "send on closed")
        /\ UNCHANGED buffered
     \/ /\ id[t] \notin closed
        /\ buffered[id[t]] < size[id[t]]
        /\ buffered' = [buffered EXCEPT ![id[t]] = @ + 1]
        /\ Return(t)
  /\ UNCHANGED <<poolVars, size, closed>>

\* An element, or ok == false on a channel that is closed and drained.
Recv(t) ==
  /\ At(t, "receiving")
  /\ \/ /\ buffered[id[t]] > 0
        /\ buffered' = [buffered EXCEPT ![id[t]] = @ - 1]
     \/ /\ buffered[id[t]] = 0 /\ id[t] \in closed
        /\ UNCHANGED buffered
  /\ Return(t)
  /\ UNCHANGED <<poolVars, size, closed>>

-------------------------------------------------------------------------------
(* _close: close(ch), then mochiReleaseHandle(id) *)

\* Faulty: the handle is released without closing the channel.
CloseReleaseOnly(t) ==
  /\ At(t, "closing")
  /\ Goto(t, "relFind")
  /\ UNCHANGED <<poolVars, chanVars>>

\* Faulty: the channel is closed and its handle kept.
CloseKeepsHandle(t) ==
  /\ At(t, "closing")
  /\ IF id[t] \in closed THEN Panic(t, "close of closed") ELSE Return(t)
  /\ closed' = closed \cup {id[t]}
  /\ UNCHANGED <<poolVars, size, buffered>>

Close(t) ==
  /\ At(t, "closing")
  /\ IF id[t] \in closed THEN Panic(t, "close of closed") ELSE Goto(t, "relFind")
  /\ closed' = closed \cup {id[t]}
  /\ UNCHANGED <<poolVars, size, buffered>>

\* mochiReleaseHandle: out of the map under the mutex, deleted after it.
ReleaseFind(t) ==
  /\ At(t, "relFind")
  /\ IF id[t] \in bound THEN Goto(t, "relDelete") ELSE Return(t)
  /\ bound' = bound \ {id[t]}
  /\ UNCHANGED <<nextID, channels, alive, chanVars>>

ReleaseDelete(t) ==
  /\ At(t, "relDelete")
  /\ IF id[t] \in alive THEN Return(t) ELSE Panic(t, "deleted twice")
  /\ alive' = alive \ {id[t]}
  /\ UNCHANGED <<nextID, channels, bound, chanVars>>

\* _call runs the function; the function itself returns.
RunCallback(t) ==
  /\ At(t, "calling")
  /\ Return(t)
  /\ UNCHANGED <<poolVars, chanVars>>

-------------------------------------------------------------------------------
Call(t) ==
  \/ \E n \in BufArgs : New(t, n) \/ NewTooLarge(t, n)
  \/ Register(t)
  \/ \E i \in channels : CallChannel(t, i)
  \/ \E i \in (1..nextID) \ channels : CallCallback(t, i)

Step(t) ==
  \/ FindMiss(t) \/ FindHit(t) \/ Value(t)
  \/ Send(t) \/ Recv(t) \/ Close(t)
  \/ ReleaseFind(t) \/ ReleaseDelete(t) \/ RunCallback(t)

Next == \E t \in Threads : Call(t) \/ Step(t)

\* A thread that can run does.  Calls are not fair: nobody has to make one.
Fairness == \A t \in Threads : WF_vars(Step(t))

Spec     == Init /\ [][Next]_vars
FairSpec == Spec /\ Fairness

-------------------------------------------------------------------------------
(* Properties *)

Steps == {"idle", "sendFind", "recvFind", "closeFind", "callFind", "sendValue",
          "recvValue", "closeValue", "callValue", "sending", "receiving",
          "closing", "calling", "relFind", "relDelete"}
Blocking == {"sending", "receiving"}

\* Identifiers, channels and calls have the shapes the emitted runtime gives
\* them; a made channel is never unbuffered and its buffer never over its size.
TypeOK ==
  /\ nextID \in 0..IDLimit
  /\ channels \subseteq 1..nextID /\ bound \subseteq 1..nextID /\ alive \subseteq 1..nextID
  /\ closed \subseteq channels
  /\ \A i \in IDs : size[i] \in Nat /\ buffered[i] \in 0..size[i]
  /\ \A i \in channels : size[i] > 0
  /\ pc \in [Threads -> Steps]
  /\ id \in [Threads -> 0..nextID]

\* Only what somebody ended can panic: but for a buffer too large to make, every panic
\* is about an identifier, of a channel that was closed or of a callback that was
\* released, whichever steps of other threads ran between a lookup and the use of what
\* it found.
PanicNeedsEnd ==
  \/ Running \/ crash.why = "make"
  \/ /\ crash.id \in 1..nextID
     /\ IF crash.id \in channels THEN crash.id \in closed ELSE crash.id \notin bound

\* A handle in the map is alive, and one that left the map is deleted by exactly one
\* thread, whose release took it out; so a closed channel keeps its handle only while
\* some thread is inside its _close.
HandlesReleased ==
  /\ crash.why # "deleted twice"
  /\ bound \subseteq alive
  /\ \A i \in alive \ bound : Cardinality({t \in Threads : pc[t] = "relDelete" /\ id[t] = i}) = 1
  /\ \A i \in closed : i \in bound => \E t \in Threads : id[t] = i /\ pc[t] = "relFind"

\* Nobody is left blocked on a channel nobody can name: as long as a channel a
\* thread sends to or receives from is open, its identifier resolves.
BlockedIsReachable ==
  \A t \in Threads :
    pc[t] \in Blocking /\ id[t] \notin closed => id[t] \in bound

\* Closing wakes: a thread blocked on a channel that a _close has reached gets
\* on, or the process has ended.
CloseWakes ==
  \A t \in Threads :
    pc[t] \in Blocking /\ (\E c \in Threads : pc[c] = "closing" /\ id[c] = id[t])
      ~> (pc[t] \notin Blocking \/ ~Running)

===============================================================================

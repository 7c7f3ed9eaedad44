--------------------------- MODULE ChannelShimProofs ---------------------------
(***************************************************************************)
(* Proofs about ChannelShim, for any threads, buffer sizes and arguments.  *)
(***************************************************************************)
EXTENDS ChannelShim, FiniteSetTheorems, TLAPS

-------------------------------------------------------------------------------
(* Facts about the operators the model is built from *)

\* A capacity is never 0.
LEMMA CapacityFacts == \A n \in BufArgs : Capacity(n) \in Nat /\ Capacity(n) > 0
  BY BufferAssumption DEF Capacity, Default

\* A lookup leads to the use of what it found, and this to the operation.
LEMMA AfterFacts ==
  /\ DOMAIN AfterFind = {"sendFind", "recvFind", "closeFind", "callFind"}
  /\ AfterFind["sendFind"] = "sendValue" /\ AfterFind["recvFind"] = "recvValue"
  /\ AfterFind["closeFind"] = "closeValue" /\ AfterFind["callFind"] = "callValue"
  /\ DOMAIN AfterValue = {"sendValue", "recvValue", "closeValue", "callValue"}
  /\ AfterValue["sendValue"] = "sending" /\ AfterValue["recvValue"] = "receiving"
  /\ AfterValue["closeValue"] = "closing" /\ AfterValue["callValue"] = "calling"
  BY DEF AfterFind, AfterValue

-------------------------------------------------------------------------------
(* Type correctness *)

OfChannels  == {"sendFind", "recvFind", "closeFind", "sendValue", "recvValue", "closeValue",
                "sending", "receiving", "closing"}
OfCallbacks == {"callFind", "callValue", "calling"}

\* An identifier that was not minted has an empty buffer behind it.
DataOK ==
  /\ nextID \in 0..IDLimit
  /\ channels \subseteq 1..nextID /\ bound \subseteq 1..nextID /\ alive \subseteq 1..nextID
  /\ closed \subseteq channels
  /\ size \in [IDs -> Nat] /\ buffered \in [IDs -> Nat]
  /\ \A i \in IDs : buffered[i] <= size[i] /\ (i > nextID => buffered[i] = 0)
  /\ \A i \in channels : size[i] > 0

\* A call has an identifier of the kind it is for.
Fit(step, i) ==
  /\ step \in Steps /\ i \in 0..nextID
  /\ step \in OfChannels => i \in channels
  /\ step \in OfCallbacks => i \in (1..nextID) \ channels
  /\ step \in {"relFind", "relDelete"} => i \in 1..nextID

CallsOK ==
  /\ pc \in [Threads -> Steps] /\ id \in [Threads -> 0..nextID]
  /\ \A t \in Threads : Fit(pc[t], id[t])

TypeInv == DataOK /\ CallsOK

LEMMA InitType == Init => TypeInv
  BY BoundAssumption
     DEF Init, TypeInv, DataOK, CallsOK, Fit, Steps, IDs, OfChannels, OfCallbacks

\* A thread goes on to a step that its identifier fits.
LEMMA MoveType ==
  ASSUME CallsOK, NEW t \in Threads, NEW step, NEW i, Fit(step, i),
         pc' = [pc EXCEPT ![t] = step], id' = [id EXCEPT ![t] = i],
         nextID' = nextID, channels' = channels
  PROVE  CallsOK'
  BY DEF CallsOK, Fit

LEMMA ReturnType ==
  ASSUME TypeInv, NEW t \in Threads, Return(t), nextID' = nextID, channels' = channels
  PROVE  CallsOK'
  <1>1. Fit("idle", 0)
    BY DEF Fit, TypeInv, DataOK, Steps, OfChannels, OfCallbacks
  <1> QED
    BY <1>1, MoveType DEF Return, TypeInv

LEMMA GotoType ==
  ASSUME CallsOK, NEW t \in Threads, NEW step, Goto(t, step), Fit(step, id[t]),
         nextID' = nextID, channels' = channels
  PROVE  CallsOK'
  <1>1. id' = [id EXCEPT ![t] = id[t]]
    BY DEF Goto, CallsOK
  <1> QED
    BY <1>1, MoveType DEF Goto

LEMMA PanicType ==
  ASSUME CallsOK, NEW t \in Threads, NEW why, Panic(t, why), nextID' = nextID, channels' = channels
  PROVE  CallsOK'
  BY DEF Panic, CallsOK, Fit

LEMMA StepType == TypeInv /\ [Next]_vars => TypeInv'
  <1> SUFFICES ASSUME TypeInv, [Next]_vars PROVE TypeInv'
    OBVIOUS
  <1> USE BoundAssumption DEF TypeInv
  <1>stutter. CASE UNCHANGED vars
    BY <1>stutter DEF vars, poolVars, chanVars, DataOK, CallsOK, Fit
  <1> SUFFICES ASSUME NEW t \in Threads, Call(t) \/ Step(t) PROVE TypeInv'
    BY <1>stutter DEF Next
  <1>id. Fit(pc[t], id[t])
    BY DEF CallsOK
  <1>new. ASSUME NEW n \in BufArgs, New(t, n) PROVE TypeInv'
    <2>1. DataOK'
      BY <1>new, CapacityFacts DEF New, Acquire, DataOK, IDs
    <2>2. CallsOK'
      BY <1>new DEF New, Acquire, DataOK, CallsOK, Fit
    <2> QED
      BY <2>1, <2>2
  <1>large. ASSUME NEW n \in BufArgs, NewTooLarge(t, n) PROVE TypeInv'
    BY <1>large, PanicType DEF NewTooLarge, poolVars, chanVars, DataOK
  <1>register. CASE Register(t)
    <2>1. DataOK'
      BY <1>register DEF Register, Acquire, chanVars, DataOK, IDs
    <2>2. CallsOK'
      BY <1>register DEF Register, Acquire, DataOK, CallsOK, Fit
    <2> QED
      BY <2>1, <2>2
  <1>channel. ASSUME NEW i \in channels, CallChannel(t, i) PROVE TypeInv'
    <2>1. PICK step \in {"sendFind", "recvFind", "closeFind"} : Enter(t, step, i)
      BY <1>channel DEF CallChannel
    <2>2. Fit(step, i)
      BY DEF Fit, DataOK, Steps, OfChannels, OfCallbacks
    <2> QED
      BY <2>1, <2>2, MoveType DEF Enter, poolVars, chanVars, DataOK
  <1>callback. ASSUME NEW i \in (1..nextID) \ channels, CallCallback(t, i) PROVE TypeInv'
    <2>1. PICK step \in {"callFind", "relFind"} : Enter(t, step, i)
      BY <1>callback DEF CallCallback
    <2>2. Fit(step, i)
      BY DEF Fit, DataOK, Steps, OfChannels, OfCallbacks
    <2> QED
      BY <2>1, <2>2, MoveType DEF Enter, poolVars, chanVars, DataOK
  <1>miss. CASE FindMiss(t)
    BY <1>miss, ReturnType, PanicType DEF FindMiss, poolVars, chanVars, DataOK
  <1>hit. CASE FindHit(t)
    <2>1. Fit(AfterFind[pc[t]], id[t])
      BY <1>hit, <1>id, AfterFacts DEF FindHit, Fit, Steps, OfChannels, OfCallbacks
    <2> QED
      BY <1>hit, <2>1, GotoType DEF FindHit, poolVars, chanVars, DataOK
  <1>value. CASE Value(t)
    <2>1. Fit(AfterValue[pc[t]], id[t])
      BY <1>value, <1>id, AfterFacts DEF Value, Fit, Steps, OfChannels, OfCallbacks
    <2> QED
      BY <1>value, <2>1, GotoType, PanicType DEF Value, poolVars, chanVars, DataOK
  <1>send. CASE Send(t)
    <2>1. CallsOK'
      BY <1>send, ReturnType, PanicType DEF Send, poolVars
    <2>2. pc[t] = "sending" /\ UNCHANGED <<poolVars, size, closed>>
      BY <1>send DEF Send, At
    <2>3. id[t] \in IDs
      BY <1>id, <2>2 DEF Fit, OfChannels, DataOK, IDs
    <2>4. CASE UNCHANGED buffered
      BY <2>1, <2>2, <2>4 DEF poolVars, DataOK
    <2>5. CASE buffered[id[t]] < size[id[t]] /\ buffered' = [buffered EXCEPT ![id[t]] = @ + 1]
      BY <1>id, <2>1, <2>2, <2>3, <2>5 DEF poolVars, DataOK, Fit, OfChannels
    <2> QED
      BY <1>send, <2>4, <2>5 DEF Send
  <1>recv. CASE Recv(t)
    <2>1. CallsOK'
      BY <1>recv, ReturnType DEF Recv, poolVars
    <2>2. id[t] \in IDs
      BY <1>recv, <1>id DEF Recv, At, Fit, OfChannels, DataOK, IDs
    <2> QED
      BY <1>recv, <2>1, <2>2 DEF Recv, poolVars, DataOK
  <1>close. CASE Close(t)
    <2>1. pc[t] = "closing" /\ Fit("relFind", id[t]) /\ id[t] \in channels
      BY <1>close, <1>id DEF Close, At, Fit, Steps, OfChannels, OfCallbacks, DataOK
    <2>2. CallsOK'
      BY <1>close, <2>1, GotoType, PanicType DEF Close, poolVars
    <2> QED
      BY <1>close, <2>1, <2>2 DEF Close, poolVars, DataOK
  <1>find. CASE ReleaseFind(t)
    <2>1. Fit("relDelete", id[t])
      BY <1>find, <1>id DEF ReleaseFind, At, Fit, Steps, OfChannels, OfCallbacks
    <2> QED
      BY <1>find, <2>1, GotoType, ReturnType DEF ReleaseFind, chanVars, DataOK
  <1>delete. CASE ReleaseDelete(t)
    BY <1>delete, ReturnType, PanicType DEF ReleaseDelete, chanVars, DataOK
  <1>run. CASE RunCallback(t)
    BY <1>run, ReturnType DEF RunCallback, poolVars, chanVars, DataOK
  <1> QED
    BY <1>new, <1>large, <1>register, <1>channel, <1>callback, <1>miss, <1>hit, <1>value, <1>send,
       <1>recv, <1>close, <1>find, <1>delete, <1>run DEF Call, Step

\* No call leaves the state space of the emitted runtime: a channel is never unbuffered and
\* never holds more than it was made for.
THEOREM TypeCorrect == Spec => []TypeOK
  <1>1. TypeInv => TypeOK
    BY SMTT(20) DEF TypeInv, DataOK, CallsOK, TypeOK, IDs
  <1> QED
    BY InitType, StepType, <1>1, PTL DEF Spec

-------------------------------------------------------------------------------
(* Handles.  Whoever takes a handle out of the map is the one that deletes it;  *)
(* a channel's leaves the map after it was closed.                              *)

HandleInv ==
  /\ bound \subseteq alive
  /\ \A t \in Threads : pc[t] = "relDelete" => id[t] \in alive \ bound
  /\ \A t, u \in Threads : pc[t] = "relDelete" /\ pc[u] = "relDelete" /\ id[t] = id[u] => t = u
  /\ \A i \in alive \ bound : \E t \in Threads : pc[t] = "relDelete" /\ id[t] = i
  /\ \A i \in closed : i \in bound => \E t \in Threads : id[t] = i /\ pc[t] = "relFind"
  /\ \A i \in channels : i \in bound \cup closed
  /\ \A t \in Threads : pc[t] = "relFind" /\ id[t] \in channels => id[t] \in closed

\* The panic is make's or about something that was ended, and none is about a handle deleted
\* twice.
CrashInv ==
  \/ crash = NoCrash \/ crash.why = "make"
  \/ /\ crash.why # "deleted twice"
     /\ crash.id \in 1..nextID
     /\ IF crash.id \in channels THEN crash.id \in closed ELSE crash.id \notin bound

LEMMA InitHandle == Init => HandleInv /\ CrashInv
  BY DEF Init, HandleInv, CrashInv

Releasing == {"relFind", "relDelete"}
Others(t) == \A u \in Threads \ {t} : pc'[u] = pc[u] /\ id'[u] = id[u]

\* A thread that does not release moves on, or nobody does, and no handle and no channel
\* changes.
LEMMA QuietHandle ==
  ASSUME HandleInv, NEW t \in Threads,
         UNCHANGED <<channels, bound, alive, closed>>, Others(t),
         \/ pc[t] \notin Releasing /\ pc'[t] \notin Releasing
         \/ pc'[t] = pc[t] /\ id'[t] = id[t]
  PROVE  HandleInv'
  <1>1. \A u \in Threads : /\ (pc'[u] = "relFind") = (pc[u] = "relFind")
                           /\ (pc'[u] = "relDelete") = (pc[u] = "relDelete")
                           /\ pc[u] \in Releasing => id'[u] = id[u]
    BY DEF Releasing, Others
  <1> QED
    BY <1>1 DEF HandleInv, Releasing

LEMMA ReturnMoves ==
  ASSUME TypeInv, NEW t \in Threads, Return(t)
  PROVE  pc'[t] = "idle" /\ crash' = crash /\ Others(t)
  BY DEF Return, TypeInv, CallsOK, Others

LEMMA GotoMoves ==
  ASSUME TypeInv, NEW t \in Threads, NEW step, Goto(t, step)
  PROVE  pc'[t] = step /\ crash' = crash /\ id'[t] = id[t] /\ Others(t)
  BY DEF Goto, TypeInv, CallsOK, Others

LEMMA PanicFacts ==
  ASSUME NEW t \in Threads, NEW why, Panic(t, why)
  PROVE  pc' = pc /\ id' = id /\ crash'.why = why /\ crash'.id = id[t] /\ Others(t)
  BY DEF Panic, Others

\* Only a running process takes a step, and a step that ends it leaves a panic about
\* something that was ended.
LEMMA StepCrash == TypeInv /\ HandleInv /\ CrashInv /\ [Next]_vars => CrashInv'
  <1> SUFFICES ASSUME TypeInv, HandleInv, CrashInv, [Next]_vars PROVE CrashInv'
    OBVIOUS
  <1>stutter. CASE UNCHANGED vars
    BY <1>stutter DEF vars, poolVars, chanVars, CrashInv
  <1> SUFFICES ASSUME NEW t \in Threads, Call(t) \/ Step(t), crash' # crash PROVE CrashInv'
    <2>1. \A t \in Threads : Call(t) \/ Step(t) => crash = NoCrash
      BY DEF Call, New, NewTooLarge, Register, CallChannel, CallCallback, Enter, Step, FindMiss, FindHit, Value,
             Send, Recv, Close, ReleaseFind, ReleaseDelete, RunCallback, At, Running
    <2> QED
      BY <1>stutter, <2>1 DEF Next, CrashInv
  <1>id. Fit(pc[t], id[t])
    BY DEF TypeInv, CallsOK
  <1>ended. (id[t] \in channels => id[t] \in bound \cup closed) /\ bound \subseteq alive
    BY DEF HandleInv
  <1>panic. ASSUME NEW why, Panic(t, why), why # "deleted twice", channels' = channels, nextID' = nextID,
                   pc[t] # "idle",
                   IF id[t] \in channels THEN id[t] \in closed' ELSE id[t] \notin bound'
            PROVE  CrashInv'
    <2>1. crash'.why = why /\ crash'.id = id[t] /\ id[t] \in 1..nextID'
      BY <1>id, <1>panic, PanicFacts DEF Fit, TypeInv, DataOK, Steps, OfChannels, OfCallbacks
    <2>2. crash'.why # "deleted twice"
      BY <1>panic, <2>1
    <2>3. IF crash'.id \in channels' THEN crash'.id \in closed' ELSE crash'.id \notin bound'
      BY <1>panic, <2>1
    <2> QED
      BY <2>1, <2>2, <2>3 DEF CrashInv
  <1>call. CASE Call(t)
    <2>1. PICK n \in BufArgs : NewTooLarge(t, n)
      BY <1>call DEF Call, New, Register, CallChannel, CallCallback, Enter
    <2> QED
      BY <2>1, PanicFacts DEF NewTooLarge, CrashInv
  <1>miss. CASE FindMiss(t)
    <2>1. /\ Panic(t, "nil") /\ id[t] \notin bound /\ UNCHANGED <<nextID, channels, bound, closed>>
          /\ pc[t] # "idle"
      BY <1>miss, AfterFacts DEF FindMiss, Return, poolVars, chanVars
    <2> QED
      BY <1>ended, <1>panic, <2>1
  <1>value. CASE Value(t)
    <2>1. /\ Panic(t, "deleted handle") /\ id[t] \notin alive /\ UNCHANGED <<nextID, channels, bound, closed>>
          /\ pc[t] # "idle"
      BY <1>value, AfterFacts DEF Value, Goto, poolVars, chanVars
    <2> QED
      BY <1>ended, <1>panic, <2>1
  <1>send. CASE Send(t)
    <2>1. /\ Panic(t, "send on closed") /\ id[t] \in closed
          /\ UNCHANGED <<nextID, channels, bound, closed>> /\ pc[t] # "idle"
      BY <1>send DEF Send, At, Return, poolVars
    <2> QED
      BY <1>panic, <2>1 DEF TypeInv, DataOK
  <1>close. CASE Close(t)
    <2>1. /\ Panic(t, "close of closed") /\ id[t] \in closed /\ closed' = closed
          /\ UNCHANGED <<nextID, channels, bound>> /\ pc[t] # "idle"
      BY <1>close DEF Close, At, Goto, poolVars
    <2> QED
      BY <1>panic, <2>1 DEF TypeInv, DataOK
  <1>delete. ~ReleaseDelete(t)
    BY DEF ReleaseDelete, At, Return, HandleInv
  <1>rest. ~FindHit(t) /\ ~Recv(t) /\ ~ReleaseFind(t) /\ ~RunCallback(t)
    BY DEF FindHit, Recv, ReleaseFind, RunCallback, Goto, Return
  <1> QED
    BY <1>call, <1>miss, <1>value, <1>send, <1>close, <1>delete, <1>rest DEF Step

LEMMA StepHandle == TypeInv /\ HandleInv /\ [Next]_vars => HandleInv'
  <1> SUFFICES ASSUME TypeInv, HandleInv, [Next]_vars PROVE HandleInv'
    OBVIOUS
  <1>stutter. CASE UNCHANGED vars
    BY <1>stutter DEF vars, poolVars, chanVars, HandleInv
  <1> SUFFICES ASSUME NEW t \in Threads, Call(t) \/ Step(t) PROVE HandleInv'
    BY <1>stutter DEF Next
  <1>id. Fit(pc[t], id[t])
    BY DEF TypeInv, CallsOK
  <1>new. ASSUME NEW n \in BufArgs, New(t, n) PROVE HandleInv'
    <2>1. /\ nextID' = nextID + 1 /\ bound' = bound \cup {nextID + 1} /\ alive' = alive \cup {nextID + 1}
          /\ channels' = channels \cup {nextID + 1} /\ UNCHANGED <<closed, pc, id>>
      BY <1>new DEF New, Acquire
    <2>2. nextID + 1 \notin closed /\ \A u \in Threads : id[u] # nextID + 1
      BY DEF TypeInv, DataOK, CallsOK
    <2> QED
      BY <2>1, <2>2 DEF HandleInv
  <1>large. ASSUME NEW n \in BufArgs, NewTooLarge(t, n) PROVE HandleInv'
    BY <1>large, PanicFacts, QuietHandle DEF NewTooLarge, poolVars, chanVars
  <1>register. CASE Register(t)
    BY <1>register DEF Register, Acquire, chanVars, HandleInv, TypeInv, DataOK
  <1>enter. ASSUME NEW step, NEW i, Enter(t, step, i)
            PROVE  /\ pc[t] = "idle" /\ pc'[t] = step /\ id'[t] = i /\ Others(t)
                   /\ UNCHANGED <<channels, bound, alive, closed>>
    BY <1>enter DEF Enter, At, Others, TypeInv, CallsOK, poolVars, chanVars
  <1>channel. ASSUME NEW i \in channels, CallChannel(t, i) PROVE HandleInv'
    <2>1. PICK step \in {"sendFind", "recvFind", "closeFind"} : Enter(t, step, i)
      BY <1>channel DEF CallChannel
    <2> QED
      BY <1>enter, <2>1, QuietHandle DEF Releasing
  <1>callback. ASSUME NEW i \in (1..nextID) \ channels, CallCallback(t, i) PROVE HandleInv'
    <2>1. CASE Enter(t, "callFind", i)
      BY <1>enter, <2>1, QuietHandle DEF Releasing
    <2>2. CASE Enter(t, "relFind", i)
      BY <1>enter, <2>2 DEF HandleInv, Others
    <2> QED
      BY <1>callback, <2>1, <2>2 DEF CallCallback
  <1>panic. ASSUME NEW why, Panic(t, why), UNCHANGED <<channels, bound, alive, closed>> PROVE HandleInv'
    BY <1>panic, PanicFacts, QuietHandle
  <1>return. ASSUME Return(t), pc[t] \notin Releasing, UNCHANGED <<channels, bound, alive, closed>>
             PROVE  HandleInv'
    BY <1>return, ReturnMoves, QuietHandle DEF Releasing
  <1>miss. CASE FindMiss(t)
    BY <1>miss, <1>return, <1>panic, AfterFacts DEF FindMiss, poolVars, chanVars, Releasing
  <1>hit. CASE FindHit(t)
    BY <1>hit, GotoMoves, QuietHandle, AfterFacts DEF FindHit, poolVars, chanVars, Releasing
  <1>value. CASE Value(t)
    <2>1. CASE id[t] \in alive
      BY <1>value, <2>1, GotoMoves, QuietHandle, AfterFacts DEF Value, poolVars, chanVars, Releasing
    <2>2. CASE id[t] \notin alive
      BY <1>value, <2>2, <1>panic DEF Value, poolVars, chanVars
    <2> QED
      BY <2>1, <2>2
  <1>send. CASE Send(t)
    BY <1>send, <1>return, <1>panic DEF Send, At, poolVars, Releasing
  <1>recv. CASE Recv(t)
    BY <1>recv, <1>return DEF Recv, At, poolVars, Releasing
  <1>close. CASE Close(t)
    <2>1. pc[t] = "closing" /\ id[t] \in channels /\ UNCHANGED <<channels, bound, alive>>
      BY <1>close, <1>id DEF Close, At, Fit, OfChannels, poolVars
    <2>2. CASE id[t] \in closed
      <3>1. closed' = closed /\ Panic(t, "close of closed")
        BY <1>close, <2>2 DEF Close
      <3> QED
        BY <1>panic, <2>1, <3>1
    <2>3. CASE id[t] \notin closed
      <3>1. closed' = closed \cup {id[t]} /\ pc'[t] = "relFind" /\ id'[t] = id[t] /\ Others(t)
        BY <1>close, <2>3, GotoMoves DEF Close
      <3> QED
        BY <2>1, <3>1 DEF HandleInv, Others
    <2> QED
      BY <2>2, <2>3
  <1>find. CASE ReleaseFind(t)
    <2>1. /\ pc[t] = "relFind" /\ bound' = bound \ {id[t]} /\ UNCHANGED <<channels, alive, closed>>
          /\ id[t] \in channels => id[t] \in closed
      BY <1>find DEF ReleaseFind, At, chanVars, HandleInv
    <2>2. CASE id[t] \in bound
      <3>1. pc'[t] = "relDelete" /\ id'[t] = id[t] /\ Others(t)
        BY <1>find, <2>2, GotoMoves DEF ReleaseFind
      <3> QED
        BY <2>1, <2>2, <3>1 DEF HandleInv, Others
    <2>3. CASE id[t] \notin bound
      <3>1. pc'[t] = "idle" /\ Others(t) /\ bound' = bound
        BY <1>find, <2>1, <2>3, ReturnMoves DEF ReleaseFind
      <3> QED
        BY <2>1, <2>3, <3>1 DEF HandleInv, Others
    <2> QED
      BY <2>2, <2>3
  <1>delete. CASE ReleaseDelete(t)
    <2>1. /\ pc[t] = "relDelete" /\ alive' = alive \ {id[t]} /\ UNCHANGED <<channels, bound, closed>>
          /\ id[t] \in alive \ bound /\ Return(t)
      BY <1>delete DEF ReleaseDelete, At, chanVars, HandleInv
    <2> QED
      BY <2>1, ReturnMoves DEF HandleInv, Others
  <1>run. CASE RunCallback(t)
    BY <1>run, <1>return DEF RunCallback, At, poolVars, chanVars, Releasing
  <1> QED
    BY <1>new, <1>large, <1>register, <1>channel, <1>callback, <1>miss, <1>hit, <1>value, <1>send,
       <1>recv, <1>close, <1>find, <1>delete, <1>run DEF Call, Step

\* A panic of the emitted runtime is make's or about something that was closed or released.
THEOREM PanicsNeedEnd == Spec => []PanicNeedsEnd
  <1>1. CrashInv => PanicNeedsEnd
    BY DEF CrashInv, PanicNeedsEnd, Running
  <1> QED
    BY InitType, StepType, InitHandle, StepHandle, StepCrash, <1>1, PTL DEF Spec

\* A handle that left the map is deleted by one thread, once.
THEOREM HandlesAreReleased == Spec => []HandlesReleased
  <1>1. HandleInv /\ CrashInv => HandlesReleased
    <2> SUFFICES ASSUME HandleInv, NEW i \in alive \ bound
                 PROVE  Cardinality({t \in Threads : pc[t] = "relDelete" /\ id[t] = i}) = 1
      <3>1. NoCrash.why # "deleted twice"
        BY DEF NoCrash
      <3> QED
        BY <3>1 DEF HandleInv, CrashInv, HandlesReleased
    <2> PICK t \in Threads : pc[t] = "relDelete" /\ id[t] = i
      BY DEF HandleInv
    <2>1. \A u \in Threads : pc[u] = "relDelete" /\ id[u] = i => u = t
      BY DEF HandleInv
    <2>2. {u \in Threads : pc[u] = "relDelete" /\ id[u] = i} = {t}
      BY <2>1
    <2> QED
      BY <2>2, FS_Singleton
  <1> QED
    BY InitType, StepType, InitHandle, StepHandle, StepCrash, <1>1, PTL DEF Spec

\* A thread blocked on an open channel can be woken: the identifier it used resolves.
THEOREM BlockedAreReachable == Spec => []BlockedIsReachable
  <1>1. TypeInv /\ HandleInv => BlockedIsReachable
    BY DEF TypeInv, CallsOK, Fit, HandleInv, BlockedIsReachable, Blocking, OfChannels
  <1> QED
    BY InitType, StepType, InitHandle, StepHandle, <1>1, PTL DEF Spec

===============================================================================

---------------------- MODULE OutboundDispatcherProofs ----------------------
(***************************************************************************)
(* Safety of the outbound dispatcher for every number of chats, tasks,     *)
(* queue objects and closing calls.                                        *)
(***************************************************************************)
EXTENDS OutboundDispatcher, FiniteSetTheorems, SequenceTheorems, TLAPS

(***************************************************************************)
(* The inductive invariant.  QueueInv is its heart: a queue object is      *)
(* marked running exactly while a worker serves it, a served queue is the  *)
(* one in the map, and a queue nobody serves is empty.                     *)
(***************************************************************************)
MapInv ==
  \A c \in Chats : qmap[c] # Nil => QueueChat[qmap[c]] = c

QueueInv ==
  \A q \in Queues :
    /\ running[q] <=> Serves(q)
    /\ Serves(q) => qmap[QueueChat[q]] = q
    /\ ~Serves(q) => buf[q] = <<>>
    /\ qmap[QueueChat[q]] = q /\ ~Serves(q) => wpc[q] = "none" /\ dpc[q] = "none"

\* The queue a Submit call holds is one of its chat; the call that is about to
\* start a worker is the only one to do so for that queue.
SubmitInv ==
  /\ \A t \in Tasks : sq[t] # Nil <=> spc[t] \in {"lock", "spawn"}
  /\ \A t \in Tasks : sq[t] # Nil => QueueChat[sq[t]] = ChatOf[t]
  /\ \A t \in Tasks : spc[t] = "spawn" => wpc[sq[t]] = "spawned"
  /\ \A t, u \in Tasks : spc[t] = "spawn" /\ spc[u] = "spawn" /\ sq[t] = sq[u] => t = u

\* A worker holds a task exactly while it runs it; abandoned tasks are in the
\* hands of a worker about to hand them over or of a live drop goroutine.
TaskInv ==
  \A q \in Queues :
    /\ wtask[q] # Nil <=> wpc[q] = "run"
    /\ dq[q] # <<>> => wpc[q] \in {"fail", "failTok"} \/ dpc[q] = "live"
    /\ dpc[q] = "live" => wpc[q] \in {"release", "done", "none"}

\* The drain counter counts the live goroutines, the token channel its holders.
Workers == {q \in Queues : wpc[q] # "none"}
Droppers == {q \in Queues : dpc[q] = "live"}
Holders == {q \in Queues : wpc[q] \in TokenHeld}

CountInv ==
  /\ wg = Cardinality(Workers) + Cardinality(Droppers)
  /\ sem = Cardinality(Holders)
  /\ sem <= MaxInflight

Passed(k) == ckind[k] # "Drain" /\ cpc[k] \notin {"idle", "barrier"}

CloseInv ==
  \A k \in Closers :
    /\ cpc[k] = "barrier" => stopped /\ ckind[k] # "Drain"
    /\ cpc[k] = "cancel" => ckind[k] = "ForceClose"
    /\ Passed(k) => stopped /\ \A t \in Tasks : spc[t] \notin Gated
    /\ ckind[k] = "Shutdown" /\ cpc[k] = "returned" => wg = 0

Somewhere(t) ==
  \/ t \in answered \cup lost
  \/ \E q \in Queues : t \in TasksIn(buf[q]) \/ wtask[q] = t \/ t \in TasksIn(dq[q])
AccountInv == \A t \in Accepted : Somewhere(t)

IInv ==
  TypeOK /\ MapInv /\ QueueInv /\ SubmitInv /\ TaskInv /\ CountInv /\ CloseInv /\ AccountInv
-----------------------------------------------------------------------------
LEMMA EmptyQueue ==
  <<>> \in Seq(Tasks) /\ Len(<<>>) <= QueueSize /\ TasksIn(<<>>) = {}
  BY DispatcherAssumption DEF TasksIn

LEMMA UpdateBuf ==
  ASSUME QueueType, NEW q \in Queues, NEW s \in Seq(Tasks), Len(s) <= QueueSize,
         buf' = [buf EXCEPT ![q] = s]
  PROVE buf' \in [Queues -> Seq(Tasks)] /\ \A p \in Queues : Len(buf'[p]) <= QueueSize
  BY DEF QueueType

LEMMA TasksInAppend ==
  ASSUME NEW s \in Seq(Tasks), NEW t \in Tasks
  PROVE TasksIn(Append(s, t)) = TasksIn(s) \cup {t}
  BY LenProperties, AppendProperties DEF TasksIn

LEMMA TasksInTail ==
  ASSUME NEW s \in Seq(Tasks), s # <<>>
  PROVE TasksIn(s) = {Head(s)} \cup TasksIn(Tail(s))
<1>1. DOMAIN s = 1..Len(s) /\ DOMAIN Tail(s) = 1..(Len(s) - 1) /\ Len(s) \in Nat \ {0}
  OBVIOUS
<1>2. ASSUME NEW i \in 1..Len(s) PROVE s[i] \in {Head(s)} \cup TasksIn(Tail(s))
  <2>1. CASE i = 1
    BY <2>1
  <2>2. CASE i # 1
    <3>1. i - 1 \in DOMAIN Tail(s) /\ s[i] = Tail(s)[i - 1]
      BY <1>1, <2>2
    <3>2. QED
      BY <3>1 DEF TasksIn
  <2>3. QED
    BY <2>1, <2>2
<1>3. Head(s) \in TasksIn(s)
  BY <1>1 DEF TasksIn
<1>4. ASSUME NEW i \in DOMAIN Tail(s) PROVE Tail(s)[i] \in TasksIn(s)
  <2>1. i + 1 \in DOMAIN s /\ Tail(s)[i] = s[i + 1]
    BY <1>1
  <2>2. QED
    BY <2>1 DEF TasksIn
<1>5. QED
  BY <1>1, <1>2, <1>3, <1>4 DEF TasksIn

\* Sets of queue objects are finite, so that adding and removing one counts.
LEMMA CountQueues ==
  ASSUME NEW S \in SUBSET Queues, NEW q \in Queues
  PROVE /\ Cardinality(S) \in Nat
        /\ q \notin S => Cardinality(S \cup {q}) = Cardinality(S) + 1
        /\ q \in S => Cardinality(S \ {q}) = Cardinality(S) - 1
        /\ Cardinality(S) = 0 => q \notin S
<1>1. IsFiniteSet(S)
  BY DispatcherAssumption, FS_Subset
<1>2. QED
  BY <1>1, FS_CardinalityType, FS_AddElement, FS_RemoveElement, FS_EmptySet

LEMMA TypeInit == Init => TypeOK
<1> SUFFICES ASSUME Init PROVE TypeOK
  OBVIOUS
<1> USE DEF Init
<1>1. QueueType
  BY EmptyQueue DEF QueueType
<1>2. SubmitType
  BY DEF SubmitType
<1>3. WorkerType
  BY DEF WorkerType
<1>4. DropType
  BY EmptyQueue DEF DropType
<1>5. CloseType
  BY DEF CloseType, Kinds
<1>6. OutcomeType
  BY DEF OutcomeType
<1>7. QED
  BY <1>1, <1>2, <1>3, <1>4, <1>5, <1>6 DEF TypeOK

LEMMA QueueTypeStep == IInv /\ [Next]_vars => QueueType'
<1> SUFFICES ASSUME IInv, [Next]_vars PROVE QueueType'
  OBVIOUS
<1>1. ASSUME NEW t \in Tasks, SubmitLookup(t) PROVE QueueType'
  <2>1. CASE UNCHANGED queueVars
    BY <2>1 DEF IInv, TypeOK, QueueType, queueVars
  <2>2. ASSUME NEW q \in Queues,
               qmap' = [qmap EXCEPT ![ChatOf[t]] = q],
               buf' = [buf EXCEPT ![q] = <<>>],
               running' = [running EXCEPT ![q] = FALSE]
        PROVE QueueType'
    BY <2>2, EmptyQueue, UpdateBuf DEF IInv, TypeOK, QueueType
  <2>3. QED
    BY <1>1, <2>1, <2>2 DEF SubmitLookup
<1>2. ASSUME NEW t \in Tasks, SubmitPush(t) PROVE QueueType'
  <2> DEFINE q == sq[t]
  <2>1. q \in Queues
    BY <1>2 DEF SubmitPush, IInv, TypeOK, SubmitType, SubmitInv
  <2>2. Append(buf[q], t) \in Seq(Tasks) /\ Len(Append(buf[q], t)) <= QueueSize
    BY <1>2, <2>1, DispatcherAssumption
       DEF SubmitPush, Full, IInv, TypeOK, QueueType
  <2>3. buf' = [buf EXCEPT ![q] = Append(buf[q], t)] /\ qmap' = qmap
        /\ running' = [running EXCEPT ![q] = TRUE]
    BY <1>2 DEF SubmitPush
  <2> HIDE DEF q
  <2>4. QED
    BY <2>1, <2>2, <2>3, UpdateBuf DEF IInv, TypeOK, QueueType
<1>3. ASSUME NEW q \in Queues, WorkerCancelled(q) PROVE QueueType'
  <2>1. buf' = [buf EXCEPT ![q] = <<>>] /\ running' = [running EXCEPT ![q] = FALSE]
        /\ qmap' \in [Chats -> Queues \cup {Nil}]
    BY <1>3, DispatcherAssumption DEF WorkerCancelled, GiveUp, Unmap, IInv, TypeOK, QueueType
  <2>2. QED
    BY <2>1, EmptyQueue, UpdateBuf DEF IInv, TypeOK, QueueType
<1>4. ASSUME NEW q \in Queues, WorkerRecover(q) PROVE QueueType'
  <2>1. buf' = [buf EXCEPT ![q] = <<>>] /\ running' = [running EXCEPT ![q] = FALSE]
        /\ qmap' \in [Chats -> Queues \cup {Nil}]
    BY <1>4, DispatcherAssumption DEF WorkerRecover, GiveUp, Unmap, IInv, TypeOK, QueueType
  <2>2. QED
    BY <2>1, EmptyQueue, UpdateBuf DEF IInv, TypeOK, QueueType
<1>5. ASSUME NEW q \in Queues, WorkerEmpty(q) PROVE QueueType'
  BY <1>5, DispatcherAssumption
     DEF IInv, TypeOK, QueueType, WorkerEmpty, Unmap
<1>6. ASSUME NEW q \in Queues, WorkerPop(q) PROVE QueueType'
  <2>1. Tail(buf[q]) \in Seq(Tasks) /\ Len(Tail(buf[q])) <= QueueSize
    BY <1>6, DispatcherAssumption DEF WorkerPop, IInv, TypeOK, QueueType
  <2>2. buf' = [buf EXCEPT ![q] = Tail(buf[q])] /\ UNCHANGED <<qmap, running>>
    BY <1>6 DEF WorkerPop
  <2>3. QED
    BY <2>1, <2>2, UpdateBuf DEF IInv, TypeOK, QueueType
<1>7. CASE UNCHANGED queueVars
  BY <1>7 DEF IInv, TypeOK, QueueType, queueVars
<1>8. CASE \/ \E t \in Tasks : SubmitEnter(t) \/ SubmitStale(t)
                  \/ SubmitFull(t) \/ SubmitSpawn(t)
           \/ \E q \in Queues : WorkerAcquire(q) \/ FailDropped(q)
                  \/ WorkerRan(q) \/ WorkerHookPanic(q) \/ WorkerRelease(q)
                  \/ WorkerDone(q) \/ DropRun(q) \/ DropPanic(q)
                  \/ DropDone(q)
           \/ \E k \in Closers : CloseCall(k) \/ CloseBarrier(k)
                  \/ ForceCancel(k) \/ DrainReturn(k) \/ DrainExpire(k)
           \/ ParentCancel
           \/ UNCHANGED vars
  BY <1>7, <1>8
     DEF SubmitEnter, SubmitStale, SubmitFull, SubmitSpawn, WorkerAcquire,
         FailDropped, WorkerRan, WorkerHookPanic, WorkerRelease, WorkerDone,
         DropRun, DropPanic, DropDone, CloseCall, CloseBarrier, ForceCancel,
         DrainReturn, DrainExpire, ParentCancel, vars, Current, Full,
         TokenFree, GateClear, queueVars, submitVars, workerVars, dropVars,
         closeVars
<1>9. QED
  BY <1>1, <1>2, <1>3, <1>4, <1>5, <1>6, <1>7, <1>8
     DEF Next, Submit, Worker, Dropper, Closer

LEMMA SubmitTypeStep == IInv /\ [Next]_vars => SubmitType'
<1> SUFFICES ASSUME IInv, [Next]_vars PROVE SubmitType'
  OBVIOUS
<1>1. ASSUME NEW t \in Tasks, SubmitEnter(t) PROVE SubmitType'
  BY <1>1 DEF IInv, TypeOK, QueueType, SubmitType, SubmitEnter
<1>2. ASSUME NEW t \in Tasks, SubmitLookup(t) PROVE SubmitType'
  <2>1. spc' = [spc EXCEPT ![t] = "lock"]
    BY <1>2 DEF SubmitLookup
  <2>2. \E q \in Queues \cup {Nil} : sq' = [sq EXCEPT ![t] = q]
    BY <1>2, DispatcherAssumption DEF SubmitLookup, IInv, TypeOK, QueueType
  <2>3. QED
    BY <2>1, <2>2 DEF IInv, TypeOK, SubmitType
<1>3. ASSUME NEW t \in Tasks, SubmitStale(t) PROVE SubmitType'
  BY <1>3 DEF IInv, TypeOK, QueueType, SubmitType, SubmitStale, Current
<1>4. ASSUME NEW t \in Tasks, SubmitFull(t) PROVE SubmitType'
  BY <1>4 DEF IInv, TypeOK, QueueType, SubmitType, SubmitFull, Current, Full
<1>5. ASSUME NEW t \in Tasks, SubmitPush(t) PROVE SubmitType'
  BY <1>5 DEF IInv, TypeOK, QueueType, SubmitType, SubmitPush, Current, Full
<1>6. ASSUME NEW t \in Tasks, SubmitSpawn(t) PROVE SubmitType'
  BY <1>6 DEF IInv, TypeOK, QueueType, SubmitType, SubmitSpawn
<1>7. CASE UNCHANGED submitVars
  BY <1>7 DEF IInv, TypeOK, SubmitType, submitVars
<1>8. CASE \/ \E q \in Queues : WorkerAcquire(q) \/ WorkerCancelled(q)
                  \/ WorkerRecover(q) \/ FailDropped(q) \/ WorkerEmpty(q)
                  \/ WorkerPop(q) \/ WorkerRan(q) \/ WorkerHookPanic(q)
                  \/ WorkerRelease(q) \/ WorkerDone(q) \/ DropRun(q)
                  \/ DropPanic(q) \/ DropDone(q)
           \/ \E k \in Closers : CloseCall(k) \/ CloseBarrier(k)
                  \/ ForceCancel(k) \/ DrainReturn(k) \/ DrainExpire(k)
           \/ ParentCancel
           \/ UNCHANGED vars
  BY <1>7, <1>8
     DEF WorkerAcquire, WorkerCancelled, WorkerRecover, FailDropped,
         WorkerEmpty, WorkerPop, WorkerRan, WorkerHookPanic, WorkerRelease,
         WorkerDone, DropRun, DropPanic, DropDone, CloseCall, CloseBarrier,
         ForceCancel, DrainReturn, DrainExpire, ParentCancel, vars,
         TokenFree, GiveUp, Unmap, GateClear, queueVars, submitVars,
         workerVars, dropVars, closeVars
<1>9. QED
  BY <1>1, <1>2, <1>3, <1>4, <1>5, <1>6, <1>7, <1>8
     DEF Next, Submit, Worker, Dropper, Closer

LEMMA WorkerTypeStep == IInv /\ [Next]_vars => WorkerType'
<1> SUFFICES ASSUME IInv, [Next]_vars PROVE WorkerType'
  OBVIOUS
<1>1. ASSUME NEW t \in Tasks, SubmitPush(t) PROVE WorkerType'
  BY <1>1 DEF IInv, TypeOK, QueueType, WorkerType, SubmitPush, Current, Full
<1>2. ASSUME NEW t \in Tasks, SubmitSpawn(t) PROVE WorkerType'
  BY <1>2 DEF IInv, TypeOK, QueueType, WorkerType, SubmitSpawn
<1>3. ASSUME NEW q \in Queues, WorkerAcquire(q) PROVE WorkerType'
  BY <1>3 DEF IInv, TypeOK, QueueType, WorkerType, WorkerAcquire, TokenFree
<1>4. ASSUME NEW q \in Queues, WorkerCancelled(q) PROVE WorkerType'
  BY <1>4
     DEF IInv, TypeOK, QueueType, WorkerType, WorkerCancelled, GiveUp, Unmap
<1>5. ASSUME NEW q \in Queues, WorkerRecover(q) PROVE WorkerType'
  BY <1>5
     DEF IInv, TypeOK, QueueType, WorkerType, WorkerRecover, GiveUp, Unmap
<1>6. ASSUME NEW q \in Queues, FailDropped(q) PROVE WorkerType'
  BY <1>6 DEF IInv, TypeOK, QueueType, WorkerType, FailDropped
<1>7. ASSUME NEW q \in Queues, WorkerEmpty(q) PROVE WorkerType'
  BY <1>7 DEF IInv, TypeOK, QueueType, WorkerType, WorkerEmpty, Unmap
<1>8. ASSUME NEW q \in Queues, WorkerPop(q) PROVE WorkerType'
  BY <1>8 DEF IInv, TypeOK, QueueType, WorkerType, WorkerPop
<1>9. ASSUME NEW q \in Queues, WorkerRan(q) PROVE WorkerType'
  BY <1>9 DEF IInv, TypeOK, QueueType, WorkerType, WorkerRan
<1>10. ASSUME NEW q \in Queues, WorkerHookPanic(q) PROVE WorkerType'
  BY <1>10 DEF IInv, TypeOK, QueueType, WorkerType, WorkerHookPanic
<1>11. ASSUME NEW q \in Queues, WorkerRelease(q) PROVE WorkerType'
  BY <1>11 DEF IInv, TypeOK, QueueType, WorkerType, WorkerRelease
<1>12. ASSUME NEW q \in Queues, WorkerDone(q) PROVE WorkerType'
  BY <1>12 DEF IInv, TypeOK, QueueType, WorkerType, WorkerDone
<1>13. CASE UNCHANGED <<workerVars, sem>>
  BY <1>13 DEF IInv, TypeOK, WorkerType, workerVars
<1>14. CASE \/ \E t \in Tasks : SubmitEnter(t) \/ SubmitLookup(t)
                   \/ SubmitStale(t) \/ SubmitFull(t)
            \/ \E q \in Queues : DropRun(q) \/ DropPanic(q) \/ DropDone(q)
            \/ \E k \in Closers : CloseCall(k) \/ CloseBarrier(k)
                   \/ ForceCancel(k) \/ DrainReturn(k) \/ DrainExpire(k)
            \/ ParentCancel
            \/ UNCHANGED vars
  BY <1>13, <1>14
     DEF SubmitEnter, SubmitLookup, SubmitStale, SubmitFull, DropRun,
         DropPanic, DropDone, CloseCall, CloseBarrier, ForceCancel,
         DrainReturn, DrainExpire, ParentCancel, vars, Current, Full,
         GateClear, queueVars, submitVars, workerVars, dropVars, closeVars
<1>15. QED
  BY <1>1, <1>2, <1>3, <1>4, <1>5, <1>6, <1>7, <1>8, <1>9, <1>10, <1>11,
     <1>12, <1>13, <1>14
     DEF Next, Submit, Worker, Dropper, Closer

LEMMA DropTypeStep == IInv /\ [Next]_vars => DropType'
<1> SUFFICES ASSUME IInv, [Next]_vars PROVE DropType'
  OBVIOUS
<1>1. ASSUME NEW t \in Tasks, SubmitPush(t) PROVE DropType'
  BY <1>1
     DEF IInv, TypeOK, QueueType, DropType, dropVars, SubmitPush, Current,
         Full
<1>2. ASSUME NEW q \in Queues, WorkerCancelled(q) PROVE DropType'
  BY <1>2
     DEF IInv, TypeOK, QueueType, DropType, dropVars, WorkerCancelled,
         GiveUp, Unmap
<1>3. ASSUME NEW q \in Queues, WorkerRecover(q) PROVE DropType'
  BY <1>3
     DEF IInv, TypeOK, QueueType, DropType, dropVars, WorkerRecover, GiveUp,
         Unmap
<1>4. ASSUME NEW q \in Queues, FailDropped(q) PROVE DropType'
  <2>1. dq' = dq
    BY <1>4 DEF FailDropped
  <2>2. CASE dq[q] = <<>>
    BY <1>4, <2>1, <2>2 DEF FailDropped, IInv, TypeOK, DropType
  <2>3. CASE dq[q] # <<>>
    BY <1>4, <2>1, <2>3 DEF FailDropped, IInv, TypeOK, DropType
  <2>4. QED
    BY <2>2, <2>3
<1>5. ASSUME NEW q \in Queues, WorkerDone(q) PROVE DropType'
  BY <1>5 DEF IInv, TypeOK, QueueType, DropType, dropVars, WorkerDone
<1>6. ASSUME NEW q \in Queues, DropRun(q) PROVE DropType'
  BY <1>6 DEF IInv, TypeOK, QueueType, DropType, dropVars, DropRun
<1>7. ASSUME NEW q \in Queues, DropPanic(q) PROVE DropType'
  BY <1>7 DEF IInv, TypeOK, QueueType, DropType, dropVars, DropPanic
<1>8. ASSUME NEW q \in Queues, DropDone(q) PROVE DropType'
  BY <1>8 DEF IInv, TypeOK, QueueType, DropType, dropVars, DropDone
<1>9. CASE UNCHANGED <<dropVars, wg>>
  BY <1>9 DEF IInv, TypeOK, DropType, dropVars
<1>10. CASE \/ \E t \in Tasks : SubmitEnter(t) \/ SubmitLookup(t)
                   \/ SubmitStale(t) \/ SubmitFull(t) \/ SubmitSpawn(t)
            \/ \E q \in Queues : WorkerAcquire(q) \/ WorkerEmpty(q)
                   \/ WorkerPop(q) \/ WorkerRan(q) \/ WorkerHookPanic(q)
                   \/ WorkerRelease(q)
            \/ \E k \in Closers : CloseCall(k) \/ CloseBarrier(k)
                   \/ ForceCancel(k) \/ DrainReturn(k) \/ DrainExpire(k)
            \/ ParentCancel
            \/ UNCHANGED vars
  BY <1>9, <1>10
     DEF SubmitEnter, SubmitLookup, SubmitStale, SubmitFull, SubmitSpawn,
         WorkerAcquire, WorkerEmpty, WorkerPop, WorkerRan, WorkerHookPanic,
         WorkerRelease, CloseCall, CloseBarrier, ForceCancel, DrainReturn,
         DrainExpire, ParentCancel, vars, Current, Full, TokenFree, Unmap,
         GateClear, queueVars, submitVars, workerVars, dropVars, closeVars
<1>11. QED
  BY <1>1, <1>2, <1>3, <1>4, <1>5, <1>6, <1>7, <1>8, <1>9, <1>10
     DEF Next, Submit, Worker, Dropper, Closer

LEMMA CloseTypeStep == IInv /\ [Next]_vars => CloseType'
<1> SUFFICES ASSUME IInv, [Next]_vars PROVE CloseType'
  OBVIOUS
<1>1. ASSUME NEW k \in Closers, CloseCall(k) PROVE CloseType'
  BY <1>1 DEF IInv, TypeOK, CloseType, Kinds, CloseCall
<1>2. ASSUME NEW k \in Closers, CloseBarrier(k) PROVE CloseType'
  BY <1>2 DEF IInv, TypeOK, CloseType, Kinds, CloseBarrier, GateClear
<1>3. ASSUME NEW k \in Closers, ForceCancel(k) PROVE CloseType'
  BY <1>3 DEF IInv, TypeOK, CloseType, Kinds, ForceCancel
<1>4. ASSUME NEW k \in Closers, DrainReturn(k) PROVE CloseType'
  BY <1>4 DEF IInv, TypeOK, CloseType, Kinds, DrainReturn
<1>5. ASSUME NEW k \in Closers, DrainExpire(k) PROVE CloseType'
  BY <1>5 DEF IInv, TypeOK, CloseType, Kinds, DrainExpire
<1>6. CASE ParentCancel
  BY <1>6 DEF IInv, TypeOK, CloseType, Kinds, ParentCancel
<1>7. CASE UNCHANGED closeVars
  BY <1>7 DEF IInv, TypeOK, CloseType, closeVars
<1>8. CASE \/ \E t \in Tasks : SubmitEnter(t) \/ SubmitLookup(t)
                  \/ SubmitStale(t) \/ SubmitFull(t) \/ SubmitPush(t)
                  \/ SubmitSpawn(t)
           \/ \E q \in Queues : WorkerAcquire(q) \/ WorkerCancelled(q)
                  \/ WorkerRecover(q) \/ WorkerEmpty(q)
                  \/ WorkerPop(q) \/ WorkerRan(q) \/ WorkerHookPanic(q)
                  \/ WorkerRelease(q) \/ WorkerDone(q) \/ DropRun(q)
                  \/ DropPanic(q) \/ DropDone(q)
           \/ UNCHANGED vars
  BY <1>7, <1>8
     DEF SubmitEnter, SubmitLookup, SubmitStale, SubmitFull, SubmitPush,
         SubmitSpawn, WorkerAcquire, WorkerCancelled, WorkerRecover,
         WorkerEmpty, WorkerPop, WorkerRan, WorkerHookPanic,
         WorkerRelease, WorkerDone, DropRun, DropPanic, DropDone, vars,
         Current, Full, TokenFree, GiveUp, Unmap, queueVars, submitVars,
         workerVars, dropVars, closeVars
<1>9. ASSUME NEW q \in Queues, FailDropped(q) PROVE CloseType'
  BY <1>7, <1>9 DEF FailDropped
<1>10. QED
  BY <1>1, <1>2, <1>3, <1>4, <1>5, <1>6, <1>7, <1>8, <1>9
     DEF Next, Submit, Worker, Dropper, Closer

LEMMA OutcomeTypeStep == IInv /\ [Next]_vars => OutcomeType'
<1> SUFFICES ASSUME IInv, [Next]_vars PROVE OutcomeType'
  OBVIOUS
<1>1. ASSUME NEW q \in Queues, WorkerRan(q) PROVE OutcomeType'
  BY <1>1
     DEF IInv, TypeOK, WorkerType, DropType, TaskInv, OutcomeType, WorkerRan
<1>2. ASSUME NEW q \in Queues, WorkerHookPanic(q) PROVE OutcomeType'
  BY <1>2
     DEF IInv, TypeOK, WorkerType, DropType, TaskInv, OutcomeType,
         WorkerHookPanic
<1>3. ASSUME NEW q \in Queues, DropRun(q) PROVE OutcomeType'
  BY <1>3
     DEF IInv, TypeOK, WorkerType, DropType, TaskInv, OutcomeType, DropRun
<1>4. ASSUME NEW q \in Queues, DropPanic(q) PROVE OutcomeType'
  BY <1>4
     DEF IInv, TypeOK, WorkerType, DropType, TaskInv, OutcomeType, DropPanic
<1>5. CASE UNCHANGED <<answered, lost, crashed>>
  BY <1>5 DEF IInv, TypeOK, OutcomeType
<1>6. CASE \/ \E t \in Tasks : SubmitEnter(t) \/ SubmitLookup(t)
                  \/ SubmitStale(t) \/ SubmitFull(t) \/ SubmitPush(t)
                  \/ SubmitSpawn(t)
           \/ \E q \in Queues : WorkerAcquire(q) \/ WorkerCancelled(q)
                  \/ WorkerRecover(q) \/ WorkerEmpty(q)
                  \/ WorkerPop(q) \/ WorkerRelease(q) \/ WorkerDone(q)
                  \/ DropDone(q)
           \/ \E k \in Closers : CloseCall(k) \/ CloseBarrier(k)
                  \/ ForceCancel(k) \/ DrainReturn(k) \/ DrainExpire(k)
           \/ ParentCancel
           \/ UNCHANGED vars
  BY <1>5, <1>6
     DEF SubmitEnter, SubmitLookup, SubmitStale, SubmitFull, SubmitPush,
         SubmitSpawn, WorkerAcquire, WorkerCancelled, WorkerRecover,
         WorkerEmpty, WorkerPop, WorkerRelease, WorkerDone,
         DropDone, CloseCall, CloseBarrier, ForceCancel, DrainReturn,
         DrainExpire, ParentCancel, vars, Current, Full, TokenFree, GiveUp,
         Unmap, GateClear, queueVars, submitVars, workerVars, dropVars,
         closeVars
<1>7. ASSUME NEW q \in Queues, FailDropped(q) PROVE OutcomeType'
  BY <1>7 DEF IInv, TypeOK, OutcomeType, FailDropped
<1>8. QED
  BY <1>1, <1>2, <1>3, <1>4, <1>5, <1>6, <1>7
     DEF Next, Submit, Worker, Dropper, Closer

LEMMA MapStep == IInv /\ [Next]_vars => MapInv'
<1> SUFFICES ASSUME IInv, [Next]_vars PROVE MapInv'
  OBVIOUS
<1>1. ASSUME NEW t \in Tasks, SubmitLookup(t) PROVE MapInv'
  BY <1>1, DispatcherAssumption
     DEF IInv, TypeOK, QueueType, MapInv, SubmitLookup, queueVars
<1>2. ASSUME NEW q \in Queues, WorkerCancelled(q) PROVE MapInv'
  BY <1>2, DispatcherAssumption
     DEF IInv, TypeOK, QueueType, MapInv, WorkerCancelled, GiveUp, Unmap
<1>3. ASSUME NEW q \in Queues, WorkerRecover(q) PROVE MapInv'
  BY <1>3, DispatcherAssumption
     DEF IInv, TypeOK, QueueType, MapInv, WorkerRecover, GiveUp, Unmap
<1>4. ASSUME NEW q \in Queues, WorkerEmpty(q) PROVE MapInv'
  BY <1>4, DispatcherAssumption
     DEF IInv, TypeOK, QueueType, MapInv, WorkerEmpty, Unmap
<1>5. CASE UNCHANGED qmap
  BY <1>5 DEF IInv, MapInv
<1>6. CASE \/ \E t \in Tasks : SubmitEnter(t) \/ SubmitStale(t)
                  \/ SubmitFull(t) \/ SubmitPush(t) \/ SubmitSpawn(t)
           \/ \E q \in Queues : WorkerAcquire(q) \/ FailDropped(q)
                  \/ WorkerPop(q) \/ WorkerRan(q) \/ WorkerHookPanic(q)
                  \/ WorkerRelease(q) \/ WorkerDone(q) \/ DropRun(q)
                  \/ DropPanic(q) \/ DropDone(q)
           \/ \E k \in Closers : CloseCall(k) \/ CloseBarrier(k)
                  \/ ForceCancel(k) \/ DrainReturn(k) \/ DrainExpire(k)
           \/ ParentCancel
           \/ UNCHANGED vars
  BY <1>5, <1>6
     DEF SubmitEnter, SubmitStale, SubmitFull, SubmitPush, SubmitSpawn,
         WorkerAcquire, FailDropped, WorkerPop, WorkerRan, WorkerHookPanic,
         WorkerRelease, WorkerDone, DropRun, DropPanic, DropDone, CloseCall,
         CloseBarrier, ForceCancel, DrainReturn, DrainExpire, ParentCancel,
         vars, Current, Full, TokenFree, GateClear, queueVars, submitVars,
         workerVars, dropVars, closeVars
<1>7. QED
  BY <1>1, <1>2, <1>3, <1>4, <1>5, <1>6
     DEF Next, Submit, Worker, Dropper, Closer

\* A worker leaves its queue: the queue is empty, unmarked and out of the map.
LEMMA LeaveQueue ==
  ASSUME IInv, NEW q \in Queues, NEW x, x \notin Serving, Serves(q), dpc' = dpc,
         qmap' = [qmap EXCEPT ![QueueChat[q]] = Nil],
         running' = [running EXCEPT ![q] = FALSE],
         buf' = [buf EXCEPT ![q] = <<>>],
         wpc' = [wpc EXCEPT ![q] = x]
  PROVE QueueInv'
<1> SUFFICES ASSUME NEW p \in Queues
             PROVE /\ running'[p] <=> Serves(p)'
                   /\ Serves(p)' => qmap'[QueueChat[p]] = p
                   /\ ~Serves(p)' => buf'[p] = <<>>
                   /\ qmap'[QueueChat[p]] = p /\ ~Serves(p)' => wpc'[p] = "none" /\ dpc'[p] = "none"
  BY DEF QueueInv
<1>1. QueueChat[p] \in Chats /\ QueueChat[q] \in Chats /\ p # Nil
  BY DispatcherAssumption
<1>2. CASE p = q
  BY <1>1, <1>2 DEF IInv, TypeOK, QueueType, WorkerType, Serves
<1>3. CASE p # q
  <2>1. running'[p] = running[p] /\ buf'[p] = buf[p] /\ wpc'[p] = wpc[p] /\ Serves(p)' = Serves(p)
    BY <1>3 DEF IInv, TypeOK, QueueType, WorkerType, Serves
  <2>2. Serves(p) => QueueChat[p] # QueueChat[q]
    BY <1>3 DEF IInv, QueueInv
  <2>3. qmap'[QueueChat[p]] \in {Nil, qmap[QueueChat[p]]}
        /\ (QueueChat[p] # QueueChat[q] => qmap'[QueueChat[p]] = qmap[QueueChat[p]])
    BY <1>1 DEF IInv, TypeOK, QueueType
  <2>4. QED
    BY <1>1, <2>1, <2>2, <2>3 DEF IInv, QueueInv
<1>4. QED
  BY <1>2, <1>3

LEMMA QueueStep == IInv /\ [Next]_vars => QueueInv'
<1> SUFFICES ASSUME IInv, [Next]_vars PROVE QueueInv'
  OBVIOUS
<1>1. ASSUME NEW t \in Tasks, SubmitLookup(t) PROVE QueueInv'
  BY <1>1, DispatcherAssumption
     DEF IInv, TypeOK, QueueType, SubmitType, WorkerType, DropType, MapInv,
         QueueInv, Serves, Serving, dropVars, SubmitLookup, Fresh,
         queueVars, workerVars
<1>2. ASSUME NEW t \in Tasks, SubmitPush(t) PROVE QueueInv'
  BY <1>2, DispatcherAssumption
     DEF IInv, TypeOK, QueueType, SubmitType, WorkerType, DropType, MapInv,
         QueueInv, Serves, Serving, dropVars, SubmitPush, Current, Full,
         SubmitInv
<1>3. ASSUME NEW t \in Tasks, SubmitSpawn(t) PROVE QueueInv'
  BY <1>3, DispatcherAssumption
     DEF IInv, TypeOK, QueueType, SubmitType, WorkerType, DropType, MapInv,
         QueueInv, Serves, Serving, dropVars, SubmitSpawn, SubmitInv,
         queueVars
<1>4. ASSUME NEW q \in Queues, WorkerAcquire(q) PROVE QueueInv'
  BY <1>4, DispatcherAssumption
     DEF IInv, TypeOK, QueueType, SubmitType, WorkerType, DropType, MapInv,
         QueueInv, Serves, Serving, dropVars, WorkerAcquire, TokenFree,
         queueVars
<1>5. ASSUME NEW q \in Queues, WorkerCancelled(q) PROVE QueueInv'
  <2>1. Serves(q) /\ dpc' = dpc /\ "fail" \notin Serving
    BY <1>5 DEF WorkerCancelled, Serves, Serving, dropVars
  <2>2. qmap[QueueChat[q]] = q
    BY <2>1 DEF IInv, QueueInv
  <2>3. qmap' = [qmap EXCEPT ![QueueChat[q]] = Nil]
        /\ running' = [running EXCEPT ![q] = FALSE]
        /\ wpc' = [wpc EXCEPT ![q] = "fail"]
    BY <1>5, <2>2 DEF WorkerCancelled, GiveUp, Unmap
  <2>4. buf' = [buf EXCEPT ![q] = <<>>]
    BY <1>5 DEF WorkerCancelled, GiveUp, IInv, TypeOK, QueueType
  <2>5. QED
    BY <2>1, <2>3, <2>4, LeaveQueue
<1>6. ASSUME NEW q \in Queues, WorkerRecover(q) PROVE QueueInv'
  <2>1. Serves(q) /\ dpc' = dpc /\ "failTok" \notin Serving
    BY <1>6 DEF WorkerRecover, Serves, Serving, dropVars
  <2>2. qmap[QueueChat[q]] = q
    BY <2>1 DEF IInv, QueueInv
  <2>3. qmap' = [qmap EXCEPT ![QueueChat[q]] = Nil]
        /\ running' = [running EXCEPT ![q] = FALSE]
        /\ wpc' = [wpc EXCEPT ![q] = "failTok"]
    BY <1>6, <2>2 DEF WorkerRecover, GiveUp, Unmap
  <2>4. buf' = [buf EXCEPT ![q] = <<>>]
    BY <1>6 DEF WorkerRecover, GiveUp, IInv, TypeOK, QueueType
  <2>5. QED
    BY <2>1, <2>3, <2>4, LeaveQueue
<1>7. ASSUME NEW q \in Queues, FailDropped(q) PROVE QueueInv'
  BY <1>7, DispatcherAssumption
     DEF IInv, TypeOK, QueueType, SubmitType, WorkerType, DropType, MapInv,
         QueueInv, Serves, Serving, dropVars, FailDropped, queueVars
<1>8. ASSUME NEW q \in Queues, WorkerEmpty(q) PROVE QueueInv'
  <2>1. Serves(q) /\ dpc' = dpc /\ "release" \notin Serving
    BY <1>8 DEF WorkerEmpty, Serves, Serving, dropVars
  <2>2. qmap[QueueChat[q]] = q
    BY <2>1 DEF IInv, QueueInv
  <2>3. qmap' = [qmap EXCEPT ![QueueChat[q]] = Nil]
        /\ running' = [running EXCEPT ![q] = FALSE]
        /\ wpc' = [wpc EXCEPT ![q] = "release"]
    BY <1>8, <2>2 DEF WorkerEmpty, GiveUp, Unmap
  <2>4. buf' = [buf EXCEPT ![q] = <<>>]
    BY <1>8 DEF WorkerEmpty, GiveUp, IInv, TypeOK, QueueType
  <2>5. QED
    BY <2>1, <2>3, <2>4, LeaveQueue
<1>9. ASSUME NEW q \in Queues, WorkerPop(q) PROVE QueueInv'
  BY <1>9, DispatcherAssumption
     DEF IInv, TypeOK, QueueType, SubmitType, WorkerType, DropType, MapInv,
         QueueInv, Serves, Serving, dropVars, WorkerPop
<1>10. ASSUME NEW q \in Queues, WorkerRan(q) PROVE QueueInv'
  BY <1>10, DispatcherAssumption
     DEF IInv, TypeOK, QueueType, SubmitType, WorkerType, DropType, MapInv,
         QueueInv, Serves, Serving, dropVars, WorkerRan, queueVars
<1>11. ASSUME NEW q \in Queues, WorkerHookPanic(q) PROVE QueueInv'
  BY <1>11, DispatcherAssumption
     DEF IInv, TypeOK, QueueType, SubmitType, WorkerType, DropType, MapInv,
         QueueInv, Serves, Serving, dropVars, WorkerHookPanic, queueVars
<1>12. ASSUME NEW q \in Queues, WorkerRelease(q) PROVE QueueInv'
  BY <1>12, DispatcherAssumption
     DEF IInv, TypeOK, QueueType, SubmitType, WorkerType, DropType, MapInv,
         QueueInv, Serves, Serving, dropVars, WorkerRelease, queueVars
<1>13. ASSUME NEW q \in Queues, WorkerDone(q) PROVE QueueInv'
  BY <1>13, DispatcherAssumption
     DEF IInv, TypeOK, QueueType, SubmitType, WorkerType, DropType, MapInv,
         QueueInv, Serves, Serving, dropVars, WorkerDone, queueVars
<1>14. ASSUME NEW q \in Queues, DropDone(q) PROVE QueueInv'
  BY <1>14, DispatcherAssumption
     DEF IInv, TypeOK, QueueType, SubmitType, WorkerType, DropType, MapInv,
         QueueInv, Serves, Serving, dropVars, DropDone, queueVars,
         workerVars
<1>15. CASE UNCHANGED <<qmap, buf, running, wpc, dpc>>
  BY <1>15 DEF IInv, QueueInv, Serves
<1>16. CASE \/ \E t \in Tasks : SubmitEnter(t) \/ SubmitStale(t)
                   \/ SubmitFull(t)
            \/ \E q \in Queues : DropRun(q) \/ DropPanic(q)
            \/ \E k \in Closers : CloseCall(k) \/ CloseBarrier(k)
                   \/ ForceCancel(k) \/ DrainReturn(k) \/ DrainExpire(k)
            \/ ParentCancel
            \/ UNCHANGED vars
  BY <1>15, <1>16
     DEF SubmitEnter, SubmitStale, SubmitFull, DropRun, DropPanic,
         CloseCall, CloseBarrier, ForceCancel, DrainReturn, DrainExpire,
         ParentCancel, vars, Current, Full, GateClear, queueVars,
         submitVars, workerVars, dropVars, closeVars
<1>17. QED
  BY <1>1, <1>2, <1>3, <1>4, <1>5, <1>6, <1>7, <1>8, <1>9, <1>10, <1>11,
     <1>12, <1>13, <1>14, <1>15, <1>16
     DEF Next, Submit, Worker, Dropper, Closer

LEMMA SubmitStep == IInv /\ [Next]_vars => SubmitInv'
<1> SUFFICES ASSUME IInv, [Next]_vars PROVE SubmitInv'
  OBVIOUS
<1>1. ASSUME NEW t \in Tasks, SubmitEnter(t) PROVE SubmitInv'
  BY <1>1, DispatcherAssumption
     DEF IInv, TypeOK, QueueType, SubmitType, WorkerType, SubmitInv,
         SubmitEnter, workerVars
<1>2. ASSUME NEW t \in Tasks, SubmitLookup(t) PROVE SubmitInv'
  <2> DEFINE q == sq'[t]
  <2>1. q \in Queues /\ QueueChat[q] = ChatOf[t]
    BY <1>2, DispatcherAssumption
       DEF SubmitLookup, IInv, TypeOK, QueueType, SubmitType, MapInv
  <2>2. spc' = [spc EXCEPT ![t] = "lock"] /\ sq' = [sq EXCEPT ![t] = q] /\ wpc' = wpc
    BY <1>2 DEF SubmitLookup, IInv, TypeOK, SubmitType, workerVars
  <2> HIDE DEF q
  <2>3. QED
    BY <1>2, <2>1, <2>2, DispatcherAssumption
       DEF SubmitLookup, IInv, TypeOK, SubmitType, SubmitInv
<1>3. ASSUME NEW t \in Tasks, SubmitStale(t) PROVE SubmitInv'
  BY <1>3, DispatcherAssumption
     DEF IInv, TypeOK, QueueType, SubmitType, WorkerType, SubmitInv,
         SubmitStale, Current, workerVars
<1>4. ASSUME NEW t \in Tasks, SubmitFull(t) PROVE SubmitInv'
  BY <1>4, DispatcherAssumption
     DEF IInv, TypeOK, QueueType, SubmitType, WorkerType, SubmitInv,
         SubmitFull, Current, Full, workerVars
<1>5. ASSUME NEW t \in Tasks, SubmitPush(t) PROVE SubmitInv'
  <2> DEFINE q == sq[t]
  <2>1. q \in Queues
    BY <1>5 DEF SubmitPush, Current, Full, IInv, TypeOK, SubmitType, SubmitInv
  <2>2. CASE running[q]
    BY <1>5, <2>2 DEF SubmitPush, Current, Full, IInv, TypeOK, SubmitType, SubmitInv
  <2>3. CASE ~running[q]
    <3>1. wpc[q] # "spawned"
      BY <2>1, <2>3 DEF IInv, QueueInv, Serves, Serving
    <3>2. spc' = [spc EXCEPT ![t] = "spawn"] /\ sq' = sq
          /\ wpc' = [wpc EXCEPT ![q] = "spawned"]
      BY <1>5, <2>3 DEF SubmitPush, Current, Full
    <3>3. QED
      BY <1>5, <2>1, <3>1, <3>2
         DEF SubmitPush, Current, Full, IInv, TypeOK, SubmitType, WorkerType, SubmitInv
  <2>4. QED
    BY <2>2, <2>3
<1>6. ASSUME NEW t \in Tasks, SubmitSpawn(t) PROVE SubmitInv'
  BY <1>6, DispatcherAssumption
     DEF IInv, TypeOK, QueueType, SubmitType, WorkerType, SubmitInv,
         SubmitSpawn
<1>7. ASSUME NEW q \in Queues, WorkerAcquire(q) PROVE SubmitInv'
  BY <1>7, DispatcherAssumption
     DEF IInv, TypeOK, QueueType, SubmitType, WorkerType, SubmitInv,
         WorkerAcquire, TokenFree, submitVars
<1>8. ASSUME NEW q \in Queues, WorkerCancelled(q) PROVE SubmitInv'
  BY <1>8, DispatcherAssumption
     DEF IInv, TypeOK, QueueType, SubmitType, WorkerType, SubmitInv,
         WorkerCancelled, GiveUp, Unmap, submitVars
<1>9. ASSUME NEW q \in Queues, WorkerRecover(q) PROVE SubmitInv'
  BY <1>9, DispatcherAssumption
     DEF IInv, TypeOK, QueueType, SubmitType, WorkerType, SubmitInv,
         WorkerRecover, GiveUp, Unmap, submitVars
<1>10. ASSUME NEW q \in Queues, FailDropped(q) PROVE SubmitInv'
  BY <1>10, DispatcherAssumption
     DEF IInv, TypeOK, QueueType, SubmitType, WorkerType, SubmitInv,
         FailDropped, submitVars
<1>11. ASSUME NEW q \in Queues, WorkerEmpty(q) PROVE SubmitInv'
  BY <1>11, DispatcherAssumption
     DEF IInv, TypeOK, QueueType, SubmitType, WorkerType, SubmitInv,
         WorkerEmpty, Unmap, submitVars
<1>12. ASSUME NEW q \in Queues, WorkerPop(q) PROVE SubmitInv'
  BY <1>12, DispatcherAssumption
     DEF IInv, TypeOK, QueueType, SubmitType, WorkerType, SubmitInv,
         WorkerPop, submitVars
<1>13. ASSUME NEW q \in Queues, WorkerRan(q) PROVE SubmitInv'
  BY <1>13, DispatcherAssumption
     DEF IInv, TypeOK, QueueType, SubmitType, WorkerType, SubmitInv,
         WorkerRan, submitVars
<1>14. ASSUME NEW q \in Queues, WorkerHookPanic(q) PROVE SubmitInv'
  BY <1>14, DispatcherAssumption
     DEF IInv, TypeOK, QueueType, SubmitType, WorkerType, SubmitInv,
         WorkerHookPanic, submitVars
<1>15. ASSUME NEW q \in Queues, WorkerRelease(q) PROVE SubmitInv'
  BY <1>15, DispatcherAssumption
     DEF IInv, TypeOK, QueueType, SubmitType, WorkerType, SubmitInv,
         WorkerRelease, submitVars
<1>16. ASSUME NEW q \in Queues, WorkerDone(q) PROVE SubmitInv'
  BY <1>16, DispatcherAssumption
     DEF IInv, TypeOK, QueueType, SubmitType, WorkerType, SubmitInv,
         WorkerDone, submitVars
<1>17. CASE UNCHANGED <<spc, sq, wpc>>
  BY <1>17 DEF IInv, SubmitInv
<1>18. CASE \/ \E q \in Queues : DropRun(q) \/ DropPanic(q) \/ DropDone(q)
            \/ \E k \in Closers : CloseCall(k) \/ CloseBarrier(k)
                   \/ ForceCancel(k) \/ DrainReturn(k) \/ DrainExpire(k)
            \/ ParentCancel
            \/ UNCHANGED vars
  BY <1>17, <1>18
     DEF DropRun, DropPanic, DropDone, CloseCall, CloseBarrier, ForceCancel,
         DrainReturn, DrainExpire, ParentCancel, vars, GateClear, queueVars,
         submitVars, workerVars, dropVars, closeVars
<1>19. QED
  BY <1>1, <1>2, <1>3, <1>4, <1>5, <1>6, <1>7, <1>8, <1>9, <1>10, <1>11,
     <1>12, <1>13, <1>14, <1>15, <1>16, <1>17, <1>18
     DEF Next, Submit, Worker, Dropper, Closer

LEMMA TaskStep == IInv /\ [Next]_vars => TaskInv'
<1> SUFFICES ASSUME IInv, [Next]_vars PROVE TaskInv'
  OBVIOUS
<1>1. ASSUME NEW t \in Tasks, SubmitPush(t) PROVE TaskInv'
  <2> DEFINE q == sq[t]
  <2>1. q \in Queues /\ qmap[QueueChat[q]] = q
    BY <1>1 DEF SubmitPush, Current, Full, IInv, TypeOK, SubmitType, SubmitInv
  <2>2. wtask' = wtask /\ dq' = dq /\ dpc' = dpc
        /\ (wpc' = wpc \/ (~running[q] /\ wpc' = [wpc EXCEPT ![q] = "spawned"]))
    BY <1>1 DEF SubmitPush, Current, Full, dropVars
  <2>3. ~running[q] => wpc[q] = "none" /\ dpc[q] = "none"
    BY <2>1 DEF IInv, QueueInv
  <2> HIDE DEF q
  <2>4. QED
    BY <2>1, <2>2, <2>3 DEF IInv, TypeOK, WorkerType, DropType, TaskInv
<1>2. ASSUME NEW t \in Tasks, SubmitSpawn(t) PROVE TaskInv'
  BY <1>2, DispatcherAssumption
     DEF IInv, TypeOK, QueueType, SubmitType, WorkerType, DropType, TaskInv,
         dropVars, workerVars, SubmitSpawn, SubmitInv
<1>3. ASSUME NEW q \in Queues, WorkerAcquire(q) PROVE TaskInv'
  BY <1>3, DispatcherAssumption
     DEF IInv, TypeOK, QueueType, SubmitType, WorkerType, DropType, TaskInv,
         dropVars, workerVars, WorkerAcquire, TokenFree
<1>4. ASSUME NEW q \in Queues, WorkerCancelled(q) PROVE TaskInv'
  BY <1>4, DispatcherAssumption
     DEF IInv, TypeOK, QueueType, SubmitType, WorkerType, DropType, TaskInv,
         dropVars, workerVars, WorkerCancelled, GiveUp, Unmap
<1>5. ASSUME NEW q \in Queues, WorkerRecover(q) PROVE TaskInv'
  BY <1>5, DispatcherAssumption
     DEF IInv, TypeOK, QueueType, SubmitType, WorkerType, DropType, TaskInv,
         dropVars, workerVars, WorkerRecover, GiveUp, Unmap
<1>6. ASSUME NEW q \in Queues, FailDropped(q) PROVE TaskInv'
  BY <1>6, DispatcherAssumption
     DEF IInv, TypeOK, QueueType, SubmitType, WorkerType, DropType, TaskInv,
         dropVars, workerVars, FailDropped
<1>7. ASSUME NEW q \in Queues, WorkerEmpty(q) PROVE TaskInv'
  BY <1>7, DispatcherAssumption
     DEF IInv, TypeOK, QueueType, SubmitType, WorkerType, DropType, TaskInv,
         dropVars, workerVars, WorkerEmpty, Unmap
<1>8. ASSUME NEW q \in Queues, WorkerPop(q) PROVE TaskInv'
  BY <1>8, DispatcherAssumption
     DEF IInv, TypeOK, QueueType, SubmitType, WorkerType, DropType, TaskInv,
         dropVars, workerVars, WorkerPop
<1>9. ASSUME NEW q \in Queues, WorkerRan(q) PROVE TaskInv'
  BY <1>9, DispatcherAssumption
     DEF IInv, TypeOK, QueueType, SubmitType, WorkerType, DropType, TaskInv,
         dropVars, workerVars, WorkerRan
<1>10. ASSUME NEW q \in Queues, WorkerHookPanic(q) PROVE TaskInv'
  BY <1>10, DispatcherAssumption
     DEF IInv, TypeOK, QueueType, SubmitType, WorkerType, DropType, TaskInv,
         dropVars, workerVars, WorkerHookPanic
<1>11. ASSUME NEW q \in Queues, WorkerRelease(q) PROVE TaskInv'
  BY <1>11, DispatcherAssumption
     DEF IInv, TypeOK, QueueType, SubmitType, WorkerType, DropType, TaskInv,
         dropVars, workerVars, WorkerRelease
<1>12. ASSUME NEW q \in Queues, WorkerDone(q) PROVE TaskInv'
  BY <1>12, DispatcherAssumption
     DEF IInv, TypeOK, QueueType, SubmitType, WorkerType, DropType, TaskInv,
         dropVars, workerVars, WorkerDone
<1>13. ASSUME NEW q \in Queues, DropRun(q) PROVE TaskInv'
  BY <1>13, DispatcherAssumption
     DEF IInv, TypeOK, QueueType, SubmitType, WorkerType, DropType, TaskInv,
         dropVars, workerVars, DropRun
<1>14. ASSUME NEW q \in Queues, DropPanic(q) PROVE TaskInv'
  BY <1>14, DispatcherAssumption
     DEF IInv, TypeOK, QueueType, SubmitType, WorkerType, DropType, TaskInv,
         dropVars, workerVars, DropPanic
<1>15. ASSUME NEW q \in Queues, DropDone(q) PROVE TaskInv'
  BY <1>15, DispatcherAssumption
     DEF IInv, TypeOK, QueueType, SubmitType, WorkerType, DropType, TaskInv,
         dropVars, workerVars, DropDone
<1>16. CASE UNCHANGED <<wpc, wtask, dq, dpc>>
  BY <1>16 DEF IInv, TaskInv
<1>17. CASE \/ \E t \in Tasks : SubmitEnter(t) \/ SubmitLookup(t)
                   \/ SubmitStale(t) \/ SubmitFull(t)
            \/ \E k \in Closers : CloseCall(k) \/ CloseBarrier(k)
                   \/ ForceCancel(k) \/ DrainReturn(k) \/ DrainExpire(k)
            \/ ParentCancel
            \/ UNCHANGED vars
  BY <1>16, <1>17
     DEF SubmitEnter, SubmitLookup, SubmitStale, SubmitFull, CloseCall,
         CloseBarrier, ForceCancel, DrainReturn, DrainExpire, ParentCancel,
         vars, Current, Full, GateClear, queueVars, submitVars, workerVars,
         dropVars, closeVars
<1>18. QED
  BY <1>1, <1>2, <1>3, <1>4, <1>5, <1>6, <1>7, <1>8, <1>9, <1>10, <1>11,
     <1>12, <1>13, <1>14, <1>15, <1>16, <1>17
     DEF Next, Submit, Worker, Dropper, Closer

LEMMA AccountFrame ==
  ASSUME IInv, Accepted' \subseteq Accepted,
         \A u \in Tasks : Somewhere(u) => Somewhere(u)'
  PROVE AccountInv'
  BY DEF IInv, AccountInv, Accepted

LEMMA AccountStep == IInv /\ [Next]_vars => AccountInv'
<1> SUFFICES ASSUME IInv, [Next]_vars PROVE AccountInv'
  OBVIOUS
<1>1. ASSUME NEW t \in Tasks, SubmitEnter(t) PROVE AccountInv'
  <2>1. Accepted' \subseteq Accepted /\ UNCHANGED <<answered, lost, buf, wtask, dq>>
    BY <1>1 DEF IInv, TypeOK, SubmitType, Accepted, SubmitEnter, queueVars, workerVars, dropVars
  <2>2. QED
    BY <2>1, AccountFrame DEF Somewhere
<1>2. ASSUME NEW t \in Tasks, SubmitLookup(t) PROVE AccountInv'
  <2>1. Accepted' \subseteq Accepted /\ UNCHANGED <<answered, lost, wtask, dq>>
    BY <1>2 DEF IInv, TypeOK, SubmitType, Accepted, SubmitLookup, workerVars, dropVars
  <2>2. buf' = buf
    <3>1. CASE UNCHANGED queueVars
      BY <3>1 DEF queueVars
    <3>2. ASSUME NEW q \in Queues, Fresh(q), buf' = [buf EXCEPT ![q] = <<>>]
          PROVE buf' = buf
      <4>1. buf[q] = <<>>
        BY <3>2 DEF Fresh, IInv, QueueInv, Serves, Serving
      <4>2. QED
        BY <3>2, <4>1 DEF IInv, TypeOK, QueueType
    <3>3. QED
      BY <1>2, <3>1, <3>2 DEF SubmitLookup
  <2>3. QED
    BY <2>1, <2>2, AccountFrame DEF Somewhere
<1>3. ASSUME NEW t \in Tasks, SubmitStale(t) PROVE AccountInv'
  <2>1. Accepted' \subseteq Accepted /\ UNCHANGED <<answered, lost, buf, wtask, dq>>
    BY <1>3 DEF IInv, TypeOK, SubmitType, Accepted, SubmitStale, queueVars, workerVars, dropVars
  <2>2. QED
    BY <2>1, AccountFrame DEF Somewhere
<1>4. ASSUME NEW t \in Tasks, SubmitFull(t) PROVE AccountInv'
  <2>1. Accepted' \subseteq Accepted /\ UNCHANGED <<answered, lost, buf, wtask, dq>>
    BY <1>4 DEF IInv, TypeOK, SubmitType, Accepted, SubmitFull, queueVars, workerVars, dropVars
  <2>2. QED
    BY <2>1, AccountFrame DEF Somewhere
<1>5. ASSUME NEW t \in Tasks, SubmitPush(t) PROVE AccountInv'
  <2> DEFINE q == sq[t]
  <2>1. q \in Queues /\ buf[q] \in Seq(Tasks)
    BY <1>5 DEF SubmitPush, Current, Full, IInv, TypeOK, QueueType, SubmitType, SubmitInv
  <2>2. Accepted' \subseteq Accepted \cup {t} /\ UNCHANGED <<answered, lost, wtask, dq>>
        /\ buf' = [buf EXCEPT ![q] = Append(@, t)]
    BY <1>5 DEF IInv, TypeOK, SubmitType, Accepted, SubmitPush, Current, Full, dropVars
  <2>3. TasksIn(Append(buf[q], t)) = TasksIn(buf[q]) \cup {t}
    BY <2>1, TasksInAppend
  <2> HIDE DEF q
  <2>4. ASSUME NEW u \in Tasks, Somewhere(u) \/ u = t PROVE Somewhere(u)'
    BY <2>1, <2>2, <2>3, <2>4 DEF Somewhere, IInv, TypeOK, QueueType
  <2>5. QED
    BY <2>2, <2>4 DEF IInv, AccountInv, Accepted
<1>6. ASSUME NEW t \in Tasks, SubmitSpawn(t) PROVE AccountInv'
  <2>1. Accepted' \subseteq Accepted /\ UNCHANGED <<answered, lost, buf, wtask, dq>>
    BY <1>6 DEF IInv, TypeOK, SubmitType, Accepted, SubmitSpawn, queueVars, workerVars, dropVars
  <2>2. QED
    BY <2>1, AccountFrame DEF Somewhere
<1>7. ASSUME NEW q \in Queues, WorkerCancelled(q) PROVE AccountInv'
  <2>1. dq[q] = <<>> /\ wtask' = wtask /\ answered' = answered /\ lost' = lost /\ spc' = spc
    BY <1>7 DEF IInv, TaskInv, WorkerCancelled, submitVars
  <2>2. buf' = [buf EXCEPT ![q] = <<>>] /\ dq' = [dq EXCEPT ![q] = buf[q]]
    BY <1>7 DEF WorkerCancelled, GiveUp
  <2>3. ASSUME NEW u \in Tasks, Somewhere(u) PROVE Somewhere(u)'
    BY <2>1, <2>2, <2>3, EmptyQueue DEF Somewhere, IInv, TypeOK, QueueType, DropType
  <2>4. QED
    BY <2>1, <2>3, AccountFrame DEF Accepted
<1>8. ASSUME NEW q \in Queues, WorkerRecover(q) PROVE AccountInv'
  <2>1. dq[q] = <<>> /\ wtask' = wtask /\ answered' = answered /\ lost' = lost /\ spc' = spc
    BY <1>8 DEF IInv, TaskInv, WorkerRecover, submitVars
  <2>2. buf' = [buf EXCEPT ![q] = <<>>] /\ dq' = [dq EXCEPT ![q] = buf[q]]
    BY <1>8 DEF WorkerRecover, GiveUp
  <2>3. ASSUME NEW u \in Tasks, Somewhere(u) PROVE Somewhere(u)'
    BY <2>1, <2>2, <2>3, EmptyQueue DEF Somewhere, IInv, TypeOK, QueueType, DropType
  <2>4. QED
    BY <2>1, <2>3, AccountFrame DEF Accepted
<1>9. ASSUME NEW q \in Queues, WorkerPop(q) PROVE AccountInv'
  <2>1. TasksIn(buf[q]) = {Head(buf[q])} \cup TasksIn(Tail(buf[q]))
    BY <1>9, TasksInTail DEF IInv, TypeOK, QueueType, WorkerPop
  <2>2. UNCHANGED <<spc, answered, lost, dq>> /\ wtask' = [wtask EXCEPT ![q] = Head(buf[q])]
        /\ buf' = [buf EXCEPT ![q] = Tail(@)]
    BY <1>9 DEF WorkerPop, submitVars, dropVars
  <2>3. wtask[q] = Nil
    BY <1>9 DEF IInv, TaskInv, WorkerPop
  <2>4. ASSUME NEW u \in Tasks, Somewhere(u) PROVE Somewhere(u)'
    BY <2>1, <2>2, <2>3, <2>4, DispatcherAssumption
       DEF Somewhere, IInv, TypeOK, QueueType, WorkerType
  <2>5. QED
    BY <2>2, <2>4, AccountFrame DEF Accepted
<1>10. ASSUME NEW q \in Queues, WorkerRan(q) PROVE AccountInv'
  <2>1. UNCHANGED <<spc, buf, dq, lost>> /\ answered' = answered \cup {wtask[q]}
        /\ wtask' = [wtask EXCEPT ![q] = Nil]
    BY <1>10 DEF WorkerRan, queueVars, submitVars, dropVars
  <2>2. ASSUME NEW u \in Tasks, Somewhere(u) PROVE Somewhere(u)'
    BY <2>1, <2>2 DEF Somewhere, IInv, TypeOK, WorkerType
  <2>3. QED
    BY <2>1, <2>2, AccountFrame DEF Accepted
<1>11. ASSUME NEW q \in Queues, WorkerHookPanic(q) PROVE AccountInv'
  <2>1. UNCHANGED <<spc, buf, dq, answered>> /\ lost' = lost \cup {wtask[q]}
        /\ wtask' = [wtask EXCEPT ![q] = Nil]
    BY <1>11 DEF WorkerHookPanic, queueVars, submitVars, dropVars
  <2>2. ASSUME NEW u \in Tasks, Somewhere(u) PROVE Somewhere(u)'
    BY <2>1, <2>2 DEF Somewhere, IInv, TypeOK, WorkerType
  <2>3. QED
    BY <2>1, <2>2, AccountFrame DEF Accepted
<1>12. ASSUME NEW q \in Queues, DropRun(q) PROVE AccountInv'
  <2>1. TasksIn(dq[q]) = {Head(dq[q])} \cup TasksIn(Tail(dq[q]))
    BY <1>12, TasksInTail DEF IInv, TypeOK, DropType, DropRun
  <2>2. UNCHANGED <<spc, buf, wtask, lost>> /\ answered' = answered \cup {Head(dq[q])}
        /\ dq' = [dq EXCEPT ![q] = Tail(@)]
    BY <1>12 DEF DropRun, queueVars, submitVars, workerVars
  <2>3. ASSUME NEW u \in Tasks, Somewhere(u) PROVE Somewhere(u)'
    BY <2>1, <2>2, <2>3 DEF Somewhere, IInv, TypeOK, DropType
  <2>4. QED
    BY <2>2, <2>3, AccountFrame DEF Accepted
<1>13. ASSUME NEW q \in Queues, DropPanic(q) PROVE AccountInv'
  <2>1. TasksIn(dq[q]) = {Head(dq[q])} \cup TasksIn(Tail(dq[q]))
    BY <1>13, TasksInTail DEF IInv, TypeOK, DropType, DropPanic
  <2>2. UNCHANGED <<spc, buf, wtask, lost>> /\ answered' = answered \cup {Head(dq[q])}
        /\ dq' = [dq EXCEPT ![q] = Tail(@)]
    BY <1>13 DEF DropPanic, queueVars, submitVars, workerVars
  <2>3. ASSUME NEW u \in Tasks, Somewhere(u) PROVE Somewhere(u)'
    BY <2>1, <2>2, <2>3 DEF Somewhere, IInv, TypeOK, DropType
  <2>4. QED
    BY <2>2, <2>3, AccountFrame DEF Accepted
<1>14. CASE UNCHANGED <<spc, answered, lost, buf, wtask, dq>>
  BY <1>14 DEF IInv, AccountInv, Accepted, Somewhere
<1>15. CASE \/ \E q \in Queues : WorkerAcquire(q) \/ FailDropped(q)
                   \/ WorkerEmpty(q) \/ WorkerRelease(q) \/ WorkerDone(q)
                   \/ DropDone(q)
            \/ \E k \in Closers : CloseCall(k) \/ CloseBarrier(k)
                   \/ ForceCancel(k) \/ DrainReturn(k) \/ DrainExpire(k)
            \/ ParentCancel
            \/ UNCHANGED vars
  BY <1>14, <1>15
     DEF WorkerAcquire, FailDropped, WorkerEmpty, WorkerRelease, WorkerDone,
         DropDone, CloseCall, CloseBarrier, ForceCancel, DrainReturn,
         DrainExpire, ParentCancel, vars, TokenFree, Unmap, GateClear,
         queueVars, submitVars, workerVars, dropVars, closeVars
<1>16. QED
  BY <1>1, <1>2, <1>3, <1>4, <1>5, <1>6, <1>7, <1>8, <1>9, <1>10, <1>11,
     <1>12, <1>13, <1>14, <1>15
     DEF Next, Submit, Worker, Dropper, Closer

LEMMA CountFrame ==
  ASSUME IInv, UNCHANGED <<wg, sem>>,
         Workers' = Workers, Droppers' = Droppers, Holders' = Holders
  PROVE CountInv'
  BY DEF IInv, CountInv

LEMMA CountStep == IInv /\ [Next]_vars => CountInv'
<1> SUFFICES ASSUME IInv, [Next]_vars PROVE CountInv'
  OBVIOUS
<1>1. ASSUME NEW t \in Tasks, SubmitPush(t) PROVE CountInv'
  <2> DEFINE q == sq[t]
  <2>1. q \in Queues /\ qmap[QueueChat[q]] = q
    BY <1>1 DEF SubmitPush, Current, Full, IInv, TypeOK, SubmitType, SubmitInv
  <2>2. sem' = sem /\ Droppers' = Droppers
    BY <1>1 DEF SubmitPush, Current, Full, Droppers, dropVars
  <2>3. CASE running[q]
    <3>1. wg' = wg /\ wpc' = wpc
      BY <1>1, <2>3 DEF SubmitPush, Current, Full
    <3>2. QED
      BY <2>2, <3>1, CountFrame DEF Workers, Holders
  <2>4. CASE ~running[q]
    <3>1. wg' = wg + 1 /\ wpc' = [wpc EXCEPT ![q] = "spawned"]
      BY <1>1, <2>4 DEF SubmitPush, Current, Full
    <3>2. wpc[q] = "none"
      BY <2>1, <2>4 DEF IInv, QueueInv
    <3> HIDE DEF q
    <3>3. q \notin Workers /\ Workers' = Workers \cup {q} /\ Holders' = Holders
      BY <2>1, <3>1, <3>2 DEF IInv, TypeOK, WorkerType, Workers, Holders, TokenHeld
    <3>4. Workers \in SUBSET Queues /\ Droppers \in SUBSET Queues
      BY DEF Workers, Droppers
    <3>5. Cardinality(Workers') = Cardinality(Workers) + 1
          /\ Cardinality(Workers) \in Nat /\ Cardinality(Droppers) \in Nat
      BY <2>1, <3>3, <3>4, CountQueues
    <3>6. QED
      BY <2>2, <3>1, <3>3, <3>5 DEF IInv, CountInv
  <2>5. QED
    BY <2>3, <2>4
<1>2. ASSUME NEW t \in Tasks, SubmitSpawn(t) PROVE CountInv'
  <2>1. UNCHANGED <<wg, sem>> /\ Droppers' = Droppers
    BY <1>2 DEF SubmitSpawn, Droppers, dropVars
  <2>2. Workers' = Workers /\ Holders' = Holders
    BY <1>2 DEF SubmitSpawn, IInv, TypeOK, WorkerType, SubmitType, SubmitInv, Workers, Holders, TokenHeld
  <2>3. QED
    BY <2>1, <2>2, CountFrame
<1>3. ASSUME NEW q \in Queues, WorkerAcquire(q) PROVE CountInv'
  <2>1. wg' = wg /\ sem' = sem + 1 /\ sem < MaxInflight /\ Droppers' = Droppers
    BY <1>3 DEF WorkerAcquire, TokenFree, Droppers, dropVars
  <2>2. Workers' = Workers /\ q \notin Holders /\ Holders' = Holders \cup {q}
    BY <1>3 DEF WorkerAcquire, TokenFree, IInv, TypeOK, WorkerType, Workers, Holders, TokenHeld
  <2>3. Holders \in SUBSET Queues
    BY DEF Holders
  <2>4. Cardinality(Holders') = Cardinality(Holders) + 1 /\ Cardinality(Holders) \in Nat
    BY <2>2, <2>3, CountQueues
  <2>5. QED
    BY <2>1, <2>2, <2>4, DispatcherAssumption DEF IInv, CountInv
<1>4. ASSUME NEW q \in Queues, WorkerCancelled(q) PROVE CountInv'
  <2>1. UNCHANGED <<wg, sem>> /\ Droppers' = Droppers
    BY <1>4 DEF WorkerCancelled, Droppers, dropVars
  <2>2. Workers' = Workers /\ Holders' = Holders
    BY <1>4 DEF WorkerCancelled, IInv, TypeOK, WorkerType, SubmitType, SubmitInv, Workers, Holders, TokenHeld
  <2>3. QED
    BY <2>1, <2>2, CountFrame
<1>5. ASSUME NEW q \in Queues, WorkerRecover(q) PROVE CountInv'
  <2>1. UNCHANGED <<wg, sem>> /\ Droppers' = Droppers
    BY <1>5 DEF WorkerRecover, Droppers, dropVars
  <2>2. Workers' = Workers /\ Holders' = Holders
    BY <1>5 DEF WorkerRecover, IInv, TypeOK, WorkerType, SubmitType, SubmitInv, Workers, Holders, TokenHeld
  <2>3. QED
    BY <2>1, <2>2, CountFrame
<1>6. ASSUME NEW q \in Queues, FailDropped(q) PROVE CountInv'
  <2>1. sem' = sem /\ Workers' = Workers /\ Holders' = Holders
    BY <1>6 DEF FailDropped, IInv, TypeOK, WorkerType, Workers, Holders, TokenHeld
  <2>2. CASE dq[q] = <<>>
    <3>1. wg' = wg /\ Droppers' = Droppers
      BY <1>6, <2>2 DEF FailDropped, Droppers
    <3>2. QED
      BY <2>1, <3>1, CountFrame
  <2>3. CASE dq[q] # <<>>
    <3>1. wg' = wg + 1 /\ q \notin Droppers /\ Droppers' = Droppers \cup {q}
      BY <1>6, <2>3 DEF FailDropped, IInv, TypeOK, DropType, TaskInv, Droppers
    <3>2. Workers \in SUBSET Queues /\ Droppers \in SUBSET Queues
      BY DEF Workers, Droppers
    <3>3. Cardinality(Droppers') = Cardinality(Droppers) + 1
          /\ Cardinality(Workers) \in Nat /\ Cardinality(Droppers) \in Nat
      BY <3>1, <3>2, CountQueues
    <3>4. QED
      BY <2>1, <3>1, <3>3 DEF IInv, CountInv
  <2>4. QED
    BY <2>2, <2>3
<1>7. ASSUME NEW q \in Queues, WorkerEmpty(q) PROVE CountInv'
  <2>1. UNCHANGED <<wg, sem>> /\ Droppers' = Droppers
    BY <1>7 DEF WorkerEmpty, Droppers, dropVars
  <2>2. Workers' = Workers /\ Holders' = Holders
    BY <1>7 DEF WorkerEmpty, IInv, TypeOK, WorkerType, SubmitType, SubmitInv, Workers, Holders, TokenHeld
  <2>3. QED
    BY <2>1, <2>2, CountFrame
<1>8. ASSUME NEW q \in Queues, WorkerPop(q) PROVE CountInv'
  <2>1. UNCHANGED <<wg, sem>> /\ Droppers' = Droppers
    BY <1>8 DEF WorkerPop, Droppers, dropVars
  <2>2. Workers' = Workers /\ Holders' = Holders
    BY <1>8 DEF WorkerPop, IInv, TypeOK, WorkerType, SubmitType, SubmitInv, Workers, Holders, TokenHeld
  <2>3. QED
    BY <2>1, <2>2, CountFrame
<1>9. ASSUME NEW q \in Queues, WorkerRan(q) PROVE CountInv'
  <2>1. UNCHANGED <<wg, sem>> /\ Droppers' = Droppers
    BY <1>9 DEF WorkerRan, Droppers, dropVars
  <2>2. Workers' = Workers /\ Holders' = Holders
    BY <1>9 DEF WorkerRan, IInv, TypeOK, WorkerType, SubmitType, SubmitInv, Workers, Holders, TokenHeld
  <2>3. QED
    BY <2>1, <2>2, CountFrame
<1>10. ASSUME NEW q \in Queues, WorkerHookPanic(q) PROVE CountInv'
  <2>1. UNCHANGED <<wg, sem>> /\ Droppers' = Droppers
    BY <1>10 DEF WorkerHookPanic, Droppers, dropVars
  <2>2. Workers' = Workers /\ Holders' = Holders
    BY <1>10 DEF WorkerHookPanic, IInv, TypeOK, WorkerType, SubmitType, SubmitInv, Workers, Holders, TokenHeld
  <2>3. QED
    BY <2>1, <2>2, CountFrame
<1>11. ASSUME NEW q \in Queues, WorkerRelease(q) PROVE CountInv'
  <2>1. wg' = wg /\ sem' = sem - 1 /\ Droppers' = Droppers
    BY <1>11 DEF WorkerRelease, Droppers, dropVars
  <2>2. Workers' = Workers /\ q \in Holders /\ Holders' = Holders \ {q}
    BY <1>11 DEF WorkerRelease, IInv, TypeOK, WorkerType, Workers, Holders, TokenHeld
  <2>3. Holders \in SUBSET Queues
    BY DEF Holders
  <2>4. Cardinality(Holders') = Cardinality(Holders) - 1 /\ Cardinality(Holders) \in Nat
    BY <2>2, <2>3, CountQueues
  <2>5. QED
    BY <2>1, <2>2, <2>4, DispatcherAssumption DEF IInv, CountInv
<1>12. ASSUME NEW q \in Queues, WorkerDone(q) PROVE CountInv'
  <2>1. wg' = wg - 1 /\ sem' = sem /\ Droppers' = Droppers
    BY <1>12 DEF WorkerDone, Droppers, dropVars
  <2>2. Holders' = Holders /\ q \in Workers /\ Workers' = Workers \ {q}
    BY <1>12 DEF WorkerDone, IInv, TypeOK, WorkerType, Workers, Holders, TokenHeld
  <2>3. Workers \in SUBSET Queues /\ Droppers \in SUBSET Queues
    BY DEF Workers, Droppers
  <2>4. Cardinality(Workers') = Cardinality(Workers) - 1
        /\ Cardinality(Workers) \in Nat /\ Cardinality(Droppers) \in Nat
    BY <2>2, <2>3, CountQueues
  <2>5. QED
    BY <2>1, <2>2, <2>4 DEF IInv, CountInv
<1>13. ASSUME NEW q \in Queues, DropDone(q) PROVE CountInv'
  <2>1. wg' = wg - 1 /\ sem' = sem /\ wpc' = wpc
    BY <1>13 DEF DropDone, workerVars
  <2>2. q \in Droppers /\ Droppers' = Droppers \ {q} /\ Workers' = Workers /\ Holders' = Holders
    BY <1>13, <2>1 DEF DropDone, IInv, TypeOK, DropType, Droppers, Workers, Holders
  <2>3. Workers \in SUBSET Queues /\ Droppers \in SUBSET Queues
    BY DEF Workers, Droppers
  <2>4. Cardinality(Droppers') = Cardinality(Droppers) - 1
        /\ Cardinality(Workers) \in Nat /\ Cardinality(Droppers) \in Nat
    BY <2>2, <2>3, CountQueues
  <2>5. QED
    BY <2>1, <2>2, <2>4 DEF IInv, CountInv
<1>14. CASE UNCHANGED <<wg, sem, wpc, dpc>>
  BY <1>14 DEF IInv, CountInv, Workers, Droppers, Holders
<1>15. CASE \/ \E t \in Tasks : SubmitEnter(t) \/ SubmitLookup(t)
                   \/ SubmitStale(t) \/ SubmitFull(t)
            \/ \E q \in Queues : DropRun(q) \/ DropPanic(q)
            \/ \E k \in Closers : CloseCall(k) \/ CloseBarrier(k)
                   \/ ForceCancel(k) \/ DrainReturn(k) \/ DrainExpire(k)
            \/ ParentCancel
            \/ UNCHANGED vars
  BY <1>14, <1>15
     DEF SubmitEnter, SubmitLookup, SubmitStale, SubmitFull, DropRun,
         DropPanic, CloseCall, CloseBarrier, ForceCancel, DrainReturn,
         DrainExpire, ParentCancel, vars, Current, Full, GateClear,
         queueVars, submitVars, workerVars, dropVars, closeVars
<1>16. QED
  BY <1>1, <1>2, <1>3, <1>4, <1>5, <1>6, <1>7, <1>8, <1>9, <1>10, <1>11,
     <1>12, <1>13, <1>14, <1>15
     DEF Next, Submit, Worker, Dropper, Closer

\* The drain counter reads zero only when no goroutine of the dispatcher lives.
LEMMA CounterZero ==
  ASSUME IInv, wg = 0
  PROVE \A q \in Queues : wpc[q] = "none" /\ dpc[q] = "none"
<1> SUFFICES ASSUME NEW q \in Queues PROVE wpc[q] = "none" /\ dpc[q] = "none"
  OBVIOUS
<1>1. Workers \in SUBSET Queues /\ Droppers \in SUBSET Queues
  BY DEF Workers, Droppers
<1>2. Cardinality(Workers) \in Nat /\ Cardinality(Droppers) \in Nat
  BY <1>1, CountQueues
<1>3. Cardinality(Workers) = 0 /\ Cardinality(Droppers) = 0
  BY <1>2 DEF IInv, CountInv
<1>4. q \notin Workers /\ q \notin Droppers
  BY <1>1, <1>3, CountQueues
<1>5. QED
  BY <1>4 DEF Workers, Droppers, IInv, TypeOK, DropType

LEMMA CloseStep == IInv /\ [Next]_vars => CloseInv'
<1> SUFFICES ASSUME IInv, [Next]_vars PROVE CloseInv'
  OBVIOUS
<1>1. ASSUME NEW t \in Tasks, SubmitEnter(t) PROVE CloseInv'
  BY <1>1
     DEF IInv, TypeOK, SubmitType, CloseType, CloseInv, Passed, Gated,
         closeVars, SubmitEnter
<1>2. ASSUME NEW t \in Tasks, SubmitLookup(t) PROVE CloseInv'
  BY <1>2
     DEF IInv, TypeOK, SubmitType, CloseType, CloseInv, Passed, Gated,
         closeVars, SubmitLookup
<1>3. ASSUME NEW t \in Tasks, SubmitStale(t) PROVE CloseInv'
  BY <1>3
     DEF IInv, TypeOK, SubmitType, CloseType, CloseInv, Passed, Gated,
         closeVars, SubmitStale, Current
<1>4. ASSUME NEW t \in Tasks, SubmitFull(t) PROVE CloseInv'
  BY <1>4
     DEF IInv, TypeOK, SubmitType, CloseType, CloseInv, Passed, Gated,
         closeVars, SubmitFull, Current, Full
<1>5. ASSUME NEW t \in Tasks, SubmitPush(t) PROVE CloseInv'
  BY <1>5
     DEF IInv, TypeOK, SubmitType, CloseType, CloseInv, Passed, Gated,
         closeVars, SubmitPush, Current, Full
<1>6. ASSUME NEW t \in Tasks, SubmitSpawn(t) PROVE CloseInv'
  BY <1>6
     DEF IInv, TypeOK, SubmitType, CloseType, CloseInv, Passed, Gated,
         closeVars, SubmitSpawn
<1>7. ASSUME NEW q \in Queues, FailDropped(q) PROVE CloseInv'
  <2>1. wg # 0
    BY <1>7, CounterZero DEF FailDropped
  <2>2. UNCHANGED <<spc, cpc, ckind, stopped>>
    BY <1>7 DEF FailDropped, submitVars, closeVars
  <2>3. QED
    BY <2>1, <2>2 DEF IInv, CloseInv, Passed
<1>8. ASSUME NEW q \in Queues, WorkerDone(q) PROVE CloseInv'
  <2>1. wg # 0
    BY <1>8, CounterZero DEF WorkerDone
  <2>2. UNCHANGED <<spc, cpc, ckind, stopped>>
    BY <1>8 DEF WorkerDone, submitVars, closeVars
  <2>3. QED
    BY <2>1, <2>2 DEF IInv, CloseInv, Passed
<1>9. ASSUME NEW q \in Queues, DropDone(q) PROVE CloseInv'
  <2>1. wg # 0
    BY <1>9, CounterZero DEF DropDone
  <2>2. UNCHANGED <<spc, cpc, ckind, stopped>>
    BY <1>9 DEF DropDone, submitVars, closeVars
  <2>3. QED
    BY <2>1, <2>2 DEF IInv, CloseInv, Passed
<1>10. ASSUME NEW k \in Closers, CloseCall(k) PROVE CloseInv'
  <2>1. PICK kind \in Kinds :
          /\ ckind' = [ckind EXCEPT ![k] = kind]
          /\ cpc' = [cpc EXCEPT ![k] = IF kind = "Drain" THEN "draining" ELSE "barrier"]
          /\ stopped' = (stopped \/ kind # "Drain")
    BY <1>10 DEF CloseCall
  <2>2. spc' = spc /\ wg' = wg /\ (stopped => stopped') /\ (kind # "Drain" => stopped')
    BY <1>10, <2>1 DEF CloseCall, submitVars
  <2>3. ckind'[k] = kind /\ cpc'[k] = IF kind = "Drain" THEN "draining" ELSE "barrier"
    BY <2>1 DEF IInv, TypeOK, CloseType
  <2>4. \A j \in Closers \ {k} : ckind'[j] = ckind[j] /\ cpc'[j] = cpc[j]
    BY <2>1 DEF IInv, TypeOK, CloseType
  <2>5. QED
    BY <2>2, <2>3, <2>4 DEF IInv, CloseInv, Passed
<1>11. ASSUME NEW k \in Closers, CloseBarrier(k) PROVE CloseInv'
  BY <1>11
     DEF IInv, TypeOK, SubmitType, CloseType, CloseInv, Passed, Gated,
         closeVars, CloseBarrier, GateClear, submitVars, Kinds
<1>12. ASSUME NEW k \in Closers, ForceCancel(k) PROVE CloseInv'
  BY <1>12
     DEF IInv, TypeOK, SubmitType, CloseType, CloseInv, Passed, Gated,
         closeVars, ForceCancel, submitVars, Kinds
<1>13. ASSUME NEW k \in Closers, DrainReturn(k) PROVE CloseInv'
  BY <1>13
     DEF IInv, TypeOK, SubmitType, CloseType, CloseInv, Passed, Gated,
         closeVars, DrainReturn, submitVars, Kinds
<1>14. ASSUME NEW k \in Closers, DrainExpire(k) PROVE CloseInv'
  BY <1>14
     DEF IInv, TypeOK, SubmitType, CloseType, CloseInv, Passed, Gated,
         closeVars, DrainExpire, submitVars, Kinds
<1>15. CASE UNCHANGED <<cpc, ckind, stopped, spc, wg>>
  BY <1>15 DEF IInv, CloseInv, Passed
<1>16. CASE \/ \E q \in Queues : WorkerAcquire(q) \/ WorkerCancelled(q)
                   \/ WorkerRecover(q) \/ WorkerEmpty(q) \/ WorkerPop(q)
                   \/ WorkerRan(q) \/ WorkerHookPanic(q) \/ WorkerRelease(q)
                   \/ DropRun(q) \/ DropPanic(q)
            \/ ParentCancel
            \/ UNCHANGED vars
  BY <1>15, <1>16
     DEF WorkerAcquire, WorkerCancelled, WorkerRecover, WorkerEmpty,
         WorkerPop, WorkerRan, WorkerHookPanic, WorkerRelease, DropRun,
         DropPanic, ParentCancel, vars, TokenFree, GiveUp, Unmap, queueVars,
         submitVars, workerVars, dropVars, closeVars
<1>17. QED
  BY <1>1, <1>2, <1>3, <1>4, <1>5, <1>6, <1>7, <1>8, <1>9, <1>10, <1>11,
     <1>12, <1>13, <1>14, <1>15, <1>16
     DEF Next, Submit, Worker, Dropper, Closer

LEMMA InitIInv == Init => IInv
<1> SUFFICES ASSUME Init PROVE IInv
  OBVIOUS
<1>1. TypeOK
  BY TypeInit
<1>2. MapInv /\ QueueInv /\ SubmitInv /\ TaskInv /\ CloseInv /\ AccountInv
  BY DispatcherAssumption
     DEF Init, MapInv, QueueInv, SubmitInv, TaskInv, CloseInv, AccountInv, Passed,
         Accepted, Serves, Serving
<1>3. Workers = {} /\ Droppers = {} /\ Holders = {}
  BY DEF Init, Workers, Droppers, Holders, TokenHeld
<1>4. CountInv
  BY <1>3, FS_EmptySet, DispatcherAssumption DEF Init, CountInv
<1>5. QED
  BY <1>1, <1>2, <1>4 DEF IInv

LEMMA NextIInv == IInv /\ [Next]_vars => IInv'
<1> SUFFICES ASSUME IInv, [Next]_vars PROVE IInv'
  OBVIOUS
<1>1. TypeOK'
  BY QueueTypeStep, SubmitTypeStep, WorkerTypeStep, DropTypeStep, CloseTypeStep,
     OutcomeTypeStep DEF TypeOK
<1>2. QED
  BY <1>1, MapStep, QueueStep, SubmitStep, TaskStep, CountStep, CloseStep, AccountStep DEF IInv
-----------------------------------------------------------------------------
\* The parts of IInv hold together in every reachable state of the dispatcher.
THEOREM DispatcherInvariant == Spec => []IInv
  BY InitIInv, NextIInv, PTL DEF Spec

\* The variables of the dispatcher keep their types.
THEOREM TypeCorrect == Spec => []TypeOK
<1>1. IInv => TypeOK
  BY DEF IInv
<1>2. QED
  BY <1>1, DispatcherInvariant, PTL

\* Two workers never serve one chat: a queue that is served is the one the map
\* holds for its chat, and the map holds one.
THEOREM OneWorker == Spec => []OneWorkerPerChat
<1>1. IInv => OneWorkerPerChat
  BY DEF IInv, QueueInv, OneWorkerPerChat
<1>2. QED
  BY <1>1, DispatcherInvariant, PTL

\* The tokens taken bound the workers that run tasks, on every way out.
THEOREM InflightLimit == Spec => []InflightBounded
<1>1. IInv => InflightBounded
  BY DEF IInv, CountInv, Holders, InflightBounded
<1>2. QED
  BY <1>1, DispatcherInvariant, PTL

\* A Shutdown that returned nil leaves no accepted task and no goroutine behind.
THEOREM ShutdownLeavesNothing == Spec => []ShutdownComplete
<1>1. ASSUME IInv, NEW k \in Closers, ckind[k] = "Shutdown", cpc[k] = "returned"
      PROVE /\ Accepted \subseteq answered \cup lost
            /\ \A q \in Queues : wpc[q] = "none" /\ dpc[q] = "none"
  <2>1. \A q \in Queues : wpc[q] = "none" /\ dpc[q] = "none"
    BY <1>1, CounterZero DEF IInv, CloseInv
  <2>2. \A q \in Queues : buf[q] = <<>> /\ wtask[q] = Nil /\ dq[q] = <<>>
    BY <1>1, <2>1 DEF IInv, QueueInv, TaskInv, Serves, Serving
  <2>3. \A t \in Tasks : Somewhere(t) => t \in answered \cup lost
    BY <2>2, EmptyQueue, DispatcherAssumption DEF Somewhere
  <2>4. Accepted \subseteq answered \cup lost
    BY <1>1, <2>3 DEF IInv, AccountInv, Accepted
  <2>5. QED
    BY <2>1, <2>4
<1>2. IInv => ShutdownComplete
  BY <1>1 DEF ShutdownComplete
<1>3. QED
  BY <1>2, DispatcherInvariant, PTL

\* After a closing call has passed the gate no call is inside Submit, so none
\* can be accepted.
THEOREM ClosedForGood == Spec => NothingAcceptedAfterClose
<1> DEFINE Closed == \E k \in Closers : ckind[k] # "Drain" /\ cpc[k] \notin {"idle", "barrier"}
<1>1. ASSUME IInv, [Next]_vars, Closed PROVE Accepted' \subseteq Accepted
  <2>1. \A t \in Tasks : spc[t] \notin Gated
    BY <1>1 DEF IInv, CloseInv, Passed
  <2>2. ASSUME NEW t \in Tasks, Submit(t) PROVE Accepted' \subseteq Accepted
    <3>1. SubmitEnter(t) \/ SubmitSpawn(t)
      BY <2>1, <2>2 DEF Submit, SubmitLookup, SubmitStale, SubmitFull, SubmitPush, Gated
    <3>2. QED
      BY <1>1, <3>1 DEF IInv, TypeOK, SubmitType, SubmitEnter, SubmitSpawn, Accepted
  <2>3. CASE UNCHANGED spc
    BY <2>3 DEF Accepted
  <2>4. ASSUME NEW q \in Queues, Worker(q) \/ Dropper(q) PROVE UNCHANGED spc
    BY <2>4 DEF Worker, Dropper, WorkerAcquire, WorkerCancelled, WorkerRecover, FailDropped,
       WorkerEmpty, WorkerPop, WorkerRan, WorkerHookPanic, WorkerRelease, WorkerDone,
       DropRun, DropPanic, DropDone, submitVars
  <2>5. ASSUME NEW k \in Closers, Closer(k) PROVE UNCHANGED spc
    BY <2>5 DEF Closer, CloseCall, CloseBarrier, ForceCancel, DrainReturn, DrainExpire, submitVars
  <2>6. CASE ParentCancel \/ UNCHANGED vars
    BY <2>3, <2>6 DEF ParentCancel, vars, submitVars
  <2>7. QED
    BY <1>1, <2>2, <2>3, <2>4, <2>5, <2>6 DEF Next
<1>2. QED
  BY <1>1, DispatcherInvariant, PTL DEF Spec, NothingAcceptedAfterClose
-----------------------------------------------------------------------------
(***************************************************************************)
(* The places of a task.  What a step does to them is one of six things,   *)
(* which the step lemmas below and the refinement of ChatFifo are about.   *)
(***************************************************************************)
Queued(q) == TasksIn(buf[q])
Dropped(q) == TasksIn(dq[q])
Distinct(s) == \A i, j \in DOMAIN s : s[i] = s[j] => i = j

\* A queue object holds tasks of its chat only, and so does its worker.
ChatInv ==
  \A q \in Queues :
    /\ \A t \in Queued(q) : ChatOf[t] = QueueChat[q]
    /\ wtask[q] # Nil => ChatOf[wtask[q]] = QueueChat[q]

DistinctInv == \A q \in Queues : Distinct(buf[q]) /\ Distinct(dq[q])
KnownInv == \A t \in Tasks : Somewhere(t) => t \in Accepted

\* No task is in two places.
Apart(t, p, q) ==
  /\ t \in Queued(p) /\ t \in Queued(q) => p = q
  /\ t \in Dropped(p) /\ t \in Dropped(q) => p = q
  /\ wtask[p] = t /\ wtask[q] = t => p = q
  /\ t \in Queued(p) => wtask[q] # t /\ t \notin Dropped(q)
  /\ wtask[p] = t => t \notin Dropped(q)
  /\ t \in Queued(p) \/ wtask[p] = t \/ t \in Dropped(p) => t \notin answered \cup lost
OnePlace ==
  /\ \A t \in Tasks : \A p, q \in Queues : Apart(t, p, q)
  /\ answered \cap lost = {}

\* An unserved queue in the map has been put there by a call that will lock it.
AwaitedInv ==
  \A q \in Queues :
    qmap[QueueChat[q]] = q /\ ~Serves(q) => \E t \in Tasks : spc[t] = "lock" /\ sq[t] = q

PlaceInv == ChatInv /\ DistinctInv /\ KnownInv /\ OnePlace /\ AwaitedInv

\* The six things.
Kept ==
  /\ UNCHANGED <<buf, wtask, dq, answered, lost>>
  /\ Accepted' = Accepted
  /\ \A c \in Chats : Line(c)' = Line(c)
Pushed(t, q) ==
  /\ spc[t] = "lock" /\ q = qmap[ChatOf[t]] /\ Len(buf[q]) < QueueSize
  /\ buf' = [buf EXCEPT ![q] = Append(buf[q], t)]
  /\ UNCHANGED <<qmap, wtask, dq, answered, lost>>
  /\ Accepted' = Accepted \cup {t}
GivenUp(q) ==
  /\ wpc[q] \in {"wait", "recover"}
  /\ dq' = [dq EXCEPT ![q] = buf[q]]
  /\ buf' = [buf EXCEPT ![q] = <<>>]
  /\ qmap' = [qmap EXCEPT ![QueueChat[q]] = Nil]
  /\ UNCHANGED <<wtask, answered, lost>> /\ Accepted' = Accepted
Popped(q) ==
  /\ wpc[q] = "loop" /\ buf[q] # <<>>
  /\ wtask' = [wtask EXCEPT ![q] = Head(buf[q])]
  /\ buf' = [buf EXCEPT ![q] = Tail(buf[q])]
  /\ UNCHANGED <<qmap, dq, answered, lost>> /\ Accepted' = Accepted
Ended(q) ==
  /\ wpc[q] = "run"
  /\ wtask' = [wtask EXCEPT ![q] = Nil]
  /\ \/ answered' = answered \cup {wtask[q]} /\ lost' = lost
     \/ lost' = lost \cup {wtask[q]} /\ answered' = answered
  /\ UNCHANGED <<qmap, buf, dq>> /\ Accepted' = Accepted
Told(q) ==
  /\ dq[q] # <<>>
  /\ dq' = [dq EXCEPT ![q] = Tail(dq[q])]
  /\ answered' = answered \cup {Head(dq[q])}
  /\ UNCHANGED <<qmap, buf, wtask, lost>> /\ Accepted' = Accepted

LEMMA KeptFrame ==
  ASSUME UNCHANGED <<qmap, buf, wtask, dq, answered, lost>>, Accepted' = Accepted
  PROVE Kept
  BY DEF Kept, Line

LEMMA Effects ==
  ASSUME IInv, [Next]_vars
  PROVE \/ Kept
        \/ \E t \in Tasks, q \in Queues : Pushed(t, q)
        \/ \E q \in Queues : GivenUp(q) \/ Popped(q) \/ Ended(q) \/ Told(q)
<1> DEFINE Goal == \/ Kept
                   \/ \E t \in Tasks, q \in Queues : Pushed(t, q)
                   \/ \E q \in Queues : GivenUp(q) \/ Popped(q) \/ Ended(q) \/ Told(q)
<1> SUFFICES Goal
  OBVIOUS
<1>1. ASSUME NEW t \in Tasks, SubmitEnter(t) \/ SubmitStale(t) \/ SubmitFull(t) \/ SubmitSpawn(t)
      PROVE Kept
  <2>1. UNCHANGED <<qmap, buf, wtask, dq, answered, lost>>
    BY <1>1 DEF SubmitEnter, SubmitStale, SubmitFull, SubmitSpawn, queueVars, workerVars, dropVars
  <2>2. Accepted' = Accepted
    BY <1>1 DEF SubmitEnter, SubmitStale, SubmitFull, SubmitSpawn, Accepted, IInv, TypeOK, SubmitType
  <2>3. QED
    BY <2>1, <2>2, KeptFrame
<1>2. ASSUME NEW t \in Tasks, SubmitLookup(t) PROVE Kept
  <2>1. UNCHANGED <<wtask, dq, answered, lost>> /\ Accepted' = Accepted
    BY <1>2 DEF SubmitLookup, workerVars, dropVars, Accepted, IInv, TypeOK, SubmitType
  <2>2. CASE UNCHANGED queueVars
    BY <2>1, <2>2, KeptFrame DEF queueVars
  <2>3. ASSUME NEW q \in Queues, Fresh(q), qmap[ChatOf[t]] = Nil,
               qmap' = [qmap EXCEPT ![ChatOf[t]] = q], buf' = [buf EXCEPT ![q] = <<>>]
        PROVE Kept
    <3>1. buf[q] = <<>>
      BY <2>3 DEF Fresh, IInv, QueueInv, Serves, Serving
    <3>2. buf' = buf
      BY <2>3, <3>1 DEF IInv, TypeOK, QueueType
    <3>3. ASSUME NEW c \in Chats PROVE Line(c)' = Line(c)
      <4>1. q # Nil
        BY DispatcherAssumption
      <4>2. CASE c = ChatOf[t]
        BY <2>3, <3>1, <3>2, <4>1, <4>2 DEF Line, IInv, TypeOK, QueueType
      <4>3. CASE c # ChatOf[t]
        BY <2>3, <3>2, <4>3 DEF Line, IInv, TypeOK, QueueType
      <4>4. QED
        BY <4>2, <4>3
    <3>4. QED
      BY <2>1, <3>2, <3>3 DEF Kept
  <2>4. QED
    BY <1>2, <2>2, <2>3 DEF SubmitLookup
<1>3. ASSUME NEW t \in Tasks, SubmitPush(t) PROVE Pushed(t, sq[t]) /\ sq[t] \in Queues
  <2>1. sq[t] \in Queues /\ Len(buf[sq[t]]) < QueueSize
    BY <1>3, DispatcherAssumption
       DEF SubmitPush, Full, IInv, TypeOK, SubmitType, SubmitInv, QueueType
  <2>2. Accepted' = Accepted \cup {t}
    BY <1>3 DEF SubmitPush, Accepted, IInv, TypeOK, SubmitType
  <2>3. QED
    BY <1>3, <2>1, <2>2 DEF SubmitPush, Pushed, Current, dropVars
<1>4. ASSUME NEW q \in Queues, WorkerCancelled(q) \/ WorkerRecover(q) PROVE GivenUp(q)
  <2>1. qmap' = [qmap EXCEPT ![QueueChat[q]] = Nil]
    BY <1>4 DEF WorkerCancelled, WorkerRecover, GiveUp, Unmap, IInv, QueueInv, Serves, Serving
  <2>2. QED
    BY <1>4, <2>1 DEF WorkerCancelled, WorkerRecover, GiveUp, GivenUp, submitVars, Accepted
<1>5. ASSUME NEW q \in Queues, WorkerEmpty(q) PROVE Kept
  <2>1. UNCHANGED <<buf, wtask, dq, answered, lost>> /\ Accepted' = Accepted /\ buf[q] = <<>>
    BY <1>5 DEF WorkerEmpty, submitVars, dropVars, Accepted
  <2>2. qmap[QueueChat[q]] = q /\ qmap' = [qmap EXCEPT ![QueueChat[q]] = Nil]
    BY <1>5 DEF WorkerEmpty, Unmap, IInv, QueueInv, Serves, Serving
  <2>3. ASSUME NEW c \in Chats PROVE Line(c)' = Line(c)
    BY <2>1, <2>2 DEF Line, IInv, TypeOK, QueueType
  <2>4. QED
    BY <2>1, <2>3 DEF Kept
<1>6. ASSUME NEW q \in Queues, WorkerPop(q) PROVE Popped(q)
  BY <1>6 DEF WorkerPop, Popped, submitVars, dropVars, Accepted
<1>7. ASSUME NEW q \in Queues, WorkerRan(q) \/ WorkerHookPanic(q) PROVE Ended(q)
  BY <1>7 DEF WorkerRan, WorkerHookPanic, Ended, queueVars, submitVars, dropVars, Accepted
<1>8. ASSUME NEW q \in Queues, DropRun(q) \/ DropPanic(q) PROVE Told(q)
  BY <1>8 DEF DropRun, DropPanic, Told, queueVars, submitVars, workerVars, Accepted
<1>9. CASE \/ \E q \in Queues : WorkerAcquire(q) \/ FailDropped(q) \/ WorkerRelease(q)
                  \/ WorkerDone(q) \/ DropDone(q)
           \/ \E k \in Closers : Closer(k)
           \/ ParentCancel
           \/ UNCHANGED vars
  <2>1. UNCHANGED <<qmap, buf, wtask, dq, answered, lost, spc>>
    BY <1>9 DEF WorkerAcquire, FailDropped, WorkerRelease, WorkerDone, DropDone, Closer, CloseCall,
       CloseBarrier, ForceCancel, DrainReturn, DrainExpire, ParentCancel, vars,
       queueVars, submitVars, workerVars, dropVars
  <2>2. QED
    BY <2>1, KeptFrame DEF Accepted
<1>10. QED
  BY <1>1, <1>2, <1>3, <1>4, <1>5, <1>6, <1>7, <1>8, <1>9
     DEF Next, Submit, Worker, Dropper
-----------------------------------------------------------------------------
LEMMA DistinctTail ==
  ASSUME NEW s \in Seq(Tasks), s # <<>>, Distinct(s)
  PROVE Distinct(Tail(s)) /\ Head(s) \notin TasksIn(Tail(s))
<1>1. DOMAIN s = 1..Len(s) /\ Len(s) \in Nat \ {0} /\ DOMAIN Tail(s) = 1..(Len(s) - 1)
  OBVIOUS
<1>2. \A i \in DOMAIN Tail(s) : i + 1 \in DOMAIN s /\ Tail(s)[i] = s[i + 1]
  BY <1>1
<1>3. Distinct(Tail(s))
  <2>1. SUFFICES ASSUME NEW i \in DOMAIN Tail(s), NEW j \in DOMAIN Tail(s), Tail(s)[i] = Tail(s)[j]
                 PROVE i = j
    BY DEF Distinct
  <2>2. i + 1 = j + 1
    BY <1>2, <2>1 DEF Distinct
  <2>3. QED
    BY <1>1, <2>2
<1>4. ASSUME NEW i \in DOMAIN Tail(s) PROVE Tail(s)[i] # Head(s)
  BY <1>1, <1>2 DEF Distinct
<1>5. QED
  BY <1>3, <1>4 DEF TasksIn

LEMMA DistinctAppend ==
  ASSUME NEW s \in Seq(Tasks), NEW t \in Tasks, Distinct(s), t \notin TasksIn(s)
  PROVE Distinct(Append(s, t))
<1>1. DOMAIN s = 1..Len(s) /\ Len(s) \in Nat /\ DOMAIN Append(s, t) = 1..(Len(s) + 1)
  OBVIOUS
<1>2. /\ \A i \in 1..Len(s) : Append(s, t)[i] = s[i] /\ s[i] # t
      /\ Append(s, t)[Len(s) + 1] = t
  BY <1>1 DEF TasksIn
<1>3. QED
  BY <1>1, <1>2 DEF Distinct

\* What the changes of sequences mean for the sets of queued and dropped tasks.
LEMMA PushedSets ==
  ASSUME IInv, PlaceInv, NEW t \in Tasks, NEW q \in Queues, Pushed(t, q)
  PROVE /\ \A p \in Queues : Queued(p)' = IF p = q THEN Queued(q) \cup {t} ELSE Queued(p)
        /\ \A p \in Queues : Dropped(p)' = Dropped(p)
        /\ ~Somewhere(t)
        /\ QueueChat[q] = ChatOf[t]
<1>1. TasksIn(Append(buf[q], t)) = TasksIn(buf[q]) \cup {t}
  BY TasksInAppend DEF IInv, TypeOK, QueueType
<1>2. ~Somewhere(t)
  BY DEF Pushed, PlaceInv, KnownInv, Accepted
<1>3. QueueChat[q] = ChatOf[t]
  BY DispatcherAssumption DEF Pushed, IInv, MapInv
<1>4. QED
  BY <1>1, <1>2, <1>3 DEF Pushed, Queued, Dropped, IInv, TypeOK, QueueType

LEMMA GivenUpSets ==
  ASSUME IInv, NEW q \in Queues, GivenUp(q)
  PROVE /\ \A p \in Queues : Queued(p)' = IF p = q THEN {} ELSE Queued(p)
        /\ \A p \in Queues : Dropped(p)' = IF p = q THEN Queued(q) ELSE Dropped(p)
        /\ Dropped(q) = {}
<1>1. dq[q] = <<>>
  BY DEF GivenUp, IInv, TaskInv
<1>2. QED
  BY <1>1, EmptyQueue DEF GivenUp, Queued, Dropped, IInv, TypeOK, QueueType, DropType

LEMMA PoppedSets ==
  ASSUME IInv, PlaceInv, NEW q \in Queues, Popped(q)
  PROVE /\ Head(buf[q]) \in Tasks
        /\ Queued(q) = Queued(q)' \cup {Head(buf[q])} /\ Head(buf[q]) \notin Queued(q)'
        /\ \A p \in Queues : p # q => Queued(p)' = Queued(p)
        /\ \A p \in Queues : Dropped(p)' = Dropped(p)
        /\ wtask[q] = Nil
<1>1. buf[q] \in Seq(Tasks) /\ buf[q] # <<>> /\ Distinct(buf[q])
  BY DEF Popped, IInv, TypeOK, QueueType, PlaceInv, DistinctInv
<1>2. TasksIn(buf[q]) = {Head(buf[q])} \cup TasksIn(Tail(buf[q]))
  BY <1>1, TasksInTail
<1>3. Head(buf[q]) \notin TasksIn(Tail(buf[q])) /\ Head(buf[q]) \in Tasks
  BY <1>1, DistinctTail
<1>4. wtask[q] = Nil
  BY DEF Popped, IInv, TaskInv
<1>5. QED
  BY <1>2, <1>3, <1>4 DEF Popped, Queued, Dropped, IInv, TypeOK, QueueType

LEMMA ToldSets ==
  ASSUME IInv, PlaceInv, NEW q \in Queues, Told(q)
  PROVE /\ Head(dq[q]) \in Tasks
        /\ Dropped(q) = Dropped(q)' \cup {Head(dq[q])} /\ Head(dq[q]) \notin Dropped(q)'
        /\ \A p \in Queues : p # q => Dropped(p)' = Dropped(p)
        /\ \A p \in Queues : Queued(p)' = Queued(p)
<1>1. dq[q] \in Seq(Tasks) /\ dq[q] # <<>> /\ Distinct(dq[q])
  BY DEF Told, IInv, TypeOK, DropType, PlaceInv, DistinctInv
<1>2. TasksIn(dq[q]) = {Head(dq[q])} \cup TasksIn(Tail(dq[q]))
  BY <1>1, TasksInTail
<1>3. Head(dq[q]) \notin TasksIn(Tail(dq[q])) /\ Head(dq[q]) \in Tasks
  BY <1>1, DistinctTail
<1>4. QED
  BY <1>2, <1>3 DEF Told, Queued, Dropped, IInv, TypeOK, DropType

\* A worker that runs a task holds one, which is nowhere else.
LEMMA EndedSets ==
  ASSUME IInv, NEW q \in Queues, Ended(q)
  PROVE /\ wtask[q] \in Tasks
        /\ \A p \in Queues : wtask'[p] = IF p = q THEN Nil ELSE wtask[p]
        /\ \A p \in Queues : Queued(p)' = Queued(p) /\ Dropped(p)' = Dropped(p)
  BY DispatcherAssumption DEF Ended, IInv, TypeOK, WorkerType, TaskInv, Queued, Dropped

LEMMA SomewhereSets ==
  ASSUME NEW t
  PROVE Somewhere(t) <=> \/ t \in answered \cup lost
                         \/ \E q \in Queues : t \in Queued(q) \/ wtask[q] = t \/ t \in Dropped(q)
  BY DEF Somewhere, Queued, Dropped

LEMMA ChatStep == IInv /\ PlaceInv /\ [Next]_vars => ChatInv'
<1> SUFFICES ASSUME IInv, PlaceInv, [Next]_vars PROVE ChatInv'
  OBVIOUS
<1>1. CASE Kept
  BY <1>1 DEF Kept, PlaceInv, ChatInv, Queued
<1>2. ASSUME NEW t \in Tasks, NEW q \in Queues, Pushed(t, q) PROVE ChatInv'
  <2>1. SUFFICES ASSUME NEW p \in Queues
                 PROVE /\ \A u \in Queued(p)' : ChatOf[u] = QueueChat[p]
                       /\ wtask'[p] # Nil => ChatOf[wtask'[p]] = QueueChat[p]
    BY DEF ChatInv
  <2>2. Queued(p)' = IF p = q THEN Queued(q) \cup {t} ELSE Queued(p)
    BY <1>2, PushedSets
  <2>3. ChatOf[t] = QueueChat[q] /\ wtask' = wtask
    BY <1>2, PushedSets DEF Pushed
  <2>4. QED
    BY <2>2, <2>3 DEF PlaceInv, ChatInv
<1>3. ASSUME NEW q \in Queues, GivenUp(q) PROVE ChatInv'
  BY <1>3, GivenUpSets DEF GivenUp, PlaceInv, ChatInv
<1>4. ASSUME NEW q \in Queues, Popped(q) PROVE ChatInv'
  BY <1>4, PoppedSets DEF Popped, PlaceInv, ChatInv, IInv, TypeOK, WorkerType
<1>5. ASSUME NEW q \in Queues, Ended(q) PROVE ChatInv'
  BY <1>5, EndedSets DEF PlaceInv, ChatInv
<1>6. ASSUME NEW q \in Queues, Told(q) PROVE ChatInv'
  BY <1>6, ToldSets DEF Told, PlaceInv, ChatInv
<1>7. QED
  BY <1>1, <1>2, <1>3, <1>4, <1>5, <1>6, Effects

LEMMA DistinctStep == IInv /\ PlaceInv /\ [Next]_vars => DistinctInv'
<1> SUFFICES ASSUME IInv, PlaceInv, [Next]_vars PROVE DistinctInv'
  OBVIOUS
<1>1. buf \in [Queues -> Seq(Tasks)] /\ dq \in [Queues -> Seq(Tasks)]
      /\ \A q \in Queues : Distinct(buf[q]) /\ Distinct(dq[q])
  BY DEF IInv, TypeOK, QueueType, DropType, PlaceInv, DistinctInv
<1>2. CASE Kept
  BY <1>1, <1>2 DEF Kept, DistinctInv
<1>3. ASSUME NEW t \in Tasks, NEW q \in Queues, Pushed(t, q) PROVE DistinctInv'
  <2>1. t \notin TasksIn(buf[q])
    BY <1>3, PushedSets DEF Somewhere
  <2>2. Distinct(Append(buf[q], t))
    BY <1>1, <2>1, DistinctAppend
  <2>3. QED
    BY <1>1, <1>3, <2>2 DEF Pushed, DistinctInv
<1>4. ASSUME NEW q \in Queues, GivenUp(q) PROVE DistinctInv'
  <2>1. Distinct(<<>>)
    BY DEF Distinct
  <2>2. QED
    BY <1>1, <1>4, <2>1 DEF GivenUp, DistinctInv
<1>5. ASSUME NEW q \in Queues, Popped(q) PROVE DistinctInv'
  <2>1. Distinct(Tail(buf[q]))
    BY <1>1, <1>5, DistinctTail DEF Popped
  <2>2. QED
    BY <1>1, <1>5, <2>1 DEF Popped, DistinctInv
<1>6. ASSUME NEW q \in Queues, Ended(q) PROVE DistinctInv'
  BY <1>1, <1>6 DEF Ended, DistinctInv
<1>7. ASSUME NEW q \in Queues, Told(q) PROVE DistinctInv'
  <2>1. Distinct(Tail(dq[q]))
    BY <1>1, <1>7, DistinctTail DEF Told
  <2>2. QED
    BY <1>1, <1>7, <2>1 DEF Told, DistinctInv
<1>8. QED
  BY <1>2, <1>3, <1>4, <1>5, <1>6, <1>7, Effects

LEMMA KnownStep == IInv /\ PlaceInv /\ [Next]_vars => KnownInv'
<1> SUFFICES ASSUME IInv, PlaceInv, [Next]_vars PROVE KnownInv'
  OBVIOUS
<1> USE DEF PlaceInv, KnownInv
<1>1. CASE Kept
  BY <1>1 DEF Kept, Somewhere
<1>2. ASSUME NEW t \in Tasks, NEW q \in Queues, Pushed(t, q) PROVE KnownInv'
  <2>1. SUFFICES ASSUME NEW u \in Tasks, Somewhere(u)' PROVE u = t \/ Somewhere(u)
    BY <1>2 DEF Pushed
  <2>2. UNCHANGED <<answered, lost, wtask>>
    BY <1>2 DEF Pushed
  <2>3. ASSUME NEW p \in Queues, u \in Queued(p)' \/ wtask[p] = u \/ u \in Dropped(p)'
        PROVE u = t \/ Somewhere(u)
    <3>1. /\ Queued(p)' = IF p = q THEN Queued(q) \cup {t} ELSE Queued(p)
          /\ Dropped(p)' = Dropped(p)
      BY <1>2, PushedSets
    <3>2. QED
      BY <2>3, <3>1, SomewhereSets
  <2>4. QED
    BY <2>1, <2>2, <2>3 DEF Somewhere, Queued, Dropped
<1>3. ASSUME NEW q \in Queues, GivenUp(q) PROVE KnownInv'
  <2>1. \A u \in Tasks : Somewhere(u)' => Somewhere(u)
    BY <1>3, GivenUpSets DEF GivenUp, Somewhere, Queued, Dropped
  <2>2. QED
    BY <1>3, <2>1 DEF GivenUp
<1>4. ASSUME NEW q \in Queues, Popped(q) PROVE KnownInv'
  <2>1. \A u \in Tasks : Somewhere(u)' => Somewhere(u)
    BY <1>4, PoppedSets DEF Popped, Somewhere, Queued, Dropped, IInv, TypeOK, WorkerType
  <2>2. QED
    BY <1>4, <2>1 DEF Popped
<1>5. ASSUME NEW q \in Queues, Ended(q) PROVE KnownInv'
  <2>1. \A u \in Tasks : Somewhere(u)' => Somewhere(u)
    BY <1>5, EndedSets, DispatcherAssumption DEF Ended, Somewhere, Queued, Dropped
  <2>2. QED
    BY <1>5, <2>1 DEF Ended
<1>6. ASSUME NEW q \in Queues, Told(q) PROVE KnownInv'
  <2>1. \A u \in Tasks : Somewhere(u)' => Somewhere(u)
    BY <1>6, ToldSets DEF Told, Somewhere, Queued, Dropped
  <2>2. QED
    BY <1>6, <2>1 DEF Told
<1>7. QED
  BY <1>1, <1>2, <1>3, <1>4, <1>5, <1>6, Effects

LEMMA OnePlaceStep == IInv /\ PlaceInv /\ [Next]_vars => OnePlace'
<1> SUFFICES ASSUME IInv, PlaceInv, [Next]_vars PROVE OnePlace'
  OBVIOUS
<1>1. \A t \in Tasks, p, q \in Queues : Apart(t, p, q)
  BY DEF PlaceInv, OnePlace
<1>2. answered \cap lost = {}
  BY DEF PlaceInv, OnePlace
<1>3. CASE Kept
  BY <1>1, <1>2, <1>3 DEF Kept, OnePlace, Apart, Queued, Dropped
<1>4. ASSUME NEW t \in Tasks, NEW q \in Queues, Pushed(t, q) PROVE OnePlace'
  <2>1. ~Somewhere(t) /\ UNCHANGED <<wtask, answered, lost>>
    BY <1>4, PushedSets DEF Pushed
  <2>2. SUFFICES ASSUME NEW u \in Tasks, NEW p \in Queues, NEW r \in Queues
                 PROVE Apart(u, p, r)'
    BY <1>2, <2>1 DEF OnePlace
  <2>3. /\ Queued(p)' = (IF p = q THEN Queued(q) \cup {t} ELSE Queued(p))
        /\ Queued(r)' = (IF r = q THEN Queued(q) \cup {t} ELSE Queued(r))
        /\ Dropped(p)' = Dropped(p) /\ Dropped(r)' = Dropped(r)
    BY <1>4, PushedSets
  <2>4. t \notin answered \cup lost
        /\ \A x \in Queues : t \notin Queued(x) /\ wtask[x] # t /\ t \notin Dropped(x)
    BY <2>1, SomewhereSets
  <2>5. Apart(u, p, r)
    BY <1>1
  <2>6. QED
    BY <2>1, <2>3, <2>4, <2>5 DEF Apart
<1>5. ASSUME NEW q \in Queues, GivenUp(q) PROVE OnePlace'
  <2>1. UNCHANGED <<wtask, answered, lost>>
    BY <1>5 DEF GivenUp
  <2>2. SUFFICES ASSUME NEW u \in Tasks, NEW p \in Queues, NEW r \in Queues
                 PROVE Apart(u, p, r)'
    BY <1>2, <2>1 DEF OnePlace
  <2>3. /\ Queued(p)' = (IF p = q THEN {} ELSE Queued(p))
        /\ Queued(r)' = (IF r = q THEN {} ELSE Queued(r))
        /\ Dropped(p)' = (IF p = q THEN Queued(q) ELSE Dropped(p))
        /\ Dropped(r)' = (IF r = q THEN Queued(q) ELSE Dropped(r))
    BY <1>5, GivenUpSets
  <2>4. Apart(u, p, r) /\ Apart(u, q, p) /\ Apart(u, q, r)
    BY <1>1
  <2>5. QED
    BY <2>1, <2>3, <2>4 DEF Apart
<1>6. ASSUME NEW q \in Queues, Popped(q) PROVE OnePlace'
  <2>1. UNCHANGED <<answered, lost>>
    BY <1>6 DEF Popped
  <2>2. SUFFICES ASSUME NEW u \in Tasks, NEW p \in Queues, NEW r \in Queues
                 PROVE Apart(u, p, r)'
    BY <1>2, <2>1 DEF OnePlace
  <2> DEFINE h == Head(buf[q])
  <2>3. /\ Queued(q) = Queued(q)' \cup {h} /\ h \notin Queued(q)'
        /\ p # q => Queued(p)' = Queued(p)
        /\ r # q => Queued(r)' = Queued(r)
        /\ Dropped(p)' = Dropped(p) /\ Dropped(r)' = Dropped(r)
    BY <1>6, PoppedSets
  <2>4. \A x \in Queues : wtask'[x] = IF x = q THEN h ELSE wtask[x]
    BY <1>6 DEF Popped, IInv, TypeOK, WorkerType
  <2>5. Apart(u, p, r) /\ Apart(u, q, p) /\ Apart(u, q, r)
    BY <1>1
  <2> HIDE DEF h
  <2>6. QED
    BY <2>1, <2>3, <2>4, <2>5 DEF Apart
<1>7. ASSUME NEW q \in Queues, Ended(q) PROVE OnePlace'
  <2>1. wtask[q] \in Tasks /\ \A x \in Queues : wtask'[x] = IF x = q THEN Nil ELSE wtask[x]
    BY <1>7, EndedSets
  <2>2. \/ answered' = answered \cup {wtask[q]} /\ lost' = lost
        \/ lost' = lost \cup {wtask[q]} /\ answered' = answered
    BY <1>7 DEF Ended
  <2>3. wtask[q] \notin answered \cup lost
    BY <1>1, <2>1 DEF Apart
  <2>4. SUFFICES ASSUME NEW u \in Tasks, NEW p \in Queues, NEW r \in Queues
                 PROVE Apart(u, p, r)'
    BY <1>2, <2>2, <2>3 DEF OnePlace
  <2>5. Queued(p)' = Queued(p) /\ Queued(r)' = Queued(r)
        /\ Dropped(p)' = Dropped(p) /\ Dropped(r)' = Dropped(r)
    BY <1>7, EndedSets
  <2>6. Apart(u, p, r) /\ Apart(u, p, q) /\ Apart(u, q, p)
    BY <1>1
  <2>7. u # Nil
    BY DispatcherAssumption
  <2>8. QED
    BY <2>1, <2>2, <2>5, <2>6, <2>7 DEF Apart
<1>8. ASSUME NEW q \in Queues, Told(q) PROVE OnePlace'
  <2> DEFINE h == Head(dq[q])
  <2>1. wtask' = wtask /\ lost' = lost /\ answered' = answered \cup {h} /\ h \in Tasks
        /\ Dropped(q) = Dropped(q)' \cup {h} /\ h \notin Dropped(q)'
    BY <1>8, ToldSets DEF Told
  <2>2. h \notin answered \cup lost
    BY <1>1, <2>1 DEF Apart
  <2>3. SUFFICES ASSUME NEW u \in Tasks, NEW p \in Queues, NEW r \in Queues
                 PROVE Apart(u, p, r)'
    BY <1>2, <2>1, <2>2 DEF OnePlace
  <2>4. /\ p # q => Dropped(p)' = Dropped(p)
        /\ r # q => Dropped(r)' = Dropped(r)
        /\ Queued(p)' = Queued(p) /\ Queued(r)' = Queued(r)
    BY <1>8, ToldSets
  <2>5. Apart(u, p, r) /\ Apart(u, q, p) /\ Apart(u, p, q)
    BY <1>1
  <2> HIDE DEF h
  <2>6. QED
    BY <2>1, <2>4, <2>5 DEF Apart
<1>9. QED
  BY <1>3, <1>4, <1>5, <1>6, <1>7, <1>8, Effects

LEMMA AwaitedFrame ==
  ASSUME PlaceInv,
         \A p \in Queues : qmap'[QueueChat[p]] = p /\ ~Serves(p)' =>
                             qmap[QueueChat[p]] = p /\ ~Serves(p),
         \A u \in Tasks : spc[u] = "lock" => spc'[u] = "lock" /\ sq'[u] = sq[u]
  PROVE AwaitedInv'
  BY DEF PlaceInv, AwaitedInv

LEMMA AwaitedStep == IInv /\ PlaceInv /\ [Next]_vars => AwaitedInv'
<1> SUFFICES ASSUME IInv, PlaceInv, [Next]_vars PROVE AwaitedInv'
  OBVIOUS
<1> USE DEF IInv, TypeOK, QueueType, SubmitType, WorkerType
<1>1. ASSUME NEW t \in Tasks, SubmitEnter(t) \/ SubmitSpawn(t) PROVE AwaitedInv'
  <2>1. \A p \in Queues : Serves(p)' = Serves(p)
    BY <1>1 DEF SubmitEnter, SubmitSpawn, workerVars, Serves, Serving, SubmitInv
  <2>2. qmap' = qmap
    BY <1>1 DEF SubmitEnter, SubmitSpawn, queueVars
  <2>3. \A u \in Tasks : spc[u] = "lock" => spc'[u] = "lock" /\ sq'[u] = sq[u]
    BY <1>1 DEF SubmitEnter, SubmitSpawn
  <2>4. QED
    BY <2>1, <2>2, <2>3, AwaitedFrame
<1>2. ASSUME NEW t \in Tasks, SubmitLookup(t) PROVE AwaitedInv'
  <2>1. spc' = [spc EXCEPT ![t] = "lock"] /\ spc[t] = "lookup" /\ wpc' = wpc
    BY <1>2 DEF SubmitLookup, workerVars
  <2>2. CASE UNCHANGED queueVars /\ sq' = [sq EXCEPT ![t] = qmap[ChatOf[t]]]
    <3>1. \A p \in Queues : Serves(p)' = Serves(p) /\ qmap' = qmap
      BY <2>1, <2>2 DEF Serves, queueVars
    <3>2. \A u \in Tasks : spc[u] = "lock" => spc'[u] = "lock" /\ sq'[u] = sq[u]
      BY <2>1, <2>2
    <3>3. QED
      BY <3>1, <3>2, AwaitedFrame
  <2>3. ASSUME NEW q \in Queues, QueueChat[q] = ChatOf[t],
               qmap' = [qmap EXCEPT ![ChatOf[t]] = q], sq' = [sq EXCEPT ![t] = q]
        PROVE AwaitedInv'
    <3>1. SUFFICES ASSUME NEW p \in Queues, qmap'[QueueChat[p]] = p, ~Serves(p)'
                   PROVE \E u \in Tasks : spc'[u] = "lock" /\ sq'[u] = p
      BY DEF AwaitedInv
    <3>2. CASE p = q
      BY <2>1, <2>3, <3>2
    <3>3. CASE p # q
      <4>1. qmap[QueueChat[p]] = p /\ ~Serves(p)
        BY <2>1, <2>3, <3>1, <3>3, DispatcherAssumption DEF Serves
      <4>2. PICK u \in Tasks : spc[u] = "lock" /\ sq[u] = p
        BY <4>1 DEF PlaceInv, AwaitedInv
      <4>3. QED
        BY <2>1, <2>3, <4>2
    <3>4. QED
      BY <3>2, <3>3
  <2>4. QED
    BY <1>2, <2>2, <2>3 DEF SubmitLookup
<1>3. ASSUME NEW t \in Tasks, SubmitStale(t) \/ SubmitFull(t) \/ SubmitPush(t) PROVE AwaitedInv'
  <2>1. qmap' = qmap /\ spc[t] = "lock" /\ sq[t] \in Queues /\ QueueChat[sq[t]] = ChatOf[t]
        /\ \A u \in Tasks : spc[u] = "lock" /\ u # t => spc'[u] = "lock" /\ sq'[u] = sq[u]
    BY <1>3 DEF SubmitStale, SubmitFull, SubmitPush, queueVars, SubmitInv
  <2>2. \A p \in Queues : wpc[p] \in Serving => wpc'[p] \in Serving
    BY <1>3 DEF SubmitStale, SubmitFull, SubmitPush, workerVars, Serving
  <2>3. qmap[ChatOf[t]] # sq[t] \/ wpc'[sq[t]] \in Serving
    <3>1. CASE SubmitStale(t)
      BY <3>1 DEF SubmitStale, Current
    <3>2. CASE SubmitFull(t)
      <4>1. buf[sq[t]] # <<>>
        BY <2>1, <3>2, EmptyQueue, DispatcherAssumption DEF SubmitFull, Full
      <4>2. QED
        BY <2>1, <2>2, <4>1 DEF QueueInv, Serves
    <3>3. CASE SubmitPush(t)
      <4>1. CASE running[sq[t]]
        BY <2>1, <2>2, <4>1 DEF QueueInv, Serves
      <4>2. CASE ~running[sq[t]]
        BY <2>1, <3>3, <4>2 DEF SubmitPush, Serving
      <4>3. QED
        BY <4>1, <4>2
    <3>4. QED
      BY <1>3, <3>1, <3>2, <3>3
  <2>4. SUFFICES ASSUME NEW p \in Queues, qmap'[QueueChat[p]] = p, ~Serves(p)'
                 PROVE \E u \in Tasks : spc'[u] = "lock" /\ sq'[u] = p
    BY DEF AwaitedInv
  <2>5. PICK u \in Tasks : spc[u] = "lock" /\ sq[u] = p
    BY <2>1, <2>2, <2>4 DEF PlaceInv, AwaitedInv, Serves
  <2>6. u # t
    BY <2>1, <2>3, <2>4, <2>5 DEF Serves
  <2>7. QED
    BY <2>1, <2>5, <2>6
<1>4. ASSUME NEW q \in Queues, WorkerCancelled(q) \/ WorkerRecover(q) \/ WorkerEmpty(q)
      PROVE AwaitedInv'
  <2>1. qmap' = [qmap EXCEPT ![QueueChat[q]] = Nil] /\ UNCHANGED <<spc, sq>>
    BY <1>4 DEF WorkerCancelled, WorkerRecover, WorkerEmpty, GiveUp, Unmap, submitVars,
       QueueInv, Serves, Serving
  <2>2. \A p \in Queues : p # q => Serves(p)' = Serves(p)
    BY <1>4 DEF WorkerCancelled, WorkerRecover, WorkerEmpty, Serves
  <2>3. ASSUME NEW p \in Queues, qmap'[QueueChat[p]] = p, ~Serves(p)'
        PROVE qmap[QueueChat[p]] = p /\ ~Serves(p)
    BY <2>1, <2>2, <2>3, DispatcherAssumption
  <2>4. QED
    BY <2>1, <2>3, AwaitedFrame
<1>5. ASSUME NEW q \in Queues,
             WorkerAcquire(q) \/ FailDropped(q) \/ WorkerPop(q) \/ WorkerRan(q)
               \/ WorkerHookPanic(q) \/ WorkerRelease(q) \/ WorkerDone(q)
      PROVE AwaitedInv'
  <2>1. UNCHANGED <<qmap, spc, sq>>
    BY <1>5 DEF WorkerAcquire, FailDropped, WorkerPop, WorkerRan, WorkerHookPanic,
       WorkerRelease, WorkerDone, queueVars, submitVars
  <2>2. \A p \in Queues : Serves(p)' = Serves(p)
    <3>1. PICK next \in {"none", "loop", "run", "recover", "release", "done"} :
            wpc' = [wpc EXCEPT ![q] = next] /\ (wpc[q] \in Serving <=> next \in Serving)
      <4>1. CASE WorkerRan(q)
        BY <4>1 DEF WorkerRan, Serving
      <4>2. CASE FailDropped(q) \/ WorkerRelease(q) \/ WorkerDone(q)
        BY <4>2 DEF FailDropped, WorkerRelease, WorkerDone, Serving
      <4>3. CASE WorkerAcquire(q) \/ WorkerPop(q) \/ WorkerHookPanic(q)
        BY <4>3 DEF WorkerAcquire, WorkerPop, WorkerHookPanic, Serving
      <4>4. QED
        BY <1>5, <4>1, <4>2, <4>3
    <3>2. QED
      BY <3>1 DEF Serves
  <2>3. QED
    BY <2>1, <2>2, AwaitedFrame
<1>6. CASE \/ \E q \in Queues : Dropper(q)
           \/ \E k \in Closers : Closer(k)
           \/ ParentCancel
           \/ UNCHANGED vars
  <2>1. UNCHANGED <<qmap, wpc, spc, sq>>
    BY <1>6 DEF Dropper, DropRun, DropPanic, DropDone, Closer, CloseCall,
       CloseBarrier, ForceCancel, DrainReturn, DrainExpire, ParentCancel, vars,
       queueVars, submitVars, workerVars
  <2>2. QED
    BY <2>1, AwaitedFrame DEF Serves
<1>7. QED
  BY <1>1, <1>2, <1>3, <1>4, <1>5, <1>6 DEF Next, Submit, Worker

LEMMA InitPlace == Init => PlaceInv
<1> SUFFICES ASSUME Init PROVE PlaceInv
  OBVIOUS
<1>1. \A q \in Queues : Queued(q) = {} /\ Dropped(q) = {} /\ wtask[q] = Nil
  BY EmptyQueue DEF Init, Queued, Dropped
<1>2. answered = {} /\ lost = {} /\ \A t \in Tasks : t # Nil
  BY DispatcherAssumption DEF Init
<1>3. ChatInv /\ KnownInv /\ OnePlace
  BY <1>1, <1>2, SomewhereSets DEF ChatInv, KnownInv, OnePlace, Apart
<1>4. DistinctInv
  BY DEF Init, DistinctInv, Distinct
<1>5. AwaitedInv
  BY DispatcherAssumption DEF Init, AwaitedInv
<1>6. QED
  BY <1>3, <1>4, <1>5 DEF PlaceInv

LEMMA NextPlace == IInv /\ PlaceInv /\ [Next]_vars => PlaceInv'
  BY ChatStep, DistinctStep, KnownStep, OnePlaceStep, AwaitedStep DEF PlaceInv

\* A task that Submit has accepted has one place, and the places exclude each other.
THEOREM PlaceInvariant == Spec => []PlaceInv
  BY InitPlace, NextPlace, DispatcherInvariant, PTL DEF Spec

\* Work is never left behind: a queue that holds tasks has a worker, and a queue
\* that has none and is still in the map is awaited by the call that made it.
THEOREM NothingStranded == Spec => []NoStrandedQueue
<1>1. IInv /\ PlaceInv => NoStrandedQueue
  BY DEF IInv, QueueInv, PlaceInv, AwaitedInv, NoStrandedQueue
<1>2. QED
  BY <1>1, DispatcherInvariant, PlaceInvariant, PTL

\* An accepted task is in one place and a refused one in none, over worker
\* changes, panics, cancellation and abandoned queues.
THEOREM TasksNeitherLostNorDoubled == Spec => []NoTaskLostOrRunTwice
<1>1. ASSUME IInv, PlaceInv, NEW t \in Tasks
      PROVE Cardinality(Places(t)) = IF t \in Accepted THEN 1 ELSE 0
  <2>1. CASE t \notin Accepted
    <3>1. ~Somewhere(t)
      BY <1>1, <2>1 DEF PlaceInv, KnownInv
    <3>2. Places(t) = {}
      BY <3>1 DEF Somewhere, Places
    <3>3. QED
      BY <2>1, <3>2, FS_EmptySet
  <2>2. CASE t \in Accepted
    <3>1. Somewhere(t)
      BY <1>1, <2>2 DEF IInv, AccountInv
    <3>2. answered \cap lost = {} /\ \A p, q \in Queues : Apart(t, p, q)
      BY <1>1 DEF PlaceInv, OnePlace
    <3>3. \E x : Places(t) = {x}
      <4>1. CASE t \in answered
        <5>1. Places(t) = {<<"answered", Nil>>}
          BY <3>2, <4>1 DEF Apart, Queued, Dropped, Places
        <5>2. QED
          BY <5>1
      <4>2. CASE t \in lost
        <5>1. Places(t) = {<<"lost", Nil>>}
          BY <3>2, <4>2 DEF Apart, Queued, Dropped, Places
        <5>2. QED
          BY <5>1
      <4>3. ASSUME NEW q \in Queues, t \in TasksIn(buf[q]) PROVE Places(t) = {<<"queued", q>>}
        BY <3>2, <4>3 DEF Apart, Queued, Dropped, Places
      <4>4. ASSUME NEW q \in Queues, wtask[q] = t PROVE Places(t) = {<<"running", q>>}
        BY <3>2, <4>4 DEF Apart, Queued, Dropped, Places
      <4>5. ASSUME NEW q \in Queues, t \in TasksIn(dq[q]) PROVE Places(t) = {<<"dropped", q>>}
        BY <3>2, <4>5 DEF Apart, Queued, Dropped, Places
      <4>6. QED
        BY <3>1, <4>1, <4>2, <4>3, <4>4, <4>5 DEF Somewhere
    <3>4. QED
      BY <2>2, <3>3, FS_Singleton
  <2>3. QED
    BY <2>1, <2>2
<1>2. IInv /\ PlaceInv => NoTaskLostOrRunTwice
  BY <1>1 DEF NoTaskLostOrRunTwice
<1>3. QED
  BY <1>2, DispatcherInvariant, PlaceInvariant, PTL
-----------------------------------------------------------------------------
(***************************************************************************)
(* The refinement of ChatFifo: each of the six effects is one of its       *)
(* actions, under the mapping Lines, Sending, Abandoned.                   *)
(***************************************************************************)
Held == {wtask[q] : q \in Queues} \ {Nil}

LEMMA SendingHeld == ASSUME IInv PROVE Sending = Held
  BY DEF IInv, TaskInv, Sending, Held

LEMMA SendingHeldNext == ASSUME IInv' PROVE Sending' = Held'
  BY DEF IInv, TaskInv, Sending, Held

LEMMA AbandonedSets ==
  ASSUME NEW t
  PROVE /\ t \in Abandoned <=> \E q \in Queues : t \in Dropped(q)
        /\ t \in Abandoned' <=> \E q \in Queues : t \in Dropped(q)'
  BY DEF Abandoned, Dropped

\* Another queue object is not the one the map holds for the chat of q.
LEMMA LineUpdate ==
  ASSUME IInv, NEW q \in Queues, qmap[QueueChat[q]] = q, NEW s,
         buf' = [buf EXCEPT ![q] = s],
         qmap' = qmap \/ (qmap' = [qmap EXCEPT ![QueueChat[q]] = Nil] /\ s = <<>>)
  PROVE /\ Lines' = [Lines EXCEPT ![QueueChat[q]] = s]
        /\ Lines[QueueChat[q]] = buf[q]
<1>1. q # Nil /\ QueueChat[q] \in Chats
  BY DispatcherAssumption
<1>2. Line(QueueChat[q]) = buf[q]
  BY <1>1 DEF Line
<1>3. ASSUME NEW c \in Chats PROVE Line(c)' = IF c = QueueChat[q] THEN s ELSE Line(c)
  <2>1. CASE c = QueueChat[q]
    BY <1>1, <2>1 DEF Line, IInv, TypeOK, QueueType
  <2>2. CASE c # QueueChat[q]
    <3>1. qmap'[c] = qmap[c] /\ qmap[c] # q
      BY <1>1, <2>2 DEF IInv, MapInv, TypeOK, QueueType
    <3>2. qmap[c] = Nil \/ buf'[qmap[c]] = buf[qmap[c]]
      BY <3>1 DEF IInv, TypeOK, QueueType
    <3>3. QED
      BY <2>2, <3>1, <3>2 DEF Line
  <2>3. QED
    BY <2>1, <2>2
<1>4. QED
  BY <1>1, <1>2, <1>3 DEF Lines

\* While the worker of q sends nothing, nobody sends for the chat of q.
LEMMA ChatIdle ==
  ASSUME IInv, PlaceInv, NEW q \in Queues, Serves(q), wpc[q] # "run"
  PROVE \A t \in Sending : ChatOf[t] # QueueChat[q]
<1>1. SUFFICES ASSUME NEW p \in Queues, wpc[p] = "run", ChatOf[wtask[p]] = QueueChat[q]
               PROVE FALSE
  BY DEF Sending
<1>2. wtask[p] # Nil /\ Serves(p)
  BY <1>1 DEF IInv, TaskInv, Serves, Serving
<1>3. QueueChat[p] = QueueChat[q]
  BY <1>1, <1>2 DEF PlaceInv, ChatInv
<1>4. p = q
  BY <1>2, <1>3 DEF IInv, QueueInv
<1>5. QED
  BY <1>1, <1>4

LEMMA InitFifo == Init => Fifo!Init
<1> SUFFICES ASSUME Init PROVE Fifo!Init
  OBVIOUS
<1>1. Lines = [c \in Chats |-> <<>>]
  BY DEF Init, Lines, Line
<1>2. Sending = {}
  BY DEF Init, Sending
<1>3. Abandoned = {}
  BY EmptyQueue DEF Init, Abandoned
<1>4. QED
  BY <1>1, <1>2, <1>3 DEF Init, Fifo!Init

LEMMA KeptFifo ==
  ASSUME IInv, IInv', Kept PROVE UNCHANGED Fifo!fifoVars
<1>1. Lines' = Lines /\ Abandoned' = Abandoned /\ answered' = answered /\ lost' = lost
  BY DEF Kept, Lines, Abandoned
<1>2. Sending' = Sending
  BY SendingHeld, SendingHeldNext DEF Kept, Held
<1>3. QED
  BY <1>1, <1>2 DEF Fifo!fifoVars

LEMMA PushedFifo ==
  ASSUME IInv, IInv', PlaceInv, NEW t \in Tasks, NEW q \in Queues, Pushed(t, q)
  PROVE Fifo!Accept(t)
<1>1. QueueChat[q] = ChatOf[t] /\ qmap[QueueChat[q]] = q
  BY PushedSets DEF Pushed
<1>2. Lines' = [Lines EXCEPT ![ChatOf[t]] = Append(buf[q], t)] /\ Lines[ChatOf[t]] = buf[q]
  BY <1>1, LineUpdate DEF Pushed
<1>3. Sending' = Sending
  BY SendingHeld, SendingHeldNext DEF Pushed, Held
<1>4. QED
  BY <1>2, <1>3 DEF Pushed, Fifo!Accept, Abandoned

LEMMA GivenUpFifo ==
  ASSUME IInv, IInv', PlaceInv, NEW q \in Queues, GivenUp(q)
  PROVE Fifo!Abandon(QueueChat[q])
<1>1. Serves(q) /\ wpc[q] # "run" /\ qmap[QueueChat[q]] = q
  BY DEF GivenUp, Serves, Serving, IInv, QueueInv
<1>2. Lines' = [Lines EXCEPT ![QueueChat[q]] = <<>>] /\ Lines[QueueChat[q]] = buf[q]
  BY <1>1, LineUpdate DEF GivenUp
<1>3. Sending' = Sending
  BY SendingHeld, SendingHeldNext DEF GivenUp, Held
<1>4. Abandoned' = Abandoned \cup TasksIn(buf[q])
  BY GivenUpSets, AbandonedSets DEF Queued
<1>5. QED
  BY <1>1, <1>2, <1>3, <1>4, ChatIdle DEF GivenUp, Fifo!Abandon, TasksIn

LEMMA PoppedFifo ==
  ASSUME IInv, IInv', PlaceInv, NEW q \in Queues, Popped(q)
  PROVE Fifo!Start(QueueChat[q])
<1>1. Serves(q) /\ wpc[q] # "run" /\ qmap[QueueChat[q]] = q
  BY DEF Popped, Serves, Serving, IInv, QueueInv
<1>2. Lines' = [Lines EXCEPT ![QueueChat[q]] = Tail(buf[q])] /\ Lines[QueueChat[q]] = buf[q]
  BY <1>1, LineUpdate DEF Popped
<1>3. Sending' = Sending \cup {Head(buf[q])}
  <2>1. wtask[q] = Nil /\ Head(buf[q]) # Nil /\ wtask \in [Queues -> Tasks \cup {Nil}]
    BY PoppedSets, DispatcherAssumption DEF IInv, TypeOK, WorkerType
  <2>2. Held' = Held \cup {Head(buf[q])}
    BY <2>1 DEF Popped, Held
  <2>3. QED
    BY <2>2, SendingHeld, SendingHeldNext
<1>4. QED
  BY <1>1, <1>2, <1>3, ChatIdle DEF Popped, Fifo!Start, Abandoned

LEMMA EndedFifo ==
  ASSUME IInv, IInv', PlaceInv, NEW q \in Queues, Ended(q)
  PROVE wtask[q] \in Tasks /\ Fifo!Finish(wtask[q])
<1>1. wtask[q] \in Tasks /\ wtask[q] # Nil
  BY EndedSets, DispatcherAssumption
<1>2. Lines' = Lines /\ Abandoned' = Abandoned
  BY DEF Ended, Lines, Line, Abandoned
<1>3. wtask[q] \in Sending
  BY DEF Ended, Sending
<1>4. \A p \in Queues : wtask[p] = wtask[q] => p = q
  BY <1>1 DEF PlaceInv, OnePlace, Apart
<1>5. Sending' = Sending \ {wtask[q]}
  <2>1. Held' = Held \ {wtask[q]}
    BY <1>1, <1>4, EndedSets DEF Held
  <2>2. QED
    BY <2>1, SendingHeld, SendingHeldNext
<1>6. QED
  BY <1>1, <1>2, <1>3, <1>5 DEF Ended, Fifo!Finish

LEMMA ToldFifo ==
  ASSUME IInv, IInv', PlaceInv, NEW q \in Queues, Told(q)
  PROVE Head(dq[q]) \in Tasks /\ Fifo!Answer(Head(dq[q]))
<1>1. Lines' = Lines
  BY DEF Told, Lines, Line
<1>2. Sending' = Sending
  BY SendingHeld, SendingHeldNext DEF Told, Held
<1>3. Head(dq[q]) \in Tasks /\ Head(dq[q]) \in Dropped(q)
  BY ToldSets
<1>4. \A p \in Queues : Head(dq[q]) \in Dropped(p) => p = q
  BY <1>3 DEF PlaceInv, OnePlace, Apart
<1>5. Head(dq[q]) \in Abandoned /\ Abandoned' = Abandoned \ {Head(dq[q])}
  BY <1>3, <1>4, ToldSets, AbandonedSets
<1>6. QED
  BY <1>1, <1>2, <1>3, <1>5 DEF Told, Fifo!Answer

\* Whatever the workers do, the callers see one bounded FIFO per chat: every
\* step of the dispatcher is a step of ChatFifo or changes nothing in it.
THEOREM FifoPerChat == Spec => ImplementsChatFifo
<1>1. IInv /\ IInv' /\ PlaceInv /\ [Next]_vars => [Fifo!Next]_Fifo!fifoVars
  <2> SUFFICES ASSUME IInv, IInv', PlaceInv, [Next]_vars PROVE [Fifo!Next]_Fifo!fifoVars
    OBVIOUS
  <2>1. CASE Kept
    BY <2>1, KeptFifo
  <2>2. ASSUME NEW t \in Tasks, NEW q \in Queues, Pushed(t, q) PROVE Fifo!Next
    BY <2>2, PushedFifo DEF Fifo!Next
  <2>3. ASSUME NEW q \in Queues, GivenUp(q) \/ Popped(q) PROVE Fifo!Next
    BY <2>3, GivenUpFifo, PoppedFifo, DispatcherAssumption DEF Fifo!Next
  <2>4. ASSUME NEW q \in Queues, Ended(q) PROVE Fifo!Next
    BY <2>4, EndedFifo DEF Fifo!Next
  <2>5. ASSUME NEW q \in Queues, Told(q) PROVE Fifo!Next
    BY <2>5, ToldFifo DEF Fifo!Next
  <2>6. QED
    BY <2>1, <2>2, <2>3, <2>4, <2>5, Effects
<1>2. QED
  BY <1>1, InitFifo, DispatcherInvariant, PlaceInvariant, PTL DEF Spec, ImplementsChatFifo, Fifo!Spec
=============================================================================

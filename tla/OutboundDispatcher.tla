------------------------- MODULE OutboundDispatcher -------------------------
(***************************************************************************)
(* core/engine/dispatcher.go: the scheduler of outgoing messages.  Submit  *)
(* puts a task into the queue of its chat; a queue that holds tasks has    *)
(* one worker, which competes for a global token, runs the tasks in order  *)
(* and removes the queue from the map when it is empty.  Queue objects are *)
(* therefore created and discarded all the time, and a submitter may hold  *)
(* one that is no longer in the map.                                       *)
(*                                                                         *)
(* One step is one critical section of the queue's mutex, one operation    *)
(* of the drain counter or one step of a goroutine between two of those.   *)
(* A queue object keeps the chat it was created for, so the objects are    *)
(* drawn from a pool per chat; an object nobody refers to any more may be  *)
(* drawn again.  A task is submitted once.                                 *)
(***************************************************************************)
EXTENDS Integers, Sequences, FiniteSets

CONSTANTS Chats, Tasks, ChatOf, QueueSize,
          Queues,        \* queue objects
          QueueChat,     \* the chatID field of a queue object, never assigned again
          Closers,       \* calls of Close, Shutdown, ForceClose and Drain
          MaxInflight,   \* capacity of the token channel
          Nil

ASSUME DispatcherAssumption ==
  /\ ChatOf \in [Tasks -> Chats]
  /\ QueueChat \in [Queues -> Chats]
  /\ QueueSize \in Nat \ {0}       \* NewOutboundDispatcher replaces values <= 0
  /\ MaxInflight \in Nat \ {0}
  /\ Nil \notin Queues \cup Tasks
  /\ IsFiniteSet(Queues)

VARIABLES
  qmap,        \* d.queues: chat -> queue object in the map, or Nil
  buf,         \* q.q: the tasks of the ring buffer, oldest first
  running,     \* q.running
  spc, sq,     \* per Submit call: control state, the queue it loaded
  wpc, wtask,  \* per queue object: control state of its worker, the popped task
  dq, dpc,     \* per queue object: tasks handed to failDroppedTasks, its goroutine
  sem,         \* tokens taken from d.sem
  wg,          \* d.wg.n, the drain counter
  stopped,     \* d.stopped
  cancelled,   \* d.baseCtx is done
  cpc, ckind,  \* per closing call: control state, which function it is
  answered,    \* tasks that ran to an outcome, under a live or a dead context
  lost,        \* tasks popped by a worker and never run (OnStart panicked)
  crashed      \* an unrecovered panic has ended the process

queueVars  == <<qmap, buf, running>>
submitVars == <<spc, sq>>
workerVars == <<wpc, wtask>>
dropVars   == <<dq, dpc>>
closeVars  == <<cpc, ckind, stopped, cancelled>>
vars == <<qmap, buf, running, spc, sq, wpc, wtask, dq, dpc, sem, wg,
          stopped, cancelled, cpc, ckind, answered, lost, crashed>>

TasksIn(s) == {s[i] : i \in DOMAIN s}

\* The states in which a Submit call holds the read lock of d.gate.
Gated == {"lookup", "lock"}
\* The states in which a worker holds a token of d.sem.
TokenHeld == {"loop", "run", "recover", "failTok", "release"}
\* The states of a worker that still serves its queue.
Serving == {"spawned", "wait", "loop", "run", "recover"}
Serves(q) == wpc[q] \in Serving
Kinds == {"Close", "Shutdown", "ForceClose", "Drain"}

QueueType ==
  /\ qmap \in [Chats -> Queues \cup {Nil}]
  /\ buf \in [Queues -> Seq(Tasks)]
  /\ \A q \in Queues : Len(buf[q]) <= QueueSize
  /\ running \in [Queues -> BOOLEAN]
SubmitType ==
  /\ spc \in [Tasks -> {"idle", "lookup", "lock", "spawn", "accepted", "full", "closed"}]
  /\ sq \in [Tasks -> Queues \cup {Nil}]
WorkerType ==
  /\ wpc \in [Queues -> {"none", "spawned", "wait", "loop", "run", "recover",
                          "fail", "failTok", "release", "done"}]
  /\ wtask \in [Queues -> Tasks \cup {Nil}]
  /\ sem \in Int
DropType ==
  /\ dq \in [Queues -> Seq(Tasks)]
  /\ dpc \in [Queues -> {"none", "live"}]
  /\ wg \in Int
CloseType ==
  /\ stopped \in BOOLEAN
  /\ cancelled \in BOOLEAN
  /\ cpc \in [Closers -> {"idle", "barrier", "cancel", "draining", "returned", "expired"}]
  /\ ckind \in [Closers -> Kinds]
OutcomeType ==
  /\ answered \subseteq Tasks
  /\ lost \subseteq Tasks
  /\ crashed \in BOOLEAN
TypeOK ==
  QueueType /\ SubmitType /\ WorkerType /\ DropType /\ CloseType /\ OutcomeType

Init ==
  /\ qmap = [c \in Chats |-> Nil]
  /\ buf = [q \in Queues |-> <<>>]
  /\ running = [q \in Queues |-> FALSE]
  /\ spc = [t \in Tasks |-> "idle"]
  /\ sq = [t \in Tasks |-> Nil]
  /\ wpc = [q \in Queues |-> "none"]
  /\ wtask = [q \in Queues |-> Nil]
  /\ dq = [q \in Queues |-> <<>>]
  /\ dpc = [q \in Queues |-> "none"]
  /\ sem = 0
  /\ wg = 0
  /\ stopped = FALSE
  /\ cancelled = FALSE
  /\ cpc = [k \in Closers |-> "idle"]
  /\ ckind = [k \in Closers |-> "Close"]
  /\ answered = {}
  /\ lost = {}
  /\ crashed = FALSE
-----------------------------------------------------------------------------
(* Submit *)

\* gate.RLock, which waits while a Close is between its request and its release
\* of the write lock, and the check of stopped: a Close that comes between the
\* two has the same effect as one that comes before both.
SubmitEnter(t) ==
  /\ ~crashed
  /\ spc[t] = "idle"
  /\ \A k \in Closers : cpc[k] # "barrier"
  /\ spc' = [spc EXCEPT ![t] = IF stopped THEN "closed" ELSE "lookup"]
  /\ UNCHANGED <<queueVars, sq, workerVars, dropVars, sem, wg, closeVars,
                 answered, lost, crashed>>

\* A queue object that nothing refers to: what the allocator may return.
Fresh(q) ==
  /\ wpc[q] = "none" /\ dpc[q] = "none"
  /\ \A c \in Chats : qmap[c] # q
  /\ \A t \in Tasks : sq[t] # q

\* Load, or LoadOrStore of a new empty queue.
SubmitLookup(t) ==
  /\ ~crashed
  /\ spc[t] = "lookup"
  /\ spc' = [spc EXCEPT ![t] = "lock"]
  /\ \/ /\ qmap[ChatOf[t]] # Nil
        /\ sq' = [sq EXCEPT ![t] = qmap[ChatOf[t]]]
        /\ UNCHANGED queueVars
     \/ /\ qmap[ChatOf[t]] = Nil
        /\ \E q \in Queues :
             /\ QueueChat[q] = ChatOf[t] /\ Fresh(q)
             /\ qmap' = [qmap EXCEPT ![ChatOf[t]] = q]
             /\ buf' = [buf EXCEPT ![q] = <<>>]
             /\ running' = [running EXCEPT ![q] = FALSE]
             /\ sq' = [sq EXCEPT ![t] = q]
  /\ UNCHANGED <<workerVars, dropVars, sem, wg, closeVars, answered, lost, crashed>>

\* The queue the call has loaded is still the one in the map.
Current(t) == qmap[ChatOf[t]] = sq[t]

\* The test of push.
Full(q) == Len(buf[q]) >= QueueSize

\* The critical section under q.mu: the queue was taken out of the map in the
\* meantime, or it is full, or the task is pushed and, when the queue has no
\* worker, one is registered in the drain counter.
SubmitStale(t) ==
  /\ ~crashed
  /\ spc[t] = "lock"
  /\ ~Current(t)
  /\ spc' = [spc EXCEPT ![t] = "lookup"]
  /\ sq' = [sq EXCEPT ![t] = Nil]
  /\ UNCHANGED <<queueVars, workerVars, dropVars, sem, wg, closeVars,
                 answered, lost, crashed>>

SubmitFull(t) ==
  /\ ~crashed
  /\ spc[t] = "lock"
  /\ Current(t)
  /\ Full(sq[t])
  /\ spc' = [spc EXCEPT ![t] = "full"]
  /\ sq' = [sq EXCEPT ![t] = Nil]
  /\ UNCHANGED <<queueVars, workerVars, dropVars, sem, wg, closeVars,
                 answered, lost, crashed>>

SubmitPush(t) ==
  LET q == sq[t] IN
  /\ ~crashed
  /\ spc[t] = "lock"
  /\ Current(t)
  /\ ~Full(q)
  /\ buf' = [buf EXCEPT ![q] = Append(@, t)]
  /\ running' = [running EXCEPT ![q] = TRUE]
  /\ IF running[q]
     THEN /\ spc' = [spc EXCEPT ![t] = "accepted"]
          /\ sq' = [sq EXCEPT ![t] = Nil]
          /\ UNCHANGED <<wpc, wg>>
     ELSE /\ spc' = [spc EXCEPT ![t] = "spawn"]
          /\ wpc' = [wpc EXCEPT ![q] = "spawned"]
          /\ wg' = wg + 1
          /\ UNCHANGED sq
  /\ UNCHANGED <<qmap, wtask, dropVars, sem, closeVars, answered, lost, crashed>>

\* go d.worker(q), after both locks have been released.
SubmitSpawn(t) ==
  /\ ~crashed
  /\ spc[t] = "spawn"
  /\ spc' = [spc EXCEPT ![t] = "accepted"]
  /\ wpc' = [wpc EXCEPT ![sq[t]] = "wait"]
  /\ sq' = [sq EXCEPT ![t] = Nil]
  /\ UNCHANGED <<queueVars, wtask, dropVars, sem, wg, closeVars,
                 answered, lost, crashed>>
-----------------------------------------------------------------------------
(* worker *)

\* Mutant: the empty queue stays in the map.
UnmapNothing(q) == qmap' = qmap
\* if actual, ok := d.queues.Load(q.chatID); ok && actual == q { Delete }
Unmap(q) ==
  qmap' = IF qmap[QueueChat[q]] = q THEN [qmap EXCEPT ![QueueChat[q]] = Nil] ELSE qmap

\* Room in the channel of tokens.
TokenFree == sem < MaxInflight

\* The select of worker takes a token although the context is done: both
\* branches are ready then and Go picks either.
WorkerAcquire(q) ==
  /\ ~crashed
  /\ wpc[q] = "wait"
  /\ TokenFree
  /\ sem' = sem + 1
  /\ wpc' = [wpc EXCEPT ![q] = "loop"]
  /\ UNCHANGED <<queueVars, submitVars, wtask, dropVars, wg, closeVars,
                 answered, lost, crashed>>

\* Mutant: the queue is discarded with its tasks.
GiveUpForgets(q) ==
  /\ buf' = [buf EXCEPT ![q] = <<>>]
  /\ running' = [running EXCEPT ![q] = FALSE]
  /\ Unmap(q)
  /\ UNCHANGED dq

\* takeAll; running = false; removal from the map: one critical section.
GiveUp(q) ==
  /\ dq' = [dq EXCEPT ![q] = buf[q]]
  /\ buf' = [buf EXCEPT ![q] = <<>>]
  /\ running' = [running EXCEPT ![q] = FALSE]
  /\ Unmap(q)

WorkerCancelled(q) ==
  /\ ~crashed
  /\ wpc[q] = "wait"
  /\ cancelled
  /\ GiveUp(q)
  /\ wpc' = [wpc EXCEPT ![q] = "fail"]
  /\ UNCHANGED <<submitVars, wtask, dpc, sem, wg, closeVars, answered, lost, crashed>>

WorkerRecover(q) ==
  /\ ~crashed
  /\ wpc[q] = "recover"
  /\ GiveUp(q)
  /\ wpc' = [wpc EXCEPT ![q] = "failTok"]
  /\ UNCHANGED <<submitVars, wtask, dpc, sem, wg, closeVars, answered, lost, crashed>>

\* Mutant: the goroutine is started without being counted.
FailDroppedUncounted(q) ==
  /\ ~crashed
  /\ wpc[q] \in {"fail", "failTok"}
  /\ dpc' = IF dq[q] = <<>> THEN dpc ELSE [dpc EXCEPT ![q] = "live"]
  /\ wpc' = [wpc EXCEPT ![q] = IF @ = "fail" THEN "done" ELSE "release"]
  /\ UNCHANGED <<queueVars, submitVars, wtask, dq, sem, wg, closeVars,
                 answered, lost, crashed>>

\* failDroppedTasks: the goroutine is registered before its creator is done.
\* A worker that recovers calls the hooks Recover and OnDone next, and nothing
\* recovers a panic of these.
FailDropped(q) ==
  /\ ~crashed
  /\ wpc[q] \in {"fail", "failTok"}
  /\ IF dq[q] = <<>>
     THEN UNCHANGED <<dpc, wg>>
     ELSE /\ dpc' = [dpc EXCEPT ![q] = "live"]
          /\ wg' = wg + 1
  /\ wpc' = [wpc EXCEPT ![q] = IF @ = "fail" THEN "done" ELSE "release"]
  /\ crashed' \in (IF wpc[q] = "failTok" THEN BOOLEAN ELSE {FALSE})
  /\ UNCHANGED <<queueVars, submitVars, wtask, dq, sem, closeVars, answered, lost>>

WorkerEmpty(q) ==
  /\ ~crashed
  /\ wpc[q] = "loop"
  /\ buf[q] = <<>>
  /\ running' = [running EXCEPT ![q] = FALSE]
  /\ Unmap(q)
  /\ wpc' = [wpc EXCEPT ![q] = "release"]
  /\ UNCHANGED <<buf, submitVars, wtask, dropVars, sem, wg, closeVars,
                 answered, lost, crashed>>

\* Mutant: the ring buffer gives out the newest task.
WorkerPopNewest(q) ==
  /\ ~crashed
  /\ wpc[q] = "loop"
  /\ buf[q] # <<>>
  /\ wtask' = [wtask EXCEPT ![q] = buf[q][Len(buf[q])]]
  /\ buf' = [buf EXCEPT ![q] = SubSeq(@, 1, Len(@) - 1)]
  /\ wpc' = [wpc EXCEPT ![q] = "run"]
  /\ UNCHANGED <<qmap, running, submitVars, dropVars, sem, wg, closeVars,
                 answered, lost, crashed>>

WorkerPop(q) ==
  /\ ~crashed
  /\ wpc[q] = "loop"
  /\ buf[q] # <<>>
  /\ wtask' = [wtask EXCEPT ![q] = Head(buf[q])]
  /\ buf' = [buf EXCEPT ![q] = Tail(@)]
  /\ wpc' = [wpc EXCEPT ![q] = "run"]
  /\ UNCHANGED <<qmap, running, submitVars, dropVars, sem, wg, closeVars,
                 answered, lost, crashed>>

\* The task returns, or panics after settling its Future, or the OnDone hook
\* panics: the caller has an outcome, the worker goes on or recovers.
WorkerRan(q) ==
  /\ ~crashed
  /\ wpc[q] = "run"
  /\ answered' = answered \cup {wtask[q]}
  /\ wtask' = [wtask EXCEPT ![q] = Nil]
  /\ \E next \in {"loop", "recover"} : wpc' = [wpc EXCEPT ![q] = next]
  /\ UNCHANGED <<queueVars, submitVars, dropVars, sem, wg, closeVars, lost, crashed>>

\* The OnStart hook panics: the task has been popped and is never run.
WorkerHookPanic(q) ==
  /\ ~crashed
  /\ wpc[q] = "run"
  /\ lost' = lost \cup {wtask[q]}
  /\ wtask' = [wtask EXCEPT ![q] = Nil]
  /\ wpc' = [wpc EXCEPT ![q] = "recover"]
  /\ UNCHANGED <<queueVars, submitVars, dropVars, sem, wg, closeVars,
                 answered, crashed>>

\* Mutant: a worker keeps its token when it leaves.
WorkerReleaseNothing(q) ==
  /\ ~crashed
  /\ wpc[q] = "release"
  /\ wpc' = [wpc EXCEPT ![q] = "done"]
  /\ UNCHANGED <<queueVars, submitVars, wtask, dropVars, sem, wg, closeVars,
                 answered, lost, crashed>>

\* The deferred calls, last registered first: the token, then the counter.
WorkerRelease(q) ==
  /\ ~crashed
  /\ wpc[q] = "release"
  /\ sem' = sem - 1
  /\ wpc' = [wpc EXCEPT ![q] = "done"]
  /\ UNCHANGED <<queueVars, submitVars, wtask, dropVars, wg, closeVars,
                 answered, lost, crashed>>

WorkerDone(q) ==
  /\ ~crashed
  /\ wpc[q] = "done"
  /\ wg' = wg - 1
  /\ wpc' = [wpc EXCEPT ![q] = "none"]
  /\ UNCHANGED <<queueVars, submitVars, wtask, dropVars, sem, closeVars,
                 answered, lost, crashed>>
-----------------------------------------------------------------------------
(* the goroutine of failDroppedTasks *)

DropRun(q) ==
  /\ ~crashed
  /\ dpc[q] = "live"
  /\ dq[q] # <<>>
  /\ answered' = answered \cup {Head(dq[q])}
  /\ dq' = [dq EXCEPT ![q] = Tail(@)]
  /\ UNCHANGED <<queueVars, submitVars, workerVars, dpc, sem, wg, closeVars,
                 lost, crashed>>

\* Nothing recovers a panic of a task in this goroutine: the process ends.
\* submitReply settles the Future of the task and panics again.
DropPanic(q) ==
  /\ ~crashed
  /\ dpc[q] = "live"
  /\ dq[q] # <<>>
  /\ answered' = answered \cup {Head(dq[q])}
  /\ dq' = [dq EXCEPT ![q] = Tail(@)]
  /\ crashed' = TRUE
  /\ UNCHANGED <<queueVars, submitVars, workerVars, dpc, sem, wg, closeVars, lost>>

\* Mutant: the goroutine leaves the counter as it is.
DropDoneUncounted(q) ==
  /\ ~crashed
  /\ dpc[q] = "live"
  /\ dq[q] = <<>>
  /\ dpc' = [dpc EXCEPT ![q] = "none"]
  /\ UNCHANGED <<queueVars, submitVars, workerVars, dq, sem, wg, closeVars,
                 answered, lost, crashed>>

DropDone(q) ==
  /\ ~crashed
  /\ dpc[q] = "live"
  /\ dq[q] = <<>>
  /\ wg' = wg - 1
  /\ dpc' = [dpc EXCEPT ![q] = "none"]
  /\ UNCHANGED <<queueVars, submitVars, workerVars, dq, sem, closeVars,
                 answered, lost, crashed>>
-----------------------------------------------------------------------------
(* Close, Shutdown, ForceClose, Drain *)

\* A closing function stores stopped; Drain alone does not.
CloseCall(k) ==
  /\ ~crashed
  /\ cpc[k] = "idle"
  /\ \E kind \in Kinds :
       /\ ckind' = [ckind EXCEPT ![k] = kind]
       /\ cpc' = [cpc EXCEPT ![k] = IF kind = "Drain" THEN "draining" ELSE "barrier"]
       /\ stopped' = (stopped \/ kind # "Drain")
  /\ UNCHANGED <<queueVars, submitVars, workerVars, dropVars, sem, wg, cancelled,
                 answered, lost, crashed>>

GateClear == \A t \in Tasks : spc[t] \notin Gated

\* gate.Lock and gate.Unlock: every Submit that holds the read lock leaves first.
CloseBarrier(k) ==
  /\ ~crashed
  /\ cpc[k] = "barrier"
  /\ GateClear
  /\ cpc' = [cpc EXCEPT ![k] = CASE ckind[k] = "ForceClose" -> "cancel"
                                 [] ckind[k] = "Shutdown" -> "draining"
                                 [] OTHER -> "returned"]
  /\ UNCHANGED <<queueVars, submitVars, workerVars, dropVars, sem, wg, ckind,
                 stopped, cancelled, answered, lost, crashed>>

ForceCancel(k) ==
  /\ ~crashed
  /\ cpc[k] = "cancel"
  /\ cancelled' = TRUE
  /\ cpc' = [cpc EXCEPT ![k] = "returned"]
  /\ UNCHANGED <<queueVars, submitVars, workerVars, dropVars, sem, wg, ckind,
                 stopped, answered, lost, crashed>>

\* d.wg.Wait: it returns nil only after it has read 0 (DrainTracker.tla).
DrainReturn(k) ==
  /\ ~crashed
  /\ cpc[k] = "draining"
  /\ wg = 0
  /\ cpc' = [cpc EXCEPT ![k] = "returned"]
  /\ UNCHANGED <<queueVars, submitVars, workerVars, dropVars, sem, wg, ckind,
                 stopped, cancelled, answered, lost, crashed>>

DrainExpire(k) ==
  /\ ~crashed
  /\ cpc[k] = "draining"
  /\ cpc' = [cpc EXCEPT ![k] = "expired"]
  /\ UNCHANGED <<queueVars, submitVars, workerVars, dropVars, sem, wg, ckind,
                 stopped, cancelled, answered, lost, crashed>>

\* The context given to NewOutboundDispatcher ends.
ParentCancel ==
  /\ ~crashed
  /\ ~cancelled
  /\ cancelled' = TRUE
  /\ UNCHANGED <<queueVars, submitVars, workerVars, dropVars, sem, wg, cpc, ckind,
                 stopped, answered, lost, crashed>>
-----------------------------------------------------------------------------
Submit(t) ==
  \/ SubmitEnter(t) \/ SubmitLookup(t) \/ SubmitStale(t)
  \/ SubmitFull(t) \/ SubmitPush(t) \/ SubmitSpawn(t)

Worker(q) ==
  \/ WorkerAcquire(q) \/ WorkerCancelled(q) \/ WorkerRecover(q) \/ FailDropped(q)
  \/ WorkerEmpty(q) \/ WorkerPop(q) \/ WorkerRan(q) \/ WorkerHookPanic(q)
  \/ WorkerRelease(q) \/ WorkerDone(q)

Dropper(q) == DropRun(q) \/ DropPanic(q) \/ DropDone(q)

Closer(k) ==
  \/ CloseCall(k) \/ CloseBarrier(k) \/ ForceCancel(k) \/ DrainReturn(k) \/ DrainExpire(k)

Next ==
  \/ \E t \in Tasks : Submit(t)
  \/ \E q \in Queues : Worker(q) \/ Dropper(q)
  \/ \E k \in Closers : Closer(k)
  \/ ParentCancel

Spec == Init /\ [][Next]_vars
-----------------------------------------------------------------------------
(* Safety *)

\* FIFO per chat rests on this: at no time do two workers serve queues of the
\* same chat, although queue objects come and go and a submitter may hold an
\* old one (the re-check of the map in Submit, dispatcher.go:224-231).
OneWorkerPerChat ==
  \A q1, q2 \in Queues : Serves(q1) /\ Serves(q2) /\ QueueChat[q1] = QueueChat[q2] => q1 = q2

\* No queue with tasks is left without a worker, and an empty queue that stays
\* in the map is about to be locked by the call that put it there: the map
\* does not keep queues of idle chats.
NoStrandedQueue ==
  \A q \in Queues :
    /\ ~Serves(q) => buf[q] = <<>>
    /\ qmap[QueueChat[q]] = q /\ ~Serves(q) => \E t \in Tasks : spc[t] = "lock" /\ sq[t] = q

\* At most MaxInflight workers run tasks, whatever way they leave.
InflightBounded == Cardinality({q \in Queues : wpc[q] \in TokenHeld}) <= MaxInflight

Accepted == {t \in Tasks : spc[t] \in {"spawn", "accepted"}}

\* The places an accepted task can be in; answered and lost are final.
Places(t) ==
  {<<"queued", q>> : q \in {q \in Queues : t \in TasksIn(buf[q])}}
    \cup {<<"running", q>> : q \in {q \in Queues : wtask[q] = t}}
    \cup {<<"dropped", q>> : q \in {q \in Queues : t \in TasksIn(dq[q])}}
    \cup (IF t \in answered THEN {<<"answered", Nil>>} ELSE {})
    \cup (IF t \in lost THEN {<<"lost", Nil>>} ELSE {})

\* An accepted task is in exactly one place, a refused one in none: workers,
\* panics and cancellation neither lose, duplicate nor re-run a task.
NoTaskLostOrRunTwice ==
  \A t \in Tasks : Cardinality(Places(t)) = IF t \in Accepted THEN 1 ELSE 0

\* A Shutdown that returned nil has left nothing behind: every accepted task
\* has its outcome and no goroutine of the dispatcher is alive.  This is what
\* the gate barrier and the order of Add and Done are for (dispatcher.go:158-168).
ShutdownComplete ==
  (\E k \in Closers : ckind[k] = "Shutdown" /\ cpc[k] = "returned") =>
    /\ Accepted \subseteq answered \cup lost
    /\ \A q \in Queues : wpc[q] = "none" /\ dpc[q] = "none"

\* Once any closing call has passed the gate, no task is accepted any more.
NothingAcceptedAfterClose ==
  [][(\E k \in Closers : ckind[k] # "Drain" /\ cpc[k] \notin {"idle", "barrier"})
       => Accepted' \subseteq Accepted]_vars

\* The state of the dispatcher as its callers may see it: the line of a chat is
\* the buffer of the queue the map holds for it.
Line(c) == IF qmap[c] = Nil THEN <<>> ELSE buf[qmap[c]]
Lines == [c \in Chats |-> Line(c)]
Sending == {wtask[q] : q \in {q \in Queues : wpc[q] = "run"}}
Abandoned == UNION {TasksIn(dq[q]) : q \in Queues}

\* The dispatcher implements one bounded FIFO per chat.
Fifo == INSTANCE ChatFifo WITH
  pending <- Lines, sending <- Sending, dropped <- Abandoned,
  answered <- answered, lost <- lost

ImplementsChatFifo == Fifo!Spec
-----------------------------------------------------------------------------
(* Liveness *)

\* Submit calls, workers and drop goroutines run on: their sends end because
\* of SendTimeout, the mutexes are held for a bounded time and the waiters of
\* a channel or a mutex are served in turn.  Callers need not call, the panics
\* and the contexts' ends need not happen.
Fairness ==
  /\ \A t \in Tasks : WF_vars(spc[t] # "idle" /\ Submit(t))
  /\ \A q \in Queues :
       /\ WF_vars(WorkerAcquire(q) \/ WorkerCancelled(q))
       /\ WF_vars(WorkerRecover(q) \/ FailDropped(q) \/ WorkerEmpty(q)
                                \/ WorkerPop(q) \/ WorkerRelease(q) \/ WorkerDone(q))
       /\ WF_vars(WorkerRan(q))
       /\ WF_vars(DropRun(q) \/ DropDone(q))
  /\ \A k \in Closers :
       /\ WF_vars(CloseBarrier(k))
       /\ WF_vars(ForceCancel(k) \/ DrainReturn(k))

FairSpec == Spec /\ Fairness

\* Every accepted task gets its outcome, unless the OnStart hook panicked on it
\* or the process died.
AcceptedTaskAnswered ==
  \A t \in Tasks : t \in Accepted ~> (t \in answered \cup lost \/ crashed)

\* Close, Shutdown and ForceClose return: the barrier and the drain counter do
\* not deadlock with submitters, workers or drop goroutines.
CloseReturns ==
  \A k \in Closers : cpc[k] # "idle" ~> (cpc[k] \in {"returned", "expired"} \/ crashed)

\* core/context/platform_event.go:141-142: a task of a queue that is given up
\* has its Future woken.
DroppedTaskAnswered ==
  \A t \in Tasks : (\E q \in Queues : t \in TasksIn(dq[q])) ~> t \in answered
=============================================================================

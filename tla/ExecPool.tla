------------------------------- MODULE ExecPool -------------------------------
(***************************************************************************)
(* core/engine/exec_pool.go: the bounded pool that runs slow handlers.     *)
(* TrySubmit never blocks: it starts a goroutine when a token is free,     *)
(* queues the task when there is room, and refuses it otherwise.  A worker *)
(* that finds the queue empty gives its token back under exitMu, so that   *)
(* it and a submitter that has just queued a task cannot miss each other.  *)
(*                                                                         *)
(* One step is one operation on a channel, a counter or a lock.  A worker  *)
(* is named after the task whose submission started it.  A panic of a task *)
(* is recovered by runPoolTask and ends the task like a return.            *)
(***************************************************************************)
EXTENDS Integers, Sequences, FiniteSets

CONSTANTS Tasks, MaxConcurrency, QueueSize,
          Drainers,      \* calls of Drain and Stop
          Waiters,       \* calls of Wait
          Nil

ASSUME PoolAssumption ==
  /\ MaxConcurrency \in Nat \ {0}   \* NewExecPool replaces values < 0, 0 means no pool
  /\ QueueSize \in Nat \ {0}
  /\ Nil \notin Tasks
  /\ IsFiniteSet(Tasks)

VARIABLES
  queue,       \* p.queue
  sem,         \* tokens taken from p.sem
  inflight,    \* p.inflight.n
  stopped,     \* p.stopped
  spc,         \* per TrySubmit call: control state
  wpc, cur,    \* per worker: control state, the task it runs
  dpc, dcur,   \* per Drain call: control state, the task it runs itself
  apc, seen,   \* per Wait call: control state, the tasks accepted before it, if
               \* no submitter was then between its token and the counter
  done         \* the tasks that have run

workerVars == <<wpc, cur>>
drainVars  == <<dpc, dcur>>
waitVars   == <<apc, seen>>
vars == <<queue, sem, inflight, stopped, spc, wpc, cur, dpc, dcur, apc, seen, done>>

\* The states in which a TrySubmit call holds the read lock of p.gate.
Gated == {"try", "token", "enqueue", "ensure", "late"}
\* exitMu is held across two steps by the submitter that has queued a task.
ExitLocked == \E t \in Tasks : spc[t] = "ensure"
Accepted == {t \in Tasks : spc[t] = "accepted"}

TypeOK ==
  /\ queue \in Seq(Tasks) /\ Len(queue) <= QueueSize
  /\ sem \in Int
  /\ inflight \in Int
  /\ stopped \in BOOLEAN
  /\ spc \in [Tasks -> Gated \cup {"idle", "accepted", "rejected"}]
  /\ wpc \in [Tasks -> {"none", "run", "drain", "exit", "done"}]
  /\ cur \in [Tasks -> Tasks \cup {Nil}]
  /\ dpc \in [Drainers -> {"idle", "barrier", "drain", "run", "wait", "returned", "expired"}]
  /\ dcur \in [Drainers -> Tasks \cup {Nil}]
  /\ apc \in [Waiters -> {"idle", "wait", "returned"}]
  /\ seen \in [Waiters -> SUBSET Tasks]
  /\ done \subseteq Tasks

Init ==
  /\ queue = <<>>
  /\ sem = 0
  /\ inflight = 0
  /\ stopped = FALSE
  /\ spc = [t \in Tasks |-> "idle"]
  /\ wpc = [t \in Tasks |-> "none"]
  /\ cur = [t \in Tasks |-> Nil]
  /\ dpc = [d \in Drainers |-> "idle"]
  /\ dcur = [d \in Drainers |-> Nil]
  /\ apc = [a \in Waiters |-> "idle"]
  /\ seen = [a \in Waiters |-> {}]
  /\ done = {}
-----------------------------------------------------------------------------
(* TrySubmit *)

\* gate.RLock and the check of stopped; a Drain that waits for the write lock
\* keeps new readers out.
SubmitEnter(t) ==
  /\ spc[t] = "idle"
  /\ \A d \in Drainers : dpc[d] # "barrier"
  /\ spc' = [spc EXCEPT ![t] = IF stopped THEN "rejected" ELSE "try"]
  /\ UNCHANGED <<queue, sem, inflight, stopped, workerVars, drainVars, waitVars, done>>

\* The non-blocking send to p.sem.
SubmitToken(t) ==
  /\ spc[t] = "try"
  /\ IF sem < MaxConcurrency
     THEN sem' = sem + 1 /\ spc' = [spc EXCEPT ![t] = "token"]
     ELSE sem' = sem /\ spc' = [spc EXCEPT ![t] = "enqueue"]
  /\ UNCHANGED <<queue, inflight, stopped, workerVars, drainVars, waitVars, done>>

\* inflight.Add(1), RUnlock, go runWorker(task).  Between the first and the
\* last nothing can tell whether the goroutine exists: Drain and Wait count it.
SubmitStart(t) ==
  /\ spc[t] = "token"
  /\ inflight' = inflight + 1
  /\ wpc' = [wpc EXCEPT ![t] = "run"]
  /\ cur' = [cur EXCEPT ![t] = t]
  /\ spc' = [spc EXCEPT ![t] = "accepted"]
  /\ UNCHANGED <<queue, sem, stopped, drainVars, waitVars, done>>

\* Room in the channel of tasks.
Room == Len(queue) < QueueSize

\* exitMu.Lock and the non-blocking send to p.queue.
SubmitEnqueue(t) ==
  /\ spc[t] = "enqueue"
  /\ ~ExitLocked
  /\ IF Room
     THEN queue' = Append(queue, t) /\ spc' = [spc EXCEPT ![t] = "ensure"]
     ELSE queue' = queue /\ spc' = [spc EXCEPT ![t] = "rejected"]
  /\ UNCHANGED <<sem, inflight, stopped, workerVars, drainVars, waitVars, done>>

\* Mutant: a queued task is left to the workers there are.
SubmitEnsureNothing(t) ==
  /\ spc[t] = "ensure"
  /\ spc' = [spc EXCEPT ![t] = "accepted"]
  /\ UNCHANGED <<queue, sem, inflight, stopped, workerVars, drainVars, waitVars, done>>

\* Still under exitMu: take a token for a draining worker if one is free.
SubmitEnsure(t) ==
  /\ spc[t] = "ensure"
  /\ IF sem < MaxConcurrency
     THEN sem' = sem + 1 /\ spc' = [spc EXCEPT ![t] = "late"]
     ELSE sem' = sem /\ spc' = [spc EXCEPT ![t] = "accepted"]
  /\ UNCHANGED <<queue, inflight, stopped, workerVars, drainVars, waitVars, done>>

\* inflight.Add(1), RUnlock, go runWorker(nil).
SubmitStartDrainer(t) ==
  /\ spc[t] = "late"
  /\ inflight' = inflight + 1
  /\ wpc' = [wpc EXCEPT ![t] = "drain"]
  /\ spc' = [spc EXCEPT ![t] = "accepted"]
  /\ UNCHANGED <<queue, sem, stopped, cur, drainVars, waitVars, done>>
-----------------------------------------------------------------------------
(* runWorker *)

WorkerRun(t) ==
  /\ wpc[t] = "run"
  /\ done' = done \cup {cur[t]}
  /\ cur' = [cur EXCEPT ![t] = Nil]
  /\ wpc' = [wpc EXCEPT ![t] = "drain"]
  /\ UNCHANGED <<queue, sem, inflight, stopped, spc, drainVars, waitVars>>

\* drainQueue, without a lock.
WorkerDrain(t) ==
  /\ wpc[t] = "drain"
  /\ IF queue # <<>>
     THEN /\ cur' = [cur EXCEPT ![t] = Head(queue)]
          /\ queue' = Tail(queue)
          /\ wpc' = [wpc EXCEPT ![t] = "run"]
     ELSE /\ wpc' = [wpc EXCEPT ![t] = "exit"]
          /\ UNCHANGED <<cur, queue>>
  /\ UNCHANGED <<sem, inflight, stopped, spc, drainVars, waitVars, done>>

\* Mutant: the worker leaves without a last look at the queue.
WorkerExitBlind(t) ==
  /\ wpc[t] = "exit"
  /\ sem' = sem - 1
  /\ wpc' = [wpc EXCEPT ![t] = "done"]
  /\ UNCHANGED <<queue, inflight, stopped, spc, cur, drainVars, waitVars, done>>

\* The exit protocol: under exitMu take a last task, or give the token back.
WorkerExit(t) ==
  /\ wpc[t] = "exit"
  /\ ~ExitLocked
  /\ IF queue # <<>>
     THEN /\ cur' = [cur EXCEPT ![t] = Head(queue)]
          /\ queue' = Tail(queue)
          /\ wpc' = [wpc EXCEPT ![t] = "run"]
          /\ UNCHANGED sem
     ELSE /\ sem' = sem - 1
          /\ wpc' = [wpc EXCEPT ![t] = "done"]
          /\ UNCHANGED <<cur, queue>>
  /\ UNCHANGED <<inflight, stopped, spc, drainVars, waitVars, done>>

\* The deferred inflight.Done.
WorkerDone(t) ==
  /\ wpc[t] = "done"
  /\ inflight' = inflight - 1
  /\ wpc' = [wpc EXCEPT ![t] = "none"]
  /\ UNCHANGED <<queue, sem, stopped, spc, cur, drainVars, waitVars, done>>
-----------------------------------------------------------------------------
(* Drain and Stop *)

DrainCall(d) ==
  /\ dpc[d] = "idle"
  /\ stopped' = TRUE
  /\ dpc' = [dpc EXCEPT ![d] = "barrier"]
  /\ UNCHANGED <<queue, sem, inflight, spc, workerVars, dcur, waitVars, done>>

\* Mutant: the lock is not taken.
GateOpen == TRUE
GateClear == \A t \in Tasks : spc[t] \notin Gated

\* gate.Lock and gate.Unlock.
DrainBarrier(d) ==
  /\ dpc[d] = "barrier"
  /\ GateClear
  /\ dpc' = [dpc EXCEPT ![d] = "drain"]
  /\ UNCHANGED <<queue, sem, inflight, stopped, spc, workerVars, dcur, waitVars, done>>

\* drainQueueUntil: the caller of Drain consumes the queue itself, with no
\* token and without being counted in inflight.
DrainPop(d) ==
  /\ dpc[d] = "drain"
  /\ IF queue # <<>>
     THEN /\ dcur' = [dcur EXCEPT ![d] = Head(queue)]
          /\ queue' = Tail(queue)
          /\ dpc' = [dpc EXCEPT ![d] = "run"]
     ELSE /\ dpc' = [dpc EXCEPT ![d] = "wait"]
          /\ UNCHANGED <<dcur, queue>>
  /\ UNCHANGED <<sem, inflight, stopped, spc, workerVars, waitVars, done>>

DrainRun(d) ==
  /\ dpc[d] = "run"
  /\ done' = done \cup {dcur[d]}
  /\ dcur' = [dcur EXCEPT ![d] = Nil]
  /\ dpc' = [dpc EXCEPT ![d] = "drain"]
  /\ UNCHANGED <<queue, sem, inflight, stopped, spc, workerVars, waitVars>>

\* inflight.Wait returns nil only after it has read 0 (DrainTracker.tla).
DrainReturn(d) ==
  /\ dpc[d] = "wait"
  /\ inflight = 0
  /\ dpc' = [dpc EXCEPT ![d] = "returned"]
  /\ UNCHANGED <<queue, sem, inflight, stopped, spc, workerVars, dcur, waitVars, done>>

\* Mutant: Drain stops in front of the task it has just taken from the queue.
DrainExpireWithTask(d) ==
  /\ dpc[d] \in {"drain", "run", "wait"}
  /\ dpc' = [dpc EXCEPT ![d] = "expired"]
  /\ dcur' = [dcur EXCEPT ![d] = Nil]
  /\ UNCHANGED <<queue, sem, inflight, stopped, spc, workerVars, waitVars, done>>

\* The context ends; a task that Drain runs itself is not interrupted.
DrainExpire(d) ==
  /\ dpc[d] \in {"drain", "wait"}
  /\ dpc' = [dpc EXCEPT ![d] = "expired"]
  /\ UNCHANGED <<queue, sem, inflight, stopped, spc, workerVars, dcur, waitVars, done>>
-----------------------------------------------------------------------------
(* Wait *)

\* A token is taken and its holder not yet counted in inflight.
Uncounted(t) == spc[t] \in {"token", "late"}

WaitCall(a) ==
  /\ apc[a] = "idle"
  /\ apc' = [apc EXCEPT ![a] = "wait"]
  /\ seen' = [seen EXCEPT ![a] = IF \E t \in Tasks : Uncounted(t) THEN {} ELSE Accepted]
  /\ UNCHANGED <<queue, sem, inflight, stopped, spc, workerVars, drainVars, done>>

WaitReturn(a) ==
  /\ apc[a] = "wait"
  /\ inflight = 0
  /\ apc' = [apc EXCEPT ![a] = "returned"]
  /\ UNCHANGED <<queue, sem, inflight, stopped, spc, workerVars, drainVars, seen, done>>
-----------------------------------------------------------------------------
Submit(t) ==
  \/ SubmitEnter(t) \/ SubmitToken(t) \/ SubmitStart(t)
  \/ SubmitEnqueue(t) \/ SubmitEnsure(t) \/ SubmitStartDrainer(t)

Worker(t) == WorkerRun(t) \/ WorkerDrain(t) \/ WorkerExit(t) \/ WorkerDone(t)

Drain(d) ==
  \/ DrainCall(d) \/ DrainBarrier(d) \/ DrainPop(d) \/ DrainRun(d)
  \/ DrainReturn(d) \/ DrainExpire(d)

Next ==
  \/ \E t \in Tasks : Submit(t) \/ Worker(t)
  \/ \E d \in Drainers : Drain(d)
  \/ \E a \in Waiters : WaitCall(a) \/ WaitReturn(a)

Spec == Init /\ [][Next]_vars
-----------------------------------------------------------------------------
(* Safety *)

\* A worker or submitter that has a token and will look at the queue again.
WillDrain(t) == wpc[t] \in {"run", "drain", "exit"} \/ spc[t] \in {"token", "late"}

\* No task is stranded in the queue: while it holds one, somebody who has a
\* token has not made his last check yet, or the submitter still under exitMu
\* is about to make sure of it.
QueuedTaskHasConsumer ==
  queue # <<>> => \E t \in Tasks : WillDrain(t) \/ spc[t] = "ensure"

\* The workers never run more tasks at a time than there are tokens, and every
\* token taken is held by somebody: none leaks.
ConcurrencyBounded ==
  /\ sem = Cardinality({t \in Tasks : WillDrain(t)})
  /\ sem <= MaxConcurrency

Places(t) ==
  {<<"worker", w>> : w \in {w \in Tasks : cur[w] = t}}
    \cup {<<"drain", d>> : d \in {d \in Drainers : dcur[d] = t}}
    \cup {<<"queue", i>> : i \in {i \in DOMAIN queue : queue[i] = t}}
    \cup (IF t \in done THEN {<<"done", 0>>} ELSE {})

\* A task whose TrySubmit returned true is queued, running or done, at one
\* place only; one that was refused is at none, so the synchronous fallback of
\* the caller does not run it a second time.
NoTaskLostOrRunTwice ==
  \A t \in Tasks :
    Cardinality(Places(t)) = IF spc[t] \in {"ensure", "late", "accepted"} THEN 1 ELSE 0

\* When a Drain has returned nil, every accepted task has run, or the caller of
\* another Drain is still running it: nothing is queued or run by a worker.
DrainComplete ==
  (\E d \in Drainers : dpc[d] = "returned") =>
    /\ queue = <<>>
    /\ Accepted \subseteq done \cup {dcur[d] : d \in Drainers}

\* A Wait that began while no submitter was between taking its token and being
\* counted returns only after every task accepted before it has run, or is run
\* by a Drain.  Without that condition it does not: the worker that a queued
\* task relies on may not be counted yet (exec_pool.go:106-109, 134).
WaitComplete ==
  \A a \in Waiters :
    apc[a] = "returned" => seen[a] \subseteq done \cup {dcur[d] : d \in Drainers}
-----------------------------------------------------------------------------
(* Liveness *)

\* Goroutines that can run do, and tasks end: handlers run under a timeout.
\* Locks are held for a bounded time and granted in turn.
Fairness ==
  /\ \A t \in Tasks : WF_vars(spc[t] # "idle" /\ Submit(t)) /\ WF_vars(Worker(t))
  /\ \A d \in Drainers :
       WF_vars(DrainBarrier(d) \/ DrainPop(d) \/ DrainRun(d) \/ DrainReturn(d))
  /\ \A a \in Waiters : WF_vars(WaitReturn(a))

FairSpec == Spec /\ Fairness

\* Every accepted task runs, whether or not anything is submitted after it.
AcceptedTaskRuns == \A t \in Tasks : t \in Accepted ~> t \in done
=============================================================================

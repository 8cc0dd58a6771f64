# Remilia in TLA+

TLA+ modules, model-checking configurations and machine-checked proofs for the
concurrent core of Remilia, a framework for chat bots written in Go. Modules are
translated from the Go source; `PROJECT.json` names for every definition the
lines it stands for, and for every property a mutation of the model that breaks it.

## The system

| Part | State | Operations | Interacts with |
|---|---|---|---|
| Outbound dispatcher, `core/engine/dispatcher.go` | map of chat queues, ring buffers, tokens, drain counter, gate, `stopped`, base context | `Submit`, `worker`, `failDroppedTasks`, `Close`, `Drain`, `Shutdown`, `ForceClose` | called by `Context.Reply`; counts in a drain counter; closed by the engine |
| Drain counter, `core/engine/drain_tracker.go` | count, channel of the present period | `Add`, `Done`, `Wait` | dispatcher, handler pool |
| Handler pool, `core/engine/exec_pool.go` | task channel, tokens, `exitMu`, gate, counter | `TrySubmit`, `runWorker`, `Drain`, `Stop`, `Wait` | called by event processing, closed by the engine |
| Lifecycle manager, `lifecycle/lifecycle.go` | state machine, components, started components, runtime context, `runWg`, statuses | `Register`, `Start`, rollback, `Stop` | owned by `Bot`; calls engine, adapters, plugin manager |
| Temporary matchers, `core/engine/temp_manager.go` | shards, counter, snapshot, cleaning flag | `Add`, `Remove`, `Clear`, `RemoveGroup`, `CleanExpired`, watermark cleaning | registration, deletion, migration, event routing |
| Engine, `core/engine/{engine,state,process,matcher,middleware}.go` | copy-on-write registry, pending deletions, chain caches, background goroutines | registration, deletion, `ProcessEvent`, `Shutdown` | all of the above |
| FSM sessions, `core/fsm`, `router/router.go` | sessions in a store, per-session locks, registered machines | `TryTransition`, `TryStartSession`, `StartSession`, `EndSession`, `UpdateSessionData`, cleaner | the router, which asks them first; hooks of plugins |
| Resilience middleware, `middleware/resilience` | breaker state and counters, persisted snapshot | `canExecute`, `onSuccess`, `onFailure`, retry, dead letter | wraps handlers |
| Bot and manager, `bot.go`, `bot_manager.go` | `started`, lifecycle, adapters | `Start`, `Stop`, platform synchronisation | lifecycle manager |
| Plugins: bus and scopes, `plugin/infra_eventbus.go`, `plugin/infra_scope.go` | subscriptions per topic, worker slots, counts of handlers under way; a tree of scopes with children, subscriptions and hooks | `Publish`, `Subscribe`, `Unsubscribe`, `Wait`; `Scope`, `OnDispose`, `Dispose` | unload, failed loads and blue-green drains dispose the scope of a plugin |
| Plugin manager, permissions, commands, router, configuration, infrastructure, platform adapters, built-in plugins, executables and user interfaces | | | see `PROJECT.json`, `components` |

A message that a handler sends goes from `Context.Reply` into the dispatcher and
comes back through a `Future`. An event goes from a platform adapter through
the router's candidates (temporary matchers first) to handlers, which run in
the caller or in the pool. `Bot` starts and stops everything through the
lifecycle manager; `Engine.Shutdown` stops the background goroutines, waits for
events, drains the pool and then the dispatcher.

What is hard in it, and what makes each part correct:

* **Dispatcher.** Messages of one chat leave in the order in which they were
  accepted, although the queue of a chat is created, emptied, removed and created
  again while submitters hold references to old ones. Every accepted message gets
  an outcome once, under panics and cancellation too. After `Shutdown` nothing is
  left and nothing is accepted.
* **Drain counter.** It may be raised while others wait; no waiter may miss the
  zero, no channel may be closed twice.
* **Pool.** A task that was queued runs without any further submission; tokens
  bound the concurrency and are not lost; a refused task is not run by the pool.
* **Lifecycle.** `OnStart` and `OnStop` pair up, in reverse order, over failures,
  timeouts and restarts; nothing of an earlier run goes on without having been
  cancelled.
* **Temporary matchers.** Store, snapshot and counter, updated one after the
  other without a common lock, agree once the operations have ended; no matcher
  is routed twice, forgotten, or left over after its last use.
* **Engine.** No registration and no deletion is lost between the copy-on-write
  state, the batch of a plugin, the channel of pending deletions and Shutdown; no
  handler runs after Shutdown; the handler compiled for a matcher agrees with the
  middleware once changes have come to rest.
* **FSM.** A session follows the edges of its machine, one call at a time, although
  application code runs inside every transition; what a caller was told is what is
  stored; a session that was ended does not come back; expiry and the cleaner, which
  takes no session lock, do not interfere.
* **Circuit breaker.** Half-open slots bound the probes although results of earlier
  rounds come late; the breaker and its snapshot never reach a state without the time
  by which they leave it; it never refuses for ever.

* **Event bus and scopes.** Once a plugin's scope has been disposed no handler of it
  runs and no subscription of it is left, although publications hold old lists, the
  plugin still subscribes and the calls of `Dispose` overlap, are cancelled and tried
  again; hooks run once, those of children first; handlers that publish do not starve
  the worker pool for ever.

The list `hazards` in `PROJECT.json` names the lines at which this can go wrong.

## Modules

### ChatFifo.tla and OutboundDispatcher.tla

`ChatFifo` is what callers may rely on: per chat a bounded waiting line, at most one
message being sent, sent in order of acceptance; a line may be abandoned as a
whole, and then each message is answered without being sent. It has no workers, no
locks and no map.

`OutboundDispatcher` is the code. Goroutines are identified by what they serve:
a `Submit` call by its task (`spc`, `sq`), a worker by its queue object (`wpc`,
`wtask`), the goroutine of `failDroppedTasks` by the queue object that was given
up (`dpc`, `dq`), a closing call by a name (`cpc`, `ckind`). A step is one critical
section of the queue mutex (`SubmitStale`/`SubmitFull`/`SubmitPush`, `WorkerEmpty`,
`WorkerPop`, `WorkerCancelled`, `WorkerRecover`) or one operation between two of
them. The read lock of the gate is a set of states (`Gated`); the write lock's empty
critical section is `CloseBarrier`. Queue objects come from a pool per chat, so an
object that is not referred to any more may be reused; that is coarser than fresh
allocation, as Go would give, and allows everything it allows.

Panics: a task's panic is recovered by the worker (`WorkerRan` then
`WorkerRecover`); one of the `OnStart` hook loses the popped task
(`WorkerHookPanic`); one of the hooks called by the recovery (`FailDropped`) or of
a task run by the drop goroutine (`DropPanic`) ends the process (`crashed`), as
nothing recovers it. Hooks that only observe, and durations, are left out; a send
that times out is a task that returns.

The refinement mapping: a chat's waiting line is the buffer of the queue that the
map holds for it, a message is being sent while a worker is in `run`.

### DrainTracker.tla

The counter with its channel per period of activity. `Raise` and `Lower` are `Add`;
`WaitCheck` is the critical section of `Wait`, `WaitWake` and `WaitCancelled` the two
outcomes of its select. `make` may return any channel that nobody can reach.
The dispatcher and the pool use the counter as a number and its `Wait` as a step
guarded by zero; this module justifies that: `Wait` returns nil only after it has
read zero, and does not sleep through it.

### ExecPool.tla

A worker is named after the submission that started it. `exitMu` is held over two
steps only by a submitter that has queued its task (`ensure`), which is what
`ExitLocked` says. A `Drain` runs queued tasks itself (`DrainPop`, `DrainRun`); it is
not counted in `inflight`, as in the code.

### Lifecycle.tla

`StartCall` and `StartPublish` are the two critical sections of `Start`, with the
`OnStart` loop between them and the status map and the launching after them, outside
of the mutex. Each successful `Start` makes a runtime context numbered by `gen`; an
`OnRun` goroutine is a pair of component and context. `StopWait` is `runWg.Wait`: it
returns at once or blocks; a blocked waiter is woken at zero, and panics if the
counter has left zero before it runs (`StopWoken`), as `sync.WaitGroup` does.
Components are registered at most once; `RegisterOrdered` is `Register` for each of a list,
in the order given.

### TempMatchers.tla

The truth is in the shards (`byID`), a snapshot is what events read, an atomic
counter lets them skip it. A call is a thread that goes through the labels of the
operation it performs; a step is one critical section of a shard or of the snapshot
mutex, or one access to the counter or a flag. Because `snapshotInsert` looks into a
shard while it holds the snapshot mutex, and `rebuildSnapshot` reads the shards one
by one under it, both take several steps with `snapMu` held. All matchers have one
event type. Left out: the order in the snapshot, `SetExpiration`, `ForEach`, the
middleware chains.

### MatcherRegistry.tla

Permanent matchers and the end of the engine. A deletion is a mark and then a removal,
which a goroutine behind `pendingDeleteCh` does in batches (`Tick`, `TickRemove`), or the
caller itself when that goroutine was stopped or the channel is full (`Ask`, `Send`,
`ChannelFull`, `Remove`). `Flush` closes a session under `writeMu` (`FlushClose`), chooses
its live members without it (`FlushFilter`), and hands them to `BatchRegisterMatchers`,
which takes `writeMu`, chooses again (`FlushRecheck`) and adds them (`FlushCommit`); the
lock is held over these two steps and marks go on between them (`WriteMuFree`).
`Shutdown` is taken apart at its waits, and a call that gave up may be repeated. Two facts of
the code that its comments do not show are states of the model: the processor may still win
a tick against its closed channel, and `component_pending_delete.go` waits for a channel that
was closed by the stop function, hence not for the goroutine (`ticking` and `taken` live
on). The pool appears as a number of handlers, the dispatcher as a step that returns: both
have modules of their own. The pool is the engine's own: one that is shared
(`WithSharedExecPool`) is not drained by `Shutdown` (`engine.go:234`), and its handlers may run
after it.

### HandlerChains.tla

One permanent matcher, one group, and the caches of the matcher: the combined chain with
the generations it was made of, and the compiled handler with the version it was made
for. A chain is the number of the change that made it. `SlowPath` to `ValidateFails` are
`buildHandlerChain`. `Add` and `Discard` are the first halves of a change of the engine's
middleware, by `Use` and `UseForGroup` or by the two resets; `InvalidateMatcher` is the
second. `UseLocal`, `Handle` and `SetMatcherGroup` change the matcher's own settings and
rebuild the chain afterwards. All of them overlap with builds and with each other, but for
`SetMatcherGroup`: the registry of a plugin calls it before the matcher has a handler
(`register_registry.go:320-325`), a reload while the matcher is disabled, so nobody builds
the chain or changes the matcher meanwhile (`Grouping`).

Three history fields mark entries of the cache for which the code's validation cannot work:
`old` (made of what was read before a reset, after which the generations begin anew),
`behind` (the version was read after a `Matcher.Use` or `Matcher.Handle` had replaced what
the entry is made of; `Handle` does not touch the combined chain at all, and the handler
is read once, before the first attempt) and `spent` (the last attempt stored it and found
it invalid).

### CircuitBreaker.tla

One breaker and the events that pass through it. `canExecute` reads the state without the
mutex, so `Check` and what follows from it are steps apart; `savePersisted`, which runs
after the unlock, reads the state, reads the rest and writes, in three steps. A time is
never set, recent or past, and may age at any moment. `Restart` ends the process anywhere
and loads what was saved.

A critical section is one step unless somebody may act within it who does not ask for the
mutex. `acquireHalfOpenSlot` reads its limit under the mutex (`ReadLimit`) and counts the slot
without it (`AcquireSlot`, the successful compare-and-swap), whatever the state is by
then. Two sections are therefore two steps each: the beginning of a round stores the count
of slots, then the state (`EnterCount`, `EnterHalfOpen`), and so does its end (`CloseReset`,
`Close`). `Reset` has no mutex for its zeros, which are three steps before `ResetClose`.

### SessionProtocol.tla and FsmSessions.tla

`SessionProtocol` is what a reader of a conversation may rely on: it begins at the start of
a machine, moves along its edges one at a time, and ends. `FsmSessions` is the code. A call
holds the session lock from its first critical section to its end, over the hooks of the
application (`holder`); OnExit and the action of an event are one hook, as their failure
and their end do the same, OnEnter is another, OnEnter of the initial state in
`StartSession` a third. Storage hands out pointers: sessions are objects (`session`), the
store maps an ID to one of them, and a transition changes the object before it is saved.
A hook may end the session, fail or panic. The cleaner and the registration of machines
need no session lock. `handleFSM` of the router is `Message` followed by a transition and,
if that did not move, a start.

The refinement mapping: a session is in its protocol at the state of the object that
`Storage.Get` returns; during a transition it is at the state before, until the transition
has returned.

### EventBus.tla and PluginScope.tla

`EventBus` is the bus with one topic; subscriptions to all topics are subscriptions like
the others. A publication is `Publish` (it copies the list), and per subscription `Acquire`
and `Begin`: slot first, then the check of `begin` against a closed subscription.
`Unlist` and `CloseState` are the two halves of an unsubscription, which the code makes under
two locks. A handler that ends frees its slot and then counts itself off (`FreeSlot`,
`CountOff`). A publication made by a handler (`Nested`) keeps this handler from ending.

`PluginScope` extends it with the tree. `disposing`, `disposeStarted` and `unsubscribed`
change together and are one set, `closing`. A call of `Dispose` keeps the stack of the
scopes it has entered and the subscriptions still to unsubscribe (`left`); what remains of
children and hooks belongs to the scope (`rest`), which is how a later call goes on. The
code unsubscribes first and then turns to children and hooks; the doc comment
(`infra_scope.go:160`) lists the subscriptions last. Subscribe's two looks at the scope are
`SubscribeOpen` and `SubscribeRecord`. Three history variables name what the code gives
up: `cut` (a child whose disposal was cancelled inside its parent's), `hurried` (a
subscription whose handlers a cancelled wait left running), `early` (one that the plugin
had taken off the list without having closed it yet). A handler that disposes its own
scope, and so waits for itself, is left out.

## Runs

Several components have small state spaces and share no state with each other. The modules
`MCHost`, `MCPool`, `MCConversations` and `MCEngine` put two to four of them side by side:
the initial state chooses the one that runs (`part`), the others stay as they begin, so
that one run explores the sum of their states, each under its own specification and
fairness. `MCHost` takes the parts it chooses from as a constant, as the scopes of plugins
are in `host_live` with their liveness and in `conversations` with their safety.

| Run | Instance | Shows |
|---|---|---|
| `host` | dispatcher: chats a, b; three tasks of a, one of b; queue objects: two for a, one for b; queues of 2; one token; one closing call of any kind. Manager: two components, two `Start`s, two `Stop`s (715 471 states) | safety of the dispatcher and the refinement of `ChatFifo`; pairing of hooks and their order, `OnStop` after `OnRun`, cancellation, statuses |
| `host_live` | one chat, two tasks, two queue objects; one component, two `Start`s, two `Stop`s; a root and one more scope, one hook, one subscription, one publication, two calls of `Dispose`, one with a context that ends (96 304 states) | every accepted task is answered, closing calls return, `Stop` and `Dispose` end |
| `dropped_task` | the dispatcher of `host_live` | counterexample to `platform_event.go:141` |
| `lifecycle_stop` | two components, one `Start`, one `Stop` | counterexample to `lifecycle.go:580-583` |
| `handlers` | pool: three tasks, one token, room for one, two `Drain`s, one `Wait`. Counter: two waiters, four channels, `Add` of 1, 2, -1, -2, counts to 3. Breaker: one goroutine that runs events, two failures, two probes. Bus: two subscriptions, one publication from outside and one from a handler with a context that ends, one slot (100 470 states) | no stranded, lost or repeated task, complete drain, accepted tasks run; no lost wake-up, waiters return; the breaker admits again; publications return |
| `conversations` | two matchers in two shards, one with an expiry; three calls and the cleaner; watermarks 2 and 1; one use. Sessions: one ID, two callers with two users, two machines, of which one expires, refreshes and is owned; two objects, one tick of the clock. Scopes: as in `host_live`, with two hooks (1 562 357 states) | store, snapshot and counter agree, up to the stated exceptions; sessions stay ended, answers hold, the refinement of `SessionProtocol`; hooks once and after those of children, nothing forgotten, nothing of a scope left on the bus or running |
| `temp_matchers_clear` | two calls of `Add` or `Clear` | counterexample to `temp_manager.go:303` |
| `temp_matchers_priority` | two priority changes | counterexample to `engine_matcher_ops.go:278` |
| `hook_end` | the sessions of `conversations` | counterexample to `context.go:45` |
| `engine` | registry: two deleters, one event, two matchers, a channel and batches of one. Chains: a matcher that begins in the group, two builders, one changer, two changes, two attempts. Breaker: two events, one failure, two probes (3 323 602 states) | no registration or deletion lost, quiet after `Shutdown`, and what was deleted before it is gone; caches at rest are current; probes bounded, no state without a way out |
| `reset_chain` | one builder, three changes, the four attempts of the code | counterexample to `process.go:216-223` |
| `dispose_cancelled` | two scopes, two hooks, two calls of `Dispose` | counterexample to `infra_scope.go:32-33` |

**Bounds and why they are enough.** The races of the dispatcher need a queue that is
left, a submitter that still holds it and another that makes its successor: three
tasks and two queue objects of one chat. One token and a second chat make workers
compete. The pool's exit protocol needs a worker that leaves, a submitter that finds
no token and one that finds the queue full: one task more than tokens and room. The lifecycle needs
a restart while a goroutine of the first run lives (two `Start`s) and a `Stop` for each. The store of
temporary matchers needs one operation in the middle of another while a third ends
first, a rebuild that has passed one shard and not the other, and a second matcher
that must not be affected. The registry needs a deletion that overtakes a registration or another
deletion (two of each), a channel that is full (one place) and a `Shutdown` in between. A
chain needs a change in the middle of a build while another build validates: two builders
and a change, of any kind, a second change for the generation after it. The probes of the breaker
need one request per slot and one whose result is late, which may be the same goroutine
with its next event. A session needs a second caller in the middle of a transition, a start
that loses a race (two objects) and an expiry during a hook (one tick). The
bus needs its slots all held by handlers that publish (one slot, one nested publication)
and one publication from outside that holds an old list. The tree needs a child, a
cancellation between two hooks and a second `Dispose` that meets the first on the root or
on the child; siblings and deeper trees are covered by the proofs of its safety. `MaxCount` (3), `MaxPooled` (1), `MaxChanges` (2), `MaxNow`
(1) and `MaxMade` (2) bound counters that the code does not; the last but one is
enough as only the order of expiry and clock matters. The four attempts of the code are two in
`engine`, as what an attempt finds does not depend on its number, and four in
`reset_chain`. Deadlock is not checked because instances stop: calls are finite.

Symmetry is used for tasks and queue objects of one chat, for calls, for permanent
matchers and for events that build a chain, in runs without liveness properties. In
`engine` the same two goroutines build chains in one part, delete in another and pass the
breaker in the third, which leaves one permutation of them instead of three.

**Exceptions in properties.** `NoneForgotten` and `NoZombie` of `TempMatchers` exempt
a matcher that two calls moved at the same time, or that was added or moved while it
was being deleted: there the code does lose or keep it (see findings).
`CleanStopAfterRun` exempts a `Stop` that came while `Start` was launching.
`DrainComplete` exempts a task that another `Drain` is running: a second `Drain`, or
`Stop`, does not see what the first runs itself, and returns nil under it, although
`exec_pool.go:217` says that `Drain` waits for all tasks being executed.
`AcceptedTaskAnswered` and `CloseReturns` exempt a process that
has died.

`DeletionsNotLost` counts the channel of pending deletions as somebody who will remove a
matcher only while it has a reader: the processor, the flush of `Shutdown`, or that of the
next call of `Shutdown` when this one gave up. It exempts a deletion that asked for the
processor before it was stopped and was sent after the last look of the flush (`late`): it
stays in the channel, marked and in the state, for good, although
`engine_matcher_ops.go:70-71` says that deletions are never lost. `ShutdownRemovesMarked`
is about the matchers whose deletion had returned when `Shutdown` was called (`settled`), and
exempts those that the goroutine of the processor still holds (`taken`), for which
`Shutdown` does not wait: they are removed soon after it, not before
(`engine.go:249`). `ShutdownQuiet` is about an engine with a pool of its own.

`RestingCacheCurrent` exempts entries that are `old`, `behind` or `spent` (see
`HandlerChains.tla` above). The first is the finding `reset_chain`, against
`process.go:216-223`, which names resets; no comment promises anything about the second; the
third contradicts `process.go:239-240`, by which a chain is not cached when all attempts
fail: the last attempt has stored it (232) before it was found invalid (234). For the
same reason another event may run an invalid entry between these two lines, also after
the call that changed the middleware has returned. The property is about caches at rest and
says nothing of that moment.

`ProbesBounded` exempts a half-open round that a `Reset` or a restart has disturbed: both
set the number of slots taken anew. While a round is being closed it allows twice as many
probes: `onSuccess` frees the slots (`circuitbreaker.go:432`) before it stores the closed state
(433), and a request that has read the half-open state may take one in between, though
`circuitbreaker.go:161-162` says that a round lets in no more than `HalfOpenMaxRequests`. TLC
reaches this state in the instance of `engine`; the breaker is about to close by then, so
that the probe runs as an ordinary request would a moment later.

`EndedStaysEnded` does not count what OnEnter of a transition or of
a start by a message ended, which is the finding `hook_end`. `NothingForgotten` and
`ChildrenFirst` exempt a child that is `cut`, which is the finding `dispose_cancelled`;
`HandlersOver` exempts subscriptions that are `hurried` or `early`. The latter is a hole in
what `infra_scope.go:248-249` promises: when the plugin is in the middle of an
unsubscription, `Dispose` finds it off the list and its state not closed
(`infra_eventbus.go:358-363`), `Wait` returns at once, and a publication that copied the
list before may start the handler after the hooks have run. `NoneLeftOnBus` allows a
Subscribe that is about to undo itself.

**Fairness.** Weak fairness of goroutines that can run: Go schedules them, mutexes
and channel waiters are served in turn. Tasks of the dispatcher end because of
`SendTimeout`, handlers because of their timeout, `OnRun` once its context is cancelled,
as the `Component` interface asks. Requests of the breaker go on and times age, and
`AdmitsAgain` asks in its own antecedent that restarts end. Handlers of the bus return, a
context of a publication that may end does, and who waits to send on the channel of
slots is served in turn, hence strong fairness of `Acquire`. Nothing is assumed of callers, panics, failures,
timeouts or cancellations: none of them has to happen.

## Findings

1. *Unrecovered panic* (`dropped_task`). `failDroppedTasks` runs tasks in a goroutine
   without recover, and `submitReply` panics again after settling its own Future;
   the hooks called by a worker's recovery are not guarded either.
2. *OnStop before OnRun has returned* (`lifecycle_stop`). `Running` is published
   before `runWg.Add`.
3. *The counter drifts* (`temp_matchers_clear`). `Clear` stores 0 over concurrent
   increments and decrements; matchers in the store may never be routed.
4. *A chain of before a reset is cached* (`reset_chain`). Resets let the generations of
   the middleware begin anew, and `chainSnapshotValid` compares nothing else besides the
   version. A build that has read the middleware before a `ResetMiddlewares` (or
   `ResetGroupMiddleware`) and a new `Use` (or `UseForGroup`) stores the old chain, finds it
   valid, and every later event runs it, until another change comes.
5. *A session ended by OnEnter lives on* (`hook_end`). `TryTransition` and
   `TryStartSession` save the session after OnEnter without asking whether it ended.
6. *A matcher is lost from the snapshot* (`temp_matchers_priority`). `snapshotRemove`
   does not look into the shard again.
7. *A cancelled Dispose loses hooks* (`dispose_cancelled`). When the context ends inside
   a child, the child's error is only logged and the child has left `remainingChildren`: a
   retry completes the parent, and the hooks the child still had never run.

## Proofs

Every safety property that a passing run checks, and both refinements, are proved by
TLAPS for every value of the constants, from `DispatcherAssumption`,
`TrackerAssumption`, `PoolAssumption`, `ManagerAssumption`, `StoreAssumption`,
`RegistryAssumption`, `ChainAssumption`, `BreakerAssumption`, `FsmAssumption`,
`BusAssumption` and `ScopeAssumption`. The assumptions say what kind of thing a constant
is. Four are about the model alone: calls are finitely many (`IsFiniteSet` of `Calls` and of
`Starts`), as they are in any execution up to a given moment, and the values that stand for
"no chain" and "no session" are none of the chains and sessions. No theorem has a
hypothesis of its own.

`OutboundDispatcherProofs.tla`: `TypeCorrect`, `OneWorker`, `InflightLimit`,
`ShutdownLeavesNothing`, `ClosedForGood`, `NothingStranded`, `TasksNeitherLostNorDoubled`
and `FifoPerChat`. The first five follow from the inductive invariant `IInv`:

* `MapInv`: the map holds for a chat a queue object of that chat.
* `QueueInv`: `running` holds exactly while a worker serves the object; a served
  object is the one in the map, so at most one per chat is served; one that nobody
  serves is empty, and when it is in the map no goroutine of its past is alive.
  Without the last part a discarded object could be reused under a live worker.
* `SubmitInv`: the object a `Submit` holds is of its chat, and only one call is about
  to start the worker of an object.
* `TaskInv`: what a worker has popped and what was handed to the drop goroutine
  belong to the states of these goroutines.
* `AccountInv`: every accepted task is in a queue, with a worker, dropped, answered
  or lost.
* `CountInv`: the drain counter is the number of workers and drop goroutines, the
  tokens taken are the number of workers in `TokenHeld`. This is where finite sets and
  their cardinalities come in (`FiniteSetTheorems`).
* `CloseInv`: after the gate nothing is in flight in `Submit`; a `Shutdown` that
  returned has seen zero since.

`OneWorker` follows from `QueueInv`; `InflightLimit` from `CountInv` and the guard of
`WorkerAcquire`; `ShutdownLeavesNothing` from `CloseInv`, `CountInv` and `AccountInv`:
a counter of zero means no worker, hence empty queues, hence every accepted task has
its outcome.

The other three need `PlaceInv` beside it: what a queue, its worker and its drop goroutine
hold is of the queue's chat (`ChatInv`) and there once (`DistinctInv`); it was accepted
(`KnownInv`), and it is nowhere else (`OnePlace`); a queue in the map without a worker
is awaited by the `Submit` that made it (`AwaitedInv`). A step does one of six things to the
places of tasks (nothing, push, pop, settle, give up a queue, settle a dropped one), and
each of the six keeps `PlaceInv` and is a step of `ChatFifo` or a stutter; the lemmas are per
thing, not per action. `FifoPerChat` needs, besides, that the queue a worker pops from is
the one in the map (`QueueInv`): only then is its head the head of the chat's line. A queue
that has left the map is empty, so that replacing it changes no line.

`ExecPoolProofs.tla`, for the drain counter: `TrackerInvariant`, `WakeupsKept`
(`NoLostWakeup`) and `ClosedOnce` (`NoDoubleClose`). The strengthening says that an open
channel exists exactly while the count is positive, and that a waiter's channel is closed
or the present one; without the first, a fall to zero could find no channel to close.

For the pool: `TypeCorrect`, `NoTaskStranded`, `TokensHeld`, `AcceptedOnce`,
`DrainLeavesNothing` and `WaitWaits`: the last two say what a `Drain` and a `Wait` that
returned nil leave behind (`WaitComplete`, which no run checks, exempts a `Wait` that began
while a submitter held a token and was not counted yet; only tests call `Wait`). The inductive invariant:

* `ControlInv`: a submission is accepted before its worker starts; a worker or a
  `Drain` holds a task exactly while it runs it.
* `CountInv`: the tokens taken are the token holders, the counter is the live workers.
* `ConsumerInv`: a queued task whose submitter has left `exitMu` has a token holder that
  will look at the queue again. It is stronger than `QueuedTaskHasConsumer`, which
  accepts the submitter still under `exitMu` as the consumer of every task: that would
  not be enough when this submitter finds no token.
* `PlaceInv`: a task is accepted exactly if it is in the queue, in somebody's hands or
  done, and these exclude each other; no two hands hold the same task.
* `CloseInv`: behind the barrier no submission is under way, so an empty queue stays
  empty; after a `Drain` that has returned nil no worker is left.
* `WaitInv`: while a task that a `Wait` must wait for is queued, an active worker is
  counted. It starts with `ConsumerInv` and the condition in `WaitComplete`.

`LifecycleProofs.tla`: `ManagerTyped`, `InitsArePaired`, `OldRunsAreCancelled`,
`CleanStopsWait` and `StatusIsCurrent`, from `LifeInv`. The manager's mutex protects its
state only, and hooks run outside of it; the proof rests on the state being a lock.
`Starting` belongs to one `Start`, `Stopping` to one `Stop` (`OwnerInv`), so nobody else
changes which components are initialised, and how far the owner has come in its snapshot
tells which these are (`InitInv`): the first *i* of it, going up in `Start` and down in
`Stop` and in a rollback. That needs lists without repetitions (`RepeatInv`), which
`Register` provides. Every snapshot is a beginning of the list of components, which only
grows (`OrderInv`), so what was registered before an initialised component is initialised
(`DependenciesUp`, a part of `InitPaired`). Every runtime context but that of a running manager is cancelled
(`ContextInv`), so a late launch gets a cancelled one. `GenInv` counts the contexts: one per
`Start` that has published, which bounds them in the type invariant.

`TempMatchersProofs.tla`: `CounterExact`, `RoutedAtMostOnce`, `NoGhostRemains`,
`NobodyForgotten`, `NoZombieRemains`. Store, counter and snapshot disagree while calls
overlap; each invariant names who still has to settle a disagreement. A snapshot entry of a
matcher that has left the store is owed a removal or a rebuild, also when it is only about
to be stored (`GhostInv`); a matcher of the store that is missing is about to be inserted,
unless two calls move it (`KeptInv`); a deleted matcher of the store is about to be
removed, unless a call put it back (`ZombieInv`). `BaseInv` says what a thread may be in
the middle of and that only the holder of `snapMu` replaces the snapshot. The counter is
proved by counting, over the finite set of calls, those that are about to add one and
those about to take one.

`EngineProofs.tla`, for the registry: `RegistryTypes`, `DeletionsAreKept`, `RegistrationsAreKept`,
`QuietAfterShutdown`, `NoMarkedAfterShutdown`, that is, every property of the registry. The
inductive invariant adds to them: nothing moves about that was not registered
(`OnlyBorn`); idle hands are empty (`EmptyHands`); what is sent or held for removal is
marked, so no carrier removes a live matcher (`CarriersMarked`); a matcher is in one place
only, the state, the open session, the one being flushed or the hands that took it out
(`OnePlace`), without which a commit could put back what was removed; what is marked
between the second choice of a flush and its commit is still carried by its deletion,
which waits for `writeMu` (`LockedCarried`), so that the commit puts nothing into the state
that nobody will remove; and `EndInOrder`: once `Shutdown` is past its wait for events
nobody can be counted any more, once it is past the pool the pool is empty and refuses, once
it is done what is left in the channel is `late`. For the last theorem: a deletion
that had returned when `Shutdown` was called is in no deleter's hands, and not in the channel
once `Shutdown` has returned (`SettledAside`).

For the chains: `RestingCacheIsCurrent`, from `ChainInvariant`, with every kind of change
free to overlap. Unless a reset comes in between, generations only move on, so a chain read
with generations that are still current is current; a reset marks as `old` everything that was
read before it (`AgreesInv`). What was made for the present version and is not `behind` holds
the handler and the middleware that the matcher has of its own (`VersionInv`). Giving the
matcher its group is the one change that has it to itself (`LanesInv`). `CurrentInv` is the
property before everything is at rest: an entry that would be run, and is out of date, is
attended to by a change whose loop will reach the matcher, by a build that will store
another, or by the one that stored this very entry and has not validated it. The last part
is why what was stored and found invalid by the last attempt is exempt: there nobody attends
any more.

`CircuitBreakerProofs.tla`: `BreakerTypes`, `ProbesAreBounded`, `StatesAreLeavable`. For the
probes the strengthening is that the slots taken are at least the probes admitted in this
round, since a late result never lowers them without leaving the round; while the round is
being closed, at least those beyond the limit, as the slots have been freed once
(`SlotsCover`). One request at most holds the mutex over two steps, in the state it is about
to leave (`MutexHeld`). For the second theorem, the same holds of every snapshot a
request is in the middle of taking, where the state is read before the times, and times once
set are never unset.

`FsmSessionsProofs.tla`: `FsmTypes`, `EndedForGood`, `AnswersAreTrue` and
`SessionsFollowProtocol`. The invariant of the first two: a call past its first
section holds the lock of its session, and only it (`Locked`, `LockedCall`); an object is
stored under its own ID only (`StoredAtHome`); the object that a call will store has not
been ended, unless the call knows it (`StillAlive`); an object that a start has not saved
yet, or that OnEnter ended, is not in the store (`NotStored`). The lock alone is not
enough: the proof needs that a hook which ends the session leaves its memory in the call.

`AnswersAreTrue` adds `AnswerInv`: an object that nobody works on, and that was reported, is
stored with the state reported, or gone (`AtRest`); and for each kind of call, what it holds
between its critical sections (`InTransition`, `InTryStart`, `InStart`, `InUpdate`), in
particular that the state it comes from and the one it goes to are an edge of the machine, and
how the object may differ meanwhile from what was reported. The cleaner and the clock
take no session lock, so each clause has to allow that the object has expired and has been
removed. Steps of a call touch one session only (`LocalStep`), steps of the cleaner remove
only what has expired. `SessionsFollowProtocol` reads the phase of a session off this
invariant and shows that every step leaves it, begins it at a start, moves it along an edge or
ends it.

`PluginScopeProofs.tla`, for the bus: `BusInvariant`, `SlotsAreExact`, `WaitIsExact` and
`ClosedStaysQuiet`. The slots are counted over publications and handler calls, the counts over the calls of
a subscription; a subscription that is closed admits no call, so its count only falls.

For the scopes: `HooksRunOnce`, `NothingIsForgotten`, `ChildrenGoFirst`,
`NoneIsLeft`, `HandlersAreOver`, and `ScopesUseTheBus`, by which what is proved of the bus
holds under the scopes. The invariant has two halves. `ScopeInv` is about the subscriptions:
a scope is entered by the call that holds its `disposeMu` (`Frames`); a call that waits does
so for a subscription that was taken off the list (`AtWait`); a subscription is recorded
in an open scope only, so it is in the snapshot of the call that closes it (`Making`,
`Recorded`); each subscription of a closing scope is still with that call, or off and at
rest (`Dealt`, `AtRest`). `TreeInv` is about the rest: a hook has either run or is among
the remaining ones of one scope (`HookInv`), and a child is remaining, being
disposed by the call in its parent, disposed, or `cut` (`KidInv`).

`NothingAcceptedAfterClose`, `NoDoubleClose`, `SlotsExact`, `WaitExact`, `QuietForGood`,
`WaitComplete` and the type invariants of these modules are stated by theorems and are in
no run.

**Only model-checked:** the liveness properties of `host_live` and `handlers`
(`AcceptedTaskAnswered`, `CloseReturns`, `StopCompletes`, `DisposeReturns`, `AcceptedTaskRuns`,
`WaitReturns`, `AdmitsAgain`, `PublishReturns`), because liveness under fairness is out of the
prover's reach. The seven findings are counterexamples.

**Not modelled:** see `components` in `PROJECT.json`. Platform adapters, storage, user
interfaces and built-in plugins, by far most of the repository, are input and output or
features on top of the core; parsing and routing tables are sequential code on strings. Of
the modelled components: a deadlock of two hooks that call the engine for each other's
session (each holds its own lock; `context.go:27` allows the call); a call of
`StartCleanup` that comes right after the stop of the previous cleaner and is ignored
(`fsm.go:681-686`); `OnTemp` reading `e.registerBatch` without the lock
(`engine_matcher_ops.go:280`); `Matcher.SetGroup`, which does not maintain the index of
groups; `UpdateConfig` of the breaker; the plugin manager, of which only its calls of
`Dispose` are here; a handler or a hook that disposes its own scope and so waits for
itself. Facts of the modelled code that no property is about: a worker keeps its token
until its queue is empty, so that busy chats may starve others (`dispatcher.go:347`); two
events may both pass the deleted check of a one-shot matcher, whose handler then runs
twice (`process.go:114`); a `Wait` of the pool may not see a worker that
is not counted yet (`exec_pool.go:109`).

## Plan

In this order:

1. (done) `DrainTracker`, `OutboundDispatcher` with `ChatFifo`, `ExecPool`, `Lifecycle`,
   `TempMatchers`; proofs for the dispatcher, the counter and the pool.
2. (done) `FsmSessions` with `SessionProtocol`, `CircuitBreaker`, `MatcherRegistry` with the
   engine's `Shutdown`, `HandlerChains`; proofs for the first three.
3. (done) Proofs of `AnswersHold` and the protocol of the sessions, of `Lifecycle`,
   `TempMatchers` and `HandlerChains`, and of the places of tasks and the refinement of
   `ChatFifo`.
4. (done) `EventBus` and `PluginScope` with their proofs.
5. `BotLifecycle`: `Bot.Start` and `Stop` over `Lifecycle`, which a restart rebuilds.
6. The plugin manager: load, reload and unload over `MatcherRegistry`'s batches and groups
   and over `PluginScope`.
7. `Future`, the retry loop and the dead-letter queue; the deduplication and degradation
   middleware; the configuration watcher's debounce.

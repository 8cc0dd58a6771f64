---------------------------- MODULE MatcherRegistry ----------------------------
(***************************************************************************)
(* core/engine: permanent matchers from registration to removal, and the   *)
(* end of the engine.  Registration and removal replace a copy-on-write    *)
(* state under writeMu (engine_matcher_ops.go); a plugin collects its      *)
(* registrations in a batch (engine_register_batch.go); a deletion marks   *)
(* the matcher and leaves its removal to a goroutine behind a channel      *)
(* (process.go), or does it itself.  Shutdown (engine.go) closes the door  *)
(* for events, stops that goroutine, waits for the events that have come   *)
(* in and for the handlers in the pool, and removes what is left.          *)
(*                                                                         *)
(* One step is one critical section, one access to an atomic value, or one *)
(* channel operation; the processor's receives of one batch are one step.  *)
(***************************************************************************)
EXTENDS Integers, Sequences, FiniteSets

CONSTANTS Deleters,      \* goroutines that delete matchers
          Events,        \* goroutines that process events
          Routes,        \* the matchers that are registered
          Capacity,      \* of pendingDeleteCh
          BatchSize,     \* pendingDeleteBatchSize
          MaxPooled      \* bound of the exploration: handlers in the pool

ASSUME RegistryAssumption ==
  /\ Capacity \in Nat /\ BatchSize \in Nat \ {0} /\ MaxPooled \in Nat

VARIABLES
  born,       \* matchers for which a registration has returned
  inState,    \* state.matchers
  marked,     \* rt.deleted
  batch,      \* e.registerBatch: whether a session is open, and its matchers
  flush,      \* the session that Flush has closed: none, closed, filtered, locked
  active,     \* pendingDeleteActive
  channel,    \* pendingDeleteCh
  taken,      \* what the processor holds of it
  ticking,    \* the processor's goroutine runs
  flushing,   \* what Shutdown's FlushPendingDeletes holds of it
  dpc, darg,  \* per deleter: control state; the matchers
  shut,       \* e.shutdown
  spc,        \* Shutdown: none, stop, events, pool, flush, done, gaveUp
  vpc,        \* per event: idle, guard, counted
  pooled,     \* handlers in the pool
  poolShut,   \* the pool refuses
  late,       \* history: sent to the channel after the processor was told to stop
  settled     \* history: their deletion had returned when Shutdown was called

registryVars == <<born, inState, batch, flush>>
deletionVars == <<active, channel, taken, ticking, flushing, dpc, darg, late>>
eventVars == <<vpc, pooled, poolShut>>
engineVars == <<registryVars, marked, deletionVars, shut, spc, eventVars, settled>>

Members(seq) == {seq[i] : i \in 1 .. Len(seq)}
NoBatch == [open |-> FALSE, members |-> {}]
NoFlush == [phase |-> "none", members |-> {}]

RegistryTypeOK ==
  /\ born \subseteq Routes /\ inState \subseteq Routes /\ marked \subseteq Routes
  /\ batch \in [open : BOOLEAN, members : SUBSET Routes]
  /\ flush \in [phase : {"none", "closed", "filtered", "locked"}, members : SUBSET Routes]
  /\ active \in BOOLEAN /\ ticking \in BOOLEAN
  /\ channel \in Seq(Routes) /\ Len(channel) <= Capacity
  /\ taken \subseteq Routes /\ flushing \subseteq Routes
  /\ dpc \in [Deleters -> {"idle", "ask", "send", "remove", "mark"}]
  /\ darg \in [Deleters -> SUBSET Routes]
  /\ shut \in BOOLEAN
  /\ spc \in {"none", "stop", "events", "pool", "flush", "flushRemove", "flushed", "done", "gaveUp"}
  /\ vpc \in [Events -> {"idle", "guard", "counted"}]
  /\ pooled \in 0 .. MaxPooled /\ poolShut \in BOOLEAN
  /\ late \subseteq Routes /\ settled \subseteq Routes

RegistryInit ==
  /\ born = {} /\ inState = {} /\ marked = {}
  /\ batch = NoBatch /\ flush = NoFlush
  /\ active = TRUE /\ channel = <<>> /\ taken = {} /\ ticking = TRUE /\ flushing = {}
  /\ dpc = [d \in Deleters |-> "idle"] /\ darg = [d \in Deleters |-> {}]
  /\ shut = FALSE /\ spc = "none"
  /\ vpc = [v \in Events |-> "idle"] /\ pooled = 0 /\ poolShut = FALSE
  /\ late = {} /\ settled = {}

-----------------------------------------------------------------------------
\* Only the commit of a batch holds writeMu for more than one step: whoever changes
\* the state waits for it.
WriteMuFree == flush.phase # "locked"

\* registerMatcher: into the open session, or into the state.  Mutant: a session
\* collects until it is committed.
CollectsUntilCommit == batch.open \/ flush.phase # "none"
Collects == batch.open

Register(m) ==
  /\ WriteMuFree
  /\ m \notin born
  /\ born' = born \cup {m}
  /\ IF Collects
     THEN batch' = [batch EXCEPT !.members = @ \cup {m}] /\ UNCHANGED inState
     ELSE inState' = inState \cup {m} /\ UNCHANGED batch
  /\ UNCHANGED <<flush, marked, deletionVars, shut, spc, eventVars, settled>>

BeginBatch ==
  /\ WriteMuFree /\ ~batch.open
  /\ batch' = [open |-> TRUE, members |-> {}]
  /\ UNCHANGED <<born, inState, flush, marked, deletionVars, shut, spc, eventVars, settled>>

\* Flush: the session is closed under writeMu; its live members are chosen without
\* a lock.  BatchRegisterMatchers takes writeMu, chooses those still alive and adds
\* them; deletions go on marking meanwhile, and the next session may have begun.
FlushClose ==
  /\ batch.open /\ flush.phase = "none"
  /\ flush' = [phase |-> "closed", members |-> batch.members]
  /\ batch' = NoBatch
  /\ UNCHANGED <<born, inState, marked, deletionVars, shut, spc, eventVars, settled>>

\* batchMatcherDropped.
Live(ms) == ms \ marked

FlushFilter ==
  /\ flush.phase = "closed"
  /\ flush' = [phase |-> "filtered", members |-> Live(flush.members)]
  /\ UNCHANGED <<born, inState, batch, marked, deletionVars, shut, spc, eventVars, settled>>

\* Mutant: the second choice is left out.
StillLiveUnchecked(ms) == ms
StillLive(ms) == Live(ms)

FlushRecheck ==
  /\ flush.phase = "filtered"
  /\ flush' = [phase |-> "locked", members |-> StillLive(flush.members)]
  /\ UNCHANGED <<born, inState, batch, marked, deletionVars, shut, spc, eventVars, settled>>

FlushCommit ==
  /\ flush.phase = "locked"
  /\ inState' = inState \cup flush.members
  /\ flush' = NoFlush
  /\ UNCHANGED <<born, batch, marked, deletionVars, shut, spc, eventVars, settled>>

-----------------------------------------------------------------------------
\* Matcher.Delete: the mark.
Mark(d) ==
  /\ dpc[d] = "idle"
  /\ \E m \in born \ marked :
       /\ marked' = marked \cup {m}
       /\ darg' = [darg EXCEPT ![d] = {m}]
  /\ dpc' = [dpc EXCEPT ![d] = "ask"]
  /\ UNCHANGED <<registryVars, active, channel, taken, ticking, flushing, late, shut, spc, eventVars, settled>>

\* DeleteMatcher: is the processor there?
Ask(d) ==
  /\ dpc[d] = "ask"
  /\ dpc' = [dpc EXCEPT ![d] = IF active THEN "send" ELSE "remove"]
  /\ UNCHANGED <<registryVars, marked, active, channel, taken, ticking, flushing, darg, late, shut, spc, eventVars, settled>>

Send(d) ==
  /\ dpc[d] = "send"
  /\ Len(channel) < Capacity
  /\ \E m \in darg[d] : channel' = Append(channel, m)
  /\ late' = IF active THEN late ELSE late \cup darg[d]
  /\ dpc' = [dpc EXCEPT ![d] = "idle"]
  /\ darg' = [darg EXCEPT ![d] = {}]
  /\ UNCHANGED <<registryVars, marked, active, taken, ticking, flushing, shut, spc, eventVars, settled>>

\* Mutant: a deletion that finds the channel full is given up.
AfterFullNothing(d) == dpc' = [dpc EXCEPT ![d] = "idle"] /\ darg' = [darg EXCEPT ![d] = {}]
AfterFull(d) == dpc' = [dpc EXCEPT ![d] = "remove"] /\ UNCHANGED darg

ChannelFull(d) ==
  /\ dpc[d] = "send"
  /\ Len(channel) = Capacity
  /\ AfterFull(d)
  /\ UNCHANGED <<registryVars, marked, active, channel, taken, ticking, flushing, late, shut, spc, eventVars, settled>>

Remove(d) ==
  /\ WriteMuFree /\ dpc[d] = "remove"
  /\ inState' = inState \ darg[d]
  /\ dpc' = [dpc EXCEPT ![d] = "idle"]
  /\ darg' = [darg EXCEPT ![d] = {}]
  /\ UNCHANGED <<born, batch, flush, marked, active, channel, taken, ticking, flushing, late, shut, spc, eventVars, settled>>

\* DeleteAllMatchers, and RemoveGroup for the matchers of a group: out of the
\* state under writeMu, then marked.
RemoveAll(d) ==
  /\ WriteMuFree /\ dpc[d] = "idle"
  /\ \E ms \in SUBSET inState \ {{}} :
       /\ inState' = inState \ ms
       /\ darg' = [darg EXCEPT ![d] = ms]
  /\ dpc' = [dpc EXCEPT ![d] = "mark"]
  /\ UNCHANGED <<born, batch, flush, marked, active, channel, taken, ticking, flushing, late, shut, spc, eventVars, settled>>

MarkAll(d) ==
  /\ dpc[d] = "mark"
  /\ marked' = marked \cup darg[d]
  /\ dpc' = [dpc EXCEPT ![d] = "idle"]
  /\ darg' = [darg EXCEPT ![d] = {}]
  /\ UNCHANGED <<registryVars, active, channel, taken, ticking, flushing, late, shut, spc, eventVars, settled>>

\* processPendingDeletes: a batch is received, then removed by DeleteMatchers.  A
\* tick may still win against the closed channel once the processor was stopped.
Batch == IF Len(channel) < BatchSize THEN Len(channel) ELSE BatchSize

Tick ==
  /\ ticking
  /\ taken = {} /\ channel # <<>>
  /\ taken' = Members(SubSeq(channel, 1, Batch))
  /\ channel' = SubSeq(channel, Batch + 1, Len(channel))
  /\ UNCHANGED <<registryVars, marked, active, ticking, flushing, dpc, darg, late, shut, spc, eventVars, settled>>

TickRemove ==
  /\ WriteMuFree /\ taken # {}
  /\ inState' = inState \ taken
  /\ marked' = marked \cup taken
  /\ taken' = {}
  /\ UNCHANGED <<born, batch, flush, active, channel, ticking, flushing, dpc, darg, late, shut, spc, eventVars, settled>>

ProcessorExit ==
  /\ ticking /\ ~active /\ taken = {}
  /\ ticking' = FALSE
  /\ UNCHANGED <<registryVars, marked, active, channel, taken, flushing, dpc, darg, late, shut, spc, eventVars, settled>>

-----------------------------------------------------------------------------
\* processEventGuarded: a look at the flag; then, under eventMu, another look and
\* the count.  Mutant: there is no second look.
StillOpenUnchecked == TRUE
StillOpen == ~shut

Enter(v) ==
  /\ vpc[v] = "idle"
  /\ ~shut
  /\ vpc' = [vpc EXCEPT ![v] = "guard"]
  /\ UNCHANGED <<registryVars, marked, deletionVars, shut, spc, pooled, poolShut, settled>>

Guard(v) ==
  /\ vpc[v] = "guard"
  /\ vpc' = [vpc EXCEPT ![v] = IF StillOpen THEN "counted" ELSE "idle"]
  /\ UNCHANGED <<registryVars, marked, deletionVars, shut, spc, pooled, poolShut, settled>>

\* A slow handler goes to the pool, which may refuse; others run in the event.
Submit(v) ==
  /\ vpc[v] = "counted"
  /\ ~poolShut /\ pooled < MaxPooled
  /\ pooled' = pooled + 1
  /\ UNCHANGED <<registryVars, marked, deletionVars, shut, spc, vpc, poolShut, settled>>

EventDone(v) ==
  /\ vpc[v] = "counted"
  /\ vpc' = [vpc EXCEPT ![v] = "idle"]
  /\ UNCHANGED <<registryVars, marked, deletionVars, shut, spc, pooled, poolShut, settled>>

PooledDone ==
  /\ pooled > 0
  /\ pooled' = pooled - 1
  /\ UNCHANGED <<registryVars, marked, deletionVars, shut, spc, vpc, poolShut, settled>>

-----------------------------------------------------------------------------
\* Shutdown.  The barrier on eventMu is no step of its own here: a section of
\* eventMu is one step.  A call that gave up may be repeated.
Shut ==
  /\ spc \in {"none", "gaveUp"}
  /\ shut' = TRUE
  /\ spc' = "stop"
  /\ settled' = marked \ UNION {darg[d] : d \in Deleters}
  /\ UNCHANGED <<registryVars, marked, deletionVars, eventVars>>

\* stopAll and waitAll: the latter waits for channels that the former has closed,
\* hence not for the goroutines.  Mutant: deletions are still sent to the processor.
StopProcessorOnly == UNCHANGED active
StopProcessor == active' = FALSE

StopAll ==
  /\ spc = "stop"
  /\ StopProcessor
  /\ spc' = "events"
  /\ UNCHANGED <<registryVars, marked, channel, taken, ticking, flushing, dpc, darg, late, shut, eventVars, settled>>

EventsOver ==
  /\ spc = "events"
  /\ \A v \in Events : vpc[v] # "counted"
  /\ poolShut' = TRUE
  /\ spc' = "pool"
  /\ UNCHANGED <<registryVars, marked, deletionVars, shut, vpc, pooled, settled>>

\* Mutant: what the stopped processor has left in its channel stays there.
AfterPoolDone == "done"
AfterPool == "flush"

\* Drain has returned; the outbound dispatcher (its own module) is shut down.
PoolDrained ==
  /\ spc = "pool"
  /\ pooled = 0
  /\ spc' = AfterPool
  /\ UNCHANGED <<registryVars, marked, deletionVars, shut, eventVars, settled>>

\* The context ends while Shutdown waits.
GiveUp ==
  /\ spc \in {"events", "pool"}
  /\ spc' = "gaveUp"
  /\ UNCHANGED <<registryVars, marked, deletionVars, shut, eventVars, settled>>

\* FlushPendingDeletes: one more round unless the channel is empty.
FlushTake ==
  /\ spc = "flush"
  /\ flushing' = Members(SubSeq(channel, 1, Batch))
  /\ channel' = SubSeq(channel, Batch + 1, Len(channel))
  /\ spc' = "flushRemove"
  /\ UNCHANGED <<registryVars, marked, active, taken, ticking, dpc, darg, late, shut, eventVars, settled>>

FlushRemove ==
  /\ WriteMuFree /\ spc = "flushRemove"
  /\ inState' = inState \ flushing
  /\ marked' = marked \cup flushing
  /\ flushing' = {}
  /\ spc' = "flushed"
  /\ UNCHANGED <<born, batch, flush, active, channel, taken, ticking, dpc, darg, late, shut, eventVars, settled>>

FlushLoop ==
  /\ spc = "flushed"
  /\ spc' = IF channel = <<>> THEN "done" ELSE "flush"
  /\ UNCHANGED <<registryVars, marked, deletionVars, shut, eventVars, settled>>

-----------------------------------------------------------------------------
Registration == (\E m \in Routes : Register(m)) \/ BeginBatch \/ FlushClose \/ FlushFilter \/ FlushRecheck \/ FlushCommit
Deletion(d) == Mark(d) \/ Ask(d) \/ Send(d) \/ ChannelFull(d) \/ Remove(d) \/ RemoveAll(d) \/ MarkAll(d)
Processor == Tick \/ TickRemove \/ ProcessorExit
Event(v) == Enter(v) \/ Guard(v) \/ Submit(v) \/ EventDone(v)
Shutdown ==
  Shut \/ StopAll \/ EventsOver \/ PoolDrained \/ GiveUp \/ FlushTake \/ FlushRemove \/ FlushLoop

RegistryNext ==
  \/ Registration \/ Processor \/ PooledDone \/ Shutdown
  \/ \E d \in Deleters : Deletion(d)
  \/ \E v \in Events : Event(v)

RegistrySpec == RegistryInit /\ [][RegistryNext]_engineVars

-----------------------------------------------------------------------------
Hands == taken \cup flushing \cup UNION {darg[d] : d \in Deleters}

\* The channel has a reader until Shutdown has returned nil: the processor; then
\* the flush of Shutdown, or of its next call when this one gives up.
Awaited == IF spc = "done" THEN {} ELSE Members(channel)

\* No deletion is lost: a matcher that is marked and still in the state has
\* somebody who will remove it, whether the processor runs, its channel is full,
\* or a batch registers what is deleted while it is flushed
\* (engine_matcher_ops.go:68-100, engine_register_batch.go:50-83, state.go:338-352).
\* Only a deletion that asked for the processor before Shutdown stopped it may be
\* sent after the last look of the flush, and stay in the channel for good (`late`).
DeletionsNotLost == marked \cap inState \subseteq Hands \cup Awaited \cup (late \cap Members(channel))

\* No registration is lost: what was registered and never deleted is in the state
\* or in the session that will put it there (engine_matcher_ops.go:152-176,
\* engine_register_batch.go:57-83).
RegistrationsNotLost ==
  born \ marked \subseteq
    inState \cup batch.members \cup flush.members \cup UNION {darg[d] : d \in Deleters}

\* After Shutdown has returned nil no event is being processed and no handler
\* runs, nor will one ever start (engine.go:205-253, process.go:36-72).
ShutdownQuiet ==
  spc = "done" => pooled = 0 /\ \A v \in Events : vpc[v] # "counted"

\* "No matcher that is marked as deleted stays in the state after Shutdown has
\* returned" (engine.go:246-249), if its deletion had returned when Shutdown was
\* called, through whatever batch, queue or giving up it went: but for those that
\* the goroutine of the processor holds, which Shutdown does not wait for
\* (component_pending_delete.go:26-31).
ShutdownRemovesMarked == spc = "done" => settled \cap inState \subseteq taken
=============================================================================

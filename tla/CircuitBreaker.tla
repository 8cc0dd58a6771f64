---------------------------- MODULE CircuitBreaker ----------------------------
(***************************************************************************)
(* middleware/resilience/circuitbreaker.go: one breaker, the handlers that *)
(* run through it, the snapshot it persists, and restarts of the process.  *)
(* The mutex covers single transitions only: the state is read before it   *)
(* is taken, slots of the half-open state are counted by compare-and-swap, *)
(* Reset stores its zeros and the snapshot is taken without it.  What a    *)
(* transition stores one after the other is one step only as far as nobody *)
(* can come in between: the slots are counted in a step of their own.      *)
(*                                                                         *)
(* Times are kept as what is asked of them: never set, younger or older    *)
(* than the timeout they are compared with.  Age may come at any moment.   *)
(***************************************************************************)
EXTENDS Integers, FiniteSets

CONSTANTS Requests,             \* goroutines that run events through the middleware
          MaxFailures,
          HalfOpenMaxRequests,
          SuccessThreshold      \* NewCircuitBreaker clamps it to HalfOpenMaxRequests

ASSUME BreakerAssumption ==
  /\ MaxFailures \in Nat \ {0}
  /\ HalfOpenMaxRequests \in Nat \ {0}
  /\ SuccessThreshold \in 1 .. HalfOpenMaxRequests

VARIABLES state, failures, successes,
          reqs,        \* halfOpenReqs
          lastFailure, \* never, recent or past (ResetTimeout has elapsed)
          halfStarted, \* halfOpenStarted: never, recent or past (HalfOpenTimeout)
          saved,       \* the snapshot the persister holds
          rpc,         \* per request: where it is
          snap,        \* per request: the snapshot it is taking
          reset,       \* the call of Reset: idle, or what it has set to zero
          admitted,    \* history: probes let in since the half-open round began
          disturbed    \* history: a Reset has given slots back since then

counters == <<failures, successes, reqs>>
times == <<lastFailure, halfStarted>>
history == <<admitted, disturbed>>
breakerVars == <<state, counters, times, saved, rpc, snap, reset, history>>

States == {"closed", "open", "halfOpen"}
Ages == {"never", "recent", "past"}
\* Of a snapshot's times it matters whether they are set; its counts are not
\* followed: a restart finds any.
Snapshot == [state : States, failed : BOOLEAN, started : BOOLEAN]

BreakerTypeOK ==
  /\ state \in States
  /\ failures \in Nat /\ successes \in Nat /\ reqs \in Nat
  /\ lastFailure \in Ages /\ halfStarted \in Ages
  /\ saved \in Snapshot
  /\ rpc \in [Requests -> {"idle", "check", "aged", "entering", "expired", "limit", "slot",
                           "running", "closing", "snapState", "snapRest", "write"}]
  /\ snap \in [Requests -> Snapshot]
  /\ reset \in {"idle", "failures", "successes", "slots"}
  /\ admitted \in Nat /\ disturbed \in BOOLEAN

Fresh == [state |-> "closed", failed |-> FALSE, started |-> FALSE]
Round0 == admitted' = 0 /\ disturbed' = FALSE

BreakerInit ==
  /\ state = "closed"
  /\ failures = 0 /\ successes = 0 /\ reqs = 0
  /\ lastFailure = "never" /\ halfStarted = "never"
  /\ saved = Fresh
  /\ rpc = [r \in Requests |-> "idle"]
  /\ snap = [r \in Requests |-> Fresh]
  /\ reset = "idle"
  /\ admitted = 0 /\ disturbed = FALSE

Goes(r, from, to) == rpc[r] = from /\ rpc' = [rpc EXCEPT ![r] = to]

\* The mutex is held for more than one step by a request that enters or leaves the
\* half-open state.
Entering == \E r \in Requests : rpc[r] = "entering"
Closing == \E r \in Requests : rpc[r] = "closing"
MuFree == ~Entering /\ ~Closing
Locked(r, from, to) == MuFree /\ Goes(r, from, to)

\* A round of probes begins with the count of its first slot.
InRound == state = "halfOpen" \/ Entering
-----------------------------------------------------------------------------
\* An event reaches the middleware.
Arrive(r) ==
  /\ Goes(r, "idle", "check")
  /\ UNCHANGED <<state, counters, times, saved, snap, reset, history>>

\* canExecute reads the state without the mutex; for an open breaker the age of
\* the last failure is looked at before the mutex is taken.
CheckClosed(r) ==
  /\ state = "closed"
  /\ Goes(r, "check", "running")
  /\ UNCHANGED <<state, counters, times, saved, snap, reset, history>>

CheckOpen(r) ==
  /\ state = "open"
  /\ Goes(r, "check", IF lastFailure = "past" THEN "aged" ELSE "idle")
  /\ UNCHANGED <<state, counters, times, saved, snap, reset, history>>

CheckHalfOpen(r) ==
  /\ state = "halfOpen"
  /\ Goes(r, "check", IF halfStarted = "past" THEN "expired" ELSE "limit")
  /\ UNCHANGED <<state, counters, times, saved, snap, reset, history>>

\* tryTransitionToHalfOpen, its second critical section.  Mutant: the caller's
\* own slot is not counted.
OwnSlotForgotten == 0
OwnSlot == 1

EnterCount(r) ==
  /\ state = "open"
  /\ Locked(r, "aged", "entering")
  /\ reqs' = OwnSlot
  /\ admitted' = 1 /\ disturbed' = FALSE
  /\ UNCHANGED <<state, failures, successes, times, saved, snap, reset>>

EnterHalfOpen(r) ==
  /\ Goes(r, "entering", "running")
  /\ successes' = 0
  /\ halfStarted' = "recent"
  /\ state' = "halfOpen"
  /\ UNCHANGED <<failures, reqs, lastFailure, saved, snap, reset, history>>

\* Another request was faster: look again.
EnterLost(r) ==
  /\ state # "open"
  /\ Locked(r, "aged", "check")
  /\ UNCHANGED <<state, counters, times, saved, snap, reset, history>>

\* checkHalfOpenExpired, its second critical section.  Mutant: it never reopens.
ReopensNever == FALSE
Reopens == state = "halfOpen"

Reopen(r) ==
  /\ Reopens
  /\ Locked(r, "expired", "idle")
  /\ lastFailure' = "recent"
  /\ state' = "open"
  /\ UNCHANGED <<counters, halfStarted, saved, snap, reset>>
  /\ Round0

ReopenLost(r) ==
  /\ ~Reopens
  /\ Locked(r, "expired", "limit")
  /\ UNCHANGED <<state, counters, times, saved, snap, reset, history>>

\* acquireHalfOpenSlot: the limit is read under the mutex; then the successful
\* compare-and-swap, whatever the state is by now and whoever holds the mutex.
\* Giving up after 100 failed attempts is a refusal too.
ReadLimit(r) ==
  /\ Locked(r, "limit", "slot")
  /\ UNCHANGED <<state, counters, times, saved, snap, reset, history>>

AcquireSlot(r) ==
  /\ reqs < HalfOpenMaxRequests
  /\ Goes(r, "slot", "running")
  /\ reqs' = reqs + 1
  /\ admitted' = IF InRound THEN admitted + 1 ELSE admitted
  /\ UNCHANGED <<state, failures, successes, times, saved, snap, reset, disturbed>>

SlotRefused(r) ==
  /\ reqs >= HalfOpenMaxRequests
  /\ Goes(r, "slot", "idle")
  /\ UNCHANGED <<state, counters, times, saved, snap, reset, history>>

-----------------------------------------------------------------------------
\* The handler returns nil: onSuccess, up to its unlock.
SucceedClosed(r) ==
  /\ state = "closed"
  /\ Locked(r, "running", "snapState")
  /\ failures' = 0
  /\ UNCHANGED <<state, successes, reqs, times, saved, snap, reset, history>>

SucceedOpen(r) ==
  /\ state = "open"
  /\ Locked(r, "running", "idle")
  /\ UNCHANGED <<state, counters, times, saved, snap, reset, history>>

SucceedProbe(r) ==
  /\ state = "halfOpen"
  /\ successes + 1 < SuccessThreshold
  /\ Locked(r, "running", "idle")
  /\ successes' = successes + 1
  /\ UNCHANGED <<state, failures, reqs, times, saved, snap, reset, history>>

CloseReset(r) ==
  /\ state = "halfOpen"
  /\ successes + 1 >= SuccessThreshold
  /\ Locked(r, "running", "closing")
  /\ failures' = 0 /\ successes' = 0 /\ reqs' = 0
  /\ UNCHANGED <<state, times, saved, snap, reset, history>>

Close(r) ==
  /\ Goes(r, "closing", "snapState")
  /\ state' = "closed"
  /\ UNCHANGED <<counters, times, saved, snap, reset>>
  /\ Round0

\* The handler returns an error: onFailure, up to its unlock.  The time of the
\* failure is stored before the state.  Mutant: only a closed breaker notes it
\* when it does not trip.
FailureTimeLate(trips) == IF trips THEN lastFailure ELSE "recent"
FailureTime(trips) == "recent"

FailClosed(r) ==
  /\ state = "closed"
  /\ Locked(r, "running", "snapState")
  /\ failures' = failures + 1
  /\ LET trips == failures + 1 >= MaxFailures IN
       /\ state' = IF trips THEN "open" ELSE "closed"
       /\ lastFailure' = FailureTime(trips)
  /\ UNCHANGED <<successes, reqs, halfStarted, saved, snap, reset, history>>

FailProbe(r) ==
  /\ state = "halfOpen"
  /\ Locked(r, "running", "snapState")
  /\ failures' = MaxFailures
  /\ state' = "open"
  /\ lastFailure' = "recent"
  /\ UNCHANGED <<successes, reqs, halfStarted, saved, snap, reset>>
  /\ Round0

FailOpen(r) ==
  /\ state = "open"
  /\ Locked(r, "running", "idle")
  /\ lastFailure' = "recent"
  /\ UNCHANGED <<state, counters, halfStarted, saved, snap, reset, history>>

\* The handler panics: nothing is recorded, a slot stays taken.
Panic(r) ==
  /\ Goes(r, "running", "idle")
  /\ UNCHANGED <<state, counters, times, saved, snap, reset, history>>

-----------------------------------------------------------------------------
\* savePersisted, without the mutex: the state, the rest of the fields, Save.
Rest(sn) == [sn EXCEPT !.failed = lastFailure # "never", !.started = halfStarted # "never"]

SaveReadState(r) ==
  /\ Goes(r, "snapState", "snapRest")
  /\ snap' = [snap EXCEPT ![r] = [Fresh EXCEPT !.state = state]]
  /\ UNCHANGED <<state, counters, times, saved, reset, history>>

SaveReadRest(r) ==
  /\ Goes(r, "snapRest", "write")
  /\ snap' = [snap EXCEPT ![r] = Rest(snap[r])]
  /\ UNCHANGED <<state, counters, times, saved, reset, history>>

\* Save may fail, which is logged only.
SaveWrite(r) ==
  /\ Goes(r, "write", "idle")
  /\ saved' \in {saved, snap[r]}
  /\ snap' = [snap EXCEPT ![r] = Fresh]
  /\ UNCHANGED <<state, counters, times, reset, history>>

\* Reset: three stores without the mutex, then the close under it.
ResetFailures ==
  /\ reset = "idle" /\ reset' = "failures"
  /\ failures' = 0
  /\ UNCHANGED <<state, successes, reqs, times, saved, rpc, snap, history>>

ResetSuccesses ==
  /\ reset = "failures" /\ reset' = "successes"
  /\ successes' = 0
  /\ UNCHANGED <<state, failures, reqs, times, saved, rpc, snap, history>>

ResetSlots ==
  /\ reset = "successes" /\ reset' = "slots"
  /\ reqs' = 0
  /\ disturbed' = InRound
  /\ UNCHANGED <<state, failures, successes, times, saved, rpc, snap, admitted>>

\* Here the snapshot is taken and written under the mutex.
ResetClose ==
  /\ MuFree
  /\ reset = "slots" /\ reset' = "idle"
  /\ state' = "closed"
  /\ saved' \in {saved, Rest([Fresh EXCEPT !.state = "closed"])}
  /\ UNCHANGED <<counters, times, rpc, snap>>
  /\ Round0

AgeFailure ==
  /\ lastFailure = "recent"
  /\ lastFailure' = "past"
  /\ UNCHANGED <<state, counters, halfStarted, saved, rpc, snap, reset, history>>

AgeHalfOpen ==
  /\ halfStarted = "recent"
  /\ halfStarted' = "past"
  /\ UNCHANGED <<state, counters, lastFailure, saved, rpc, snap, reset, history>>

\* The process ends at any moment and NewCircuitBreaker loads the snapshot; its
\* times may be old by then, as Age may follow at once.  A zero time is not restored.
Restart ==
  /\ state' = saved.state
  /\ failures' \in 0 .. MaxFailures
  /\ successes' \in 0 .. SuccessThreshold
  /\ reqs' \in 0 .. HalfOpenMaxRequests
  /\ lastFailure' = IF saved.failed THEN "recent" ELSE "never"
  /\ halfStarted' = IF saved.started THEN "recent" ELSE "never"
  /\ rpc' = [r \in Requests |-> "idle"]
  /\ snap' = [r \in Requests |-> Fresh]
  /\ reset' = "idle"
  /\ admitted' = 0
  /\ disturbed' = (state' = "halfOpen")
  /\ UNCHANGED saved

Check(r) == CheckClosed(r) \/ CheckOpen(r) \/ CheckHalfOpen(r)
Admit(r) ==
  \/ EnterCount(r) \/ EnterHalfOpen(r) \/ EnterLost(r) \/ Reopen(r) \/ ReopenLost(r)
  \/ ReadLimit(r) \/ AcquireSlot(r) \/ SlotRefused(r)
Outcome(r) ==
  \/ SucceedClosed(r) \/ SucceedOpen(r) \/ SucceedProbe(r) \/ CloseReset(r) \/ Close(r)
  \/ FailClosed(r) \/ FailProbe(r) \/ FailOpen(r) \/ Panic(r)
Persist(r) == SaveReadState(r) \/ SaveReadRest(r) \/ SaveWrite(r)

Going(r) == Arrive(r) \/ Check(r) \/ Admit(r) \/ Outcome(r) \/ Persist(r)

Reset == ResetFailures \/ ResetSuccesses \/ ResetSlots \/ ResetClose

BreakerNext ==
  \/ \E r \in Requests : Going(r)
  \/ Reset \/ AgeFailure \/ AgeHalfOpen \/ Restart

BreakerSpec == BreakerInit /\ [][BreakerNext]_breakerVars
-----------------------------------------------------------------------------
\* A half-open round lets in no more probes than configured, although requests
\* read the state, take slots and change the state at different moments
\* (circuitbreaker.go:161-162, 346-437).  A Reset in the middle gives slots back.  So
\* does the close that ends the round, just before it stores the closed state: what
\* is let in through that gap is no more than as many again.
ProbesBounded ==
  InRound /\ ~disturbed =>
    admitted <= IF Closing THEN 2 * HalfOpenMaxRequests ELSE HalfOpenMaxRequests

\* An open breaker knows when it failed, a half-open one when it began, and so
\* does the snapshot, torn as it may be: without the time the breaker could
\* never leave the state again, after a restart neither (346-350, 371-375).
Leavable(st, failedKnown, startedKnown) ==
  /\ st = "open" => failedKnown
  /\ st = "halfOpen" => startedKnown

StatesLeavable ==
  /\ Leavable(state, lastFailure # "never", halfStarted # "never")
  /\ Leavable(saved.state, saved.failed, saved.started)

\* Events keep arriving, requests go on, and time passes.
BreakerFairness ==
  /\ \A r \in Requests : WF_breakerVars(Going(r))
  /\ WF_breakerVars(AgeFailure) /\ WF_breakerVars(AgeHalfOpen)

\* The breaker never refuses for ever: slots lost to panics or to a restart come
\* back with the timeout of the half-open state, an open breaker is probed again.
\* Restarts may come and go, but not for ever.
AdmitsAgain ==
  <>[][~Restart]_breakerVars =>
    \A r \in Requests : rpc[r] # "idle" ~> \E q \in Requests : rpc[q] = "running"
=============================================================================

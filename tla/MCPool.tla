-------------------------------- MODULE MCPool --------------------------------
(***************************************************************************)
(* What stands around a handler: the circuit breaker that may refuse the   *)
(* event, the pool that runs it if it is slow, the counter by which one    *)
(* waits for it, and the bus on which it publishes.  In the program the    *)
(* four share no state, so the initial state chooses one and the others    *)
(* stay as they begin; the instance has the sum of their states.           *)
(***************************************************************************)
EXTENDS ExecPool, DrainTracker, CircuitBreaker, EventBus

VARIABLE part

poolVars == <<part, vars, trackerVars, breakerVars, busVars>>

\* Add(1), Add(2), Done and a Done that falls below zero.
SmallDeltas == {1, 2, -1, -2}

PoolInit == /\ part \in {"pool", "counter", "breaker", "bus"}
            /\ Init /\ TrackerInit /\ BreakerInit /\ BusInit
PoolNext ==
  /\ \/ part = "pool" /\ Next /\ UNCHANGED <<trackerVars, breakerVars, busVars>>
     \/ part = "counter" /\ TrackerNext /\ UNCHANGED <<vars, breakerVars, busVars>>
     \/ part = "breaker" /\ BreakerNext /\ UNCHANGED <<vars, trackerVars, busVars>>
     \/ part = "bus" /\ BusNext /\ UNCHANGED <<vars, trackerVars, breakerVars>>
  /\ UNCHANGED part

\* Each part under the fairness its module states, while it is the one that runs; on a
\* bus that stays as it begins nothing is enabled that BusFairness speaks of.
PoolFairness ==
  /\ \A t \in Tasks : /\ WF_vars(part = "pool" /\ spc[t] # "idle" /\ Submit(t))
                       /\ WF_vars(part = "pool" /\ Worker(t))
  /\ \A d \in Drainers :
       WF_vars(part = "pool" /\ (DrainBarrier(d) \/ DrainPop(d) \/ DrainRun(d) \/ DrainReturn(d)))
  /\ \A a \in Waiters : WF_vars(part = "pool" /\ WaitReturn(a))
  /\ \A w \in Sleepers : /\ WF_trackerVars(part = "counter" /\ WaitCheck(w))
                         /\ WF_trackerVars(part = "counter" /\ WaitWake(w))
  /\ \A r \in Requests : WF_breakerVars(part = "breaker" /\ Going(r))
  /\ WF_breakerVars(part = "breaker" /\ AgeFailure)
  /\ WF_breakerVars(part = "breaker" /\ AgeHalfOpen)
  /\ BusFairness

PoolSpec == PoolInit /\ [][PoolNext]_poolVars /\ PoolFairness
=============================================================================

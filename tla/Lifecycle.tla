------------------------------ MODULE Lifecycle ------------------------------
(***************************************************************************)
(* lifecycle/lifecycle.go: Manager starts its components in the order of   *)
(* registration, runs each of them in a goroutine of its own and stops     *)
(* them in reverse; a Start that fails rolls back what it had started.     *)
(* The mutex guards the state only: OnStart, OnStop and the launching of   *)
(* the OnRun goroutines happen outside of it.                              *)
(*                                                                         *)
(* One step is one critical section, one call of a component, or one       *)
(* operation on runWg.  Each Start that succeeds makes a new runtime       *)
(* context, numbered by gen.  Errors of OnStop are collected and change    *)
(* nothing else.                                                           *)
(***************************************************************************)
EXTENDS Integers, Sequences, FiniteSets

CONSTANTS Comps,      \* components, each registered at most once
          Starts,     \* calls of Start
          Stops       \* calls of Stop

ASSUME ManagerAssumption == IsFiniteSet(Starts)

VARIABLES
  state,              \* m.state
  components,         \* m.components
  started,            \* m.startedComps
  gen,                \* number of runtime contexts made; m.runCtx is the last
  cancelledRuns,      \* runtime contexts that have been cancelled
  status,             \* m.compStatuses: component -> absent, running or exited
  runs,               \* live OnRun goroutines <<component, context>>, counted by runWg
  startPc, scomps, si,    \* per Start call: control state, its snapshot, loop position
  sgen,               \* per Start call: the runtime context it made
  tpc, tcomps, ti,    \* per Stop call: control state, its snapshot, loop position
  timedOut,           \* per Stop call: its context ended while it waited
  waiter,             \* per Stop call: the goroutine blocked in runWg.Wait
  clean,              \* per Stop call: no Start was launching when it began
  inited,             \* components whose OnStart succeeded and OnStop has not run
  panicked            \* runWg has panicked in a goroutine nobody recovers

stateVars == <<state, components, started, gen, cancelledRuns>>
runVars   == <<status, runs>>
startVars == <<startPc, scomps, si, sgen>>
stopVars  == <<tpc, tcomps, ti, timedOut, clean>>
managerVars == <<stateVars, runVars, startVars, stopVars, waiter, inited, panicked>>

Elems(s) == {s[i] : i \in DOMAIN s}
States == {"Created", "Starting", "Running", "Stopping", "Stopped"}
\* The states of a Start call that has published Running and not yet returned.
Launching == {"status", "launch"}
\* The states in which a call owns the transition the manager is in.
Opening == {"starting", "rollback"}
Closing == {"wait", "blocked", "stopping"}

ManagerTypeOK ==
  /\ state \in States
  /\ components \in Seq(Comps)
  /\ started \in Seq(Comps)
  /\ gen \in 0..Cardinality(Starts)
  /\ cancelledRuns \subseteq 1..gen
  /\ status \in [Comps -> {"absent", "running", "exited"}]
  /\ runs \subseteq Comps \X (1..gen)
  /\ startPc \in [Starts -> Opening \cup Launching \cup {"idle", "started", "failed", "refused"}]
  /\ scomps \in [Starts -> Seq(Comps)]
  /\ \A s \in Starts : si[s] \in 0..Len(scomps[s])
  /\ sgen \in [Starts -> 0..gen]
  /\ tpc \in [Stops -> Closing \cup {"idle", "ignored", "returned"}]
  /\ tcomps \in [Stops -> Seq(Comps)]
  /\ \A k \in Stops : ti[k] \in 0..Len(tcomps[k])
  /\ timedOut \in [Stops -> BOOLEAN]
  /\ waiter \in [Stops -> {"none", "blocked", "woken"}]
  /\ clean \in [Stops -> BOOLEAN]
  /\ inited \subseteq Comps
  /\ panicked \in BOOLEAN

ManagerInit ==
  /\ state = "Created"
  /\ components = <<>>
  /\ started = <<>>
  /\ gen = 0
  /\ cancelledRuns = {}
  /\ status = [c \in Comps |-> "absent"]
  /\ runs = {}
  /\ startPc = [s \in Starts |-> "idle"]
  /\ scomps = [s \in Starts |-> <<>>]
  /\ si = [s \in Starts |-> 0]
  /\ sgen = [s \in Starts |-> 0]
  /\ tpc = [k \in Stops |-> "idle"]
  /\ tcomps = [k \in Stops |-> <<>>]
  /\ ti = [k \in Stops |-> 0]
  /\ timedOut = [k \in Stops |-> FALSE]
  /\ waiter = [k \in Stops |-> "none"]
  /\ clean = [k \in Stops |-> FALSE]
  /\ inited = {}
  /\ panicked = FALSE
-----------------------------------------------------------------------------
\* In every state; while running it returns false and logs a warning.
Register(c) ==
  /\ ~panicked
  /\ c \notin Elems(components)
  /\ components' = Append(components, c)
  /\ UNCHANGED <<state, started, gen, cancelledRuns, runVars, startVars, stopVars, waiter,
                 inited, panicked>>
-----------------------------------------------------------------------------
(* Start *)

CanStart == state \in {"Created", "Stopped"}

StartCall(s) ==
  /\ ~panicked
  /\ startPc[s] = "idle"
  /\ IF CanStart
     THEN /\ state' = "Starting"
          /\ scomps' = [scomps EXCEPT ![s] = components]
          /\ started' = <<>>
          /\ startPc' = [startPc EXCEPT ![s] = "starting"]
     ELSE /\ startPc' = [startPc EXCEPT ![s] = "refused"]
          /\ UNCHANGED <<state, scomps, started>>
  /\ UNCHANGED <<components, gen, cancelledRuns, runVars, si, sgen, stopVars, waiter,
                 inited, panicked>>

\* OnStart of the next component succeeds.
StartComponent(s) ==
  /\ ~panicked
  /\ startPc[s] = "starting"
  /\ si[s] < Len(scomps[s])
  /\ si' = [si EXCEPT ![s] = @ + 1]
  /\ inited' = inited \cup {scomps[s][si[s] + 1]}
  /\ UNCHANGED <<stateVars, runVars, startPc, scomps, sgen, stopVars, waiter, panicked>>

\* Mutant: the component started last is taken for the one that failed.
StartFailsShort(s) ==
  /\ ~panicked
  /\ startPc[s] = "starting"
  /\ si[s] < Len(scomps[s])
  /\ startPc' = [startPc EXCEPT ![s] = "rollback"]
  /\ si' = [si EXCEPT ![s] = IF @ = 0 THEN 0 ELSE @ - 1]
  /\ UNCHANGED <<stateVars, runVars, scomps, sgen, stopVars, waiter, inited, panicked>>

\* OnStart of the next component fails, or the context of Start has ended.
StartFails(s) ==
  /\ ~panicked
  /\ startPc[s] = "starting"
  /\ si[s] < Len(scomps[s])
  /\ startPc' = [startPc EXCEPT ![s] = "rollback"]
  /\ UNCHANGED <<stateVars, runVars, scomps, si, sgen, stopVars, waiter, inited, panicked>>

\* rollback: OnStop in reverse order, then the state goes back to Created.
Rollback(s) ==
  /\ ~panicked
  /\ startPc[s] = "rollback"
  /\ IF si[s] > 0
     THEN /\ inited' = inited \ {scomps[s][si[s]]}
          /\ si' = [si EXCEPT ![s] = @ - 1]
          /\ UNCHANGED <<state, startPc>>
     ELSE /\ state' = "Created"
          /\ startPc' = [startPc EXCEPT ![s] = "failed"]
          /\ UNCHANGED <<inited, si>>
  /\ UNCHANGED <<components, started, gen, cancelledRuns, runVars, scomps, sgen, stopVars,
                 waiter, panicked>>

\* The second critical section: contexts, started components and Running are
\* published before a single OnRun goroutine exists.
StartPublish(s) ==
  /\ ~panicked
  /\ startPc[s] = "starting"
  /\ si[s] = Len(scomps[s])
  /\ gen' = gen + 1
  /\ sgen' = [sgen EXCEPT ![s] = gen + 1]
  /\ started' = scomps[s]
  /\ state' = "Running"
  /\ startPc' = [startPc EXCEPT ![s] = "status"]
  /\ si' = [si EXCEPT ![s] = 0]
  /\ UNCHANGED <<components, cancelledRuns, runVars, scomps, stopVars, waiter, inited, panicked>>

\* compStatuses is replaced under a mutex of its own.
StartStatus(s) ==
  /\ ~panicked
  /\ startPc[s] = "status"
  /\ status' = [c \in Comps |-> IF c \in Elems(scomps[s]) THEN "running" ELSE "absent"]
  /\ startPc' = [startPc EXCEPT ![s] = "launch"]
  /\ UNCHANGED <<stateVars, runs, scomps, si, sgen, stopVars, waiter, inited, panicked>>

\* runWg.Add(1) and go.
StartLaunch(s) ==
  /\ ~panicked
  /\ startPc[s] = "launch"
  /\ si[s] < Len(scomps[s])
  /\ runs' = runs \cup {<<scomps[s][si[s] + 1], sgen[s]>>}
  /\ si' = [si EXCEPT ![s] = @ + 1]
  /\ UNCHANGED <<stateVars, status, startPc, scomps, sgen, stopVars, waiter, inited, panicked>>

StartReturn(s) ==
  /\ ~panicked
  /\ startPc[s] = "launch"
  /\ si[s] = Len(scomps[s])
  /\ startPc' = [startPc EXCEPT ![s] = "started"]
  /\ UNCHANGED <<stateVars, runVars, scomps, si, sgen, stopVars, waiter, inited, panicked>>

\* The goroutines blocked in runWg.Wait are released when the counter is zero.
Released == [k \in Stops |-> IF waiter[k] = "blocked" /\ runs' = {} THEN "woken" ELSE waiter[k]]

\* Mutant: the status is left as it is.
RunExitUnrecorded(r) ==
  /\ ~panicked
  /\ r \in runs
  /\ runs' = runs \ {r}
  /\ waiter' = Released
  /\ UNCHANGED <<stateVars, status, startVars, stopVars, inited, panicked>>

\* OnRun may return at any time; the goroutine records it by name and is done.
RunExit(r) ==
  /\ ~panicked
  /\ r \in runs
  /\ status' = [status EXCEPT ![r[1]] = IF @ = "absent" THEN @ ELSE "exited"]
  /\ runs' = runs \ {r}
  /\ waiter' = Released
  /\ UNCHANGED <<stateVars, startVars, stopVars, inited, panicked>>
-----------------------------------------------------------------------------
(* Stop *)

\* Mutant: the runtime context is not cancelled.
CancelNothing == UNCHANGED cancelledRuns
CancelRun == cancelledRuns' = cancelledRuns \cup {gen}

StopCall(k) ==
  /\ ~panicked
  /\ tpc[k] = "idle"
  /\ IF state = "Running"
     THEN /\ state' = "Stopping"
          /\ CancelRun
          /\ tcomps' = [tcomps EXCEPT ![k] = started]
          /\ ti' = [ti EXCEPT ![k] = Len(started)]
          /\ tpc' = [tpc EXCEPT ![k] = "wait"]
          /\ clean' = [clean EXCEPT ![k] = \A s \in Starts : startPc[s] \notin Launching]
     ELSE /\ tpc' = [tpc EXCEPT ![k] = "ignored"]
          /\ UNCHANGED <<state, cancelledRuns, tcomps, ti, clean>>
  /\ UNCHANGED <<components, started, gen, runVars, startVars, timedOut, waiter,
                 inited, panicked>>

\* Mutant: nobody waits.
RunsOverAlways == TRUE
RunsOver == runs = {}

\* runWg.Wait, in a goroutine of its own: it returns at once or blocks.
StopWait(k) ==
  /\ ~panicked
  /\ tpc[k] = "wait"
  /\ IF RunsOver
     THEN tpc' = [tpc EXCEPT ![k] = "stopping"] /\ UNCHANGED waiter
     ELSE /\ tpc' = [tpc EXCEPT ![k] = "blocked"]
          /\ waiter' = [waiter EXCEPT ![k] = "blocked"]
  /\ UNCHANGED <<stateVars, runVars, startVars, tcomps, ti, timedOut, clean,
                 inited, panicked>>

\* The waiting goroutine runs again: a WaitGroup whose counter has left zero in
\* the meantime panics ("reused before previous Wait has returned").
StopWoken(k) ==
  /\ ~panicked
  /\ waiter[k] = "woken"
  /\ waiter' = [waiter EXCEPT ![k] = "none"]
  /\ IF runs # {}
     THEN panicked' = TRUE /\ UNCHANGED tpc
     ELSE /\ tpc' = [tpc EXCEPT ![k] = IF @ = "blocked" THEN "stopping" ELSE @]
          /\ UNCHANGED panicked
  /\ UNCHANGED <<stateVars, runVars, startVars, tcomps, ti, timedOut, clean, inited>>

\* The context of Stop ends first; the waiting goroutine stays behind.
StopTimeout(k) ==
  /\ ~panicked
  /\ tpc[k] = "blocked"
  /\ timedOut' = [timedOut EXCEPT ![k] = TRUE]
  /\ tpc' = [tpc EXCEPT ![k] = "stopping"]
  /\ UNCHANGED <<stateVars, runVars, startVars, tcomps, ti, clean, waiter,
                 inited, panicked>>

\* Mutant: in the order of registration.
StopComponentForward(k) ==
  /\ ~panicked
  /\ tpc[k] = "stopping"
  /\ ti[k] > 0
  /\ inited' = inited \ {tcomps[k][Len(tcomps[k]) - ti[k] + 1]}
  /\ ti' = [ti EXCEPT ![k] = @ - 1]
  /\ UNCHANGED <<stateVars, runVars, startVars, tpc, tcomps, timedOut, clean, waiter, panicked>>

\* OnStop of the last component not yet stopped.
StopComponent(k) ==
  /\ ~panicked
  /\ tpc[k] = "stopping"
  /\ ti[k] > 0
  /\ inited' = inited \ {tcomps[k][ti[k]]}
  /\ ti' = [ti EXCEPT ![k] = @ - 1]
  /\ UNCHANGED <<stateVars, runVars, startVars, tpc, tcomps, timedOut, clean, waiter, panicked>>

\* parentCancel, read outside of the mutex: the state is still Stopping, so no
\* Start can replace it.
StopFinish(k) ==
  /\ ~panicked
  /\ tpc[k] = "stopping"
  /\ ti[k] = 0
  /\ state' = "Stopped"
  /\ tpc' = [tpc EXCEPT ![k] = "returned"]
  /\ UNCHANGED <<components, started, gen, cancelledRuns, runVars, startVars, tcomps, ti,
                 timedOut, clean, waiter, inited, panicked>>
-----------------------------------------------------------------------------
Start(s) ==
  \/ StartCall(s) \/ StartComponent(s) \/ StartFails(s) \/ Rollback(s)
  \/ StartPublish(s) \/ StartStatus(s) \/ StartLaunch(s) \/ StartReturn(s)

Stop(k) ==
  \/ StopCall(k) \/ StopWait(k) \/ StopWoken(k) \/ StopTimeout(k)
  \/ StopComponent(k) \/ StopFinish(k)

ManagerNext ==
  \/ \E c \in Comps : Register(c)
  \/ \E s \in Starts : Start(s)
  \/ \E r \in Comps \X (1..Cardinality(Starts)) : RunExit(r)
  \/ \E k \in Stops : Stop(k)

ManagerSpec == ManagerInit /\ [][ManagerNext]_managerVars
-----------------------------------------------------------------------------
(* Safety *)

\* A manager at rest has no component initialised, a running one exactly those it
\* remembers.
Paired ==
  /\ state \in {"Created", "Stopped"} => inited = {}
  /\ state = "Running" => inited = Elems(started)

\* A component that needs another is registered after it (lifecycle.go:249-250): at
\* no time is one initialised while one registered before it is not.
DependenciesUp ==
  \A i, j \in DOMAIN components :
    i < j /\ components[j] \in inited => components[i] \in inited

\* OnStart and OnStop pair up, in reverse order, over starts, failed starts, stops,
\* restarts and registrations in between: none is leaked, stopped twice, stopped
\* without a start or stopped before one that needs it.
InitPaired == Paired /\ DependenciesUp

\* Whatever overlaps, an OnRun goroutine that the present run does not own has
\* its context cancelled: Stop leaves nothing that has not been told to end.
OldRunsCancelled ==
  \A r \in runs : r[2] \notin cancelledRuns => state = "Running" /\ r[2] = gen

\* OnStop is called after OnRun has returned, if the Stop did not time out and
\* began after Start had launched everything.
CleanStopAfterRun ==
  \A k \in Stops : tpc[k] = "stopping" /\ ~timedOut[k] /\ clean[k] => runs = {}

\* lifecycle.go:578-583: Stop waits for all OnRun to complete, then calls OnStop.
StopAfterRun == \A k \in Stops : tpc[k] = "stopping" /\ ~timedOut[k] => runs = {}

\* A component reported as running has a live OnRun, or one about to be launched.
StatusNotStale ==
  \A c \in Comps :
    status[c] = "running" =>
      \/ \E r \in runs : r[1] = c
      \/ \E s \in Starts : /\ startPc[s] \in Launching
                           /\ \E i \in DOMAIN scomps[s] : i > si[s] /\ scomps[s][i] = c
-----------------------------------------------------------------------------
(* Liveness *)

\* Calls that have begun go on, hooks return, and OnRun returns after its
\* context was cancelled, as the Component interface asks.
ManagerFairness ==
  /\ \A s \in Starts : WF_managerVars(startPc[s] # "idle" /\ Start(s))
  /\ \A k \in Stops :
       /\ WF_managerVars(StopWait(k) \/ StopComponent(k) \/ StopFinish(k))
       /\ WF_managerVars(StopWoken(k))
  /\ \A r \in Comps \X (1..Cardinality(Starts)) :
       WF_managerVars(r[2] \in cancelledRuns /\ RunExit(r))

FairManagerSpec == ManagerSpec /\ ManagerFairness

\* A Stop that took effect ends, and the manager can be started again.
StopCompletes == \A k \in Stops : tpc[k] = "wait" ~> (tpc[k] = "returned" \/ panicked)
=============================================================================

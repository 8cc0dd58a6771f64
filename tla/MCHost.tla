-------------------------------- MODULE MCHost --------------------------------
(***************************************************************************)
(* What must come to an end for a bot to stop: the components that its     *)
(* manager starts and stops, the dispatcher that sends its replies, and    *)
(* the scopes of its plugins on the event bus.  In the program the three   *)
(* share no state, so the initial state chooses one of Parts and the       *)
(* others stay as they begin; the instance has the sum of their states.    *)
(***************************************************************************)
EXTENDS MCOutboundDispatcher, Lifecycle, PluginScope

CONSTANT Parts

VARIABLE part

treesVars == <<scopeVars, busVars>>
hostVars == <<part, vars, managerVars, treesVars>>

HostInit == /\ part \in Parts
            /\ Init /\ ManagerInit /\ BusInit /\ ScopeInit
HostNext ==
  /\ \/ part = "dispatcher" /\ Next /\ UNCHANGED <<managerVars, treesVars>>
     \/ part = "manager" /\ ManagerNext /\ UNCHANGED <<vars, treesVars>>
     \/ part = "scopes" /\ ScopeNext /\ UNCHANGED <<vars, managerVars>>
  /\ UNCHANGED part

HostSpec == HostInit /\ [][HostNext]_hostVars

\* Each part under the fairness its module states, while it is the one that runs; in
\* scopes that stay as they begin nothing is enabled that ScopeFairness speaks of.
DispatcherGoes(A) == part = "dispatcher" /\ A
ManagerGoes(A) == part = "manager" /\ A
HostFairness ==
  /\ \A t \in Tasks : WF_vars(DispatcherGoes(spc[t] # "idle" /\ Submit(t)))
  /\ \A q \in Queues :
       /\ WF_vars(DispatcherGoes(WorkerAcquire(q) \/ WorkerCancelled(q)))
       /\ WF_vars(DispatcherGoes(WorkerRecover(q) \/ FailDropped(q) \/ WorkerEmpty(q)
                                 \/ WorkerPop(q) \/ WorkerRelease(q) \/ WorkerDone(q)))
       /\ WF_vars(DispatcherGoes(WorkerRan(q)))
       /\ WF_vars(DispatcherGoes(DropRun(q) \/ DropDone(q)))
  /\ \A k \in Closers :
       /\ WF_vars(DispatcherGoes(CloseBarrier(k)))
       /\ WF_vars(DispatcherGoes(ForceCancel(k) \/ DrainReturn(k)))
  /\ \A s \in Starts : WF_managerVars(ManagerGoes(startPc[s] # "idle" /\ Start(s)))
  /\ \A k \in Stops :
       /\ WF_managerVars(ManagerGoes(StopWait(k) \/ StopComponent(k) \/ StopFinish(k)))
       /\ WF_managerVars(ManagerGoes(StopWoken(k)))
  /\ \A r \in Comps \X (1..Cardinality(Starts)) :
       WF_managerVars(ManagerGoes(r[2] \in cancelledRuns /\ RunExit(r)))
  /\ ScopeFairness

FairHostSpec == HostSpec /\ HostFairness
=============================================================================

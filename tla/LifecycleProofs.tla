--------------------------- MODULE LifecycleProofs ---------------------------
(***************************************************************************)
(* Proofs about the lifecycle manager, for any number of components and of *)
(* calls of Start and Stop.                                                *)
(*                                                                         *)
(* What the mutex of the manager protects is its state; everything else    *)
(* happens outside of it.  The proofs rest on the state being used as a    *)
(* lock: Starting belongs to the one Start between its two critical        *)
(* sections, Stopping to the one Stop that is closing (OwnerInv).  The     *)
(* owner alone changes which components are initialised, and how far it    *)
(* has come in its snapshot says exactly which they are (InitInv).         *)
(***************************************************************************)
EXTENDS Lifecycle, FiniteSetTheorems, TLAPS

NoRepeat(q) == \A i, j \in DOMAIN q : q[i] = q[j] => i = j

\* The first n components of a snapshot.
FirstOf(q, n) == {q[i] : i \in 1..n}

\* The type invariant without the bound on gen, with si and ti as functions.
ShapeInv ==
  /\ state \in States
  /\ components \in Seq(Comps)
  /\ started \in Seq(Comps)
  /\ gen \in Nat
  /\ cancelledRuns \subseteq 1..gen
  /\ status \in [Comps -> {"absent", "running", "exited"}]
  /\ runs \subseteq Comps \X (1..gen)
  /\ startPc \in [Starts -> Opening \cup Launching \cup {"idle", "started", "failed", "refused"}]
  /\ scomps \in [Starts -> Seq(Comps)]
  /\ si \in [Starts -> Nat]
  /\ sgen \in [Starts -> 0..gen]
  /\ tpc \in [Stops -> Closing \cup {"idle", "ignored", "returned"}]
  /\ tcomps \in [Stops -> Seq(Comps)]
  /\ ti \in [Stops -> Nat]
  /\ timedOut \in [Stops -> BOOLEAN]
  /\ waiter \in [Stops -> {"none", "blocked", "woken"}]
  /\ clean \in [Stops -> BOOLEAN]
  /\ inited \subseteq Comps
  /\ panicked \in BOOLEAN

\* How far a call has come in its snapshot; a Start that has not published has no
\* runtime context, one that launches has, and so has a manager that runs.
LoopInv ==
  /\ state = "Running" => gen # 0
  /\ \A s \in Starts :
       /\ si[s] <= Len(scomps[s])
       /\ startPc[s] \in {"idle", "status"} => si[s] = 0
       /\ startPc[s] \in Launching => sgen[s] # 0
       /\ startPc[s] \in Opening \cup {"idle"} => sgen[s] = 0
  /\ \A k \in Stops : ti[k] <= Len(tcomps[k])

\* One runtime context for each Start that has published.
GenInv == gen = Cardinality({s \in Starts : sgen[s] # 0})

\* No list of components names one twice.
RepeatInv ==
  /\ NoRepeat(components)
  /\ NoRepeat(started)
  /\ \A s \in Starts : NoRepeat(scomps[s])
  /\ \A k \in Stops : NoRepeat(tcomps[k])

\* A transition of the manager has one owner.
OwnerInv ==
  /\ \A s \in Starts : startPc[s] \in Opening => state = "Starting"
  /\ \A s, u \in Starts : startPc[s] \in Opening /\ startPc[u] \in Opening => s = u
  /\ \A k \in Stops : tpc[k] \in Closing => state = "Stopping"
  /\ \A k, l \in Stops : tpc[k] \in Closing /\ tpc[l] \in Closing => k = l

\* Which components are initialised, in every state of the manager.
InitInv ==
  /\ Paired
  /\ \A s \in Starts : startPc[s] \in Opening => inited = FirstOf(scomps[s], si[s])
  /\ \A k \in Stops : tpc[k] \in Closing => inited = FirstOf(tcomps[k], ti[k])

\* The only runtime context that may not have been cancelled is that of the run.
ContextInv == \A g \in 1..gen : g \notin cancelledRuns => state = "Running" /\ g = gen

\* While a Stop that began clean is closing, no Start launches anything.
CleanInv ==
  /\ CleanStopAfterRun
  /\ \A k \in Stops, s \in Starts : tpc[k] \in Closing /\ clean[k] => startPc[s] \notin Launching

LifeInv ==
  /\ ShapeInv /\ LoopInv /\ GenInv /\ RepeatInv /\ OwnerInv /\ InitInv /\ ContextInv
  /\ CleanInv /\ StatusNotStale
-----------------------------------------------------------------------------
(* Snapshots *)

LEMMA FirstNone == ASSUME NEW q PROVE FirstOf(q, 0) = {}
BY DEF FirstOf

LEMMA FirstAll == ASSUME NEW q \in Seq(Comps) PROVE FirstOf(q, Len(q)) = Elems(q)
BY DEF FirstOf, Elems

LEMMA FirstMore ==
  ASSUME NEW q \in Seq(Comps), NEW n \in Nat, n < Len(q)
  PROVE  FirstOf(q, n + 1) = FirstOf(q, n) \cup {q[n + 1]}
<1>1. 1..(n + 1) = (1..n) \cup {n + 1}
  OBVIOUS
<1> QED BY <1>1 DEF FirstOf

LEMMA FirstLess ==
  ASSUME NEW q \in Seq(Comps), NoRepeat(q), NEW n \in Nat, 0 < n, n <= Len(q)
  PROVE  FirstOf(q, n - 1) = FirstOf(q, n) \ {q[n]}
<1>1. 1..n = (1..(n - 1)) \cup {n}
  OBVIOUS
<1>2. ASSUME NEW i \in 1..(n - 1) PROVE q[i] # q[n]
  <2>1. i \in DOMAIN q /\ n \in DOMAIN q /\ i # n
    OBVIOUS
  <2> QED BY <2>1 DEF NoRepeat
<1> QED BY <1>1, <1>2 DEF FirstOf

LEMMA AppendKeeps ==
  ASSUME NEW q \in Seq(Comps), NEW c \in Comps, NoRepeat(q), c \notin Elems(q)
  PROVE  NoRepeat(Append(q, c))
<1> DEFINE p == Append(q, c)
<1>1. /\ DOMAIN p = 1..(Len(q) + 1)
      /\ \A i \in 1..Len(q) : p[i] = q[i] /\ q[i] # c
      /\ p[Len(q) + 1] = c
  BY DEF Elems
<1>2. ASSUME NEW i \in DOMAIN p, NEW j \in DOMAIN p, p[i] = p[j] PROVE i = j
  <2>1. CASE i \in 1..Len(q) /\ j \in 1..Len(q)
    BY <1>1, <1>2, <2>1 DEF NoRepeat
  <2>2. CASE ~(i \in 1..Len(q) /\ j \in 1..Len(q))
    BY <1>1, <1>2, <2>2
  <2> QED BY <2>1, <2>2
<1> QED BY <1>2 DEF NoRepeat
-----------------------------------------------------------------------------
(* Shape *)

LEMMA LifeBegins == ManagerInit => LifeInv
<1> SUFFICES ASSUME ManagerInit PROVE LifeInv
  OBVIOUS
<1>1. ShapeInv
  <2>1. <<>> \in Seq(Comps) /\ 0 \in 0..0
    OBVIOUS
  <2>2. /\ scomps \in [Starts -> Seq(Comps)] /\ tcomps \in [Stops -> Seq(Comps)]
        /\ components \in Seq(Comps) /\ started \in Seq(Comps)
        /\ sgen \in [Starts -> 0..gen] /\ si \in [Starts -> Nat] /\ ti \in [Stops -> Nat]
    BY <2>1 DEF ManagerInit
  <2>3. /\ status \in [Comps -> {"absent", "running", "exited"}]
        /\ startPc \in [Starts -> {"idle"}]
        /\ tpc \in [Stops -> {"idle"}]
        /\ waiter \in [Stops -> {"none"}]
        /\ timedOut \in [Stops -> BOOLEAN] /\ clean \in [Stops -> BOOLEAN]
    BY DEF ManagerInit
  <2>4. state \in States /\ gen \in Nat /\ cancelledRuns = {} /\ runs = {} /\ inited = {}
        /\ panicked \in BOOLEAN
    BY DEF ManagerInit, States
  <2> QED BY <2>2, <2>3, <2>4 DEF ShapeInv
<1>4. LoopInv /\ RepeatInv /\ OwnerInv
  BY DEF ManagerInit, LoopInv, RepeatInv, OwnerInv, NoRepeat, Opening, Closing, Launching
<1>2. GenInv
  <2>1. {s \in Starts : sgen[s] # 0} = {}
    BY DEF ManagerInit
  <2> QED BY <2>1, FS_EmptySet DEF ManagerInit, GenInv
<1>3. InitInv /\ ContextInv /\ CleanInv /\ StatusNotStale
  BY DEF ManagerInit, InitInv, Paired, ContextInv, CleanInv, CleanStopAfterRun,
         StatusNotStale, Elems, Opening, Closing, Launching
<1> QED BY <1>1, <1>2, <1>3, <1>4 DEF LifeInv

LEMMA ShapeStep ==
  ASSUME ShapeInv, LoopInv, ManagerNext
  PROVE  ShapeInv'
<1> USE DEF ShapeInv, LoopInv, States, Opening, Closing, Launching, stateVars, runVars,
            startVars, stopVars
<1>1. ASSUME NEW c \in Comps, Register(c) PROVE ShapeInv'
  BY <1>1 DEF Register
<1>2. ASSUME NEW s \in Starts, StartCall(s) PROVE ShapeInv'
  <2>1. CASE CanStart
    <3>1. scomps' \in [Starts -> Seq(Comps)] /\ started' \in Seq(Comps)
      <4>1. scomps' = [scomps EXCEPT ![s] = components] /\ started' = <<>>
        BY <1>2, <2>1 DEF StartCall, CanStart
      <4> QED BY <4>1
    <3>2. startPc' \in [Starts -> Opening \cup Launching \cup {"idle", "started", "failed", "refused"}]
      <4>1. startPc' = [startPc EXCEPT ![s] = "starting"]
        BY <1>2, <2>1 DEF StartCall, CanStart
      <4> QED BY <4>1
    <3> QED BY <1>2, <2>1, <3>1, <3>2 DEF StartCall, CanStart
  <2>2. CASE ~CanStart
    BY <1>2, <2>2 DEF StartCall, CanStart
  <2> QED BY <2>1, <2>2
<1>3. ASSUME NEW s \in Starts, StartComponent(s) PROVE ShapeInv'
  <2>1. scomps[s][si[s] + 1] \in Comps
    BY <1>3 DEF StartComponent
  <2> QED BY <1>3, <2>1 DEF StartComponent
<1>4. ASSUME NEW s \in Starts, StartFails(s) PROVE ShapeInv'
  BY <1>4 DEF StartFails
<1>5. ASSUME NEW s \in Starts, Rollback(s) PROVE ShapeInv'
  <2>1. CASE si[s] > 0
    <3>1. si' \in [Starts -> Nat]
      <4>1. si' = [si EXCEPT ![s] = @ - 1] /\ si[s] - 1 \in Nat
        BY <1>5, <2>1 DEF Rollback
      <4> QED BY <4>1
    <3>2. inited' \subseteq Comps
      BY <1>5, <2>1 DEF Rollback
    <3> QED BY <1>5, <2>1, <3>1, <3>2 DEF Rollback
  <2>2. CASE ~(si[s] > 0)
    BY <1>5, <2>2 DEF Rollback
  <2> QED BY <2>1, <2>2
<1>6. ASSUME NEW s \in Starts, StartPublish(s) PROVE ShapeInv'
  <2>1. 1..gen \subseteq 1..gen' /\ gen' \in Nat /\ 0..gen \subseteq 0..gen'
    BY <1>6 DEF StartPublish
  <2>2. cancelledRuns' \subseteq 1..gen' /\ runs' \subseteq Comps \X (1..gen')
    BY <1>6, <2>1 DEF StartPublish
  <2>3. sgen' \in [Starts -> 0..gen']
    BY <1>6, <2>1 DEF StartPublish
  <2> QED BY <1>6, <2>1, <2>2, <2>3 DEF StartPublish
<1>7. ASSUME NEW s \in Starts, StartStatus(s) PROVE ShapeInv'
  BY <1>7 DEF StartStatus
<1>8. ASSUME NEW s \in Starts, StartLaunch(s) PROVE ShapeInv'
  <2>1. scomps[s][si[s] + 1] \in Comps /\ sgen[s] \in 1..gen
    BY <1>8 DEF StartLaunch
  <2> QED BY <1>8, <2>1 DEF StartLaunch
<1>9. ASSUME NEW s \in Starts, StartReturn(s) PROVE ShapeInv'
  BY <1>9 DEF StartReturn
<1>10. ASSUME NEW r, RunExit(r) PROVE ShapeInv'
  <2>1. waiter' \in [Stops -> {"none", "blocked", "woken"}]
    BY <1>10 DEF RunExit, Released
  <2> QED BY <1>10, <2>1 DEF RunExit
<1>11. ASSUME NEW k \in Stops, StopCall(k) PROVE ShapeInv'
  <2>1. CASE state = "Running"
    <3>1. gen \in 1..gen /\ gen' = gen /\ cancelledRuns' = cancelledRuns \cup {gen}
      BY <1>11, <2>1 DEF StopCall, CancelRun
    <3>2. cancelledRuns' \subseteq 1..gen'
      BY <3>1
    <3>3. /\ tcomps' \in [Stops -> Seq(Comps)] /\ ti' \in [Stops -> Nat]
          /\ clean' \in [Stops -> BOOLEAN]
      <4>1. /\ tcomps' = [tcomps EXCEPT ![k] = started]
            /\ ti' = [ti EXCEPT ![k] = Len(started)]
            /\ clean' = [clean EXCEPT ![k] = \A s \in Starts : startPc[s] \notin Launching]
        BY <1>11, <2>1 DEF StopCall
      <4>2. Len(started) \in Nat
        OBVIOUS
      <4> QED BY <4>1, <4>2
    <3>4. /\ tpc' \in [Stops -> Closing \cup {"idle", "ignored", "returned"}]
          /\ state' \in States
      BY <1>11, <2>1 DEF StopCall
    <3>5. UNCHANGED <<components, started, gen, runVars, startVars, timedOut, waiter, inited,
                      panicked>>
      BY <1>11 DEF StopCall
    <3> QED BY <3>2, <3>3, <3>4, <3>5
  <2>2. CASE state # "Running"
    BY <1>11, <2>2 DEF StopCall
  <2> QED BY <2>1, <2>2
<1>12. ASSUME NEW k \in Stops, StopWait(k) PROVE ShapeInv'
  BY <1>12 DEF StopWait
<1>13. ASSUME NEW k \in Stops, StopWoken(k) PROVE ShapeInv'
  BY <1>13 DEF StopWoken
<1>14. ASSUME NEW k \in Stops, StopTimeout(k) PROVE ShapeInv'
  BY <1>14 DEF StopTimeout
<1>15. ASSUME NEW k \in Stops, StopComponent(k) PROVE ShapeInv'
  BY <1>15 DEF StopComponent
<1>16. ASSUME NEW k \in Stops, StopFinish(k) PROVE ShapeInv'
  BY <1>16 DEF StopFinish
<1> QED BY <1>1, <1>2, <1>3, <1>4, <1>5, <1>6, <1>7, <1>8, <1>9, <1>10, <1>11, <1>12, <1>13,
           <1>14, <1>15, <1>16 DEF ManagerNext, Start, Stop
-----------------------------------------------------------------------------
(* Loops, contexts, snapshots *)

LEMMA LoopStep ==
  ASSUME ShapeInv, LoopInv, ManagerNext
  PROVE  LoopInv'
<1> USE DEF ShapeInv, LoopInv, Opening, Launching, stateVars, runVars, startVars, stopVars
<1>1. ASSUME NEW c \in Comps, Register(c) PROVE LoopInv'
  BY <1>1 DEF Register
<1>2. ASSUME NEW s \in Starts, StartCall(s) PROVE LoopInv'
  <2>1. CASE CanStart
    BY <1>2, <2>1 DEF StartCall, CanStart
  <2>2. CASE ~CanStart
    BY <1>2, <2>2 DEF StartCall, CanStart
  <2> QED BY <2>1, <2>2
<1>3. ASSUME NEW s \in Starts, StartComponent(s) PROVE LoopInv'
  BY <1>3 DEF StartComponent
<1>4. ASSUME NEW s \in Starts, StartFails(s) PROVE LoopInv'
  BY <1>4 DEF StartFails
<1>5. ASSUME NEW s \in Starts, Rollback(s) PROVE LoopInv'
  <2>1. CASE si[s] > 0
    <3>1. si' = [si EXCEPT ![s] = si[s] - 1]
      BY <1>5, <2>1 DEF Rollback
    <3>2. UNCHANGED <<state, gen, sgen, startPc, scomps, ti, tcomps>>
      BY <1>5, <2>1 DEF Rollback
    <3> QED BY <1>5, <2>1, <3>1, <3>2 DEF Rollback
  <2>2. CASE ~(si[s] > 0)
    BY <1>5, <2>2 DEF Rollback
  <2> QED BY <2>1, <2>2
<1>6. ASSUME NEW s \in Starts, StartPublish(s) PROVE LoopInv'
  BY <1>6 DEF StartPublish
<1>7. ASSUME NEW s \in Starts, StartStatus(s) \/ StartLaunch(s) \/ StartReturn(s) PROVE LoopInv'
  <2>1. CASE StartStatus(s)
    BY <2>1 DEF StartStatus
  <2>2. CASE StartLaunch(s)
    BY <2>2 DEF StartLaunch
  <2>3. CASE StartReturn(s)
    BY <2>3 DEF StartReturn
  <2> QED BY <1>7, <2>1, <2>2, <2>3
<1>8. ASSUME NEW r, RunExit(r) PROVE LoopInv'
  BY <1>8 DEF RunExit
<1>9. ASSUME NEW k \in Stops, StopCall(k) PROVE LoopInv'
  <2>1. CASE state = "Running"
    <3>1. /\ tcomps' = [tcomps EXCEPT ![k] = started]
          /\ ti' = [ti EXCEPT ![k] = Len(started)]
          /\ state' = "Stopping"
      BY <1>9, <2>1 DEF StopCall
    <3> QED BY <1>9, <3>1 DEF StopCall
  <2>2. CASE state # "Running"
    BY <1>9, <2>2 DEF StopCall
  <2> QED BY <2>1, <2>2
<1>10. ASSUME NEW k \in Stops, StopWait(k) \/ StopWoken(k) \/ StopTimeout(k) PROVE LoopInv'
  BY <1>10 DEF StopWait, StopWoken, StopTimeout
<1>11. ASSUME NEW k \in Stops, StopComponent(k) \/ StopFinish(k) PROVE LoopInv'
  <2>1. CASE StopComponent(k)
    <3>1. ti' = [ti EXCEPT ![k] = ti[k] - 1]
      BY <2>1 DEF StopComponent
    <3> QED BY <2>1, <3>1 DEF StopComponent
  <2>2. CASE StopFinish(k)
    BY <2>2 DEF StopFinish
  <2> QED BY <1>11, <2>1, <2>2
<1> QED BY <1>1, <1>2, <1>3, <1>4, <1>5, <1>6, <1>7, <1>8, <1>9, <1>10, <1>11
        DEF ManagerNext, Start, Stop

LEMMA GenStep ==
  ASSUME ShapeInv, LoopInv, GenInv, ManagerNext
  PROVE  GenInv'
<1> USE DEF stateVars, runVars, startVars, stopVars
<1>1. CASE UNCHANGED <<gen, sgen>>
  BY <1>1 DEF GenInv
<1>2. ASSUME NEW s \in Starts, StartPublish(s) PROVE GenInv'
  <2> DEFINE published == {u \in Starts : sgen[u] # 0}
  <2>1. s \notin published
    BY <1>2 DEF StartPublish, LoopInv, Opening
  <2>2. published' = published \cup {s}
    BY <1>2 DEF StartPublish, ShapeInv
  <2>3. IsFiniteSet(published)
    BY ManagerAssumption, FS_Subset
  <2>4. Cardinality(published \cup {s}) = Cardinality(published) + 1
    BY <2>1, <2>3, FS_AddElement
  <2>5. gen' = gen + 1
    BY <1>2 DEF StartPublish
  <2> QED BY <2>2, <2>4, <2>5 DEF GenInv
<1>3. ASSUME NEW s \in Starts, Start(s), ~StartPublish(s) PROVE UNCHANGED <<gen, sgen>>
  BY <1>3 DEF Start, StartCall, StartComponent, StartFails, Rollback, StartStatus, StartLaunch,
              StartReturn
<1>4. ASSUME NEW c \in Comps, Register(c) PROVE UNCHANGED <<gen, sgen>>
  BY <1>4 DEF Register
<1>5. ASSUME NEW r, RunExit(r) PROVE UNCHANGED <<gen, sgen>>
  BY <1>5 DEF RunExit
<1>6. ASSUME NEW k \in Stops, Stop(k) PROVE UNCHANGED <<gen, sgen>>
  BY <1>6 DEF Stop, StopCall, StopWait, StopWoken, StopTimeout, StopComponent, StopFinish
<1> QED BY <1>1, <1>2, <1>3, <1>4, <1>5, <1>6 DEF ManagerNext

LEMMA RepeatStep ==
  ASSUME ShapeInv, RepeatInv, ManagerNext
  PROVE  RepeatInv'
<1> USE DEF stateVars, runVars, startVars, stopVars
<1>1. CASE UNCHANGED <<components, started, scomps, tcomps>>
  BY <1>1 DEF RepeatInv
<1>2. ASSUME NEW c \in Comps, Register(c) PROVE RepeatInv'
  <2>1. NoRepeat(components')
    BY <1>2, AppendKeeps DEF Register, RepeatInv, ShapeInv
  <2> QED BY <1>2, <2>1 DEF Register, RepeatInv
<1>3. ASSUME NEW s \in Starts, StartCall(s) PROVE RepeatInv'
  <2>1. CASE CanStart
    <3>1. scomps' = [scomps EXCEPT ![s] = components] /\ started' = <<>>
      BY <1>3, <2>1 DEF StartCall, CanStart
    <3>2. NoRepeat(started')
      BY <3>1 DEF NoRepeat
    <3>3. \A u \in Starts : scomps'[u] = IF u = s THEN components ELSE scomps[u]
      BY <3>1 DEF ShapeInv
    <3> QED BY <1>3, <3>2, <3>3 DEF StartCall, RepeatInv
  <2>2. CASE ~CanStart
    BY <1>1, <1>3, <2>2 DEF StartCall, CanStart
  <2> QED BY <2>1, <2>2
<1>4. ASSUME NEW s \in Starts, StartPublish(s) PROVE RepeatInv'
  BY <1>4 DEF StartPublish, RepeatInv
<1>5. ASSUME NEW s \in Starts, Start(s), ~StartCall(s), ~StartPublish(s)
      PROVE  UNCHANGED <<components, started, scomps, tcomps>>
  BY <1>5 DEF Start, StartComponent, StartFails, Rollback, StartStatus, StartLaunch, StartReturn
<1>6. ASSUME NEW r, RunExit(r) PROVE UNCHANGED <<components, started, scomps, tcomps>>
  BY <1>6 DEF RunExit
<1>7. ASSUME NEW k \in Stops, StopCall(k) PROVE RepeatInv'
  <2>1. \A l \in Stops : tcomps'[l] = tcomps[l] \/ tcomps'[l] = started
    BY <1>7 DEF StopCall, ShapeInv
  <2> QED BY <1>7, <2>1 DEF StopCall, RepeatInv
<1>8. ASSUME NEW k \in Stops, Stop(k), ~StopCall(k)
      PROVE  UNCHANGED <<components, started, scomps, tcomps>>
  BY <1>8 DEF Stop, StopWait, StopWoken, StopTimeout, StopComponent, StopFinish
<1> QED BY <1>1, <1>2, <1>3, <1>4, <1>5, <1>6, <1>7, <1>8 DEF ManagerNext
-----------------------------------------------------------------------------
(* The owner of a transition *)

LEMMA OwnerStep ==
  ASSUME ShapeInv, OwnerInv, ManagerNext
  PROVE  OwnerInv'
<1> USE DEF ShapeInv, OwnerInv, Opening, Closing, Launching, stateVars, runVars, startVars,
            stopVars
<1>1. CASE UNCHANGED <<state, startPc, tpc>>
  BY <1>1
<1>2. ASSUME NEW s \in Starts, StartCall(s) PROVE OwnerInv'
  <2>1. CASE CanStart
    BY <1>2, <2>1 DEF StartCall, CanStart
  <2>2. CASE ~CanStart
    BY <1>2, <2>2 DEF StartCall, CanStart
  <2> QED BY <2>1, <2>2
<1>3. ASSUME NEW s \in Starts, StartFails(s) PROVE OwnerInv'
  BY <1>3 DEF StartFails
<1>4. ASSUME NEW s \in Starts, Rollback(s) PROVE OwnerInv'
  BY <1>4 DEF Rollback
<1>5. ASSUME NEW s \in Starts, StartPublish(s) PROVE OwnerInv'
  BY <1>5 DEF StartPublish
<1>6. ASSUME NEW s \in Starts, StartStatus(s) \/ StartReturn(s) PROVE OwnerInv'
  <2>1. UNCHANGED <<state, tpc>>
    BY <1>6 DEF StartStatus, StartReturn
  <2>2. \A u \in Starts : startPc'[u] \in Opening => startPc[u] \in Opening
    BY <1>6 DEF StartStatus, StartReturn
  <2> QED BY <2>1, <2>2
<1>7. ASSUME NEW s \in Starts, StartComponent(s) \/ StartLaunch(s)
      PROVE  UNCHANGED <<state, startPc, tpc>>
  BY <1>7 DEF StartComponent, StartLaunch
<1>8. ASSUME NEW c \in Comps, Register(c) PROVE UNCHANGED <<state, startPc, tpc>>
  BY <1>8 DEF Register
<1>9. ASSUME NEW r, RunExit(r) PROVE UNCHANGED <<state, startPc, tpc>>
  BY <1>9 DEF RunExit
<1>10. ASSUME NEW k \in Stops, StopCall(k) PROVE OwnerInv'
  <2>1. CASE state = "Running"
    BY <1>10, <2>1 DEF StopCall
  <2>2. CASE state # "Running"
    BY <1>10, <2>2 DEF StopCall
  <2> QED BY <2>1, <2>2
<1>11. ASSUME NEW k \in Stops, StopWait(k) PROVE OwnerInv'
  BY <1>11 DEF StopWait
<1>12. ASSUME NEW k \in Stops, StopWoken(k) \/ StopTimeout(k) PROVE OwnerInv'
  BY <1>12 DEF StopWoken, StopTimeout
<1>13. ASSUME NEW k \in Stops, StopFinish(k) PROVE OwnerInv'
  BY <1>13 DEF StopFinish
<1>14. ASSUME NEW k \in Stops, StopComponent(k) PROVE UNCHANGED <<state, startPc, tpc>>
  BY <1>14 DEF StopComponent
<1> QED BY <1>1, <1>2, <1>3, <1>4, <1>5, <1>6, <1>7, <1>8, <1>9, <1>10, <1>11, <1>12, <1>13,
           <1>14 DEF ManagerNext, Start, Stop
-----------------------------------------------------------------------------
(* The components that are initialised *)

LEMMA InitStep ==
  ASSUME ShapeInv, LoopInv, RepeatInv, OwnerInv, InitInv, ManagerNext
  PROVE  InitInv'
<1> USE DEF stateVars, runVars, startVars, stopVars
<1> USE DEF ShapeInv, OwnerInv, InitInv, Paired, Opening, Closing, Launching
<1>1. CASE UNCHANGED <<state, started, startPc, scomps, si, tpc, tcomps, ti, inited>>
  BY <1>1
<1>2. ASSUME NEW s \in Starts, StartCall(s) PROVE InitInv'
  <2>1. CASE CanStart
    <3>1. inited = {} /\ inited' = {}
      BY <1>2, <2>1 DEF StartCall, CanStart
    <3>2. si'[s] = 0 /\ FirstOf(scomps'[s], si'[s]) = {}
      BY <1>2, FirstNone DEF StartCall, LoopInv
    <3>3. \A u \in Starts : startPc'[u] \in Opening => u = s
      BY <1>2, <2>1 DEF StartCall, CanStart
    <3>4. \A k \in Stops : tpc'[k] \notin Closing
      BY <1>2, <2>1 DEF StartCall, CanStart
    <3>5. state' = "Starting"
      BY <1>2, <2>1 DEF StartCall, CanStart
    <3> QED BY <3>1, <3>2, <3>3, <3>4, <3>5
  <2>2. CASE ~CanStart
    BY <1>2, <2>2 DEF StartCall, CanStart
  <2> QED BY <2>1, <2>2
<1>3. ASSUME NEW s \in Starts, StartComponent(s) PROVE InitInv'
  <2>1. inited' = FirstOf(scomps[s], si[s] + 1)
    BY <1>3, FirstMore DEF StartComponent
  <2>2. scomps' = scomps /\ si'[s] = si[s] + 1
    BY <1>3 DEF StartComponent
  <2>3. \A u \in Starts : startPc'[u] \in Opening => u = s
    BY <1>3 DEF StartComponent
  <2>4. state' = "Starting" /\ \A k \in Stops : tpc'[k] \notin Closing
    BY <1>3 DEF StartComponent
  <2> QED BY <2>1, <2>2, <2>3, <2>4
<1>4. ASSUME NEW s \in Starts, StartFails(s) PROVE InitInv'
  BY <1>4 DEF StartFails
<1>5. ASSUME NEW s \in Starts, Rollback(s) PROVE InitInv'
  <2>1. CASE si[s] > 0
    <3>1. inited' = FirstOf(scomps[s], si[s] - 1)
      <4>1. inited = FirstOf(scomps[s], si[s]) /\ inited' = inited \ {scomps[s][si[s]]}
        BY <1>5, <2>1 DEF Rollback
      <4>2. scomps[s] \in Seq(Comps) /\ NoRepeat(scomps[s]) /\ si[s] \in Nat /\ si[s] <= Len(scomps[s])
        BY DEF LoopInv, RepeatInv
      <4>3. 0 < si[s]
        BY <2>1
      <4> QED BY ONLY <4>1, <4>2, <4>3, FirstLess
    <3>2. scomps' = scomps /\ si'[s] = si[s] - 1
      BY <1>5, <2>1 DEF Rollback
    <3>3. \A u \in Starts : startPc'[u] \in Opening => u = s
      BY <1>5, <2>1 DEF Rollback
    <3>4. state' = "Starting" /\ \A k \in Stops : tpc'[k] \notin Closing
      BY <1>5, <2>1 DEF Rollback
    <3> QED BY <3>1, <3>2, <3>3, <3>4
  <2>2. CASE ~(si[s] > 0)
    <3>1. si[s] = 0 /\ inited = {} /\ inited' = {}
      BY <1>5, <2>2, FirstNone DEF Rollback
    <3>2. \A u \in Starts : startPc'[u] \notin Opening
      BY <1>5, <2>2 DEF Rollback
    <3>3. state' = "Created" /\ \A k \in Stops : tpc'[k] \notin Closing
      BY <1>5, <2>2 DEF Rollback
    <3> QED BY <3>1, <3>2, <3>3
  <2> QED BY <2>1, <2>2
<1>6. ASSUME NEW s \in Starts, StartPublish(s) PROVE InitInv'
  <2>1. inited' = Elems(started')
    BY <1>6, FirstAll DEF StartPublish
  <2>2. \A u \in Starts : startPc'[u] \notin Opening
    BY <1>6 DEF StartPublish
  <2>3. state' = "Running" /\ \A k \in Stops : tpc'[k] \notin Closing
    BY <1>6 DEF StartPublish
  <2> QED BY <2>1, <2>2, <2>3
<1>7. ASSUME NEW s \in Starts, StartStatus(s) \/ StartLaunch(s) \/ StartReturn(s) PROVE InitInv'
  <2>1. UNCHANGED <<state, started, tpc, tcomps, ti, inited, scomps>>
    BY <1>7 DEF StartStatus, StartLaunch, StartReturn
  <2>2. \A u \in Starts : startPc'[u] \in Opening => u # s /\ startPc'[u] = startPc[u] /\ si'[u] = si[u]
    BY <1>7 DEF StartStatus, StartLaunch, StartReturn
  <2> QED BY <2>1, <2>2
<1>8. ASSUME NEW c \in Comps, Register(c) PROVE InitInv'
  BY <1>1, <1>8 DEF Register
<1>9. ASSUME NEW r, RunExit(r) PROVE InitInv'
  BY <1>1, <1>9 DEF RunExit
<1>10. ASSUME NEW k \in Stops, StopCall(k) PROVE InitInv'
  <2>1. CASE state = "Running"
    <3>1. tcomps' = [tcomps EXCEPT ![k] = started] /\ ti' = [ti EXCEPT ![k] = Len(started)]
      BY <1>10, <2>1 DEF StopCall
    <3>2. inited' = FirstOf(tcomps'[k], ti'[k])
      BY <1>10, <2>1, <3>1, FirstAll DEF StopCall
    <3>3. \A l \in Stops : tpc'[l] \in Closing => l = k
      BY <1>10, <2>1 DEF StopCall
    <3>4. state' = "Stopping" /\ \A u \in Starts : startPc'[u] \notin Opening
      BY <1>10, <2>1 DEF StopCall
    <3> QED BY <3>2, <3>3, <3>4
  <2>2. CASE state # "Running"
    BY <1>10, <2>2 DEF StopCall
  <2> QED BY <2>1, <2>2
<1>11. ASSUME NEW k \in Stops, StopWait(k) \/ StopWoken(k) \/ StopTimeout(k) PROVE InitInv'
  <2>1. UNCHANGED <<state, started, startPc, scomps, si, tcomps, ti, inited>>
    BY <1>11 DEF StopWait, StopWoken, StopTimeout
  <2>2. \A l \in Stops : tpc'[l] \in Closing => tpc[l] \in Closing
    BY <1>11 DEF StopWait, StopWoken, StopTimeout
  <2> QED BY <2>1, <2>2
<1>12. ASSUME NEW k \in Stops, StopComponent(k) PROVE InitInv'
  <2>1. inited' = FirstOf(tcomps[k], ti[k] - 1)
    <3>1. inited = FirstOf(tcomps[k], ti[k]) /\ inited' = inited \ {tcomps[k][ti[k]]}
      BY <1>12 DEF StopComponent
    <3>2. tcomps[k] \in Seq(Comps) /\ NoRepeat(tcomps[k]) /\ ti[k] \in Nat /\ ti[k] <= Len(tcomps[k])
      BY DEF LoopInv, RepeatInv
    <3>3. 0 < ti[k]
      BY <1>12 DEF StopComponent
    <3> QED BY ONLY <3>1, <3>2, <3>3, FirstLess
  <2>2. tcomps' = tcomps /\ ti'[k] = ti[k] - 1
    BY <1>12 DEF StopComponent
  <2>3. \A l \in Stops : tpc'[l] \in Closing => l = k
    BY <1>12 DEF StopComponent
  <2>4. state' = "Stopping" /\ \A u \in Starts : startPc'[u] \notin Opening
    BY <1>12 DEF StopComponent
  <2> QED BY <2>1, <2>2, <2>3, <2>4
<1>13. ASSUME NEW k \in Stops, StopFinish(k) PROVE InitInv'
  <2>1. inited = {} /\ inited' = {}
    BY <1>13, FirstNone DEF StopFinish
  <2>2. \A l \in Stops : tpc'[l] \notin Closing
    BY <1>13 DEF StopFinish
  <2>3. state' = "Stopped" /\ \A u \in Starts : startPc'[u] \notin Opening
    BY <1>13 DEF StopFinish
  <2> QED BY <2>1, <2>2, <2>3
<1> QED BY <1>2, <1>3, <1>4, <1>5, <1>6, <1>7, <1>8, <1>9, <1>10, <1>11, <1>12, <1>13
        DEF ManagerNext, Start, Stop
-----------------------------------------------------------------------------
(* Runtime contexts *)

LEMMA ContextStep ==
  ASSUME ShapeInv, OwnerInv, ContextInv, ManagerNext
  PROVE  ContextInv'
<1> USE DEF stateVars, runVars, startVars, stopVars
<1> USE DEF ShapeInv, ContextInv, Opening, Closing
<1>1. CASE UNCHANGED <<state, gen, cancelledRuns>>
  BY <1>1
<1>2. ASSUME NEW s \in Starts, StartCall(s) PROVE ContextInv'
  BY <1>2 DEF StartCall, CanStart
<1>3. ASSUME NEW s \in Starts, Rollback(s) PROVE ContextInv'
  <2>1. state = "Starting"
    BY <1>3 DEF Rollback, OwnerInv
  <2> QED BY <1>3, <2>1 DEF Rollback
<1>4. ASSUME NEW s \in Starts, StartPublish(s) PROVE ContextInv'
  <2>1. state = "Starting" /\ state' = "Running" /\ gen' = gen + 1 /\ cancelledRuns' = cancelledRuns
    BY <1>4 DEF StartPublish, OwnerInv
  <2>2. \A g \in 1..gen : g \in cancelledRuns
    BY <2>1
  <2> QED BY <2>1, <2>2
<1>5. ASSUME NEW s \in Starts, Start(s), ~StartCall(s), ~Rollback(s), ~StartPublish(s)
      PROVE  UNCHANGED <<state, gen, cancelledRuns>>
  BY <1>5 DEF Start, StartComponent, StartFails, StartStatus, StartLaunch, StartReturn
<1>6. ASSUME NEW c \in Comps, Register(c) PROVE UNCHANGED <<state, gen, cancelledRuns>>
  BY <1>6 DEF Register
<1>7. ASSUME NEW r, RunExit(r) PROVE UNCHANGED <<state, gen, cancelledRuns>>
  BY <1>7 DEF RunExit
<1>8. ASSUME NEW k \in Stops, StopCall(k) PROVE ContextInv'
  <2>1. CASE state = "Running"
    <3>1. cancelledRuns' = cancelledRuns \cup {gen} /\ gen' = gen
      BY <1>8, <2>1 DEF StopCall, CancelRun
    <3> QED BY <3>1
  <2>2. CASE state # "Running"
    BY <1>8, <2>2 DEF StopCall
  <2> QED BY <2>1, <2>2
<1>9. ASSUME NEW k \in Stops, StopFinish(k) PROVE ContextInv'
  <2>1. state = "Stopping"
    BY <1>9 DEF StopFinish, OwnerInv
  <2> QED BY <1>9, <2>1 DEF StopFinish
<1>10. ASSUME NEW k \in Stops, Stop(k), ~StopCall(k), ~StopFinish(k)
       PROVE  UNCHANGED <<state, gen, cancelledRuns>>
  BY <1>10 DEF Stop, StopWait, StopWoken, StopTimeout, StopComponent
<1> QED BY <1>1, <1>2, <1>3, <1>4, <1>5, <1>6, <1>7, <1>8, <1>9, <1>10 DEF ManagerNext

\* A goroutine of OnRun holds a runtime context, and all but one are cancelled.
LEMMA RunsOwned == ShapeInv /\ ContextInv => OldRunsCancelled
BY DEF ShapeInv, ContextInv, OldRunsCancelled
-----------------------------------------------------------------------------
(* What a Stop that began clean finds *)

LEMMA CleanStep ==
  ASSUME ShapeInv, OwnerInv, CleanInv, ManagerNext
  PROVE  CleanInv'
<1> USE DEF stateVars, runVars, startVars, stopVars
<1> USE DEF ShapeInv, CleanInv, CleanStopAfterRun, Opening, Closing, Launching
<1>1. CASE UNCHANGED <<startPc, tpc, timedOut, clean, runs>>
  BY <1>1
<1>2. ASSUME NEW s \in Starts, Start(s), ~StartPublish(s), ~StartLaunch(s) PROVE CleanInv'
  <2>1. UNCHANGED <<tpc, timedOut, clean, runs>>
    BY <1>2 DEF Start, StartCall, StartComponent, StartFails, Rollback, StartStatus, StartReturn
  <2>2. \A u \in Starts : startPc'[u] \in Launching => startPc[u] \in Launching
    BY <1>2 DEF Start, StartCall, StartComponent, StartFails, Rollback, StartStatus, StartReturn
  <2> QED BY <2>1, <2>2
<1>3. ASSUME NEW s \in Starts, StartPublish(s) PROVE CleanInv'
  <2>1. \A k \in Stops : tpc'[k] \notin Closing
    BY <1>3 DEF StartPublish, OwnerInv
  <2> QED BY <2>1
<1>4. ASSUME NEW s \in Starts, StartLaunch(s) PROVE CleanInv'
  <2>1. UNCHANGED <<startPc, tpc, timedOut, clean>> /\ startPc[s] \in Launching
    BY <1>4 DEF StartLaunch
  <2>2. \A k \in Stops : ~(tpc[k] \in Closing /\ clean[k])
    BY <2>1
  <2> QED BY <2>1, <2>2
<1>5. ASSUME NEW c \in Comps, Register(c) PROVE UNCHANGED <<startPc, tpc, timedOut, clean, runs>>
  BY <1>5 DEF Register
<1>6. ASSUME NEW r, RunExit(r) PROVE CleanInv'
  <2>1. runs' \subseteq runs /\ UNCHANGED <<startPc, tpc, timedOut, clean>>
    BY <1>6 DEF RunExit
  <2> QED BY <2>1
<1>7. ASSUME NEW k \in Stops, StopCall(k) PROVE CleanInv'
  <2>1. CASE state = "Running"
    <3>1. /\ tpc' = [tpc EXCEPT ![k] = "wait"]
          /\ clean' = [clean EXCEPT ![k] = \A s \in Starts : startPc[s] \notin Launching]
          /\ UNCHANGED <<startPc, timedOut, runs>>
      BY <1>7, <2>1 DEF StopCall
    <3> QED BY <3>1
  <2>2. CASE state # "Running"
    BY <1>7, <2>2 DEF StopCall
  <2> QED BY <2>1, <2>2
<1>8. ASSUME NEW k \in Stops, StopWait(k) PROVE CleanInv'
  BY <1>8 DEF StopWait, RunsOver
<1>9. ASSUME NEW k \in Stops, StopWoken(k) PROVE CleanInv'
  BY <1>9 DEF StopWoken
<1>10. ASSUME NEW k \in Stops, StopTimeout(k) PROVE CleanInv'
  BY <1>10 DEF StopTimeout
<1>11. ASSUME NEW k \in Stops, StopComponent(k) \/ StopFinish(k) PROVE CleanInv'
  <2>1. UNCHANGED <<startPc, timedOut, clean, runs>>
    BY <1>11 DEF StopComponent, StopFinish
  <2>2. \A l \in Stops : tpc'[l] = tpc[l] \/ tpc'[l] = "returned"
    BY <1>11 DEF StopComponent, StopFinish
  <2> QED BY <2>1, <2>2
<1> QED BY <1>1, <1>2, <1>3, <1>4, <1>5, <1>6, <1>7, <1>8, <1>9, <1>10, <1>11
        DEF ManagerNext, Stop
-----------------------------------------------------------------------------
(* The status that is reported *)

\* Start s has still to launch c.
ToLaunch(s, c) ==
  startPc[s] \in Launching /\ \E i \in DOMAIN scomps[s] : i > si[s] /\ scomps[s][i] = c

LEMMA StatusStep ==
  ASSUME ShapeInv, LoopInv, StatusNotStale, ManagerNext
  PROVE  StatusNotStale'
<1> USE DEF stateVars, runVars, startVars, stopVars
<1> USE DEF ShapeInv, ToLaunch, Launching
<1>0. StatusNotStale' <=>
        \A c \in Comps : status'[c] = "running" =>
          (\E r \in runs' : r[1] = c) \/ (\E s \in Starts : ToLaunch(s, c)')
  BY DEF StatusNotStale
<1>1. \A c \in Comps : status[c] = "running" =>
        (\E r \in runs : r[1] = c) \/ (\E s \in Starts : ToLaunch(s, c))
  BY DEF StatusNotStale
<1>2. CASE UNCHANGED <<status, runs, startPc, scomps, si>>
  BY <1>0, <1>1, <1>2
<1>3. ASSUME NEW s \in Starts,
             StartCall(s) \/ StartComponent(s) \/ StartFails(s) \/ Rollback(s)
               \/ StartPublish(s) \/ StartReturn(s)
      PROVE  StatusNotStale'
  <2>1. UNCHANGED <<status, runs>>
    BY <1>3 DEF StartCall, StartComponent, StartFails, Rollback, StartPublish, StartReturn
  <2>2. \A u \in Starts : u # s =>
          startPc'[u] = startPc[u] /\ scomps'[u] = scomps[u] /\ si'[u] = si[u]
    BY <1>3 DEF StartCall, StartComponent, StartFails, Rollback, StartPublish, StartReturn
  <2>3. startPc[s] \notin Launching \/ si[s] = Len(scomps[s])
    BY <1>3 DEF StartCall, StartComponent, StartFails, Rollback, StartPublish, StartReturn
  <2>4. \A c : ~ToLaunch(s, c)
    BY <2>3
  <2>5. \A u \in Starts, c \in Comps : ToLaunch(u, c) => ToLaunch(u, c)'
    BY <2>2, <2>4
  <2>6. ASSUME NEW c \in Comps, status'[c] = "running"
        PROVE  (\E r \in runs' : r[1] = c) \/ (\E u \in Starts : ToLaunch(u, c)')
    <3>1. (\E r \in runs : r[1] = c) \/ (\E u \in Starts : ToLaunch(u, c))
      BY ONLY <1>1, <2>1, <2>6
    <3> QED BY ONLY <2>1, <2>5, <3>1
  <2> QED BY ONLY <1>0, <2>6
<1>4. ASSUME NEW s \in Starts, StartStatus(s) PROVE StatusNotStale'
  <2>1. \A c \in Comps : status'[c] = "running" => c \in Elems(scomps[s])
    BY <1>4 DEF StartStatus
  <2>2. startPc'[s] \in Launching /\ scomps' = scomps /\ si'[s] = 0
    BY <1>4 DEF StartStatus, LoopInv
  <2>3. \A c \in Elems(scomps[s]) : ToLaunch(s, c)'
    BY <2>2 DEF Elems
  <2> QED BY <1>0, <2>1, <2>3
<1>5. ASSUME NEW s \in Starts, StartLaunch(s) PROVE StatusNotStale'
  <2> DEFINE new == <<scomps[s][si[s] + 1], sgen[s]>>
  <2>1. /\ runs' = runs \cup {new} /\ si' = [si EXCEPT ![s] = si[s] + 1]
        /\ UNCHANGED <<status, startPc, scomps>>
    BY <1>5 DEF StartLaunch
  <2>2. ASSUME NEW u \in Starts, NEW c \in Comps, ToLaunch(u, c), ~ToLaunch(u, c)'
        PROVE  c = new[1]
    <3>1. u = s
      BY <2>1, <2>2
    <3>2. PICK i \in DOMAIN scomps[s] : i > si[s] /\ scomps[s][i] = c
      BY <2>2, <3>1
    <3>3. ~(i > si[s] + 1)
      BY <2>1, <2>2, <3>1, <3>2
    <3>4. i = si[s] + 1
      BY <3>2, <3>3
    <3> QED BY <3>2, <3>4
  <2>3. \E r \in runs' : r[1] = new[1]
    BY <2>1
  <2>4. ASSUME NEW c \in Comps, status'[c] = "running"
        PROVE  (\E r \in runs' : r[1] = c) \/ (\E u \in Starts : ToLaunch(u, c)')
    <3>1. (\E r \in runs : r[1] = c) \/ (\E u \in Starts : ToLaunch(u, c))
      BY ONLY <1>1, <2>1, <2>4
    <3>2. runs \subseteq runs'
      BY <2>1
    <3> QED BY ONLY <2>2, <2>3, <3>1, <3>2
  <2> QED BY ONLY <1>0, <2>4
<1>6. ASSUME NEW r, RunExit(r) PROVE StatusNotStale'
  <2>1. /\ runs' = runs \ {r} /\ r \in runs
        /\ status' = [status EXCEPT ![r[1]] = IF @ = "absent" THEN @ ELSE "exited"]
        /\ UNCHANGED <<startPc, scomps, si>>
    BY <1>6 DEF RunExit
  <2>2. \A c \in Comps : status'[c] = "running" => c # r[1] /\ status[c] = "running"
    BY <2>1
  <2>3. \A q \in runs : q[1] # r[1] => q \in runs'
    BY <2>1
  <2>4. \A u \in Starts, c \in Comps : ToLaunch(u, c) => ToLaunch(u, c)'
    BY <2>1
  <2>5. ASSUME NEW c \in Comps, status'[c] = "running"
        PROVE  (\E q \in runs' : q[1] = c) \/ (\E u \in Starts : ToLaunch(u, c)')
    <3>1. (\E q \in runs : q[1] = c) \/ (\E u \in Starts : ToLaunch(u, c))
      BY ONLY <1>1, <2>2, <2>5
    <3> QED BY ONLY <2>2, <2>3, <2>4, <2>5, <3>1
  <2> QED BY ONLY <1>0, <2>5
<1>7. ASSUME NEW c \in Comps, Register(c) PROVE UNCHANGED <<status, runs, startPc, scomps, si>>
  BY <1>7 DEF Register
<1>8. ASSUME NEW k \in Stops, Stop(k) PROVE UNCHANGED <<status, runs, startPc, scomps, si>>
  BY <1>8 DEF Stop, StopCall, StopWait, StopWoken, StopTimeout, StopComponent, StopFinish
<1> QED BY <1>2, <1>3, <1>4, <1>5, <1>6, <1>7, <1>8 DEF ManagerNext, Start
-----------------------------------------------------------------------------
(* Order *)

Prefix(q, p) == Len(q) <= Len(p) /\ \A i \in 1..Len(q) : q[i] = p[i]

\* Every snapshot is a beginning of the list of components, which only grows, and
\* so are the components that are initialised.
OrderInv ==
  /\ Prefix(started, components)
  /\ \A s \in Starts : Prefix(scomps[s], components)
  /\ \A k \in Stops : Prefix(tcomps[k], components)
  /\ \E n \in 0..Len(components) : inited = FirstOf(components, n)

LEMMA PrefixGrows ==
  ASSUME NEW q \in Seq(Comps), NEW p \in Seq(Comps), Prefix(q, p), NEW c \in Comps
  PROVE  Prefix(q, Append(p, c))
<1>1. \A i \in 1..Len(p) : Append(p, c)[i] = p[i]
  OBVIOUS
<1>2. Len(Append(p, c)) = Len(p) + 1 /\ Len(q) \in Nat /\ Len(p) \in Nat
  OBVIOUS
<1> QED BY <1>1, <1>2 DEF Prefix

LEMMA PrefixFirst ==
  ASSUME NEW q \in Seq(Comps), NEW p \in Seq(Comps), Prefix(q, p), NEW n \in 0..Len(q)
  PROVE  /\ n \in 0..Len(p)
         /\ FirstOf(q, n) = FirstOf(p, n)
<1>1. \A i \in 1..n : q[i] = p[i]
  BY DEF Prefix
<1> QED BY <1>1 DEF Prefix, FirstOf

LEMMA FirstNamesBefore ==
  ASSUME NEW q \in Seq(Comps), NoRepeat(q), NEW n \in 0..Len(q),
         NEW i \in DOMAIN q, NEW j \in DOMAIN q, i < j, q[j] \in FirstOf(q, n)
  PROVE  q[i] \in FirstOf(q, n)
<1>1. PICK l \in 1..n : q[j] = q[l]
  BY DEF FirstOf
<1>2. l \in DOMAIN q
  OBVIOUS
<1>3. j = l
  BY <1>1, <1>2 DEF NoRepeat
<1>4. i \in 1..n
  BY <1>3
<1> QED BY <1>4 DEF FirstOf

LEMMA OrderBegins == ManagerInit => OrderInv
<1> SUFFICES ASSUME ManagerInit PROVE OrderInv
  OBVIOUS
<1>1. Prefix(<<>>, <<>>)
  BY DEF Prefix
<1>2. inited = FirstOf(components, 0) /\ 0 \in 0..Len(components)
  BY FirstNone DEF ManagerInit
<1> QED BY <1>1, <1>2 DEF ManagerInit, OrderInv

LEMMA OrderStep ==
  ASSUME ShapeInv, LoopInv, ShapeInv', LoopInv', InitInv', OrderInv, ManagerNext
  PROVE  OrderInv'
<1> DEFINE Prefixes == /\ Prefix(started, components)
                       /\ \A s \in Starts : Prefix(scomps[s], components)
                       /\ \A k \in Stops : Prefix(tcomps[k], components)
           First == \E n \in 0..Len(components) : inited = FirstOf(components, n)
<1> USE DEF stateVars, runVars, startVars, stopVars
<1>1. ASSUME UNCHANGED <<components, started, scomps, tcomps>> PROVE Prefixes'
  BY <1>1 DEF OrderInv, Prefix
<1>2. ASSUME UNCHANGED <<components, inited>> PROVE First'
  BY <1>2 DEF OrderInv, FirstOf
<1>3. ASSUME NEW c \in Comps, Register(c) PROVE OrderInv'
  <2>1. /\ components' = Append(components, c)
        /\ UNCHANGED <<started, scomps, tcomps, inited>>
    BY <1>3 DEF Register
  <2>2. Prefixes'
    BY <2>1, PrefixGrows DEF ShapeInv, OrderInv
  <2>3. First'
    <3>1. PICK n \in 0..Len(components) : inited = FirstOf(components, n)
      BY DEF OrderInv
    <3>2. Prefix(components, components) /\ components \in Seq(Comps)
      BY DEF Prefix, ShapeInv
    <3>3. Prefix(components, components') /\ components' \in Seq(Comps)
      BY <2>1, <3>2, PrefixGrows
    <3>4. n \in 0..Len(components') /\ FirstOf(components, n) = FirstOf(components', n)
      BY <3>2, <3>3, PrefixFirst
    <3> QED BY <2>1, <3>1, <3>4
  <2> QED BY <2>2, <2>3 DEF OrderInv
<1>4. ASSUME NEW s \in Starts, StartCall(s) PROVE OrderInv'
  <2>1. UNCHANGED <<components, tcomps, inited>>
    BY <1>4 DEF StartCall
  <2>2. CASE CanStart
    <3>1. scomps' = [scomps EXCEPT ![s] = components] /\ started' = <<>>
      BY <1>4, <2>2 DEF StartCall
    <3>2. Prefix(components, components) /\ Prefix(<<>>, components)
      BY DEF Prefix, ShapeInv
    <3>3. \A u \in Starts : scomps'[u] = IF u = s THEN components ELSE scomps[u]
      BY <3>1 DEF ShapeInv
    <3>4. Prefixes'
      BY <2>1, <3>1, <3>2, <3>3 DEF OrderInv
    <3> QED BY <1>2, <2>1, <3>4 DEF OrderInv
  <2>3. CASE ~CanStart
    BY <1>1, <1>2, <1>4, <2>1, <2>3 DEF StartCall, OrderInv
  <2> QED BY <2>2, <2>3
<1>5. ASSUME NEW s \in Starts, StartPublish(s) PROVE OrderInv'
  <2>1. UNCHANGED <<components, scomps, tcomps, inited>> /\ started' = scomps[s]
    BY <1>5 DEF StartPublish
  <2>2. Prefixes'
    BY <2>1 DEF OrderInv
  <2> QED BY <1>2, <2>1, <2>2 DEF OrderInv
<1>6. ASSUME NEW k \in Stops, StopCall(k) PROVE OrderInv'
  <2>1. UNCHANGED <<components, started, scomps, inited>>
    BY <1>6 DEF StopCall
  <2>2. CASE state = "Running"
    <3>1. tcomps' = [tcomps EXCEPT ![k] = started]
      BY <1>6, <2>2 DEF StopCall
    <3>2. \A l \in Stops : tcomps'[l] = IF l = k THEN started ELSE tcomps[l]
      BY <3>1 DEF ShapeInv
    <3>3. Prefixes'
      BY <2>1, <3>2 DEF OrderInv
    <3> QED BY <1>2, <2>1, <3>3 DEF OrderInv
  <2>3. CASE state # "Running"
    BY <1>1, <1>2, <1>6, <2>1, <2>3 DEF StopCall, OrderInv
  <2> QED BY <2>2, <2>3
<1>7. ASSUME NEW s \in Starts, UNCHANGED <<components, started, scomps, tcomps>>,
             startPc'[s] \in Opening
      PROVE  OrderInv'
  <2>1. inited' = FirstOf(scomps'[s], si'[s]) /\ si'[s] \in 0..Len(scomps'[s])
    BY <1>7 DEF InitInv, LoopInv, ShapeInv
  <2>2. Prefix(scomps'[s], components')
    BY <1>7 DEF OrderInv
  <2>3. First'
    BY <2>1, <2>2, PrefixFirst DEF ShapeInv
  <2> QED BY <1>1, <1>7, <2>3 DEF OrderInv
<1>8. ASSUME NEW s \in Starts, StartComponent(s) \/ Rollback(s) PROVE OrderInv'
  <2>1. UNCHANGED <<components, started, scomps, tcomps>>
    BY <1>8 DEF StartComponent, Rollback
  <2>2. CASE startPc'[s] \in Opening
    BY <1>7, <2>1, <2>2
  <2>3. CASE startPc'[s] \notin Opening
    <3>1. UNCHANGED inited
      BY <1>8, <2>3 DEF StartComponent, Rollback, Opening
    <3> QED BY <1>1, <1>2, <2>1, <3>1 DEF OrderInv
  <2> QED BY <2>2, <2>3
<1>9. ASSUME NEW k \in Stops, StopComponent(k) PROVE OrderInv'
  <2>1. UNCHANGED <<components, started, scomps, tcomps>> /\ tpc'[k] \in Closing
    BY <1>9 DEF StopComponent, Closing
  <2>2. inited' = FirstOf(tcomps'[k], ti'[k]) /\ ti'[k] \in 0..Len(tcomps'[k])
    BY <2>1 DEF InitInv, LoopInv, ShapeInv
  <2>3. Prefix(tcomps'[k], components')
    BY <2>1 DEF OrderInv
  <2>4. First'
    BY <2>2, <2>3, PrefixFirst DEF ShapeInv
  <2> QED BY <1>1, <2>1, <2>4 DEF OrderInv
<1>10. ASSUME NEW s \in Starts, StartFails(s) \/ StartStatus(s) \/ StartLaunch(s) \/ StartReturn(s)
       PROVE  OrderInv'
  <2>1. UNCHANGED <<components, started, scomps, tcomps, inited>>
    BY <1>10 DEF StartFails, StartStatus, StartLaunch, StartReturn
  <2> QED BY <1>1, <1>2, <2>1 DEF OrderInv
<1>11. ASSUME NEW r, RunExit(r) PROVE OrderInv'
  <2>1. UNCHANGED <<components, started, scomps, tcomps, inited>>
    BY <1>11 DEF RunExit
  <2> QED BY <1>1, <1>2, <2>1 DEF OrderInv
<1>12. ASSUME NEW k \in Stops, StopWait(k) \/ StopWoken(k) \/ StopTimeout(k) \/ StopFinish(k)
       PROVE  OrderInv'
  <2>1. UNCHANGED <<components, started, scomps, tcomps, inited>>
    BY <1>12 DEF StopWait, StopWoken, StopTimeout, StopFinish
  <2> QED BY <1>1, <1>2, <2>1 DEF OrderInv
<1> QED BY <1>3, <1>4, <1>5, <1>6, <1>8, <1>9, <1>10, <1>11, <1>12 DEF ManagerNext, Start, Stop
-----------------------------------------------------------------------------
(* Theorems *)

LEMMA LifeStep == LifeInv /\ [ManagerNext]_managerVars => LifeInv'
<1>1. ASSUME LifeInv, ManagerNext PROVE LifeInv'
  BY <1>1, ShapeStep, LoopStep, GenStep, RepeatStep, OwnerStep, InitStep, ContextStep, CleanStep,
     StatusStep DEF LifeInv
<1>2. ASSUME LifeInv, UNCHANGED managerVars PROVE LifeInv'
  <2> USE <1>2 DEF LifeInv, managerVars, stateVars, runVars, startVars, stopVars
  <2>1. ShapeInv'
    BY DEF ShapeInv
  <2>2. LoopInv' /\ GenInv' /\ RepeatInv' /\ OwnerInv' /\ ContextInv'
    BY DEF LoopInv, GenInv, RepeatInv, OwnerInv, ContextInv
  <2>3. InitInv'
    BY DEF InitInv, Paired
  <2>4. CleanInv' /\ StatusNotStale'
    BY DEF CleanInv, CleanStopAfterRun, StatusNotStale
  <2> QED BY <2>1, <2>2, <2>3, <2>4
<1> QED BY <1>1, <1>2

\* The inductive invariant holds in every reachable state.
THEOREM LifeInvariant == ManagerSpec => []LifeInv
<1> QED BY LifeBegins, LifeStep, PTL DEF ManagerSpec

\* Type correctness; in particular there are no more runtime contexts than calls of
\* Start, since a Start that succeeds makes one, once.
THEOREM ManagerTyped == ManagerSpec => []ManagerTypeOK
<1>1. ASSUME LifeInv PROVE ManagerTypeOK
  <2> DEFINE published == {s \in Starts : sgen[s] # 0}
  <2>1. Cardinality(published) <= Cardinality(Starts) /\ Cardinality(Starts) \in Nat
    BY ManagerAssumption, FS_Subset, FS_CardinalityType
  <2>2. gen \in 0..Cardinality(Starts)
    BY <1>1, <2>1 DEF LifeInv, ShapeInv, GenInv
  <2> QED BY <1>1, <2>2 DEF LifeInv, ShapeInv, LoopInv, ManagerTypeOK
<1> QED BY <1>1, LifeInvariant, PTL

\* lifecycle.go:249-250: while a component is initialised, so is everything that was
\* registered before it; OnStop is called in the reverse of the order of OnStart.
THEOREM DependenciesStayUp == ManagerSpec => []DependenciesUp
<1>1. LifeInv /\ LifeInv' /\ OrderInv /\ [ManagerNext]_managerVars => OrderInv'
  <2>1. ASSUME LifeInv, LifeInv', OrderInv, ManagerNext PROVE OrderInv'
    BY <2>1, OrderStep DEF LifeInv
  <2>2. ASSUME OrderInv, UNCHANGED managerVars PROVE OrderInv'
    BY <2>2 DEF OrderInv, Prefix, FirstOf, managerVars, stateVars, startVars, stopVars
  <2> QED BY <2>1, <2>2
<1>2. ASSUME LifeInv, OrderInv PROVE DependenciesUp
  <2>1. PICK n \in 0..Len(components) : inited = FirstOf(components, n)
    BY <1>2 DEF OrderInv
  <2>2. components \in Seq(Comps) /\ NoRepeat(components)
    BY <1>2 DEF LifeInv, ShapeInv, RepeatInv
  <2> QED BY <2>1, <2>2, FirstNamesBefore DEF DependenciesUp
<1> QED BY <1>1, <1>2, OrderBegins, LifeInvariant, PTL DEF ManagerSpec

\* lifecycle.go: whatever Starts and Stops overlap and fail, a manager at rest has no
\* component initialised and a running one those it remembers, and at all times what
\* was registered before an initialised component is initialised too.
THEOREM InitsArePaired == ManagerSpec => []InitPaired
<1>1. LifeInv => Paired
  BY DEF LifeInv, InitInv
<1>2. Paired /\ DependenciesUp => InitPaired
  BY DEF InitPaired
<1> QED BY <1>1, <1>2, LifeInvariant, DependenciesStayUp, PTL

\* An OnRun goroutine of a run that is over has been told to end, also one that a
\* slow Start launches after the Stop.
THEOREM OldRunsAreCancelled == ManagerSpec => []OldRunsCancelled
<1>1. LifeInv => OldRunsCancelled
  BY RunsOwned DEF LifeInv
<1> QED BY <1>1, LifeInvariant, PTL

\* A Stop that began when no Start was launching, and did not time out, calls OnStop
\* after every OnRun has returned.
THEOREM CleanStopsWait == ManagerSpec => []CleanStopAfterRun
<1>1. LifeInv => CleanStopAfterRun
  BY DEF LifeInv, CleanInv
<1> QED BY <1>1, LifeInvariant, PTL

\* ComponentStatus reports as running what runs or is about to.
THEOREM StatusIsCurrent == ManagerSpec => []StatusNotStale
<1>1. LifeInv => StatusNotStale
  BY DEF LifeInv
<1> QED BY <1>1, LifeInvariant, PTL
=============================================================================

---------------------------- MODULE ExecPoolProofs ----------------------------
(***************************************************************************)
(* Safety of the handler pool for every number of tasks, tokens, queue     *)
(* slots and calls; and of the drain counter on which its Drain waits, for *)
(* any number of waiters and any sequence of increments and decrements.    *)
(***************************************************************************)
EXTENDS ExecPool, DrainTracker, FiniteSetTheorems, SequenceTheorems, TLAPS

(***************************************************************************)
(* The inductive invariant.  A submission is accepted before its worker    *)
(* starts, tokens and the counter are the workers they stand for, a task   *)
(* is at one place, and nothing is submitted behind a Drain's barrier.     *)
(***************************************************************************)
ControlInv ==
  /\ \A t \in Tasks : wpc[t] # "none" => spc[t] = "accepted"
  /\ \A t \in Tasks : cur[t] # Nil <=> wpc[t] = "run"
  /\ \A d \in Drainers : dcur[d] # Nil <=> dpc[d] = "run"

Holders == {t \in Tasks : WillDrain(t)}
Live == {t \in Tasks : wpc[t] # "none"}

CountInv ==
  /\ sem = Cardinality(Holders)
  /\ sem <= MaxConcurrency
  /\ inflight = Cardinality(Live)

\* A task in the queue relies on a token holder as soon as the submitter that
\* queued it has left exitMu.
ConsumerInv ==
  (\E t \in Range(queue) : spc[t] # "ensure") => \E u \in Tasks : WillDrain(u)

InHands(t) == (\E w \in Tasks : cur[w] = t) \/ (\E d \in Drainers : dcur[d] = t)
Taken(t) == spc[t] \in {"ensure", "late", "accepted"}

PlaceInv ==
  /\ \A t \in Tasks : Taken(t) <=> t \in Range(queue) \/ InHands(t) \/ t \in done
  /\ IsInjective(queue)
  /\ \A t \in Tasks : InHands(t) => t \notin Range(queue)
  /\ \A t \in done : ~InHands(t) /\ t \notin Range(queue)
  /\ \A v, w \in Tasks : cur[v] # Nil /\ cur[v] = cur[w] => v = w
  /\ \A d, e \in Drainers : dcur[d] # Nil /\ dcur[d] = dcur[e] => d = e
  /\ \A w \in Tasks, d \in Drainers : cur[w] # Nil => cur[w] # dcur[d]

CloseInv ==
  \A d \in Drainers :
    /\ dpc[d] # "idle" => stopped
    /\ dpc[d] \notin {"idle", "barrier"} => \A t \in Tasks : spc[t] \notin Gated
    /\ dpc[d] \in {"wait", "returned"} => queue = <<>>
    /\ dpc[d] = "returned" => \A t \in Tasks : wpc[t] = "none"

\* While a task that a Wait must wait for is queued, a worker that will still
\* look at the queue is counted.
WaitInv ==
  \A a \in Waiters :
    /\ seen[a] \subseteq Accepted
    /\ apc[a] = "wait" /\ seen[a] \cap Range(queue) # {}
         => \E u \in Tasks : wpc[u] \in {"run", "drain", "exit"}
    /\ apc[a] = "returned" => seen[a] \subseteq done \cup {dcur[d] : d \in Drainers}

IInv ==
  /\ TypeOK /\ ControlInv /\ CountInv /\ ConsumerInv
  /\ PlaceInv /\ CloseInv /\ WaitInv
-----------------------------------------------------------------------------
LEMMA EmptyQueue == <<>> \in Seq(Tasks) /\ Len(<<>>) = 0 /\ Range(<<>>) = {}
  BY DEF Range

LEMMA AppendTask ==
  ASSUME NEW s \in Seq(Tasks), NEW t \in Tasks
  PROVE /\ Append(s, t) \in Seq(Tasks) /\ Len(Append(s, t)) = Len(s) + 1
        /\ Range(Append(s, t)) = Range(s) \cup {t}
        /\ IsInjective(s) /\ t \notin Range(s) => IsInjective(Append(s, t))
<1>1. Append(s, t) \in Seq(Tasks) /\ Len(Append(s, t)) = Len(s) + 1
  OBVIOUS
<1>2. /\ DOMAIN Append(s, t) = DOMAIN s \cup {Len(s) + 1} /\ Append(s, t)[Len(s) + 1] = t
      /\ \A i \in DOMAIN s : Append(s, t)[i] = s[i]
  OBVIOUS
<1>3. Range(Append(s, t)) = Range(s) \cup {t}
  BY <1>2 DEF Range
<1>4. IsInjective(s) /\ t \notin Range(s) => IsInjective(Append(s, t))
  BY <1>2 DEF Range, IsInjective
<1>5. QED
  BY <1>1, <1>3, <1>4

LEMMA PopTask ==
  ASSUME NEW s \in Seq(Tasks), s # <<>>
  PROVE /\ Head(s) \in Tasks /\ Tail(s) \in Seq(Tasks) /\ Len(Tail(s)) = Len(s) - 1
        /\ Head(s) \in Range(s) /\ Range(Tail(s)) \subseteq Range(s)
        /\ Range(s) = Range(Tail(s)) \cup {Head(s)}
        /\ IsInjective(s) => IsInjective(Tail(s)) /\ Head(s) \notin Range(Tail(s))
<1>1. Head(s) \in Tasks /\ Tail(s) \in Seq(Tasks) /\ Len(Tail(s)) = Len(s) - 1
  OBVIOUS
<1>2. /\ DOMAIN s = 1..Len(s) /\ DOMAIN Tail(s) = 1..(Len(s) - 1) /\ Len(s) \in Nat \ {0}
      /\ Head(s) = s[1]
      /\ \A i \in 1..(Len(s) - 1) : Tail(s)[i] = s[i + 1]
  OBVIOUS
<1>3. Head(s) \in Range(s) /\ Range(Tail(s)) \subseteq Range(s)
  <2>1. 1 \in DOMAIN s /\ \A i \in DOMAIN Tail(s) : i + 1 \in DOMAIN s
    BY <1>2
  <2>2. QED
    BY <1>2, <2>1 DEF Range
<1>4. ASSUME NEW i \in DOMAIN s PROVE s[i] \in Range(Tail(s)) \cup {Head(s)}
  <2>1. CASE i = 1
    BY <1>2, <2>1
  <2>2. CASE i # 1
    <3>1. i - 1 \in DOMAIN Tail(s) /\ s[i] = Tail(s)[i - 1]
      BY <1>2, <2>2
    <3>2. QED
      BY <3>1 DEF Range
  <2>3. QED
    BY <2>1, <2>2
<1>5. Range(s) = Range(Tail(s)) \cup {Head(s)}
  BY <1>3, <1>4 DEF Range
<1>6. IsInjective(s) => IsInjective(Tail(s)) /\ Head(s) \notin Range(Tail(s))
  <2> SUFFICES ASSUME IsInjective(s)
               PROVE IsInjective(Tail(s)) /\ Head(s) \notin Range(Tail(s))
    OBVIOUS
  <2>1. ASSUME NEW i \in DOMAIN Tail(s), NEW j \in DOMAIN Tail(s), Tail(s)[i] = Tail(s)[j]
        PROVE i = j
    <3>1. i + 1 \in DOMAIN s /\ j + 1 \in DOMAIN s /\ s[i + 1] = s[j + 1]
      BY <1>2, <2>1
    <3>2. QED
      BY <1>2, <3>1 DEF IsInjective
  <2>2. ASSUME NEW i \in DOMAIN Tail(s), Tail(s)[i] = Head(s) PROVE FALSE
    <3>1. i + 1 \in DOMAIN s /\ 1 \in DOMAIN s /\ s[i + 1] = s[1] /\ i + 1 # 1
      BY <1>2, <2>2
    <3>2. QED
      BY <3>1 DEF IsInjective
  <2>3. QED
    BY <2>1, <2>2 DEF IsInjective, Range
<1>7. QED
  BY <1>1, <1>3, <1>5, <1>6

\* Sets of tasks are finite, so that adding and removing one counts.
LEMMA CountTasks ==
  ASSUME NEW S \in SUBSET Tasks, NEW t \in Tasks
  PROVE /\ Cardinality(S) \in Nat
        /\ t \notin S => Cardinality(S \cup {t}) = Cardinality(S) + 1
        /\ t \in S => Cardinality(S \ {t}) = Cardinality(S) - 1
        /\ Cardinality(S) = 0 <=> S = {}
<1>1. IsFiniteSet(S)
  BY PoolAssumption, FS_Subset
<1>2. QED
  BY <1>1, FS_CardinalityType, FS_AddElement, FS_RemoveElement, FS_EmptySet

\* The same two facts about the pool's queue.
LEMMA PushQueue ==
  ASSUME TypeOK, NEW t \in Tasks
  PROVE /\ Append(queue, t) \in Seq(Tasks)
        /\ Room => Len(Append(queue, t)) <= QueueSize
        /\ Range(Append(queue, t)) = Range(queue) \cup {t}
        /\ IsInjective(queue) /\ t \notin Range(queue) => IsInjective(Append(queue, t))
<1>1. queue \in Seq(Tasks) /\ Len(queue) \in Nat
  BY DEF TypeOK
<1>2. Len(Append(queue, t)) = Len(queue) + 1
  BY <1>1, AppendTask
<1>3. Room => Len(Append(queue, t)) <= QueueSize
  BY <1>1, <1>2, PoolAssumption DEF Room
<1>4. QED
  BY <1>1, <1>3, AppendTask

LEMMA PopQueue ==
  ASSUME TypeOK, queue # <<>>
  PROVE /\ Head(queue) \in Tasks /\ Tail(queue) \in Seq(Tasks)
        /\ Len(Tail(queue)) <= QueueSize
        /\ Head(queue) \in Range(queue) /\ Range(Tail(queue)) \subseteq Range(queue)
        /\ Range(queue) = Range(Tail(queue)) \cup {Head(queue)}
        /\ IsInjective(queue) =>
             IsInjective(Tail(queue)) /\ Head(queue) \notin Range(Tail(queue))
<1>1. queue \in Seq(Tasks) /\ Len(queue) \in Nat /\ Len(queue) <= QueueSize
  BY DEF TypeOK
<1>2. Len(Tail(queue)) = Len(queue) - 1
  BY <1>1, PopTask
<1>3. Len(Tail(queue)) <= QueueSize
  BY <1>1, <1>2, PoolAssumption
<1>4. QED
  BY <1>1, <1>3, PopTask

LEMMA TypeStep == IInv /\ [Next]_vars => TypeOK'
<1> SUFFICES ASSUME IInv, [Next]_vars PROVE TypeOK'
  OBVIOUS
<1>1. ASSUME NEW t \in Tasks, SubmitEnter(t) PROVE TypeOK'
  BY <1>1 DEF SubmitEnter, Gated, Accepted, workerVars, drainVars, waitVars, IInv, TypeOK
<1>2. ASSUME NEW t \in Tasks, SubmitToken(t) PROVE TypeOK'
  BY <1>2 DEF SubmitToken, Gated, Accepted, workerVars, drainVars, waitVars, IInv, TypeOK
<1>3. ASSUME NEW t \in Tasks, SubmitStart(t) PROVE TypeOK'
  BY <1>3 DEF SubmitStart, Gated, Accepted, workerVars, drainVars, waitVars, IInv, TypeOK
<1>4. ASSUME NEW t \in Tasks, SubmitEnqueue(t) PROVE TypeOK'
  <2>1. queue' \in Seq(Tasks) /\ Len(queue') <= QueueSize
    <3>1. CASE Room
      BY <1>4, <3>1, PushQueue DEF SubmitEnqueue, IInv
    <3>2. CASE ~Room
      BY <1>4, <3>2 DEF SubmitEnqueue, IInv, TypeOK
    <3>3. QED
      BY <3>1, <3>2
  <2>2. QED
    BY <1>4, <2>1 DEF SubmitEnqueue, workerVars, drainVars, waitVars, Gated, IInv, TypeOK
<1>5. ASSUME NEW t \in Tasks, SubmitEnsure(t) PROVE TypeOK'
  BY <1>5 DEF SubmitEnsure, Gated, Accepted, workerVars, drainVars, waitVars, IInv, TypeOK
<1>6. ASSUME NEW t \in Tasks, SubmitStartDrainer(t) PROVE TypeOK'
  BY <1>6 DEF SubmitStartDrainer, Gated, Accepted, workerVars, drainVars, waitVars, IInv, TypeOK
<1>7. ASSUME NEW t \in Tasks, WorkerRun(t) PROVE TypeOK'
  <2>1. cur[t] \in Tasks
    BY <1>7 DEF WorkerRun, IInv, TypeOK, ControlInv
  <2>2. QED
    BY <1>7, <2>1 DEF WorkerRun, drainVars, waitVars, IInv, TypeOK
<1>8. ASSUME NEW t \in Tasks, WorkerDrain(t) PROVE TypeOK'
  <2>1. CASE queue # <<>>
    BY <1>8, <2>1, PopQueue DEF WorkerDrain, drainVars, waitVars, IInv, TypeOK
  <2>2. CASE queue = <<>>
    BY <1>8, <2>2 DEF WorkerDrain, workerVars, drainVars, waitVars, IInv, TypeOK
  <2>3. QED
    BY <2>1, <2>2
<1>9. ASSUME NEW t \in Tasks, WorkerExit(t) PROVE TypeOK'
  <2>1. CASE queue # <<>>
    BY <1>9, <2>1, PopQueue DEF WorkerExit, drainVars, waitVars, IInv, TypeOK
  <2>2. CASE queue = <<>>
    BY <1>9, <2>2 DEF WorkerExit, workerVars, drainVars, waitVars, IInv, TypeOK
  <2>3. QED
    BY <2>1, <2>2
<1>10. ASSUME NEW t \in Tasks, WorkerDone(t) PROVE TypeOK'
  BY <1>10 DEF WorkerDone, Gated, Accepted, workerVars, drainVars, waitVars, IInv, TypeOK
<1>11. ASSUME NEW d \in Drainers, DrainCall(d) PROVE TypeOK'
  BY <1>11 DEF DrainCall, Gated, Accepted, workerVars, drainVars, waitVars, IInv, TypeOK
<1>12. ASSUME NEW d \in Drainers, DrainBarrier(d) PROVE TypeOK'
  BY <1>12 DEF DrainBarrier, Gated, Accepted, workerVars, drainVars, waitVars, IInv, TypeOK
<1>13. ASSUME NEW d \in Drainers, DrainPop(d) PROVE TypeOK'
  <2>1. CASE queue # <<>>
    BY <1>13, <2>1, PopQueue DEF DrainPop, workerVars, waitVars, IInv, TypeOK
  <2>2. CASE queue = <<>>
    BY <1>13, <2>2 DEF DrainPop, workerVars, workerVars, waitVars, IInv, TypeOK
  <2>3. QED
    BY <2>1, <2>2
<1>14. ASSUME NEW d \in Drainers, DrainRun(d) PROVE TypeOK'
  <2>1. dcur[d] \in Tasks
    BY <1>14 DEF DrainRun, IInv, TypeOK, ControlInv
  <2>2. QED
    BY <1>14, <2>1 DEF DrainRun, workerVars, waitVars, IInv, TypeOK
<1>15. ASSUME NEW d \in Drainers, DrainReturn(d) PROVE TypeOK'
  BY <1>15 DEF DrainReturn, Gated, Accepted, workerVars, drainVars, waitVars, IInv, TypeOK
<1>16. ASSUME NEW d \in Drainers, DrainExpire(d) PROVE TypeOK'
  BY <1>16 DEF DrainExpire, Gated, Accepted, workerVars, drainVars, waitVars, IInv, TypeOK
<1>17. ASSUME NEW a \in Waiters, WaitCall(a) PROVE TypeOK'
  BY <1>17 DEF WaitCall, Gated, Accepted, workerVars, drainVars, waitVars, IInv, TypeOK
<1>18. ASSUME NEW a \in Waiters, WaitReturn(a) PROVE TypeOK'
  BY <1>18 DEF WaitReturn, Gated, Accepted, workerVars, drainVars, waitVars, IInv, TypeOK
<1>19. CASE UNCHANGED vars
  BY <1>19 DEF vars, workerVars, drainVars, waitVars, IInv, Gated, Accepted, TypeOK
<1>20. QED
  BY <1>1, <1>2, <1>3, <1>4, <1>5, <1>6, <1>7, <1>8, <1>9, <1>10, <1>11, <1>12, <1>13, <1>14,
     <1>15, <1>16, <1>17, <1>18, <1>19 DEF Next, Submit, Worker, Drain

LEMMA ControlStep == IInv /\ [Next]_vars => ControlInv'
<1> SUFFICES ASSUME IInv, [Next]_vars PROVE ControlInv'
  OBVIOUS
<1>1. ASSUME NEW t \in Tasks, SubmitEnter(t) PROVE ControlInv'
  BY <1>1 DEF SubmitEnter, workerVars, drainVars, waitVars, IInv, TypeOK, ControlInv
<1>2. ASSUME NEW t \in Tasks, SubmitToken(t) PROVE ControlInv'
  BY <1>2 DEF SubmitToken, workerVars, drainVars, waitVars, IInv, TypeOK, ControlInv
<1>3. ASSUME NEW t \in Tasks, SubmitStart(t) PROVE ControlInv'
  BY <1>3, PoolAssumption DEF SubmitStart, drainVars, IInv, TypeOK, ControlInv
<1>4. ASSUME NEW t \in Tasks, SubmitEnqueue(t) PROVE ControlInv'
  BY <1>4 DEF SubmitEnqueue, workerVars, drainVars, waitVars, IInv, TypeOK, ControlInv
<1>5. ASSUME NEW t \in Tasks, SubmitEnsure(t) PROVE ControlInv'
  BY <1>5 DEF SubmitEnsure, workerVars, drainVars, waitVars, IInv, TypeOK, ControlInv
<1>6. ASSUME NEW t \in Tasks, SubmitStartDrainer(t) PROVE ControlInv'
  BY <1>6 DEF SubmitStartDrainer, workerVars, drainVars, waitVars, IInv, TypeOK, ControlInv
<1>7. ASSUME NEW t \in Tasks, WorkerRun(t) PROVE ControlInv'
  BY <1>7 DEF WorkerRun, workerVars, drainVars, waitVars, IInv, TypeOK, ControlInv
<1>8. ASSUME NEW t \in Tasks, WorkerDrain(t) PROVE ControlInv'
  <2>1. CASE queue # <<>>
    <3>1. Head(queue) \in Tasks
      BY <2>1, PopQueue DEF IInv
    <3>2. QED
      BY <1>8, <2>1, <3>1, PoolAssumption DEF WorkerDrain, drainVars, IInv, TypeOK, ControlInv
  <2>2. CASE queue = <<>>
    BY <1>8, <2>2 DEF WorkerDrain, drainVars, IInv, TypeOK, ControlInv
  <2>3. QED
    BY <2>1, <2>2
<1>9. ASSUME NEW t \in Tasks, WorkerExit(t) PROVE ControlInv'
  <2>1. CASE queue # <<>>
    <3>1. Head(queue) \in Tasks
      BY <2>1, PopQueue DEF IInv
    <3>2. QED
      BY <1>9, <2>1, <3>1, PoolAssumption DEF WorkerExit, drainVars, IInv, TypeOK, ControlInv
  <2>2. CASE queue = <<>>
    BY <1>9, <2>2 DEF WorkerExit, drainVars, IInv, TypeOK, ControlInv
  <2>3. QED
    BY <2>1, <2>2
<1>10. ASSUME NEW t \in Tasks, WorkerDone(t) PROVE ControlInv'
  BY <1>10 DEF WorkerDone, workerVars, drainVars, waitVars, IInv, TypeOK, ControlInv
<1>11. ASSUME NEW d \in Drainers, DrainCall(d) PROVE ControlInv'
  BY <1>11 DEF DrainCall, workerVars, drainVars, waitVars, IInv, TypeOK, ControlInv
<1>12. ASSUME NEW d \in Drainers, DrainBarrier(d) PROVE ControlInv'
  BY <1>12 DEF DrainBarrier, workerVars, drainVars, waitVars, IInv, TypeOK, ControlInv
<1>13. ASSUME NEW d \in Drainers, DrainPop(d) PROVE ControlInv'
  <2>1. CASE queue # <<>>
    <3>1. Head(queue) \in Tasks
      BY <2>1, PopQueue DEF IInv
    <3>2. QED
      BY <1>13, <2>1, <3>1, PoolAssumption DEF DrainPop, workerVars, IInv, TypeOK, ControlInv
  <2>2. CASE queue = <<>>
    BY <1>13, <2>2 DEF DrainPop, workerVars, IInv, TypeOK, ControlInv
  <2>3. QED
    BY <2>1, <2>2
<1>14. ASSUME NEW d \in Drainers, DrainRun(d) PROVE ControlInv'
  BY <1>14 DEF DrainRun, workerVars, drainVars, waitVars, IInv, TypeOK, ControlInv
<1>15. ASSUME NEW d \in Drainers, DrainReturn(d) PROVE ControlInv'
  BY <1>15 DEF DrainReturn, workerVars, drainVars, waitVars, IInv, TypeOK, ControlInv
<1>16. ASSUME NEW d \in Drainers, DrainExpire(d) PROVE ControlInv'
  BY <1>16 DEF DrainExpire, workerVars, drainVars, waitVars, IInv, TypeOK, ControlInv
<1>17. ASSUME NEW a \in Waiters, WaitCall(a) PROVE ControlInv'
  BY <1>17 DEF WaitCall, workerVars, drainVars, waitVars, IInv, TypeOK, ControlInv
<1>18. ASSUME NEW a \in Waiters, WaitReturn(a) PROVE ControlInv'
  BY <1>18 DEF WaitReturn, workerVars, drainVars, waitVars, IInv, TypeOK, ControlInv
<1>19. CASE UNCHANGED vars
  BY <1>19 DEF vars, workerVars, drainVars, waitVars, IInv, TypeOK, ControlInv
<1>20. QED
  BY <1>1, <1>2, <1>3, <1>4, <1>5, <1>6, <1>7, <1>8, <1>9, <1>10, <1>11, <1>12, <1>13, <1>14,
     <1>15, <1>16, <1>17, <1>18, <1>19 DEF Next, Submit, Worker, Drain

LEMMA CountFrame ==
  ASSUME IInv, UNCHANGED <<sem, inflight>>, Holders' = Holders, Live' = Live
  PROVE CountInv'
  BY DEF IInv, CountInv

LEMMA TokenTaken ==
  ASSUME IInv, NEW t \in Tasks, t \notin Holders, sem < MaxConcurrency,
         sem' = sem + 1, inflight' = inflight, Holders' = Holders \cup {t}, Live' = Live
  PROVE CountInv'
<1>1. Cardinality(Holders') = Cardinality(Holders) + 1 /\ Cardinality(Holders) \in Nat
  BY CountTasks DEF Holders
<1>2. QED
  BY <1>1, PoolAssumption DEF IInv, CountInv

LEMMA WorkerStarted ==
  ASSUME IInv, NEW t \in Tasks, t \notin Live,
         sem' = sem, inflight' = inflight + 1, Holders' = Holders, Live' = Live \cup {t}
  PROVE CountInv'
<1>1. Cardinality(Live') = Cardinality(Live) + 1 /\ Cardinality(Live) \in Nat
  BY CountTasks DEF Live
<1>2. QED
  BY <1>1 DEF IInv, CountInv

LEMMA CountStep == IInv /\ [Next]_vars => CountInv'
<1> SUFFICES ASSUME IInv, [Next]_vars PROVE CountInv'
  OBVIOUS
<1>1. ASSUME NEW t \in Tasks, SubmitEnter(t) PROVE CountInv'
  <2>1. UNCHANGED <<sem, inflight>> /\ Holders' = Holders /\ Live' = Live
    BY <1>1 DEF SubmitEnter, workerVars, IInv, TypeOK, ControlInv, Holders, Live, WillDrain
  <2>2. QED
    BY <2>1, CountFrame
<1>2. ASSUME NEW t \in Tasks, SubmitToken(t) PROVE CountInv'
  <2>1. CASE sem < MaxConcurrency
    <3>1. sem' = sem + 1 /\ inflight' = inflight /\ t \notin Holders
      BY <1>2, <2>1 DEF SubmitToken, IInv, TypeOK, ControlInv, Holders, Live, WillDrain
    <3>2. Holders' = Holders \cup {t} /\ Live' = Live
      BY <1>2, <2>1 DEF SubmitToken, workerVars, IInv, TypeOK, ControlInv, Holders, Live, WillDrain
    <3>3. QED
      BY <2>1, <3>1, <3>2, TokenTaken
  <2>2. CASE ~(sem < MaxConcurrency)
    <3>1. UNCHANGED <<sem, inflight>> /\ Holders' = Holders /\ Live' = Live
      BY <1>2, <2>2 DEF SubmitToken, workerVars, IInv, TypeOK, ControlInv, Holders, Live, WillDrain
    <3>2. QED
      BY <3>1, CountFrame
  <2>3. QED
    BY <2>1, <2>2
<1>3. ASSUME NEW t \in Tasks, SubmitStart(t) PROVE CountInv'
  <2>1. sem' = sem /\ inflight' = inflight + 1 /\ t \notin Live
    BY <1>3 DEF SubmitStart, IInv, TypeOK, ControlInv, Holders, Live, WillDrain
  <2>2. Holders' = Holders /\ Live' = Live \cup {t}
    BY <1>3 DEF SubmitStart, IInv, TypeOK, ControlInv, Holders, Live, WillDrain
  <2>3. QED
    BY <2>1, <2>2, WorkerStarted
<1>4. ASSUME NEW t \in Tasks, SubmitEnqueue(t) PROVE CountInv'
  <2>1. UNCHANGED <<sem, inflight>> /\ Holders' = Holders /\ Live' = Live
    BY <1>4 DEF SubmitEnqueue, workerVars, IInv, TypeOK, ControlInv, Holders, Live, WillDrain
  <2>2. QED
    BY <2>1, CountFrame
<1>5. ASSUME NEW t \in Tasks, SubmitEnsure(t) PROVE CountInv'
  <2>1. CASE sem < MaxConcurrency
    <3>1. sem' = sem + 1 /\ inflight' = inflight /\ t \notin Holders
      BY <1>5, <2>1 DEF SubmitEnsure, IInv, TypeOK, ControlInv, Holders, Live, WillDrain
    <3>2. Holders' = Holders \cup {t} /\ Live' = Live
      BY <1>5, <2>1 DEF SubmitEnsure, workerVars, IInv, TypeOK, ControlInv, Holders, Live, WillDrain
    <3>3. QED
      BY <2>1, <3>1, <3>2, TokenTaken
  <2>2. CASE ~(sem < MaxConcurrency)
    <3>1. UNCHANGED <<sem, inflight>> /\ Holders' = Holders /\ Live' = Live
      BY <1>5, <2>2 DEF SubmitEnsure, workerVars, IInv, TypeOK, ControlInv, Holders, Live, WillDrain
    <3>2. QED
      BY <3>1, CountFrame
  <2>3. QED
    BY <2>1, <2>2
<1>6. ASSUME NEW t \in Tasks, SubmitStartDrainer(t) PROVE CountInv'
  <2>1. sem' = sem /\ inflight' = inflight + 1 /\ t \notin Live
    BY <1>6 DEF SubmitStartDrainer, IInv, TypeOK, ControlInv, Holders, Live, WillDrain
  <2>2. Holders' = Holders /\ Live' = Live \cup {t}
    BY <1>6 DEF SubmitStartDrainer, IInv, TypeOK, ControlInv, Holders, Live, WillDrain
  <2>3. QED
    BY <2>1, <2>2, WorkerStarted
<1>7. ASSUME NEW t \in Tasks, WorkerRun(t) PROVE CountInv'
  <2>1. UNCHANGED <<sem, inflight>> /\ Holders' = Holders /\ Live' = Live
    BY <1>7 DEF WorkerRun, workerVars, IInv, TypeOK, ControlInv, Holders, Live, WillDrain
  <2>2. QED
    BY <2>1, CountFrame
<1>8. ASSUME NEW t \in Tasks, WorkerDrain(t) PROVE CountInv'
  <2>1. UNCHANGED <<sem, inflight>> /\ Holders' = Holders /\ Live' = Live
    BY <1>8 DEF WorkerDrain, workerVars, IInv, TypeOK, ControlInv, Holders, Live, WillDrain
  <2>2. QED
    BY <2>1, CountFrame
<1>9. ASSUME NEW t \in Tasks, WorkerExit(t) PROVE CountInv'
  <2>1. CASE queue # <<>>
    <3>1. UNCHANGED <<sem, inflight>> /\ Holders' = Holders /\ Live' = Live
      BY <1>9, <2>1 DEF WorkerExit, IInv, TypeOK, ControlInv, Holders, Live, WillDrain
    <3>2. QED
      BY <3>1, CountFrame
  <2>2. CASE queue = <<>>
    <3>1. sem' = sem - 1 /\ inflight' = inflight /\ Live' = Live
      BY <1>9, <2>2 DEF WorkerExit, IInv, TypeOK, ControlInv, Holders, Live, WillDrain
    <3>2. t \in Holders /\ Holders' = Holders \ {t} /\ Holders \in SUBSET Tasks
      BY <1>9, <2>2 DEF WorkerExit, IInv, TypeOK, ControlInv, Holders, Live, WillDrain
    <3>3. Cardinality(Holders') = Cardinality(Holders) - 1 /\ Cardinality(Holders) \in Nat
      BY <3>2, CountTasks
    <3>4. QED
      BY <3>1, <3>3, PoolAssumption DEF IInv, CountInv
  <2>3. QED
    BY <2>1, <2>2
<1>10. ASSUME NEW t \in Tasks, WorkerDone(t) PROVE CountInv'
  <2>1. sem' = sem /\ inflight' = inflight - 1 /\ Holders' = Holders
    BY <1>10 DEF WorkerDone, IInv, TypeOK, ControlInv, Holders, Live, WillDrain
  <2>2. t \in Live /\ Live' = Live \ {t} /\ Live \in SUBSET Tasks
    BY <1>10 DEF WorkerDone, IInv, TypeOK, ControlInv, Holders, Live, WillDrain
  <2>3. Cardinality(Live') = Cardinality(Live) - 1
    BY <2>2, CountTasks
  <2>4. QED
    BY <2>1, <2>3 DEF IInv, CountInv
<1>11. ASSUME NEW d \in Drainers, DrainCall(d) PROVE CountInv'
  <2>1. UNCHANGED <<sem, inflight>> /\ Holders' = Holders /\ Live' = Live
    BY <1>11 DEF DrainCall, workerVars, IInv, TypeOK, ControlInv, Holders, Live, WillDrain
  <2>2. QED
    BY <2>1, CountFrame
<1>12. ASSUME NEW d \in Drainers, DrainBarrier(d) PROVE CountInv'
  <2>1. UNCHANGED <<sem, inflight>> /\ Holders' = Holders /\ Live' = Live
    BY <1>12 DEF DrainBarrier, workerVars, IInv, TypeOK, ControlInv, Holders, Live, WillDrain
  <2>2. QED
    BY <2>1, CountFrame
<1>13. ASSUME NEW d \in Drainers, DrainPop(d) PROVE CountInv'
  <2>1. UNCHANGED <<sem, inflight>> /\ Holders' = Holders /\ Live' = Live
    BY <1>13 DEF DrainPop, workerVars, IInv, TypeOK, ControlInv, Holders, Live, WillDrain
  <2>2. QED
    BY <2>1, CountFrame
<1>14. ASSUME NEW d \in Drainers, DrainRun(d) PROVE CountInv'
  <2>1. UNCHANGED <<sem, inflight>> /\ Holders' = Holders /\ Live' = Live
    BY <1>14 DEF DrainRun, workerVars, IInv, TypeOK, ControlInv, Holders, Live, WillDrain
  <2>2. QED
    BY <2>1, CountFrame
<1>15. ASSUME NEW d \in Drainers, DrainReturn(d) PROVE CountInv'
  <2>1. UNCHANGED <<sem, inflight>> /\ Holders' = Holders /\ Live' = Live
    BY <1>15 DEF DrainReturn, workerVars, IInv, TypeOK, ControlInv, Holders, Live, WillDrain
  <2>2. QED
    BY <2>1, CountFrame
<1>16. ASSUME NEW d \in Drainers, DrainExpire(d) PROVE CountInv'
  <2>1. UNCHANGED <<sem, inflight>> /\ Holders' = Holders /\ Live' = Live
    BY <1>16 DEF DrainExpire, workerVars, IInv, TypeOK, ControlInv, Holders, Live, WillDrain
  <2>2. QED
    BY <2>1, CountFrame
<1>17. ASSUME NEW a \in Waiters, WaitCall(a) PROVE CountInv'
  <2>1. UNCHANGED <<sem, inflight>> /\ Holders' = Holders /\ Live' = Live
    BY <1>17 DEF WaitCall, workerVars, IInv, TypeOK, ControlInv, Holders, Live, WillDrain
  <2>2. QED
    BY <2>1, CountFrame
<1>18. ASSUME NEW a \in Waiters, WaitReturn(a) PROVE CountInv'
  <2>1. UNCHANGED <<sem, inflight>> /\ Holders' = Holders /\ Live' = Live
    BY <1>18 DEF WaitReturn, workerVars, IInv, TypeOK, ControlInv, Holders, Live, WillDrain
  <2>2. QED
    BY <2>1, CountFrame
<1>19. CASE UNCHANGED vars
  BY <1>19 DEF vars, workerVars, drainVars, waitVars, IInv, CountInv, Holders, Live, WillDrain
<1>20. QED
  BY <1>1, <1>2, <1>3, <1>4, <1>5, <1>6, <1>7, <1>8, <1>9, <1>10, <1>11, <1>12, <1>13, <1>14,
     <1>15, <1>16, <1>17, <1>18, <1>19 DEF Next, Submit, Worker, Drain

LEMMA ConsumerStep == IInv /\ [Next]_vars => ConsumerInv'
<1> SUFFICES ASSUME IInv, [Next]_vars PROVE ConsumerInv'
  OBVIOUS
<1>1. ASSUME NEW t \in Tasks, SubmitEnter(t) PROVE ConsumerInv'
  <2>1. queue' = queue /\ \A u \in Tasks : WillDrain(u) => WillDrain(u)'
    BY <1>1 DEF SubmitEnter, workerVars, IInv, TypeOK, WillDrain
  <2>2. \A u \in Range(queue) : spc'[u] # "ensure" => spc[u] # "ensure"
    BY <1>1 DEF SubmitEnter, IInv, TypeOK, Range
  <2>3. QED
    BY <2>1, <2>2 DEF IInv, ConsumerInv
<1>2. ASSUME NEW t \in Tasks, SubmitToken(t) PROVE ConsumerInv'
  <2>1. queue' = queue /\ \A u \in Tasks : WillDrain(u) => WillDrain(u)'
    BY <1>2 DEF SubmitToken, workerVars, IInv, TypeOK, WillDrain
  <2>2. \A u \in Range(queue) : spc'[u] # "ensure" => spc[u] # "ensure"
    BY <1>2 DEF SubmitToken, IInv, TypeOK, Range
  <2>3. QED
    BY <2>1, <2>2 DEF IInv, ConsumerInv
<1>3. ASSUME NEW t \in Tasks, SubmitStart(t) PROVE ConsumerInv'
  <2>1. WillDrain(t)'
    BY <1>3 DEF SubmitStart, workerVars, IInv, TypeOK, WillDrain
  <2>2. QED
    BY <2>1 DEF ConsumerInv
<1>4. ASSUME NEW t \in Tasks, SubmitEnqueue(t) PROVE ConsumerInv'
  <2>1. \A u \in Tasks : u # t => spc'[u] = spc[u]
    BY <1>4 DEF SubmitEnqueue, IInv, TypeOK
  <2>2. (\E u \in Tasks : WillDrain(u)) => \E u \in Tasks : WillDrain(u)'
    BY <1>4, <2>1 DEF SubmitEnqueue, workerVars, WillDrain
  <2>3. CASE Room
    <3>1. Range(queue') = Range(queue) \cup {t} /\ spc'[t] = "ensure"
      BY <1>4, <2>3, PushQueue DEF SubmitEnqueue, IInv, TypeOK
    <3>2. \A u \in Range(queue) : spc[u] # "ensure"
      BY <1>4 DEF SubmitEnqueue, ExitLocked, IInv, TypeOK, Range
    <3>3. QED
      BY <2>2, <3>1, <3>2 DEF IInv, ConsumerInv
  <2>4. CASE ~Room
    <3>1. queue' = queue
      BY <1>4, <2>4 DEF SubmitEnqueue
    <3>2. spc[t] # "ensure" /\ Range(queue) \subseteq Tasks
      BY <1>4 DEF SubmitEnqueue, IInv, TypeOK, Range
    <3>3. QED
      BY <2>1, <2>2, <3>1, <3>2 DEF IInv, ConsumerInv
  <2>5. QED
    BY <2>3, <2>4
<1>5. ASSUME NEW t \in Tasks, SubmitEnsure(t) PROVE ConsumerInv'
  <2>1. CASE sem < MaxConcurrency
    BY <1>5, <2>1 DEF SubmitEnsure, IInv, TypeOK, ConsumerInv, WillDrain
  <2>2. CASE ~(sem < MaxConcurrency)
    <3>1. Cardinality(Holders) # 0
      BY <2>2, PoolAssumption DEF IInv, TypeOK, CountInv
    <3>2. Holders # {}
      BY <3>1, CountTasks DEF Holders
    <3>3. PICK u \in Tasks : WillDrain(u)
      BY <3>2 DEF Holders
    <3>4. WillDrain(u)'
      BY <1>5, <2>2, <3>3 DEF SubmitEnsure, workerVars, IInv, TypeOK, WillDrain
    <3>5. QED
      BY <3>4 DEF ConsumerInv
  <2>3. QED
    BY <2>1, <2>2
<1>6. ASSUME NEW t \in Tasks, SubmitStartDrainer(t) PROVE ConsumerInv'
  <2>1. WillDrain(t)'
    BY <1>6 DEF SubmitStartDrainer, workerVars, IInv, TypeOK, WillDrain
  <2>2. QED
    BY <2>1 DEF ConsumerInv
<1>7. ASSUME NEW t \in Tasks, WorkerRun(t) PROVE ConsumerInv'
  <2>1. WillDrain(t)'
    BY <1>7 DEF WorkerRun, workerVars, IInv, TypeOK, WillDrain
  <2>2. QED
    BY <2>1 DEF ConsumerInv
<1>8. ASSUME NEW t \in Tasks, WorkerDrain(t) PROVE ConsumerInv'
  <2>1. WillDrain(t)'
    BY <1>8 DEF WorkerDrain, workerVars, IInv, TypeOK, WillDrain
  <2>2. QED
    BY <2>1 DEF ConsumerInv
<1>9. ASSUME NEW t \in Tasks, WorkerExit(t) PROVE ConsumerInv'
  <2>1. CASE queue # <<>>
    <3>1. WillDrain(t)'
      BY <1>9, <2>1 DEF WorkerExit, IInv, TypeOK, WillDrain
    <3>2. QED
      BY <3>1 DEF ConsumerInv
  <2>2. CASE queue = <<>>
    <3>1. Range(queue') = {}
      BY <1>9, <2>2, EmptyQueue DEF WorkerExit
    <3>2. QED
      BY <3>1 DEF ConsumerInv
  <2>3. QED
    BY <2>1, <2>2
<1>10. ASSUME NEW t \in Tasks, WorkerDone(t) PROVE ConsumerInv'
  <2>1. queue' = queue /\ spc' = spc /\ \A u \in Tasks : WillDrain(u) => WillDrain(u)'
    BY <1>10 DEF WorkerDone, IInv, TypeOK, WillDrain
  <2>2. QED
    BY <2>1 DEF IInv, ConsumerInv
<1>11. ASSUME NEW d \in Drainers, DrainCall(d) PROVE ConsumerInv'
  BY <1>11 DEF DrainCall, workerVars, IInv, TypeOK, ControlInv, ConsumerInv, WillDrain
<1>12. ASSUME NEW d \in Drainers, DrainBarrier(d) PROVE ConsumerInv'
  BY <1>12 DEF DrainBarrier, workerVars, IInv, TypeOK, ControlInv, ConsumerInv, WillDrain
<1>13. ASSUME NEW d \in Drainers, DrainPop(d) PROVE ConsumerInv'
  <2>1. Range(queue') \subseteq Range(queue)
    BY <1>13, PopQueue DEF DrainPop, IInv
  <2>2. QED
    BY <1>13, <2>1 DEF DrainPop, workerVars, IInv, ConsumerInv, WillDrain
<1>14. ASSUME NEW d \in Drainers, DrainRun(d) PROVE ConsumerInv'
  BY <1>14 DEF DrainRun, workerVars, IInv, TypeOK, ControlInv, ConsumerInv, WillDrain
<1>15. ASSUME NEW d \in Drainers, DrainReturn(d) PROVE ConsumerInv'
  BY <1>15 DEF DrainReturn, workerVars, IInv, TypeOK, ControlInv, ConsumerInv, WillDrain
<1>16. ASSUME NEW d \in Drainers, DrainExpire(d) PROVE ConsumerInv'
  BY <1>16 DEF DrainExpire, workerVars, IInv, TypeOK, ControlInv, ConsumerInv, WillDrain
<1>17. ASSUME NEW a \in Waiters, WaitCall(a) PROVE ConsumerInv'
  BY <1>17 DEF WaitCall, workerVars, IInv, TypeOK, ControlInv, ConsumerInv, WillDrain
<1>18. ASSUME NEW a \in Waiters, WaitReturn(a) PROVE ConsumerInv'
  BY <1>18 DEF WaitReturn, workerVars, IInv, TypeOK, ControlInv, ConsumerInv, WillDrain
<1>19. CASE UNCHANGED vars
  BY <1>19 DEF vars, workerVars, drainVars, waitVars, IInv, ConsumerInv, WillDrain
<1>20. QED
  BY <1>1, <1>2, <1>3, <1>4, <1>5, <1>6, <1>7, <1>8, <1>9, <1>10, <1>11, <1>12, <1>13, <1>14,
     <1>15, <1>16, <1>17, <1>18, <1>19 DEF Next, Submit, Worker, Drain

LEMMA CloseStep == IInv /\ [Next]_vars => CloseInv'
<1> SUFFICES ASSUME IInv, [Next]_vars PROVE CloseInv'
  OBVIOUS
<1>1. ASSUME NEW t \in Tasks, SubmitEnter(t) PROVE CloseInv'
  <2>1. CASE stopped
    BY <1>1, <2>1 DEF SubmitEnter, workerVars, drainVars, IInv, TypeOK, ControlInv, CloseInv, Gated
  <2>2. CASE ~stopped
    BY <1>1, <2>2 DEF SubmitEnter, drainVars, IInv, CloseInv
  <2>3. QED
    BY <2>1, <2>2
<1>2. ASSUME NEW t \in Tasks, SubmitToken(t) PROVE CloseInv'
  <2>1. \A d \in Drainers : dpc[d] \in {"idle", "barrier"}
    BY <1>2 DEF SubmitToken, IInv, TypeOK, ControlInv, CloseInv, Gated
  <2>2. UNCHANGED <<dpc, stopped>>
    BY <1>2 DEF SubmitToken, drainVars
  <2>3. QED
    BY <2>1, <2>2 DEF IInv, CloseInv
<1>3. ASSUME NEW t \in Tasks, SubmitStart(t) PROVE CloseInv'
  <2>1. \A d \in Drainers : dpc[d] \in {"idle", "barrier"}
    BY <1>3 DEF SubmitStart, IInv, TypeOK, ControlInv, CloseInv, Gated
  <2>2. UNCHANGED <<dpc, stopped>>
    BY <1>3 DEF SubmitStart, drainVars
  <2>3. QED
    BY <2>1, <2>2 DEF IInv, CloseInv
<1>4. ASSUME NEW t \in Tasks, SubmitEnqueue(t) PROVE CloseInv'
  <2>1. \A d \in Drainers : dpc[d] \in {"idle", "barrier"}
    BY <1>4 DEF SubmitEnqueue, IInv, TypeOK, ControlInv, CloseInv, Gated
  <2>2. UNCHANGED <<dpc, stopped>>
    BY <1>4 DEF SubmitEnqueue, drainVars
  <2>3. QED
    BY <2>1, <2>2 DEF IInv, CloseInv
<1>5. ASSUME NEW t \in Tasks, SubmitEnsure(t) PROVE CloseInv'
  <2>1. \A d \in Drainers : dpc[d] \in {"idle", "barrier"}
    BY <1>5 DEF SubmitEnsure, IInv, TypeOK, ControlInv, CloseInv, Gated
  <2>2. UNCHANGED <<dpc, stopped>>
    BY <1>5 DEF SubmitEnsure, drainVars
  <2>3. QED
    BY <2>1, <2>2 DEF IInv, CloseInv
<1>6. ASSUME NEW t \in Tasks, SubmitStartDrainer(t) PROVE CloseInv'
  <2>1. \A d \in Drainers : dpc[d] \in {"idle", "barrier"}
    BY <1>6 DEF SubmitStartDrainer, IInv, TypeOK, ControlInv, CloseInv, Gated
  <2>2. UNCHANGED <<dpc, stopped>>
    BY <1>6 DEF SubmitStartDrainer, drainVars
  <2>3. QED
    BY <2>1, <2>2 DEF IInv, CloseInv
<1>7. ASSUME NEW t \in Tasks, WorkerRun(t) PROVE CloseInv'
  BY <1>7 DEF WorkerRun, workerVars, drainVars, IInv, TypeOK, ControlInv, CloseInv, Gated
<1>8. ASSUME NEW t \in Tasks, WorkerDrain(t) PROVE CloseInv'
  <2>1. CASE queue # <<>>
    <3>1. \A d \in Drainers : dpc[d] \notin {"wait", "returned"}
      BY <2>1 DEF IInv, CloseInv
    <3>2. QED
      BY <1>8, <2>1, <3>1 DEF WorkerDrain, drainVars, IInv, TypeOK, ControlInv, CloseInv, Gated
  <2>2. CASE queue = <<>>
    BY <1>8, <2>2 DEF WorkerDrain, drainVars, IInv, TypeOK, ControlInv, CloseInv, Gated
  <2>3. QED
    BY <2>1, <2>2
<1>9. ASSUME NEW t \in Tasks, WorkerExit(t) PROVE CloseInv'
  <2>1. CASE queue # <<>>
    <3>1. \A d \in Drainers : dpc[d] \notin {"wait", "returned"}
      BY <2>1 DEF IInv, CloseInv
    <3>2. QED
      BY <1>9, <2>1, <3>1 DEF WorkerExit, drainVars, IInv, TypeOK, ControlInv, CloseInv, Gated
  <2>2. CASE queue = <<>>
    BY <1>9, <2>2 DEF WorkerExit, drainVars, IInv, TypeOK, ControlInv, CloseInv, Gated
  <2>3. QED
    BY <2>1, <2>2
<1>10. ASSUME NEW t \in Tasks, WorkerDone(t) PROVE CloseInv'
  BY <1>10 DEF WorkerDone, workerVars, drainVars, IInv, TypeOK, ControlInv, CloseInv, Gated
<1>11. ASSUME NEW d \in Drainers, DrainCall(d) PROVE CloseInv'
  BY <1>11 DEF DrainCall, workerVars, drainVars, IInv, TypeOK, ControlInv, CloseInv, Gated
<1>12. ASSUME NEW d \in Drainers, DrainBarrier(d) PROVE CloseInv'
  BY <1>12 DEF DrainBarrier, GateClear, workerVars, IInv, TypeOK, ControlInv, CloseInv, Gated
<1>13. ASSUME NEW d \in Drainers, DrainPop(d) PROVE CloseInv'
  <2>1. CASE queue # <<>>
    <3>1. \A e \in Drainers : dpc[e] \notin {"wait", "returned"}
      BY <2>1 DEF IInv, CloseInv
    <3>2. QED
      BY <1>13, <2>1, <3>1 DEF DrainPop, workerVars, IInv, TypeOK, ControlInv, CloseInv, Gated
  <2>2. CASE queue = <<>>
    BY <1>13, <2>2 DEF DrainPop, workerVars, IInv, TypeOK, ControlInv, CloseInv, Gated
  <2>3. QED
    BY <2>1, <2>2
<1>14. ASSUME NEW d \in Drainers, DrainRun(d) PROVE CloseInv'
  BY <1>14 DEF DrainRun, workerVars, drainVars, IInv, TypeOK, ControlInv, CloseInv, Gated
<1>15. ASSUME NEW d \in Drainers, DrainReturn(d) PROVE CloseInv'
  <2>1. Live = {}
    <3>1. Cardinality(Live) = 0
      BY <1>15 DEF DrainReturn, IInv, CountInv
    <3>2. QED
      BY <1>15, <3>1, CountTasks, PoolAssumption, FS_Subset, FS_EmptySet DEF Live
  <2>2. \A t \in Tasks : wpc[t] = "none"
    BY <2>1 DEF Live
  <2>3. QED
    BY <1>15, <2>2 DEF DrainReturn, workerVars, IInv, TypeOK, ControlInv, CloseInv, Gated
<1>16. ASSUME NEW d \in Drainers, DrainExpire(d) PROVE CloseInv'
  BY <1>16 DEF DrainExpire, workerVars, drainVars, IInv, TypeOK, ControlInv, CloseInv, Gated
<1>17. ASSUME NEW a \in Waiters, WaitCall(a) PROVE CloseInv'
  BY <1>17 DEF WaitCall, workerVars, drainVars, IInv, TypeOK, ControlInv, CloseInv, Gated
<1>18. ASSUME NEW a \in Waiters, WaitReturn(a) PROVE CloseInv'
  BY <1>18 DEF WaitReturn, workerVars, drainVars, IInv, TypeOK, ControlInv, CloseInv, Gated
<1>19. CASE UNCHANGED vars
  BY <1>19 DEF vars, workerVars, drainVars, waitVars, IInv, CloseInv, Gated
<1>20. QED
  BY <1>1, <1>2, <1>3, <1>4, <1>5, <1>6, <1>7, <1>8, <1>9, <1>10, <1>11, <1>12, <1>13, <1>14,
     <1>15, <1>16, <1>17, <1>18, <1>19 DEF Next, Submit, Worker, Drain

LEMMA PlaceFrame ==
  ASSUME IInv, UNCHANGED <<queue, cur, dcur, done>>,
         \A t \in Tasks : Taken(t)' <=> Taken(t)
  PROVE PlaceInv'
  BY DEF IInv, PlaceInv, InHands

LEMMA HandsDistinct ==
  ASSUME IInv
  PROVE /\ \A v, w \in Tasks : cur[v] # Nil /\ cur[v] = cur[w] => v = w
        /\ \A d, e \in Drainers : dcur[d] # Nil /\ dcur[d] = dcur[e] => d = e
        /\ \A w \in Tasks, d \in Drainers : cur[w] # Nil => cur[w] # dcur[d]
  BY DEF IInv, PlaceInv

\* A worker or a Drain takes the first task of the queue.
LEMMA WorkerTakes ==
  ASSUME IInv, NEW w \in Tasks, queue # <<>>, cur[w] = Nil, queue' = Tail(queue),
         cur' = [cur EXCEPT ![w] = Head(queue)], UNCHANGED <<spc, dcur, done>>
  PROVE PlaceInv'
<1> DEFINE x == Head(queue)
<1>1. /\ x \in Tasks /\ x \in Range(queue) /\ Range(queue) = Range(queue') \cup {x}
      /\ IsInjective(queue') /\ x \notin Range(queue')
  BY PopQueue DEF IInv, PlaceInv
<1>2. x # Nil /\ ~InHands(x) /\ x \notin done
  BY <1>1, PoolAssumption DEF IInv, PlaceInv
<1>3. cur'[w] = x /\ \A v \in Tasks : v # w => cur'[v] = cur[v]
  BY DEF IInv, TypeOK
<1> HIDE DEF x
<1>4. \A t \in Tasks : InHands(t)' <=> InHands(t) \/ t = x
  BY <1>2, <1>3, PoolAssumption DEF InHands
<1>5. \A t \in Tasks : Taken(t)' <=> t \in Range(queue') \/ InHands(t)' \/ t \in done'
  BY <1>1, <1>4 DEF IInv, PlaceInv, Taken
<1>6. \A t \in Tasks : InHands(t)' => t \notin Range(queue')
  BY <1>1, <1>4 DEF IInv, PlaceInv
<1>7. \A t \in done' : ~InHands(t)' /\ t \notin Range(queue')
  BY <1>1, <1>2, <1>4 DEF IInv, TypeOK, PlaceInv
<1>8. /\ \A u, v \in Tasks : cur'[u] # Nil /\ cur'[u] = cur'[v] => u = v
      /\ \A v \in Tasks, d \in Drainers : cur'[v] # Nil => cur'[v] # dcur'[d]
  BY <1>2, <1>3, HandsDistinct DEF InHands
<1>9. QED
  BY <1>1, <1>5, <1>6, <1>7, <1>8, HandsDistinct DEF PlaceInv

LEMMA DrainTakes ==
  ASSUME IInv, NEW d \in Drainers, queue # <<>>, dcur[d] = Nil, queue' = Tail(queue),
         dcur' = [dcur EXCEPT ![d] = Head(queue)], UNCHANGED <<spc, cur, done>>
  PROVE PlaceInv'
<1> DEFINE x == Head(queue)
<1>1. /\ x \in Tasks /\ x \in Range(queue) /\ Range(queue) = Range(queue') \cup {x}
      /\ IsInjective(queue') /\ x \notin Range(queue')
  BY PopQueue DEF IInv, PlaceInv
<1>2. x # Nil /\ ~InHands(x) /\ x \notin done
  BY <1>1, PoolAssumption DEF IInv, PlaceInv
<1>3. dcur'[d] = x /\ \A e \in Drainers : e # d => dcur'[e] = dcur[e]
  BY DEF IInv, TypeOK
<1> HIDE DEF x
<1>4. \A t \in Tasks : InHands(t)' <=> InHands(t) \/ t = x
  BY <1>2, <1>3, PoolAssumption DEF InHands
<1>5. \A t \in Tasks : Taken(t)' <=> t \in Range(queue') \/ InHands(t)' \/ t \in done'
  BY <1>1, <1>4 DEF IInv, PlaceInv, Taken
<1>6. \A t \in Tasks : InHands(t)' => t \notin Range(queue')
  BY <1>1, <1>4 DEF IInv, PlaceInv
<1>7. \A t \in done' : ~InHands(t)' /\ t \notin Range(queue')
  BY <1>1, <1>2, <1>4 DEF IInv, TypeOK, PlaceInv
<1>8. /\ \A e, f \in Drainers : dcur'[e] # Nil /\ dcur'[e] = dcur'[f] => e = f
      /\ \A v \in Tasks, e \in Drainers : cur'[v] # Nil => cur'[v] # dcur'[e]
  BY <1>2, <1>3, HandsDistinct DEF InHands
<1>9. QED
  BY <1>1, <1>5, <1>6, <1>7, <1>8, HandsDistinct DEF PlaceInv

LEMMA PlaceStep == IInv /\ [Next]_vars => PlaceInv'
<1> SUFFICES ASSUME IInv, [Next]_vars PROVE PlaceInv'
  OBVIOUS
<1>1. ASSUME NEW t \in Tasks, SubmitEnter(t) PROVE PlaceInv'
  <2>1. UNCHANGED <<queue, cur, dcur, done>> /\ \A u \in Tasks : Taken(u)' <=> Taken(u)
    BY <1>1 DEF SubmitEnter, workerVars, drainVars, waitVars, IInv, TypeOK, Taken
  <2>2. QED
    BY <2>1, PlaceFrame
<1>2. ASSUME NEW t \in Tasks, SubmitToken(t) PROVE PlaceInv'
  <2>1. UNCHANGED <<queue, cur, dcur, done>> /\ \A u \in Tasks : Taken(u)' <=> Taken(u)
    BY <1>2 DEF SubmitToken, workerVars, drainVars, waitVars, IInv, TypeOK, Taken
  <2>2. QED
    BY <2>1, PlaceFrame
<1>3. ASSUME NEW t \in Tasks, SubmitStart(t) PROVE PlaceInv'
  <2>1. cur[t] = Nil /\ t # Nil /\ ~Taken(t)
    BY <1>3, PoolAssumption DEF SubmitStart, IInv, ControlInv, Taken
  <2>2. t \notin Range(queue) /\ ~InHands(t) /\ t \notin done
    BY <2>1 DEF IInv, PlaceInv
  <2>3. UNCHANGED <<queue, dcur, done>> /\ cur'[t] = t
        /\ \A v \in Tasks : v # t => cur'[v] = cur[v]
    BY <1>3 DEF SubmitStart, drainVars, IInv, TypeOK
  <2>4. \A u \in Tasks : (InHands(u)' <=> InHands(u) \/ u = t) /\ (Taken(u)' <=> Taken(u) \/ u = t)
    BY <1>3, <2>1, <2>3, PoolAssumption DEF SubmitStart, IInv, TypeOK, InHands, Taken
  <2>5. /\ \A v, w \in Tasks : cur'[v] # Nil /\ cur'[v] = cur'[w] => v = w
        /\ \A w \in Tasks, d \in Drainers : cur'[w] # Nil => cur'[w] # dcur'[d]
    BY <2>2, <2>3, HandsDistinct DEF InHands
  <2>6. \A u \in done' : ~InHands(u)' /\ u \notin Range(queue')
    BY <2>2, <2>3, <2>4 DEF IInv, TypeOK, PlaceInv
  <2>7. QED
    BY <2>2, <2>3, <2>4, <2>5, <2>6, HandsDistinct DEF IInv, PlaceInv
<1>4. ASSUME NEW t \in Tasks, SubmitEnqueue(t) PROVE PlaceInv'
  <2>1. CASE Room
    <3>1. ~Taken(t) /\ UNCHANGED <<cur, dcur, done>> /\ queue' = Append(queue, t)
      BY <1>4, <2>1 DEF SubmitEnqueue, workerVars, drainVars, Taken
    <3>2. t \notin Range(queue) /\ ~InHands(t) /\ t \notin done
      BY <3>1 DEF IInv, PlaceInv
    <3>3. Range(queue') = Range(queue) \cup {t} /\ IsInjective(queue')
      BY <3>1, <3>2, PushQueue DEF IInv, PlaceInv
    <3>4. \A u \in Tasks : (InHands(u)' <=> InHands(u)) /\ (Taken(u)' <=> Taken(u) \/ u = t)
      BY <1>4, <2>1, <3>1 DEF SubmitEnqueue, IInv, TypeOK, InHands, Taken
    <3>5. \A u \in done' : ~InHands(u)' /\ u \notin Range(queue')
      BY <3>1, <3>2, <3>3, <3>4 DEF IInv, TypeOK, PlaceInv
    <3>6. QED
      BY <3>1, <3>2, <3>3, <3>4, <3>5, HandsDistinct DEF IInv, PlaceInv
  <2>2. CASE ~Room
    <3>1. UNCHANGED <<queue, cur, dcur, done>> /\ \A u \in Tasks : Taken(u)' <=> Taken(u)
      BY <1>4, <2>2 DEF SubmitEnqueue, workerVars, drainVars, IInv, TypeOK, Taken
    <3>2. QED
      BY <3>1, PlaceFrame
  <2>3. QED
    BY <2>1, <2>2
<1>5. ASSUME NEW t \in Tasks, SubmitEnsure(t) PROVE PlaceInv'
  <2>1. UNCHANGED <<queue, cur, dcur, done>> /\ \A u \in Tasks : Taken(u)' <=> Taken(u)
    BY <1>5 DEF SubmitEnsure, workerVars, drainVars, waitVars, IInv, TypeOK, Taken
  <2>2. QED
    BY <2>1, PlaceFrame
<1>6. ASSUME NEW t \in Tasks, SubmitStartDrainer(t) PROVE PlaceInv'
  <2>1. UNCHANGED <<queue, cur, dcur, done>> /\ \A u \in Tasks : Taken(u)' <=> Taken(u)
    BY <1>6 DEF SubmitStartDrainer, workerVars, drainVars, waitVars, IInv, TypeOK, Taken
  <2>2. QED
    BY <2>1, PlaceFrame
<1>7. ASSUME NEW t \in Tasks, WorkerRun(t) PROVE PlaceInv'
  <2> DEFINE x == cur[t]
  <2>1. x \in Tasks /\ InHands(x) /\ x # Nil
    BY <1>7, PoolAssumption DEF WorkerRun, IInv, TypeOK, ControlInv, InHands
  <2>2. x \notin Range(queue) /\ x \notin done
    BY <2>1 DEF IInv, PlaceInv
  <2>3. UNCHANGED <<queue, spc, dcur>> /\ done' = done \cup {x} /\ cur'[t] = Nil
        /\ \A v \in Tasks : v # t => cur'[v] = cur[v]
    BY <1>7 DEF WorkerRun, drainVars, workerVars, IInv, TypeOK
  <2>4. \A u \in Tasks : InHands(u)' <=> InHands(u) /\ u # x
    BY <2>1, <2>3, HandsDistinct, PoolAssumption DEF InHands
  <2> HIDE DEF x
  <2>5. /\ \A v, w \in Tasks : cur'[v] # Nil /\ cur'[v] = cur'[w] => v = w
        /\ \A e, f \in Drainers : dcur'[e] # Nil /\ dcur'[e] = dcur'[f] => e = f
        /\ \A w \in Tasks, e \in Drainers : cur'[w] # Nil => cur'[w] # dcur'[e]
    BY <2>3, HandsDistinct
  <2>6. \A u \in done' : ~InHands(u)' /\ u \notin Range(queue')
    BY <2>1, <2>2, <2>3, <2>4 DEF IInv, TypeOK, PlaceInv
  <2>7. \A u \in Tasks : Taken(u)' <=> u \in Range(queue') \/ InHands(u)' \/ u \in done'
    BY <2>1, <2>3, <2>4 DEF IInv, PlaceInv, Taken
  <2>8. QED
    BY <2>3, <2>4, <2>5, <2>6, <2>7 DEF IInv, PlaceInv
<1>8. ASSUME NEW t \in Tasks, WorkerDrain(t) PROVE PlaceInv'
  <2>1. CASE queue # <<>>
    <3>1. cur[t] = Nil /\ queue' = Tail(queue) /\ cur' = [cur EXCEPT ![t] = Head(queue)]
      BY <1>8, <2>1 DEF WorkerDrain, IInv, ControlInv
    <3>2. UNCHANGED <<spc, dcur, done>>
      BY <1>8 DEF WorkerDrain, drainVars
    <3>3. QED
      BY <2>1, <3>1, <3>2, WorkerTakes
  <2>2. CASE queue = <<>>
    <3>1. UNCHANGED <<queue, cur, dcur, done, spc>>
      BY <1>8, <2>2 DEF WorkerDrain, drainVars
    <3>2. QED
      BY <3>1, PlaceFrame DEF Taken
  <2>3. QED
    BY <2>1, <2>2
<1>9. ASSUME NEW t \in Tasks, WorkerExit(t) PROVE PlaceInv'
  <2>1. CASE queue # <<>>
    <3>1. cur[t] = Nil /\ queue' = Tail(queue) /\ cur' = [cur EXCEPT ![t] = Head(queue)]
      BY <1>9, <2>1 DEF WorkerExit, IInv, ControlInv
    <3>2. UNCHANGED <<spc, dcur, done>>
      BY <1>9 DEF WorkerExit, drainVars
    <3>3. QED
      BY <2>1, <3>1, <3>2, WorkerTakes
  <2>2. CASE queue = <<>>
    <3>1. UNCHANGED <<queue, cur, dcur, done, spc>>
      BY <1>9, <2>2 DEF WorkerExit, drainVars
    <3>2. QED
      BY <3>1, PlaceFrame DEF Taken
  <2>3. QED
    BY <2>1, <2>2
<1>10. ASSUME NEW t \in Tasks, WorkerDone(t) PROVE PlaceInv'
  <2>1. UNCHANGED <<queue, cur, dcur, done>> /\ \A u \in Tasks : Taken(u)' <=> Taken(u)
    BY <1>10 DEF WorkerDone, workerVars, drainVars, waitVars, IInv, TypeOK, Taken
  <2>2. QED
    BY <2>1, PlaceFrame
<1>11. ASSUME NEW d \in Drainers, DrainCall(d) PROVE PlaceInv'
  <2>1. UNCHANGED <<queue, cur, dcur, done>> /\ \A u \in Tasks : Taken(u)' <=> Taken(u)
    BY <1>11 DEF DrainCall, workerVars, drainVars, waitVars, IInv, TypeOK, Taken
  <2>2. QED
    BY <2>1, PlaceFrame
<1>12. ASSUME NEW d \in Drainers, DrainBarrier(d) PROVE PlaceInv'
  <2>1. UNCHANGED <<queue, cur, dcur, done>> /\ \A u \in Tasks : Taken(u)' <=> Taken(u)
    BY <1>12 DEF DrainBarrier, workerVars, drainVars, waitVars, IInv, TypeOK, Taken
  <2>2. QED
    BY <2>1, PlaceFrame
<1>13. ASSUME NEW d \in Drainers, DrainPop(d) PROVE PlaceInv'
  <2>1. CASE queue # <<>>
    <3>1. dcur[d] = Nil /\ queue' = Tail(queue) /\ dcur' = [dcur EXCEPT ![d] = Head(queue)]
      BY <1>13, <2>1 DEF DrainPop, IInv, ControlInv
    <3>2. UNCHANGED <<spc, cur, done>>
      BY <1>13 DEF DrainPop, workerVars
    <3>3. QED
      BY <2>1, <3>1, <3>2, DrainTakes
  <2>2. CASE queue = <<>>
    <3>1. UNCHANGED <<queue, cur, dcur, done, spc>>
      BY <1>13, <2>2 DEF DrainPop, workerVars
    <3>2. QED
      BY <3>1, PlaceFrame DEF Taken
  <2>3. QED
    BY <2>1, <2>2
<1>14. ASSUME NEW d \in Drainers, DrainRun(d) PROVE PlaceInv'
  <2> DEFINE x == dcur[d]
  <2>1. x \in Tasks /\ InHands(x) /\ x # Nil
    BY <1>14, PoolAssumption DEF DrainRun, IInv, TypeOK, ControlInv, InHands
  <2>2. x \notin Range(queue) /\ x \notin done
    BY <2>1 DEF IInv, PlaceInv
  <2>3. UNCHANGED <<queue, spc, cur>> /\ done' = done \cup {x} /\ dcur'[d] = Nil
        /\ \A v \in Drainers : v # d => dcur'[v] = dcur[v]
    BY <1>14 DEF DrainRun, drainVars, workerVars, IInv, TypeOK
  <2>4. \A u \in Tasks : InHands(u)' <=> InHands(u) /\ u # x
    BY <2>1, <2>3, HandsDistinct, PoolAssumption DEF InHands
  <2> HIDE DEF x
  <2>5. /\ \A v, w \in Tasks : cur'[v] # Nil /\ cur'[v] = cur'[w] => v = w
        /\ \A e, f \in Drainers : dcur'[e] # Nil /\ dcur'[e] = dcur'[f] => e = f
        /\ \A w \in Tasks, e \in Drainers : cur'[w] # Nil => cur'[w] # dcur'[e]
    BY <2>3, HandsDistinct
  <2>6. \A u \in done' : ~InHands(u)' /\ u \notin Range(queue')
    BY <2>1, <2>2, <2>3, <2>4 DEF IInv, TypeOK, PlaceInv
  <2>7. \A u \in Tasks : Taken(u)' <=> u \in Range(queue') \/ InHands(u)' \/ u \in done'
    BY <2>1, <2>3, <2>4 DEF IInv, PlaceInv, Taken
  <2>8. QED
    BY <2>3, <2>4, <2>5, <2>6, <2>7 DEF IInv, PlaceInv
<1>15. ASSUME NEW d \in Drainers, DrainReturn(d) PROVE PlaceInv'
  <2>1. UNCHANGED <<queue, cur, dcur, done>> /\ \A u \in Tasks : Taken(u)' <=> Taken(u)
    BY <1>15 DEF DrainReturn, workerVars, drainVars, waitVars, IInv, TypeOK, Taken
  <2>2. QED
    BY <2>1, PlaceFrame
<1>16. ASSUME NEW d \in Drainers, DrainExpire(d) PROVE PlaceInv'
  <2>1. UNCHANGED <<queue, cur, dcur, done>> /\ \A u \in Tasks : Taken(u)' <=> Taken(u)
    BY <1>16 DEF DrainExpire, workerVars, drainVars, waitVars, IInv, TypeOK, Taken
  <2>2. QED
    BY <2>1, PlaceFrame
<1>17. ASSUME NEW a \in Waiters, WaitCall(a) PROVE PlaceInv'
  <2>1. UNCHANGED <<queue, cur, dcur, done>> /\ \A u \in Tasks : Taken(u)' <=> Taken(u)
    BY <1>17 DEF WaitCall, workerVars, drainVars, waitVars, IInv, TypeOK, Taken
  <2>2. QED
    BY <2>1, PlaceFrame
<1>18. ASSUME NEW a \in Waiters, WaitReturn(a) PROVE PlaceInv'
  <2>1. UNCHANGED <<queue, cur, dcur, done>> /\ \A u \in Tasks : Taken(u)' <=> Taken(u)
    BY <1>18 DEF WaitReturn, workerVars, drainVars, waitVars, IInv, TypeOK, Taken
  <2>2. QED
    BY <2>1, PlaceFrame
<1>19. CASE UNCHANGED vars
  BY <1>19 DEF vars, workerVars, drainVars, waitVars, IInv, PlaceInv, InHands, Taken
<1>20. QED
  BY <1>1, <1>2, <1>3, <1>4, <1>5, <1>6, <1>7, <1>8, <1>9, <1>10, <1>11, <1>12, <1>13, <1>14,
     <1>15, <1>16, <1>17, <1>18, <1>19 DEF Next, Submit, Worker, Drain

\* A counted worker that will look at the queue again; the tasks that have run
\* or are run by a Drain.
Active == \E u \in Tasks : wpc[u] \in {"run", "drain", "exit"}
Finished == done \cup {dcur[d] : d \in Drainers}

LEMMA WaitFrame ==
  ASSUME IInv, UNCHANGED waitVars, Accepted \subseteq Accepted',
         Range(queue') \cap Accepted \subseteq Range(queue),
         Active => Active' \/ Range(queue') = {},
         \A t \in Tasks : t \in Finished => t \in Finished'
  PROVE WaitInv'
  BY DEF IInv, TypeOK, WaitInv, waitVars, Active, Finished

\* When the counter is 0, no worker is left.
LEMMA NoWorker ==
  ASSUME IInv, inflight = 0
  PROVE \A t \in Tasks : wpc[t] = "none" /\ cur[t] = Nil
<1>1. Cardinality(Live) = 0 /\ IsFiniteSet(Live)
  BY PoolAssumption, FS_Subset DEF IInv, CountInv, Live
<1>2. Live = {}
  BY <1>1, FS_EmptySet
<1>3. QED
  BY <1>2 DEF Live, IInv, TypeOK, ControlInv

LEMMA WaitStep == IInv /\ [Next]_vars => WaitInv'
<1> SUFFICES ASSUME IInv, [Next]_vars PROVE WaitInv'
  OBVIOUS
<1>1. ASSUME NEW t \in Tasks, SubmitEnter(t) PROVE WaitInv'
  <2>1. UNCHANGED waitVars /\ Accepted \subseteq Accepted' /\ queue' = queue
    BY <1>1 DEF SubmitEnter, IInv, TypeOK, Accepted
  <2>2. (Active => Active') /\ \A u \in Tasks : u \in Finished => u \in Finished'
    BY <1>1 DEF SubmitEnter, workerVars, drainVars, IInv, TypeOK, Active, Finished
  <2>3. QED
    BY <2>1, <2>2, WaitFrame
<1>2. ASSUME NEW t \in Tasks, SubmitToken(t) PROVE WaitInv'
  <2>1. UNCHANGED waitVars /\ Accepted \subseteq Accepted' /\ queue' = queue
    BY <1>2 DEF SubmitToken, IInv, TypeOK, Accepted
  <2>2. (Active => Active') /\ \A u \in Tasks : u \in Finished => u \in Finished'
    BY <1>2 DEF SubmitToken, workerVars, drainVars, IInv, TypeOK, Active, Finished
  <2>3. QED
    BY <2>1, <2>2, WaitFrame
<1>3. ASSUME NEW t \in Tasks, SubmitStart(t) PROVE WaitInv'
  <2>1. UNCHANGED waitVars /\ Accepted \subseteq Accepted' /\ queue' = queue
    BY <1>3 DEF SubmitStart, IInv, TypeOK, Accepted
  <2>2. (Active => Active') /\ \A u \in Tasks : u \in Finished => u \in Finished'
    BY <1>3 DEF SubmitStart, workerVars, drainVars, IInv, TypeOK, Active, Finished
  <2>3. QED
    BY <2>1, <2>2, WaitFrame
<1>4. ASSUME NEW t \in Tasks, SubmitEnqueue(t) PROVE WaitInv'
  <2>1. UNCHANGED waitVars /\ Accepted \subseteq Accepted' /\ t \notin Accepted
    BY <1>4 DEF SubmitEnqueue, IInv, TypeOK, Accepted
  <2>2. (Active => Active') /\ \A u \in Tasks : u \in Finished => u \in Finished'
    BY <1>4 DEF SubmitEnqueue, workerVars, drainVars, Active, Finished
  <2>3. Range(queue') \subseteq Range(queue) \cup {t}
    BY <1>4, PushQueue DEF SubmitEnqueue, IInv
  <2>4. QED
    BY <2>1, <2>2, <2>3, WaitFrame
<1>5. ASSUME NEW t \in Tasks, SubmitEnsure(t) PROVE WaitInv'
  <2>1. UNCHANGED waitVars /\ Accepted \subseteq Accepted' /\ queue' = queue
    BY <1>5 DEF SubmitEnsure, IInv, TypeOK, Accepted
  <2>2. (Active => Active') /\ \A u \in Tasks : u \in Finished => u \in Finished'
    BY <1>5 DEF SubmitEnsure, workerVars, drainVars, IInv, TypeOK, Active, Finished
  <2>3. QED
    BY <2>1, <2>2, WaitFrame
<1>6. ASSUME NEW t \in Tasks, SubmitStartDrainer(t) PROVE WaitInv'
  <2>1. UNCHANGED waitVars /\ Accepted \subseteq Accepted' /\ queue' = queue
    BY <1>6 DEF SubmitStartDrainer, IInv, TypeOK, Accepted
  <2>2. (Active => Active') /\ \A u \in Tasks : u \in Finished => u \in Finished'
    BY <1>6 DEF SubmitStartDrainer, workerVars, drainVars, IInv, TypeOK, Active, Finished
  <2>3. QED
    BY <2>1, <2>2, WaitFrame
<1>7. ASSUME NEW t \in Tasks, WorkerRun(t) PROVE WaitInv'
  <2>1. UNCHANGED waitVars /\ Accepted \subseteq Accepted' /\ queue' = queue
    BY <1>7 DEF WorkerRun, IInv, TypeOK, Accepted
  <2>2. (Active => Active') /\ \A u \in Tasks : u \in Finished => u \in Finished'
    BY <1>7 DEF WorkerRun, workerVars, drainVars, IInv, TypeOK, Active, Finished
  <2>3. QED
    BY <2>1, <2>2, WaitFrame
<1>8. ASSUME NEW t \in Tasks, WorkerDrain(t) PROVE WaitInv'
  <2>1. UNCHANGED waitVars /\ Accepted \subseteq Accepted' /\ Range(queue') \subseteq Range(queue)
    BY <1>8, PopQueue DEF WorkerDrain, IInv, Accepted
  <2>2. Active' \/ Range(queue') = {}
    BY <1>8, EmptyQueue DEF WorkerDrain, IInv, TypeOK, Active
  <2>3. \A u \in Tasks : u \in Finished => u \in Finished'
    BY <1>8 DEF WorkerDrain, drainVars, Finished
  <2>4. QED
    BY <2>1, <2>2, <2>3, WaitFrame
<1>9. ASSUME NEW t \in Tasks, WorkerExit(t) PROVE WaitInv'
  <2>1. UNCHANGED waitVars /\ Accepted \subseteq Accepted' /\ Range(queue') \subseteq Range(queue)
    BY <1>9, PopQueue DEF WorkerExit, IInv, Accepted
  <2>2. Active' \/ Range(queue') = {}
    BY <1>9, EmptyQueue DEF WorkerExit, IInv, TypeOK, Active
  <2>3. \A u \in Tasks : u \in Finished => u \in Finished'
    BY <1>9 DEF WorkerExit, drainVars, Finished
  <2>4. QED
    BY <2>1, <2>2, <2>3, WaitFrame
<1>10. ASSUME NEW t \in Tasks, WorkerDone(t) PROVE WaitInv'
  <2>1. UNCHANGED waitVars /\ Accepted \subseteq Accepted' /\ queue' = queue
    BY <1>10 DEF WorkerDone, IInv, TypeOK, Accepted
  <2>2. (Active => Active') /\ \A u \in Tasks : u \in Finished => u \in Finished'
    BY <1>10 DEF WorkerDone, workerVars, drainVars, IInv, TypeOK, Active, Finished
  <2>3. QED
    BY <2>1, <2>2, WaitFrame
<1>11. ASSUME NEW d \in Drainers, DrainCall(d) PROVE WaitInv'
  <2>1. UNCHANGED waitVars /\ Accepted \subseteq Accepted' /\ queue' = queue
    BY <1>11 DEF DrainCall, IInv, TypeOK, Accepted
  <2>2. (Active => Active') /\ \A u \in Tasks : u \in Finished => u \in Finished'
    BY <1>11 DEF DrainCall, workerVars, drainVars, IInv, TypeOK, Active, Finished
  <2>3. QED
    BY <2>1, <2>2, WaitFrame
<1>12. ASSUME NEW d \in Drainers, DrainBarrier(d) PROVE WaitInv'
  <2>1. UNCHANGED waitVars /\ Accepted \subseteq Accepted' /\ queue' = queue
    BY <1>12 DEF DrainBarrier, IInv, TypeOK, Accepted
  <2>2. (Active => Active') /\ \A u \in Tasks : u \in Finished => u \in Finished'
    BY <1>12 DEF DrainBarrier, workerVars, drainVars, IInv, TypeOK, Active, Finished
  <2>3. QED
    BY <2>1, <2>2, WaitFrame
<1>13. ASSUME NEW d \in Drainers, DrainPop(d) PROVE WaitInv'
  <2>1. UNCHANGED waitVars /\ Accepted \subseteq Accepted' /\ Range(queue') \subseteq Range(queue)
    BY <1>13, PopQueue DEF DrainPop, IInv, Accepted
  <2>2. Active => Active'
    BY <1>13 DEF DrainPop, workerVars, Active
  <2>3. dcur[d] = Nil /\ done' = done /\ \A e \in Drainers : e # d => dcur'[e] = dcur[e]
    BY <1>13 DEF DrainPop, IInv, TypeOK, ControlInv
  <2>4. \A u \in Tasks : u \in Finished => u \in Finished'
    BY <2>3, PoolAssumption DEF Finished
  <2>5. QED
    BY <2>1, <2>2, <2>4, WaitFrame
<1>14. ASSUME NEW d \in Drainers, DrainRun(d) PROVE WaitInv'
  <2>1. UNCHANGED waitVars /\ Accepted \subseteq Accepted' /\ queue' = queue
    BY <1>14 DEF DrainRun, Accepted
  <2>2. Active => Active'
    BY <1>14 DEF DrainRun, workerVars, Active
  <2>3. \A u \in Tasks : u \in Finished => u \in Finished'
    BY <1>14 DEF DrainRun, IInv, TypeOK, Finished
  <2>4. QED
    BY <2>1, <2>2, <2>3, WaitFrame
<1>15. ASSUME NEW d \in Drainers, DrainReturn(d) PROVE WaitInv'
  <2>1. UNCHANGED waitVars /\ Accepted \subseteq Accepted' /\ queue' = queue
    BY <1>15 DEF DrainReturn, IInv, TypeOK, Accepted
  <2>2. (Active => Active') /\ \A u \in Tasks : u \in Finished => u \in Finished'
    BY <1>15 DEF DrainReturn, workerVars, drainVars, IInv, TypeOK, Active, Finished
  <2>3. QED
    BY <2>1, <2>2, WaitFrame
<1>16. ASSUME NEW d \in Drainers, DrainExpire(d) PROVE WaitInv'
  <2>1. UNCHANGED waitVars /\ Accepted \subseteq Accepted' /\ queue' = queue
    BY <1>16 DEF DrainExpire, IInv, TypeOK, Accepted
  <2>2. (Active => Active') /\ \A u \in Tasks : u \in Finished => u \in Finished'
    BY <1>16 DEF DrainExpire, workerVars, drainVars, IInv, TypeOK, Active, Finished
  <2>3. QED
    BY <2>1, <2>2, WaitFrame
<1>17. ASSUME NEW a \in Waiters, WaitCall(a) PROVE WaitInv'
  <2>1. UNCHANGED <<queue, wpc, spc, done, dcur>>
    BY <1>17 DEF WaitCall, workerVars, drainVars
  <2>2. \A b \in Waiters : b # a => apc'[b] = apc[b] /\ seen'[b] = seen[b]
    BY <1>17 DEF WaitCall, IInv, TypeOK
  <2>3. apc'[a] = "wait" /\ seen'[a] \subseteq Accepted
        /\ (seen'[a] # {} => \A t \in Tasks : ~Uncounted(t))
    BY <1>17 DEF WaitCall, IInv, TypeOK
  <2>4. ASSUME seen'[a] \cap Range(queue) # {} PROVE Active
    <3>1. \E t \in Range(queue) : spc[t] # "ensure"
      BY <2>3, <2>4 DEF Accepted
    <3>2. PICK u \in Tasks : WillDrain(u)
      BY <3>1 DEF IInv, ConsumerInv
    <3>3. ~Uncounted(u)
      BY <2>3, <2>4
    <3>4. QED
      BY <3>2, <3>3 DEF WillDrain, Uncounted, Active
  <2>5. QED
    BY <2>1, <2>2, <2>3, <2>4 DEF IInv, WaitInv, Accepted, Active
<1>18. ASSUME NEW a \in Waiters, WaitReturn(a) PROVE WaitInv'
  <2>1. \A t \in Tasks : wpc[t] = "none" /\ cur[t] = Nil
    BY <1>18, NoWorker DEF WaitReturn
  <2>2. seen[a] \cap Range(queue) = {} /\ seen[a] \subseteq Accepted
    BY <1>18, <2>1 DEF WaitReturn, IInv, WaitInv
  <2>3. \A t \in Accepted : t \in Range(queue) \/ t \in Finished
    BY <2>1, PoolAssumption DEF IInv, PlaceInv, Accepted, Taken, InHands, Finished
  <2>4. seen[a] \subseteq Finished
    BY <2>2, <2>3
  <2>5. QED
    BY <1>18, <2>4 DEF WaitReturn, workerVars, drainVars, IInv, TypeOK, WaitInv, Accepted, Finished
<1>19. CASE UNCHANGED vars
  BY <1>19 DEF vars, workerVars, drainVars, waitVars, IInv, WaitInv, Accepted
<1>20. QED
  BY <1>1, <1>2, <1>3, <1>4, <1>5, <1>6, <1>7, <1>8, <1>9, <1>10, <1>11, <1>12, <1>13, <1>14,
     <1>15, <1>16, <1>17, <1>18, <1>19 DEF Next, Submit, Worker, Drain

LEMMA InitIInv == Init => IInv
<1> SUFFICES ASSUME Init PROVE IInv
  OBVIOUS
<1>1. TypeOK
  <2>1. queue \in Seq(Tasks) /\ Len(queue) <= QueueSize
    BY EmptyQueue, PoolAssumption DEF Init
  <2>2. sem = 0 /\ inflight = 0 /\ stopped = FALSE
    BY DEF Init
  <2>3. spc \in [Tasks -> {"idle"}] /\ wpc \in [Tasks -> {"none"}] /\ cur \in [Tasks -> {Nil}]
    BY DEF Init
  <2>4. dpc \in [Drainers -> {"idle"}] /\ dcur \in [Drainers -> {Nil}]
    BY DEF Init
  <2>5. apc \in [Waiters -> {"idle"}] /\ seen \in [Waiters -> SUBSET Tasks] /\ done = {}
    BY DEF Init
  <2>6. sem \in Int /\ inflight \in Int
    BY <2>2
  <2>7. stopped \in BOOLEAN
    BY <2>2
  <2>8. QED
    BY <2>1, <2>3, <2>4, <2>5, <2>6, <2>7 DEF TypeOK, Gated
<1> USE DEF Init
<1>2. ControlInv
  BY DEF ControlInv
<1>3. Holders = {} /\ Live = {}
  BY DEF Holders, WillDrain, Live
<1>4. CountInv
  BY <1>3, FS_EmptySet, PoolAssumption DEF CountInv
<1>5. Range(queue) = {} /\ DOMAIN queue = {}
  BY EmptyQueue
<1>6. ConsumerInv /\ CloseInv
  BY <1>5 DEF ConsumerInv, CloseInv
<1>7. PlaceInv
  BY <1>5, PoolAssumption DEF PlaceInv, Taken, InHands, IsInjective
<1>8. WaitInv
  BY DEF WaitInv
<1>9. QED
  BY <1>1, <1>2, <1>4, <1>6, <1>7, <1>8 DEF IInv

LEMMA NextIInv == IInv /\ [Next]_vars => IInv'
  BY TypeStep, ControlStep, CountStep, ConsumerStep, PlaceStep, CloseStep, WaitStep DEF IInv
-----------------------------------------------------------------------------
\* The parts of IInv hold together in every reachable state of the pool.
THEOREM PoolInvariant == Spec => []IInv
  BY InitIInv, NextIInv, PTL DEF Spec

\* Every variable keeps its type, the queue its bound.
THEOREM TypeCorrect == Spec => []TypeOK
<1>1. IInv => TypeOK
  BY DEF IInv
<1>2. QED
  BY <1>1, PoolInvariant, PTL

\* The exit protocol of runWorker strands no task: whoever finds no token
\* leaves his task to somebody who has one and looks at the queue again.
THEOREM NoTaskStranded == Spec => []QueuedTaskHasConsumer
<1>1. IInv => QueuedTaskHasConsumer
  <2> SUFFICES ASSUME IInv, queue # <<>>
               PROVE \E t \in Tasks : WillDrain(t) \/ spc[t] = "ensure"
    BY DEF QueuedTaskHasConsumer
  <2>1. Head(queue) \in Tasks /\ Head(queue) \in Range(queue)
    BY PopQueue DEF IInv
  <2>2. QED
    BY <2>1 DEF IInv, ConsumerInv
<1>2. QED
  BY <1>1, PoolInvariant, PTL

\* Tokens neither leak nor run out: at most MaxConcurrency workers run tasks.
THEOREM TokensHeld == Spec => []ConcurrencyBounded
<1>1. IInv => ConcurrencyBounded
  BY DEF IInv, CountInv, ConcurrencyBounded, Holders
<1>2. QED
  BY <1>1, PoolInvariant, PTL

\* TrySubmit keeps its promise: a task it accepted is at one place, a task it
\* refused at none.
THEOREM AcceptedOnce == Spec => []NoTaskLostOrRunTwice
<1>1. ASSUME IInv, NEW t \in Tasks
      PROVE Cardinality(Places(t)) = IF Taken(t) THEN 1 ELSE 0
  <2>1. PlaceInv
    BY <1>1 DEF IInv
  <2>2. t # Nil
    BY PoolAssumption
  <2>3. CASE t \in done
    <3>1. Places(t) = {<<"done", 0>>} /\ Taken(t)
      BY <2>1, <2>3 DEF PlaceInv, InHands, Places, Range
    <3>2. QED
      BY <3>1, FS_Singleton
  <2>4. CASE t \in Range(queue)
    <3>1. PICK i \in DOMAIN queue : queue[i] = t
      BY <2>4 DEF Range
    <3>2. Places(t) = {<<"queue", i>>} /\ Taken(t)
      BY <2>1, <2>4, <3>1 DEF PlaceInv, InHands, Places, IsInjective
    <3>3. QED
      BY <3>2, FS_Singleton
  <2>5. ASSUME NEW w \in Tasks, cur[w] = t PROVE Cardinality(Places(t)) = 1 /\ Taken(t)
    <3>1. InHands(t) /\ t \notin Range(queue) /\ t \notin done /\ Taken(t)
      BY <2>1, <2>5 DEF PlaceInv, InHands
    <3>2. (\A v \in Tasks : cur[v] = t => v = w) /\ \A d \in Drainers : dcur[d] # t
      BY <2>1, <2>2, <2>5 DEF PlaceInv
    <3>3. Places(t) = {<<"worker", w>>}
      BY <2>5, <3>1, <3>2 DEF Places, Range
    <3>4. QED
      BY <3>1, <3>3, FS_Singleton
  <2>6. ASSUME NEW d \in Drainers, dcur[d] = t PROVE Cardinality(Places(t)) = 1 /\ Taken(t)
    <3>1. InHands(t) /\ t \notin Range(queue) /\ t \notin done /\ Taken(t)
      BY <2>1, <2>6 DEF PlaceInv, InHands
    <3>2. (\A e \in Drainers : dcur[e] = t => e = d) /\ \A w \in Tasks : cur[w] # t
      BY <2>1, <2>2, <2>6 DEF PlaceInv
    <3>3. Places(t) = {<<"drain", d>>}
      BY <2>6, <3>1, <3>2 DEF Places, Range
    <3>4. QED
      BY <3>1, <3>3, FS_Singleton
  <2>7. CASE t \notin done /\ t \notin Range(queue) /\ ~InHands(t)
    <3>1. Places(t) = {} /\ ~Taken(t)
      BY <2>1, <2>7 DEF PlaceInv, InHands, Places, Range
    <3>2. QED
      BY <3>1, FS_EmptySet
  <2>8. QED
    BY <2>3, <2>4, <2>5, <2>6, <2>7 DEF InHands, Taken
<1>2. IInv => NoTaskLostOrRunTwice
  BY <1>1 DEF NoTaskLostOrRunTwice, Taken
<1>3. QED
  BY <1>2, PoolInvariant, PTL

\* A Drain that has returned nil leaves no accepted task behind, except one
\* that another Drain is running.
THEOREM DrainLeavesNothing == Spec => []DrainComplete
<1>1. ASSUME IInv, NEW d \in Drainers, dpc[d] = "returned"
      PROVE queue = <<>> /\ Accepted \subseteq Finished
  <2>1. queue = <<>> /\ \A t \in Tasks : wpc[t] = "none"
    BY <1>1 DEF IInv, CloseInv
  <2>2. Range(queue) = {} /\ \A t \in Tasks : cur[t] = Nil
    BY <1>1, <2>1, EmptyQueue DEF IInv, TypeOK, ControlInv
  <2>3. ASSUME NEW t \in Accepted PROVE t \in Finished
    <3>1. t \in Tasks /\ t # Nil /\ Taken(t)
      BY <2>3, PoolAssumption DEF Accepted, Taken
    <3>2. InHands(t) \/ t \in done
      BY <1>1, <2>2, <3>1 DEF IInv, PlaceInv
    <3>3. QED
      BY <2>2, <3>1, <3>2 DEF InHands, Finished
  <2>4. QED
    BY <2>1, <2>3
<1>2. IInv => DrainComplete
  BY <1>1 DEF DrainComplete, Finished
<1>3. QED
  BY <1>2, PoolInvariant, PTL

\* A Wait that began while every token holder was counted returns after the
\* tasks accepted before it.
THEOREM WaitWaits == Spec => []WaitComplete
<1>1. IInv => WaitComplete
  BY DEF IInv, WaitInv, WaitComplete
<1>2. QED
  BY <1>1, PoolInvariant, PTL
-----------------------------------------------------------------------------
(***************************************************************************)
(* The drain counter: no wake-up is lost and no channel is closed twice.   *)
(***************************************************************************)
\* The two properties and the types are inductive together: a waiter's channel
\* is the open one or a closed one, and make never returns a channel in use.
TrackerInv == TrackerTypeOK /\ NoDoubleClose /\ NoLostWakeup

LEMMA InitTracker == TrackerInit => TrackerInv
  BY TrackerAssumption DEF TrackerInit, TrackerInv, TrackerTypeOK, NoDoubleClose, NoLostWakeup

LEMMA RaiseTracker ==
  ASSUME TrackerInv, NEW d \in Deltas, Raise(d)
  PROVE TrackerInv'
<1>1. n' = n + d /\ n' > 0 /\ n' \in Nat
  BY TrackerAssumption DEF Raise, LeavesZero, TrackerInv, TrackerTypeOK
<1>2. CASE n = 0
  <2>1. PICK c \in Chans :
          /\ \A w \in Sleepers : ch[w] # c
          /\ zero' = c /\ closed' = closed \ {c} /\ pc' = pc /\ ch' = ch
    BY <1>2 DEF Raise, LeavesZero
  <2>2. TrackerTypeOK'
    BY <1>1, <2>1 DEF TrackerInv, TrackerTypeOK
  <2>3. NoDoubleClose'
    BY <1>1, <2>1, TrackerAssumption DEF NoDoubleClose
  <2>4. NoLostWakeup'
    BY <1>2, <2>1 DEF TrackerInv, NoLostWakeup
  <2>5. QED
    BY <2>2, <2>3, <2>4 DEF TrackerInv
<1>3. CASE n # 0
  BY <1>1, <1>3 DEF Raise, LeavesZero, TrackerInv, TrackerTypeOK, NoDoubleClose, NoLostWakeup
<1>4. QED
  BY <1>2, <1>3

LEMMA LowerTracker ==
  ASSUME TrackerInv, NEW d \in Deltas, Lower(d)
  PROVE TrackerInv'
<1>1. CASE n + d <= 0
  <2>1. n' = 0 /\ closed' = closed \cup ({zero} \ {NoChan}) /\ zero' = NoChan
        /\ pc' = pc /\ ch' = ch
    BY <1>1 DEF Lower, ReachesZero
  <2>2. TrackerTypeOK'
    BY <2>1 DEF TrackerInv, TrackerTypeOK
  <2>3. NoDoubleClose'
    BY <2>1, <2>2, TrackerAssumption DEF NoDoubleClose, TrackerTypeOK
  <2>4. NoLostWakeup'
    BY <2>1 DEF TrackerInv, NoDoubleClose, NoLostWakeup
  <2>5. QED
    BY <2>2, <2>3, <2>4 DEF TrackerInv
<1>2. CASE n + d > 0
  <2>1. n' = n + d /\ n' > 0 /\ n > 0 /\ UNCHANGED <<zero, closed, pc, ch>>
    BY <1>2, TrackerAssumption DEF Lower, ReachesZero, TrackerInv, TrackerTypeOK
  <2>2. QED
    BY <1>2, <2>1, TrackerAssumption DEF TrackerInv, TrackerTypeOK, NoDoubleClose, NoLostWakeup
<1>3. QED
  BY <1>1, <1>2, TrackerAssumption DEF TrackerInv, TrackerTypeOK

LEMMA NextTracker == TrackerInv /\ [TrackerNext]_trackerVars => TrackerInv'
<1> SUFFICES ASSUME TrackerInv, [TrackerNext]_trackerVars PROVE TrackerInv'
  OBVIOUS
<1>1. ASSUME NEW w \in Sleepers,
             WaitBegin(w) \/ WaitCheck(w) \/ WaitWake(w) \/ WaitCancelled(w)
      PROVE TrackerInv'
  BY <1>1, TrackerAssumption
     DEF TrackerInv, TrackerTypeOK, NoDoubleClose, NoLostWakeup,
         WaitBegin, WaitCheck, WaitWake, WaitCancelled
<1>2. CASE UNCHANGED trackerVars
  BY <1>2 DEF trackerVars, TrackerInv, TrackerTypeOK, NoDoubleClose, NoLostWakeup
<1>3. QED
  BY <1>1, <1>2, RaiseTracker, LowerTracker DEF TrackerNext

\* An open channel exists exactly while the count is positive, and who waits holds
\* that channel or a closed one (drain_tracker.go).
THEOREM TrackerInvariant == TrackerSpec => []TrackerInv
  BY InitTracker, NextTracker, PTL DEF TrackerSpec

\* A waiter never sleeps on a channel that nobody will close.
THEOREM WakeupsKept == TrackerSpec => []NoLostWakeup
<1>1. TrackerInv => NoLostWakeup
  BY DEF TrackerInv
<1>2. QED
  BY <1>1, TrackerInvariant, PTL

\* The counter never closes a closed channel and never forgets an open one.
THEOREM ClosedOnce == TrackerSpec => [](TrackerTypeOK /\ NoDoubleClose)
<1>1. TrackerInv => TrackerTypeOK /\ NoDoubleClose
  BY DEF TrackerInv
<1>2. QED
  BY <1>1, TrackerInvariant, PTL
=============================================================================

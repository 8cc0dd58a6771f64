------------------------- MODULE CircuitBreakerProofs -------------------------
(***************************************************************************)
(* A half-open breaker lets in no more probes than it should, and neither  *)
(* the breaker nor its snapshot ever lacks the time it needs to leave its  *)
(* state, for any number of requests and any limits.                       *)
(***************************************************************************)
EXTENDS CircuitBreaker, TLAPS

\* One request at most holds the mutex over several steps, in the state it is about to
\* leave.
Holds(r) == rpc[r] \in {"entering", "closing"}
MutexHeld ==
  /\ \A q, r \in Requests : Holds(q) /\ Holds(r) => q = r
  /\ \A r \in Requests : rpc[r] = "entering" => state = "open"
  /\ \A r \in Requests : rpc[r] = "closing" => state = "halfOpen"

\* Every probe of an undisturbed round holds a slot, or did so before the close.
GivenBack == IF Closing THEN HalfOpenMaxRequests ELSE 0
SlotsCover ==
  /\ reqs <= HalfOpenMaxRequests
  /\ InRound /\ ~disturbed => admitted <= reqs + GivenBack

\* Times are never unset while the process lives, so what a torn snapshot adds
\* after the state fits the state it began with.
SnapshotsLeavable ==
  \A r \in Requests :
    /\ rpc[r] = "snapRest" => Leavable(snap[r].state, lastFailure # "never", halfStarted # "never")
    /\ rpc[r] = "write" => Leavable(snap[r].state, snap[r].failed, snap[r].started)

IInv == BreakerTypeOK /\ MutexHeld /\ SlotsCover /\ StatesLeavable /\ SnapshotsLeavable

LEMMA InitIInv == BreakerInit => IInv
<1> SUFFICES ASSUME BreakerInit PROVE IInv
  OBVIOUS
<1>1. Fresh \in Snapshot
  BY DEF Fresh, Snapshot, States
<1>2. BreakerTypeOK
  BY <1>1 DEF BreakerInit, BreakerTypeOK, States, Ages
<1>3. MutexHeld /\ SlotsCover
  BY BreakerAssumption
     DEF BreakerInit, MutexHeld, Holds, SlotsCover, InRound, Entering, Closing, GivenBack
<1>4. StatesLeavable /\ SnapshotsLeavable
  BY DEF BreakerInit, Fresh, StatesLeavable, SnapshotsLeavable, Leavable
<1>5. QED
  BY <1>2, <1>3, <1>4 DEF IInv

-----------------------------------------------------------------------------
(* The mutex *)

\* A step of a request that neither takes nor releases it.
LEMMA MutexAside ==
  ASSUME BreakerTypeOK, MutexHeld, NEW r \in Requests, NEW from, NEW to, Goes(r, from, to),
         from \notin {"entering", "closing"}, to \notin {"entering", "closing"}
  PROVE  /\ (Entering' <=> Entering)
         /\ (Closing' <=> Closing)
         /\ state' = state => MutexHeld'
<1>1. \A q \in Requests : /\ (rpc'[q] = "entering") = (rpc[q] = "entering")
                           /\ (rpc'[q] = "closing") = (rpc[q] = "closing")
  BY DEF Goes, BreakerTypeOK
<1>2. QED
  BY <1>1 DEF MutexHeld, Holds, Entering, Closing

\* A section of the mutex that is one step finds nobody with it.
LEMMA MutexTaken ==
  ASSUME BreakerTypeOK, NEW r \in Requests, NEW from, NEW to, Locked(r, from, to),
         from \notin {"entering", "closing"}, to \notin {"entering", "closing"}
  PROVE  ~Entering /\ ~Closing /\ ~Entering' /\ ~Closing' /\ MutexHeld'
<1>1. \A q \in Requests : rpc'[q] \notin {"entering", "closing"}
  BY DEF Locked, MuFree, Entering, Closing, Goes, BreakerTypeOK
<1>2. QED
  BY <1>1 DEF Locked, MuFree, MutexHeld, Holds, Entering, Closing

-----------------------------------------------------------------------------
(* Requests *)

\* What no request can disturb without changing the counts, the state or the times.
LEMMA CoverKept ==
  ASSUME IInv, UNCHANGED <<state, reqs, admitted, disturbed>>,
         Entering' <=> Entering, Closing' <=> Closing
  PROVE  SlotsCover'
  BY DEF IInv, SlotsCover, InRound, GivenBack

LEMMA LeavableKept ==
  ASSUME IInv, UNCHANGED <<state, times, saved>>
  PROVE  StatesLeavable'
  BY DEF IInv, times, StatesLeavable

\* Snapshots are changed by those who take them only.
LEMMA SnapsKept ==
  ASSUME IInv, NEW r \in Requests, NEW from, NEW to, Goes(r, from, to), UNCHANGED snap,
         to \notin {"snapRest", "write"},
         lastFailure' = lastFailure \/ lastFailure' = "recent",
         halfStarted' = halfStarted \/ halfStarted' = "recent"
  PROVE  SnapshotsLeavable'
<1>1. \A q \in Requests : rpc'[q] \in {"snapRest", "write"} => rpc'[q] = rpc[q]
  BY DEF Goes, IInv, BreakerTypeOK
<1>2. /\ lastFailure # "never" => lastFailure' # "never"
      /\ halfStarted # "never" => halfStarted' # "never"
  OBVIOUS
<1>3. QED
  BY <1>1, <1>2 DEF IInv, SnapshotsLeavable, Leavable

\* Steps that only lead a request on, with the mutex or without.
LEMMA AsideIInv ==
  ASSUME IInv, NEW r \in Requests,
         Arrive(r) \/ Check(r) \/ EnterLost(r) \/ ReopenLost(r) \/ ReadLimit(r) \/ SlotRefused(r)
           \/ SucceedOpen(r) \/ Panic(r)
  PROVE IInv'
<1>1. PICK from \in {"idle", "check", "aged", "expired", "limit", "slot", "running"},
           to \in {"idle", "check", "aged", "expired", "limit", "slot", "running"} :
             Goes(r, from, to) /\ UNCHANGED <<state, counters, times, saved, snap, reset, history>>
  BY DEF Arrive, Check, CheckClosed, CheckOpen, CheckHalfOpen, EnterLost, ReopenLost, ReadLimit,
         SlotRefused, SucceedOpen, Panic, Locked, Goes
<1>2. BreakerTypeOK'
  BY <1>1 DEF Goes, counters, times, history, IInv, BreakerTypeOK
<1>3. MutexHeld' /\ (Entering' <=> Entering) /\ (Closing' <=> Closing)
  BY <1>1, MutexAside DEF IInv
<1>4. SlotsCover'
  BY <1>1, <1>3, CoverKept DEF counters, history
<1>5. StatesLeavable' /\ SnapshotsLeavable'
  BY <1>1, LeavableKept, SnapsKept DEF times
<1>6. QED
  BY <1>2, <1>3, <1>4, <1>5 DEF IInv

LEMMA AdmitIInv ==
  ASSUME IInv, NEW r \in Requests, Admit(r)
  PROVE IInv'
<1>1. CASE EnterCount(r)
  <2>1. BreakerTypeOK'
    BY <1>1 DEF EnterCount, OwnSlot, Locked, Goes, times, IInv, BreakerTypeOK
  <2>2. MutexHeld' /\ ~Closing'
    <3>1. \A q \in Requests : rpc'[q] = (IF q = r THEN "entering" ELSE rpc[q])
      BY <1>1 DEF EnterCount, Locked, Goes, IInv, BreakerTypeOK
    <3>2. QED
      BY <1>1, <3>1 DEF EnterCount, Locked, MuFree, Entering, Closing, MutexHeld, Holds
  <2>3. SlotsCover'
    BY <1>1, <2>2, BreakerAssumption DEF EnterCount, OwnSlot, SlotsCover, GivenBack
  <2>4. StatesLeavable' /\ SnapshotsLeavable'
    BY <1>1, LeavableKept, SnapsKept DEF EnterCount, Locked, times
  <2>5. QED
    BY <2>1, <2>2, <2>3, <2>4 DEF IInv
<1>2. CASE EnterHalfOpen(r)
  <2>1. BreakerTypeOK'
    BY <1>2 DEF EnterHalfOpen, Goes, history, IInv, BreakerTypeOK, States, Ages
  <2>2. MutexHeld' /\ Entering /\ ~Closing'
    <3>1. \A q \in Requests : rpc'[q] = (IF q = r THEN "running" ELSE rpc[q])
      BY <1>2 DEF EnterHalfOpen, Goes, IInv, BreakerTypeOK
    <3>2. rpc[r] = "entering" /\ \A q \in Requests : Holds(q) => q = r
      BY <1>2, Zenon DEF EnterHalfOpen, Goes, IInv, MutexHeld, Holds
    <3>3. QED
      BY <3>1, <3>2 DEF Entering, Closing, MutexHeld, Holds
  <2>3. SlotsCover'
    BY <1>2, <2>2, BreakerAssumption
       DEF EnterHalfOpen, history, IInv, BreakerTypeOK, SlotsCover, InRound, GivenBack, Closing,
           Entering, MutexHeld, Holds
  <2>4. StatesLeavable' /\ SnapshotsLeavable'
    BY <1>2, SnapsKept DEF EnterHalfOpen, IInv, StatesLeavable, Leavable
  <2>5. QED
    BY <2>1, <2>2, <2>3, <2>4 DEF IInv
<1>3. CASE Reopen(r)
  <2>1. BreakerTypeOK'
    BY <1>3 DEF Reopen, Locked, Round0, Goes, counters, IInv, BreakerTypeOK, States, Ages
  <2>2. MutexHeld' /\ ~Entering' /\ ~Closing'
    BY <1>3, MutexTaken DEF Reopen, IInv
  <2>3. SlotsCover'
    BY <1>3, <2>2 DEF Reopen, counters, IInv, SlotsCover, InRound
  <2>4. StatesLeavable' /\ SnapshotsLeavable'
    BY <1>3, SnapsKept DEF Reopen, Locked, IInv, StatesLeavable, Leavable
  <2>5. QED
    BY <2>1, <2>2, <2>3, <2>4 DEF IInv
<1>4. CASE AcquireSlot(r)
  <2>1. BreakerTypeOK'
    BY <1>4 DEF AcquireSlot, Goes, times, IInv, BreakerTypeOK
  <2>2. MutexHeld' /\ (Entering' <=> Entering) /\ (Closing' <=> Closing)
    BY <1>4, MutexAside DEF AcquireSlot, IInv
  <2>3. SlotsCover'
    <3>1. InRound' <=> InRound
      BY <1>4, <2>2 DEF AcquireSlot, InRound
    <3>2. reqs' = reqs + 1 /\ reqs < HalfOpenMaxRequests /\ disturbed' = disturbed
      BY <1>4 DEF AcquireSlot
    <3>3. InRound => admitted' = admitted + 1
      BY <1>4 DEF AcquireSlot
    <3>4. GivenBack' = GivenBack /\ GivenBack \in Nat
      BY <2>2, BreakerAssumption DEF GivenBack
    <3>5. QED
      BY <3>1, <3>2, <3>3, <3>4, BreakerAssumption DEF IInv, BreakerTypeOK, SlotsCover
  <2>4. StatesLeavable' /\ SnapshotsLeavable'
    BY <1>4, LeavableKept, SnapsKept DEF AcquireSlot, times
  <2>5. QED
    BY <2>1, <2>2, <2>3, <2>4 DEF IInv
<1>5. QED
  BY <1>1, <1>2, <1>3, <1>4, AsideIInv DEF Admit

LEMMA OutcomeIInv ==
  ASSUME IInv, NEW r \in Requests, Outcome(r)
  PROVE IInv'
<1>1. CASE SucceedClosed(r) \/ SucceedProbe(r) \/ FailOpen(r)
  <2>1. BreakerTypeOK'
    BY <1>1
       DEF SucceedClosed, SucceedProbe, FailOpen, Locked, Goes, counters, times, history,
           IInv, BreakerTypeOK, Ages
  <2>2. /\ MutexHeld' /\ ~Entering' /\ ~Closing' /\ ~Entering /\ ~Closing
    BY <1>1, MutexTaken DEF SucceedClosed, SucceedProbe, FailOpen, IInv
  <2>3. SlotsCover'
    BY <1>1, <2>2, CoverKept DEF SucceedClosed, SucceedProbe, FailOpen, counters, history
  <2>4. StatesLeavable'
    BY <1>1 DEF SucceedClosed, SucceedProbe, FailOpen, times, IInv, StatesLeavable, Leavable
  <2>5. SnapshotsLeavable'
    BY <1>1, SnapsKept DEF SucceedClosed, SucceedProbe, FailOpen, Locked, times
  <2>6. QED
    BY <2>1, <2>2, <2>3, <2>4, <2>5 DEF IInv
<1>2. CASE CloseReset(r)
  <2>1. BreakerTypeOK'
    BY <1>2 DEF CloseReset, Locked, Goes, times, history, IInv, BreakerTypeOK
  <2>2. MutexHeld' /\ ~Entering' /\ ~Closing /\ Closing'
    <3>1. \A q \in Requests : rpc'[q] = (IF q = r THEN "closing" ELSE rpc[q])
      BY <1>2 DEF CloseReset, Locked, Goes, IInv, BreakerTypeOK
    <3>2. QED
      BY <1>2, <3>1 DEF CloseReset, Locked, MuFree, Entering, Closing, MutexHeld, Holds
  <2>3. SlotsCover'
    BY <1>2, <2>2, BreakerAssumption
       DEF CloseReset, history, IInv, BreakerTypeOK, SlotsCover, InRound, GivenBack
  <2>4. StatesLeavable' /\ SnapshotsLeavable'
    BY <1>2, LeavableKept, SnapsKept DEF CloseReset, Locked, times
  <2>5. QED
    BY <2>1, <2>2, <2>3, <2>4 DEF IInv
<1>3. CASE Close(r)
  <2>1. BreakerTypeOK'
    BY <1>3 DEF Close, Round0, Goes, counters, times, IInv, BreakerTypeOK, States
  <2>2. MutexHeld' /\ ~Entering' /\ ~Closing'
    <3>1. \A q \in Requests : rpc'[q] = (IF q = r THEN "snapState" ELSE rpc[q])
      BY <1>3 DEF Close, Goes, IInv, BreakerTypeOK
    <3>2. rpc[r] = "closing" /\ \A q \in Requests : Holds(q) => q = r
      BY <1>3, Zenon DEF Close, Goes, IInv, MutexHeld, Holds
    <3>3. QED
      BY <3>1, <3>2 DEF Entering, Closing, MutexHeld, Holds
  <2>3. SlotsCover'
    BY <1>3, <2>2 DEF Close, counters, IInv, SlotsCover, InRound
  <2>4. StatesLeavable' /\ SnapshotsLeavable'
    BY <1>3, SnapsKept DEF Close, times, IInv, StatesLeavable, Leavable
  <2>5. QED
    BY <2>1, <2>2, <2>3, <2>4 DEF IInv
<1>4. CASE FailClosed(r) \/ FailProbe(r)
  <2>1. BreakerTypeOK'
    <3>1. failures' \in Nat /\ state' \in States /\ lastFailure' \in Ages
      BY <1>4, BreakerAssumption
         DEF FailClosed, FailProbe, FailureTime, IInv, BreakerTypeOK, States, Ages
    <3>2. admitted' \in Nat
      BY <1>4 DEF FailClosed, FailProbe, Round0, history, IInv, BreakerTypeOK
    <3>3. disturbed' \in BOOLEAN
      BY <1>4, Zenon DEF FailClosed, FailProbe, Round0, history, IInv, BreakerTypeOK
    <3>4. QED
      BY <1>4, <3>1, <3>2, <3>3 DEF FailClosed, FailProbe, Locked, Goes, IInv, BreakerTypeOK
  <2>2. MutexHeld' /\ ~Entering' /\ ~Closing'
    BY <1>4, MutexTaken DEF FailClosed, FailProbe, IInv
  <2>3. SlotsCover'
    BY <1>4, <2>2 DEF FailClosed, FailProbe, IInv, SlotsCover, InRound
  <2>4. StatesLeavable' /\ SnapshotsLeavable'
    BY <1>4, SnapsKept
       DEF FailClosed, FailProbe, FailureTime, Locked, IInv, BreakerTypeOK, StatesLeavable, Leavable
  <2>5. QED
    BY <2>1, <2>2, <2>3, <2>4 DEF IInv
<1>5. QED
  BY <1>1, <1>2, <1>3, <1>4, AsideIInv DEF Outcome

LEMMA PersistIInv ==
  ASSUME IInv, NEW r \in Requests, Persist(r)
  PROVE IInv'
<1>1. CASE SaveReadState(r)
  <2>1. [Fresh EXCEPT !.state = state] \in Snapshot /\ [Fresh EXCEPT !.state = state].state = state
    BY DEF Fresh, Snapshot, IInv, BreakerTypeOK, States
  <2>2. BreakerTypeOK'
    BY <1>1, <2>1 DEF SaveReadState, Goes, counters, times, history, IInv, BreakerTypeOK
  <2>3. MutexHeld' /\ (Entering' <=> Entering) /\ (Closing' <=> Closing)
    BY <1>1, MutexAside DEF SaveReadState, IInv
  <2>4. SnapshotsLeavable'
    <3>1. /\ rpc' = [rpc EXCEPT ![r] = "snapRest"] /\ rpc[r] = "snapState"
          /\ snap' = [snap EXCEPT ![r] = [Fresh EXCEPT !.state = state]]
          /\ lastFailure' = lastFailure /\ halfStarted' = halfStarted
      BY <1>1 DEF SaveReadState, Goes, times
    <3>2. Leavable(snap'[r].state, lastFailure # "never", halfStarted # "never")
      <4>1. snap'[r].state = state
        BY <2>1, <3>1 DEF IInv, BreakerTypeOK
      <4>2. QED
        BY <4>1, Zenon DEF IInv, StatesLeavable
    <3>3. QED
      BY <3>1, <3>2 DEF IInv, BreakerTypeOK, SnapshotsLeavable
  <2>5. SlotsCover' /\ StatesLeavable'
    BY <1>1, <2>3, CoverKept, LeavableKept DEF SaveReadState, counters, history
  <2>6. QED
    BY <2>2, <2>3, <2>4, <2>5 DEF IInv
<1>2. CASE SaveReadRest(r)
  <2>1. /\ Rest(snap[r]) \in Snapshot /\ Rest(snap[r]).state = snap[r].state
        /\ Rest(snap[r]).failed = (lastFailure # "never")
        /\ Rest(snap[r]).started = (halfStarted # "never")
    BY DEF Rest, Snapshot, IInv, BreakerTypeOK
  <2>2. BreakerTypeOK'
    BY <1>2, <2>1 DEF SaveReadRest, Goes, counters, times, history, IInv, BreakerTypeOK
  <2>3. MutexHeld' /\ (Entering' <=> Entering) /\ (Closing' <=> Closing)
    BY <1>2, MutexAside DEF SaveReadRest, IInv
  <2>4. SnapshotsLeavable'
    <3>1. /\ rpc' = [rpc EXCEPT ![r] = "write"] /\ rpc[r] = "snapRest"
          /\ snap' = [snap EXCEPT ![r] = Rest(snap[r])]
          /\ lastFailure' = lastFailure /\ halfStarted' = halfStarted
      BY <1>2 DEF SaveReadRest, Goes, times
    <3>2. Leavable(snap'[r].state, snap'[r].failed, snap'[r].started)
      <4>1. snap'[r] = Rest(snap[r])
        BY <3>1 DEF IInv, BreakerTypeOK
      <4>2. Leavable(snap[r].state, lastFailure # "never", halfStarted # "never")
        BY <3>1, Zenon DEF IInv, SnapshotsLeavable
      <4>3. QED
        BY <2>1, <4>1, <4>2, Zenon DEF Leavable
    <3>3. QED
      BY <3>1, <3>2 DEF IInv, BreakerTypeOK, SnapshotsLeavable
  <2>5. SlotsCover' /\ StatesLeavable'
    BY <1>2, <2>3, CoverKept, LeavableKept DEF SaveReadRest, counters, history
  <2>6. QED
    BY <2>2, <2>3, <2>4, <2>5 DEF IInv
<1>3. CASE SaveWrite(r)
  <2>1. BreakerTypeOK'
    BY <1>3
       DEF SaveWrite, Fresh, Goes, counters, times, history, IInv, BreakerTypeOK, Snapshot, States
  <2>2. MutexHeld' /\ (Entering' <=> Entering) /\ (Closing' <=> Closing)
    BY <1>3, MutexAside DEF SaveWrite, IInv
  <2>3. SlotsCover'
    BY <1>3, <2>2, CoverKept DEF SaveWrite, counters, history
  <2>4. StatesLeavable' /\ SnapshotsLeavable'
    BY <1>3
       DEF SaveWrite, Goes, times, IInv, BreakerTypeOK, StatesLeavable, SnapshotsLeavable, Leavable
  <2>5. QED
    BY <2>1, <2>2, <2>3, <2>4 DEF IInv
<1>4. QED
  BY <1>1, <1>2, <1>3 DEF Persist

-----------------------------------------------------------------------------
(* Reset, time and restarts *)

LEMMA ResetIInv ==
  ASSUME IInv, Reset
  PROVE IInv'
<1>1. CASE ResetFailures \/ ResetSuccesses \/ ResetSlots
  <2>1. rpc' = rpc /\ state' = state /\ snap' = snap /\ saved' = saved /\ UNCHANGED times
    BY <1>1 DEF ResetFailures, ResetSuccesses, ResetSlots
  <2>2. disturbed' \in BOOLEAN
    <3>1. CASE ResetSlots
      BY <3>1, Zenon DEF ResetSlots, InRound, Entering
    <3>2. CASE ResetFailures \/ ResetSuccesses
      BY <3>2 DEF ResetFailures, ResetSuccesses, history, IInv, BreakerTypeOK
    <3>3. QED
      BY <1>1, <3>1, <3>2
  <2>3. BreakerTypeOK'
    BY <1>1, <2>1, <2>2
       DEF ResetFailures, ResetSuccesses, ResetSlots, history, times, IInv, BreakerTypeOK
  <2>4. MutexHeld' /\ (Entering' <=> Entering) /\ (Closing' <=> Closing)
    BY <2>1, Zenon DEF IInv, MutexHeld, Holds, Entering, Closing
  <2>5. SlotsCover'
    <3>1. CASE ResetSlots
      <4>1. InRound' => disturbed'
        BY <2>1, <2>4, <3>1, Zenon DEF ResetSlots, InRound
      <4>2. QED
        BY <3>1, <4>1, BreakerAssumption DEF ResetSlots, SlotsCover
    <3>2. CASE ResetFailures \/ ResetSuccesses
      BY <2>1, <2>4, <3>2, CoverKept DEF ResetFailures, ResetSuccesses, history
    <3>3. QED
      BY <1>1, <3>1, <3>2
  <2>6. StatesLeavable' /\ SnapshotsLeavable'
    BY <2>1 DEF times, IInv, StatesLeavable, SnapshotsLeavable
  <2>7. QED
    BY <2>3, <2>4, <2>5, <2>6 DEF IInv
<1>2. CASE ResetClose
  <2> DEFINE closing == Rest([Fresh EXCEPT !.state = "closed"])
  <2>1. closing \in Snapshot /\ closing.state = "closed"
    BY DEF Rest, Fresh, Snapshot, States
  <2>2. state' = "closed" /\ (saved' = saved \/ saved' = closing)
    BY <1>2 DEF ResetClose
  <2> HIDE DEF closing
  <2>3. BreakerTypeOK'
    BY <1>2, <2>1, <2>2 DEF ResetClose, Round0, counters, times, IInv, BreakerTypeOK, States
  <2>4. MutexHeld' /\ ~Entering'
    BY <1>2 DEF ResetClose, MuFree, Entering, Closing, MutexHeld, Holds
  <2>5. SlotsCover'
    BY <1>2, <2>2, <2>4 DEF ResetClose, counters, IInv, SlotsCover, InRound
  <2>6. StatesLeavable' /\ SnapshotsLeavable'
    BY <1>2, <2>1, <2>2 DEF ResetClose, times, IInv, StatesLeavable, SnapshotsLeavable, Leavable
  <2>7. QED
    BY <2>3, <2>4, <2>5, <2>6 DEF IInv
<1>3. QED
  BY <1>1, <1>2 DEF Reset

LEMMA AgeIInv ==
  ASSUME IInv, AgeFailure \/ AgeHalfOpen
  PROVE IInv'
<1>1. /\ UNCHANGED <<state, reqs, rpc, snap, saved, admitted, disturbed>>
      /\ (lastFailure' = "never") = (lastFailure = "never") /\ lastFailure' \in Ages
      /\ (halfStarted' = "never") = (halfStarted = "never") /\ halfStarted' \in Ages
  BY DEF AgeFailure, AgeHalfOpen, counters, history, IInv, BreakerTypeOK, Ages
<1>2. BreakerTypeOK'
  BY <1>1 DEF AgeFailure, AgeHalfOpen, counters, IInv, BreakerTypeOK
<1>3. MutexHeld' /\ (Entering' <=> Entering) /\ (Closing' <=> Closing)
  BY <1>1, Zenon DEF IInv, MutexHeld, Holds, Entering, Closing
<1>4. SlotsCover'
  BY <1>1, <1>3, CoverKept
<1>5. StatesLeavable' /\ SnapshotsLeavable'
  BY <1>1 DEF IInv, StatesLeavable, SnapshotsLeavable, Leavable
<1>6. QED
  BY <1>2, <1>3, <1>4, <1>5 DEF IInv

LEMMA RestartIInv ==
  ASSUME IInv, Restart
  PROVE IInv'
<1>1. BreakerTypeOK'
  BY BreakerAssumption DEF Restart, Fresh, IInv, BreakerTypeOK, Snapshot, States, Ages
<1>2. MutexHeld' /\ ~Entering'
  BY DEF Restart, MutexHeld, Holds, Entering
<1>3. SlotsCover'
  <2>1. state' = "halfOpen" => disturbed'
    BY Zenon DEF Restart
  <2>2. reqs' <= HalfOpenMaxRequests
    BY BreakerAssumption DEF Restart
  <2>3. QED
    BY <1>2, <2>1, <2>2 DEF SlotsCover, InRound
<1>4. StatesLeavable' /\ SnapshotsLeavable'
  BY DEF Restart, IInv, StatesLeavable, SnapshotsLeavable, Leavable
<1>5. QED
  BY <1>1, <1>2, <1>3, <1>4 DEF IInv

-----------------------------------------------------------------------------
LEMMA NextIInv == IInv /\ [BreakerNext]_breakerVars => IInv'
<1> SUFFICES ASSUME IInv, [BreakerNext]_breakerVars PROVE IInv'
  OBVIOUS
<1>1. ASSUME NEW r \in Requests, Going(r) PROVE IInv'
  BY <1>1, AsideIInv, AdmitIInv, OutcomeIInv, PersistIInv DEF Going
<1>2. CASE UNCHANGED breakerVars
  BY <1>2
     DEF breakerVars, counters, times, history, IInv, BreakerTypeOK, MutexHeld, Holds, SlotsCover,
         InRound, Entering, Closing, GivenBack, StatesLeavable, SnapshotsLeavable
<1>3. QED
  BY <1>1, <1>2, ResetIInv, AgeIInv, RestartIInv DEF BreakerNext

LEMMA BreakerInvariant == BreakerSpec => []IInv
  BY InitIInv, NextIInv, PTL DEF BreakerSpec

\* The variables keep their types (circuitbreaker.go).
THEOREM BreakerTypes == BreakerSpec => []BreakerTypeOK
<1>1. IInv => BreakerTypeOK
  BY DEF IInv
<1>2. QED
  BY <1>1, BreakerInvariant, PTL

\* No more probes than HalfOpenMaxRequests, in the gap of a close no more than twice
\* as many (circuitbreaker.go:346-437).
THEOREM ProbesAreBounded == BreakerSpec => []ProbesBounded
<1>1. IInv => ProbesBounded
  BY BreakerAssumption DEF IInv, BreakerTypeOK, SlotsCover, GivenBack, ProbesBounded
<1>2. QED
  BY <1>1, BreakerInvariant, PTL

\* Neither the breaker nor its snapshot is stuck for want of a time
\* (circuitbreaker.go:346-350, 371-375).
THEOREM StatesAreLeavable == BreakerSpec => []StatesLeavable
<1>1. IInv => StatesLeavable
  BY DEF IInv
<1>2. QED
  BY <1>1, BreakerInvariant, PTL
=============================================================================

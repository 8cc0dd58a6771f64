----------------------------- MODULE DrainTracker -----------------------------
(***************************************************************************)
(* core/engine/drain_tracker.go: the counter of tasks in flight that the   *)
(* outbound dispatcher and the handler pool wait on.  Unlike a WaitGroup   *)
(* it may be incremented while others wait.  A waiter sleeps on a channel  *)
(* that is made when the count leaves zero and closed when it returns to   *)
(* zero, so each period of activity has a channel of its own.              *)
(*                                                                         *)
(* One step is one critical section of the mutex, or the end of a select.  *)
(* A channel nobody can reach any more may be drawn again by make.         *)
(***************************************************************************)
EXTENDS Integers, FiniteSets

CONSTANTS Sleepers,    \* calls of Wait
          Chans,       \* channels
          Deltas,      \* the arguments Add is called with
          MaxCount,    \* bound of the exploration: Add is not called beyond it
          NoChan       \* the nil channel

ASSUME TrackerAssumption ==
  /\ Deltas \subseteq Int \ {0}      \* Add(0) returns at once
  /\ MaxCount \in Nat
  /\ NoChan \notin Chans

VARIABLES n,         \* t.n
          zero,      \* t.zero
          closed,    \* the channels that have been closed
          pc,        \* per Wait call: idle, check, select, returned, cancelled
          ch         \* per Wait call: the channel it read under the mutex

trackerVars == <<n, zero, closed, pc, ch>>

TrackerTypeOK ==
  /\ n \in Nat
  /\ zero \in Chans \cup {NoChan}
  /\ closed \subseteq Chans
  /\ pc \in [Sleepers -> {"idle", "check", "select", "returned", "cancelled"}]
  /\ ch \in [Sleepers -> Chans \cup {NoChan}]

TrackerInit ==
  /\ n = 0
  /\ zero = NoChan
  /\ closed = {}
  /\ pc = [w \in Sleepers |-> "idle"]
  /\ ch = [w \in Sleepers |-> NoChan]

\* Mutant: every Add makes a channel.
LeavesZeroAlways == TRUE
LeavesZero == n = 0

\* Add with a positive argument: leaving zero makes a new channel.
Raise(d) ==
  /\ d > 0
  /\ n + d <= MaxCount
  /\ n' = n + d
  /\ IF LeavesZero
     THEN \E c \in Chans :
            /\ c # zero
            /\ \A w \in Sleepers : ch[w] # c
            /\ zero' = c
            /\ closed' = closed \ {c}
     ELSE UNCHANGED <<zero, closed>>
  /\ UNCHANGED <<pc, ch>>

\* Mutant: the closing is off by one.
ReachesZeroBelow(d) == n + d < 0
ReachesZero(d) == n + d <= 0

\* Add with a negative argument: reaching zero, or falling below it, closes the
\* channel.
Lower(d) ==
  /\ d < 0
  /\ IF ReachesZero(d)
     THEN /\ n' = 0
          /\ closed' = closed \cup ({zero} \ {NoChan})
          /\ zero' = NoChan
     ELSE /\ n' = n + d
          /\ UNCHANGED <<zero, closed>>
  /\ UNCHANGED <<pc, ch>>

WaitBegin(w) ==
  /\ pc[w] = "idle"
  /\ pc' = [pc EXCEPT ![w] = "check"]
  /\ UNCHANGED <<n, zero, closed, ch>>

\* The critical section of Wait: return, or read the channel to sleep on.
WaitCheck(w) ==
  /\ pc[w] = "check"
  /\ IF n = 0
     THEN /\ pc' = [pc EXCEPT ![w] = "returned"]
          /\ UNCHANGED ch
     ELSE /\ pc' = [pc EXCEPT ![w] = "select"]
          /\ ch' = [ch EXCEPT ![w] = zero]
  /\ UNCHANGED <<n, zero, closed>>

\* case <-zero: only a closed channel can be received from.
WaitWake(w) ==
  /\ pc[w] = "select"
  /\ ch[w] \in closed
  /\ pc' = [pc EXCEPT ![w] = "check"]
  /\ ch' = [ch EXCEPT ![w] = NoChan]
  /\ UNCHANGED <<n, zero, closed>>

WaitCancelled(w) ==
  /\ pc[w] = "select"
  /\ pc' = [pc EXCEPT ![w] = "cancelled"]
  /\ ch' = [ch EXCEPT ![w] = NoChan]
  /\ UNCHANGED <<n, zero, closed>>

TrackerNext ==
  \/ \E d \in Deltas : Raise(d) \/ Lower(d)
  \/ \E w \in Sleepers : WaitBegin(w) \/ WaitCheck(w) \/ WaitWake(w) \/ WaitCancelled(w)

TrackerSpec == TrackerInit /\ [][TrackerNext]_trackerVars
-----------------------------------------------------------------------------
\* No wake-up is lost: the channel a waiter sleeps on has been closed, or it is
\* the one that the fall to zero will close.  A waiter that slept on an older,
\* unclosed channel, or on the nil channel, would sleep for ever
\* (drain_tracker.go:29-47 against 66-76).
NoLostWakeup ==
  \A w \in Sleepers : pc[w] = "select" => ch[w] \in closed \/ (ch[w] = zero /\ n > 0)

\* No fall to zero closes a channel twice, which would panic: an open channel
\* exists exactly while the count is positive.
NoDoubleClose ==
  /\ zero # NoChan <=> n > 0
  /\ zero \notin closed

\* A waiter is scheduled again when its channel is closed.
TrackerFairness == \A w \in Sleepers : WF_trackerVars(WaitCheck(w)) /\ WF_trackerVars(WaitWake(w))

FairTrackerSpec == TrackerSpec /\ TrackerFairness

\* Once the count stays at zero every waiter returns.
WaitReturns ==
  \A w \in Sleepers : (<>[](n = 0)) => (pc[w] = "check" ~> pc[w] \in {"returned", "cancelled"})
=============================================================================

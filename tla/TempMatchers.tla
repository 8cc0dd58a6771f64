----------------------------- MODULE TempMatchers -----------------------------
(***************************************************************************)
(* core/engine/temp_manager.go, with its callers in engine_matcher_ops.go, *)
(* matcher.go and process.go: the store of temporary matchers.  The truth  *)
(* is in the shards, each under a lock of its own; events are routed from  *)
(* a snapshot that is replaced under snapMu, and skip it when an atomic    *)
(* counter says that there are no temporary matchers.  The three are       *)
(* updated one after the other by every operation, so that operations      *)
(* overlap in all their steps.                                             *)
(*                                                                         *)
(* One step is one critical section of a shard's lock, one access to the   *)
(* counter, the snapshot or a deleted flag, or one shard read by a rebuild *)
(* of the snapshot under snapMu.  A call performs one operation.  Matchers *)
(* have one event type; their order in the snapshot is left out, how often *)
(* each occurs in it is not.  RemoveGroup is a Delete per matcher.         *)
(***************************************************************************)
EXTENDS Integers, FiniteSets

CONSTANTS Matchers,
          ShardCount, ShardOf,          \* shards, and the shard a pointer hashes to
          Timed,                        \* matchers with an expiry, hence in the heap
          Calls,                        \* operations on the store, and events
          Cleaner,                      \* the goroutine that cleans to the watermark
          WatermarkHigh, WatermarkLow,
          MaxUse,                       \* maxUseCount; OnTemp sets 1
          Kinds,                        \* the operations that are called
          Nil

AllKinds == {"Add", "Remove", "Delete", "Reprioritise", "Clear", "CleanExpired", "Event"}

ASSUME StoreAssumption ==
  /\ IsFiniteSet(Matchers) /\ IsFiniteSet(Calls)
  /\ ShardCount \in Nat \ {0}
  /\ ShardOf \in [Matchers -> 1..ShardCount]
  /\ Timed \subseteq Matchers
  /\ Cleaner \notin Calls
  /\ WatermarkHigh \in Nat /\ WatermarkLow \in 0..WatermarkHigh
  /\ MaxUse \in Nat \ {0}
  /\ Kinds \subseteq AllKinds
  /\ Nil \notin Matchers \cup Calls \cup {Cleaner}

VARIABLES
  byID,        \* the union of the byID maps of the shards
  count,       \* m.count
  snapshot,    \* how often a matcher occurs in m.snapshot
  snapMu,      \* the thread that holds m.snapMu, or Nil
  deleted,     \* matchers with rt.deleted set
  expired,     \* timed matchers whose expiresAt has passed
  useCount,    \* rt.useCount
  pc, op, arg, \* per thread: control state, operation, its matcher
  shard,       \* per thread: loop position
  found,       \* per thread: matchers taken out by Clear or CleanExpired
  acc,         \* per thread: matchers gathered by a rebuild
  high,        \* per thread: its Add reached the high watermark
  toRemove     \* of the cleaner

storeVars == <<byID, count, snapshot, snapMu>>
flagVars  == <<deleted, expired, useCount>>
loopVars  == <<shard, found, acc>>
vars == <<byID, count, snapshot, snapMu, deleted, expired, useCount,
          pc, op, arg, shard, found, acc, high, toRemove>>

Threads == Calls \cup {Cleaner}
InShard(i) == {m \in Matchers : ShardOf[m] = i}
Goto(t, l) == pc' = [pc EXCEPT ![t] = l]
\* Where the counter says that there may be something to route.
HasAny == count > 0

TypeOK ==
  /\ byID \subseteq Matchers
  /\ count \in Int
  /\ snapshot \in [Matchers -> Nat]
  /\ snapMu \in Threads \cup {Nil}
  /\ deleted \subseteq Matchers
  /\ expired \subseteq Timed
  /\ useCount \in [Matchers -> 0..MaxUse]
  /\ pc \in [Threads -> {"idle", "insert", "countUp", "snapCheck", "snapStore", "trigger",
                          "mark", "delete", "countDown", "snapRemove", "clear", "zero",
                          "markAll", "rebuild", "gather", "publish", "clean", "watermark",
                          "quota", "trim", "hasAny", "get", "match", "running", "done"}]
  /\ op \in [Threads -> Kinds \cup {"Watermark", "Trim"}]
  /\ arg \in [Threads -> Matchers \cup {Nil}]
  /\ shard \in [Threads -> 1..ShardCount]
  /\ found \in [Threads -> SUBSET Matchers]
  /\ acc \in [Threads -> SUBSET Matchers]
  /\ high \in [Threads -> BOOLEAN]
  /\ toRemove \in Nat

\* Any set of matchers that earlier calls, now finished, have left behind.
Init ==
  /\ byID \in SUBSET Matchers
  /\ count = Cardinality(byID)
  /\ snapshot = [m \in Matchers |-> IF m \in byID THEN 1 ELSE 0]
  /\ snapMu = Nil
  /\ deleted = {}
  /\ expired = {}
  /\ useCount = [m \in Matchers |-> 0]
  /\ pc = [t \in Threads |-> "idle"]
  /\ op = [t \in Threads |-> "Trim"]
  /\ arg = [t \in Threads |-> Nil]
  /\ shard = [t \in Threads |-> 1]
  /\ found = [t \in Threads |-> {}]
  /\ acc = [t \in Threads |-> {}]
  /\ high = [t \in Threads |-> FALSE]
  /\ toRemove = 0
-----------------------------------------------------------------------------
(* Calls *)

\* Add: OnTemp, or the migration of a matcher that is not deleted yet; Remove:
\* the migration back; Reprioritise: UpdateTempMatcherPriority.
CallMatcher(t) ==
  /\ t \in Calls /\ pc[t] = "idle"
  /\ \E m \in Matchers, k \in Kinds \ {"Clear", "CleanExpired"} :
       /\ k = "Add" => m \notin deleted
       /\ op' = [op EXCEPT ![t] = k]
       /\ arg' = [arg EXCEPT ![t] = m]
       /\ Goto(t, CASE k = "Add" -> "insert"
                    [] k \in {"Remove", "Reprioritise"} -> "delete"
                    [] k = "Delete" -> "mark"
                    [] OTHER -> "hasAny")
  /\ UNCHANGED <<storeVars, flagVars, loopVars, high, toRemove>>

CallAll(t) ==
  /\ t \in Calls /\ pc[t] = "idle"
  /\ \E k \in Kinds \cap {"Clear", "CleanExpired"} :
       /\ op' = [op EXCEPT ![t] = k]
       /\ Goto(t, IF k = "Clear" THEN "clear" ELSE "clean")
  /\ UNCHANGED <<storeVars, flagVars, arg, loopVars, high, toRemove>>

Expire(m) ==
  /\ m \in Timed \ expired
  /\ expired' = expired \cup {m}
  /\ UNCHANGED <<storeVars, deleted, useCount, pc, op, arg, loopVars, high, toRemove>>
-----------------------------------------------------------------------------
(* Add *)

\* Mutant: a matcher is added although it is in the store.
KnownNever(t) == FALSE
Known(t) == arg[t] \in byID

Insert(t) ==
  /\ pc[t] = "insert"
  /\ IF Known(t)
     THEN Goto(t, "done") /\ UNCHANGED byID
     ELSE Goto(t, "countUp") /\ byID' = byID \cup {arg[t]}
  /\ UNCHANGED <<count, snapshot, snapMu, flagVars, op, arg, loopVars, high, toRemove>>

CountUp(t) ==
  /\ pc[t] = "countUp"
  /\ count' = count + 1
  /\ high' = [high EXCEPT ![t] = count + 1 >= WatermarkHigh]
  /\ Goto(t, "snapCheck")
  /\ UNCHANGED <<byID, snapshot, snapMu, flagVars, op, arg, loopVars, toRemove>>

AfterInsert(t) == IF high[t] THEN "trigger" ELSE "done"

\* Mutant: the matcher is taken to be still there.
StillPresentAlways(t) == TRUE
StillPresent(t) == arg[t] \in byID

\* snapshotInsert: under snapMu, look into the shard again ...
SnapCheck(t) ==
  /\ pc[t] = "snapCheck" /\ snapMu = Nil
  /\ IF StillPresent(t)
     THEN Goto(t, "snapStore") /\ snapMu' = t
     ELSE Goto(t, AfterInsert(t)) /\ UNCHANGED snapMu
  /\ UNCHANGED <<byID, count, snapshot, flagVars, op, arg, loopVars, high, toRemove>>

\* Mutant: inserted although it is there.
InsertedAgain(m) == snapshot[m] + 1
Inserted(m) == IF snapshot[m] > 0 THEN snapshot[m] ELSE 1

\* ... and store a snapshot with the matcher in it once.
SnapStore(t) ==
  /\ pc[t] = "snapStore"
  /\ snapshot' = [snapshot EXCEPT ![arg[t]] = Inserted(arg[t])]
  /\ snapMu' = Nil
  /\ Goto(t, AfterInsert(t))
  /\ UNCHANGED <<byID, count, flagVars, op, arg, loopVars, high, toRemove>>

\* cleaning.CompareAndSwap: one cleaner at a time.
Trigger(t) ==
  /\ pc[t] = "trigger"
  /\ IF pc[Cleaner] = "idle"
     THEN /\ pc' = [pc EXCEPT ![t] = "done", ![Cleaner] = "watermark"]
          /\ op' = [op EXCEPT ![Cleaner] = "Watermark"]
     ELSE Goto(t, "done") /\ UNCHANGED op
  /\ UNCHANGED <<storeVars, flagVars, arg, loopVars, high, toRemove>>
-----------------------------------------------------------------------------
(* Remove *)

\* The deleted flag of DeleteMatcher, set before the matcher leaves the store.
Mark(t) ==
  /\ pc[t] = "mark"
  /\ deleted' = deleted \cup {arg[t]}
  /\ Goto(t, "delete")
  /\ UNCHANGED <<storeVars, expired, useCount, op, arg, loopVars, high, toRemove>>

AfterRemove(t) == IF op[t] = "Reprioritise" THEN "insert" ELSE "done"

Delete(t) ==
  /\ pc[t] = "delete"
  /\ IF arg[t] \in byID
     THEN Goto(t, "countDown") /\ byID' = byID \ {arg[t]}
     ELSE Goto(t, AfterRemove(t)) /\ UNCHANGED byID
  /\ UNCHANGED <<count, snapshot, snapMu, flagVars, op, arg, loopVars, high, toRemove>>

CountDown(t) ==
  /\ pc[t] = "countDown"
  /\ count' = count - 1
  /\ Goto(t, "snapRemove")
  /\ UNCHANGED <<byID, snapshot, snapMu, flagVars, op, arg, loopVars, high, toRemove>>

Dropped(n) == IF n > 0 THEN n - 1 ELSE 0

\* snapshotRemove takes out one occurrence.
SnapRemove(t) ==
  /\ pc[t] = "snapRemove" /\ snapMu = Nil
  /\ snapshot' = [snapshot EXCEPT ![arg[t]] = Dropped(@)]
  /\ Goto(t, AfterRemove(t))
  /\ UNCHANGED <<byID, count, snapMu, flagVars, op, arg, loopVars, high, toRemove>>
-----------------------------------------------------------------------------
(* rebuildSnapshot *)

Rebuild(t) ==
  /\ pc[t] = "rebuild" /\ snapMu = Nil
  /\ snapMu' = t
  /\ shard' = [shard EXCEPT ![t] = 1]
  /\ acc' = [acc EXCEPT ![t] = {}]
  /\ Goto(t, "gather")
  /\ UNCHANGED <<byID, count, snapshot, flagVars, op, arg, found, high, toRemove>>

\* Mutant: the last shard is not visited.
VisitAllButLast(t, l) ==
  IF shard[t] >= ShardCount - 1
  THEN shard' = [shard EXCEPT ![t] = 1] /\ Goto(t, l)
  ELSE shard' = [shard EXCEPT ![t] = @ + 1] /\ UNCHANGED pc
\* The shards are visited in turn; the last one leads to label l.
Visit(t, l) ==
  IF shard[t] = ShardCount
  THEN shard' = [shard EXCEPT ![t] = 1] /\ Goto(t, l)
  ELSE shard' = [shard EXCEPT ![t] = @ + 1] /\ UNCHANGED pc

Gather(t) ==
  /\ pc[t] = "gather"
  /\ acc' = [acc EXCEPT ![t] = @ \cup (byID \cap InShard(shard[t]))]
  /\ Visit(t, "publish")
  /\ UNCHANGED <<storeVars, flagVars, op, arg, found, high, toRemove>>

Replace(t) ==
  /\ pc[t] = "publish"
  /\ snapshot' = [m \in Matchers |-> IF m \in acc[t] THEN 1 ELSE 0]
  /\ snapMu' = Nil
  /\ Goto(t, CASE op[t] = "Clear" -> "markAll"
               [] op[t] = "CleanExpired" -> "done"
               [] op[t] = "Watermark" -> "quota"
               [] op[t] = "Trim" -> "idle")
  /\ UNCHANGED <<byID, count, flagVars, op, arg, loopVars, high, toRemove>>
-----------------------------------------------------------------------------
(* Clear and CleanExpired *)

\* The last shard of Clear: nothing was there, or the counter is reset.
Clear(t) ==
  LET here == byID \cap InShard(shard[t]) IN
  /\ pc[t] = "clear"
  /\ byID' = byID \ here
  /\ found' = [found EXCEPT ![t] = @ \cup here]
  /\ Visit(t, IF found[t] \cup here = {} THEN "done" ELSE "zero")
  /\ UNCHANGED <<count, snapshot, snapMu, flagVars, op, arg, acc, high, toRemove>>

Zero(t) ==
  /\ pc[t] = "zero"
  /\ count' = 0
  /\ Goto(t, "rebuild")
  /\ UNCHANGED <<byID, snapshot, snapMu, flagVars, op, arg, loopVars, high, toRemove>>

MarkAll(t) ==
  /\ pc[t] = "markAll"
  /\ deleted' = deleted \cup found[t]
  /\ Goto(t, "done")
  /\ UNCHANGED <<storeVars, expired, useCount, op, arg, loopVars, high, toRemove>>

\* The snapshot is rebuilt when something has gone.
AfterClean(t, gone) ==
  IF gone # {} THEN "rebuild" ELSE IF op[t] = "Watermark" THEN "quota" ELSE "done"

\* What the heap of a shard gives out: everything expired, and of the deleted
\* matchers not yet due those that happen to be at its top.
Clean(t) ==
  /\ pc[t] = "clean"
  /\ \E top \in SUBSET (deleted \cap Timed) :
       LET gone == (expired \cup top) \cap byID \cap InShard(shard[t]) IN
       /\ byID' = byID \ gone
       /\ deleted' = deleted \cup gone
       /\ count' = count - Cardinality(gone)
       /\ found' = [found EXCEPT ![t] = @ \cup gone]
       /\ Visit(t, AfterClean(t, found[t] \cup gone))
  /\ UNCHANGED <<snapshot, snapMu, expired, useCount, op, arg, acc, high, toRemove>>
-----------------------------------------------------------------------------
(* cleanToWatermark and the rebuild that follows it *)

\* The final rebuild, after which the cleaner ends.
Finish == op' = [op EXCEPT ![Cleaner] = "Trim"] /\ Goto(Cleaner, "rebuild")

Watermark ==
  /\ pc[Cleaner] = "watermark"
  /\ found' = [found EXCEPT ![Cleaner] = {}]
  /\ IF count <= WatermarkLow THEN Finish ELSE Goto(Cleaner, "clean") /\ UNCHANGED op
  /\ UNCHANGED <<storeVars, flagVars, arg, shard, acc, high, toRemove>>

Quota ==
  /\ pc[Cleaner] = "quota"
  /\ IF count <= WatermarkLow
     THEN Finish /\ UNCHANGED toRemove
     ELSE toRemove' = count - WatermarkLow /\ Goto(Cleaner, "trim") /\ UNCHANGED op
  /\ UNCHANGED <<storeVars, flagVars, arg, loopVars, high>>

\* The oldest matchers of the shard go, however the others rank.
Trim ==
  LET here == byID \cap InShard(shard[Cleaner]) IN
  /\ pc[Cleaner] = "trim"
  /\ \E old \in SUBSET here :
       /\ Cardinality(old) = toRemove \/ (Cardinality(old) < toRemove /\ old = here)
       /\ byID' = byID \ old
       /\ deleted' = deleted \cup old
       /\ count' = count - Cardinality(old)
       /\ toRemove' = toRemove - Cardinality(old)
  /\ IF shard[Cleaner] = ShardCount \/ toRemove' = 0
     THEN shard' = [shard EXCEPT ![Cleaner] = 1] /\ Finish
     ELSE shard' = [shard EXCEPT ![Cleaner] = @ + 1] /\ UNCHANGED <<pc, op>>
  /\ UNCHANGED <<snapshot, snapMu, expired, useCount, arg, found, acc, high>>
-----------------------------------------------------------------------------
(* An event that the matcher would match *)

AskHasAny(t) ==
  /\ pc[t] = "hasAny"
  /\ Goto(t, IF HasAny THEN "get" ELSE "done")
  /\ UNCHANGED <<storeVars, flagVars, op, arg, loopVars, high, toRemove>>

Get(t) ==
  /\ pc[t] = "get"
  /\ Goto(t, IF snapshot[arg[t]] > 0 THEN "match" ELSE "done")
  /\ UNCHANGED <<storeVars, flagVars, op, arg, loopVars, high, toRemove>>

Match(t) ==
  /\ pc[t] = "match"
  /\ Goto(t, IF arg[t] \in deleted THEN "done" ELSE "running")
  /\ UNCHANGED <<storeVars, flagVars, op, arg, loopVars, high, toRemove>>

\* Mutant: a used-up matcher is marked and left in the store.
AfterUseNothing(last) == "done"
AfterUse(last) == IF last THEN "delete" ELSE "done"

\* The handler has returned: under rt.mu the use is counted, the last use
\* deletes the matcher; a matcher deleted meanwhile is removed in any case.
Settle(t) ==
  /\ pc[t] = "running"
  /\ LET uses == useCount[arg[t]] + 1
         last == uses >= MaxUse
     IN IF arg[t] \in deleted
        THEN Goto(t, "delete") /\ UNCHANGED <<deleted, useCount>>
        ELSE /\ useCount' = [useCount EXCEPT ![arg[t]] = uses]
             /\ deleted' = IF last THEN deleted \cup {arg[t]} ELSE deleted
             /\ Goto(t, AfterUse(last))
  /\ UNCHANGED <<storeVars, expired, op, arg, loopVars, high, toRemove>>

\* The handler has panicked: the use is not counted.
HandlerPanic(t) ==
  /\ pc[t] = "running"
  /\ Goto(t, "done")
  /\ UNCHANGED <<storeVars, flagVars, op, arg, loopVars, high, toRemove>>
-----------------------------------------------------------------------------
AddStep(t) == Insert(t) \/ CountUp(t) \/ SnapCheck(t) \/ SnapStore(t) \/ Trigger(t)
RemoveStep(t) == Mark(t) \/ Delete(t) \/ CountDown(t) \/ SnapRemove(t)
BulkStep(t) ==
  Clear(t) \/ Zero(t) \/ MarkAll(t) \/ Clean(t) \/ Rebuild(t) \/ Gather(t) \/ Replace(t)
EventStep(t) == AskHasAny(t) \/ Get(t) \/ Match(t) \/ Settle(t) \/ HandlerPanic(t)

Next ==
  \/ \E t \in Threads : CallMatcher(t) \/ CallAll(t)
  \/ \E t \in Threads : AddStep(t) \/ RemoveStep(t) \/ BulkStep(t) \/ EventStep(t)
  \/ Watermark \/ Quota \/ Trim
  \/ \E m \in Matchers : Expire(m)

Spec == Init /\ [][Next]_vars
-----------------------------------------------------------------------------
AtRest == \A t \in Threads : pc[t] \in {"idle", "done"}
Used(kinds) == \E t \in Calls : pc[t] # "idle" /\ op[t] \in kinds

\* The calls that put in or take out this one matcher.
Moving(m) == {t \in Calls : pc[t] # "idle" /\ arg[t] = m}

\* No ghost: whatever overlapped, when all operations have ended no event is
\* routed to a matcher that is not in the store (temp_manager.go:411-416).
NoGhost == AtRest => \A m \in Matchers : snapshot[m] > 0 => m \in byID

\* A matcher in the store is in the snapshot when all operations have ended, if
\* no two calls were about this matcher: calls on other matchers, cleaning and
\* rebuilding do not drop it, whatever overlapped.
NoneForgotten ==
  AtRest => \A m \in byID : snapshot[m] > 0 \/ Cardinality(Moving(m)) > 1

\* No matcher is ever in the snapshot twice: it would handle an event twice.
RoutedOnce == \A m \in Matchers : snapshot[m] <= 1

\* The counter is exact but for the operations between a shard and the counter,
\* as long as Clear is not called.
CountExact ==
  ~Used({"Clear"}) =>
    count + Cardinality({t \in Threads : pc[t] = "countUp"})
      = Cardinality(byID) + Cardinality({t \in Threads : pc[t] = "countDown"})

\* A matcher that was deleted, used up or has expired under the cleaner does
\* not stay behind, unless it was being added or moved at the same time
\* (process.go:203-206).
NoZombie ==
  AtRest => \A m \in deleted \cap byID :
             \E t \in Calls : op[t] \in {"Add", "Reprioritise"} /\ arg[t] = m

\* engine_matcher_ops.go:278: temporary matchers take part in routing, every
\* one that is in the store.
EveryMatcherRouted == AtRest => \A m \in byID : snapshot[m] > 0

\* temp_manager.go:303: HasAny reports whether there are any temporary matchers.
HasAnyExact == AtRest => (HasAny <=> byID # {})
=============================================================================

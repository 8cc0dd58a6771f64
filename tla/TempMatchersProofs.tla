-------------------------- MODULE TempMatchersProofs --------------------------
(***************************************************************************)
(* The store of temporary matchers for any number of matchers, shards and  *)
(* overlapping calls: no ghost is routed to when all calls have ended, no  *)
(* matcher is forgotten or routed to twice, and the counter is exact.      *)
(*                                                                         *)
(* The shards, the counter and the snapshot disagree while calls overlap.  *)
(* The invariants say which thread still has to settle each disagreement:  *)
(* the snapshot may be wrong about a matcher only as long as some thread   *)
(* owes it a removal, an insertion or a rebuild.                           *)
(***************************************************************************)
EXTENDS TempMatchers, FiniteSetTheorems, TLAPS

ReAdding == {"insert", "countUp", "snapCheck", "snapStore"}
OfMatcher == ReAdding \cup {"mark", "delete", "countDown", "snapRemove",
                            "hasAny", "get", "match", "running"}
Rebuilding == {"clean", "rebuild", "gather", "publish"}
CleanerOnly == {"watermark", "quota", "trim"}

\* What a thread in a control state is working on.
RoleInv ==
  /\ pc[Cleaner] \in Rebuilding \cup CleanerOnly \cup {"idle"}
  /\ op[Cleaner] \in {"Watermark", "Trim"}
  /\ pc[Cleaner] \in CleanerOnly \cup {"clean"} => op[Cleaner] = "Watermark"
  /\ \A t \in Calls :
       /\ pc[t] \notin CleanerOnly
       /\ pc[t] \in OfMatcher => arg[t] \in Matchers
       /\ pc[t] \in ReAdding => op[t] \in {"Add", "Reprioritise"}
       /\ pc[t] \in {"clear", "zero", "markAll"} => op[t] = "Clear"
       /\ pc[t] \in Rebuilding => op[t] \in {"Clear", "CleanExpired"}

\* The snapshot is replaced by the holder of its mutex only.
MutexInv ==
  \A t \in Threads : pc[t] \in {"snapStore", "gather", "publish"} => snapMu = t

\* A matcher that may still be used has a use left.
UseInv == \A m \in Matchers : m \notin deleted => useCount[m] < MaxUse

BaseInv == TypeOK /\ RoleInv /\ MutexInv /\ UseInv /\ RoutedOnce

\* t still has to take m out of the snapshot, or to rebuild the snapshot.
Owes(t, m) ==
  \/ pc[t] \in {"countDown", "snapRemove"} /\ arg[t] = m
  \/ pc[t] \in {"clear", "zero", "clean", "rebuild"} /\ m \in found[t]
  \/ t = Cleaner /\ pc[t] \in CleanerOnly \cup {"clean", "rebuild"}
  \/ t = Cleaner /\ pc[t] \in {"gather", "publish"} /\ op[t] = "Watermark"
Gathers(t) == pc[t] \in {"gather", "publish"}
Drops(t, m) == Owes(t, m) \/ (Gathers(t) /\ m \notin acc[t])
\* t is about to put m into the snapshot.
Stores(t, m) == (Gathers(t) /\ m \in acc[t]) \/ (pc[t] = "snapStore" /\ arg[t] = m)

\* A matcher that has left the store leaves the snapshot, even if a thread that
\* saw it before is about to store it once more.
GhostInv ==
  \A m \in Matchers \ byID :
    /\ snapshot[m] > 0 => \E t \in Threads : Drops(t, m)
    /\ \A t \in Threads : Stores(t, m) => \E u \in Threads : Owes(u, m)

\* Two calls are about m.
Contended(m) == \E t, u \in Moving(m) : t # u
Inserts(t, m) == pc[t] \in {"countUp", "snapCheck"} /\ arg[t] = m
Removes(t, m) == pc[t] \in {"countDown", "snapRemove"} /\ arg[t] = m
Gathered(t, m) == pc[t] = "publish" \/ (pc[t] = "gather" /\ ShardOf[m] < shard[t])

\* A matcher of the store that is missing in the snapshot, or will be in the one
\* being built, has its insertion still to come, unless two calls move it.
KeptInv ==
  \A m \in byID : ~Contended(m) =>
    /\ snapshot[m] = 0 =>
         \E t \in Threads : Inserts(t, m) \/ (pc[t] = "snapStore" /\ arg[t] = m)
    /\ \A t \in Threads : Gathered(t, m) /\ m \notin acc[t] => \E u \in Threads : Inserts(u, m)
    /\ \A t \in Threads : ~Removes(t, m)

\* A call has put m into the store, or is about to.
Readds(m) ==
  \E t \in Calls : pc[t] # "idle" /\ op[t] \in {"Add", "Reprioritise"} /\ arg[t] = m

\* A deleted matcher in the store is on its way out or has been put back, and
\* so has one that Clear or CleanExpired took out.
ZombieInv ==
  \A m \in byID : ~Readds(m) =>
    /\ m \in deleted => \E t \in Calls : pc[t] = "delete" /\ arg[t] = m
    /\ \A t \in Calls : m \notin found[t]

StoreInv == GhostInv /\ KeptInv /\ ZombieInv
-----------------------------------------------------------------------------
\* The steps of a thread; only Expire is a step of none.
CleanerStep(t) == t = Cleaner /\ (Watermark \/ Quota \/ Trim)
Step(t) ==
  \/ CallMatcher(t) \/ CallAll(t) \/ AddStep(t) \/ RemoveStep(t) \/ BulkStep(t) \/ EventStep(t)
  \/ CleanerStep(t)

LEMMA Steps ==
  ASSUME [Next]_vars
  PROVE \/ \E t \in Threads : Step(t)
        \/ \E m \in Matchers : Expire(m)
        \/ UNCHANGED vars
  BY DEF Next, Step, CleanerStep, Threads

\* A thread leaves the others alone; Trigger starts the cleaner.
LEMMA OthersStay ==
  ASSUME BaseInv, NEW t \in Threads, Step(t), NEW u \in Threads, u # t
  PROVE /\ \/ pc'[u] = pc[u] /\ op'[u] = op[u]
           \/ u = Cleaner /\ pc[u] = "idle" /\ pc'[u] = "watermark" /\ op'[u] = "Watermark"
        /\ arg'[u] = arg[u] /\ shard'[u] = shard[u] /\ found'[u] = found[u] /\ acc'[u] = acc[u]
<1> USE DEF BaseInv, TypeOK, Goto, flagVars, storeVars, loopVars
<1>1. CASE CallMatcher(t) \/ CallAll(t)
  BY <1>1 DEF CallMatcher, CallAll
<1>2. CASE AddStep(t)
  BY <1>2 DEF AddStep, Insert, CountUp, SnapCheck, SnapStore, Trigger
<1>3. CASE RemoveStep(t)
  BY <1>3 DEF RemoveStep, Mark, Delete, CountDown, SnapRemove
<1>4. CASE Clear(t) \/ Clean(t) \/ Gather(t)
  BY <1>4 DEF Clear, Clean, Gather, Visit
<1>5. CASE Zero(t) \/ MarkAll(t) \/ Rebuild(t) \/ Replace(t)
  BY <1>5 DEF Zero, MarkAll, Rebuild, Replace
<1>6. CASE EventStep(t)
  BY <1>6 DEF EventStep, AskHasAny, Get, Match, Settle, HandlerPanic
<1>7. CASE CleanerStep(t)
  BY <1>7 DEF CleanerStep, Watermark, Quota, Trim, Finish
<1>8. QED
  BY <1>1, <1>2, <1>3, <1>4, <1>5, <1>6, <1>7 DEF Step, BulkStep

\* A call goes on with the operation and the matcher it began with.
LEMMA CallStays ==
  ASSUME BaseInv, [Next]_vars, NEW t \in Calls, pc[t] # "idle"
  PROVE pc'[t] # "idle" /\ op'[t] = op[t] /\ arg'[t] = arg[t]
<1> t \in Threads /\ Cleaner \notin Calls
  BY StoreAssumption DEF Threads
<1>1. CASE Step(t)
  <2> USE DEF BaseInv, TypeOK, Goto, flagVars, storeVars, loopVars
  <2>1. CASE CallMatcher(t) \/ CallAll(t)
    BY <2>1 DEF CallMatcher, CallAll
  <2>2. CASE AddStep(t)
    BY <2>2 DEF AddStep, Insert, CountUp, SnapCheck, SnapStore, Trigger, AfterInsert
  <2>3. CASE RemoveStep(t)
    BY <2>3 DEF RemoveStep, Mark, Delete, CountDown, SnapRemove, AfterRemove
  <2>4. CASE Clear(t) \/ Clean(t) \/ Gather(t)
    BY <2>4 DEF Clear, Clean, Gather, Visit, AfterClean
  <2>5. CASE Zero(t) \/ MarkAll(t) \/ Rebuild(t)
    BY <2>5 DEF Zero, MarkAll, Rebuild
  <2>6. CASE Replace(t)
    <3>1. op[t] \in {"Clear", "CleanExpired"}
      BY <2>6 DEF Replace, RoleInv, Rebuilding
    <3>2. QED
      BY <2>6, <3>1 DEF Replace
  <2>7. CASE EventStep(t)
    BY <2>7 DEF EventStep, AskHasAny, Get, Match, Settle, AfterUse, HandlerPanic
  <2>8. QED
    BY <1>1, <2>1, <2>2, <2>3, <2>4, <2>5, <2>6, <2>7 DEF Step, BulkStep, CleanerStep
<1>2. ASSUME NEW u \in Threads, u # t, Step(u)
      PROVE pc'[t] = pc[t] /\ op'[t] = op[t] /\ arg'[t] = arg[t]
  BY <1>2, OthersStay
<1>3. CASE (\E m \in Matchers : Expire(m)) \/ UNCHANGED vars
  BY <1>3 DEF Expire, vars
<1>4. QED
  BY <1>1, <1>2, <1>3, Steps

LEMMA Visits ==
  ASSUME TypeOK, NEW t \in Threads, NEW l, Visit(t, l)
  PROVE /\ shard' \in [Threads -> 1..ShardCount]
        /\ \/ shard[t] = ShardCount /\ shard' = [shard EXCEPT ![t] = 1] /\ Goto(t, l)
           \/ shard[t] < ShardCount /\ shard' = [shard EXCEPT ![t] = shard[t] + 1] /\ pc' = pc
<1>1. shard[t] \in 1..ShardCount /\ ShardCount \in Nat \ {0}
  BY StoreAssumption DEF TypeOK
<1>2. CASE shard[t] = ShardCount
  BY <1>1, <1>2 DEF Visit, TypeOK
<1>3. CASE shard[t] # ShardCount
  <2>1. shard[t] + 1 \in 1..ShardCount
    BY <1>1, <1>3
  <2>2. QED
    BY <1>1, <1>3, <2>1 DEF Visit, TypeOK
<1>4. QED
  BY <1>2, <1>3

\* What Clean and Trim take out, without the choice of it.
LEMMA Cleans ==
  ASSUME BaseInv, NEW t \in Threads, Clean(t)
  PROVE \E gone \in SUBSET byID :
          /\ pc[t] = "clean"
          /\ byID' = byID \ gone /\ deleted' = deleted \cup gone
          /\ count' = count - Cardinality(gone) /\ Cardinality(gone) \in Nat
          /\ found' = [found EXCEPT ![t] = found[t] \cup gone]
          /\ shard' \in [Threads -> 1..ShardCount]
          /\ \/ pc' = pc
             \/ pc' = [pc EXCEPT ![t] = AfterClean(t, found[t] \cup gone)]
          /\ UNCHANGED <<snapshot, snapMu, expired, useCount, op, arg, acc, high, toRemove>>
<1>1. PICK top \in SUBSET (deleted \cap Timed) :
        LET gone == (expired \cup top) \cap byID \cap InShard(shard[t]) IN
        /\ byID' = byID \ gone
        /\ deleted' = deleted \cup gone
        /\ count' = count - Cardinality(gone)
        /\ found' = [found EXCEPT ![t] = @ \cup gone]
        /\ Visit(t, AfterClean(t, found[t] \cup gone))
  BY DEF Clean
<1> DEFINE gone == (expired \cup top) \cap byID \cap InShard(shard[t])
<1>2. gone \in SUBSET byID /\ Cardinality(gone) \in Nat
  BY StoreAssumption, FS_Subset, FS_CardinalityType DEF BaseInv, TypeOK
<1> HIDE DEF gone
<1>3. Visit(t, AfterClean(t, found[t] \cup gone))
  BY <1>1 DEF gone
<1>4. shard' \in [Threads -> 1..ShardCount]
      /\ (Goto(t, AfterClean(t, found[t] \cup gone)) \/ pc' = pc)
  BY <1>3, Visits DEF BaseInv
<1>5. byID' = byID \ gone /\ deleted' = deleted \cup gone /\ count' = count - Cardinality(gone)
      /\ found' = [found EXCEPT ![t] = found[t] \cup gone]
  BY <1>1 DEF gone
<1>6. pc[t] = "clean"
      /\ UNCHANGED <<snapshot, snapMu, expired, useCount, op, arg, acc, high, toRemove>>
  BY DEF Clean
<1>7. QED
  BY <1>2, <1>4, <1>5, <1>6 DEF Goto

LEMMA Trims ==
  ASSUME BaseInv, Trim
  PROVE \E old \in SUBSET byID :
          /\ pc[Cleaner] = "trim"
          /\ byID' = byID \ old /\ deleted' = deleted \cup old
          /\ count' = count - Cardinality(old) /\ Cardinality(old) \in 0..toRemove
          /\ toRemove' = toRemove - Cardinality(old)
          /\ shard' \in [Threads -> 1..ShardCount]
          /\ (pc' = pc /\ op' = op) \/ Finish
          /\ UNCHANGED <<snapshot, snapMu, expired, useCount, arg, found, acc, high>>
<1> DEFINE here == byID \cap InShard(shard[Cleaner])
<1>1. PICK old \in SUBSET here :
        /\ Cardinality(old) = toRemove \/ (Cardinality(old) < toRemove /\ old = here)
        /\ byID' = byID \ old
        /\ deleted' = deleted \cup old
        /\ count' = count - Cardinality(old)
        /\ toRemove' = toRemove - Cardinality(old)
  BY DEF Trim
<1>2. old \in SUBSET byID /\ Cardinality(old) \in 0..toRemove
  <2>1. old \subseteq Matchers
    BY DEF BaseInv, TypeOK
  <2>2. Cardinality(old) \in Nat
    BY <2>1, StoreAssumption, FS_Subset, FS_CardinalityType
  <2>3. QED
    BY <1>1, <2>2 DEF BaseInv, TypeOK
<1>3. shard' \in [Threads -> 1..ShardCount] /\ ((pc' = pc /\ op' = op) \/ Finish)
  <2>1. Cleaner \in Threads
    BY DEF Threads
  <2>2. QED
    BY <2>1, StoreAssumption DEF Trim, BaseInv, TypeOK
<1>4. pc[Cleaner] = "trim"
      /\ UNCHANGED <<snapshot, snapMu, expired, useCount, arg, found, acc, high>>
  BY DEF Trim
<1>5. QED
  BY <1>1, <1>2, <1>3, <1>4

LEMMA TypeStep == BaseInv /\ [Next]_vars => TypeOK'
<1> SUFFICES ASSUME BaseInv, [Next]_vars PROVE TypeOK'
  OBVIOUS
<1> USE DEF BaseInv, TypeOK, Goto, flagVars, storeVars, loopVars
<1>1. ASSUME NEW t \in Threads, CallMatcher(t) \/ CallAll(t) PROVE TypeOK'
  <2>1. CASE CallMatcher(t)
    BY <2>1, StoreAssumption DEF CallMatcher, AllKinds
  <2>2. CASE CallAll(t)
    BY <2>2 DEF CallAll
  <2>3. QED
    BY <1>1, <2>1, <2>2
<1>2. ASSUME NEW t \in Threads, AddStep(t) PROVE TypeOK'
  <2>1. CASE Insert(t)
    <3>1. Known(t) \/ arg[t] \in Matchers
      BY <2>1, StoreAssumption DEF Insert, RoleInv, ReAdding, OfMatcher, CleanerOnly, Rebuilding, Threads
    <3>2. QED
      BY <2>1, <3>1 DEF Insert
  <2>2. CASE CountUp(t)
    BY <2>2 DEF CountUp
  <2>3. CASE SnapCheck(t)
    BY <2>3 DEF SnapCheck, AfterInsert
  <2>4. CASE SnapStore(t)
    BY <2>4, StoreAssumption DEF SnapStore, Inserted, AfterInsert
  <2>5. CASE Trigger(t)
    BY <2>5, StoreAssumption DEF Trigger, Threads
  <2>6. QED
    BY <1>2, <2>1, <2>2, <2>3, <2>4, <2>5 DEF AddStep
<1>3. ASSUME NEW t \in Threads, RemoveStep(t) PROVE TypeOK'
  <2>1. CASE Mark(t)
    <3>1. arg[t] \in Matchers
      BY <2>1, StoreAssumption DEF Mark, RoleInv, OfMatcher, CleanerOnly, Rebuilding, Threads
    <3>2. QED
      BY <2>1, <3>1 DEF Mark
  <2>2. CASE Delete(t) \/ CountDown(t)
    BY <2>2 DEF Delete, CountDown, AfterRemove
  <2>3. CASE SnapRemove(t)
    <3>1. arg[t] \in Matchers
      BY <2>3, StoreAssumption DEF SnapRemove, RoleInv, OfMatcher, CleanerOnly, Rebuilding, Threads
    <3>2. Dropped(snapshot[arg[t]]) \in Nat
      BY <3>1 DEF Dropped
    <3>3. QED
      BY <2>3, <3>1, <3>2 DEF SnapRemove, AfterRemove
  <2>4. QED
    BY <1>3, <2>1, <2>2, <2>3 DEF RemoveStep
<1>4. ASSUME NEW t \in Threads, BulkStep(t) PROVE TypeOK'
  <2>1. CASE Clear(t)
    <3>1. PICK l \in {"done", "zero"} : Visit(t, l)
      BY <2>1 DEF Clear
    <3>2. shard' \in [Threads -> 1..ShardCount] /\ (Goto(t, l) \/ pc' = pc)
      BY <3>1, Visits
    <3>3. QED
      BY <2>1, <3>2 DEF Clear
  <2>2. CASE Zero(t) \/ MarkAll(t) \/ Rebuild(t)
    BY <2>2, StoreAssumption DEF Zero, MarkAll, Rebuild
  <2>3. CASE Clean(t)
    <3>1. PICK gone \in SUBSET byID :
            /\ byID' = byID \ gone /\ deleted' = deleted \cup gone
            /\ count' = count - Cardinality(gone) /\ Cardinality(gone) \in Nat
            /\ found' = [found EXCEPT ![t] = found[t] \cup gone]
            /\ shard' \in [Threads -> 1..ShardCount]
            /\ \/ pc' = pc
               \/ pc' = [pc EXCEPT ![t] = AfterClean(t, found[t] \cup gone)]
            /\ UNCHANGED <<snapshot, snapMu, expired, useCount, op, arg, acc, high, toRemove>>
      BY <2>3, Cleans
    <3>2. AfterClean(t, found[t] \cup gone) \in {"rebuild", "quota", "done"}
      BY DEF AfterClean
    <3>3. QED
      BY <3>1, <3>2
  <2>4. CASE Gather(t)
    <3>1. shard' \in [Threads -> 1..ShardCount] /\ (Goto(t, "publish") \/ pc' = pc)
      BY <2>4, Visits DEF Gather
    <3>2. QED
      BY <2>4, <3>1 DEF Gather
  <2>5. CASE Replace(t)
    <3>1. op[t] \in {"Clear", "CleanExpired", "Watermark", "Trim"}
      BY <2>5 DEF Replace, RoleInv, Rebuilding, Threads
    <3>2. QED
      BY <2>5, <3>1 DEF Replace
  <2>6. QED
    BY <1>4, <2>1, <2>2, <2>3, <2>4, <2>5 DEF BulkStep
<1>5. ASSUME NEW t \in Threads, EventStep(t) PROVE TypeOK'
  <2>1. CASE AskHasAny(t) \/ Get(t) \/ Match(t) \/ HandlerPanic(t)
    BY <2>1 DEF AskHasAny, Get, Match, HandlerPanic
  <2>2. CASE Settle(t)
    <3>1. arg[t] \in Matchers
      BY <2>2, StoreAssumption DEF Settle, RoleInv, OfMatcher, CleanerOnly, Rebuilding, Threads
    <3>2. arg[t] \in deleted \/ useCount[arg[t]] + 1 \in 0..MaxUse
      BY <3>1, StoreAssumption DEF UseInv
    <3>3. QED
      BY <2>2, <3>1, <3>2 DEF Settle, AfterUse
  <2>3. QED
    BY <1>5, <2>1, <2>2 DEF EventStep
<1>6. ASSUME Watermark \/ Quota \/ Trim PROVE TypeOK'
  <2>0. Cleaner \in Threads
    BY DEF Threads
  <2>1. CASE Watermark
    BY <2>0, <2>1 DEF Watermark, Finish
  <2>2. CASE Quota
    BY <2>0, <2>2, StoreAssumption DEF Quota, Finish
  <2>3. CASE Trim
    BY <2>0, <2>3, Trims DEF Finish
  <2>4. QED
    BY <1>6, <2>1, <2>2, <2>3
<1>7. CASE (\E m \in Matchers : Expire(m)) \/ UNCHANGED vars
  BY <1>7 DEF Expire, vars
<1>8. QED
  BY <1>1, <1>2, <1>3, <1>4, <1>5, <1>6, <1>7 DEF Next

LEMMA RoleStep == BaseInv /\ [Next]_vars => RoleInv'
<1> SUFFICES ASSUME BaseInv, [Next]_vars PROVE RoleInv'
  OBVIOUS
<1>0. Cleaner \in Threads /\ Calls \subseteq Threads /\ Cleaner \notin Calls
  BY StoreAssumption DEF Threads
<1> USE <1>0 DEF BaseInv, TypeOK, RoleInv, Goto, flagVars, storeVars, loopVars, ReAdding, OfMatcher,
           CleanerOnly, Rebuilding
<1>1. ASSUME NEW t \in Threads, CallMatcher(t) \/ CallAll(t) PROVE RoleInv'
  <2>1. CASE CallMatcher(t)
    BY <2>1, StoreAssumption DEF CallMatcher, AllKinds
  <2>2. CASE CallAll(t)
    BY <2>2 DEF CallAll
  <2>3. QED
    BY <1>1, <2>1, <2>2
<1>2. ASSUME NEW t \in Threads, Insert(t) \/ CountUp(t) \/ SnapCheck(t) \/ SnapStore(t) PROVE RoleInv'
  BY <1>2 DEF Insert, CountUp, SnapCheck, SnapStore, AfterInsert
<1>3. ASSUME NEW t \in Threads, Trigger(t) PROVE RoleInv'
  BY <1>3 DEF Trigger
<1>4. ASSUME NEW t \in Threads, RemoveStep(t) PROVE RoleInv'
  BY <1>4 DEF RemoveStep, Mark, Delete, CountDown, SnapRemove, AfterRemove
<1>5. ASSUME NEW t \in Threads, BulkStep(t) PROVE RoleInv'
  <2>1. CASE Clear(t)
    <3>1. PICK l \in {"done", "zero"} : Visit(t, l)
      BY <2>1 DEF Clear
    <3>2. QED
      BY <2>1, <3>1, Visits DEF Clear
  <2>2. CASE Zero(t) \/ MarkAll(t) \/ Rebuild(t)
    BY <2>2 DEF Zero, MarkAll, Rebuild
  <2>3. CASE Clean(t)
    <3>1. pc[t] = "clean" /\ UNCHANGED <<op, arg>>
      BY <2>3 DEF Clean
    <3>2. \/ pc' = pc \/ pc' = [pc EXCEPT ![t] = "rebuild"]
          \/ pc' = [pc EXCEPT ![t] = "quota"] /\ op[t] = "Watermark"
          \/ pc' = [pc EXCEPT ![t] = "done"] /\ op[t] # "Watermark"
      BY <2>3, Cleans DEF AfterClean
    <3>3. QED
      BY <3>1, <3>2
  <2>4. CASE Gather(t)
    BY <2>4, Visits DEF Gather
  <2>5. CASE Replace(t)
    BY <2>5 DEF Replace
  <2>6. QED
    BY <1>5, <2>1, <2>2, <2>3, <2>4, <2>5 DEF BulkStep
<1>6. ASSUME NEW t \in Threads, EventStep(t) PROVE RoleInv'
  BY <1>6 DEF EventStep, AskHasAny, Get, Match, Settle, AfterUse, HandlerPanic
<1>7. ASSUME Watermark \/ Quota \/ Trim PROVE RoleInv'
  <2>1. CASE Watermark \/ Quota
    BY <2>1 DEF Watermark, Quota, Finish
  <2>2. CASE Trim
    BY <2>2, Trims DEF Finish
  <2>3. QED
    BY <1>7, <2>1, <2>2
<1>8. CASE (\E m \in Matchers : Expire(m)) \/ UNCHANGED vars
  BY <1>8 DEF Expire, vars
<1>9. QED
  BY <1>1, <1>2, <1>3, <1>4, <1>5, <1>6, <1>7, <1>8 DEF Next, AddStep

LEMMA MutexStep == BaseInv /\ [Next]_vars => MutexInv'
<1> SUFFICES ASSUME BaseInv, [Next]_vars PROVE MutexInv'
  OBVIOUS
<1>0. Cleaner \in Threads /\ Nil \notin Threads
  BY StoreAssumption DEF Threads
<1> USE <1>0 DEF BaseInv, TypeOK, MutexInv, Goto, flagVars, storeVars, loopVars
<1>1. ASSUME NEW t \in Threads, CallMatcher(t) \/ CallAll(t) PROVE MutexInv'
  BY <1>1 DEF CallMatcher, CallAll
<1>2. ASSUME NEW t \in Threads, AddStep(t) PROVE MutexInv'
  BY <1>2 DEF AddStep, Insert, CountUp, SnapCheck, SnapStore, Trigger, AfterInsert
<1>3. ASSUME NEW t \in Threads, RemoveStep(t) PROVE MutexInv'
  BY <1>3 DEF RemoveStep, Mark, Delete, CountDown, SnapRemove, AfterRemove
<1>4. ASSUME NEW t \in Threads, BulkStep(t) PROVE MutexInv'
  <2>1. CASE Clear(t)
    <3>1. PICK l \in {"done", "zero"} : Visit(t, l)
      BY <2>1 DEF Clear
    <3>2. QED
      BY <2>1, <3>1, Visits DEF Clear
  <2>2. CASE Zero(t) \/ MarkAll(t) \/ Rebuild(t)
    BY <2>2 DEF Zero, MarkAll, Rebuild
  <2>3. CASE Clean(t)
    BY <2>3, Cleans DEF AfterClean
  <2>4. CASE Gather(t)
    BY <2>4, Visits DEF Gather
  <2>5. CASE Replace(t)
    <3>1. op[t] \in {"Clear", "CleanExpired", "Watermark", "Trim"}
      BY <2>5 DEF Replace, RoleInv, Rebuilding, Threads
    <3>2. QED
      BY <2>5, <3>1 DEF Replace
  <2>6. QED
    BY <1>4, <2>1, <2>2, <2>3, <2>4, <2>5 DEF BulkStep
<1>5. ASSUME NEW t \in Threads, EventStep(t) PROVE MutexInv'
  BY <1>5 DEF EventStep, AskHasAny, Get, Match, Settle, AfterUse, HandlerPanic
<1>6. ASSUME Watermark \/ Quota \/ Trim PROVE MutexInv'
  <2>1. CASE Watermark \/ Quota
    BY <2>1 DEF Watermark, Quota, Finish
  <2>2. CASE Trim
    BY <2>2, Trims DEF Finish
  <2>3. QED
    BY <1>6, <2>1, <2>2
<1>7. CASE (\E m \in Matchers : Expire(m)) \/ UNCHANGED vars
  BY <1>7 DEF Expire, vars
<1>8. QED
  BY <1>1, <1>2, <1>3, <1>4, <1>5, <1>6, <1>7 DEF Next
-----------------------------------------------------------------------------
(* Who changes what *)

LEMMA SnapshotChanges ==
  ASSUME [Next]_vars, snapshot' # snapshot
  PROVE \E t \in Threads : SnapStore(t) \/ SnapRemove(t) \/ Replace(t)
<1>1. ASSUME NEW t \in Threads,
             \/ CallMatcher(t) \/ CallAll(t) \/ Insert(t) \/ CountUp(t) \/ SnapCheck(t) \/ Trigger(t)
             \/ Mark(t) \/ Delete(t) \/ CountDown(t) \/ Clear(t) \/ Zero(t) \/ MarkAll(t) \/ Clean(t)
             \/ Rebuild(t) \/ Gather(t) \/ EventStep(t)
      PROVE FALSE
  BY <1>1 DEF CallMatcher, CallAll, Insert, CountUp, SnapCheck, Trigger, Mark, Delete, CountDown,
     Clear, Zero, MarkAll, Clean, Rebuild, Gather, EventStep, AskHasAny, Get, Match, Settle,
     HandlerPanic, storeVars
<1>2. ~(Watermark \/ Quota \/ Trim \/ (\E m \in Matchers : Expire(m)) \/ UNCHANGED vars)
  BY DEF Watermark, Quota, Trim, Expire, storeVars, vars
<1>3. QED
  BY <1>1, <1>2 DEF Next, AddStep, RemoveStep, BulkStep

LEMMA StoreChanges ==
  ASSUME [Next]_vars, byID' # byID
  PROVE (\E t \in Threads : Insert(t) \/ Delete(t) \/ Clear(t) \/ Clean(t)) \/ Trim
<1>1. ASSUME NEW t \in Threads,
             \/ CallMatcher(t) \/ CallAll(t) \/ CountUp(t) \/ SnapCheck(t) \/ SnapStore(t) \/ Trigger(t)
             \/ Mark(t) \/ CountDown(t) \/ SnapRemove(t) \/ Zero(t) \/ MarkAll(t)
             \/ Rebuild(t) \/ Gather(t) \/ Replace(t) \/ EventStep(t)
      PROVE FALSE
  BY <1>1 DEF CallMatcher, CallAll, CountUp, SnapCheck, SnapStore, Trigger, Mark, CountDown,
     SnapRemove, Zero, MarkAll, Rebuild, Gather, Replace, EventStep, AskHasAny, Get, Match, Settle,
     HandlerPanic, storeVars
<1>2. ~(Watermark \/ Quota \/ (\E m \in Matchers : Expire(m)) \/ UNCHANGED vars)
  BY DEF Watermark, Quota, Expire, storeVars, vars
<1>3. QED
  BY <1>1, <1>2 DEF Next, AddStep, RemoveStep, BulkStep

LEMMA DeletedChanges ==
  ASSUME [Next]_vars, deleted' # deleted
  PROVE (\E t \in Threads : Mark(t) \/ MarkAll(t) \/ Clean(t) \/ Settle(t)) \/ Trim
<1>1. ASSUME NEW t \in Threads,
             \/ CallMatcher(t) \/ CallAll(t) \/ AddStep(t) \/ Delete(t) \/ CountDown(t)
             \/ SnapRemove(t) \/ Clear(t) \/ Zero(t) \/ Rebuild(t) \/ Gather(t) \/ Replace(t)
             \/ AskHasAny(t) \/ Get(t) \/ Match(t) \/ HandlerPanic(t)
      PROVE FALSE
  BY <1>1 DEF CallMatcher, CallAll, AddStep, Insert, CountUp, SnapCheck, SnapStore, Trigger,
     Delete, CountDown, SnapRemove, Clear, Zero, Rebuild, Gather, Replace,
     AskHasAny, Get, Match, HandlerPanic, flagVars
<1>2. ~(Watermark \/ Quota \/ (\E m \in Matchers : Expire(m)) \/ UNCHANGED vars)
  BY DEF Watermark, Quota, Expire, flagVars, vars
<1>3. QED
  BY <1>1, <1>2 DEF Next, RemoveStep, BulkStep, EventStep

LEMMA UsesChange ==
  ASSUME [Next]_vars, useCount' # useCount
  PROVE \E t \in Threads : Settle(t)
<1>1. ASSUME NEW t \in Threads,
             \/ CallMatcher(t) \/ CallAll(t) \/ AddStep(t) \/ RemoveStep(t) \/ BulkStep(t)
             \/ AskHasAny(t) \/ Get(t) \/ Match(t) \/ HandlerPanic(t)
      PROVE FALSE
  BY <1>1 DEF CallMatcher, CallAll, AddStep, Insert, CountUp, SnapCheck, SnapStore, Trigger,
     RemoveStep, Mark, Delete, CountDown, SnapRemove, BulkStep, Clear, Zero, MarkAll, Clean,
     Rebuild, Gather, Replace, AskHasAny, Get, Match, HandlerPanic, flagVars
<1>2. ~(Watermark \/ Quota \/ Trim \/ (\E m \in Matchers : Expire(m)) \/ UNCHANGED vars)
  BY DEF Watermark, Quota, Trim, Expire, flagVars, vars
<1>3. QED
  BY <1>1, <1>2 DEF Next, EventStep

LEMMA DeletedGrows == BaseInv /\ [Next]_vars => deleted \subseteq deleted'
<1>1. ASSUME BaseInv, NEW t \in Threads, Mark(t) \/ MarkAll(t) \/ Clean(t) \/ Settle(t)
      PROVE deleted \subseteq deleted'
  BY <1>1, Cleans DEF Mark, MarkAll, Settle
<1>2. QED
  BY <1>1, DeletedChanges, Trims

\* The matcher of a thread that works on one.
LEMMA ArgKnown ==
  ASSUME BaseInv, NEW t \in Threads, pc[t] \in OfMatcher
  PROVE arg[t] \in Matchers /\ t \in Calls
  BY DEF BaseInv, RoleInv, OfMatcher, ReAdding, Rebuilding, CleanerOnly, Threads

LEMMA UseStep == BaseInv /\ [Next]_vars => UseInv'
<1> SUFFICES ASSUME BaseInv, [Next]_vars PROVE UseInv'
  OBVIOUS
<1>1. CASE useCount' = useCount
  BY <1>1, DeletedGrows DEF BaseInv, UseInv
<1>2. ASSUME NEW t \in Threads, Settle(t) PROVE UseInv'
  <2>1. arg[t] \in Matchers
    BY <1>2, ArgKnown DEF Settle, OfMatcher
  <2>2. useCount \in [Matchers -> Nat] /\ MaxUse \in Nat
    BY StoreAssumption DEF BaseInv, TypeOK
  <2>3. QED
    BY <1>2, <2>1, <2>2 DEF Settle, BaseInv, UseInv
<1>3. QED
  BY <1>1, <1>2, UsesChange

LEMMA RoutedStep == BaseInv /\ [Next]_vars => RoutedOnce'
<1> SUFFICES ASSUME BaseInv, [Next]_vars PROVE RoutedOnce'
  OBVIOUS
<1>1. snapshot \in [Matchers -> Nat] /\ \A m \in Matchers : snapshot[m] <= 1
  BY DEF BaseInv, TypeOK, RoutedOnce
<1>2. CASE snapshot' = snapshot
  BY <1>1, <1>2 DEF RoutedOnce
<1>3. ASSUME NEW t \in Threads, SnapStore(t) \/ SnapRemove(t) \/ Replace(t) PROVE RoutedOnce'
  <2>1. CASE SnapStore(t)
    BY <1>1, <2>1 DEF SnapStore, Inserted, RoutedOnce
  <2>2. CASE SnapRemove(t)
    <3>1. arg[t] \in Matchers
      BY <2>2, ArgKnown DEF SnapRemove, OfMatcher
    <3>2. snapshot' = [snapshot EXCEPT ![arg[t]] = Dropped(snapshot[arg[t]])]
      BY <2>2 DEF SnapRemove
    <3>3. Dropped(snapshot[arg[t]]) <= 1
      BY <1>1, <3>1 DEF Dropped
    <3>4. QED
      BY <1>1, <3>1, <3>2, <3>3 DEF RoutedOnce
  <2>3. CASE Replace(t)
    BY <2>3 DEF Replace, RoutedOnce
  <2>4. QED
    BY <1>3, <2>1, <2>2, <2>3
<1>4. QED
  BY <1>2, <1>3, SnapshotChanges

LEMMA InitBase == Init => BaseInv
<1> SUFFICES ASSUME Init PROVE BaseInv
  OBVIOUS
<1>1. byID \subseteq Matchers /\ Cardinality(byID) \in Int
  BY StoreAssumption, FS_Subset, FS_CardinalityType DEF Init
<1>2. TypeOK
  BY <1>1, StoreAssumption DEF Init, TypeOK
<1>3. RoleInv /\ MutexInv /\ UseInv /\ RoutedOnce
  BY StoreAssumption DEF Init, RoleInv, MutexInv, UseInv, RoutedOnce, Threads, CleanerOnly,
     OfMatcher, ReAdding, Rebuilding
<1>4. QED
  BY <1>2, <1>3 DEF BaseInv

LEMMA NextBase == BaseInv /\ [Next]_vars => BaseInv'
  BY TypeStep, RoleStep, MutexStep, UseStep, RoutedStep DEF BaseInv

\* Types, what a thread may be in the middle of, who holds the mutex of the snapshot,
\* and that the snapshot lists no matcher twice (temp_manager.go).
THEOREM BaseInvariant == Spec => []BaseInv
  BY InitBase, NextBase, PTL DEF Spec
-----------------------------------------------------------------------------
(* The counter *)

Ups == {t \in Threads : pc[t] = "countUp"}
Downs == {t \in Threads : pc[t] = "countDown"}
Exact == count + Cardinality(Ups) = Cardinality(byID) + Cardinality(Downs)

LEMMA CountsFinite ==
  ASSUME BaseInv
  PROVE /\ IsFiniteSet(Ups) /\ IsFiniteSet(Downs) /\ IsFiniteSet(byID)
        /\ Cardinality(Ups) \in Nat /\ Cardinality(Downs) \in Nat /\ Cardinality(byID) \in Nat
        /\ count \in Int
<1>1. IsFiniteSet(Threads)
  BY StoreAssumption, FS_AddElement DEF Threads
<1>2. byID \subseteq Matchers /\ count \in Int
  BY DEF BaseInv, TypeOK
<1>3. QED
  BY <1>1, <1>2, StoreAssumption, FS_Subset, FS_CardinalityType DEF Ups, Downs

\* Nobody but t begins or ends to owe an update of the counter.
LEMMA DebtsMove ==
  ASSUME BaseInv, NEW t \in Threads, \A u \in Threads : u # t => pc'[u] = pc[u]
  PROVE /\ pc[t] # "countUp" /\ pc'[t] = "countUp" => Cardinality(Ups') = Cardinality(Ups) + 1
        /\ pc[t] = "countUp" /\ pc'[t] # "countUp" => Cardinality(Ups') = Cardinality(Ups) - 1
        /\ pc[t] # "countUp" /\ pc'[t] # "countUp" => Ups' = Ups
        /\ pc[t] # "countDown" /\ pc'[t] = "countDown" => Cardinality(Downs') = Cardinality(Downs) + 1
        /\ pc[t] = "countDown" /\ pc'[t] # "countDown" => Cardinality(Downs') = Cardinality(Downs) - 1
        /\ pc[t] # "countDown" /\ pc'[t] # "countDown" => Downs' = Downs
<1>1. ASSUME pc[t] # "countUp" /\ pc'[t] = "countUp"
      PROVE Cardinality(Ups') = Cardinality(Ups) + 1
  <2>1. Ups' = Ups \cup {t} /\ t \notin Ups
    BY <1>1 DEF Ups
  <2>2. QED
    BY <1>1, <2>1, CountsFinite, FS_AddElement
<1>2. ASSUME pc[t] = "countUp" /\ pc'[t] # "countUp"
      PROVE Cardinality(Ups') = Cardinality(Ups) - 1
  <2>1. Ups' = Ups \ {t} /\ t \in Ups
    BY <1>2 DEF Ups
  <2>2. QED
    BY <1>2, <2>1, CountsFinite, FS_RemoveElement
<1>3. ASSUME pc[t] # "countDown" /\ pc'[t] = "countDown"
      PROVE Cardinality(Downs') = Cardinality(Downs) + 1
  <2>1. Downs' = Downs \cup {t} /\ t \notin Downs
    BY <1>3 DEF Downs
  <2>2. QED
    BY <1>3, <2>1, CountsFinite, FS_AddElement
<1>4. ASSUME pc[t] = "countDown" /\ pc'[t] # "countDown"
      PROVE Cardinality(Downs') = Cardinality(Downs) - 1
  <2>1. Downs' = Downs \ {t} /\ t \in Downs
    BY <1>4 DEF Downs
  <2>2. QED
    BY <1>4, <2>1, CountsFinite, FS_RemoveElement
<1>5. /\ pc[t] # "countUp" /\ pc'[t] # "countUp" => Ups' = Ups
      /\ pc[t] # "countDown" /\ pc'[t] # "countDown" => Downs' = Downs
  BY DEF Ups, Downs
<1>6. QED
  BY <1>1, <1>2, <1>3, <1>4, <1>5

LEMMA Moves ==
  ASSUME BaseInv, NEW t \in Threads, NEW l, Goto(t, l)
  PROVE pc'[t] = l /\ \A u \in Threads : u # t => pc'[u] = pc[u]
  BY DEF BaseInv, TypeOK, Goto

LEMMA SetMinus ==
  ASSUME NEW S, IsFiniteSet(S), NEW D \in SUBSET S
  PROVE Cardinality(S \ D) = Cardinality(S) - Cardinality(D)
<1>1. IsFiniteSet(D) /\ S \cap D = D
  BY FS_Subset
<1>2. QED
  BY <1>1, FS_Difference

\* Every step but those of Clear leaves the counter exact.
LEMMA ExactStep ==
  ASSUME BaseInv, Exact, [Next]_vars,
         \A t \in Threads : ~Clear(t) /\ ~Zero(t)
  PROVE Exact'
<1> USE CountsFinite
<1>1. CASE UNCHANGED <<byID, count, Ups, Downs>>
  BY <1>1 DEF Exact
<1>2. ASSUME NEW t \in Threads, Insert(t) PROVE Exact'
  <2>1. CASE Known(t)
    <3>1. UNCHANGED <<byID, count, Ups, Downs>>
      BY <1>2, <2>1, DebtsMove, Moves DEF Insert
    <3>2. QED
      BY <3>1, <1>1
  <2>2. CASE ~Known(t)
    <3>1. count' = count /\ byID' = byID \cup {arg[t]} /\ arg[t] \notin byID
      BY <1>2, <2>2 DEF Insert, Known
    <3>2. Cardinality(byID') = Cardinality(byID) + 1
      BY <3>1, FS_AddElement
    <3>3. pc[t] = "insert" /\ Goto(t, "countUp")
      BY <1>2, <2>2 DEF Insert
    <3>4. Cardinality(Ups') = Cardinality(Ups) + 1 /\ Downs' = Downs
      BY <3>3, DebtsMove, Moves
    <3>5. QED
      BY <3>1, <3>2, <3>4 DEF Exact
  <2>3. QED
    BY <2>1, <2>2
<1>3. ASSUME NEW t \in Threads, CountUp(t) PROVE Exact'
  <2>1. pc[t] = "countUp" /\ Goto(t, "snapCheck") /\ count' = count + 1 /\ byID' = byID
    BY <1>3 DEF CountUp
  <2>2. Cardinality(Ups') = Cardinality(Ups) - 1 /\ Downs' = Downs
    BY <2>1, DebtsMove, Moves
  <2>3. QED
    BY <2>1, <2>2 DEF Exact
<1>4. ASSUME NEW t \in Threads, Delete(t) PROVE Exact'
  <2>1. CASE arg[t] \in byID
    <3>1. count' = count /\ byID' = byID \ {arg[t]}
      BY <1>4, <2>1 DEF Delete
    <3>2. Cardinality(byID') = Cardinality(byID) - 1
      BY <2>1, <3>1, FS_RemoveElement
    <3>3. pc[t] = "delete" /\ Goto(t, "countDown")
      BY <1>4, <2>1 DEF Delete
    <3>4. Cardinality(Downs') = Cardinality(Downs) + 1 /\ Ups' = Ups
      BY <3>3, DebtsMove, Moves
    <3>5. QED
      BY <3>1, <3>2, <3>4 DEF Exact
  <2>2. CASE arg[t] \notin byID
    <3>1. pc[t] = "delete" /\ Goto(t, AfterRemove(t)) /\ UNCHANGED <<byID, count>>
      BY <1>4, <2>2 DEF Delete
    <3>2. AfterRemove(t) \in {"insert", "done"}
      BY DEF AfterRemove
    <3>3. UNCHANGED <<Ups, Downs>>
      BY <3>1, <3>2, DebtsMove, Moves
    <3>4. QED
      BY <3>1, <3>3, <1>1
  <2>3. QED
    BY <2>1, <2>2
<1>5. ASSUME NEW t \in Threads, CountDown(t) PROVE Exact'
  <2>1. /\ pc[t] = "countDown" /\ Goto(t, "snapRemove")
        /\ count' = count - 1 /\ byID' = byID
    BY <1>5 DEF CountDown
  <2>2. Cardinality(Downs') = Cardinality(Downs) - 1 /\ Ups' = Ups
    BY <2>1, DebtsMove, Moves
  <2>3. QED
    BY <2>1, <2>2 DEF Exact
<1>6. ASSUME NEW t \in Threads, Clean(t) PROVE Exact'
  <2>1. PICK gone \in SUBSET byID :
          /\ pc[t] = "clean" /\ byID' = byID \ gone
          /\ count' = count - Cardinality(gone) /\ Cardinality(gone) \in Nat
          /\ pc' = pc \/ pc' = [pc EXCEPT ![t] = AfterClean(t, found[t] \cup gone)]
    BY <1>6, Cleans
  <2>2. AfterClean(t, found[t] \cup gone) \in {"rebuild", "quota", "done"}
    BY DEF AfterClean
  <2>3. UNCHANGED <<Ups, Downs>>
    <3>1. CASE pc' = pc
      BY <3>1 DEF Ups, Downs
    <3>2. CASE pc' = [pc EXCEPT ![t] = AfterClean(t, found[t] \cup gone)]
      <4>1. Goto(t, AfterClean(t, found[t] \cup gone))
        BY <3>2 DEF Goto
      <4>2. QED
        BY <2>1, <2>2, <4>1, DebtsMove, Moves
    <3>3. QED
      BY <2>1, <3>1, <3>2
  <2>4. Cardinality(byID') = Cardinality(byID) - Cardinality(gone)
    BY <2>1, SetMinus
  <2>5. QED
    BY <2>1, <2>3, <2>4 DEF Exact
<1>7. CASE Trim
  <2>1. PICK old \in SUBSET byID :
          /\ pc[Cleaner] = "trim" /\ byID' = byID \ old
          /\ count' = count - Cardinality(old) /\ Cardinality(old) \in 0..toRemove
          /\ (pc' = pc /\ op' = op) \/ Finish
    BY <1>7, Trims
  <2>2. UNCHANGED <<Ups, Downs>>
    <3>1. CASE pc' = pc
      BY <3>1 DEF Ups, Downs
    <3>2. CASE Finish
      <4>1. Cleaner \in Threads /\ Goto(Cleaner, "rebuild")
        BY <3>2 DEF Finish, Threads
      <4>2. QED
        BY <2>1, <4>1, DebtsMove, Moves
    <3>3. QED
      BY <2>1, <3>1, <3>2
  <2>3. Cardinality(byID') = Cardinality(byID) - Cardinality(old) /\ Cardinality(old) \in Nat
    BY <2>1, SetMinus
  <2>4. QED
    BY <2>1, <2>2, <2>3 DEF Exact
<1>8. ASSUME NEW t \in Threads,
             \/ CallMatcher(t) \/ CallAll(t) \/ SnapCheck(t) \/ SnapStore(t) \/ Trigger(t)
             \/ Mark(t) \/ SnapRemove(t) \/ MarkAll(t) \/ Rebuild(t) \/ Gather(t) \/ Replace(t)
             \/ EventStep(t)
      PROVE Exact'
  <2>0. Cleaner \in Threads
    BY DEF Threads
  <2>1. UNCHANGED <<byID, count>>
    BY <1>8 DEF CallMatcher, CallAll, SnapCheck, SnapStore, Trigger, Mark, SnapRemove, MarkAll,
       Rebuild, Gather, Replace, EventStep, AskHasAny, Get, Match, Settle, HandlerPanic, storeVars
  <2>2. \A u \in Threads : /\ pc'[u] = "countUp" <=> pc[u] = "countUp"
                           /\ pc'[u] = "countDown" <=> pc[u] = "countDown"
    <3> USE <2>0 DEF BaseInv, TypeOK, Goto
    <3>1. CASE \/ CallMatcher(t) \/ CallAll(t) \/ SnapCheck(t) \/ SnapStore(t) \/ Trigger(t)
      BY <3>1 DEF CallMatcher, CallAll, SnapCheck, SnapStore, Trigger, AfterInsert
    <3>2. CASE Mark(t) \/ SnapRemove(t) \/ MarkAll(t) \/ Rebuild(t)
      BY <3>2 DEF Mark, SnapRemove, AfterRemove, MarkAll, Rebuild
    <3>3. CASE Replace(t)
      <4>1. op[t] \in {"Clear", "CleanExpired", "Watermark", "Trim"}
        BY <3>3 DEF Replace, RoleInv, Rebuilding, Threads
      <4>2. QED
        BY <3>3, <4>1 DEF Replace
    <3>4. CASE Gather(t)
      BY <3>4, Visits DEF Gather
    <3>5. CASE EventStep(t)
      BY <3>5 DEF EventStep, AskHasAny, Get, Match, Settle, AfterUse, HandlerPanic
    <3>6. QED
      BY <1>8, <3>1, <3>2, <3>3, <3>4, <3>5
  <2>3. UNCHANGED <<Ups, Downs>>
    BY <2>2 DEF Ups, Downs
  <2>4. QED
    BY <2>1, <2>3, <1>1
<1>9. CASE Watermark \/ Quota \/ (\E m \in Matchers : Expire(m)) \/ UNCHANGED vars
  <2>0. Cleaner \in Threads
    BY DEF Threads
  <2>1. UNCHANGED <<byID, count, Ups, Downs>>
    BY <2>0, <1>9 DEF Watermark, Quota, Expire, Finish, Goto, storeVars, vars, Ups, Downs, BaseInv, TypeOK
  <2>2. QED
    BY <2>1, <1>1
<1>10. QED
  BY <1>2, <1>3, <1>4, <1>5, <1>6, <1>7, <1>8, <1>9 DEF Next, AddStep, RemoveStep, BulkStep

LEMMA CountStep == BaseInv /\ CountExact /\ [Next]_vars => CountExact'
<1> SUFFICES ASSUME BaseInv, CountExact, [Next]_vars, ~Used({"Clear"})' PROVE Exact'
  BY DEF CountExact, Exact, Ups, Downs
<1>1. ~Used({"Clear"})
  BY CallStays DEF Used
<1>2. Exact
  BY <1>1 DEF CountExact, Exact, Ups, Downs
<1>3. \A t \in Threads : ~Clear(t) /\ ~Zero(t)
  BY <1>1 DEF Clear, Zero, Used, BaseInv, RoleInv, Threads, Rebuilding, CleanerOnly
<1>4. QED
  BY <1>2, <1>3, ExactStep

\* The counter that events trust is exact but for what threads are about to add
\* to or take from it, whatever overlaps, unless Clear is called.
THEOREM CounterExact == Spec => []CountExact
<1>1. Init => CountExact
  <2> SUFFICES ASSUME Init PROVE Exact
    BY DEF CountExact, Exact, Ups, Downs
  <2>1. Ups = {} /\ Downs = {} /\ count = Cardinality(byID)
    BY DEF Init, Ups, Downs
  <2>2. Cardinality(byID) \in Nat
    BY InitBase, CountsFinite
  <2>3. QED
    BY <2>1, <2>2, FS_EmptySet DEF Exact
<1>2. QED
  BY <1>1, BaseInvariant, CountStep, PTL DEF Spec
-----------------------------------------------------------------------------
(* Ghosts *)

\* What a thread owes it goes on to owe until it removes or begins to rebuild.
LEMMA OwesKept ==
  ASSUME BaseInv, NEW t \in Threads, Step(t), NEW u \in Threads, NEW m, Owes(u, m)
  PROVE Owes(u, m)' \/ (u = t /\ (SnapRemove(t) \/ Rebuild(t)))
<1>0. Cleaner \in Threads
  BY DEF Threads
<1>1. CASE u # t
  BY <1>1, OthersStay DEF Owes, CleanerOnly
<1>2. CASE u = t
  <2> USE <1>0, <1>2 DEF Owes, CleanerOnly, Goto, BaseInv, TypeOK, storeVars, flagVars, loopVars
  <2>1. CASE CallMatcher(t) \/ CallAll(t) \/ AddStep(t) \/ EventStep(t)
    BY <2>1 DEF CallMatcher, CallAll, AddStep, Insert, CountUp, SnapCheck, SnapStore, Trigger,
       EventStep, AskHasAny, Get, Match, Settle, HandlerPanic
  <2>2. CASE Mark(t) \/ Delete(t) \/ CountDown(t)
    BY <2>2 DEF Mark, Delete, CountDown
  <2>3. CASE Clear(t)
    <3>1. m \in found[t] /\ t # Cleaner
      BY <2>3 DEF Clear, RoleInv, Rebuilding
    <3>2. Visit(t, "zero") /\ m \in found'[t] /\ pc[t] = "clear"
      BY <2>3, <3>1 DEF Clear
    <3>3. QED
      BY <3>2, Visits
  <2>4. CASE Zero(t) \/ MarkAll(t)
    BY <2>4 DEF Zero, MarkAll
  <2>5. CASE Clean(t)
    <3>1. PICK gone \in SUBSET byID :
            /\ pc[t] = "clean" /\ op' = op
            /\ found' = [found EXCEPT ![t] = found[t] \cup gone]
            /\ pc' = pc \/ pc' = [pc EXCEPT ![t] = AfterClean(t, found[t] \cup gone)]
      BY <2>5, Cleans
    <3>2. t = Cleaner \/ m \in found'[t]
      BY <3>1
    <3>3. CASE t = Cleaner
      <4>1. AfterClean(t, found[t] \cup gone) \in {"rebuild", "quota"}
        BY <3>1, <3>3 DEF RoleInv, AfterClean
      <4>2. pc'[t] \in {"clean", "rebuild", "quota"}
        BY <3>1, <4>1
      <4>3. QED
        BY <3>3, <4>2
    <3>4. CASE t # Cleaner
      <4>1. m \in found[t]
        BY <3>1, <3>4
      <4>2. AfterClean(t, found[t] \cup gone) = "rebuild"
        BY <4>1 DEF AfterClean
      <4>3. pc'[t] \in {"clean", "rebuild"} /\ m \in found'[t]
        BY <3>1, <4>1, <4>2
      <4>4. QED
        BY <4>3
    <3>5. QED
      BY <3>3, <3>4
  <2>6. CASE Gather(t)
    BY <2>6, Visits DEF Gather
  <2>7. CASE Replace(t)
    BY <2>7 DEF Replace
  <2>8. CASE CleanerStep(t)
    <3>1. CASE Watermark \/ Quota
      BY <2>8, <3>1 DEF CleanerStep, Watermark, Quota, Finish
    <3>2. CASE Trim
      BY <2>8, <3>2, Trims DEF CleanerStep, Finish
    <3>3. QED
      BY <2>8, <3>1, <3>2 DEF CleanerStep
  <2>9. QED
    BY <2>1, <2>2, <2>3, <2>4, <2>5, <2>6, <2>7, <2>8 DEF Step, RemoveStep, BulkStep
<1>3. QED
  BY <1>1, <1>2

\* Whoever takes a matcher out of the store owes its removal from the snapshot.
LEMMA LeaverOwes ==
  ASSUME BaseInv, NEW t \in Threads, Step(t), NEW m \in byID, m \notin byID'
  PROVE Owes(t, m)'
<1>0. Cleaner \in Threads /\ [Next]_vars
  BY DEF Step, CleanerStep, Next, Threads
<1> USE <1>0 DEF Owes, CleanerOnly, Goto, BaseInv, TypeOK, storeVars, flagVars, loopVars
<1>1. CASE Delete(t)
  BY <1>1 DEF Delete
<1>2. CASE Clear(t)
  <2>1. m \in InShard(shard[t]) /\ found'[t] = found[t] \cup (byID \cap InShard(shard[t]))
    BY <1>2 DEF Clear
  <2>2. Visit(t, "zero") /\ pc[t] = "clear"
    BY <1>2, <2>1 DEF Clear
  <2>3. pc'[t] \in {"clear", "zero"}
    BY <2>2, Visits
  <2>4. QED
    BY <2>1, <2>3
<1>3. CASE Clean(t)
  <2>1. PICK gone \in SUBSET byID :
          /\ pc[t] = "clean" /\ byID' = byID \ gone
          /\ found' = [found EXCEPT ![t] = found[t] \cup gone]
          /\ pc' = pc \/ pc' = [pc EXCEPT ![t] = AfterClean(t, found[t] \cup gone)]
    BY <1>3, Cleans
  <2>2. AfterClean(t, found[t] \cup gone) = "rebuild"
    BY <2>1 DEF AfterClean
  <2>3. pc'[t] \in {"clean", "rebuild"} /\ m \in found'[t]
    BY <2>1, <2>2
  <2>4. QED
    BY <2>3
<1>4. CASE t = Cleaner /\ Trim
  BY <1>4, Trims DEF Finish
<1>5. ASSUME \/ CallMatcher(t) \/ CallAll(t) \/ AddStep(t) \/ Mark(t) \/ CountDown(t) \/ SnapRemove(t)
             \/ Zero(t) \/ MarkAll(t) \/ Rebuild(t) \/ Gather(t) \/ Replace(t) \/ EventStep(t)
             \/ Watermark \/ Quota
      PROVE FALSE
  BY <1>5 DEF CallMatcher, CallAll, AddStep, Insert, CountUp, SnapCheck, SnapStore, Trigger, Mark,
     CountDown, SnapRemove, Zero, MarkAll, Rebuild, Gather, Replace, EventStep, AskHasAny, Get,
     Match, Settle, HandlerPanic, Watermark, Quota
<1>6. QED
  BY <1>1, <1>2, <1>3, <1>4, <1>5 DEF Step, RemoveStep, BulkStep, CleanerStep

\* Nobody decides to put a matcher into the snapshot that is not in the store.
LEMMA StoresOld ==
  ASSUME BaseInv, NEW t \in Threads, Step(t), NEW u \in Threads, NEW m, m \notin byID, Stores(u, m)'
  PROVE Stores(u, m)
<1>0. Cleaner \in Threads
  BY DEF Threads
<1>1. CASE u # t
  BY <1>1, OthersStay DEF Stores, Gathers
<1>2. CASE u = t
  <2> USE <1>0, <1>2 DEF Stores, Gathers, Goto, BaseInv, TypeOK, storeVars, flagVars, loopVars
  <2>1. CASE CallMatcher(t) \/ CallAll(t) \/ RemoveStep(t) \/ EventStep(t)
    BY <2>1 DEF CallMatcher, CallAll, RemoveStep, Mark, Delete, CountDown, SnapRemove, AfterRemove,
       EventStep, AskHasAny, Get, Match, Settle, AfterUse, HandlerPanic
  <2>2. CASE AddStep(t)
    BY <2>2 DEF AddStep, Insert, CountUp, SnapCheck, StillPresent, AfterInsert, SnapStore, Trigger
  <2>3. CASE Clear(t)
    <3>1. PICK l \in {"done", "zero"} : Visit(t, l)
      BY <2>3 DEF Clear
    <3>2. QED
      BY <2>3, <3>1, Visits DEF Clear
  <2>4. CASE Zero(t) \/ MarkAll(t) \/ Rebuild(t)
    BY <2>4 DEF Zero, MarkAll, Rebuild
  <2>5. CASE Clean(t)
    BY <2>5, Cleans DEF AfterClean
  <2>6. CASE Gather(t)
    BY <2>6, Visits DEF Gather
  <2>7. CASE Replace(t)
    <3>1. op[t] \in {"Clear", "CleanExpired", "Watermark", "Trim"}
      BY <2>7 DEF Replace, RoleInv, Rebuilding, Threads
    <3>2. QED
      BY <2>7, <3>1 DEF Replace
  <2>8. CASE CleanerStep(t)
    <3>1. CASE Watermark \/ Quota
      BY <2>8, <3>1 DEF CleanerStep, Watermark, Quota, Finish
    <3>2. CASE Trim
      BY <2>8, <3>2, Trims DEF CleanerStep, Finish
    <3>3. QED
      BY <2>8, <3>1, <3>2 DEF CleanerStep
  <2>9. QED
    BY <2>1, <2>2, <2>3, <2>4, <2>5, <2>6, <2>7, <2>8 DEF Step, BulkStep
<1>3. QED
  BY <1>1, <1>2

\* A rebuild that has not seen m drops it when it ends, and not before.
LEMMA GathersOn ==
  ASSUME BaseInv, NEW t \in Threads, Step(t), NEW u \in Threads, NEW m, m \notin byID,
         Gathers(u), m \notin acc[u]
  PROVE (Gathers(u)' /\ m \notin acc'[u]) \/ (u = t /\ Replace(t))
<1>1. CASE u # t
  BY <1>1, OthersStay DEF Gathers
<1>2. CASE u = t
  <2>1. Gather(t) \/ Replace(t)
    <3> USE <1>2 DEF Gathers
    <3>1. ~(CallMatcher(t) \/ CallAll(t) \/ AddStep(t) \/ RemoveStep(t) \/ EventStep(t) \/ CleanerStep(t))
      BY DEF CallMatcher, CallAll, AddStep, Insert, CountUp, SnapCheck, SnapStore, Trigger,
         RemoveStep, Mark, Delete, CountDown, SnapRemove, EventStep, AskHasAny, Get, Match, Settle,
         HandlerPanic, CleanerStep, Watermark, Quota, Trim
    <3>2. ~(Clear(t) \/ Zero(t) \/ MarkAll(t) \/ Clean(t) \/ Rebuild(t))
      BY DEF Clear, Zero, MarkAll, Clean, Rebuild
    <3>3. QED
      BY <3>1, <3>2 DEF Step, BulkStep
  <2>2. CASE Gather(t)
    BY <1>2, <2>2, Visits DEF Gather, Gathers, Goto, BaseInv, TypeOK
  <2>3. QED
    BY <1>2, <2>1, <2>2
<1>3. QED
  BY <1>1, <1>2

LEMMA GhostStep == BaseInv /\ GhostInv /\ [Next]_vars => GhostInv'
<1> SUFFICES ASSUME BaseInv, GhostInv, [Next]_vars PROVE GhostInv'
  OBVIOUS
<1>1. CASE (\E m \in Matchers : Expire(m)) \/ UNCHANGED vars
  BY <1>1 DEF Expire, storeVars, loopVars, vars, GhostInv, Drops, Owes, Gathers, Stores
<1>2. ASSUME NEW t \in Threads, Step(t) PROVE GhostInv'
  <2> SUFFICES ASSUME NEW m \in Matchers, m \notin byID'
               PROVE /\ snapshot'[m] > 0 => \E u \in Threads : Drops(u, m)'
                     /\ \A v \in Threads : Stores(v, m)' => \E u \in Threads : Owes(u, m)'
    BY DEF GhostInv
  <2>0. snapshot \in [Matchers -> Nat] /\ snapshot[m] <= 1
    BY <1>2 DEF BaseInv, TypeOK, RoutedOnce
  <2>1. CASE m \in byID
    BY <1>2, <2>1, LeaverOwes DEF Drops
  <2>2. CASE m \notin byID
    <3>1. ASSUME NEW v \in Threads, Stores(v, m) PROVE \E u \in Threads : Owes(u, m)'
      <4>1. PICK u \in Threads : Owes(u, m)
        BY <2>2, <3>1 DEF GhostInv
      <4>2. snapMu # Nil
        BY <3>1, StoreAssumption DEF Stores, Gathers, BaseInv, MutexInv, Threads
      <4>3. ~SnapRemove(t) /\ ~Rebuild(t)
        BY <4>2 DEF SnapRemove, Rebuild
      <4>4. QED
        BY <1>2, <4>1, <4>3, OwesKept
    <3>2. ASSUME NEW v \in Threads, Stores(v, m)' PROVE \E u \in Threads : Owes(u, m)'
      BY <1>2, <2>2, <3>1, <3>2, StoresOld
    <3>3. ASSUME snapshot'[m] > 0 PROVE \E u \in Threads : Drops(u, m)'
      <4>1. CASE \E v \in Threads : Stores(v, m)
        BY <3>1, <4>1 DEF Drops
      <4>2. CASE \A v \in Threads : ~Stores(v, m)
        <5>1. ~(SnapRemove(t) /\ arg[t] = m)
          BY <2>0, <3>3 DEF SnapRemove, Dropped
        <5>2. ~Replace(t)
          BY <3>3, <4>2 DEF Replace, Stores, Gathers
        <5>3. snapshot[m] > 0
          <6>1. CASE snapshot' = snapshot
            BY <3>3, <6>1
          <6>2. ASSUME NEW u \in Threads, SnapStore(u) \/ SnapRemove(u) PROVE snapshot[m] > 0
            <7>1. arg[u] # m
              <8>1. CASE SnapStore(u)
                BY <4>2, <8>1 DEF SnapStore, Stores
              <8>2. CASE SnapRemove(u)
                BY <2>0, <3>3, <8>2 DEF SnapRemove, Dropped
              <8>3. QED
                BY <6>2, <8>1, <8>2
            <7>2. snapshot'[m] = snapshot[m]
              BY <2>0, <6>2, <7>1 DEF SnapStore, SnapRemove
            <7>3. QED
              BY <3>3, <7>2
          <6>3. ASSUME NEW u \in Threads, Replace(u) PROVE FALSE
            BY <3>3, <4>2, <6>3 DEF Replace, Stores, Gathers
          <6>4. QED
            BY <6>1, <6>2, <6>3, SnapshotChanges
        <5>4. PICK u \in Threads : Drops(u, m)
          BY <2>2, <5>3 DEF GhostInv
        <5>5. CASE Owes(u, m)
          <6>1. CASE u = t /\ SnapRemove(t)
            BY <5>1, <5>5, <6>1 DEF Owes, SnapRemove, CleanerOnly
          <6>2. CASE u = t /\ Rebuild(t)
            BY <6>2 DEF Rebuild, Drops, Gathers, Goto, BaseInv, TypeOK
          <6>3. QED
            BY <1>2, <5>5, <6>1, <6>2, OwesKept DEF Drops
        <5>6. CASE Gathers(u) /\ m \notin acc[u]
          BY <1>2, <2>2, <5>2, <5>6, GathersOn DEF Drops
        <5>7. QED
          BY <5>4, <5>5, <5>6 DEF Drops
      <4>3. QED
        BY <4>1, <4>2
    <3>4. QED
      BY <3>2, <3>3
  <2>3. QED
    BY <2>1, <2>2
<1>3. QED
  BY <1>1, <1>2, Steps

LEMMA InitGhost == Init => GhostInv
  BY StoreAssumption DEF Init, GhostInv, Stores, Gathers

\* A matcher of the snapshot that has left the store is still to be taken out by
\* somebody.
THEOREM GhostInvariant == Spec => []GhostInv
  BY InitGhost, GhostStep, BaseInvariant, PTL DEF Spec

\* Whatever overlapped, when all calls have ended the snapshot that events are
\* routed from holds no matcher that has left the store.
THEOREM NoGhostRemains == Spec => []NoGhost
<1>1. GhostInv => NoGhost
  BY DEF GhostInv, NoGhost, AtRest, Drops, Owes, Gathers, CleanerOnly
<1>2. QED
  BY <1>1, GhostInvariant, PTL

\* The snapshot never holds a matcher twice, so no event runs it twice.
THEOREM RoutedAtMostOnce == Spec => []RoutedOnce
<1>1. BaseInv => RoutedOnce
  BY DEF BaseInv
<1>2. QED
  BY <1>1, BaseInvariant, PTL

\* Every variable of the store keeps its type.
THEOREM TypeCorrect == Spec => []TypeOK
<1>1. BaseInv => TypeOK
  BY DEF BaseInv
<1>2. QED
  BY <1>1, BaseInvariant, PTL
-----------------------------------------------------------------------------
(* Forgotten matchers *)

\* Only Insert puts a matcher into the store.
LEMMA InsertedBy ==
  ASSUME BaseInv, NEW t \in Threads, Step(t), NEW m \in byID', m \notin byID
  PROVE /\ Insert(t) /\ t \in Calls /\ arg[t] = m /\ arg'[t] = m
        /\ pc'[t] = "countUp" /\ op[t] \in {"Add", "Reprioritise"} /\ op'[t] = op[t]
<1>1. [Next]_vars
  BY DEF Step, CleanerStep, Next
<1>2. ASSUME NEW u \in Threads, Insert(u) PROVE Insert(t)
  <2>1. CASE t = u
    BY <1>2, <2>1
  <2>2. CASE t # u
    BY <1>2, <2>2, OthersStay DEF Insert, Goto, BaseInv, TypeOK
  <2>3. QED
    BY <2>1, <2>2
<1>3. Insert(t)
  <2>1. ~Trim
    BY Trims
  <2>2. ASSUME NEW u \in Threads, Delete(u) \/ Clear(u) \/ Clean(u) PROVE FALSE
    BY <2>2, Cleans DEF Delete, Clear
  <2>3. QED
    BY <1>1, <1>2, <2>1, <2>2, StoreChanges
<1>4. pc[t] = "insert" /\ arg[t] = m /\ arg'[t] = m /\ op'[t] = op[t]
  BY <1>3 DEF Insert
<1>5. pc'[t] = "countUp"
  BY <1>3 DEF Insert, Known, Goto, BaseInv, TypeOK
<1>6. t \in Calls /\ op[t] \in {"Add", "Reprioritise"}
  BY <1>4, ArgKnown DEF OfMatcher, ReAdding, BaseInv, RoleInv
<1>7. QED
  BY <1>3, <1>4, <1>5, <1>6

LEMMA MovingStays ==
  ASSUME BaseInv, [Next]_vars, NEW m
  PROVE Moving(m) \subseteq Moving(m)' /\ (Contended(m) => Contended(m)') /\ (Readds(m) => Readds(m)')
<1>1. \A t \in Calls : pc[t] # "idle" => pc'[t] # "idle" /\ op'[t] = op[t] /\ arg'[t] = arg[t]
  BY CallStays
<1>2. Moving(m) \subseteq Moving(m)'
  BY <1>1 DEF Moving
<1>3. QED
  BY <1>1, <1>2 DEF Contended, Readds

LEMMA InsertsKept ==
  ASSUME BaseInv, NEW t \in Threads, Step(t), NEW u \in Threads, NEW m \in byID, Inserts(u, m)
  PROVE Inserts(u, m)' \/ (u = t /\ SnapCheck(t) /\ pc'[t] = "snapStore" /\ arg'[t] = m)
<1>1. CASE u # t
  BY <1>1, OthersStay DEF Inserts
<1>2. CASE u = t
  <2> USE DEF Inserts
  <2>1. ~(CallMatcher(t) \/ CallAll(t) \/ RemoveStep(t) \/ EventStep(t) \/ CleanerStep(t) \/ BulkStep(t))
    BY <1>2 DEF CallMatcher, CallAll, RemoveStep, Mark, Delete, CountDown, SnapRemove, EventStep,
       AskHasAny, Get, Match, Settle, HandlerPanic, CleanerStep, Watermark, Quota, Trim,
       BulkStep, Clear, Zero, MarkAll, Clean, Rebuild, Gather, Replace
  <2>2. CountUp(t) \/ SnapCheck(t)
    BY <1>2, <2>1 DEF Step, AddStep, Insert, SnapStore, Trigger
  <2>3. QED
    BY <1>2, <2>2 DEF CountUp, SnapCheck, StillPresent, Goto, BaseInv, TypeOK
<1>3. QED
  BY <1>1, <1>2

\* A rebuild does not pass over a matcher of the store.
LEMMA GatheredOld ==
  ASSUME BaseInv, NEW t \in Threads, Step(t), NEW u \in Threads, NEW m \in byID,
         Gathered(u, m)', m \notin acc'[u]
  PROVE Gathered(u, m) /\ m \notin acc[u]
<1>0. Cleaner \in Threads
  BY DEF Threads
<1>1. CASE u # t
  BY <1>1, OthersStay DEF Gathered
<1>2. CASE u = t
  <2> USE <1>0, <1>2 DEF Gathered, Goto, BaseInv, TypeOK, storeVars, flagVars, loopVars
  <2>1. CASE CallMatcher(t) \/ CallAll(t) \/ RemoveStep(t) \/ EventStep(t)
    BY <2>1 DEF CallMatcher, CallAll, RemoveStep, Mark, Delete, CountDown, SnapRemove, AfterRemove,
       EventStep, AskHasAny, Get, Match, Settle, AfterUse, HandlerPanic
  <2>2. CASE AddStep(t)
    BY <2>2 DEF AddStep, Insert, CountUp, SnapCheck, AfterInsert, SnapStore, Trigger
  <2>3. CASE Clear(t)
    <3>1. PICK l \in {"done", "zero"} : Visit(t, l)
      BY <2>3 DEF Clear
    <3>2. QED
      BY <2>3, <3>1, Visits DEF Clear
  <2>4. CASE Zero(t) \/ MarkAll(t)
    BY <2>4 DEF Zero, MarkAll
  <2>5. CASE Rebuild(t)
    BY <2>5, StoreAssumption DEF Rebuild
  <2>6. CASE Clean(t)
    <3>1. PICK gone \in SUBSET byID :
             /\ pc[t] = "clean"
             /\ pc' = pc \/ pc' = [pc EXCEPT ![t] = AfterClean(t, found[t] \cup gone)]
      BY <2>6, Cleans
    <3>2. pc'[t] \in {"clean", "rebuild", "quota", "done"}
      BY <3>1 DEF AfterClean
    <3> QED BY <3>2
  <2>7. CASE Gather(t)
    <3>1. pc[t] = "gather" /\ acc'[t] = acc[t] \cup (byID \cap InShard(shard[t])) /\ Visit(t, "publish")
      BY <2>7 DEF Gather
    <3>2. m \notin acc[t] /\ ShardOf[m] # shard[t] /\ ShardOf[m] \in 1..ShardCount
      BY <3>1, StoreAssumption DEF InShard
    <3>3. shard[t] \in 1..ShardCount /\ ShardCount \in Nat
      BY StoreAssumption
    <3>4. CASE shard[t] = ShardCount
      BY <3>1, <3>2, <3>3, <3>4
    <3>5. CASE shard[t] < ShardCount /\ shard' = [shard EXCEPT ![t] = shard[t] + 1] /\ pc' = pc
      <4>1. ShardOf[m] < shard[t] + 1
        BY <3>1, <3>5
      <4>2. QED
        BY <3>1, <3>2, <3>3, <4>1
    <3>6. QED
      BY <3>1, <3>4, <3>5, Visits
  <2>8. CASE Replace(t)
    <3>1. op[t] \in {"Clear", "CleanExpired", "Watermark", "Trim"}
      BY <2>8 DEF Replace, RoleInv, Rebuilding, Threads
    <3>2. QED
      BY <2>8, <3>1 DEF Replace
  <2>9. CASE CleanerStep(t)
    <3>1. CASE Watermark \/ Quota
      BY <2>9, <3>1 DEF CleanerStep, Watermark, Quota, Finish
    <3>2. CASE Trim
      BY <2>9, <3>2, Trims DEF CleanerStep, Finish
    <3>3. QED
      BY <2>9, <3>1, <3>2 DEF CleanerStep
  <2>10. QED
    BY <2>1, <2>2, <2>3, <2>4, <2>5, <2>6, <2>7, <2>8, <2>9 DEF Step, BulkStep
<1>3. QED
  BY <1>1, <1>2

LEMMA RemovesOld ==
  ASSUME BaseInv, NEW t \in Threads, Step(t), NEW u \in Threads, NEW m \in byID, m \in byID',
         Removes(u, m)'
  PROVE Removes(u, m)
<1>0. Cleaner \in Threads
  BY DEF Threads
<1>1. CASE u # t
  BY <1>1, OthersStay DEF Removes
<1>2. CASE u = t
  <2> USE <1>0, <1>2 DEF Removes, Goto, BaseInv, TypeOK, storeVars, flagVars, loopVars
  <2>1. CASE CallMatcher(t) \/ CallAll(t) \/ EventStep(t)
    BY <2>1 DEF CallMatcher, CallAll, EventStep, AskHasAny, Get, Match, Settle, AfterUse, HandlerPanic
  <2>2. CASE AddStep(t)
    BY <2>2 DEF AddStep, Insert, CountUp, SnapCheck, AfterInsert, SnapStore, Trigger
  <2>3. CASE RemoveStep(t)
    BY <2>3 DEF RemoveStep, Mark, Delete, CountDown, SnapRemove, AfterRemove
  <2>4. CASE Clear(t)
    <3>1. PICK l \in {"done", "zero"} : Visit(t, l)
      BY <2>4 DEF Clear
    <3>2. QED
      BY <2>4, <3>1, Visits DEF Clear
  <2>5. CASE Zero(t) \/ MarkAll(t) \/ Rebuild(t)
    BY <2>5 DEF Zero, MarkAll, Rebuild
  <2>6. CASE Clean(t)
    <3>1. PICK l \in {"clean", "rebuild", "quota", "done"} : pc'[t] = l
      BY <2>6, Cleans DEF AfterClean
    <3>2. QED
      BY <3>1
  <2>7. CASE Gather(t)
    BY <2>7, Visits DEF Gather
  <2>8. CASE Replace(t)
    <3>1. op[t] \in {"Clear", "CleanExpired", "Watermark", "Trim"}
      BY <2>8 DEF Replace, RoleInv, Rebuilding, Threads
    <3>2. QED
      BY <2>8, <3>1 DEF Replace
  <2>9. CASE CleanerStep(t)
    <3>1. CASE Watermark \/ Quota
      BY <2>9, <3>1 DEF CleanerStep, Watermark, Quota, Finish
    <3>2. CASE Trim
      BY <2>9, <3>2, Trims DEF CleanerStep, Finish
    <3>3. QED
      BY <2>9, <3>1, <3>2 DEF CleanerStep
  <2>10. QED
    BY <2>1, <2>2, <2>3, <2>4, <2>5, <2>6, <2>7, <2>8, <2>9 DEF Step, BulkStep
<1>3. QED
  BY <1>1, <1>2

LEMMA KeptStep == BaseInv /\ KeptInv /\ [Next]_vars => KeptInv'
<1> SUFFICES ASSUME BaseInv, KeptInv, [Next]_vars PROVE KeptInv'
  OBVIOUS
<1>1. CASE (\E m \in Matchers : Expire(m)) \/ UNCHANGED vars
  BY <1>1 DEF Expire, storeVars, loopVars, vars, KeptInv, Contended, Moving, Inserts, Gathered, Removes
<1>2. ASSUME NEW t \in Threads, Step(t) PROVE KeptInv'
  <2> SUFFICES ASSUME NEW m \in byID', ~Contended(m)'
               PROVE /\ snapshot'[m] = 0 =>
                          \E u \in Threads : Inserts(u, m)' \/ (pc'[u] = "snapStore" /\ arg'[u] = m)
                     /\ \A v \in Threads : Gathered(v, m)' /\ m \notin acc'[v] =>
                                             \E u \in Threads : Inserts(u, m)'
                     /\ \A v \in Threads : ~Removes(v, m)'
    BY DEF KeptInv
  <2>0. BaseInv'
    BY NextBase
  <2>1. CASE m \notin byID
    <3>1. t \in Calls /\ arg'[t] = m /\ pc'[t] = "countUp"
      BY <1>2, <2>1, InsertedBy
    <3>2. Inserts(t, m)'
      BY <3>1 DEF Inserts
    <3>3. ASSUME NEW v \in Threads, Removes(v, m)' PROVE FALSE
      <4>1. v # t /\ pc'[v] \in OfMatcher /\ pc'[v] # "idle" /\ arg'[v] = m
        BY <3>1, <3>3 DEF Removes, OfMatcher
      <4>2. v \in Calls
        BY <2>0, <4>1 DEF BaseInv, RoleInv, OfMatcher, ReAdding, Rebuilding, CleanerOnly, Threads
      <4>3. QED
        BY <3>1, <4>1, <4>2 DEF Contended, Moving
    <3>4. QED
      BY <3>2, <3>3
  <2>2. CASE m \in byID
    <3>1. ~Contended(m)
      BY MovingStays
    <3>2. \A v \in Threads : ~Removes(v, m)
      BY <2>2, <3>1 DEF KeptInv
    <3>3. \A v \in Threads : ~Removes(v, m)'
      BY <1>2, <2>2, <3>2, RemovesOld
    <3>4. ASSUME NEW v \in Threads, Gathered(v, m)', m \notin acc'[v]
          PROVE \E u \in Threads : Inserts(u, m)'
      <4>1. Gathered(v, m) /\ m \notin acc[v]
        BY <1>2, <2>2, <3>4, GatheredOld
      <4>2. PICK u \in Threads : Inserts(u, m)
        BY <2>2, <3>1, <4>1 DEF KeptInv
      <4>3. ~SnapCheck(t)
        BY <4>1, StoreAssumption DEF SnapCheck, Gathered, BaseInv, MutexInv, Threads
      <4>4. QED
        BY <1>2, <2>2, <4>2, <4>3, InsertsKept
    <3>5. ASSUME snapshot'[m] = 0
          PROVE \E u \in Threads : Inserts(u, m)' \/ (pc'[u] = "snapStore" /\ arg'[u] = m)
      <4>0. m \in Matchers /\ snapshot \in [Matchers -> Nat]
        BY <2>2 DEF BaseInv, TypeOK
      <4>1. CASE \E u \in Threads : Inserts(u, m)
        BY <1>2, <2>2, <4>1, InsertsKept
      <4>2. CASE \A u \in Threads : ~Inserts(u, m)
        <5>1. \A u \in Threads : ~(SnapStore(u) /\ arg[u] = m)
          BY <3>5, <4>0 DEF SnapStore, Inserted
        <5>2. \A u \in Threads : ~(SnapRemove(u) /\ arg[u] = m)
          BY <3>2 DEF SnapRemove, Removes
        <5>3. ASSUME NEW u \in Threads, Replace(u) PROVE FALSE
          <6>1. m \notin acc[u] /\ Gathered(u, m)
            BY <3>5, <4>0, <5>3 DEF Replace, Gathered
          <6>2. QED
            BY <2>2, <3>1, <4>2, <6>1 DEF KeptInv
        <5>4. snapshot[m] = 0
          <6>1. CASE snapshot' = snapshot
            BY <3>5, <6>1
          <6>2. ASSUME NEW u \in Threads, SnapStore(u) \/ SnapRemove(u) PROVE snapshot[m] = 0
            <7>1. arg[u] # m
              BY <5>1, <5>2, <6>2
            <7>2. QED
              BY <3>5, <4>0, <6>2, <7>1 DEF SnapStore, SnapRemove
          <6>3. QED
            BY <5>3, <6>1, <6>2, SnapshotChanges
        <5>5. PICK u \in Threads : pc[u] = "snapStore" /\ arg[u] = m
          BY <2>2, <3>1, <4>2, <5>4 DEF KeptInv
        <5>6. pc'[u] = "snapStore" /\ arg'[u] = m
          <6>1. u # t
            <7>1. SUFFICES ASSUME u = t PROVE FALSE
              OBVIOUS
            <7>2. ~SnapStore(t)
              BY <5>1, <5>5, <7>1
            <7>3. ~(CallMatcher(t) \/ CallAll(t) \/ RemoveStep(t) \/ EventStep(t) \/ CleanerStep(t)
                     \/ BulkStep(t))
              BY <5>5, <7>1 DEF CallMatcher, CallAll, RemoveStep, Mark, Delete, CountDown, SnapRemove,
                 EventStep, AskHasAny, Get, Match, Settle, HandlerPanic, CleanerStep, Watermark,
                 Quota, Trim, BulkStep, Clear, Zero, MarkAll, Clean, Rebuild, Gather, Replace
            <7>4. QED
              BY <1>2, <5>5, <7>1, <7>2, <7>3 DEF Step, AddStep, Insert, CountUp, SnapCheck, Trigger
          <6>2. QED
            BY <1>2, <5>5, <6>1, OthersStay
        <5>7. QED
          BY <5>6
      <4>3. QED
        BY <4>1, <4>2
    <3>6. QED
      BY <3>3, <3>4, <3>5
  <2>3. QED
    BY <2>1, <2>2
<1>3. QED
  BY <1>1, <1>2, Steps

LEMMA InitKept == Init => KeptInv
  BY StoreAssumption DEF Init, KeptInv, Gathered, Removes

\* A matcher of the store that is missing in the snapshot is still to be put in by
\* somebody, or was moved by two calls at the same time.
THEOREM KeptInvariant == Spec => []KeptInv
  BY InitKept, KeptStep, BaseInvariant, PTL DEF Spec

\* Two calls about a matcher are counted as two.
LEMMA ContendedCounts ==
  ASSUME NEW m, Contended(m) PROVE Cardinality(Moving(m)) > 1
<1>1. PICK t, u \in Moving(m) : t # u
  BY DEF Contended
<1>2. IsFiniteSet(Moving(m))
  BY StoreAssumption, FS_Subset DEF Moving
<1>3. Cardinality({t, u}) = 2
  <2>1. Cardinality({t}) = 1 /\ IsFiniteSet({t})
    BY FS_Singleton
  <2>2. {t, u} = {t} \cup {u} /\ u \notin {t}
    BY <1>1
  <2>3. QED
    BY <2>1, <2>2, FS_AddElement
<1>4. {t, u} \subseteq Moving(m)
  BY <1>1
<1>5. Cardinality({t, u}) <= Cardinality(Moving(m)) /\ Cardinality(Moving(m)) \in Nat
  BY <1>2, <1>4, FS_Subset, FS_CardinalityType
<1>6. QED
  BY <1>3, <1>5

\* When all calls have ended, every matcher of the store is routed to, unless
\* two calls moved it at the same time: what happens to the others, cleaning
\* and rebuilding never drop it.
THEOREM NobodyForgotten == Spec => []NoneForgotten
<1>1. BaseInv /\ KeptInv => NoneForgotten
  <2> SUFFICES ASSUME BaseInv, KeptInv, AtRest, NEW m \in byID, ~Contended(m) PROVE snapshot[m] > 0
    BY ContendedCounts DEF NoneForgotten
  <2>1. snapshot[m] # 0
    BY DEF KeptInv, AtRest, Inserts
  <2>2. QED
    BY <2>1 DEF BaseInv, TypeOK
<1>2. QED
  BY <1>1, BaseInvariant, KeptInvariant, PTL
-----------------------------------------------------------------------------
(* Zombies *)

LEMMA ZombieStep == BaseInv /\ ZombieInv /\ [Next]_vars => ZombieInv'
<1> SUFFICES ASSUME BaseInv, ZombieInv, [Next]_vars PROVE ZombieInv'
  OBVIOUS
<1>1. CASE (\E m \in Matchers : Expire(m)) \/ UNCHANGED vars
  BY <1>1 DEF Expire, storeVars, loopVars, vars, ZombieInv, Readds
<1>2. ASSUME NEW t \in Threads, Step(t) PROVE ZombieInv'
  <2> SUFFICES ASSUME NEW m \in byID', ~Readds(m)'
               PROVE /\ m \in deleted' => \E u \in Calls : pc'[u] = "delete" /\ arg'[u] = m
                     /\ \A u \in Calls : m \notin found'[u]
    BY DEF ZombieInv
  <2>1. m \in byID
    <3>1. SUFFICES ASSUME m \notin byID PROVE Readds(m)'
      OBVIOUS
    <3>2. t \in Calls /\ arg'[t] = m /\ pc'[t] = "countUp" /\ op'[t] \in {"Add", "Reprioritise"}
      BY <1>2, <3>1, InsertedBy
    <3>3. QED
      BY <3>2 DEF Readds
  <2>2. ~Readds(m)
    BY MovingStays
  <2>3. \A u \in Calls : m \notin found[u]
    BY <2>1, <2>2 DEF ZombieInv
  <2>4. ASSUME NEW u \in Calls PROVE m \notin found'[u]
    <3>0. u \in Threads /\ u # Cleaner
      BY StoreAssumption DEF Threads
    <3>1. CASE u # t
      BY <1>2, <2>3, <3>0, <3>1, OthersStay
    <3>2. CASE u = t
      <4>1. CASE Clear(t)
        BY <2>1, <2>3, <3>2, <4>1 DEF Clear, BaseInv, TypeOK
      <4>2. CASE Clean(t)
        <5>1. PICK gone \in SUBSET byID :
                byID' = byID \ gone /\ found' = [found EXCEPT ![t] = found[t] \cup gone]
          BY <4>2, Cleans
        <5>2. QED
          BY <2>3, <3>2, <5>1 DEF BaseInv, TypeOK
      <4>3. CASE ~Clear(t) /\ ~Clean(t)
        <5>1. found' = found
          BY <1>2, <3>0, <3>2, <4>3 DEF Step, CallMatcher, CallAll, AddStep, Insert, CountUp,
             SnapCheck, SnapStore, Trigger, RemoveStep, Mark, Delete, CountDown, SnapRemove, BulkStep,
             Zero, MarkAll, Rebuild, Gather, Replace, EventStep, AskHasAny, Get, Match, Settle,
             HandlerPanic, CleanerStep, loopVars
        <5>2. QED
          BY <2>3, <5>1
      <4>4. QED
        BY <4>1, <4>2, <4>3
    <3>3. QED
      BY <3>1, <3>2
  <2>5. ASSUME m \in deleted' PROVE \E u \in Calls : pc'[u] = "delete" /\ arg'[u] = m
    <3>1. CASE m \in deleted
      <4>1. PICK u \in Calls : pc[u] = "delete" /\ arg[u] = m
        BY <2>1, <2>2, <3>1 DEF ZombieInv
      <4>2. u \in Threads /\ u # Cleaner
        BY StoreAssumption DEF Threads
      <4>3. u # t
        <5>1. SUFFICES ASSUME u = t PROVE FALSE
          OBVIOUS
        <5>2. ~Delete(t)
          BY <2>1, <4>1, <5>1 DEF Delete
        <5>3. ~(CallMatcher(t) \/ CallAll(t) \/ AddStep(t) \/ EventStep(t) \/ CleanerStep(t)
                 \/ BulkStep(t) \/ Mark(t) \/ CountDown(t) \/ SnapRemove(t))
          BY <4>1, <5>1 DEF CallMatcher, CallAll, AddStep, Insert, CountUp, SnapCheck, SnapStore,
             Trigger, Mark, CountDown, SnapRemove, EventStep, AskHasAny, Get, Match, Settle,
             HandlerPanic, CleanerStep, Watermark, Quota, Trim, BulkStep, Clear, Zero, MarkAll,
             Clean, Rebuild, Gather, Replace
        <5>4. QED
          BY <1>2, <5>2, <5>3 DEF Step, RemoveStep
      <4>4. QED
        BY <1>2, <4>1, <4>2, <4>3, OthersStay
    <3>2. CASE m \notin deleted
      <4>1. deleted' # deleted
        BY <2>5, <3>2
      <4>2. ASSUME NEW u \in Threads, Mark(u) \/ Settle(u) PROVE pc'[u] = "delete" /\ arg'[u] = m /\ u \in Calls
        <5>1. u \in Calls
          BY <4>2, ArgKnown DEF Mark, Settle, OfMatcher
        <5>2. arg[u] = m /\ arg' = arg
          BY <2>5, <3>2, <4>2 DEF Mark, Settle
        <5>3. CASE Mark(u)
          BY <5>1, <5>2, <5>3 DEF Mark, Goto, BaseInv, TypeOK
        <5>4. CASE Settle(u)
          BY <2>5, <3>2, <5>1, <5>2, <5>4 DEF Settle, AfterUse, Goto, BaseInv, TypeOK
        <5>5. QED
          BY <4>2, <5>1, <5>2, <5>3, <5>4
      <4>3. ASSUME NEW u \in Threads, MarkAll(u) PROVE FALSE
        <5>1. u \in Calls
          BY <4>3 DEF MarkAll, BaseInv, RoleInv, Rebuilding, CleanerOnly, Threads
        <5>2. QED
          BY <2>3, <2>5, <3>2, <4>3, <5>1 DEF MarkAll
      <4>4. ASSUME NEW u \in Threads, Clean(u) PROVE FALSE
        BY <2>5, <3>2, <4>4, Cleans
      <4>5. ~Trim
        BY <2>5, <3>2, Trims
      <4>6. QED
        BY <4>1, <4>2, <4>3, <4>4, <4>5, DeletedChanges
    <3>3. QED
      BY <3>1, <3>2
  <2>6. QED
    BY <2>4, <2>5
<1>3. QED
  BY <1>1, <1>2, Steps

LEMMA InitZombie == Init => ZombieInv
  BY DEF Init, ZombieInv, Threads

\* A matcher of the store that is marked as deleted is still to be removed by
\* somebody, or was put back.
THEOREM ZombieInvariant == Spec => []ZombieInv
  BY InitZombie, ZombieStep, BaseInvariant, PTL DEF Spec

\* A matcher that was deleted, used up or cleaned away has left the store when
\* all calls have ended, unless a call put it back.
THEOREM NoZombieRemains == Spec => []NoZombie
<1>1. ZombieInv => NoZombie
  BY DEF ZombieInv, NoZombie, AtRest, Readds, Threads
<1>2. QED
  BY <1>1, ZombieInvariant, PTL
=============================================================================

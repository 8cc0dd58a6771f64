------------------------------- MODULE EventBus -------------------------------
(***************************************************************************)
(* plugin/infra_eventbus.go: the bus on which plugins publish events.  A   *)
(* publication reads the list of subscriptions, takes a slot of the worker *)
(* pool for each and starts the handler in a goroutine, unless the         *)
(* subscription has been closed since.  Unsubscribing takes a subscription *)
(* off the list under the lock of the bus and closes it afterwards; Wait   *)
(* returns when the handlers begun before have ended.                      *)
(*                                                                         *)
(* The model has one topic: the subscriptions to it and the wildcard ones  *)
(* form one set, and a publication starts their handlers in any order.  A  *)
(* publication may be made by a handler, which then waits for it to return.*)
(***************************************************************************)
EXTENDS Integers, FiniteSets

CONSTANTS Subs,         \* subscriptions, by their ids, which are never used twice
          Pubs,         \* calls of Publish, PublishContext or PublishWithTimeout
          Nested,       \* those made from inside a handler
          Cancellable,  \* those whose context may end
          PoolSize      \* WorkerPoolSize

ASSUME BusAssumption ==
  /\ Nested \subseteq Pubs /\ Cancellable \subseteq Pubs
  /\ IsFiniteSet(Subs) /\ IsFiniteSet(Pubs)
  /\ PoolSize \in Nat \ {0}

VARIABLES stage,     \* of a subscription: "new", "on" the list, "off" it, "closed"
          begun,     \* wg of subscriptionState: handlers begun and not done
          slots,     \* slots of workerPool in use
          ppc, todo, \* of a publication: where it is, the subscriptions still to serve
          inside,    \* of a nested publication: the handler call that makes it
          serving,   \* handler calls in the handler's code
          freed      \* handler calls that have given their slot back and are not done

subVars == <<stage, begun>>
pubVars == <<ppc, todo, inside>>
callVars == <<serving, freed>>
busVars == <<stage, begun, slots, ppc, todo, inside, serving, freed>>

HandlerCalls == Pubs \X Subs
Unnested == <<>>

\* The calls of one subscription.
Of(u, calls) == {c \in calls : c[2] = u}

\* The publications that hold a slot for the handler they are about to start.
Holding == {p \in Pubs : ppc[p] = "slot"}

InPublish(p) == ppc[p] \in {"next", "blocked", "slot"}

BusInit ==
  /\ stage = [u \in Subs |-> "new"]
  /\ begun = [u \in Subs |-> 0]
  /\ slots = 0
  /\ ppc = [p \in Pubs |-> "idle"] /\ todo = [p \in Pubs |-> {}]
  /\ inside = [p \in Pubs |-> Unnested]
  /\ serving = {} /\ freed = {}

-----------------------------------------------------------------------------
\* Subscribe, under the lock of the bus.
BusSubscribe(u) ==
  /\ stage[u] = "new"
  /\ stage' = [stage EXCEPT ![u] = "on"]
  /\ UNCHANGED <<begun, slots, pubVars, callVars>>

\* unsubscribeByID takes the subscription off the list ...
Unlist(u) ==
  /\ stage[u] = "on"
  /\ stage' = [stage EXCEPT ![u] = "off"]
  /\ UNCHANGED <<begun, slots, pubVars, callVars>>

\* ... and closes its state, without the lock of the bus.
CloseState(u) ==
  /\ stage[u] = "off"
  /\ stage' = [stage EXCEPT ![u] = "closed"]
  /\ UNCHANGED <<begun, slots, pubVars, callVars>>

-----------------------------------------------------------------------------
\* PublishContext reads the list; without subscribers it returns.
Publish(p) ==
  /\ ppc[p] = "idle"
  /\ IF p \in Nested THEN \E c \in serving : inside' = [inside EXCEPT ![p] = c]
                     ELSE UNCHANGED inside
  /\ todo' = [todo EXCEPT ![p] = {u \in Subs : stage[u] = "on"}]
  /\ ppc' = [ppc EXCEPT ![p] = IF todo'[p] = {} THEN "done" ELSE "next"]
  /\ UNCHANGED <<subVars, slots, callVars>>

\* acquireWorkerSlot: the fast path, then a wait for a slot or the end of the context.
Acquire(p) ==
  /\ ppc[p] \in {"next", "blocked"}
  /\ slots < PoolSize
  /\ slots' = slots + 1
  /\ ppc' = [ppc EXCEPT ![p] = "slot"]
  /\ UNCHANGED <<subVars, todo, inside, callVars>>

Saturated(p) ==
  /\ ppc[p] = "next"
  /\ slots = PoolSize
  /\ ppc' = [ppc EXCEPT ![p] = "blocked"]
  /\ UNCHANGED <<subVars, slots, todo, inside, callVars>>

\* Mutant: a publication does not watch its context.
DropNever(p) == ppc[p] = "blocked" /\ p \in {} /\ UNCHANGED busVars

\* The publication returns an error: its other subscriptions do not get the event.
Drop(p) ==
  /\ ppc[p] = "blocked" /\ p \in Cancellable
  /\ ppc' = [ppc EXCEPT ![p] = "dropped"]
  /\ todo' = [todo EXCEPT ![p] = {}]
  /\ UNCHANGED <<subVars, slots, inside, callVars>>

\* Mutant: a closed subscription is not refused.
BeginUnchecked(p, u) ==
  /\ ppc[p] = "slot" /\ u \in todo[p]
  /\ begun' = [begun EXCEPT ![u] = @ + 1]
  /\ serving' = serving \cup {<<p, u>>}
  /\ todo' = [todo EXCEPT ![p] = @ \ {u}]
  /\ ppc' = [ppc EXCEPT ![p] = IF todo'[p] = {} THEN "done" ELSE "next"]
  /\ UNCHANGED <<stage, slots, inside, freed>>

\* begin() refuses a closed subscription and counts the handler of another.
Begin(p, u) ==
  /\ ppc[p] = "slot" /\ u \in todo[p]
  /\ IF stage[u] = "closed"
     THEN slots' = slots - 1 /\ UNCHANGED <<begun, serving>>
     ELSE /\ begun' = [begun EXCEPT ![u] = @ + 1]
          /\ serving' = serving \cup {<<p, u>>}
          /\ UNCHANGED slots
  /\ todo' = [todo EXCEPT ![p] = @ \ {u}]
  /\ ppc' = [ppc EXCEPT ![p] = IF todo'[p] = {} THEN "done" ELSE "next"]
  /\ UNCHANGED <<stage, inside, freed>>

-----------------------------------------------------------------------------
\* A handler returns or panics once the publications it makes have returned; the
\* deferred function frees the slot and then counts the handler off.
Returnable(c) == c \in serving /\ \A p \in Nested : inside[p] = c => ~InPublish(p)

FreeSlot(c) ==
  /\ Returnable(c)
  /\ serving' = serving \ {c}
  /\ freed' = freed \cup {c}
  /\ slots' = slots - 1
  /\ UNCHANGED <<subVars, pubVars>>

CountOff(c) ==
  /\ c \in freed
  /\ freed' = freed \ {c}
  /\ begun' = [begun EXCEPT ![c[2]] = @ - 1]
  /\ UNCHANGED <<stage, slots, pubVars, serving>>

-----------------------------------------------------------------------------
PublishStep == \E p \in Pubs : Publish(p) \/ Acquire(p) \/ Saturated(p) \/ Drop(p)
                                 \/ \E u \in Subs : Begin(p, u)
ListStep == \E u \in Subs : BusSubscribe(u) \/ Unlist(u) \/ CloseState(u)
HandlerStep == \E c \in HandlerCalls : FreeSlot(c) \/ CountOff(c)

BusNext == ListStep \/ PublishStep \/ HandlerStep

\* Goroutines run on, handlers return, a context that may end does, and a goroutine
\* that waits to send on a channel is served in its turn.
BusFairness ==
  /\ \A u \in Subs : WF_busVars(CloseState(u))
  /\ \A p \in Pubs : /\ WF_busVars(Saturated(p)) /\ SF_busVars(Acquire(p)) /\ WF_busVars(Drop(p))
                     /\ WF_busVars(\E u \in Subs : Begin(p, u))
  /\ \A c \in HandlerCalls : WF_busVars(FreeSlot(c)) /\ WF_busVars(CountOff(c))

BusSafety == BusInit /\ [][BusNext]_busVars
BusSpec == BusSafety /\ BusFairness

-----------------------------------------------------------------------------
BusTypeOK ==
  /\ stage \in [Subs -> {"new", "on", "off", "closed"}]
  /\ begun \in [Subs -> Nat]
  /\ slots \in 0..PoolSize
  /\ ppc \in [Pubs -> {"idle", "next", "blocked", "slot", "done", "dropped"}]
  /\ todo \in [Pubs -> SUBSET Subs]
  /\ inside \in [Pubs -> HandlerCalls \cup {Unnested}]
  /\ serving \subseteq HandlerCalls /\ freed \subseteq HandlerCalls

\* The pool's slots are those of handlers that run and of publications about to start
\* one: none is lost when a subscription is closed under a publication or a handler
\* panics, and no more handlers run than the pool allows.
SlotsExact == slots = Cardinality(serving) + Cardinality(Holding)

\* What Wait waits for is exactly the handlers begun and not done: it neither misses
\* one nor waits for one that has ended.
WaitExact == \A u \in Subs : begun[u] = Cardinality(Of(u, serving)) + Cardinality(Of(u, freed))

\* Wait after the close is final: from a step on where a subscription is closed and its
\* count is zero, no handler of it runs again, whatever publications still hold it.
Quiet(u) == stage[u] = "closed" /\ begun[u] = 0
QuietForGood == [][\A u \in Subs : Quiet(u) => Quiet(u)' /\ Of(u, serving') = {}]_busVars

\* A publication returns although handlers publish: one that a handler makes with a
\* context that ends cannot wait for the slot of its own handler for ever.
PublishReturns == \A p \in Pubs : InPublish(p) ~> ~InPublish(p)
=============================================================================

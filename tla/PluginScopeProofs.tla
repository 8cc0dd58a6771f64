--------------------------- MODULE PluginScopeProofs ---------------------------
(***************************************************************************)
(* The scopes use the bus as EventBus describes it, no subscription of a   *)
(* scope is left on the bus and no handler of it runs when its hooks do,   *)
(* and a hook runs at most once: for any tree of scopes, any numbers of    *)
(* subscriptions, hooks and publications, and any overlap of calls.        *)
(*                                                                         *)
(* A Dispose call has subscriptions left only while it is in the scope     *)
(* that it holds; what it no longer has left is off the bus, and quiet     *)
(* unless the wait was given up or found the state not closed.  The hooks  *)
(* that remain to be run are hooks of the scope that have not run.         *)
(***************************************************************************)
EXTENDS PluginScope, FiniteSetTheorems, SequenceTheorems, TLAPS

(***************************************************************************)
(* The bus: its counts are exact and a closed subscription whose count is  *)
(* zero stays quiet, for any number of subscriptions and publications and  *)
(* any size of the pool.  A handler call is made at most once: a           *)
(* publication that still has to serve a subscription has made no call of  *)
(* it.  So a call that begins is new to the set of those that run, and     *)
(* each set grows and shrinks with its counter.                            *)
(***************************************************************************)
\* The types without the bounds that follow from the exact counts.
BusTypes ==
  /\ stage \in [Subs -> {"new", "on", "off", "closed"}]
  /\ begun \in [Subs -> Int]
  /\ slots \in Int /\ slots <= PoolSize
  /\ ppc \in [Pubs -> {"idle", "next", "blocked", "slot", "done", "dropped"}]
  /\ todo \in [Pubs -> SUBSET Subs]
  /\ inside \in [Pubs -> HandlerCalls \cup {Unnested}]
  /\ serving \subseteq HandlerCalls /\ freed \subseteq HandlerCalls

\* A publication makes each of its calls once, and each call ends once.
OneCall ==
  /\ serving \cap freed = {}
  /\ \A p \in Pubs, u \in Subs :
       <<p, u>> \in serving \cup freed => ppc[p] # "idle" /\ u \notin todo[p]

BusInv == BusTypes /\ OneCall /\ SlotsExact /\ WaitExact

-----------------------------------------------------------------------------
(* Finite sets *)

LEMMA CallsFinite == IsFiniteSet(HandlerCalls)
  BY BusAssumption, FS_Product DEF HandlerCalls

\* Calls come and go one at a time.
LEMMA CallAdded ==
  ASSUME NEW S \in SUBSET HandlerCalls, NEW p \in Pubs, NEW u \in Subs, <<p, u>> \notin S
  PROVE /\ Cardinality(S \cup {<<p, u>>}) = Cardinality(S) + 1
        /\ Cardinality(Of(u, S \cup {<<p, u>>})) = Cardinality(Of(u, S)) + 1
        /\ \A w \in Subs \ {u} : Of(w, S \cup {<<p, u>>}) = Of(w, S)
<1> DEFINE c == <<p, u>>
<1>1. IsFiniteSet(S) /\ IsFiniteSet(Of(u, S))
  <2>1. Of(u, S) \in SUBSET HandlerCalls
    BY DEF Of
  <2> QED
    BY <2>1, CallsFinite, FS_Subset
<1>2. c \notin S /\ c \notin Of(u, S)
  BY DEF Of
<1>3. Of(u, S \cup {c}) = Of(u, S) \cup {c}
  BY DEF Of
<1>4. \A w \in Subs \ {u} : Of(w, S \cup {c}) = Of(w, S)
  BY DEF Of
<1>5. Cardinality(S \cup {c}) = Cardinality(S) + 1
  BY <1>1, <1>2, FS_AddElement
<1>6. Cardinality(Of(u, S) \cup {c}) = Cardinality(Of(u, S)) + 1
  BY <1>1, <1>2, FS_AddElement
<1> QED
  BY <1>3, <1>4, <1>5, <1>6

LEMMA CallRemoved ==
  ASSUME NEW S \in SUBSET HandlerCalls, NEW c \in S
  PROVE /\ Cardinality(S \ {c}) = Cardinality(S) - 1
        /\ Cardinality(Of(c[2], S \ {c})) = Cardinality(Of(c[2], S)) - 1
        /\ \A w \in Subs \ {c[2]} : Of(w, S \ {c}) = Of(w, S)
<1>1. IsFiniteSet(S) /\ IsFiniteSet(Of(c[2], S))
  <2>1. Of(c[2], S) \in SUBSET HandlerCalls
    BY DEF Of
  <2> QED
    BY <2>1, CallsFinite, FS_Subset
<1>2. c \in Of(c[2], S)
  BY DEF Of
<1>3. Of(c[2], S \ {c}) = Of(c[2], S) \ {c}
  BY DEF Of
<1>4. \A w \in Subs \ {c[2]} : Of(w, S \ {c}) = Of(w, S)
  BY DEF Of
<1>5. Cardinality(S \ {c}) = Cardinality(S) - 1
  BY <1>1, FS_RemoveElement
<1>6. Cardinality(Of(c[2], S) \ {c}) = Cardinality(Of(c[2], S)) - 1
  BY <1>1, <1>2, FS_RemoveElement
<1> QED
  BY <1>3, <1>4, <1>5, <1>6

LEMMA CountsAreNat ==
  ASSUME BusTypes
  PROVE /\ Cardinality(serving) \in Nat /\ Cardinality(Holding) \in Nat
        /\ \A u \in Subs : Cardinality(Of(u, serving)) \in Nat /\ Cardinality(Of(u, freed)) \in Nat
        /\ IsFiniteSet(Holding)
        /\ \A u \in Subs : IsFiniteSet(Of(u, serving)) /\ IsFiniteSet(Of(u, freed))
<1>1. IsFiniteSet(serving) /\ IsFiniteSet(Holding)
  <2>1. serving \in SUBSET HandlerCalls /\ Holding \in SUBSET Pubs
    BY DEF BusTypes, Holding
  <2> QED
    BY <2>1, CallsFinite, BusAssumption, FS_Subset
<1>2. ASSUME NEW u \in Subs PROVE IsFiniteSet(Of(u, serving)) /\ IsFiniteSet(Of(u, freed))
  <2>1. Of(u, serving) \in SUBSET HandlerCalls /\ Of(u, freed) \in SUBSET HandlerCalls
    BY DEF BusTypes, Of
  <2> QED
    BY <2>1, CallsFinite, FS_Subset
<1> QED
  BY <1>1, <1>2, FS_CardinalityType

-----------------------------------------------------------------------------
(* The invariant *)

LEMMA BusInvInit == BusInit => BusInv
<1> SUFFICES ASSUME BusInit PROVE BusInv
  OBVIOUS
<1>1. Holding = {} /\ serving = {} /\ freed = {} /\ \A u \in Subs : Of(u, {}) = {}
  BY DEF BusInit, Holding, Of
<1>2. Cardinality({}) = 0
  BY FS_EmptySet
<1>3. BusTypes /\ OneCall
  BY BusAssumption DEF BusInit, BusTypes, OneCall
<1>4. SlotsExact
  BY <1>1, <1>2 DEF BusInit, SlotsExact
<1>5. WaitExact
  BY <1>1, <1>2 DEF BusInit, WaitExact
<1> QED
  BY <1>3, <1>4, <1>5 DEF BusInv

\* The publications that hold a slot when p's place changes.
LEMMA HoldingMoves ==
  ASSUME BusTypes, NEW p \in Pubs, NEW pl, ppc' = [ppc EXCEPT ![p] = pl]
  PROVE /\ pl = "slot" /\ ppc[p] # "slot" => Cardinality(Holding') = Cardinality(Holding) + 1
        /\ pl # "slot" /\ ppc[p] = "slot" => Cardinality(Holding') = Cardinality(Holding) - 1
        /\ pl # "slot" /\ ppc[p] # "slot" => Holding' = Holding
<1>0. IsFiniteSet(Holding)
  BY CountsAreNat
<1>1. CASE pl = "slot" /\ ppc[p] # "slot"
  <2>1. Holding' = Holding \cup {p} /\ p \notin Holding
    BY <1>1 DEF Holding, BusTypes
  <2> QED
    BY <1>0, <1>1, <2>1, FS_AddElement
<1>2. CASE pl # "slot" /\ ppc[p] = "slot"
  <2>1. Holding' = Holding \ {p} /\ p \in Holding
    BY <1>2 DEF Holding, BusTypes
  <2> QED
    BY <1>0, <1>2, <2>1, FS_RemoveElement
<1>3. CASE pl # "slot" /\ ppc[p] # "slot"
  BY <1>3 DEF Holding, BusTypes
<1> QED
  BY <1>1, <1>2, <1>3

LEMMA BusInvNext == BusInv /\ [BusNext]_busVars => BusInv'
<1> SUFFICES ASSUME BusInv, [BusNext]_busVars PROVE BusInv'
  OBVIOUS
<1> USE DEF BusInv
<1>c. /\ Cardinality(serving) \in Nat /\ Cardinality(Holding) \in Nat
      /\ \A u \in Subs : Cardinality(Of(u, serving)) \in Nat /\ Cardinality(Of(u, freed)) \in Nat
  BY CountsAreNat
<1>p. PoolSize \in Nat
  BY BusAssumption
<1>1. ASSUME NEW u \in Subs, BusSubscribe(u) \/ Unlist(u) \/ CloseState(u) PROVE BusInv'
  <2>1. UNCHANGED <<begun, slots, pubVars, callVars>>
    BY <1>1 DEF BusSubscribe, Unlist, CloseState
  <2>2. BusTypes'
    BY <1>1, <2>1 DEF BusTypes, BusSubscribe, Unlist, CloseState, pubVars, callVars
  <2>3. Holding' = Holding
    BY <2>1 DEF Holding, pubVars
  <2> QED
    BY <2>1, <2>2, <2>3 DEF OneCall, SlotsExact, WaitExact, pubVars, callVars, Of
<1>2. ASSUME NEW p \in Pubs, Publish(p) PROVE BusInv'
  <2>1. BusTypes'
    BY <1>2 DEF Publish, BusTypes, subVars, callVars
  <2>2. OneCall'
    BY <1>2 DEF Publish, OneCall, BusTypes, callVars
  <2>3. Holding' = Holding
    BY <1>2, HoldingMoves DEF Publish
  <2> QED
    BY <1>2, <2>1, <2>2, <2>3 DEF Publish, SlotsExact, WaitExact, subVars, callVars, Of
<1>3. ASSUME NEW p \in Pubs, Acquire(p) PROVE BusInv'
  <2>1. BusTypes'
    BY <1>3, <1>p DEF Acquire, BusTypes, subVars, callVars
  <2>2. OneCall'
    BY <1>3 DEF Acquire, OneCall, BusTypes, callVars
  <2>3. Cardinality(Holding') = Cardinality(Holding) + 1
    BY <1>3, HoldingMoves DEF Acquire
  <2>4. SlotsExact'
    BY <1>3, <2>3, <1>c DEF Acquire, SlotsExact, callVars
  <2> QED
    BY <1>3, <2>1, <2>2, <2>4 DEF Acquire, WaitExact, subVars, callVars, Of
<1>4. ASSUME NEW p \in Pubs, Saturated(p) \/ Drop(p) PROVE BusInv'
  <2>1. BusTypes'
    BY <1>4 DEF Saturated, Drop, BusTypes, subVars, callVars
  <2>2. OneCall'
    BY <1>4 DEF Saturated, Drop, OneCall, BusTypes, callVars
  <2>3. Holding' = Holding
    BY <1>4, HoldingMoves DEF Saturated, Drop
  <2> QED
    BY <1>4, <2>1, <2>2, <2>3 DEF Saturated, Drop, SlotsExact, WaitExact, subVars, callVars, Of
<1>5. ASSUME NEW p \in Pubs, NEW u \in Subs, Begin(p, u) PROVE BusInv'
  <2> DEFINE c == <<p, u>>
  <2>1. c \notin serving /\ c \notin freed /\ c \in HandlerCalls
    BY <1>5 DEF Begin, OneCall, HandlerCalls
  <2>2. Cardinality(Holding') = Cardinality(Holding) - 1
    BY <1>5, HoldingMoves DEF Begin
  <2>3. CASE stage[u] = "closed"
    <3>1. slots' = slots - 1 /\ UNCHANGED <<begun, serving, freed>>
      BY <1>5, <2>3 DEF Begin
    <3>2. BusTypes'
      BY <1>5, <3>1, <1>p DEF Begin, BusTypes
    <3>3. OneCall'
      BY <1>5, <3>1 DEF Begin, OneCall, BusTypes
    <3>4. SlotsExact'
      BY <2>2, <3>1, <1>c DEF SlotsExact, BusTypes
    <3> QED
      BY <3>1, <3>2, <3>3, <3>4 DEF WaitExact, Of
  <2>4. CASE stage[u] # "closed"
    <3>1. /\ begun' = [begun EXCEPT ![u] = @ + 1] /\ serving' = serving \cup {c}
          /\ slots' = slots /\ freed' = freed
      BY <1>5, <2>4 DEF Begin
    <3>2. BusTypes'
      BY <1>5, <3>1, <2>1 DEF Begin, BusTypes
    <3>3. OneCall'
      BY <1>5, <3>1, <2>1 DEF Begin, OneCall, BusTypes
    <3>4. /\ Cardinality(serving') = Cardinality(serving) + 1
          /\ Cardinality(Of(u, serving')) = Cardinality(Of(u, serving)) + 1
          /\ \A w \in Subs \ {u} : Of(w, serving') = Of(w, serving)
      <4>1. serving \in SUBSET HandlerCalls /\ <<p, u>> \notin serving /\ serving' = serving \cup {<<p, u>>}
        BY <2>1, <3>1 DEF BusTypes
      <4> HIDE DEF c
      <4> QED
        BY <4>1, CallAdded
    <3>5. SlotsExact'
      BY <2>2, <3>1, <3>4, <1>c DEF SlotsExact
    <3>6. WaitExact'
      <4>1. ASSUME NEW w \in Subs
            PROVE begun'[w] = Cardinality(Of(w, serving')) + Cardinality(Of(w, freed'))
        <5>1. begun[w] = Cardinality(Of(w, serving)) + Cardinality(Of(w, freed))
          BY DEF WaitExact
        <5>2. CASE w = u
          BY <5>1, <5>2, <3>1, <3>4, <1>c DEF BusTypes
        <5>3. CASE w # u
          BY <5>1, <5>3, <3>1, <3>4, <1>c DEF BusTypes
        <5> QED
          BY <5>2, <5>3
      <4> QED
        BY <4>1 DEF WaitExact
    <3> QED
      BY <3>2, <3>3, <3>5, <3>6
  <2> QED
    BY <2>3, <2>4
<1>6. ASSUME NEW c \in HandlerCalls, FreeSlot(c) PROVE BusInv'
  <2>1. /\ c \in serving /\ c \notin freed /\ c[2] \in Subs /\ c[1] \in Pubs /\ c = <<c[1], c[2]>>
        /\ serving' = serving \ {c} /\ freed' = freed \cup {c} /\ slots' = slots - 1
        /\ UNCHANGED <<stage, begun, ppc, todo, inside>>
    BY <1>6 DEF FreeSlot, Returnable, OneCall, HandlerCalls, subVars, pubVars
  <2>2. BusTypes'
    BY <2>1, <1>p DEF BusTypes
  <2>3. OneCall'
    BY <2>1 DEF OneCall
  <2>4. /\ Cardinality(serving') = Cardinality(serving) - 1
        /\ Cardinality(Of(c[2], serving')) = Cardinality(Of(c[2], serving)) - 1
        /\ \A w \in Subs \ {c[2]} : Of(w, serving') = Of(w, serving)
    BY <2>1, CallRemoved DEF BusTypes
  <2>5. /\ Cardinality(Of(c[2], freed')) = Cardinality(Of(c[2], freed)) + 1
        /\ \A w \in Subs \ {c[2]} : Of(w, freed') = Of(w, freed)
    <3> DEFINE p == c[1]
               u == c[2]
    <3>1. p \in Pubs /\ u \in Subs /\ <<p, u>> \notin freed /\ freed \in SUBSET HandlerCalls
      BY <2>1 DEF BusTypes
    <3>2. freed' = freed \cup {<<p, u>>}
      BY <2>1
    <3> HIDE DEF p, u
    <3>3. /\ Cardinality(Of(u, freed')) = Cardinality(Of(u, freed)) + 1
          /\ \A w \in Subs \ {u} : Of(w, freed') = Of(w, freed)
      BY <3>1, <3>2, CallAdded
    <3> QED
      BY <3>3 DEF u
  <2>6. Holding' = Holding
    BY <2>1 DEF Holding
  <2>7. SlotsExact'
    BY <2>1, <2>4, <2>6, <1>c DEF SlotsExact, BusTypes
  <2>8. WaitExact'
    <3>1. ASSUME NEW w \in Subs
          PROVE begun'[w] = Cardinality(Of(w, serving')) + Cardinality(Of(w, freed'))
      <4>1. begun[w] = Cardinality(Of(w, serving)) + Cardinality(Of(w, freed))
        BY DEF WaitExact
      <4>2. CASE w = c[2]
        BY <4>1, <4>2, <2>1, <2>4, <2>5, <1>c
      <4>3. CASE w # c[2]
        BY <4>1, <4>3, <2>1, <2>4, <2>5
      <4> QED
        BY <4>2, <4>3
    <3> QED
      BY <3>1 DEF WaitExact
  <2> QED
    BY <2>2, <2>3, <2>7, <2>8
<1>7. ASSUME NEW c \in HandlerCalls, CountOff(c) PROVE BusInv'
  <2>1. /\ c \in freed /\ c[2] \in Subs
        /\ freed' = freed \ {c} /\ begun' = [begun EXCEPT ![c[2]] = @ - 1]
        /\ UNCHANGED <<stage, slots, ppc, todo, inside, serving>>
    BY <1>7 DEF CountOff, HandlerCalls, pubVars
  <2>2. BusTypes'
    BY <2>1 DEF BusTypes
  <2>3. OneCall'
    BY <2>1 DEF OneCall
  <2>4. /\ Cardinality(Of(c[2], freed')) = Cardinality(Of(c[2], freed)) - 1
        /\ \A w \in Subs \ {c[2]} : Of(w, freed') = Of(w, freed)
    BY <2>1, CallRemoved DEF BusTypes
  <2>5. Holding' = Holding
    BY <2>1 DEF Holding
  <2>6. SlotsExact'
    BY <2>1, <2>5 DEF SlotsExact
  <2>7. WaitExact'
    <3>1. ASSUME NEW w \in Subs
          PROVE begun'[w] = Cardinality(Of(w, serving')) + Cardinality(Of(w, freed'))
      <4>1. begun[w] = Cardinality(Of(w, serving)) + Cardinality(Of(w, freed))
        BY DEF WaitExact
      <4>2. CASE w = c[2]
        BY <4>1, <4>2, <2>1, <2>4, <1>c DEF BusTypes
      <4>3. CASE w # c[2]
        BY <4>1, <4>3, <2>1, <2>4 DEF BusTypes
      <4> QED
        BY <4>2, <4>3
    <3> QED
      BY <3>1 DEF WaitExact
  <2> QED
    BY <2>2, <2>3, <2>6, <2>7
<1>8. CASE UNCHANGED busVars
  BY <1>8 DEF busVars, BusTypes, OneCall, SlotsExact, WaitExact, Holding, Of
<1> QED
  BY <1>1, <1>2, <1>3, <1>4, <1>5, <1>6, <1>7, <1>8 DEF BusNext, ListStep, PublishStep, HandlerStep

\* The slots and the counts of handlers agree with what publications and handlers do
\* (infra_eventbus.go).
THEOREM BusInvariant == BusSafety => []BusInv
<1>1. BusInit => BusInv
  BY BusInvInit
<1>2. BusInv /\ [BusNext]_busVars => BusInv'
  BY BusInvNext
<1> QED
  BY <1>1, <1>2, PTL DEF BusSafety

-----------------------------------------------------------------------------
(* The results *)

LEMMA BusInvTypes == BusInv => BusTypeOK
  BY CountsAreNat DEF BusInv, BusTypes, BusTypeOK, SlotsExact, WaitExact

\* Every variable of the bus keeps its type: no more slots are used than there are,
\* and no count of handlers falls below zero (a panic of the WaitGroup).
THEOREM BusTyped == BusSafety => []BusTypeOK
  BY BusInvariant, BusInvTypes, PTL

\* The slots in use are those of running handlers and of publications about to start one.
THEOREM SlotsAreExact == BusSafety => []SlotsExact
  BY BusInvariant, PTL DEF BusInv

\* Wait waits for exactly the handlers that have begun and are not done.
THEOREM WaitIsExact == BusSafety => []WaitExact
  BY BusInvariant, PTL DEF BusInv

LEMMA QuietIsEmpty ==
  ASSUME BusInv, NEW u \in Subs, Quiet(u)
  PROVE Of(u, serving) = {} /\ Of(u, freed) = {}
<1>1. Cardinality(Of(u, serving)) = 0 /\ Cardinality(Of(u, freed)) = 0
  BY CountsAreNat DEF BusInv, WaitExact, Quiet
<1> QED
  BY <1>1, CountsAreNat, FS_EmptySet DEF BusInv

LEMMA QuietNext ==
  ASSUME BusInv, [BusNext]_busVars, NEW u \in Subs, Quiet(u)
  PROVE Quiet(u)' /\ Of(u, serving') = {}
<1> USE DEF BusInv
<1>e. Of(u, serving) = {} /\ Of(u, freed) = {} /\ stage[u] = "closed" /\ begun[u] = 0
  BY QuietIsEmpty DEF Quiet
<1>1. ASSUME NEW w \in Subs, BusSubscribe(w) \/ Unlist(w) \/ CloseState(w)
      PROVE Quiet(u)' /\ Of(u, serving') = {}
  BY <1>1, <1>e DEF BusSubscribe, Unlist, CloseState, Quiet, callVars, BusTypes
<1>2. ASSUME NEW p \in Pubs, Publish(p) \/ Acquire(p) \/ Saturated(p) \/ Drop(p)
      PROVE Quiet(u)' /\ Of(u, serving') = {}
  BY <1>2, <1>e DEF Publish, Acquire, Saturated, Drop, Quiet, subVars, callVars
<1>3. ASSUME NEW p \in Pubs, NEW w \in Subs, Begin(p, w)
      PROVE Quiet(u)' /\ Of(u, serving') = {}
  <2>1. CASE w = u
    BY <1>3, <1>e, <2>1 DEF Begin, Quiet
  <2>2. CASE w # u
    <3>1. Of(u, serving') = Of(u, serving)
      BY <1>3, <2>2 DEF Begin, Of
    <3> QED
      BY <1>3, <1>e, <2>2, <3>1 DEF Begin, Quiet, BusTypes
  <2> QED
    BY <2>1, <2>2
<1>4. ASSUME NEW c \in HandlerCalls, FreeSlot(c) \/ CountOff(c)
      PROVE Quiet(u)' /\ Of(u, serving') = {}
  <2>1. c \in freed => c[2] # u
    BY <1>e DEF Of
  <2>2. Of(u, serving') = {}
    BY <1>4, <1>e DEF FreeSlot, CountOff, Of
  <2> QED
    BY <1>4, <1>e, <2>1, <2>2 DEF FreeSlot, CountOff, Quiet, subVars, BusTypes
<1>5. CASE UNCHANGED busVars
  BY <1>5, <1>e DEF busVars, Quiet
<1> QED
  BY <1>1, <1>2, <1>3, <1>4, <1>5 DEF BusNext, ListStep, PublishStep, HandlerStep

\* A closed subscription whose count is zero is quiet for good: a Wait that has
\* returned after the close cannot be followed by another handler.
THEOREM ClosedStaysQuiet == BusSafety => QuietForGood
<1>1. BusInv /\ [BusNext]_busVars
      => [\A u \in Subs : Quiet(u) => Quiet(u)' /\ Of(u, serving') = {}]_busVars
  BY QuietNext
<1> QED
  BY <1>1, BusInvariant, PTL DEF BusSafety, QuietForGood
-----------------------------------------------------------------------------
(* The scopes *)

Injective(s) == \A i, j \in 1..Len(s) : s[i] = s[j] => i = j

ScopeTypes ==
  /\ created \subseteq Scopes /\ closing \subseteq Scopes /\ disposed \subseteq Scopes
  /\ kids \in [Scopes -> Seq(Scopes)] /\ subs \in [Scopes -> Seq(Subs)]
  /\ hooks \in [Scopes -> Seq(DisposeHooks)]
  /\ rest \in [Scopes -> [kids : Seq(Scopes), hooks : Seq(DisposeHooks)]]
  /\ disposeMu \in [Scopes -> Disposers \cup {Nothing}]
  /\ stack \in [Disposers -> Seq(Scopes)]
  /\ dst \in [Disposers -> {"new", "lock", "work", "close", "wait", "returned"}]
  /\ left \in [Disposers -> Seq(Subs)]
  /\ ctxDone \subseteq Limited
  /\ upc \in [Subs -> {"new", "checked", "listed", "refused", "done"}]
  /\ home \in [Subs -> Scopes \cup {Nothing}]
  /\ ran \in [DisposeHooks -> Nat]
  /\ cut \subseteq Scopes /\ hurried \subseteq Subs /\ early \subseteq Subs

\* The scopes that a call has entered: all it is in, but for one it waits for.
Entered(d) == IF dst[d] = "lock" THEN Tail(stack[d]) ELSE stack[d]

\* A call is in scopes that exist, and holds those it has entered; it has subscriptions
\* left only in the innermost.
Frame(d) ==
  /\ dst[d] \notin {"new", "returned"} <=> stack[d] # <<>>
  /\ left[d] # <<>> => dst[d] \in {"work", "close", "wait"}
  /\ dst[d] \in {"close", "wait"} => left[d] # <<>>
  /\ Injective(Entered(d))
  /\ \A s \in Scopes : /\ Contains(stack[d], s) => s \in created
                       /\ Contains(Entered(d), s) => disposeMu[s] = d
Frames == \A d \in Disposers : Frame(d)

\* What is said of the subscription that a call waits for.
AtWait ==
  \A d \in Disposers :
    /\ dst[d] = "close" => stage[Head(left[d])] \in {"off", "closed"}
    /\ dst[d] = "wait" => \/ stage[Head(left[d])] = "closed"
                          \/ stage[Head(left[d])] = "off" /\ Head(left[d]) \in early

\* A Subscribe under way and where the subscription is.
Making ==
  \A u \in Subs :
    /\ upc[u] \in {"new", "checked"} <=> stage[u] = "new"
    /\ upc[u] = "new" <=> home[u] = Nothing
    /\ upc[u] = "done" => Contains(subs[home[u]], u)
Recorded ==
  /\ \A s \in Scopes, u \in Subs : Contains(subs[s], u) => stage[u] # "new"
  /\ \A d \in Disposers, u \in Subs : Contains(left[d], u) => stage[u] # "new"

\* A scope with nothing left to unsubscribe has its subscriptions off the bus.
Pending(s, u) == \E d \in Disposers : left[d] # <<>> /\ At(d) = s /\ Contains(left[d], u)
Dealt ==
  \A s \in closing, u \in Subs : Contains(subs[s], u) =>
    \/ Pending(s, u)
    \/ stage[u] # "on" /\ (u \in hurried \cup early \/ Quiet(u))

\* A disposed scope is held by nobody; one that started disposed has no subscriptions.
AtRest ==
  /\ \A s \in Scopes : disposeMu[s] # Nothing => s \in closing \ disposed
  /\ \A d \in Disposers, s \in Scopes : Contains(Entered(d), s) => s \in closing
  /\ \A s \in disposed \ closing, u \in Subs : home[u] # s
  /\ \A s \in Scopes \ created, u \in Subs : home[u] # s
  /\ closing \subseteq created /\ disposed \subseteq created
  /\ \A s, c \in Scopes : Contains(kids[s], c) \/ Contains(rest[s].kids, c) => c \in created

ScopeInv ==
  /\ BusInv
  /\ ScopeTypes /\ Frames /\ AtWait /\ Making /\ Recorded /\ Dealt /\ AtRest

-----------------------------------------------------------------------------
(* Sequences *)

LEMMA Appended ==
  ASSUME NEW S, NEW s \in Seq(S), NEW x \in S
  PROVE /\ Append(s, x) \in Seq(S)
        /\ \A y : Contains(Append(s, x), y) <=> Contains(s, y) \/ y = x
        /\ Injective(s) /\ ~Contains(s, x) => Injective(Append(s, x))
<1>1. /\ Append(s, x) \in Seq(S) /\ Len(Append(s, x)) = Len(s) + 1 /\ Len(s) \in Nat
      /\ \A i \in 1 .. Len(s) : Append(s, x)[i] = s[i]
      /\ Append(s, x)[Len(s) + 1] = x
  BY AppendProperties, LenProperties
<1>2. \A i : i \in 1 .. (Len(s) + 1) <=> i \in 1 .. Len(s) \/ i = Len(s) + 1
  BY <1>1
<1> QED
  BY <1>1, <1>2 DEF Contains, Injective

LEMMA HeadAndTail ==
  ASSUME NEW S, NEW s \in Seq(S), s # <<>>
  PROVE /\ Head(s) \in S /\ Tail(s) \in Seq(S)
        /\ \A y : Contains(s, y) <=> y = Head(s) \/ Contains(Tail(s), y)
        /\ Injective(s) => Injective(Tail(s)) /\ ~Contains(Tail(s), Head(s))
<1>1. /\ Head(s) \in S /\ Tail(s) \in Seq(S) /\ Len(s) \in Nat /\ Len(s) > 0 /\ Head(s) = s[1]
      /\ Len(Tail(s)) = Len(s) - 1
      /\ \A i \in 1 .. Len(Tail(s)) : Tail(s)[i] = s[i + 1]
  BY HeadTailProperties, LenProperties
<1>2. \A i : i \in 1 .. Len(s) <=> i = 1 \/ (i \in Int /\ i - 1 \in 1 .. Len(Tail(s)))
  BY <1>1
<1>3. \A i \in 1 .. Len(Tail(s)) : i + 1 \in 1 .. Len(s) /\ i + 1 # 1
  BY <1>1
<1>4. ASSUME NEW y, Contains(s, y) PROVE y = Head(s) \/ Contains(Tail(s), y)
  <2>1. PICK i \in 1 .. Len(s) : s[i] = y
    BY <1>4 DEF Contains
  <2>2. CASE i = 1
    BY <2>1, <2>2, <1>1
  <2>3. CASE i # 1
    <3>1. i - 1 \in 1 .. Len(Tail(s)) /\ Tail(s)[i - 1] = s[(i - 1) + 1] /\ (i - 1) + 1 = i
      BY <1>1, <1>2, <2>3
    <3> QED
      BY <2>1, <3>1 DEF Contains
  <2> QED
    BY <2>2, <2>3
<1>5. ASSUME NEW y, y = Head(s) \/ Contains(Tail(s), y) PROVE Contains(s, y)
  BY <1>1, <1>2, <1>3, <1>5 DEF Contains
<1>6. Injective(s) => Injective(Tail(s)) /\ ~Contains(Tail(s), Head(s))
  <2> SUFFICES ASSUME Injective(s) PROVE Injective(Tail(s)) /\ ~Contains(Tail(s), Head(s))
    OBVIOUS
  <2>1. ASSUME NEW i \in 1 .. Len(Tail(s)), NEW j \in 1 .. Len(Tail(s)), Tail(s)[i] = Tail(s)[j]
        PROVE i = j
    <3>1. s[i + 1] = s[j + 1]
      BY <2>1, <1>1
    <3>2. i + 1 = j + 1
      BY <3>1, <1>3 DEF Injective
    <3> QED
      BY <3>2, <1>1
  <2>2. ASSUME NEW i \in 1 .. Len(Tail(s)), Tail(s)[i] = Head(s) PROVE FALSE
    <3>1. s[i + 1] = s[1] /\ 1 \in 1 .. Len(s)
      BY <2>2, <1>1
    <3> QED
      BY <3>1, <1>3 DEF Injective
  <2> QED
    BY <2>1, <2>2 DEF Injective, Contains
<1> QED
  BY <1>1, <1>4, <1>5, <1>6

LEMMA Reversed ==
  ASSUME NEW S, NEW s \in Seq(S)
  PROVE /\ Reverse(s) \in Seq(S)
        /\ \A y : Contains(Reverse(s), y) <=> Contains(s, y)
        /\ Injective(s) => Injective(Reverse(s))
<1>1. Len(s) \in Nat /\ \A i \in 1 .. Len(s) : s[i] \in S /\ (Len(s) - i) + 1 \in 1 .. Len(s)
  BY ElementOfSeq, LenProperties
<1>2. Reverse(s) \in Seq(S) /\ Len(Reverse(s)) = Len(s)
  BY <1>1 DEF Reverse
<1>3. \A i \in 1 .. Len(s) : Reverse(s)[i] = s[(Len(s) - i) + 1]
  BY DEF Reverse
<1>4. \A i \in 1 .. Len(s) : Reverse(s)[(Len(s) - i) + 1] = s[i]
  <2> TAKE i \in 1 .. Len(s)
  <2>1. (Len(s) - ((Len(s) - i) + 1)) + 1 = i
    BY <1>1
  <2> QED
    BY <1>1, <1>3, <2>1
<1>5. \A y : Contains(Reverse(s), y) <=> Contains(s, y)
  BY <1>1, <1>2, <1>3, <1>4 DEF Contains
<1>6. Injective(s) => Injective(Reverse(s))
  <2> SUFFICES ASSUME Injective(s), NEW i \in 1 .. Len(s), NEW j \in 1 .. Len(s),
                      Reverse(s)[i] = Reverse(s)[j]
               PROVE i = j
    BY <1>2 DEF Injective
  <2>1. (Len(s) - i) + 1 = (Len(s) - j) + 1
    BY <1>1, <1>3 DEF Injective
  <2> QED
    BY <1>1, <2>1
<1> QED
  BY <1>2, <1>5, <1>6

LEMMA EmptyContains == ASSUME NEW y PROVE ~Contains(<<>>, y)
  BY DEF Contains

-----------------------------------------------------------------------------
(* The bus under the scopes *)

LEMMA ScopeUsesBus ==
  ASSUME ScopeTypes, [ScopeNext]_<<scopeVars, busVars>>
  PROVE [BusNext]_busVars
<1>1. CASE UserStep
  <2>1. ASSUME NEW c \in Scopes, NEW s \in Scopes, NewChild(c, s) PROVE [BusNext]_busVars
    BY <2>1 DEF NewChild
  <2>2. ASSUME NEW h \in DisposeHooks, NEW s \in Scopes, OnDispose(h, s) PROVE [BusNext]_busVars
    BY <2>2 DEF OnDispose
  <2>3. ASSUME NEW u \in Subs, NEW s \in Scopes, SubscribeOpen(u, s) PROVE [BusNext]_busVars
    BY <2>3 DEF SubscribeOpen
  <2>4. ASSUME NEW u \in Subs, Unsubscribe(u) PROVE [BusNext]_busVars
    BY <2>4 DEF Unsubscribe, BusNext, ListStep
  <2> QED
    BY <1>1, <2>1, <2>2, <2>3, <2>4 DEF UserStep
<1>2. CASE OnBus
  BY <1>2 DEF OnBus, BusNext, ListStep
<1>3. ASSUME NEW u \in Subs, SubscribeStep(u) PROVE [BusNext]_busVars
  BY <1>3 DEF SubscribeStep, SubscribeOnBus, SubscribeRecord, SubscribeUndo, BusNext, ListStep
<1>4. ASSUME NEW d \in Disposers, ContextEnds(d) \/ \E s \in Scopes : Dispose(d, s)
      PROVE [BusNext]_busVars
  BY <1>4 DEF Dispose, ContextEnds
<1>5. ASSUME NEW d \in Disposers, DisposeStep(d) PROVE [BusNext]_busVars
  <2>1. CASE DisposeSub(d)
    <3>1. left[d] \in Seq(Subs) /\ left[d] # <<>>
      BY <2>1 DEF DisposeSub, ScopeTypes
    <3>2. Head(left[d]) \in Subs
      BY <3>1, HeadAndTail
    <3> QED
      BY <2>1, <3>2 DEF DisposeSub, BusNext, ListStep
  <2>2. CASE ~DisposeSub(d)
    BY <1>5, <2>2 DEF DisposeStep, EnterScope, WaitSub, DisposeChild, RunHook, DisposeCancelled,
                      DisposeDone
  <2> QED
    BY <2>1, <2>2
<1>6. CASE UNCHANGED <<scopeVars, busVars>>
  BY <1>6
<1> QED
  BY <1>1, <1>2, <1>3, <1>4, <1>5, <1>6 DEF ScopeNext

-----------------------------------------------------------------------------
(* What a step of the bus other than BusSubscribe does to subscriptions *)

Advance ==
  \A u \in Subs :
    /\ stage'[u] = "new" <=> stage[u] = "new"
    /\ stage[u] = "off" => stage'[u] \in {"off", "closed"}
    /\ stage[u] = "closed" => stage'[u] = "closed"
    /\ Quiet(u) => Quiet(u)'

LEMMA Advances ==
  ASSUME BusInv, [BusNext]_busVars, \A u \in Subs : ~BusSubscribe(u)
  PROVE Advance
<1>1. \A u \in Subs : Quiet(u) => Quiet(u)'
  BY QuietNext
<1>2. ASSUME NEW w \in Subs, Unlist(w) \/ CloseState(w)
      PROVE \A u \in Subs : /\ stage'[u] = "new" <=> stage[u] = "new"
                            /\ stage[u] = "off" => stage'[u] \in {"off", "closed"}
                            /\ stage[u] = "closed" => stage'[u] = "closed"
  BY <1>2 DEF Unlist, CloseState, BusInv, BusTypes
<1>3. CASE PublishStep \/ HandlerStep \/ UNCHANGED busVars
  <2>1. stage' = stage
    BY <1>3 DEF PublishStep, HandlerStep, Publish, Acquire, Saturated, Drop, Begin, FreeSlot, CountOff,
                subVars, busVars
  <2> QED
    BY <1>1, <2>1 DEF Advance
<1> QED
  BY <1>1, <1>2, <1>3 DEF BusNext, ListStep, Advance

\* The same bus, or one that has moved, under scopes that have not changed.
LEMMA BusMoves ==
  ASSUME ScopeInv, Advance, UNCHANGED scopeVars
  PROVE Frames' /\ AtWait' /\ Making' /\ Recorded' /\ Dealt' /\ AtRest'
<1> USE DEF ScopeInv, scopeVars, treeVars, disposerVars, userVars, historyVars
<1>1. \A d \in Disposers : left[d] # <<>> => Head(left[d]) \in Subs
  BY HeadAndTail DEF ScopeTypes
<1>2. Frames' /\ AtRest'
  BY DEF Frames, Frame, AtRest, Entered, Active
<1>3. AtWait'
  BY <1>1 DEF AtWait, Frames, Frame, Advance
<1>4. Making'
  BY DEF Making, Advance
<1>5. Recorded'
  BY DEF Recorded, Advance
<1>6. Dealt'
  <2>1. ASSUME NEW u \in Subs, stage[u] # "on" PROVE stage'[u] # "on"
    BY <2>1 DEF Advance, BusInv, BusTypes
  <2> QED
    BY <2>1 DEF Dealt, Pending, At, Advance
<1> QED
  BY <1>2, <1>3, <1>4, <1>5, <1>6

-----------------------------------------------------------------------------
(* The plugin's calls *)

LEMMA NewChildKeeps ==
  ASSUME ScopeInv, NEW c \in Scopes, NEW s \in Scopes, NewChild(c, s)
  PROVE ScopeTypes' /\ Frames' /\ AtWait' /\ Making' /\ Recorded' /\ Dealt' /\ AtRest'
<1> USE DEF ScopeInv
<1>0. /\ c \notin created /\ s \in created /\ created' = created \cup {c}
      /\ UNCHANGED <<subs, hooks, closing, rest, disposeMu, disposerVars, userVars, historyVars, busVars>>
      /\ \/ disposed' = disposed \cup {c} /\ kids' = kids
         \/ kids' = [kids EXCEPT ![s] = Append(@, c)] /\ disposed' = disposed
  BY DEF NewChild
<1>1. /\ kids' \in [Scopes -> Seq(Scopes)]
      /\ \A t, k \in Scopes : Contains(kids'[t], k) => Contains(kids[t], k) \/ k = c
  <2>1. CASE kids' = [kids EXCEPT ![s] = Append(@, c)]
    <3>1. kids \in [Scopes -> Seq(Scopes)]
      BY DEF ScopeTypes
    <3>2. /\ kids[s] \in Seq(Scopes) /\ kids'[s] = Append(kids[s], c)
          /\ \A t \in Scopes \ {s} : kids'[t] = kids[t]
      BY <2>1, <3>1
    <3>3. /\ Append(kids[s], c) \in Seq(Scopes)
          /\ \A k : Contains(Append(kids[s], c), k) <=> Contains(kids[s], k) \/ k = c
      BY <3>2, Appended
    <3> QED
      BY <2>1, <3>1, <3>2, <3>3
  <2>2. CASE kids' = kids
    BY <2>2 DEF ScopeTypes
  <2> QED
    BY <1>0, <2>1, <2>2
<1>2. ScopeTypes'
  BY <1>0, <1>1 DEF ScopeTypes, disposerVars, userVars, historyVars
<1>3. Frames'
  BY <1>0 DEF Frames, Frame, disposerVars, Entered, Active
<1>4. AtWait' /\ Making' /\ Recorded'
  BY <1>0 DEF AtWait, Making, Recorded, disposerVars, userVars, historyVars, busVars
<1>5. Dealt'
  BY <1>0 DEF Dealt, Pending, At, Quiet, disposerVars, historyVars, busVars
<1>6. AtRest'
  <2>2. \A t, k \in Scopes : Contains(kids'[t], k) \/ Contains(rest'[t].kids, k) => k \in created'
    BY <1>0, <1>1 DEF AtRest
  <2>3. c \notin closing /\ disposeMu[c] = Nothing
    BY <1>0 DEF AtRest
  <2>4. \A t \in Scopes : disposeMu'[t] # Nothing => t \in closing' \ disposed'
    BY <1>0, <2>3 DEF AtRest
  <2> QED
    BY <1>0, <2>2, <2>4 DEF AtRest, userVars, disposerVars, Entered
<1> QED
  BY <1>2, <1>3, <1>4, <1>5, <1>6

LEMMA OnDisposeKeeps ==
  ASSUME ScopeInv, NEW h \in DisposeHooks, NEW s \in Scopes, OnDispose(h, s)
  PROVE ScopeTypes' /\ Frames' /\ AtWait' /\ Making' /\ Recorded' /\ Dealt' /\ AtRest'
<1> USE DEF ScopeInv
<1>0. /\ UNCHANGED <<created, kids, subs, closing, disposed, rest, disposeMu, disposerVars, userVars,
                     cut, hurried, early, busVars>>
      /\ \/ ran' = [ran EXCEPT ![h] = @ + 1] /\ hooks' = hooks
         \/ hooks' = [hooks EXCEPT ![s] = Append(@, h)] /\ ran' = ran
  BY DEF OnDispose
<1>1. hooks' \in [Scopes -> Seq(DisposeHooks)]
  <2>1. hooks \in [Scopes -> Seq(DisposeHooks)]
    BY DEF ScopeTypes
  <2>2. hooks[s] \in Seq(DisposeHooks) /\ Append(hooks[s], h) \in Seq(DisposeHooks)
    BY <2>1, Appended
  <2> QED
    BY <1>0, <2>1, <2>2
<1>2. ScopeTypes'
  <2>1. ran' \in [DisposeHooks -> Nat]
    <3>1. ran \in [DisposeHooks -> Nat]
      BY DEF ScopeTypes
    <3> QED
      BY <1>0, <3>1
  <2> QED
    BY <1>0, <1>1, <2>1 DEF ScopeTypes, disposerVars, userVars
<1>3. Frames'
  BY <1>0 DEF Frames, Frame, disposerVars, Entered, Active
<1>4. AtWait' /\ Making' /\ Recorded'
  BY <1>0 DEF AtWait, Making, Recorded, disposerVars, userVars, busVars
<1>5. Dealt'
  BY <1>0 DEF Dealt, Pending, At, Quiet, disposerVars, busVars
<1>6. AtRest'
  BY <1>0 DEF AtRest, userVars, disposerVars, Entered
<1> QED
  BY <1>2, <1>3, <1>4, <1>5, <1>6

LEMMA SubscribeKeeps ==
  ASSUME ScopeInv, NEW u \in Subs,
         (\E s \in Scopes : SubscribeOpen(u, s)) \/ SubscribeOnBus(u) \/ SubscribeRecord(u)
  PROVE ScopeTypes' /\ Frames' /\ AtWait' /\ Making' /\ Recorded' /\ Dealt' /\ AtRest'
<1> USE DEF ScopeInv
<1>h. \A d \in Disposers : left[d] # <<>> =>
        Head(left[d]) \in Subs /\ Contains(left[d], Head(left[d]))
  BY HeadAndTail DEF ScopeTypes
<1>1. ASSUME NEW s \in Scopes, SubscribeOpen(u, s)
      PROVE ScopeTypes' /\ Frames' /\ AtWait' /\ Making' /\ Recorded' /\ Dealt' /\ AtRest'
  <2>0. /\ upc[u] = "new" /\ s \in created /\ s \notin closing /\ s \notin disposed
        /\ upc' = [upc EXCEPT ![u] = "checked"] /\ home' = [home EXCEPT ![u] = s]
        /\ UNCHANGED <<treeVars, disposerVars, historyVars, busVars>>
    BY <1>1 DEF SubscribeOpen, Closed
  <2>1. ScopeTypes'
    BY <2>0 DEF ScopeTypes, treeVars, disposerVars, historyVars
  <2>2. Frames'
    BY <2>0 DEF Frames, Frame, treeVars, disposerVars, Entered, Active
  <2>3. AtWait' /\ Recorded'
    BY <2>0 DEF AtWait, Recorded, treeVars, disposerVars, historyVars, busVars
  <2>4. Making'
    BY <2>0, ScopeAssumption DEF Making, ScopeTypes, treeVars, busVars
  <2>5. Dealt'
    BY <2>0 DEF Dealt, Pending, At, Quiet, treeVars, disposerVars, historyVars, busVars
  <2>6. AtRest'
    BY <2>0 DEF AtRest, ScopeTypes, treeVars, disposerVars, Entered
  <2> QED
    BY <2>1, <2>2, <2>3, <2>4, <2>5, <2>6
<1>2. CASE SubscribeOnBus(u)
  <2>0. /\ upc[u] = "checked" /\ stage[u] = "new"
        /\ stage' = [stage EXCEPT ![u] = "on"] /\ begun' = begun
        /\ upc' = [upc EXCEPT ![u] = "listed"] /\ home' = home
        /\ UNCHANGED <<treeVars, disposerVars, historyVars>>
    BY <1>2 DEF SubscribeOnBus, BusSubscribe
  <2>1. ScopeTypes'
    BY <2>0 DEF ScopeTypes, treeVars, disposerVars, historyVars
  <2>2. Frames'
    BY <2>0 DEF Frames, Frame, treeVars, disposerVars, Entered, Active
  <2>3. \A w \in Subs : w # u => stage'[w] = stage[w]
    BY <2>0 DEF BusInv, BusTypes
  <2>4. \A d \in Disposers : left[d] # <<>> => Head(left[d]) # u
    BY <2>0, <1>h DEF Recorded
  <2>5. AtWait'
    BY <2>0, <2>3, <2>4, <1>h DEF AtWait, Frames, Frame, disposerVars, historyVars
  <2>6. Making'
    <3>1. \A w \in Subs : w # u => upc'[w] = upc[w]
      BY <2>0 DEF ScopeTypes
    <3>2. upc'[u] = "listed" /\ stage'[u] = "on" /\ home[u] # Nothing
      BY <2>0 DEF ScopeTypes, BusInv, BusTypes, Making
    <3> QED
      BY <2>0, <2>3, <3>1, <3>2 DEF Making, treeVars
  <2>7. Recorded'
    BY <2>0, <2>3 DEF Recorded, treeVars, disposerVars, BusInv, BusTypes
  <2>8. Dealt'
    BY <2>0, <2>3 DEF Dealt, Recorded, ScopeTypes, Pending, At, Quiet, treeVars, disposerVars,
                      historyVars
  <2>9. AtRest'
    BY <2>0 DEF AtRest, treeVars, disposerVars, Entered
  <2> QED
    BY <2>1, <2>2, <2>5, <2>6, <2>7, <2>8, <2>9
<1>3. CASE SubscribeRecord(u)
  <2>0. /\ upc[u] = "listed" /\ home' = home
        /\ UNCHANGED <<created, kids, hooks, closing, disposed, rest, disposeMu, disposerVars,
                       historyVars, busVars>>
        /\ \/ upc' = [upc EXCEPT ![u] = "refused"] /\ subs' = subs
           \/ /\ home[u] \notin closing
              /\ upc' = [upc EXCEPT ![u] = "done"]
              /\ subs' = [subs EXCEPT ![home[u]] = Append(@, u)]
    BY <1>3 DEF SubscribeRecord, Closed
  <2>a. home[u] \in Scopes
    BY <2>0 DEF Making, ScopeTypes
  <2>b. subs \in [Scopes -> Seq(Subs)]
    BY DEF ScopeTypes
  <2>c. /\ subs' \in [Scopes -> Seq(Subs)]
        /\ \A s \in Scopes, w \in Subs :
             /\ Contains(subs[s], w) => Contains(subs'[s], w)
             /\ Contains(subs'[s], w) => Contains(subs[s], w) \/ (s = home[u] /\ w = u)
        /\ subs' = subs \/ Contains(subs'[home[u]], u)
    <3>1. CASE subs' = [subs EXCEPT ![home[u]] = Append(@, u)]
      <4> DEFINE s == home[u]
      <4>1. /\ subs[s] \in Seq(Subs) /\ subs'[s] = Append(subs[s], u)
            /\ \A t \in Scopes \ {s} : subs'[t] = subs[t]
        BY <3>1, <2>a, <2>b
      <4>2. /\ Append(subs[s], u) \in Seq(Subs)
            /\ \A k : Contains(Append(subs[s], u), k) <=> Contains(subs[s], k) \/ k = u
        BY <4>1, Appended
      <4>3. subs' \in [Scopes -> Seq(Subs)]
        BY <3>1, <2>b, <4>1, <4>2
      <4> QED
        BY <4>1, <4>2, <4>3
    <3>2. CASE subs' = subs
      BY <3>2, <2>b
    <3> QED
      BY <2>0, <3>1, <3>2
  <2>1. ScopeTypes'
    BY <2>0, <2>c DEF ScopeTypes, disposerVars, historyVars
  <2>2. Frames'
    BY <2>0 DEF Frames, Frame, disposerVars, Entered, Active
  <2>3. AtWait'
    BY <2>0 DEF AtWait, disposerVars, historyVars, busVars
  <2>4. Making'
    <3>1. upc'[u] = "done" => Contains(subs'[home[u]], u)
      <4>1. CASE upc' = [upc EXCEPT ![u] = "refused"]
        BY <4>1 DEF ScopeTypes
      <4>2. CASE subs' = [subs EXCEPT ![home[u]] = Append(@, u)]
        <5>1. subs[home[u]] \in Seq(Subs) /\ subs'[home[u]] = Append(subs[home[u]], u)
          BY <4>2, <2>a, <2>b
        <5> QED
          BY <5>1, Appended
      <4> QED
        BY <2>0, <4>1, <4>2
    <3>2. ASSUME NEW w \in Subs, upc[w] # "new", upc[w] # "checked" PROVE home[w] \in Scopes
      BY <3>2 DEF Making, ScopeTypes
    <3> QED
      BY <2>0, <2>c, <3>1, <3>2 DEF Making, ScopeTypes, busVars
  <2>5. Recorded'
    <3>1. stage[u] # "new"
      BY <1>3 DEF SubscribeRecord, Making, BusInv
    <3> QED
      BY <2>0, <2>c, <3>1 DEF Recorded, disposerVars, busVars
  <2>6. Dealt'
    <3>1. subs' = subs \/ home[u] \notin closing
      BY <2>0
    <3>2. \A s \in closing, w \in Subs : Contains(subs'[s], w) => Contains(subs[s], w)
      BY <2>c, <3>1 DEF ScopeTypes
    <3>3. \A s \in Scopes, w \in Subs : Pending(s, w)' = Pending(s, w) /\ Quiet(w)' = Quiet(w)
      BY <2>0 DEF Pending, At, Quiet, disposerVars, busVars
    <3> QED
      BY <2>0, <3>2, <3>3 DEF Dealt, ScopeTypes, historyVars, busVars
  <2>7. AtRest'
    BY <2>0 DEF AtRest, disposerVars, Entered
  <2> QED
    BY <2>1, <2>2, <2>3, <2>4, <2>5, <2>6, <2>7
<1> QED
  BY <1>1, <1>2, <1>3

-----------------------------------------------------------------------------
(* The calls of Dispose *)

LEMMA Innermost ==
  ASSUME ScopeTypes, Frames, NEW d \in Disposers, Active(d)
  PROVE /\ stack[d] \in Seq(Scopes) /\ stack[d] # <<>>
        /\ At(d) \in Scopes /\ At(d) \in created
        /\ Tail(stack[d]) \in Seq(Scopes)
        /\ \A y : Contains(stack[d], y) <=> y = At(d) \/ Contains(Tail(stack[d]), y)
        /\ Injective(Tail(stack[d]))
        /\ dst[d] # "lock" => disposeMu[At(d)] = d /\ ~Contains(Tail(stack[d]), At(d))
        /\ d # Nothing
<1>1. stack[d] \in Seq(Scopes) /\ stack[d] # <<>>
  BY DEF ScopeTypes, Frames, Frame, Active
<1>2. /\ At(d) \in Scopes /\ Tail(stack[d]) \in Seq(Scopes)
      /\ \A y : Contains(stack[d], y) <=> y = At(d) \/ Contains(Tail(stack[d]), y)
      /\ Injective(stack[d]) => Injective(Tail(stack[d])) /\ ~Contains(Tail(stack[d]), At(d))
  BY <1>1, HeadAndTail DEF At
<1> QED
  BY <1>1, <1>2, ScopeAssumption DEF Frames, Frame, Entered

\* The end of a call of Dispose on one scope.
LEMMA LeaveKeeps ==
  ASSUME ScopeInv, NEW d \in Disposers, LeaveScope(d), dst[d] \in {"lock", "work"}, left[d] = <<>>,
         dst[d] = "lock" => disposeMu[At(d)] = Nothing,
         UNCHANGED <<left, created>>
  PROVE /\ disposeMu' \in [Scopes -> Disposers \cup {Nothing}]
        /\ stack' \in [Disposers -> Seq(Scopes)]
        /\ dst' \in [Disposers -> {"new", "lock", "work", "close", "wait", "returned"}]
        /\ At(d) \in Scopes /\ At(d) \in created
        /\ dst[d] = "work" => At(d) \in closing
        /\ \A s \in Scopes : disposeMu'[s] # Nothing => s # At(d) /\ disposeMu[s] # Nothing
        /\ \A e \in Disposers, s \in Scopes : Contains(Entered(e)', s) => Contains(Entered(e), s)
        /\ \A s \in Scopes, u \in Subs : Pending(s, u) <=> Pending(s, u)'
        /\ \A e \in Disposers : dst'[e] \in {"close", "wait"} => dst[e] = dst'[e]
        /\ Frames'
<1> USE DEF ScopeInv
<1>1. /\ stack[d] \in Seq(Scopes) /\ stack[d] # <<>>
      /\ At(d) \in Scopes /\ At(d) \in created /\ Tail(stack[d]) \in Seq(Scopes)
      /\ \A y : Contains(stack[d], y) <=> y = At(d) \/ Contains(Tail(stack[d]), y)
      /\ Injective(Tail(stack[d]))
      /\ dst[d] # "lock" => disposeMu[At(d)] = d /\ ~Contains(Tail(stack[d]), At(d))
      /\ d # Nothing
  BY Innermost DEF Active
<1>2. /\ disposeMu' = [disposeMu EXCEPT ![At(d)] = Nothing]
      /\ stack' = [stack EXCEPT ![d] = Tail(@)]
      /\ stack'[d] = Tail(stack[d])
      /\ dst' = [dst EXCEPT ![d] = IF stack'[d] = <<>> THEN "returned" ELSE "work"]
  <2>1. disposeMu' = [disposeMu EXCEPT ![At(d)] = IF @ = d THEN Nothing ELSE @]
    BY DEF LeaveScope
  <2>2. disposeMu[At(d)] \in {d, Nothing}
    BY <1>1
  <2> QED
    BY <1>1, <2>1, <2>2 DEF LeaveScope, ScopeTypes
<1>3. /\ disposeMu' \in [Scopes -> Disposers \cup {Nothing}]
      /\ stack' \in [Disposers -> Seq(Scopes)]
      /\ dst' \in [Disposers -> {"new", "lock", "work", "close", "wait", "returned"}]
  BY <1>1, <1>2 DEF ScopeTypes
<1>4. /\ Entered(d)' = Tail(stack[d])
      /\ dst'[d] = IF stack'[d] = <<>> THEN "returned" ELSE "work"
  BY <1>2 DEF Entered, ScopeTypes
<1>5. \A e \in Disposers \ {d} : /\ stack'[e] = stack[e] /\ dst'[e] = dst[e]
                               /\ Entered(e)' = Entered(e)
  BY <1>2 DEF Entered, ScopeTypes
<1>6. \A s \in Scopes : Contains(Tail(stack[d]), s) => Contains(Entered(d), s)
  BY <1>1 DEF Entered
<1>7. \A s \in Scopes : /\ s # At(d) => disposeMu'[s] = disposeMu[s]
                       /\ disposeMu'[At(d)] = Nothing
  BY <1>1, <1>2 DEF ScopeTypes
<1>8. Frames'
  <2>1. ASSUME NEW s \in Scopes, Contains(Tail(stack[d]), s) PROVE disposeMu'[s] = d /\ s \in created
    <3>1. disposeMu[s] = d /\ s # At(d)
      BY <1>1, <1>6, <2>1 DEF Frames, Frame
    <3> QED
      BY <1>1, <1>7, <2>1, <3>1 DEF Frames, Frame
  <2>2. ASSUME NEW e \in Disposers \ {d}, NEW s \in Scopes, Contains(Entered(e), s)
        PROVE disposeMu'[s] = e
    <3>1. disposeMu[s] = e /\ s # At(d)
      BY <1>1, <2>2, ScopeAssumption DEF Frames, Frame
    <3> QED
      BY <1>7, <3>1
  <2>3. Frame(d)'
    BY <1>1, <1>2, <1>4, <2>1 DEF Frame
  <2>4. ASSUME NEW e \in Disposers \ {d} PROVE Frame(e)'
    BY <1>5, <2>2 DEF Frames, Frame
  <2> QED
    BY <2>3, <2>4 DEF Frames
<1>9. dst[d] = "work" => At(d) \in closing
  BY <1>1 DEF AtRest, Entered
<1>10. \A s \in Scopes, u \in Subs : Pending(s, u) <=> Pending(s, u)'
  BY <1>5 DEF Pending, At
<1> QED
  BY <1>1, <1>3, <1>4, <1>5, <1>6, <1>7, <1>8, <1>9, <1>10

LEMMA CallKeeps ==
  ASSUME ScopeInv, NEW d \in Disposers, ContextEnds(d) \/ \E s \in Scopes : Dispose(d, s)
  PROVE ScopeTypes' /\ Frames' /\ AtWait' /\ Making' /\ Recorded' /\ Dealt' /\ AtRest'
<1> USE DEF ScopeInv
<1>1. CASE ContextEnds(d)
  <2>0. /\ d \in Limited /\ ctxDone' = ctxDone \cup {d}
        /\ UNCHANGED <<treeVars, stack, dst, left, userVars, historyVars, busVars>>
    BY <1>1 DEF ContextEnds
  <2>1. ScopeTypes'
    BY <2>0 DEF ScopeTypes, treeVars, userVars, historyVars
  <2>2. Frames'
    BY <2>0 DEF Frames, Frame, Entered, treeVars
  <2>3. AtWait' /\ Making' /\ Recorded'
    BY <2>0 DEF AtWait, Making, Recorded, treeVars, userVars, historyVars, busVars
  <2>4. Dealt'
    BY <2>0 DEF Dealt, Pending, At, Quiet, treeVars, historyVars, busVars
  <2>5. AtRest'
    BY <2>0 DEF AtRest, treeVars, userVars, Entered
  <2> QED
    BY <2>1, <2>2, <2>3, <2>4, <2>5
<1>2. ASSUME NEW s \in Scopes, Dispose(d, s)
      PROVE ScopeTypes' /\ Frames' /\ AtWait' /\ Making' /\ Recorded' /\ Dealt' /\ AtRest'
  <2>0. /\ dst[d] = "new" /\ s \in created
        /\ stack' = [stack EXCEPT ![d] = <<s>>] /\ dst' = [dst EXCEPT ![d] = "lock"]
        /\ UNCHANGED <<treeVars, left, ctxDone, userVars, historyVars, busVars>>
    BY <1>2 DEF Dispose
  <2>1. ScopeTypes'
    BY <2>0 DEF ScopeTypes, treeVars, userVars, historyVars
  <2> DEFINE one == <<s>>
  <2>3. /\ one \in Seq(Scopes) /\ one # <<>>
        /\ Tail(one) \in Seq(Scopes) /\ \A y : ~Contains(Tail(one), y)
        /\ Injective(Tail(one)) /\ \A y : Contains(one, y) => y = s
    <3>1. one \in Seq(Scopes) /\ one # <<>> /\ Len(one) = 1 /\ one[1] = s
      OBVIOUS
    <3> HIDE DEF one
    <3>2. Tail(one) \in Seq(Scopes) /\ Len(Tail(one)) = 0
      BY <3>1, HeadTailProperties
    <3>3. \A i : i \notin 1..0 /\ (i \in 1..1 => i = 1)
      OBVIOUS
    <3>4. \A y : ~Contains(Tail(one), y)
      BY <3>2, <3>3 DEF Contains
    <3>5. Injective(Tail(one))
      BY <3>2, <3>3 DEF Injective
    <3>6. \A y : Contains(one, y) => y = s
      BY <3>1, <3>3 DEF Contains
    <3> QED
      BY <3>1, <3>2, <3>4, <3>5, <3>6
  <2>2. /\ left[d] = <<>> /\ stack'[d] = one /\ dst'[d] = "lock"
        /\ \A e \in Disposers \ {d} : stack'[e] = stack[e] /\ dst'[e] = dst[e]
    <3>1. left[d] = <<>>
      BY <2>0 DEF Frames, Frame
    <3> QED
      BY <2>0, <3>1 DEF ScopeTypes
  <2> HIDE DEF one
  <2>e. Entered(d)' = Tail(one) /\ \A e \in Disposers \ {d} : Entered(e)' = Entered(e)
    BY <2>2 DEF Entered
  <2>4. Frames'
    <3>1. Frame(d)'
      <4>1. created' = created /\ disposeMu' = disposeMu /\ left'[d] = <<>>
        BY <2>0, <2>2 DEF treeVars
      <4>2. Injective(Entered(d)')
        BY <2>e, <2>3
      <4>3. \A t \in Scopes : ~Contains(Entered(d)', t) /\ (Contains(stack'[d], t) => t \in created')
        BY <2>0, <2>2, <2>e, <2>3, <4>1
      <4> QED
        BY <2>2, <2>3, <4>1, <4>2, <4>3 DEF Frame
    <3>2. ASSUME NEW e \in Disposers \ {d} PROVE Frame(e)'
      BY <2>0, <2>2, <2>e DEF Frames, Frame, treeVars
    <3> QED
      BY <3>1, <3>2 DEF Frames
  <2>5. AtWait' /\ Making' /\ Recorded'
    BY <2>0, <2>2 DEF AtWait, Making, Recorded, treeVars, userVars, historyVars, busVars
  <2>6. Dealt'
    BY <2>0, <2>2 DEF Dealt, Pending, At, Quiet, treeVars, historyVars, busVars
  <2>7. AtRest'
    <3>1. \A e \in Disposers, t \in Scopes : Contains(Entered(e)', t) => Contains(Entered(e), t)
      BY <2>e, <2>3
    <3> QED
      BY <2>0, <3>1 DEF AtRest, treeVars, userVars
  <2> QED
    BY <2>1, <2>4, <2>5, <2>6, <2>7
<1> QED
  BY <1>1, <1>2

LEMMA EnterKeeps ==
  ASSUME ScopeInv, NEW d \in Disposers, EnterScope(d)
  PROVE ScopeTypes' /\ Frames' /\ AtWait' /\ Making' /\ Recorded' /\ Dealt' /\ AtRest'
<1> USE DEF ScopeInv
<1> DEFINE s == At(d)
<1>0. /\ dst[d] = "lock" /\ disposeMu[s] = Nothing
      /\ UNCHANGED <<created, kids, subs, hooks, disposed, ctxDone, userVars, historyVars, busVars>>
  BY DEF EnterScope
<1>1. left[d] = <<>> /\ s \in Scopes /\ s \in created /\ d # Nothing
  BY <1>0, Innermost DEF Frames, Frame, Active
<1>2. CASE s \in disposed
  <2>1. LeaveScope(d) /\ UNCHANGED <<closing, rest, left>>
    BY <1>2 DEF EnterScope
  <2>2. /\ disposeMu' \in [Scopes -> Disposers \cup {Nothing}]
        /\ stack' \in [Disposers -> Seq(Scopes)]
        /\ dst' \in [Disposers -> {"new", "lock", "work", "close", "wait", "returned"}]
        /\ \A t \in Scopes : disposeMu'[t] # Nothing => t # s /\ disposeMu[t] # Nothing
        /\ \A e \in Disposers, t \in Scopes : Contains(Entered(e)', t) => Contains(Entered(e), t)
        /\ \A t \in Scopes, u \in Subs : Pending(t, u) <=> Pending(t, u)'
        /\ \A e \in Disposers : dst'[e] \in {"close", "wait"} => dst[e] = dst'[e]
        /\ Frames'
    BY <1>0, <1>1, <2>1, LeaveKeeps
  <2>3. ScopeTypes'
    BY <1>0, <2>1, <2>2 DEF ScopeTypes, userVars, historyVars
  <2>4. AtWait' /\ Making' /\ Recorded'
    BY <1>0, <2>1, <2>2 DEF AtWait, Making, Recorded, userVars, historyVars, busVars
  <2>5. Dealt'
    BY <1>0, <2>1, <2>2 DEF Dealt, ScopeTypes, Quiet, historyVars, busVars
  <2>6. AtRest'
    BY <1>0, <2>1, <2>2 DEF AtRest, userVars
  <2> QED
    BY <2>2, <2>3, <2>4, <2>5, <2>6
<1>3. CASE s \notin disposed
  <2>1. /\ disposeMu' = [disposeMu EXCEPT ![s] = d] /\ dst' = [dst EXCEPT ![d] = "work"]
        /\ closing' = closing \cup {s} /\ stack' = stack
        /\ \/ s \in closing /\ rest' = rest /\ left' = left
           \/ /\ s \notin closing
              /\ rest' = [rest EXCEPT ![s] = [kids |-> Reverse(kids[s]), hooks |-> Reverse(hooks[s])]]
              /\ left' = [left EXCEPT ![d] = subs[s]]
    BY <1>3 DEF EnterScope, Started
  <2>2. /\ Reverse(kids[s]) \in Seq(Scopes) /\ Reverse(hooks[s]) \in Seq(DisposeHooks)
        /\ subs[s] \in Seq(Subs)
        /\ \A c \in Scopes : Contains(Reverse(kids[s]), c) => Contains(kids[s], c)
    <3>1. kids[s] \in Seq(Scopes) /\ hooks[s] \in Seq(DisposeHooks) /\ subs[s] \in Seq(Subs)
      BY <1>1 DEF ScopeTypes
    <3> QED
      BY <3>1, Reversed
  <2>t. ScopeTypes'
    <3> HIDE DEF s
    <3>1. rest' \in [Scopes -> [kids : Seq(Scopes), hooks : Seq(DisposeHooks)]]
      <4>1. rest \in [Scopes -> [kids : Seq(Scopes), hooks : Seq(DisposeHooks)]]
        BY DEF ScopeTypes
      <4>2. [kids |-> Reverse(kids[s]), hooks |-> Reverse(hooks[s])]
            \in [kids : Seq(Scopes), hooks : Seq(DisposeHooks)]
        BY <2>2
      <4> QED
        BY <1>1, <2>1, <4>1, <4>2
    <3>2. left' \in [Disposers -> Seq(Subs)]
      BY <1>1, <2>1, <2>2 DEF ScopeTypes
    <3> QED
      BY <1>0, <1>1, <2>1, <3>1, <3>2 DEF ScopeTypes, userVars, historyVars
  <2>3. /\ \A e \in Disposers \ {d} : /\ left'[e] = left[e] /\ dst'[e] = dst[e]
                                    /\ Entered(e)' = Entered(e)
        /\ dst'[d] = "work" /\ Entered(d)' = stack[d]
        /\ left'[d] \in {<<>>, subs[s]}
        /\ disposeMu'[s] = d /\ \A t \in Scopes : t # s => disposeMu'[t] = disposeMu[t]
    <3> HIDE DEF s
    <3> QED
      BY <1>1, <2>1 DEF ScopeTypes, Entered
  <2>4. /\ Entered(d) = Tail(stack[d])
        /\ stack[d] # <<>> /\ stack[d] \in Seq(Scopes)
        /\ \A y : Contains(stack[d], y) <=> y = s \/ Contains(Tail(stack[d]), y)
    BY <1>0, Innermost DEF Entered, Active
  <2>5. \A e \in Disposers, t \in Scopes : Contains(Entered(e), t) => disposeMu[t] = e /\ t # s
    BY <1>0, ScopeAssumption DEF Frames, Frame
  <2>6. Frames'
    <3>1. ASSUME NEW e \in Disposers \ {d} PROVE Frame(e)'
      BY <1>0, <2>1, <2>3, <2>5, <3>1 DEF Frames, Frame
    <3>2. Injective(stack[d])
      <4>1. stack[d][1] = s /\ ~Contains(Tail(stack[d]), s) /\ Injective(Tail(stack[d]))
        <5>1. stack[d][1] = s
          BY <2>4, HeadTailProperties DEF At
        <5>2. ~Contains(Tail(stack[d]), s)
          BY <1>1, <2>4, <2>5
        <5>3. Injective(Tail(stack[d]))
          BY <2>4 DEF Frames, Frame
        <5> QED
          BY <5>1, <5>2, <5>3
      <4>2. /\ Tail(stack[d]) \in Seq(Scopes) /\ Len(stack[d]) \in Nat
            /\ Len(Tail(stack[d])) = Len(stack[d]) - 1
            /\ \A i \in 1..Len(Tail(stack[d])) : Tail(stack[d])[i] = stack[d][i + 1]
        BY <2>4, HeadTailProperties, LenProperties
      <4>3. \A i \in 1..Len(stack[d]) : i # 1 => /\ i - 1 \in 1..Len(Tail(stack[d]))
                                               /\ stack[d][i] = Tail(stack[d])[i - 1]
        <5> TAKE i \in 1..Len(stack[d])
        <5> HAVE i # 1
        <5>1. i - 1 \in 1..Len(Tail(stack[d])) /\ (i - 1) + 1 = i
          BY <4>2
        <5> QED
          BY <4>2, <5>1
      <4>4. ASSUME NEW i \in 1..Len(stack[d]), NEW j \in 1..Len(stack[d]), stack[d][i] = stack[d][j]
            PROVE i = j
        <5>1. CASE i # 1 /\ j # 1
          <6>1. i - 1 = j - 1
            BY <4>1, <4>3, <4>4, <5>1 DEF Injective
          <6> QED
            BY <6>1
        <5>2. CASE i = 1 \/ j = 1
          BY <4>1, <4>3, <4>4, <5>2 DEF Contains
        <5> QED
          BY <5>1, <5>2
      <4> QED
        BY <4>4 DEF Injective
    <3>3. \A t \in Scopes : Contains(stack[d], t) => disposeMu'[t] = d /\ t \in created'
      <4> TAKE t \in Scopes
      <4> HAVE Contains(stack[d], t)
      <4>1. t \in created
        BY DEF Frames, Frame
      <4>2. CASE t = s
        BY <1>0, <2>3, <4>1, <4>2
      <4>3. CASE t # s
        <5>1. Contains(Entered(d), t)
          BY <2>4, <4>3
        <5> QED
          BY <1>0, <2>3, <2>5, <4>1, <4>3, <5>1
      <4> QED
        BY <4>2, <4>3
    <3>4. Frame(d)'
      BY <2>1, <2>3, <2>4, <3>2, <3>3 DEF Frame
    <3> QED
      BY <3>1, <3>4 DEF Frames
  <2>7. AtWait'
    BY <1>0, <2>3 DEF AtWait, historyVars, busVars
  <2>8. Making'
    BY <1>0 DEF Making, userVars, busVars
  <2>9. Recorded'
    <3>1. \A u \in Subs : Contains(left'[d], u) => stage[u] # "new"
      BY <1>1, <2>3, EmptyContains DEF Recorded
    <3> QED
      BY <1>0, <2>3, <3>1 DEF Recorded, busVars
  <2>10. Dealt'
    <3>1. \A t \in Scopes, u \in Subs : Pending(t, u) => Pending(t, u)'
      BY <1>1, <2>1, <2>3 DEF Pending, At
    <3>2. s \notin closing => \A u \in Subs : Contains(subs[s], u) => Pending(s, u)'
      <4> SUFFICES ASSUME s \notin closing, NEW u \in Subs, Contains(subs[s], u)
                   PROVE Pending(s, u)'
        OBVIOUS
      <4>1. left'[d] = subs[s] /\ subs[s] # <<>>
        BY <1>1, <2>1, EmptyContains DEF ScopeTypes
      <4>2. At(d)' = s
        BY <2>1 DEF At
      <4> QED
        BY <4>1, <4>2 DEF Pending
    <3>3. \A u \in Subs : Quiet(u) = Quiet(u)' /\ stage'[u] = stage[u]
      BY <1>0 DEF Quiet, busVars
    <3>4. ASSUME NEW t \in closing', NEW u \in Subs, Contains(subs[t], u)
          PROVE Pending(t, u)' \/ (stage[u] # "on" /\ (u \in hurried \cup early \/ Quiet(u)))
      <4>1. CASE t \in closing
        <5>1. t \in Scopes
          BY <4>1 DEF ScopeTypes
        <5>2. Pending(t, u) \/ (stage[u] # "on" /\ (u \in hurried \cup early \/ Quiet(u)))
          BY <3>4, <4>1 DEF Dealt
        <5>3. CASE Pending(t, u)
          BY <3>1, <5>1, <5>3
        <5> QED
          BY <5>2, <5>3
      <4>2. CASE t \notin closing
        <5>1. t = s
          BY <2>1, <3>4, <4>2
        <5>2. Pending(s, u)'
          BY <3>2, <3>4, <4>2, <5>1
        <5>3. s' = s
          BY <2>1 DEF At
        <5> QED
          BY <5>1, <5>2, <5>3 DEF Pending
      <4> QED
        BY <4>1, <4>2
    <3> QED
      BY <1>0, <3>3, <3>4 DEF Dealt, historyVars
  <2>11. AtRest'
    <3>1. \A t \in Scopes : disposeMu'[t] # Nothing => t \in closing' \ disposed'
      <4> HIDE DEF s
      <4> QED
        BY <1>0, <1>3, <2>1, <2>3 DEF AtRest
    <3>2. \A e \in Disposers, t \in Scopes : Contains(Entered(e)', t) => t \in closing'
      <4>1. \A e \in Disposers, t \in Scopes : Contains(Entered(e)', t) => Contains(Entered(e), t) \/ t = s
        BY <2>3, <2>4
      <4> HIDE DEF s
      <4> QED
        BY <2>1, <4>1 DEF AtRest
    <3>3. \A t, c \in Scopes : Contains(kids'[t], c) \/ Contains(rest'[t].kids, c) => c \in created'
      <4> HIDE DEF s
      <4>1. \A t \in Scopes : rest'[t].kids \in {rest[t].kids, Reverse(kids[t])} /\ (t # s => rest'[t] = rest[t])
        BY <1>1, <2>1 DEF ScopeTypes
      <4> QED
        BY <1>0, <2>2, <4>1 DEF AtRest
    <3> QED
      BY <1>0, <1>1, <2>1, <3>1, <3>2, <3>3 DEF AtRest, userVars
  <2> QED
    BY <2>t, <2>6, <2>7, <2>8, <2>9, <2>10, <2>11
<1> QED
  BY <1>2, <1>3

LEMMA DisposeSubKeeps ==
  ASSUME ScopeInv, NEW d \in Disposers, DisposeSub(d), BusInv', Advance
  PROVE ScopeTypes' /\ Frames' /\ AtWait' /\ Making' /\ Recorded' /\ Dealt' /\ AtRest'
<1> USE DEF ScopeInv
<1>0. /\ dst[d] = "work" /\ left[d] # <<>>
      /\ UNCHANGED <<treeVars, stack, left, ctxDone, userVars, ran, cut, hurried>>
  BY DEF DisposeSub
<1>1. PICK u \in Subs : u = Head(left[d])
  BY <1>0, HeadAndTail DEF ScopeTypes
<1>2. /\ dst'[d] \in {"close", "wait"} /\ dst' = [dst EXCEPT ![d] = dst'[d]]
      /\ early \subseteq early' /\ early' \subseteq early \cup {u}
      /\ dst'[d] = "close" => stage'[u] = "off"
      /\ dst'[d] = "wait" => stage'[u] = "closed" \/ (stage'[u] = "off" /\ u \in early')
  <2>1. stage[u] # "new"
    <3>1. Contains(left[d], u)
      BY <1>0, <1>1, HeadAndTail DEF ScopeTypes
    <3> QED
      BY <3>1 DEF Recorded
  <2>2. CASE stage[u] = "on"
    BY <1>1, <2>2 DEF DisposeSub, Unlist, ScopeTypes, BusInv, BusTypes
  <2>3. CASE stage[u] # "on"
    BY <1>1, <2>1, <2>3 DEF DisposeSub, ScopeTypes, BusInv, BusTypes, busVars
  <2> QED
    BY <2>2, <2>3
<1>3. ScopeTypes'
  BY <1>0, <1>1, <1>2 DEF ScopeTypes, treeVars, userVars
<1>4. /\ \A e \in Disposers \ {d} : dst'[e] = dst[e]
      /\ \A e \in Disposers : Entered(e)' = Entered(e)
  BY <1>0, <1>2 DEF Entered, ScopeTypes
<1>5. Frames'
  <2>1. ASSUME NEW e \in Disposers \ {d} PROVE Frame(e)'
    BY <1>0, <1>4 DEF Frames, Frame, treeVars
  <2>2. Frame(d)'
    BY <1>0, <1>2, <1>4 DEF Frames, Frame, treeVars
  <2> QED
    BY <2>1, <2>2 DEF Frames
<1>6. AtWait'
  <2>1. \A e \in Disposers : left[e] # <<>> => Head(left[e]) \in Subs
    BY HeadAndTail DEF ScopeTypes
  <2>2. ASSUME NEW e \in Disposers \ {d}
        PROVE /\ dst'[e] = "close" => stage'[Head(left[e])] \in {"off", "closed"}
              /\ dst'[e] = "wait" => \/ stage'[Head(left[e])] = "closed"
                                     \/ stage'[Head(left[e])] = "off" /\ Head(left[e]) \in early'
    BY <1>2, <1>4, <2>1 DEF AtWait, Frames, Frame, Advance
  <2> QED
    BY <1>0, <1>1, <1>2, <2>2 DEF AtWait
<1>7. Making'
  BY <1>0 DEF Making, Advance, treeVars, userVars
<1>8. Recorded'
  BY <1>0 DEF Recorded, Advance, treeVars
<1>9. Dealt'
  <2>1. ASSUME NEW w \in Subs, stage[w] # "on" PROVE stage'[w] # "on"
    BY <2>1 DEF Advance, BusInv, BusTypes
  <2> QED
    BY <1>0, <1>2, <2>1 DEF Dealt, Pending, At, Advance, treeVars
<1>10. AtRest'
  BY <1>0, <1>4 DEF AtRest, treeVars, userVars
<1> QED
  BY <1>3, <1>5, <1>6, <1>7, <1>8, <1>9, <1>10

LEMMA WaitSubKeeps ==
  ASSUME ScopeInv, NEW d \in Disposers, WaitSub(d)
  PROVE ScopeTypes' /\ Frames' /\ AtWait' /\ Making' /\ Recorded' /\ Dealt' /\ AtRest'
<1> USE DEF ScopeInv
<1>0. /\ left[d] # <<>> /\ dst[d] \in {"wait", "close"}
      /\ left' = [left EXCEPT ![d] = Tail(@)] /\ dst' = [dst EXCEPT ![d] = "work"]
      /\ UNCHANGED <<treeVars, stack, ctxDone, userVars, ran, cut, early, busVars>>
  BY DEF WaitSub
<1>1. PICK u \in Subs : u = Head(left[d])
  BY <1>0, HeadAndTail DEF ScopeTypes
<1>2. /\ Tail(left[d]) \in Seq(Subs)
      /\ \A w : Contains(left[d], w) <=> w = u \/ Contains(Tail(left[d]), w)
  BY <1>0, <1>1, HeadAndTail DEF ScopeTypes
<1>3. /\ hurried \subseteq hurried' /\ hurried' \subseteq hurried \cup {u}
      /\ stage[u] # "on" /\ (u \in hurried' \cup early \/ Quiet(u))
  <2>1. stage[u] = "closed" \/ (stage[u] = "off" /\ u \in early)
    BY <1>0, <1>1 DEF WaitSub, AtWait
  <2>2. hurried' = IF begun[u] = 0 THEN hurried ELSE hurried \cup {u}
    BY <1>1 DEF WaitSub
  <2> QED
    BY <2>1, <2>2 DEF Quiet
<1>4. ScopeTypes'
  BY <1>0, <1>1, <1>2, <1>3 DEF ScopeTypes, treeVars, userVars
<1>5. /\ \A e \in Disposers \ {d} : dst'[e] = dst[e] /\ left'[e] = left[e]
      /\ left'[d] = Tail(left[d]) /\ dst'[d] = "work"
      /\ \A e \in Disposers : Entered(e)' = Entered(e)
  BY <1>0 DEF Entered, ScopeTypes
<1>6. Frames'
  <2>1. ASSUME NEW e \in Disposers \ {d} PROVE Frame(e)'
    BY <1>0, <1>5 DEF Frames, Frame, treeVars
  <2>2. Frame(d)'
    BY <1>0, <1>5 DEF Frames, Frame, treeVars
  <2> QED
    BY <2>1, <2>2 DEF Frames
<1>7. AtWait'
  BY <1>0, <1>5 DEF AtWait, busVars
<1>8. Making'
  BY <1>0 DEF Making, treeVars, userVars, busVars
<1>9. Recorded'
  BY <1>0, <1>2, <1>5 DEF Recorded, treeVars, busVars
<1>10. Dealt'
  <2>1. \A s \in Scopes, w \in Subs : w # u /\ Pending(s, w) => Pending(s, w)'
    <3> SUFFICES ASSUME NEW s \in Scopes, NEW w \in Subs, w # u,
                        NEW e \in Disposers, left[e] # <<>>, At(e) = s, Contains(left[e], w)
                 PROVE Pending(s, w)'
      BY DEF Pending
    <3>1. Contains(left'[e], w)
      BY <1>2, <1>5
    <3>2. left'[e] # <<>> /\ At(e)' = s
      BY <1>0, <3>1, EmptyContains DEF At
    <3> QED
      BY <3>1, <3>2 DEF Pending
  <2>2. \A w \in Subs : Quiet(w)' = Quiet(w) /\ stage' = stage
    BY <1>0 DEF Quiet, busVars
  <2>3. ASSUME NEW s \in closing, NEW w \in Subs, Contains(subs[s], w)
        PROVE \/ Pending(s, w)'
              \/ stage'[w] # "on" /\ (w \in hurried' \cup early' \/ Quiet(w)')
    <3>1. Pending(s, w) \/ (stage[w] # "on" /\ (w \in hurried \cup early \/ Quiet(w)))
      BY <2>3 DEF Dealt
    <3>2. CASE w = u
      BY <1>0, <1>3, <2>2, <3>2
    <3>3. CASE w # u /\ Pending(s, w)
      BY <2>1, <3>3 DEF ScopeTypes
    <3>4. CASE stage[w] # "on" /\ (w \in hurried \cup early \/ Quiet(w))
      BY <1>0, <1>3, <2>2, <3>4
    <3> QED
      BY <3>1, <3>2, <3>3, <3>4
  <2> QED
    BY <1>0, <2>3 DEF Dealt, treeVars
<1>11. AtRest'
  BY <1>0, <1>5 DEF AtRest, treeVars, userVars
<1> QED
  BY <1>4, <1>6, <1>7, <1>8, <1>9, <1>10, <1>11

LEMMA DisposeChildKeeps ==
  ASSUME ScopeInv, NEW d \in Disposers, DisposeChild(d)
  PROVE ScopeTypes' /\ Frames' /\ AtWait' /\ Making' /\ Recorded' /\ Dealt' /\ AtRest'
<1> USE DEF ScopeInv
<1> DEFINE s == At(d)
           c == Head(rest[s].kids)
<1>0. /\ dst[d] = "work" /\ left[d] = <<>> /\ rest[s].kids # <<>>
      /\ stack' = [stack EXCEPT ![d] = <<c>> \o @] /\ dst' = [dst EXCEPT ![d] = "lock"]
      /\ rest' = [rest EXCEPT ![s].kids = Tail(@)]
      /\ UNCHANGED <<created, kids, subs, hooks, closing, disposed, disposeMu, left, ctxDone,
                     userVars, historyVars, busVars>>
  BY DEF DisposeChild, InLoops
<1>1. s \in Scopes /\ stack[d] \in Seq(Scopes) /\ stack[d] # <<>>
  BY <1>0, Innermost DEF Active
<1> HIDE DEF s
<1>2. /\ c \in Scopes /\ Tail(rest[s].kids) \in Seq(Scopes)
      /\ \A k : Contains(rest[s].kids, k) <=> k = c \/ Contains(Tail(rest[s].kids), k)
  <2>1. rest[s].kids \in Seq(Scopes)
    BY <1>1 DEF ScopeTypes
  <2> QED
    BY <1>0, <2>1, HeadAndTail
<1> HIDE DEF c
<1> DEFINE deeper == <<c>> \o stack[d]
<1>3. /\ deeper \in Seq(Scopes) /\ deeper # <<>> /\ Tail(deeper) = stack[d]
      /\ \A y : Contains(deeper, y) <=> y = c \/ Contains(stack[d], y)
  <2>1. <<c>> \in Seq(Scopes) /\ Len(<<c>>) = 1 /\ <<c>>[1] = c
    BY <1>2
  <2>2. /\ deeper \in Seq(Scopes) /\ Len(deeper) = 1 + Len(stack[d]) /\ Len(stack[d]) \in Nat
        /\ deeper[1] = c /\ \A i \in 1..Len(stack[d]) : deeper[i + 1] = stack[d][i]
    BY <1>1, <2>1, ConcatProperties, LenProperties
  <2> HIDE DEF deeper
  <2>3. deeper # <<>> /\ Head(deeper) = c
    BY <2>2, HeadTailProperties, EmptySeq
  <2>4. /\ Tail(deeper) \in Seq(Scopes) /\ Len(Tail(deeper)) = Len(stack[d])
        /\ \A i \in 1..Len(stack[d]) : Tail(deeper)[i] = stack[d][i]
    BY <2>2, <2>3, HeadTailProperties
  <2>5. Tail(deeper) = stack[d]
    BY <1>1, <2>4, SeqEqual
  <2>6. \A y : Contains(deeper, y) <=> y = Head(deeper) \/ Contains(Tail(deeper), y)
    BY <2>2, <2>3, HeadAndTail
  <2> QED
    BY <2>2, <2>3, <2>5, <2>6
<1>4. stack' = [stack EXCEPT ![d] = deeper] /\ stack'[d] = deeper
  BY <1>0 DEF ScopeTypes
<1> HIDE DEF deeper
<1>5. ScopeTypes'
  <2>1. rest' \in [Scopes -> [kids : Seq(Scopes), hooks : Seq(DisposeHooks)]]
    BY <1>0, <1>1, <1>2 DEF ScopeTypes
  <2> QED
    BY <1>0, <1>3, <1>4, <2>1 DEF ScopeTypes, userVars, historyVars
<1>6. /\ \A e \in Disposers \ {d} : stack'[e] = stack[e] /\ dst'[e] = dst[e]
      /\ dst'[d] = "lock"
      /\ \A e \in Disposers : Entered(e)' = Entered(e)
  BY <1>0, <1>3, <1>4 DEF Entered, ScopeTypes
<1>c. c \in created
  BY <1>1, <1>2 DEF AtRest
<1>7. Frames'
  <2>1. ASSUME NEW e \in Disposers \ {d} PROVE Frame(e)'
    BY <1>0, <1>6 DEF Frames, Frame
  <2>2. Frame(d)'
    BY <1>0, <1>3, <1>4, <1>6, <1>c DEF Frames, Frame
  <2> QED
    BY <2>1, <2>2 DEF Frames
<1>8. AtWait' /\ Making' /\ Recorded'
  BY <1>0, <1>6 DEF AtWait, Making, Recorded, userVars, historyVars, busVars
<1>9. Dealt'
  BY <1>0, <1>6 DEF Dealt, Pending, At, Quiet, historyVars, busVars
<1>10. AtRest'
  <2>1. \A t, k \in Scopes : Contains(rest'[t].kids, k) => Contains(rest[t].kids, k)
    BY <1>0, <1>1, <1>2 DEF ScopeTypes
  <2> QED
    BY <1>0, <1>6, <2>1 DEF AtRest, userVars
<1> QED
  BY <1>5, <1>7, <1>8, <1>9, <1>10

LEMMA RunHookKeeps ==
  ASSUME ScopeInv, NEW d \in Disposers, RunHook(d)
  PROVE ScopeTypes' /\ Frames' /\ AtWait' /\ Making' /\ Recorded' /\ Dealt' /\ AtRest'
<1> USE DEF ScopeInv
<1> DEFINE s == At(d)
           h == Head(rest[s].hooks)
<1>0. /\ dst[d] = "work" /\ rest[s].hooks # <<>>
      /\ ran' = [ran EXCEPT ![h] = @ + 1]
      /\ rest' = [rest EXCEPT ![s].hooks = Tail(@)]
      /\ UNCHANGED <<created, kids, subs, hooks, closing, disposed, disposeMu, disposerVars, userVars,
                     cut, hurried, early, busVars>>
  BY DEF RunHook, InLoops
<1>1. s \in Scopes
  BY <1>0, Innermost DEF Active
<1> HIDE DEF s
<1>2. h \in DisposeHooks /\ Tail(rest[s].hooks) \in Seq(DisposeHooks)
  <2>1. rest[s].hooks \in Seq(DisposeHooks)
    BY <1>1 DEF ScopeTypes
  <2> QED
    BY <1>0, <2>1, HeadAndTail
<1> HIDE DEF h
<1>3. ScopeTypes'
  <2>1. rest' \in [Scopes -> [kids : Seq(Scopes), hooks : Seq(DisposeHooks)]]
    BY <1>0, <1>1, <1>2 DEF ScopeTypes
  <2>2. ran' \in [DisposeHooks -> Nat]
    BY <1>0, <1>2 DEF ScopeTypes
  <2> QED
    BY <1>0, <2>1, <2>2 DEF ScopeTypes, disposerVars, userVars
<1>4. Frames'
  BY <1>0 DEF Frames, Frame, Entered, disposerVars
<1>5. AtWait' /\ Making' /\ Recorded'
  BY <1>0 DEF AtWait, Making, Recorded, disposerVars, userVars, busVars
<1>6. Dealt'
  BY <1>0 DEF Dealt, Pending, At, Quiet, disposerVars, busVars
<1>7. AtRest'
  <2>1. \A t \in Scopes : rest'[t].kids = rest[t].kids
    BY <1>0, <1>1 DEF ScopeTypes
  <2> QED
    BY <1>0, <2>1 DEF AtRest, disposerVars, userVars, Entered
<1> QED
  BY <1>3, <1>4, <1>5, <1>6, <1>7

LEMMA EndKeeps ==
  ASSUME ScopeInv, NEW d \in Disposers, DisposeCancelled(d) \/ DisposeDone(d)
  PROVE ScopeTypes' /\ Frames' /\ AtWait' /\ Making' /\ Recorded' /\ Dealt' /\ AtRest'
<1> USE DEF ScopeInv
<1> DEFINE s == At(d)
<1>0. /\ dst[d] = "work" /\ left[d] = <<>> /\ LeaveScope(d)
      /\ UNCHANGED <<created, kids, subs, hooks, closing, rest, left, ctxDone, userVars,
                     ran, hurried, early, busVars>>
      /\ disposed' \subseteq disposed \cup {s} /\ disposed \subseteq disposed'
      /\ cut' \subseteq cut \cup {s}
  BY DEF DisposeCancelled, DisposeDone, InLoops, historyVars
<1>1. /\ disposeMu' \in [Scopes -> Disposers \cup {Nothing}]
      /\ stack' \in [Disposers -> Seq(Scopes)]
      /\ dst' \in [Disposers -> {"new", "lock", "work", "close", "wait", "returned"}]
      /\ s \in Scopes /\ s \in created /\ s \in closing
      /\ \A t \in Scopes : disposeMu'[t] # Nothing => t # s /\ disposeMu[t] # Nothing
      /\ \A e \in Disposers, t \in Scopes : Contains(Entered(e)', t) => Contains(Entered(e), t)
      /\ \A t \in Scopes, u \in Subs : Pending(t, u) <=> Pending(t, u)'
      /\ \A e \in Disposers : dst'[e] \in {"close", "wait"} => dst[e] = dst'[e]
      /\ Frames'
  BY <1>0, LeaveKeeps
<1> HIDE DEF s
<1>2. ScopeTypes'
  BY <1>0, <1>1 DEF ScopeTypes, userVars
<1>3. AtWait' /\ Making' /\ Recorded'
  BY <1>0, <1>1 DEF AtWait, Making, Recorded, userVars, busVars
<1>4. Dealt'
  BY <1>0, <1>1 DEF Dealt, ScopeTypes, Quiet, busVars
<1>5. AtRest'
  BY <1>0, <1>1 DEF AtRest, userVars
<1> QED
  BY <1>1, <1>2, <1>3, <1>4, <1>5

-----------------------------------------------------------------------------
(* The invariant *)

LEMMA ScopeInvInit == BusInit /\ ScopeInit => ScopeInv
<1> SUFFICES ASSUME BusInit, ScopeInit PROVE ScopeInv
  OBVIOUS
<1>1. BusInv
  BY BusInvInit
<1>2. <<>> \in Seq(Scopes) /\ <<>> \in Seq(Subs) /\ <<>> \in Seq(DisposeHooks)
      /\ \A y : ~Contains(<<>>, y)
      /\ Injective(<<>>)
  BY EmptyContains DEF Injective
<1>3. ScopeTypes
  BY <1>2, ScopeAssumption DEF ScopeInit, ScopeTypes
<1>4. \A d \in Disposers : Entered(d) = <<>>
  BY DEF ScopeInit, Entered
<1>5. Frames
  BY <1>2, <1>4 DEF ScopeInit, Frames, Frame
<1>6. AtWait /\ Recorded /\ Dealt
  BY <1>2 DEF ScopeInit, AtWait, Recorded, Dealt
<1>7. Making
  BY DEF ScopeInit, BusInit, Making
<1>8. AtRest
  BY <1>2, <1>4, ScopeAssumption DEF ScopeInit, AtRest
<1> QED
  BY <1>1, <1>3, <1>5, <1>6, <1>7, <1>8 DEF ScopeInv

LEMMA ScopeInvNext == ScopeInv /\ [ScopeNext]_<<scopeVars, busVars>> => ScopeInv'
<1> SUFFICES ASSUME ScopeInv, [ScopeNext]_<<scopeVars, busVars>> PROVE ScopeInv'
  OBVIOUS
<1>1. [BusNext]_busVars
  BY ScopeUsesBus DEF ScopeInv
<1>2. BusInv'
  BY <1>1, BusInvNext DEF ScopeInv
<1> DEFINE Kept == ScopeTypes' /\ Frames' /\ AtWait' /\ Making' /\ Recorded' /\ Dealt' /\ AtRest'
<1>t. ASSUME UNCHANGED scopeVars PROVE ScopeTypes'
  BY <1>t DEF ScopeInv, ScopeTypes, scopeVars, treeVars, disposerVars, userVars, historyVars
<1>3. ASSUME UserStep PROVE Kept
  <2>1. ASSUME NEW c \in Scopes, NEW s \in Scopes, NewChild(c, s) PROVE Kept
    BY <2>1, NewChildKeeps
  <2>2. ASSUME NEW h \in DisposeHooks, NEW s \in Scopes, OnDispose(h, s) PROVE Kept
    BY <2>2, OnDisposeKeeps
  <2>3. ASSUME NEW u \in Subs, NEW s \in Scopes, SubscribeOpen(u, s) PROVE Kept
    BY <2>3, SubscribeKeeps
  <2>4. ASSUME NEW u \in Subs, Unsubscribe(u) PROVE Kept
    <3>1. \A w \in Subs : ~BusSubscribe(w)
      BY <2>4 DEF Unsubscribe, Unlist, BusSubscribe, ScopeInv, BusInv, BusTypes
    <3>2. Advance
      BY <1>1, <3>1, Advances DEF ScopeInv
    <3> QED
      BY <2>4, <3>2, <1>t, BusMoves DEF Unsubscribe
  <2> QED
    BY <1>3, <2>1, <2>2, <2>3, <2>4 DEF UserStep
<1>4. ASSUME OnBus PROVE Kept
  <2>1. \A w \in Subs : ~BusSubscribe(w)
    BY <1>4 DEF OnBus, PublishStep, HandlerStep, Publish, Acquire, Saturated, Drop, Begin, FreeSlot,
                CountOff, CloseState, BusSubscribe, subVars, ScopeInv, BusInv, BusTypes
  <2>2. Advance
    BY <1>1, <2>1, Advances DEF ScopeInv
  <2>3. Kept
    BY <1>4, <2>2, <1>t, BusMoves DEF OnBus
  <2> QED
    BY <2>3
<1>5. ASSUME NEW u \in Subs, SubscribeStep(u) PROVE Kept
  <2>1. CASE SubscribeUndo(u)
    <3>1. \A w \in Subs : ~BusSubscribe(w)
      BY <2>1 DEF SubscribeUndo, Unlist, BusSubscribe, ScopeInv, BusInv, BusTypes
    <3>2. Advance
      BY <1>1, <3>1, Advances DEF ScopeInv
    <3> QED
      BY <2>1, <3>2, <1>t, BusMoves DEF SubscribeUndo
  <2>2. CASE SubscribeOnBus(u) \/ SubscribeRecord(u)
    BY <2>2, SubscribeKeeps
  <2> QED
    BY <1>5, <2>1, <2>2 DEF SubscribeStep
<1>6. ASSUME NEW d \in Disposers, ContextEnds(d) \/ \E s \in Scopes : Dispose(d, s) PROVE Kept
  BY <1>6, CallKeeps
<1>7. ASSUME NEW d \in Disposers, DisposeStep(d) PROVE Kept
  <2>1. CASE EnterScope(d)
    BY <2>1, EnterKeeps
  <2>2. CASE DisposeSub(d)
    <3>1. \A w \in Subs : ~BusSubscribe(w)
      BY <2>2 DEF DisposeSub, Unlist, BusSubscribe, busVars, ScopeInv, BusInv, BusTypes
    <3>2. Advance
      BY <1>1, <3>1, Advances DEF ScopeInv
    <3> QED
      BY <1>2, <2>2, <3>2, DisposeSubKeeps
  <2>3. CASE WaitSub(d)
    BY <2>3, WaitSubKeeps
  <2>4. CASE DisposeChild(d)
    BY <2>4, DisposeChildKeeps
  <2>5. CASE RunHook(d)
    BY <2>5, RunHookKeeps
  <2>6. CASE DisposeCancelled(d) \/ DisposeDone(d)
    BY <2>6, EndKeeps
  <2> QED
    BY <1>7, <2>1, <2>2, <2>3, <2>4, <2>5, <2>6 DEF DisposeStep
<1>8. ASSUME UNCHANGED <<scopeVars, busVars>> PROVE Kept
  <2>1. \A u \in Subs : Quiet(u)' = Quiet(u)
    BY <1>8 DEF Quiet, busVars
  <2>2. Advance
    BY <1>8, <2>1 DEF Advance, busVars
  <2> QED
    BY <1>8, <2>2, <1>t, BusMoves
<1>9. Kept
  BY <1>3, <1>4, <1>5, <1>6, <1>7, <1>8 DEF ScopeNext
<1> QED
  BY <1>2, <1>9 DEF ScopeInv

\* Every subscription of a scope is with the call that disposes of the scope, or off
\* and at rest (infra_scope.go).
THEOREM ScopeInvariant == ScopeSafety => []ScopeInv
<1>1. BusInit /\ ScopeInit => ScopeInv
  BY ScopeInvInit
<1>2. ScopeInv /\ [ScopeNext]_<<scopeVars, busVars>> => ScopeInv'
  BY ScopeInvNext
<1> QED
  BY <1>1, <1>2, PTL DEF ScopeSafety

-----------------------------------------------------------------------------
(* The bus in the composition *)

\* Whatever the scopes do, the bus under them behaves as EventBus says.
THEOREM ScopesUseTheBus == ScopeSafety => UsesBus
<1>1. ScopeInv /\ [ScopeNext]_<<scopeVars, busVars>> => [BusNext]_busVars
  BY ScopeUsesBus DEF ScopeInv
<1> QED
  BY <1>1, ScopeInvariant, PTL DEF ScopeSafety, UsesBus

\* The composition implements the bus, so what is proved of the bus holds in it: the
\* slots and the counts of handlers are exact, and a closed subscription stays quiet.
THEOREM ScopesImplementBus ==
  ScopeSafety => BusSafety /\ []SlotsExact /\ []WaitExact /\ QuietForGood
<1>1. ScopeSafety => BusSafety
  BY ScopesUseTheBus, PTL DEF ScopeSafety, UsesBus, BusSafety
<1> QED
  BY <1>1, SlotsAreExact, WaitIsExact, ClosedStaysQuiet

\* Every variable of the scopes keeps its type.
THEOREM ScopeTyped == ScopeSafety => []ScopeTypeOK
<1>1. ScopeInv => ScopeTypeOK
  BY DEF ScopeInv, ScopeTypes, ScopeTypeOK
<1> QED
  BY <1>1, ScopeInvariant, PTL

-----------------------------------------------------------------------------
(* Subscriptions of a scope that is being disposed *)

LEMMA DisposedIsSettled ==
  ASSUME ScopeInv, NEW s \in disposed, NEW u \in Subs
  PROVE ~Pending(s, u)
<1> SUFFICES ASSUME NEW d \in Disposers, left[d] # <<>>, At(d) = s PROVE FALSE
  BY DEF Pending
<1>1. dst[d] \in {"work", "close", "wait"}
  BY DEF ScopeInv, Frames, Frame
<1>2. disposeMu[s] = d /\ d # Nothing /\ s \in Scopes
  BY <1>1, Innermost DEF ScopeInv, Active
<1> QED
  BY <1>2 DEF ScopeInv, AtRest

LEMMA NoneOnBus == ScopeInv => NoneLeftOnBus
<1> SUFFICES ASSUME ScopeInv, NEW u \in Subs, stage[u] = "on", home[u] \in Scopes,
                    home[u] \in disposed \/ Settled(home[u]), upc[u] \notin {"listed", "refused"}
             PROVE FALSE
  BY DEF NoneLeftOnBus
<1> USE DEF ScopeInv
<1>1. upc[u] = "done" /\ Contains(subs[home[u]], u)
  BY DEF Making, ScopeTypes
<1>2. home[u] \in closing
  BY DEF AtRest, Settled
<1>3. ~Pending(home[u], u)
  BY DisposedIsSettled DEF Settled, Pending
<1> QED
  BY <1>1, <1>2, <1>3 DEF Dealt

\* No recorded subscription of a scope is on the bus once its Dispose has turned to
\* children and hooks; one whose Subscribe raced it is still to be undone.
THEOREM NoneIsLeft == ScopeSafety => []NoneLeftOnBus
  BY ScopeInvariant, NoneOnBus, PTL

LEMMA HandlersEnded == ScopeInv => HandlersOver
<1> SUFFICES ASSUME ScopeInv, NEW s \in Scopes, Settled(s), NEW i \in DOMAIN subs[s],
                    subs[s][i] \notin hurried \cup early
             PROVE Of(subs[s][i], serving) = {}
  BY DEF HandlersOver
<1> USE DEF ScopeInv
<1>1. subs[s] \in Seq(Subs) /\ i \in 1 .. Len(subs[s])
  BY LenProperties DEF ScopeTypes
<1>2. subs[s][i] \in Subs /\ Contains(subs[s], subs[s][i])
  BY <1>1, ElementOfSeq DEF Contains
<1>3. ~Pending(s, subs[s][i]) /\ s \in closing
  BY DEF Settled, Pending
<1>4. Quiet(subs[s][i])
  BY <1>2, <1>3 DEF Dealt
<1> QED
  BY <1>2, <1>4, QuietIsEmpty

\* When Dispose turns to children and hooks, no handler of the scope runs, and none will
\* begin, except of a subscription for which it gave up waiting or found half undone.
THEOREM HandlersAreOver == ScopeSafety => []HandlersOver
  BY ScopeInvariant, HandlersEnded, PTL

-----------------------------------------------------------------------------
(* Hooks and children *)

Gone(c) == c \in disposed \cup cut

\* In the call d the child c is being disposed for its parent s.
Under(d, c, s) == \E i \in 1 .. Len(stack[d]) :
                     i + 1 \in 1 .. Len(stack[d]) /\ stack[d][i] = c /\ stack[d][i + 1] = s

\* A hook belongs to one scope; it has not run while it remains, and it has run when it
\* does not remain in a scope whose Dispose has begun.
HookInv ==
  /\ \A s \in Scopes : Injective(hooks[s]) /\ Injective(rest[s].hooks)
  /\ \A s, r \in Scopes, h \in DisposeHooks : Contains(hooks[s], h) /\ Contains(hooks[r], h) => s = r
  /\ \A s \in Scopes, h \in DisposeHooks : Contains(rest[s].hooks, h) => Contains(hooks[s], h) /\ ran[h] = 0
  /\ \A s \in Scopes \ closing, h \in DisposeHooks : Contains(hooks[s], h) => ran[h] = 0
  /\ \A s \in closing, h \in DisposeHooks : Contains(hooks[s], h) => Contains(rest[s].hooks, h) \/ ran[h] = 1
  /\ HooksOnce

\* A child is gone, remains, or is being disposed; nothing remains in a disposed scope.
KidInv ==
  /\ \A s \in Scopes \ created : \A y : ~Contains(hooks[s], y) /\ ~Contains(kids[s], y)
  /\ \A s \in disposed \ closing : \A y : ~Contains(hooks[s], y) /\ ~Contains(kids[s], y)
  /\ \A s \in disposed \cap closing : rest[s].hooks = <<>> /\ rest[s].kids = <<>>
  /\ \A s \in closing, c \in Scopes : Contains(kids[s], c) =>
        Contains(rest[s].kids, c) \/ Gone(c) \/ \E d \in Disposers : Under(d, c, s)
  /\ \A s, c \in Scopes, h \in DisposeHooks :
        Contains(hooks[s], h) /\ ran[h] > 0 /\ Contains(kids[s], c) => Gone(c)

TreeInv == HookInv /\ KidInv

LEMMA TreeInvInit == BusInit /\ ScopeInit => TreeInv
<1> SUFFICES ASSUME ScopeInit PROVE TreeInv
  OBVIOUS
<1>1. (\A y : ~Contains(<<>>, y)) /\ Injective(<<>>)
  BY EmptyContains DEF Injective
<1> QED
  BY <1>1 DEF ScopeInit, TreeInv, HookInv, KidInv, HooksOnce

LEMMA UnderKeeps ==
  ASSUME stack' = stack
  PROVE \A d, c, s : Under(d, c, s) => Under(d, c, s)'
  BY DEF Under

\* Steps that leave the tree and the calls where they are.
LEMMA TreeUntouched ==
  ASSUME TreeInv, UNCHANGED <<created, kids, hooks, closing, disposed, rest, stack, ran, cut>>
  PROVE TreeInv'
<1>1. HookInv'
  BY DEF TreeInv, HookInv, HooksOnce
<1>2. \A d, c, s : Under(d, c, s) => Under(d, c, s)'
  BY UnderKeeps
<1>3. KidInv'
  BY <1>2 DEF TreeInv, KidInv, Gone
<1> QED
  BY <1>1, <1>3 DEF TreeInv

LEMMA NewChildTree ==
  ASSUME ScopeInv, TreeInv, NEW c \in Scopes, NEW s \in Scopes, NewChild(c, s)
  PROVE TreeInv'
<1> USE DEF ScopeInv, TreeInv
<1>1. /\ s \in created /\ c \notin created
      /\ UNCHANGED <<hooks, closing, rest, stack, ran, cut>>
      /\ created' = created \cup {c}
  BY DEF NewChild, disposerVars, historyVars
<1>2. HookInv'
  BY <1>1 DEF HookInv, HooksOnce
<1>3. \A d, x, r : Under(d, x, r) => Under(d, x, r)'
  BY <1>1, UnderKeeps
<1>4. c \notin closing /\ c \notin disposed
  BY <1>1 DEF AtRest
<1>5. CASE Closed(s)
  <2>1. disposed' = disposed \cup {c} /\ kids' = kids
    BY <1>5 DEF NewChild
  <2> QED
    BY <1>1, <1>2, <1>3, <1>4, <2>1 DEF KidInv, Gone
<1>6. CASE ~Closed(s)
  <2>1. disposed' = disposed /\ kids' = [kids EXCEPT ![s] = Append(@, c)]
    BY <1>6 DEF NewChild
  <2>2. s \notin closing /\ s \notin disposed
    BY <1>6 DEF Closed
  <2>3. /\ \A r \in Scopes : \A y : r # s => (Contains(kids'[r], y) <=> Contains(kids[r], y))
        /\ kids'[s] = Append(kids[s], c)
    BY <2>1 DEF ScopeTypes
  <2>4. \A h \in DisposeHooks : Contains(hooks[s], h) => ran[h] = 0
    BY <2>2 DEF HookInv
  <2>5. \A r, x \in Scopes, h \in DisposeHooks :
           Contains(hooks'[r], h) /\ ran'[h] > 0 /\ Contains(kids'[r], x) => Gone(x)'
    BY <1>1, <2>1, <2>3, <2>4 DEF KidInv, Gone
  <2>6. \A r \in Scopes \ created' : \A y : ~Contains(hooks'[r], y) /\ ~Contains(kids'[r], y)
    BY <1>1, <2>3 DEF KidInv
  <2>7. \A r \in disposed \ closing : \A y : ~Contains(hooks'[r], y) /\ ~Contains(kids'[r], y)
    BY <1>1, <2>2, <2>3 DEF KidInv, ScopeTypes
  <2>8. \A r \in closing, x \in Scopes : Contains(kids'[r], x) =>
           Contains(rest[r].kids, x) \/ Gone(x) \/ \E d \in Disposers : Under(d, x, r)'
    BY <1>3, <2>2, <2>3 DEF KidInv, ScopeTypes
  <2> QED
    BY <1>1, <1>2, <2>1, <2>5, <2>6, <2>7, <2>8 DEF KidInv, Gone
<1> QED
  BY <1>5, <1>6

LEMMA OnDisposeTree ==
  ASSUME ScopeInv, TreeInv, NEW h \in DisposeHooks, NEW s \in Scopes, OnDispose(h, s)
  PROVE TreeInv'
<1> USE DEF ScopeInv, TreeInv
<1>1. /\ s \in created
      /\ UNCHANGED <<created, kids, closing, disposed, rest, stack, cut>>
      /\ ran[h] = 0 /\ \A r \in Scopes : ~Contains(hooks[r], h)
  BY DEF OnDispose, Registered, ScopeTypes, disposerVars
<1>2. \A d, x, r : Under(d, x, r) => Under(d, x, r)'
  BY <1>1, UnderKeeps
<1>3. CASE Closed(s)
  <2>1. ran' = [ran EXCEPT ![h] = @ + 1] /\ hooks' = hooks
    BY <1>3 DEF OnDispose
  <2>2. ran'[h] = 1 /\ \A g \in DisposeHooks : g # h => ran'[g] = ran[g]
    BY <1>1, <2>1 DEF ScopeTypes
  <2>3. HookInv'
    BY <1>1, <2>1, <2>2 DEF HookInv, HooksOnce
  <2>4. KidInv'
    BY <1>1, <1>2, <2>1, <2>2 DEF KidInv, Gone
  <2> QED
    BY <2>3, <2>4
<1>4. CASE ~Closed(s)
  <2>1. ran' = ran /\ hooks' = [hooks EXCEPT ![s] = Append(@, h)]
    BY <1>4 DEF OnDispose
  <2>2. s \notin closing /\ s \notin disposed
    BY <1>4 DEF Closed
  <2>3. hooks[s] \in Seq(DisposeHooks)
    BY DEF ScopeTypes
  <2>4. /\ \A r \in Scopes : r # s => hooks'[r] = hooks[r]
        /\ \A y : Contains(hooks'[s], y) <=> Contains(hooks[s], y) \/ y = h
        /\ Injective(hooks'[s])
    <3>1. hooks'[s] = Append(hooks[s], h) /\ \A r \in Scopes : r # s => hooks'[r] = hooks[r]
      BY <2>1 DEF ScopeTypes
    <3> HIDE DEF ScopeInv
    <3> QED
      BY <3>1, <2>3, <1>1, Appended DEF HookInv
  <2>5. HookInv'
    <3>1. \A r \in Scopes : Injective(hooks'[r])
      BY <2>4 DEF HookInv
    <3>2. \A r, q \in Scopes, g \in DisposeHooks : Contains(hooks'[r], g) /\ Contains(hooks'[q], g) => r = q
      BY <1>1, <2>4 DEF HookInv
    <3>3. \A r \in Scopes, g \in DisposeHooks :
             Contains(rest[r].hooks, g) => Contains(hooks'[r], g) /\ ran[g] = 0
      BY <2>4 DEF HookInv
    <3>4. \A r \in Scopes \ closing, g \in DisposeHooks : Contains(hooks'[r], g) => ran[g] = 0
      BY <1>1, <2>4 DEF HookInv
    <3>5. \A r \in closing, g \in DisposeHooks :
             Contains(hooks'[r], g) => Contains(rest[r].hooks, g) \/ ran[g] = 1
      BY <2>2, <2>4 DEF HookInv, ScopeTypes
    <3> QED
      BY <1>1, <2>1, <3>1, <3>2, <3>3, <3>4, <3>5 DEF HookInv, HooksOnce
  <2>6. KidInv'
    <3>1. \A r \in Scopes \ created : \A y : ~Contains(hooks'[r], y)
      BY <1>1, <2>4 DEF KidInv
    <3>2. \A r \in disposed \ closing : \A y : ~Contains(hooks'[r], y)
      BY <2>2, <2>4 DEF KidInv, ScopeTypes
    <3>3. \A r, c \in Scopes, g \in DisposeHooks :
             Contains(hooks'[r], g) /\ ran[g] > 0 /\ Contains(kids[r], c) => Gone(c)
      BY <1>1, <2>4 DEF KidInv
    <3> QED
      BY <1>1, <1>2, <2>1, <3>1, <3>2, <3>3 DEF KidInv, Gone
  <2> QED
    BY <2>5, <2>6
<1> QED
  BY <1>3, <1>4

\* The child of the innermost scope may leave the stack; the others stay under theirs.
LEMMA UnderLeaves ==
  ASSUME ScopeTypes, NEW d \in Disposers, stack[d] # <<>>,
         stack' = [stack EXCEPT ![d] = Tail(@)]
  PROVE \A e \in Disposers : \A c, s : Under(e, c, s) => Under(e, c, s)' \/ (e = d /\ c = At(d))
<1>1. stack[d] \in Seq(Scopes)
  BY DEF ScopeTypes
<1>2. /\ stack'[d] = Tail(stack[d]) /\ Len(stack[d]) \in Nat
      /\ Len(Tail(stack[d])) = Len(stack[d]) - 1 /\ At(d) = stack[d][1]
      /\ \A i \in 1 .. Len(Tail(stack[d])) : Tail(stack[d])[i] = stack[d][i + 1]
      /\ \A e \in Disposers \ {d} : stack'[e] = stack[e]
  BY <1>1, HeadTailProperties, LenProperties DEF At, ScopeTypes
<1>3. ASSUME NEW c, NEW s, Under(d, c, s), c # At(d) PROVE Under(d, c, s)'
  <2>1. PICK i \in 1 .. Len(stack[d]) :
            i + 1 \in 1 .. Len(stack[d]) /\ stack[d][i] = c /\ stack[d][i + 1] = s
    BY <1>3 DEF Under
  <2>2. i # 1
    BY <1>2, <1>3, <2>1
  <2>3. /\ i - 1 \in 1 .. Len(stack'[d]) /\ (i - 1) + 1 = i /\ i \in 1 .. Len(stack'[d])
    BY <1>2, <2>1, <2>2
  <2>4. stack'[d][i - 1] = c /\ stack'[d][i] = s
    BY <1>2, <2>1, <2>3
  <2> QED
    BY <2>3, <2>4 DEF Under
<1>4. ASSUME NEW e \in Disposers \ {d}, NEW c, NEW s, Under(e, c, s) PROVE Under(e, c, s)'
  BY <1>2, <1>4 DEF Under
<1> QED
  BY <1>3, <1>4

\* A call that works on a scope whose children do not remain has had them all disposed.
LEMMA ChildrenGone ==
  ASSUME ScopeInv, KidInv, NEW d \in Disposers, dst[d] = "work", rest[At(d)].kids = <<>>
  PROVE \A c \in Scopes : Contains(kids[At(d)], c) => Gone(c)
<1> USE DEF ScopeInv
<1> DEFINE s == At(d)
<1>1. /\ stack[d] \in Seq(Scopes) /\ stack[d] # <<>> /\ s \in Scopes
      /\ disposeMu[s] = d /\ ~Contains(Tail(stack[d]), s) /\ Contains(Entered(d), s)
  BY Innermost DEF Active, Entered
<1>2. s \in closing
  BY <1>1 DEF AtRest
<1>3. ASSUME NEW e \in Disposers, NEW c \in Scopes, Under(e, c, s) PROVE FALSE
  <2>1. PICK i \in 1 .. Len(stack[e]) :
            i + 1 \in 1 .. Len(stack[e]) /\ stack[e][i] = c /\ stack[e][i + 1] = s
    BY <1>3 DEF Under
  <2>2. stack[e] \in Seq(Scopes) /\ stack[e] # <<>>
    BY <2>1 DEF ScopeTypes, Frames, Frame
  <2>3. /\ Len(Tail(stack[e])) = Len(stack[e]) - 1 /\ Len(stack[e]) \in Nat
        /\ \A j \in 1 .. Len(Tail(stack[e])) : Tail(stack[e])[j] = stack[e][j + 1]
    BY <2>2, HeadTailProperties, LenProperties
  <2>4. Contains(Tail(stack[e]), s)
    BY <2>1, <2>3 DEF Contains
  <2>5. Contains(Entered(e), s)
    BY <2>2, <2>4, HeadAndTail DEF Entered
  <2>6. e = d
    BY <1>1, <2>5 DEF Frames, Frame
  <2> QED
    BY <1>1, <2>4, <2>6
<1>4. ~\E c : Contains(rest[s].kids, c)
  BY EmptyContains
<1> QED
  BY <1>2, <1>3, <1>4 DEF KidInv

LEMMA RunHookTree ==
  ASSUME ScopeInv, TreeInv, NEW d \in Disposers, RunHook(d)
  PROVE TreeInv'
<1> USE DEF ScopeInv, TreeInv
<1> DEFINE s == At(d)
           g == Head(rest[s].hooks)
<1>1. /\ dst[d] = "work" /\ rest[s].kids = <<>> /\ rest[s].hooks # <<>>
      /\ ran' = [ran EXCEPT ![g] = @ + 1]
      /\ rest' = [rest EXCEPT ![s].hooks = Tail(@)]
      /\ UNCHANGED <<created, kids, hooks, closing, disposed, stack, cut>>
  BY DEF RunHook, InLoops, disposerVars
<1>2. s \in Scopes /\ disposeMu[s] = d /\ d # Nothing /\ s \in closing \ disposed
  BY <1>1, Innermost DEF Active, AtRest
<1>3. \A c \in Scopes : Contains(kids[s], c) => Gone(c)
  BY <1>1, ChildrenGone
<1>4. \A e, x, r : Under(e, x, r) => Under(e, x, r)'
  BY <1>1, UnderKeeps
<1> HIDE DEF s
<1>5. /\ g \in DisposeHooks
      /\ \A y : Contains(rest[s].hooks, y) <=> y = g \/ Contains(Tail(rest[s].hooks), y)
      /\ Injective(Tail(rest[s].hooks)) /\ ~Contains(Tail(rest[s].hooks), g)
  <2>1. rest[s].hooks \in Seq(DisposeHooks) /\ Injective(rest[s].hooks)
    BY <1>2 DEF ScopeTypes, HookInv
  <2> QED
    BY <1>1, <2>1, HeadAndTail
<1> HIDE DEF g
<1>6. /\ ran[g] = 0 /\ ran'[g] = 1 /\ \A h \in DisposeHooks \ {g} : ran'[h] = ran[h]
      /\ Contains(hooks[s], g)
  BY <1>1, <1>2, <1>5 DEF HookInv, ScopeTypes
<1>7. /\ \A r \in Scopes \ {s} : rest'[r] = rest[r]
      /\ rest'[s].hooks = Tail(rest[s].hooks) /\ rest'[s].kids = rest[s].kids
  BY <1>1, <1>2 DEF ScopeTypes
<1>8. \A r \in Scopes, h \in DisposeHooks :
         Contains(rest'[r].hooks, h) => Contains(hooks[r], h) /\ ran'[h] = 0
  BY <1>2, <1>5, <1>6, <1>7 DEF HookInv
<1>9. \A r \in Scopes \ closing, h \in DisposeHooks : Contains(hooks[r], h) => ran'[h] = 0
  BY <1>2, <1>6 DEF HookInv
<1>10. \A r \in closing, h \in DisposeHooks : Contains(hooks[r], h) => Contains(rest'[r].hooks, h) \/ ran'[h] = 1
  <2>1. ASSUME NEW h \in DisposeHooks, Contains(hooks[s], h)
        PROVE Contains(rest'[s].hooks, h) \/ ran'[h] = 1
    BY <1>2, <1>5, <1>6, <1>7, <2>1 DEF HookInv
  <2>2. ASSUME NEW r \in closing, r # s, NEW h \in DisposeHooks, Contains(hooks[r], h)
        PROVE Contains(rest'[r].hooks, h) \/ ran'[h] = 1
    <3>1. r \in Scopes /\ h # g
      BY <1>2, <1>6, <2>2 DEF HookInv, ScopeTypes
    <3> QED
      BY <1>6, <1>7, <2>2, <3>1 DEF HookInv
  <2> QED
    BY <2>1, <2>2
<1>11. HookInv'
  BY <1>1, <1>5, <1>6, <1>7, <1>8, <1>9, <1>10 DEF HookInv, HooksOnce
<1>12. \A r, c \in Scopes, h \in DisposeHooks :
          Contains(hooks[r], h) /\ ran'[h] > 0 /\ Contains(kids[r], c) => Gone(c)
  BY <1>2, <1>3, <1>6 DEF HookInv, KidInv
<1>13. \A r \in disposed \cap closing : rest'[r].hooks = <<>> /\ rest'[r].kids = <<>>
  BY <1>2, <1>7 DEF KidInv, ScopeTypes
<1>14. \A r \in closing, c \in Scopes : Contains(kids[r], c) =>
          Contains(rest'[r].kids, c) \/ Gone(c) \/ \E e \in Disposers : Under(e, c, r)'
  <2>1. \A r \in closing : r \in Scopes /\ rest'[r].kids = rest[r].kids
    BY <1>7 DEF ScopeTypes
  <2> QED
    BY <1>4, <2>1 DEF KidInv
<1>15. KidInv'
  BY <1>1, <1>12, <1>13, <1>14 DEF KidInv, Gone
<1> QED
  BY <1>11, <1>15

LEMMA DisposeChildTree ==
  ASSUME ScopeInv, TreeInv, NEW d \in Disposers, DisposeChild(d)
  PROVE TreeInv'
<1> USE DEF ScopeInv, TreeInv
<1>p. dst[d] = "work" /\ At(d) \in Scopes
  BY Innermost DEF DisposeChild, InLoops, Active
<1>s. PICK s \in Scopes : s = At(d)
  BY <1>p
<1>h. rest[s].kids \in Seq(Scopes) /\ rest[s].kids # <<>>
  BY <1>s DEF DisposeChild, ScopeTypes
<1>k. PICK k \in Scopes : k = Head(rest[s].kids)
  BY <1>h, HeadAndTail
<1> DEFINE deeper == <<k>> \o stack[d]
<1>1. /\ dst[d] = "work" /\ rest[s].kids # <<>>
      /\ stack' = [stack EXCEPT ![d] = <<k>> \o @]
      /\ rest' = [rest EXCEPT ![s].kids = Tail(@)]
      /\ UNCHANGED <<created, kids, hooks, closing, disposed, ran, cut>>
  BY <1>s, <1>k DEF DisposeChild, InLoops, historyVars
<1>2. /\ s \in Scopes /\ disposeMu[s] = d /\ d # Nothing /\ s \in closing \ disposed
      /\ stack[d] \in Seq(Scopes) /\ stack[d] # <<>> /\ s = stack[d][1]
  <2>1. s \in Scopes /\ disposeMu[s] = d /\ d # Nothing /\ stack[d] \in Seq(Scopes) /\ stack[d] # <<>>
    BY <1>1, <1>s, Innermost DEF Active
  <2> QED
    BY <1>s, <2>1, HeadTailProperties DEF AtRest, At
<1>3. /\ k \in Scopes
      /\ \A y : Contains(rest[s].kids, y) <=> y = k \/ Contains(Tail(rest[s].kids), y)
  BY <1>h, <1>k, HeadAndTail
<1>4. /\ Len(deeper) = 1 + Len(stack[d]) /\ Len(stack[d]) \in Nat
      /\ deeper[1] = k /\ \A i \in 1..Len(stack[d]) : deeper[i + 1] = stack[d][i]
      /\ Len(stack[d]) > 0
  <2>1. <<k>> \in Seq(Scopes) /\ Len(<<k>>) = 1 /\ <<k>>[1] = k
    OBVIOUS
  <2>2. Len(stack[d]) \in Nat /\ Len(stack[d]) > 0
    BY <1>2, LenProperties, HeadTailProperties
  <2>3. /\ Len(deeper) = 1 + Len(stack[d]) /\ deeper[1] = k
        /\ \A i \in 1..Len(stack[d]) : deeper[i + 1] = stack[d][i]
    BY <1>2, <2>1, <2>2, ConcatProperties
  <2> QED
    BY <2>2, <2>3
<1>5. stack'[d] = deeper /\ \A e \in Disposers \ {d} : stack'[e] = stack[e]
  BY <1>1 DEF ScopeTypes
<1> HIDE DEF deeper
<1>6. Under(d, k, s)'
  BY <1>2, <1>4, <1>5 DEF Under
<1>7. ASSUME NEW e \in Disposers, NEW c, NEW r, Under(e, c, r) PROVE Under(e, c, r)'
  <2>1. PICK i \in 1 .. Len(stack[e]) :
            i + 1 \in 1 .. Len(stack[e]) /\ stack[e][i] = c /\ stack[e][i + 1] = r
    BY <1>7 DEF Under
  <2>2. CASE e # d
    BY <1>5, <1>7, <2>2 DEF Under
  <2>3. CASE e = d
    <3>1. /\ i + 1 \in 1 .. Len(deeper) /\ (i + 1) + 1 \in 1 .. Len(deeper)
          /\ deeper[i + 1] = c /\ deeper[(i + 1) + 1] = r
      BY <1>4, <2>1, <2>3
    <3> QED
      BY <1>5, <2>3, <3>1 DEF Under
  <2> QED
    BY <2>2, <2>3
<1>8. /\ \A r \in Scopes \ {s} : rest'[r] = rest[r]
      /\ rest'[s].kids = Tail(rest[s].kids) /\ rest'[s].hooks = rest[s].hooks
  BY <1>1, <1>2 DEF ScopeTypes
<1>9. HookInv'
  <2>1. \A r \in Scopes : rest'[r].hooks = rest[r].hooks
    BY <1>8
  <2>2. closing \subseteq Scopes
    BY DEF ScopeTypes
  <2> QED
    BY <1>1, <2>1, <2>2 DEF HookInv, HooksOnce
<1>10. \A r \in closing, c \in Scopes : Contains(kids[r], c) =>
          Contains(rest'[r].kids, c) \/ Gone(c) \/ \E e \in Disposers : Under(e, c, r)'
  <2> SUFFICES ASSUME NEW r \in closing, NEW c \in Scopes, Contains(kids[r], c),
                      ~Gone(c), \A e \in Disposers : ~Under(e, c, r)'
               PROVE Contains(rest'[r].kids, c)
    OBVIOUS
  <2>1. Contains(rest[r].kids, c) /\ r \in Scopes
    BY <1>7 DEF KidInv, ScopeTypes
  <2>2. CASE r # s
    BY <1>8, <2>1, <2>2
  <2>3. CASE r = s
    BY <1>3, <1>6, <1>8, <2>1, <2>3
  <2> QED
    BY <2>2, <2>3
<1>11. \A r \in disposed \cap closing : rest'[r].hooks = <<>> /\ rest'[r].kids = <<>>
  BY <1>2, <1>8 DEF KidInv, ScopeTypes
<1>12. KidInv'
  BY <1>1, <1>10, <1>11 DEF KidInv, Gone
<1> QED
  BY <1>9, <1>12

\* A call leaves a scope that is disposed, or whose context has ended.
LEMMA EndTree ==
  ASSUME ScopeInv, TreeInv, NEW d \in Disposers, DisposeCancelled(d) \/ DisposeDone(d)
  PROVE TreeInv'
<1> USE DEF ScopeInv, TreeInv
<1>p. dst[d] = "work" /\ At(d) \in Scopes
  BY Innermost DEF DisposeCancelled, DisposeDone, InLoops, Active
<1>s. PICK s \in Scopes : s = At(d)
  BY <1>p
<1>1. /\ dst[d] = "work" /\ LeaveScope(d)
      /\ stack' = [stack EXCEPT ![d] = Tail(@)]
      /\ UNCHANGED <<created, kids, hooks, closing, rest, ran>>
  BY DEF DisposeCancelled, DisposeDone, InLoops, LeaveScope, historyVars
<1>2. s \in Scopes /\ s \in closing /\ stack[d] # <<>> /\ stack[d] \in Seq(Scopes)
  <2>1. s \in Scopes /\ stack[d] # <<>> /\ Contains(Entered(d), s) /\ stack[d] \in Seq(Scopes)
    BY <1>1, <1>s, Innermost DEF Active, Entered
  <2> QED
    BY <2>1 DEF AtRest
<1>3. \A e \in Disposers : \A c, r : Under(e, c, r) => Under(e, c, r)' \/ (e = d /\ c = s)
  BY <1>1, <1>2, <1>s, UnderLeaves
<1>4. HookInv'
  BY <1>1 DEF HookInv, HooksOnce
<1>5. \A c : Gone(c) => Gone(c)'
  BY DEF Gone, DisposeCancelled, DisposeDone, historyVars
<1>6. \A r : Under(d, s, r) => Gone(s)'
  <2>1. CASE DisposeDone(d)
    BY <1>s, <2>1 DEF DisposeDone, Gone
  <2>2. CASE DisposeCancelled(d)
    <3>1. ASSUME NEW r, Under(d, s, r) PROVE Len(stack[d]) # 1
      BY <1>2, <3>1, LenProperties DEF Under
    <3> QED
      BY <1>s, <2>2, <3>1 DEF DisposeCancelled, Gone
  <2> QED
    BY <2>1, <2>2
<1>7. \A r \in disposed' \ closing : \A y : ~Contains(hooks[r], y) /\ ~Contains(kids[r], y)
  BY <1>2, <1>s DEF KidInv, DisposeCancelled, DisposeDone
<1>8. \A r \in disposed' \cap closing : rest[r].hooks = <<>> /\ rest[r].kids = <<>>
  BY <1>s DEF KidInv, DisposeCancelled, DisposeDone
<1>9. \A r \in closing, c \in Scopes : Contains(kids[r], c) =>
         Contains(rest[r].kids, c) \/ Gone(c)' \/ \E e \in Disposers : Under(e, c, r)'
  BY <1>3, <1>5, <1>6 DEF KidInv
<1>10. KidInv'
  <2>1. \A r, c \in Scopes, h \in DisposeHooks :
           Contains(hooks[r], h) /\ ran[h] > 0 /\ Contains(kids[r], c) => Gone(c)'
    BY <1>5 DEF KidInv
  <2> QED
    BY <1>1, <1>7, <1>8, <1>9, <2>1 DEF KidInv
<1> QED
  BY <1>4, <1>10

LEMMA EnterTree ==
  ASSUME ScopeInv, TreeInv, NEW d \in Disposers, EnterScope(d)
  PROVE TreeInv'
<1> USE DEF ScopeInv, TreeInv
<1>1. dst[d] = "lock" /\ UNCHANGED <<created, kids, hooks, disposed, ran, cut>>
  BY DEF EnterScope, historyVars
<1>2. At(d) \in Scopes /\ stack[d] # <<>>
  BY <1>1, Innermost DEF Active
<1>s. PICK s \in Scopes : s = At(d)
  BY <1>2
<1>3. CASE s \in disposed
  <2>1. UNCHANGED <<closing, rest>> /\ stack' = [stack EXCEPT ![d] = Tail(@)]
    BY <1>s, <1>3 DEF EnterScope, LeaveScope
  <2>2. HookInv'
    BY <1>1, <2>1 DEF HookInv, HooksOnce
  <2>3. \A e \in Disposers : \A c, r : Under(e, c, r) => Under(e, c, r)' \/ (e = d /\ c = s)
    BY <1>2, <1>s, <2>1, UnderLeaves
  <2>4. KidInv'
    BY <1>1, <1>3, <2>1, <2>3 DEF KidInv, Gone
  <2> QED
    BY <2>2, <2>4
<1>4. CASE s \notin disposed /\ s \in closing
  <2>1. closing' = closing \cup {s} /\ rest' = rest /\ stack' = stack
    BY <1>s, <1>4 DEF EnterScope, Started
  <2>2. closing' = closing
    BY <1>4, <2>1
  <2> QED
    BY <1>1, <2>1, <2>2, TreeUntouched
<1>5. CASE s \notin disposed /\ s \notin closing
  <2>1. /\ closing' = closing \cup {s} /\ stack' = stack
        /\ rest' = [rest EXCEPT ![s] = [kids |-> Reverse(kids[s]), hooks |-> Reverse(hooks[s])]]
    BY <1>s, <1>5 DEF EnterScope, Started
  <2>2. /\ \A r \in Scopes \ {s} : rest'[r] = rest[r]
        /\ rest'[s].kids = Reverse(kids[s]) /\ rest'[s].hooks = Reverse(hooks[s])
    BY <2>1 DEF ScopeTypes
  <2>3. /\ \A y : Contains(rest'[s].kids, y) <=> Contains(kids[s], y)
        /\ \A y : Contains(rest'[s].hooks, y) <=> Contains(hooks[s], y)
        /\ Injective(rest'[s].hooks)
    <3>1. kids[s] \in Seq(Scopes) /\ hooks[s] \in Seq(DisposeHooks) /\ Injective(hooks[s])
      BY DEF ScopeTypes, HookInv
    <3> QED
      BY <2>2, <3>1, Reversed
  <2>4. closing \subseteq Scopes /\ disposed \subseteq Scopes
    BY DEF ScopeTypes
  <2>5. HookInv'
    <3>1. \A r \in Scopes : Injective(rest'[r].hooks)
      BY <2>2, <2>3 DEF HookInv
    <3>2. \A r \in Scopes, h \in DisposeHooks : Contains(rest'[r].hooks, h) => Contains(hooks[r], h) /\ ran[h] = 0
      BY <1>5, <2>2, <2>3 DEF HookInv
    <3>3. \A r \in closing', h \in DisposeHooks : Contains(hooks[r], h) => Contains(rest'[r].hooks, h) \/ ran[h] = 1
      BY <2>1, <2>2, <2>3, <2>4 DEF HookInv
    <3> QED
      BY <1>1, <2>1, <3>1, <3>2, <3>3 DEF HookInv, HooksOnce
  <2>6. \A e, c, r : Under(e, c, r) => Under(e, c, r)'
    BY <2>1, UnderKeeps
  <2>7. KidInv'
    <3>1. \A r \in closing', c \in Scopes : Contains(kids[r], c) =>
             Contains(rest'[r].kids, c) \/ Gone(c) \/ \E e \in Disposers : Under(e, c, r)'
      BY <2>1, <2>2, <2>3, <2>4, <2>6 DEF KidInv
    <3>2. \A r \in disposed \cap closing' : rest'[r].hooks = <<>> /\ rest'[r].kids = <<>>
      BY <1>5, <2>1, <2>2, <2>4 DEF KidInv
    <3> QED
      BY <1>1, <2>1, <3>1, <3>2 DEF KidInv, Gone
  <2> QED
    BY <2>5, <2>7
<1> QED
  BY <1>3, <1>4, <1>5

LEMMA TreeInvNext ==
  ASSUME ScopeInv, TreeInv, [ScopeNext]_<<scopeVars, busVars>>
  PROVE TreeInv'
<1> USE DEF treeVars, disposerVars, historyVars
<1>1. CASE UserStep
  <2>1. ASSUME NEW u \in Subs, Unsubscribe(u) \/ \E s \in Scopes : SubscribeOpen(u, s)
        PROVE TreeInv'
    BY <2>1, TreeUntouched DEF SubscribeOpen, Unsubscribe, scopeVars
  <2> QED
    BY <1>1, <2>1, NewChildTree, OnDisposeTree DEF UserStep
<1>2. CASE OnBus \/ UNCHANGED <<scopeVars, busVars>>
  BY <1>2, TreeUntouched DEF OnBus, scopeVars
<1>3. ASSUME NEW u \in Subs, SubscribeStep(u) PROVE TreeInv'
  BY <1>3, TreeUntouched
  DEF SubscribeStep, SubscribeOnBus, SubscribeRecord, SubscribeUndo, scopeVars
<1>4. ASSUME NEW d \in Disposers, ContextEnds(d) \/ \E s \in Scopes : Dispose(d, s)
      PROVE TreeInv'
  <2>1. CASE ContextEnds(d)
    BY <2>1, TreeUntouched DEF ContextEnds
  <2>2. ASSUME NEW s \in Scopes, Dispose(d, s) PROVE TreeInv'
    <3>1. /\ UNCHANGED <<created, kids, hooks, closing, disposed, rest, ran, cut>>
          /\ stack' = [stack EXCEPT ![d] = <<s>>] /\ stack[d] = <<>>
      BY <2>2 DEF Dispose, ScopeInv, Frames, Frame
    <3>2. \A e \in Disposers : \A c, r : Under(e, c, r) => Under(e, c, r)'
      <4>1. \A e \in Disposers \ {d} : stack'[e] = stack[e]
        BY <3>1 DEF ScopeInv, ScopeTypes
      <4>2. Len(stack[d]) = 0
        BY <3>1
      <4> QED
        BY <4>1, <4>2 DEF Under
    <3>3. HookInv'
      BY <3>1 DEF TreeInv, HookInv, HooksOnce
    <3>4. KidInv'
      BY <3>1, <3>2 DEF TreeInv, KidInv, Gone
    <3> QED
      BY <3>3, <3>4 DEF TreeInv
  <2> QED
    BY <1>4, <2>1, <2>2
<1>5. ASSUME NEW d \in Disposers, DisposeStep(d) PROVE TreeInv'
  <2>1. CASE DisposeSub(d) \/ WaitSub(d)
    BY <2>1, TreeUntouched DEF DisposeSub, WaitSub
  <2> QED
    BY <1>5, <2>1, EnterTree, DisposeChildTree, RunHookTree, EndTree DEF DisposeStep
<1> QED
  BY <1>1, <1>2, <1>3, <1>4, <1>5 DEF ScopeNext

\* A hook and a child of a scope have one place each while the tree is disposed.
THEOREM TreeInvariant == ScopeSafety => [](ScopeInv /\ TreeInv)
<1>1. BusInit /\ ScopeInit => ScopeInv /\ TreeInv
  BY ScopeInvInit, TreeInvInit
<1>2. ScopeInv /\ TreeInv /\ [ScopeNext]_<<scopeVars, busVars>> => (ScopeInv /\ TreeInv)'
  BY ScopeInvNext, TreeInvNext
<1> QED
  BY <1>1, <1>2, PTL DEF ScopeSafety

LEMMA InTree ==
  ASSUME ScopeInv, NEW s \in Scopes
  PROVE /\ \A i \in DOMAIN hooks[s] : hooks[s][i] \in DisposeHooks /\ Contains(hooks[s], hooks[s][i])
        /\ \A i \in DOMAIN kids[s] : kids[s][i] \in Scopes /\ Contains(kids[s], kids[s][i])
<1>1. hooks[s] \in Seq(DisposeHooks) /\ kids[s] \in Seq(Scopes)
  BY DEF ScopeInv, ScopeTypes
<1>2. DOMAIN hooks[s] = 1 .. Len(hooks[s]) /\ DOMAIN kids[s] = 1 .. Len(kids[s])
  BY <1>1, LenProperties
<1> QED
  BY <1>1, <1>2, ElementOfSeq DEF Contains

\* No hook runs twice, however calls of Dispose overlap, are cancelled and repeated.
THEOREM HooksRunOnce == ScopeSafety => []HooksOnce
  BY TreeInvariant, PTL DEF TreeInv, HookInv

\* A disposed scope has run all its hooks, and its children are disposed, but for those
\* whose own Dispose was cancelled.
THEOREM NothingIsForgotten == ScopeSafety => []NothingForgotten
<1>1. ASSUME ScopeInv, TreeInv, NEW s \in disposed
      PROVE /\ \A i \in DOMAIN hooks[s] : ran[hooks[s][i]] = 1
            /\ \A i \in DOMAIN kids[s] : kids[s][i] \in disposed \cup cut
  <2>1. s \in Scopes
    BY <1>1 DEF ScopeInv, ScopeTypes
  <2>2. /\ \A i \in DOMAIN hooks[s] : hooks[s][i] \in DisposeHooks /\ Contains(hooks[s], hooks[s][i])
        /\ \A i \in DOMAIN kids[s] : kids[s][i] \in Scopes /\ Contains(kids[s], kids[s][i])
    BY <1>1, <2>1, InTree
  <2>3. CASE s \notin closing
    BY <1>1, <2>2, <2>3 DEF TreeInv, KidInv
  <2>4. CASE s \in closing
    <3>1. rest[s].hooks = <<>> /\ rest[s].kids = <<>>
      BY <1>1, <2>4 DEF TreeInv, KidInv
    <3>2. \A i \in DOMAIN hooks[s] : ran[hooks[s][i]] = 1
      BY <1>1, <2>2, <2>4, <3>1, EmptyContains DEF TreeInv, HookInv
    <3>3. ASSUME NEW e \in Disposers, NEW c \in Scopes, Under(e, c, s) PROVE FALSE
      <4>1. PICK i \in 1 .. Len(stack[e]) :
                i + 1 \in 1 .. Len(stack[e]) /\ stack[e][i] = c /\ stack[e][i + 1] = s
        BY <3>3 DEF Under
      <4>2. stack[e] \in Seq(Scopes) /\ stack[e] # <<>>
        BY <1>1, <4>1 DEF ScopeInv, ScopeTypes, Frames, Frame
      <4>3. /\ Len(Tail(stack[e])) = Len(stack[e]) - 1 /\ Len(stack[e]) \in Nat
            /\ \A j \in 1 .. Len(Tail(stack[e])) : Tail(stack[e])[j] = stack[e][j + 1]
        BY <4>2, HeadTailProperties, LenProperties
      <4>4. Contains(Tail(stack[e]), s)
        BY <4>1, <4>3 DEF Contains
      <4>5. Contains(Entered(e), s)
        BY <4>2, <4>4, HeadAndTail DEF Entered
      <4>6. disposeMu[s] = e /\ e # Nothing
        BY <1>1, <2>1, <4>5, ScopeAssumption DEF ScopeInv, Frames, Frame
      <4> QED
        BY <1>1, <2>1, <4>6 DEF ScopeInv, AtRest
    <3>4. \A i \in DOMAIN kids[s] : Gone(kids[s][i])
      BY <1>1, <2>2, <2>4, <3>1, <3>3, EmptyContains DEF TreeInv, KidInv
    <3> QED
      BY <3>2, <3>4 DEF Gone
  <2> QED
    BY <2>3, <2>4
<1>2. ScopeInv /\ TreeInv => NothingForgotten
  BY <1>1 DEF NothingForgotten
<1> QED
  BY <1>2, TreeInvariant, PTL

\* A hook of a scope runs after the children of the scope are disposed.
THEOREM ChildrenGoFirst == ScopeSafety => []ChildrenFirst
<1>1. ASSUME ScopeInv, TreeInv, NEW s \in Scopes, NEW i \in DOMAIN hooks[s],
             ran[hooks[s][i]] > 0, NEW j \in DOMAIN kids[s]
      PROVE kids[s][j] \in disposed \cup cut
  BY <1>1, InTree DEF TreeInv, KidInv, Gone
<1>2. ScopeInv /\ TreeInv => ChildrenFirst
  BY <1>1 DEF ChildrenFirst
<1> QED
  BY <1>2, TreeInvariant, PTL
=============================================================================

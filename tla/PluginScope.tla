------------------------------ MODULE PluginScope ------------------------------
(***************************************************************************)
(* plugin/infra_scope.go: the tree of scopes that holds what a plugin      *)
(* gets from the framework, its subscriptions on the EventBus and the      *)
(* hooks to run at its end.  Dispose unsubscribes, waits for the handlers  *)
(* under way, disposes the children and runs the hooks, both in reverse;   *)
(* when its context ends it stops, and a later call goes on from there.    *)
(* Meanwhile the plugin's code still subscribes, registers hooks, creates  *)
(* children and unsubscribes.                                              *)
(*                                                                         *)
(* disposing, disposeStarted and unsubscribed of a scope are set in one    *)
(* critical section and never reset, so they are one set here, `closing'.  *)
(***************************************************************************)
EXTENDS EventBus, Sequences, SequencesExt

CONSTANTS Scopes, Root,      \* the scopes that may exist; the rootScope
          DisposeHooks,      \* hooks for OnDispose, each registered once
          Disposers,         \* calls of Dispose from outside the tree
          Limited,           \* those whose context may end
          Nothing            \* no scope, no call

ASSUME ScopeAssumption ==
  /\ Root \in Scopes
  /\ Limited \subseteq Disposers
  /\ Nothing \notin Scopes \cup Disposers

VARIABLES created,    \* scopes made so far
          kids, subs, hooks,   \* children, subscriptions and disposeHooks of a scope
          closing, disposed,   \* scopes whose Dispose has begun, and has been completed
          rest,       \* remainingChildren and remainingHooks
          disposeMu,  \* the call that holds it, by scope
          stack, dst, left,    \* of a Dispose call: the scopes it is in, innermost first,
                               \* where in it, the subscriptions still to unsubscribe
          ctxDone,   \* calls whose context has ended
          upc, home,  \* of a subscription: where its Subscribe is, its scope
          ran,        \* how often a hook has run
          cut, hurried, early      \* history, see below

treeVars == <<created, kids, subs, hooks, closing, disposed, rest, disposeMu>>
disposerVars == <<stack, dst, left, ctxDone>>
userVars == <<upc, home>>
historyVars == <<ran, cut, hurried, early>>
scopeVars == <<treeVars, disposerVars, userVars, historyVars>>

\* What refuses new subscriptions, hooks and children.
\* Mutant: a scope accepts until its Dispose is complete.
ClosedWhenDisposed(s) == s \in disposed
Closed(s) == s \in closing \cup disposed

ScopeInit ==
  /\ created = {Root}
  /\ kids = [s \in Scopes |-> <<>>] /\ subs = [s \in Scopes |-> <<>>]
  /\ hooks = [s \in Scopes |-> <<>>]
  /\ closing = {} /\ disposed = {}
  /\ rest = [s \in Scopes |-> [kids |-> <<>>, hooks |-> <<>>]]
  /\ disposeMu = [s \in Scopes |-> Nothing]
  /\ stack = [d \in Disposers |-> <<>>]
  /\ dst = [d \in Disposers |-> "new"] /\ left = [d \in Disposers |-> <<>>]
  /\ ctxDone = {}
  /\ upc = [u \in Subs |-> "new"] /\ home = [u \in Subs |-> Nothing]
  /\ ran = [h \in DisposeHooks |-> 0]
  /\ cut = {} /\ hurried = {} /\ early = {}

-----------------------------------------------------------------------------
\* Scope(name): the child of a scope that is being disposed starts disposed.
NewChild(c, s) ==
  /\ s \in created /\ c \notin created
  /\ created' = created \cup {c}
  /\ IF Closed(s) THEN disposed' = disposed \cup {c} /\ UNCHANGED kids
                  ELSE kids' = [kids EXCEPT ![s] = Append(@, c)] /\ UNCHANGED disposed
  /\ UNCHANGED <<subs, hooks, closing, rest, disposeMu, disposerVars, userVars, historyVars, busVars>>

Registered(h) == ran[h] > 0 \/ \E s \in Scopes : Contains(hooks[s], h)

\* OnDispose: a hook that comes too late runs at once.
OnDispose(h, s) ==
  /\ s \in created /\ ~Registered(h)
  /\ IF Closed(s) THEN ran' = [ran EXCEPT ![h] = @ + 1] /\ UNCHANGED hooks
                  ELSE hooks' = [hooks EXCEPT ![s] = Append(@, h)] /\ UNCHANGED ran
  /\ UNCHANGED <<created, kids, subs, closing, disposed, rest, disposeMu, disposerVars, userVars,
                 cut, hurried, early, busVars>>

\* Subscribe checks that the scope is open, subscribes on the bus without the lock
\* of the scope, and checks again before it records the subscription.
SubscribeOpen(u, s) ==
  /\ upc[u] = "new" /\ s \in created /\ ~Closed(s)
  /\ upc' = [upc EXCEPT ![u] = "checked"]
  /\ home' = [home EXCEPT ![u] = s]
  /\ UNCHANGED <<treeVars, disposerVars, historyVars, busVars>>

SubscribeOnBus(u) ==
  /\ upc[u] = "checked"
  /\ BusSubscribe(u)
  /\ upc' = [upc EXCEPT ![u] = "listed"]
  /\ UNCHANGED <<treeVars, disposerVars, home, historyVars>>

\* Mutant: the scope is not looked at again.
SubscribeRecordBlind(u) ==
  /\ upc[u] = "listed"
  /\ upc' = [upc EXCEPT ![u] = "done"]
  /\ subs' = [subs EXCEPT ![home[u]] = Append(@, u)]
  /\ UNCHANGED <<created, kids, hooks, closing, disposed, rest, disposeMu, disposerVars, home,
                 historyVars, busVars>>

SubscribeRecord(u) ==
  /\ upc[u] = "listed"
  /\ IF Closed(home[u])
     THEN upc' = [upc EXCEPT ![u] = "refused"] /\ UNCHANGED subs
     ELSE /\ upc' = [upc EXCEPT ![u] = "done"]
          /\ subs' = [subs EXCEPT ![home[u]] = Append(@, u)]
  /\ UNCHANGED <<created, kids, hooks, closing, disposed, rest, disposeMu, disposerVars, home,
                 historyVars, busVars>>

SubscribeUndo(u) ==
  /\ upc[u] = "refused"
  /\ Unlist(u)
  /\ UNCHANGED scopeVars

\* The plugin ends its subscription itself.
Unsubscribe(u) ==
  /\ upc[u] = "done"
  /\ Unlist(u)
  /\ UNCHANGED scopeVars

-----------------------------------------------------------------------------
Active(d) == dst[d] \notin {"new", "returned"}
At(d) == Head(stack[d])

\* Dispose(ctx) from unload, cleanupFailedLoad, a blue-green drain or the plugin.
Dispose(d, s) ==
  /\ dst[d] = "new" /\ s \in created
  /\ stack' = [stack EXCEPT ![d] = <<s>>]
  /\ dst' = [dst EXCEPT ![d] = "lock"]
  /\ UNCHANGED <<treeVars, left, ctxDone, userVars, historyVars, busVars>>

ContextEnds(d) ==
  /\ Active(d) /\ d \in Limited \ ctxDone
  /\ ctxDone' = ctxDone \cup {d}
  /\ UNCHANGED <<treeVars, stack, dst, left, userVars, historyVars, busVars>>

\* Mutant: disposeMu is not released.
LeaveLocked(d) ==
  /\ stack' = [stack EXCEPT ![d] = Tail(@)]
  /\ dst' = [dst EXCEPT ![d] = IF stack'[d] = <<>> THEN "returned" ELSE "work"]
  /\ UNCHANGED disposeMu

\* Dispose of a scope returns: to the loop over the children of the parent, or out.
LeaveScope(d) ==
  /\ disposeMu' = [disposeMu EXCEPT ![At(d)] = IF @ = d THEN Nothing ELSE @]
  /\ stack' = [stack EXCEPT ![d] = Tail(@)]
  /\ dst' = [dst EXCEPT ![d] = IF stack'[d] = <<>> THEN "returned" ELSE "work"]

\* disposeStarted
\* Mutant: the snapshots are taken again.
StartedNever(s) == FALSE
Started(s) == s \in closing

\* With disposeMu: the first call takes the snapshots, the next go on with the rest.
EnterScope(d) ==
  LET s == At(d) IN
  /\ dst[d] = "lock" /\ disposeMu[s] = Nothing
  /\ IF s \in disposed
     THEN LeaveScope(d) /\ UNCHANGED <<closing, rest, left>>
     ELSE /\ disposeMu' = [disposeMu EXCEPT ![s] = d]
          /\ dst' = [dst EXCEPT ![d] = "work"]
          /\ closing' = closing \cup {s}
          /\ IF Started(s) THEN UNCHANGED <<rest, left>>
             ELSE /\ rest' = [rest EXCEPT ![s] = [kids |-> Reverse(kids[s]), hooks |-> Reverse(hooks[s])]]
                  /\ left' = [left EXCEPT ![d] = subs[s]]
          /\ UNCHANGED stack
  /\ UNCHANGED <<created, kids, subs, hooks, disposed, ctxDone, userVars, historyVars, busVars>>

\* Unsubscribe of the next subscription; it fails when the plugin has done it, and
\* may then have left the list with its state not closed yet.
DisposeSub(d) ==
  /\ dst[d] = "work" /\ left[d] # <<>>
  /\ LET u == Head(left[d]) IN
       IF stage[u] = "on"
       THEN Unlist(u) /\ dst' = [dst EXCEPT ![d] = "close"] /\ UNCHANGED early
       ELSE /\ dst' = [dst EXCEPT ![d] = "wait"]
            /\ early' = IF stage[u] = "off" THEN early \cup {u} ELSE early
            /\ UNCHANGED busVars
  /\ UNCHANGED <<treeVars, stack, left, ctxDone, userVars, ran, cut, hurried>>

\* waitSubscription: until the handlers have ended or the context has.
WaitSub(d) ==
  /\ left[d] # <<>>
  /\ LET u == Head(left[d]) IN
       /\ dst[d] = "wait" \/ (dst[d] = "close" /\ stage[u] = "closed")
       /\ begun[u] = 0 \/ d \in ctxDone
       /\ hurried' = IF begun[u] = 0 THEN hurried ELSE hurried \cup {u}
  /\ left' = [left EXCEPT ![d] = Tail(@)]
  /\ dst' = [dst EXCEPT ![d] = "work"]
  /\ UNCHANGED <<treeVars, stack, ctxDone, userVars, ran, cut, early, busVars>>

InLoops(d) == dst[d] = "work" /\ left[d] = <<>>

DisposeChild(d) ==
  LET s == At(d) IN
  /\ InLoops(d) /\ rest[s].kids # <<>> /\ d \notin ctxDone
  /\ stack' = [stack EXCEPT ![d] = <<Head(rest[s].kids)>> \o @]
  /\ dst' = [dst EXCEPT ![d] = "lock"]
  /\ rest' = [rest EXCEPT ![s].kids = Tail(@)]
  /\ UNCHANGED <<created, kids, subs, hooks, closing, disposed, disposeMu, left, ctxDone,
                 userVars, historyVars, busVars>>

\* Mutant: hooks do not wait for the children.
RunHookBeforeChildren(d) ==
  LET s == At(d) IN
  /\ InLoops(d) /\ rest[s].hooks # <<>> /\ d \notin ctxDone
  /\ ran' = [ran EXCEPT ![Head(rest[s].hooks)] = @ + 1]
  /\ rest' = [rest EXCEPT ![s].hooks = Tail(@)]
  /\ UNCHANGED <<created, kids, subs, hooks, closing, disposed, disposeMu, disposerVars, userVars,
                 cut, hurried, early, busVars>>

RunHook(d) ==
  LET s == At(d) IN
  /\ InLoops(d) /\ rest[s].kids = <<>> /\ rest[s].hooks # <<>> /\ d \notin ctxDone
  /\ ran' = [ran EXCEPT ![Head(rest[s].hooks)] = @ + 1]
  /\ rest' = [rest EXCEPT ![s].hooks = Tail(@)]
  /\ UNCHANGED <<created, kids, subs, hooks, closing, disposed, disposeMu, disposerVars, userVars,
                 cut, hurried, early, busVars>>

\* The context has ended: the scope keeps what remains; the parent of a child only
\* logs the error, and has taken the child off its own remaining children.
DisposeCancelled(d) ==
  LET s == At(d) IN
  /\ InLoops(d) /\ d \in ctxDone
  /\ rest[s].kids # <<>> \/ rest[s].hooks # <<>>
  /\ LeaveScope(d)
  /\ cut' = IF Len(stack[d]) = 1 THEN cut ELSE cut \cup {s}
  /\ UNCHANGED <<created, kids, subs, hooks, closing, disposed, rest, left, ctxDone,
                 userVars, ran, hurried, early, busVars>>

DisposeDone(d) ==
  LET s == At(d) IN
  /\ InLoops(d) /\ rest[s].kids = <<>> /\ rest[s].hooks = <<>>
  /\ disposed' = disposed \cup {s}
  /\ LeaveScope(d)
  /\ UNCHANGED <<created, kids, subs, hooks, closing, rest, left, ctxDone, userVars,
                 historyVars, busVars>>

-----------------------------------------------------------------------------
UserStep ==
  \/ \E c, s \in Scopes : NewChild(c, s)
  \/ \E h \in DisposeHooks, s \in Scopes : OnDispose(h, s)
  \/ \E u \in Subs : \/ \E s \in Scopes : SubscribeOpen(u, s)
                     \/ Unsubscribe(u)

SubscribeStep(u) == SubscribeOnBus(u) \/ SubscribeRecord(u) \/ SubscribeUndo(u)

DisposeStep(d) == \/ EnterScope(d) \/ DisposeSub(d) \/ WaitSub(d) \/ DisposeChild(d)
                  \/ RunHook(d) \/ DisposeCancelled(d) \/ DisposeDone(d)

\* Publications, handlers, and the end of an Unsubscribe.
OnBus == (PublishStep \/ HandlerStep \/ \E u \in Subs : CloseState(u)) /\ UNCHANGED scopeVars

ScopeNext ==
  \/ UserStep \/ OnBus
  \/ \E u \in Subs : SubscribeStep(u)
  \/ \E d \in Disposers : \/ \E s \in Scopes : Dispose(d, s)
                          \/ ContextEnds(d) \/ DisposeStep(d)

\* The plugin need not do anything more; what is under way goes on.
ScopeFairness ==
  /\ \A u \in Subs : WF_<<scopeVars, busVars>>(SubscribeStep(u))
  /\ \A d \in Disposers : WF_<<scopeVars, busVars>>(DisposeStep(d))
  /\ BusFairness

ScopeSafety == BusInit /\ ScopeInit /\ [][ScopeNext]_<<scopeVars, busVars>>
ScopeSpec == ScopeSafety /\ ScopeFairness

-----------------------------------------------------------------------------
ScopeTypeOK ==
  /\ created \subseteq Scopes /\ closing \subseteq Scopes /\ disposed \subseteq Scopes
  /\ kids \in [Scopes -> Seq(Scopes)] /\ subs \in [Scopes -> Seq(Subs)]
  /\ hooks \in [Scopes -> Seq(DisposeHooks)]
  /\ rest \in [Scopes -> [kids : Seq(Scopes), hooks : Seq(DisposeHooks)]]
  /\ disposeMu \in [Scopes -> Disposers \cup {Nothing}]
  /\ stack \in [Disposers -> Seq(Scopes)]
  /\ dst \in [Disposers -> {"new", "lock", "work", "close", "wait", "returned"}]
  /\ left \in [Disposers -> Seq(Subs)]
  /\ ctxDone \subseteq Limited
  /\ upc \in [Subs -> {"new", "checked", "listed", "refused", "done"}]
  /\ home \in [Subs -> Scopes \cup {Nothing}]
  /\ ran \in [DisposeHooks -> Nat]
  /\ cut \subseteq Scopes /\ hurried \subseteq Subs /\ early \subseteq Subs

\* The subscriptions of a scope have been dealt with: what follows in its Dispose, or in
\* a later call, are its children and hooks.
Settled(s) == s \in closing /\ \A d \in Disposers : left[d] # <<>> => At(d) # s

\* A hook runs at most once, whatever calls of Dispose overlap, are cancelled and tried
\* again, and whether it was registered before, during or after them.
HooksOnce == \A h \in DisposeHooks : ran[h] <= 1

\* A disposed scope has forgotten nothing: each of its hooks has run, and each of its
\* children is disposed, unless the context ended while that child was being disposed.
NothingForgotten ==
  \A s \in disposed :
    /\ \A i \in DOMAIN hooks[s] : ran[hooks[s][i]] = 1
    /\ \A i \in DOMAIN kids[s] : kids[s][i] \in disposed \cup cut

\* The hooks of a scope run after those of its children.
ChildrenFirst ==
  \A s \in Scopes : (\E i \in DOMAIN hooks[s] : ran[hooks[s][i]] > 0)
                    => \A i \in DOMAIN kids[s] : kids[s][i] \in disposed \cup cut

\* From the moment Dispose turns to children and hooks, the bus has no subscription of
\* the scope but one whose Subscribe is still to find the scope closed and undo it.
NoneLeftOnBus ==
  \A u \in Subs : stage[u] = "on" /\ home[u] \in Scopes /\ (home[u] \in disposed \/ Settled(home[u]))
                  => upc[u] \in {"listed", "refused"}

\* ... and no handler of the scope runs any more, so that it cannot see what the hooks
\* and the Teardown release: not even one begun for a publication that took the list
\* long before.  Excepted are subscriptions for whose handlers Dispose gave up waiting,
\* and those it found half unsubscribed by the plugin.
HandlersOver ==
  \A s \in Scopes : Settled(s) =>
    \A i \in DOMAIN subs[s] :
      LET u == subs[s][i] IN u \notin hurried \cup early => Of(u, serving) = {}

\* Every call of Dispose returns, however calls on parents and children overlap, when
\* handlers end.
DisposeReturns == \A d \in Disposers : Active(d) ~> ~Active(d)

\* What infra_scope.go:32-33 says of a cancelled Dispose: it is no permanent loss.  When
\* the root is disposed, what was registered in the tree has been cleaned up.
CancelIsNotLoss ==
  Root \in disposed => \A s \in created : \A i \in DOMAIN hooks[s] : ran[hooks[s][i]] = 1

\* The bus under the scopes is the bus of module EventBus.
UsesBus == [][BusNext]_busVars
=============================================================================

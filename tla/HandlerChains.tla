----------------------------- MODULE HandlerChains -----------------------------
(***************************************************************************)
(* core/engine: the middleware around a handler.  The engine keeps the     *)
(* global and per-group middleware in a copy-on-write state (middleware.go)*)
(* and every matcher caches the chain combined for it (matcher.go) and the *)
(* handler compiled from that chain (process.go).  Changes replace the     *)
(* state first and invalidate the caches of the matchers afterwards, while *)
(* events build chains from what they have read before.                    *)
(*                                                                         *)
(* The model follows one permanent matcher and one group.  A chain is the  *)
(* number of the change that made it, 0 when it is empty.  One step is one *)
(* critical section, or one access to an atomic value; the two loads of    *)
(* the fast path, and those of the validation, are one step each.          *)
(***************************************************************************)
EXTENDS Integers

CONSTANTS Invokers,      \* goroutines in invokeHandler
          Changers,      \* goroutines that change middleware, handler or group
          Attempts,      \* maxHandlerChainBuildAttempts
          MaxChanges,    \* bound of the exploration
          NoChain        \* the nil chain

Kinds == {"Use", "UseForGroup", "Reset", "UseLocal", "Handle", "SetMatcherGroup"}

ASSUME ChainAssumption ==
  /\ Attempts \in Nat \ {0}
  /\ MaxChanges \in Nat
  /\ NoChain \notin [all : Nat, group : Nat, local : Nat]

\* `old`, `behind` and `spent` are history: what the code cannot tell (see Load,
\* ReadVersion and ValidateFails).
VARIABLES mw,        \* e.middleware: the global snapshot and that of the group
          grouped,   \* m.group is the group
          indexed,   \* groupIndex lists m under the group
          own,       \* m.Handler and m.middlewares
          combined,  \* m.combinedChain with m.cachedGen
          version,   \* m.compiledVersion
          compiled,  \* m.compiledHandlers
          changes,   \* changes made so far
          cpc, change,   \* per changer: control state, what it holds
          ipc, build     \* per invoker: control state, what it has read

settings == <<mw, grouped, indexed, own, changes>>
cacheVars == <<combined, version, compiled>>
changerVars == <<cpc, change>>
invokerVars == <<ipc, build>>
chainVars == <<settings, cacheVars, changerVars, invokerVars>>

NoEntry == [chain |-> 0, gen |-> 0]
Empty == [chain |-> NoChain, all |-> 0, group |-> 0, old |-> FALSE]
Content(a, g, l) == [all |-> a, group |-> g, local |-> l]

\* What ensureMatcherChainWithState finds: the snapshots for the matcher's group.
Snapshots == [all |-> mw.all, group |-> IF grouped THEN mw.group ELSE NoEntry, old |-> FALSE]

NoBuild == [snap |-> [all |-> NoEntry, group |-> NoEntry, old |-> FALSE], handler |-> 0,
            from |-> Empty, version |-> 0, attempt |-> 0, behind |-> FALSE]
NoChange == [kind |-> "none", to |-> FALSE, snap |-> NoBuild.snap]

ChainInit ==
  /\ mw = [all |-> [chain |-> 0, gen |-> 1], group |-> NoEntry]
  /\ grouped \in BOOLEAN /\ indexed = grouped
  /\ own = [handler |-> 0, local |-> 0]
  /\ combined = Empty
  /\ version = 0
  /\ compiled = NoChain
  /\ changes = 0
  /\ cpc = [c \in Changers |-> "idle"] /\ change = [c \in Changers |-> NoChange]
  /\ ipc = [i \in Invokers |-> "idle"] /\ build = [i \in Invokers |-> NoBuild]

\* invalidateCombinedChain.
Invalidate ==
  /\ combined' = Empty
  /\ compiled' = NoChain
  /\ version' = version + 1

\* ensureChain, in its critical section of rt.mu and cacheMu.
Ensure(s) ==
  IF combined.chain # NoChain /\ combined.all = s.all.gen /\ combined.group = s.group.gen
  THEN UNCHANGED <<combined, version>>
  ELSE /\ combined' = [chain |-> Content(s.all.chain, s.group.chain, own.local),
                       all |-> s.all.gen, group |-> s.group.gen, old |-> s.old]
       /\ version' = version + 1

-----------------------------------------------------------------------------
NoChangePending == \A c \in Changers : cpc[c] = "idle"
NoBuildPending == \A i \in Invokers : ipc[i] = "idle"

New == changes + 1
WriteFree == \A c \in Changers : cpc[c] \notin {"all", "group"}

\* A change begins.
Begins(c, to) ==
  /\ cpc[c] = "idle"
  /\ changes < MaxChanges
  /\ changes' = New
  /\ cpc' = [cpc EXCEPT ![c] = to]

\* Use, UseForGroup and the resets store the new state under writeMu and keep the
\* lock while they invalidate the matchers.
Replace(c, new, scope) ==
  /\ WriteFree
  /\ Begins(c, scope)
  /\ mw' = new
  /\ UNCHANGED <<grouped, indexed, own, version, compiled, ipc>>

\* What has been added moves the generation on.
Add(c, kind, new, scope) ==
  /\ Replace(c, new, scope)
  /\ change' = [change EXCEPT ![c].kind = kind]
  /\ UNCHANGED <<combined, build>>

Use(c) == Add(c, "Use", [mw EXCEPT !.all = [chain |-> New, gen |-> @.gen + 1]], "all")

UseForGroup(c) ==
  Add(c, "UseForGroup", [mw EXCEPT !.group = [chain |-> New, gen |-> IF @.gen = 0 THEN 2 ELSE @.gen + 1]], "group")

\* A reset lets the generations begin anew.  History: what has been read of this
\* matcher's middleware before is old from now on.
Aged(x) == [x EXCEPT !.old = TRUE]

Discard(c, new, scope) ==
  /\ Replace(c, new, scope)
  /\ IF scope = "group" /\ ~grouped
     THEN change' = [change EXCEPT ![c].kind = "Reset"] /\ UNCHANGED <<combined, build>>
     ELSE /\ combined' = IF combined.chain = NoChain THEN combined ELSE Aged(combined)
          /\ change' = [d \in Changers |->
               IF d = c THEN [change[d] EXCEPT !.kind = "Reset"]
               ELSE IF cpc[d] = "ensure" THEN [change[d] EXCEPT !.snap = Aged(@)] ELSE change[d]]
          /\ build' = [i \in Invokers |->
               IF ipc[i] = "ensure" THEN [build[i] EXCEPT !.snap = Aged(@)]
               ELSE IF ipc[i] \in {"version", "store", "validate"} THEN [build[i] EXCEPT !.from = Aged(@)]
               ELSE build[i]]

ResetMiddlewares(c) == Discard(c, [all |-> [chain |-> 0, gen |-> 1], group |-> NoEntry], "all")

ResetGroupMiddleware(c) ==
  /\ mw.group # NoEntry
  /\ Discard(c, [mw EXCEPT !.group = NoEntry], "group")

\* The loop over the matchers; for a group, over those that its index lists.
InvalidateMatcher(c) ==
  /\ cpc[c] \in {"all", "group"}
  /\ IF cpc[c] = "all" \/ indexed THEN Invalidate ELSE UNCHANGED cacheVars
  /\ cpc' = [cpc EXCEPT ![c] = "idle"]
  /\ change' = [change EXCEPT ![c] = NoChange]
  /\ UNCHANGED <<settings, invokerVars>>

\* Who registers or reloads a matcher gives it its group before it gets a handler,
\* or while it is disabled: nobody builds its chain or changes the matcher then.
Grouping == \E c \in Changers : change[c].kind = "SetMatcherGroup"

\* Matcher.Use and Matcher.Handle, up to the unlock of rt.mu.
UseLocal(c) ==
  /\ ~Grouping
  /\ Begins(c, "rebuild")
  /\ own' = [own EXCEPT !.local = New]
  /\ Invalidate
  /\ change' = [change EXCEPT ![c].kind = "UseLocal"]
  /\ UNCHANGED <<mw, grouped, indexed, invokerVars>>

Handle(c) ==
  /\ ~Grouping
  /\ Begins(c, "rebuild")
  /\ own' = [own EXCEPT !.handler = New]
  /\ version' = version + 1
  /\ change' = [change EXCEPT ![c].kind = "Handle"]
  /\ UNCHANGED <<mw, grouped, indexed, combined, compiled, invokerVars>>

\* Engine.SetMatcherGroup: the field, under rt.mu; the index, under writeMu.
SetMatcherGroup(c) ==
  /\ NoBuildPending /\ \A d \in Changers : cpc[d] \in {"idle", "all", "group"}
  /\ Begins(c, "index")
  /\ grouped' = ~grouped
  /\ Invalidate
  /\ change' = [change EXCEPT ![c].kind = "SetMatcherGroup", ![c].to = ~grouped]
  /\ UNCHANGED <<mw, indexed, own, invokerVars>>

IndexGroup(c) ==
  /\ cpc[c] = "index"
  /\ WriteFree
  /\ indexed' = change[c].to
  /\ cpc' = [cpc EXCEPT ![c] = "rebuild"]
  /\ UNCHANGED <<mw, grouped, own, changes, cacheVars, change, invokerVars>>

\* RebuildMatcherChain.
RebuildLoad(c) ==
  /\ cpc[c] = "rebuild"
  /\ change' = [change EXCEPT ![c].snap = Snapshots]
  /\ cpc' = [cpc EXCEPT ![c] = "ensure"]
  /\ UNCHANGED <<settings, cacheVars, invokerVars>>

RebuildEnsure(c) ==
  /\ cpc[c] = "ensure"
  /\ Ensure(change[c].snap)
  /\ cpc' = [cpc EXCEPT ![c] = "idle"]
  /\ change' = [change EXCEPT ![c] = NoChange]
  /\ UNCHANGED <<settings, compiled, invokerVars>>

-----------------------------------------------------------------------------
Hit == compiled # NoChain /\ compiled.version = version
Step(i, from, to) == ipc[i] = from /\ ipc' = [ipc EXCEPT ![i] = to]

\* invokeHandler: what is compiled for the present version runs at once, which
\* changes nothing here.  Else the handler is read and a chain is built.
SlowPath(i) ==
  /\ ~Hit
  /\ ~Grouping
  /\ Step(i, "idle", "load")
  /\ build' = [build EXCEPT ![i] = [NoBuild EXCEPT !.handler = own.handler, !.attempt = 1]]
  /\ UNCHANGED <<settings, cacheVars, changerVars>>

\* buildHandlerChain, step by step.
Load(i) ==
  /\ Step(i, "load", "ensure")
  /\ build' = [build EXCEPT ![i].snap = Snapshots]
  /\ UNCHANGED <<settings, cacheVars, changerVars>>

EnsureChain(i) ==
  /\ Step(i, "ensure", "get")
  /\ Ensure(build[i].snap)
  /\ build' = [build EXCEPT ![i].snap = NoBuild.snap]
  /\ UNCHANGED <<settings, compiled, changerVars>>

\* After the last attempt the chain is used and not cached.
GetChain(i) ==
  /\ Step(i, "get", IF build[i].attempt > Attempts THEN "idle" ELSE "version")
  /\ build' = [build EXCEPT ![i] = IF build[i].attempt > Attempts THEN NoBuild
                                ELSE [@ EXCEPT !.from = combined]]
  /\ UNCHANGED <<settings, cacheVars, changerVars>>

\* History: the handler or the middleware of the matcher itself has been replaced
\* since it was read, and the version that is read tells nothing of it.
Overtaken(b) == b.handler # own.handler \/ (b.from.chain # NoChain /\ b.from.chain.local # own.local)

ReadVersion(i) ==
  /\ Step(i, "version", "store")
  /\ build' = [build EXCEPT ![i].version = version, ![i].behind = Overtaken(build[i])]
  /\ UNCHANGED <<settings, cacheVars, changerVars>>

\* The factories of the middleware have run meanwhile.
Stored(b) == [chain |-> b.from.chain, handler |-> b.handler, version |-> b.version,
              spent |-> FALSE, old |-> b.from.old, behind |-> b.behind]

Store(i) ==
  /\ Step(i, "store", "validate")
  /\ compiled' = Stored(build[i])
  /\ UNCHANGED <<settings, combined, version, changerVars, build>>

\* chainSnapshotValid.  Mutant: it looks at the version alone.
ValidByVersion(b) == version = b.version
Valid(b) ==
  /\ version = b.version
  /\ b.from.all = Snapshots.all.gen /\ b.from.group = Snapshots.group.gen

ValidateOk(i) ==
  /\ Valid(build[i])
  /\ Step(i, "validate", "idle")
  /\ build' = [build EXCEPT ![i] = NoBuild]
  /\ UNCHANGED <<settings, cacheVars, changerVars>>

\* What was stored stays; after the last attempt nobody will replace it.
LastAttempt(i) == build[i].attempt = Attempts
ValidateFails(i) ==
  /\ ~Valid(build[i])
  /\ Step(i, "validate", "load")
  /\ build' = [build EXCEPT ![i] = [NoBuild EXCEPT !.handler = build[i].handler, !.attempt = build[i].attempt + 1]]
  /\ compiled' = IF LastAttempt(i) /\ compiled = Stored(build[i])
                 THEN [compiled EXCEPT !.spent = TRUE] ELSE compiled
  /\ UNCHANGED <<settings, combined, version, changerVars>>

-----------------------------------------------------------------------------
Change(c) ==
  \/ Use(c) \/ UseForGroup(c) \/ ResetMiddlewares(c) \/ ResetGroupMiddleware(c)
  \/ UseLocal(c) \/ Handle(c) \/ SetMatcherGroup(c)
FinishChange(c) == InvalidateMatcher(c) \/ IndexGroup(c) \/ RebuildLoad(c) \/ RebuildEnsure(c)
Invoke(i) ==
  \/ SlowPath(i) \/ Load(i) \/ EnsureChain(i) \/ GetChain(i)
  \/ ReadVersion(i) \/ Store(i) \/ ValidateOk(i) \/ ValidateFails(i)

ChainNext ==
  \/ \E c \in Changers : Change(c) \/ FinishChange(c)
  \/ \E i \in Invokers : Invoke(i)

ChainSpec == ChainInit /\ [][ChainNext]_chainVars

-----------------------------------------------------------------------------
Current == Content(Snapshots.all.chain, Snapshots.group.chain, own.local)
CompiledIsCurrent == compiled.chain = Current /\ compiled.handler = own.handler

AtRest == NoChangePending /\ NoBuildPending /\ Hit

\* When changes and builds have come to rest, events do not run through an older
\* chain or into an older handler, whatever was read, cached and invalidated in
\* between (process.go:216-244).  Left out: an entry that the last of the attempts
\* stored and found invalid (`spent`), one made of what was read before a reset
\* (`old`), and one whose version was read after a call of Matcher.Use or
\* Matcher.Handle had replaced what it is made of (`behind`).
RestingCacheCurrent ==
  AtRest /\ ~compiled.spent /\ ~compiled.old /\ ~compiled.behind => CompiledIsCurrent

\* "Event goroutines may run concurrently with changes of the middleware (Use,
\* UseForGroup, ResetMiddlewares)": a chain is cached only when it agrees with the
\* present state, lest the hot path hit an old one from then on (process.go:216-223).
NoOldChainStays == AtRest /\ ~compiled.spent /\ ~compiled.behind => CompiledIsCurrent
=============================================================================

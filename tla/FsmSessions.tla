----------------------------- MODULE FsmSessions -----------------------------
(***************************************************************************)
(* core/fsm: the sessions of conversations that run through state machines *)
(* (fsm.go, context.go, storage.go), and the router that feeds messages to *)
(* them.  Callers for one session ID exclude each other by a lock that stays *)
(* held while hooks of the application run; the cleaner and the            *)
(* registration of machines do not take it.  Storage hands out pointers:   *)
(* sessions are objects, and the map `stored' refers to them.              *)
(*                                                                         *)
(* Which event a message matches first is the message's choice, so any     *)
(* applicable event may be taken; an absent hook is one that returns.      *)
(***************************************************************************)
EXTENDS Integers, Sequences, FiniteSets

CONSTANTS Callers,         \* goroutines that handle messages or call the engine
          Sids, Users, UserOf,     \* who sends the message of a call
          Fsms, Initial, Events,   \* per machine: initial state; set of [from, to]
          EndState,      \* the empty To
          AnyState,      \* From = "*"
          Expiring, Refreshing, OwnerScoped,   \* sets of machines
          Timeout,
          MaxNow, MaxMade,   \* bounds of the exploration: clock, objects made
          NoCall, NoSession, NoUser, Untold

ASSUME FsmAssumption ==
  /\ Initial \in [Fsms -> STRING]
  /\ \A f \in Fsms : \A e \in Events[f] : {e.from, e.to} \subseteq STRING
  /\ EndState \in STRING /\ Untold \notin STRING
  /\ Timeout \in Nat \ {0} /\ MaxNow \in Nat /\ MaxMade \in Nat
  /\ NoCall \notin Callers
  /\ NoSession \notin [fsm : Fsms, state : STRING]
  /\ NoUser \notin Users /\ UserOf \in [Callers -> Users \cup {NoUser}]

VARIABLES registered,  \* e.fsms: the machines registered at present
          session,     \* the session objects made so far
          stored,      \* MemoryStorage.sessions: per ID an object, or 0
          holder,      \* per ID: who holds the session lock
          now,         \* the clock
          fpc,         \* per call: idle, want, action, enter, init, update
          call,        \* per call: what it does, on what
          ended,       \* history: objects ended by a call
          told         \* history: per object the state last reported to a caller

fsmVars == <<registered, session, stored, holder, now, fpc, call, ended, told>>
lockVars == <<holder, fpc, call>>

Objects == 1 .. Len(session)
Hooks == {"action", "enter", "init"}
NoOp == [op |-> "none", sid |-> NoSession, fsm |-> NoSession,
         obj |-> 0, to |-> EndState, prev |-> EndState, ended |-> FALSE]

Session == [sid : Sids, fsm : Fsms, current : STRING, expire : Nat, owner : Users \cup {NoUser}]
Call == [op : {"none", "transition", "tryStart", "start", "update"},
         sid : Sids \cup {NoSession}, fsm : Fsms \cup {NoSession},
         obj : Nat, to : STRING, prev : STRING, ended : BOOLEAN]

FsmTypeOK ==
  /\ registered \subseteq Fsms
  /\ session \in Seq(Session)
  /\ stored \in [Sids -> {0} \cup Objects]
  /\ holder \in [Sids -> Callers \cup {NoCall}]
  /\ now \in Nat
  /\ fpc \in [Callers -> {"idle", "want", "update"} \cup Hooks]
  /\ call \in [Callers -> Call]
  /\ ended \subseteq Objects
  /\ told \in [Objects -> {Untold} \cup STRING]

FsmInit ==
  /\ registered = Fsms
  /\ session = <<>>
  /\ stored = [s \in Sids |-> 0]
  /\ holder = [s \in Sids |-> NoCall]
  /\ now = 0
  /\ fpc = [c \in Callers |-> "idle"]
  /\ call = [c \in Callers |-> NoOp]
  /\ ended = {}
  /\ told = <<>>

-----------------------------------------------------------------------------
Applicable(f, st) == {e \in Events[f] : e.from \in {st, AnyState}}
Expired(o) == session[o].expire > 0 /\ session[o].expire <= now

\* Storage.Get: an expired session counts as absent, though it is not removed.
Lookup(s) == IF stored[s] # 0 /\ ~Expired(stored[s]) THEN stored[s] ELSE 0

\* A start is refused while the session that exists could still go on; one
\* whose machine is gone or has no edge from its state is deleted first.
BlocksStart(o) ==
  /\ o # 0
  /\ session[o].fsm \in registered
  /\ Applicable(session[o].fsm, session[o].current) # {}

OwnerOK(o, u) == session[o].owner \in {NoUser, u}
ExpiryOf(f) == IF f \in Expiring THEN now + Timeout ELSE 0

Made(s, f, u) == [sid |-> s, fsm |-> f, current |-> Initial[f], expire |-> ExpiryOf(f),
                  owner |-> IF f \in OwnerScoped THEN u ELSE NoUser]

Released(c) == [holder EXCEPT ![call[c].sid] = NoCall]

\* The call is over.
Leave(c) ==
  /\ fpc' = [fpc EXCEPT ![c] = "idle"]
  /\ call' = [call EXCEPT ![c] = NoOp]

\* The call returns "not moved" or an error; handleFSM then tries to start.
Rejected(c) ==
  IF call[c].op = "transition"
  THEN /\ fpc' = [fpc EXCEPT ![c] = "want"]
       /\ call' = [call EXCEPT ![c] = [NoOp EXCEPT !.op = "tryStart", !.sid = call[c].sid]]
  ELSE Leave(c)

\* Bound of the exploration: objects are made only while there is room for one
\* more beside those that calls of StartSession are about to make.
MayMake == Len(session) + Cardinality({d \in Callers : fpc[d] = "want" /\ call[d].op = "start"}) < MaxMade

Free(c) == fpc[c] = "want" /\ holder[call[c].sid] = NoCall

\* OnExit of the present state and the action of the event run one after the
\* other; a failure, a panic or an end in either does the same, so both are "action".
Hooked(c, o, f, to, step) ==
  /\ holder' = [holder EXCEPT ![call[c].sid] = c]
  /\ fpc' = [fpc EXCEPT ![c] = step]
  /\ call' = [call EXCEPT ![c].obj = o, ![c].fsm = f, ![c].to = to]

-----------------------------------------------------------------------------
\* Router.handleFSM, or another caller of the engine.
Message(c) ==
  /\ fpc[c] = "idle"
  /\ \E s \in Sids : call' = [call EXCEPT ![c] = [NoOp EXCEPT !.op = "transition", !.sid = s]]
  /\ fpc' = [fpc EXCEPT ![c] = "want"]
  /\ UNCHANGED <<registered, session, stored, holder, now, ended, told>>

\* TryTransition: no session, another owner, no machine, or no event matches.
TransitionRefused(c) ==
  /\ Free(c) /\ call[c].op = "transition"
  /\ Rejected(c)
  /\ UNCHANGED <<registered, session, stored, holder, now, ended, told>>

TransitionBegin(c) ==
  /\ Free(c) /\ call[c].op = "transition"
  /\ LET o == Lookup(call[c].sid) IN
       /\ o # 0
       /\ OwnerOK(o, UserOf[c])
       /\ session[o].fsm \in registered
       /\ \E e \in Applicable(session[o].fsm, session[o].current) :
            Hooked(c, o, session[o].fsm, e.to, "action")
  /\ UNCHANGED <<registered, session, stored, now, ended, told>>

\* Session IDs with an orphaned or stuck session lose it.
StoredForStart(s) == IF Lookup(s) # 0 THEN [stored EXCEPT ![s] = 0] ELSE stored

TryStartBlocked(c) ==
  /\ Free(c) /\ call[c].op = "tryStart"
  /\ BlocksStart(Lookup(call[c].sid))
  /\ Leave(c)
  /\ UNCHANGED <<registered, session, stored, holder, now, ended, told>>

TryStartNone(c) ==
  /\ Free(c) /\ call[c].op = "tryStart"
  /\ ~BlocksStart(Lookup(call[c].sid))
  /\ stored' = StoredForStart(call[c].sid)
  /\ ended' = ended \cup ({Lookup(call[c].sid)} \ {0})
  /\ Leave(c)
  /\ UNCHANGED <<registered, session, holder, now, told>>

TryStartBegin(c) ==
  /\ Free(c) /\ call[c].op = "tryStart"
  /\ ~BlocksStart(Lookup(call[c].sid))
  /\ MayMake
  /\ stored' = StoredForStart(call[c].sid)
  /\ ended' = ended \cup ({Lookup(call[c].sid)} \ {0})
  /\ \E f \in registered : \E e \in Applicable(f, Initial[f]) :
       /\ session' = Append(session, Made(call[c].sid, f, UserOf[c]))
       /\ Hooked(c, Len(session) + 1, f, e.to, "action")
  /\ told' = Append(told, Untold)
  /\ UNCHANGED <<registered, now>>

\* StartSession looks the machine up before it takes the lock.
StartCall(c) ==
  /\ fpc[c] = "idle"
  /\ MayMake
  /\ \E s \in Sids, f \in registered :
       call' = [call EXCEPT ![c] = [NoOp EXCEPT !.op = "start", !.sid = s, !.fsm = f]]
  /\ fpc' = [fpc EXCEPT ![c] = "want"]
  /\ UNCHANGED <<registered, session, stored, holder, now, ended, told>>

\* Mutant: StartSession does not look for an existing session.
StartsOver(c) == Free(c) /\ call[c].op = "start"
MayStart(c) == Free(c) /\ call[c].op = "start" /\ Lookup(call[c].sid) = 0

StartExists(c) ==
  /\ Free(c) /\ call[c].op = "start"
  /\ ~MayStart(c)
  /\ Leave(c)
  /\ UNCHANGED <<registered, session, stored, holder, now, ended, told>>

\* The session is saved before OnEnter of the initial state runs.
StartSave(c) ==
  /\ MayStart(c)
  /\ session' = Append(session, Made(call[c].sid, call[c].fsm, UserOf[c]))
  /\ stored' = [stored EXCEPT ![call[c].sid] = Len(session) + 1]
  /\ Hooked(c, Len(session) + 1, call[c].fsm, Initial[call[c].fsm], "init")
  /\ told' = Append(told, Untold)
  /\ UNCHANGED <<registered, now, ended>>

\* EndSession(sid), from outside a hook, under the session lock.
EndSession(s) ==
  /\ holder[s] = NoCall
  /\ stored[s] # 0
  /\ stored' = [stored EXCEPT ![s] = 0]
  /\ ended' = ended \cup {stored[s]}
  /\ UNCHANGED <<registered, session, lockVars, now, told>>

\* UpdateSessionData: Get, the change of the data, Save.
UpdateCall(c) ==
  /\ fpc[c] = "idle"
  /\ \E s \in Sids :
       /\ holder[s] = NoCall
       /\ Lookup(s) # 0
       /\ call' = [call EXCEPT ![c] = [NoOp EXCEPT !.op = "update", !.sid = s, !.obj = Lookup(s)]]
       /\ holder' = [holder EXCEPT ![s] = c]
  /\ fpc' = [fpc EXCEPT ![c] = "update"]
  /\ UNCHANGED <<registered, session, stored, now, ended, told>>

UpdateSave(c) ==
  /\ fpc[c] = "update"
  /\ stored' = [stored EXCEPT ![call[c].sid] = call[c].obj]
  /\ holder' = Released(c)
  /\ Leave(c)
  /\ UNCHANGED <<registered, session, now, ended, told>>

-----------------------------------------------------------------------------
\* FSMContext.EndSession, called by a hook: the session is deleted at once, and
\* the call remembers it.  In OnEnter of a transition or of TryStartSession the
\* memory is not asked any more: the session is saved afterwards (fsm.go:404,
\* 522).  So what ends there is not counted as ended.
HookEnds(c) ==
  /\ fpc[c] \in Hooks
  /\ ~call[c].ended
  /\ call' = [call EXCEPT ![c].ended = TRUE]
  /\ stored' = [stored EXCEPT ![call[c].sid] = 0]
  /\ ended' = IF fpc[c] = "enter" THEN ended ELSE ended \cup {call[c].obj}
  /\ UNCHANGED <<registered, session, holder, now, fpc, told>>

\* A hook returns an error.  OnEnter of a transition is undone.
Undone(c) ==
  IF fpc[c] = "enter" /\ call[c].op = "transition"
  THEN [session EXCEPT ![call[c].obj].current = call[c].prev] ELSE session

HookFails(c) ==
  /\ fpc[c] \in Hooks
  /\ session' = Undone(c)
  /\ stored' = IF fpc[c] = "init" THEN [stored EXCEPT ![call[c].sid] = 0] ELSE stored
  /\ ended' = IF fpc[c] = "init" \/ (fpc[c] = "enter" /\ call[c].ended) THEN ended \cup {call[c].obj} ELSE ended
  /\ holder' = Released(c)
  /\ Rejected(c)
  /\ UNCHANGED <<registered, now, told>>

\* A hook panics: the deferred unlock runs and nothing else; whoever called
\* handleFSM recovers.  The state is as the hook found it, reported to nobody.
HookPanics(c) ==
  /\ fpc[c] \in Hooks \cup {"update"}
  /\ holder' = Released(c)
  /\ told' = [told EXCEPT ![call[c].obj] = IF fpc[c] = "enter" THEN Untold ELSE @]
  /\ Leave(c)
  /\ UNCHANGED <<registered, session, stored, now, ended>>

\* After the action the session is over if a hook ended it or the event has no
\* To.  Mutant: only the event is asked.
OverByEvent(c) == call[c].to = EndState
Over(c) == call[c].ended \/ call[c].to = EndState

ActionEnds(c) ==
  /\ fpc[c] = "action"
  /\ Over(c)
  /\ stored' = IF call[c].op = "transition" THEN [stored EXCEPT ![call[c].sid] = 0] ELSE stored
  /\ ended' = ended \cup {call[c].obj}
  /\ holder' = Released(c)
  /\ Leave(c)
  /\ UNCHANGED <<registered, session, now, told>>

\* The object is changed in place; its expiry moves before OnEnter runs.
ActionMoves(c) ==
  /\ fpc[c] = "action"
  /\ ~Over(c)
  /\ LET o == call[c].obj
         refresh == call[c].op = "transition" /\ call[c].fsm \in Expiring \cap Refreshing
     IN /\ session' = [session EXCEPT
             ![o].current = call[c].to,
             ![o].expire = IF refresh THEN now + Timeout ELSE @]
        /\ call' = [call EXCEPT ![c].prev = session[o].current]
  /\ fpc' = [fpc EXCEPT ![c] = "enter"]
  /\ UNCHANGED <<registered, stored, holder, now, ended, told>>

\* Mutant: no Save, as the object in the map has been changed already.
NotSaved(c) == IF call[c].op = "transition" THEN stored ELSE [stored EXCEPT ![call[c].sid] = call[c].obj]
Saved(c) == [stored EXCEPT ![call[c].sid] = call[c].obj]

EnterReturns(c) ==
  /\ fpc[c] = "enter"
  /\ stored' = Saved(c)
  /\ told' = [told EXCEPT ![call[c].obj] = call[c].to]
  /\ holder' = Released(c)
  /\ Leave(c)
  /\ UNCHANGED <<registered, session, now, ended>>

InitReturns(c) ==
  /\ fpc[c] = "init"
  /\ told' = [told EXCEPT ![call[c].obj] = call[c].to]
  /\ holder' = Released(c)
  /\ Leave(c)
  /\ UNCHANGED <<registered, session, stored, now, ended>>

-----------------------------------------------------------------------------
Register(f) ==
  /\ f \notin registered
  /\ registered' = registered \cup {f}
  /\ UNCHANGED <<session, stored, lockVars, now, ended, told>>

Unregister(f) ==
  /\ f \in registered
  /\ registered' = registered \ {f}
  /\ UNCHANGED <<session, stored, lockVars, now, ended, told>>

\* The tick of a cleaner: Storage.Cleanup, under the lock of the storage and not
\* of any session.  Whether one runs, and when, is open: StartCleanup may never
\* be called, and its ticker is slow.  Two ticks in a row do what one does.
Cleanup ==
  /\ \E s \in Sids : stored[s] # 0 /\ Expired(stored[s])
  /\ stored' = [s \in Sids |-> IF stored[s] # 0 /\ Expired(stored[s]) THEN 0 ELSE stored[s]]
  /\ told' = [o \in Objects |-> IF o \in {stored[s] : s \in Sids} /\ Expired(o) THEN Untold ELSE told[o]]
  /\ UNCHANGED <<registered, session, lockVars, now, ended>>

Tick ==
  /\ now < MaxNow
  /\ now' = now + 1
  /\ UNCHANGED <<registered, session, stored, lockVars, ended, told>>

\* What a call that has begun does next.
CallStep(c) ==
  \/ TransitionRefused(c) \/ TransitionBegin(c)
  \/ TryStartBlocked(c) \/ TryStartNone(c) \/ TryStartBegin(c)
  \/ StartExists(c) \/ StartSave(c) \/ UpdateSave(c)
  \/ HookEnds(c) \/ HookFails(c) \/ HookPanics(c)
  \/ ActionEnds(c) \/ ActionMoves(c) \/ EnterReturns(c) \/ InitReturns(c)

FsmNext ==
  \/ \E c \in Callers : Message(c) \/ StartCall(c) \/ UpdateCall(c) \/ CallStep(c)
  \/ \E s \in Sids : EndSession(s)
  \/ \E f \in Fsms : Register(f) \/ Unregister(f)
  \/ Cleanup \/ Tick

FsmSpec == FsmInit /\ [][FsmNext]_fsmVars
-----------------------------------------------------------------------------
\* A session that was ended does not come back: neither through EndSession of
\* another goroutine, nor through a call that was under way, nor through the
\* cleaner or an update of its data (fsm.go:595-606 against 522 and 633).
\* A hook that ends the session in OnEnter is the exception named above.
EndedStaysEnded == \A s \in Sids : stored[s] \notin ended

\* What a caller was told is what is stored: while nobody holds the lock, a
\* session of which a state was reported is in the map, in that state, unless
\* it was ended or has expired.  Failed transitions, transitions during which
\* the session expired and was cleaned away, and starts that lost a race must
\* all leave it so (fsm.go:500-522, 692).
AnswersHold ==
  \A o \in Objects :
    told[o] # Untold /\ o \notin ended /\ holder[session[o].sid] = NoCall /\ ~Expired(o)
    => stored[session[o].sid] = o /\ session[o].current = told[o]

\* context.go:45-46, and 12-17 of OnEnter too: once a hook has called EndSession
\* the session ends, whatever the To of the event.  So it is not stored when the
\* call is over.
HookEndHolds ==
  [][\A c \in Callers :
       fpc[c] \in Hooks /\ call[c].ended /\ fpc'[c] = "idle" =>
         stored'[call[c].sid] # call[c].obj]_fsmVars

\* Seen from outside, a session is at the state before the transition until
\* the transition has returned.
Transiting(s) == holder[s] # NoCall /\ call[holder[s]].op = "transition"
Phase(s) ==
  IF Transiting(s)
  THEN LET c == holder[s] IN
         [fsm |-> call[c].fsm,
          state |-> IF fpc[c] = "enter" THEN call[c].prev ELSE session[call[c].obj].current]
  ELSE IF Lookup(s) = 0 THEN NoSession
  ELSE [fsm |-> session[Lookup(s)].fsm, state |-> session[Lookup(s)].current]

Protocol == INSTANCE SessionProtocol WITH phase <- [s \in Sids |-> Phase(s)]

\* The engine implements the protocol: sessions begin at a start of their
\* machine, move along its edges, and are never replaced without having ended,
\* whatever locks, hooks, storage and registration do (fsm.go:314-590).
ImplementsProtocol == Protocol!Spec
=============================================================================

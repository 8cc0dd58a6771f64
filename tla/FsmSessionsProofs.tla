--------------------------- MODULE FsmSessionsProofs ---------------------------
(***************************************************************************)
(* For any number of callers, session IDs and machines: a session that was *)
(* ended is never stored again; what a caller was told of a session is     *)
(* what is stored; and the engine implements the protocol that is seen     *)
(* from outside.                                                           *)
(*                                                                         *)
(* The lock of a session ID orders the calls that end a session and those  *)
(* that store one; a call that is about to store has looked the object up, *)
(* or made it, under the lock it still holds (IInv).  The cleaner and the  *)
(* clock do not ask for the lock: what a call knows of its object has to   *)
(* survive them (AnswerInv).                                               *)
(***************************************************************************)
EXTENDS FsmSessions, SequenceTheorems, TLAPS

InHook(c) == fpc[c] \in Hooks \cup {"update"}

\* A call works on an object of its session ID, under the lock of that ID.
LockedCall(c) ==
  /\ fpc[c] # "idle" => call[c].sid \in Sids
  /\ fpc[c] = "want" => ~call[c].ended
  /\ fpc[c] = "want" /\ call[c].op = "start" => call[c].fsm \in Fsms
  /\ InHook(c) => /\ holder[call[c].sid] = c
                  /\ call[c].obj \in Objects
                  /\ session[call[c].obj].sid = call[c].sid
Locked == \A c \in Callers : LockedCall(c)

\* Objects are stored under their own ID.
StoredAtHome == \A s \in Sids : stored[s] # 0 => session[stored[s]].sid = s

\* What a call will store has not been ended.
StillAlive ==
  \A c \in Callers :
    /\ fpc[c] \in {"enter", "update"} => call[c].obj \notin ended
    /\ fpc[c] = "action" /\ ~call[c].ended => call[c].obj \notin ended

\* An object that the call ended in OnEnter, or has not saved yet, is not stored.
NotStored ==
  \A c \in Callers :
    \/ fpc[c] = "enter" /\ call[c].ended
    \/ fpc[c] = "action" /\ call[c].op # "transition"
    => stored[call[c].sid] # call[c].obj

IInv == FsmTypeOK /\ Locked /\ StoredAtHome /\ StillAlive /\ NotStored /\ EndedStaysEnded

-----------------------------------------------------------------------------
(* Helpers *)

\* The other calls do nothing meanwhile.
Others(c) == \A d \in Callers \ {c} : call'[d] = call[d] /\ fpc'[d] = fpc[d]

LEMMA NoOpIsCall ==
  /\ NoOp \in Call /\ ~NoOp.ended /\ NoOp.op = "none"
  /\ \A o \in {"transition", "tryStart"} : \A s \in Sids :
       [NoOp EXCEPT !.op = o, !.sid = s] \in Call
  /\ \A s \in Sids, f \in Fsms : [NoOp EXCEPT !.op = "start", !.sid = s, !.fsm = f] \in Call
  /\ \A s \in Sids, o \in Nat : [NoOp EXCEPT !.op = "update", !.sid = s, !.obj = o] \in Call
  BY FsmAssumption DEF NoOp, Call

\* One call changes what it does.
LEMMA CallChanges ==
  ASSUME FsmTypeOK, NEW c \in Callers, NEW x \in Call,
         NEW st \in {"idle", "want", "update"} \cup Hooks,
         call' = [call EXCEPT ![c] = x], fpc' = [fpc EXCEPT ![c] = st]
  PROVE /\ call' \in [Callers -> Call] /\ call'[c] = x
        /\ fpc' \in [Callers -> {"idle", "want", "update"} \cup Hooks] /\ fpc'[c] = st
        /\ Others(c)
  BY DEF FsmTypeOK, Others

LEMMA CallLeaves ==
  ASSUME FsmTypeOK, NEW c \in Callers, Leave(c)
  PROVE /\ call' \in [Callers -> Call]
        /\ fpc' \in [Callers -> {"idle", "want", "update"} \cup Hooks] /\ fpc'[c] = "idle"
        /\ Others(c)
  BY NoOpIsCall, CallChanges DEF Leave

LEMMA CallRejected ==
  ASSUME FsmTypeOK, NEW c \in Callers, call[c].sid \in Sids, Rejected(c)
  PROVE /\ call' \in [Callers -> Call]
        /\ fpc' \in [Callers -> {"idle", "want", "update"} \cup Hooks]
        /\ \/ fpc'[c] = "idle"
           \/ fpc'[c] = "want" /\ call'[c].sid \in Sids /\ ~call'[c].ended /\ call'[c].op = "tryStart"
        /\ Others(c)
<1>1. CASE call[c].op = "transition"
  <2> DEFINE x == [NoOp EXCEPT !.op = "tryStart", !.sid = call[c].sid]
  <2>1. x \in Call /\ x.sid = call[c].sid /\ ~x.ended /\ x.op = "tryStart"
    BY NoOpIsCall DEF NoOp
  <2>2. call' = [call EXCEPT ![c] = x] /\ fpc' = [fpc EXCEPT ![c] = "want"]
    BY <1>1 DEF Rejected
  <2> HIDE DEF x
  <2>3. QED
    BY <2>1, <2>2, CallChanges
<1>2. CASE call[c].op # "transition"
  BY <1>2, CallLeaves DEF Rejected
<1>3. QED
  BY <1>1, <1>2

\* A call takes the lock and enters a hook.
LEMMA CallHooked ==
  ASSUME FsmTypeOK, NEW c \in Callers, call[c].sid \in Sids,
         NEW o \in Nat, NEW f \in Fsms, NEW to \in STRING, NEW step \in Hooks,
         Hooked(c, o, f, to, step)
  PROVE /\ call' \in [Callers -> Call]
        /\ call'[c].sid = call[c].sid /\ call'[c].op = call[c].op /\ call'[c].ended = call[c].ended
        /\ call'[c].obj = o
        /\ fpc' \in [Callers -> {"idle", "want", "update"} \cup Hooks] /\ fpc'[c] = step
        /\ holder' \in [Sids -> Callers \cup {NoCall}] /\ holder'[call[c].sid] = c
        /\ \A s \in Sids : s # call[c].sid => holder'[s] = holder[s]
        /\ Others(c)
<1> DEFINE x == [call[c] EXCEPT !.obj = o, !.fsm = f, !.to = to]
<1>1. call' = [call EXCEPT ![c] = x] /\ fpc' = [fpc EXCEPT ![c] = step]
  BY DEF Hooked, FsmTypeOK
<1>2. /\ x \in Call /\ x.sid = call[c].sid /\ x.op = call[c].op /\ x.ended = call[c].ended /\ x.obj = o
  BY DEF FsmTypeOK, Call
<1>3. holder' = [holder EXCEPT ![call[c].sid] = c]
  BY DEF Hooked
<1> HIDE DEF x
<1>4. QED
  BY <1>1, <1>2, <1>3, CallChanges DEF FsmTypeOK

\* A session object is made.
LEMMA ObjectMade ==
  ASSUME FsmTypeOK, NEW c \in Callers, NEW s \in Sids, NEW f \in Fsms,
         session' = Append(session, Made(s, f, UserOf[c])), told' = Append(told, Untold)
  PROVE /\ session' \in Seq(Session)
        /\ Objects' = Objects \cup {Len(session) + 1}
        /\ Len(session) + 1 \in Nat \ {0} /\ Len(session) + 1 \notin Objects
        /\ session'[Len(session) + 1].sid = s
        /\ \A o \in Objects : session'[o] = session[o]
        /\ told' \in [Objects' -> {Untold} \cup STRING]
<1> DEFINE x == Made(s, f, UserOf[c])
<1>1. x \in Session /\ x.sid = s
  BY FsmAssumption DEF FsmTypeOK, Made, ExpiryOf, Session
<1>2. session' = Append(session, x)
  OBVIOUS
<1> HIDE DEF x
<1>3. /\ session' \in Seq(Session) /\ Len(session') = Len(session) + 1 /\ Len(session) \in Nat
      /\ session'[Len(session) + 1] = x /\ \A o \in 1 .. Len(session) : session'[o] = session[o]
  BY <1>1, <1>2 DEF FsmTypeOK
<1> DEFINE T == {Untold} \cup STRING
           n == Len(session)
<1>4. told \in [1 .. n -> T] /\ Untold \in T /\ n \in Nat
  BY <1>3 DEF FsmTypeOK, Objects
<1> HIDE DEF T, n
<1>5. told \in Seq(T)
  BY <1>4, SeqDef
<1>6. Len(told) = n
  BY <1>4, <1>5, LenProperties
<1>7. told' \in [1 .. n + 1 -> T]
  <2>1. told' \in Seq(T) /\ Len(told') = n + 1
    BY <1>4, <1>5, <1>6
  <2>2. QED
    BY <2>1, LenProperties
<1>8. Objects' = 1 .. n + 1 /\ Objects = 1 .. n
  BY <1>3 DEF Objects, n
<1>9. Objects' = Objects \cup {n + 1} /\ n + 1 \notin Objects
  BY <1>4, <1>8
<1>10. QED
  BY <1>1, <1>3, <1>4, <1>7, <1>8, <1>9 DEF T, n, Objects

\* One field of an object changes.
LEMMA ObjectChanged ==
  ASSUME FsmTypeOK, NEW o \in Objects, NEW st \in STRING, NEW e \in Nat,
         \/ session' = [session EXCEPT ![o].current = st, ![o].expire = e]
         \/ session' = [session EXCEPT ![o].current = st]
  PROVE /\ session' \in Seq(Session) /\ Objects' = Objects
        /\ \A p \in Objects : session'[p].sid = session[p].sid
<1>1. session[o] \in Session
  BY DEF FsmTypeOK, Objects
<1>2. PICK x \in Session : x.sid = session[o].sid /\ session' = [session EXCEPT ![o] = x]
  <2>1. [session[o] EXCEPT !.current = st, !.expire = e] \in Session
    BY <1>1 DEF Session
  <2>2. [session[o] EXCEPT !.current = st] \in Session
    BY <1>1 DEF Session
  <2>3. /\ [session[o] EXCEPT !.current = st, !.expire = e].sid = session[o].sid
        /\ [session[o] EXCEPT !.current = st].sid = session[o].sid
    BY <1>1 DEF Session
  <2>4. CASE session' = [session EXCEPT ![o].current = st, ![o].expire = e]
    <3>1. session' = [session EXCEPT ![o] = [session[o] EXCEPT !.current = st, !.expire = e]]
      BY <2>4 DEF FsmTypeOK, Objects
    <3> QED BY <2>1, <2>3, <3>1
  <2>5. CASE session' = [session EXCEPT ![o].current = st]
    <3>1. session' = [session EXCEPT ![o] = [session[o] EXCEPT !.current = st]]
      BY <2>5
    <3> QED BY <2>2, <2>3, <3>1
  <2> QED BY <2>4, <2>5
<1>3. QED
  BY <1>2 DEF FsmTypeOK, Objects

\* While a session ID is free, no hook works on it or on its object.
LEMMA FreeMeansAlone ==
  ASSUME IInv, NEW s \in Sids, holder[s] = NoCall
  PROVE \A d \in Callers : InHook(d) => call[d].sid # s /\ call[d].obj # stored[s]
  BY FsmAssumption DEF IInv, FsmTypeOK, Locked, LockedCall, StoredAtHome, Objects

\* A hook is alone on its session ID, and its object is stored nowhere else.
LEMMA HolderAlone ==
  ASSUME IInv, NEW c \in Callers, InHook(c)
  PROVE /\ \A d \in Callers \ {c} : InHook(d) => call[d].sid # call[c].sid /\ call[d].obj # call[c].obj
        /\ \A s \in Sids : s # call[c].sid => stored[s] # call[c].obj
        /\ call[c].obj # 0
  BY DEF IInv, FsmTypeOK, Locked, LockedCall, StoredAtHome, Objects

\* A call that is over has given its lock back and stored its own object, if any.
LEMMA OverKeeps ==
  ASSUME IInv, NEW c \in Callers, InHook(c), Others(c), holder' = Released(c),
         Objects' = Objects, \A p \in Objects : session'[p].sid = session[p].sid,
         \/ fpc'[c] = "idle"
         \/ fpc'[c] = "want" /\ call'[c].sid \in Sids /\ ~call'[c].ended /\ call'[c].op = "tryStart",
         \A z \in Sids : z # call[c].sid => stored'[z] = stored[z],
         stored'[call[c].sid] \in {0, stored[call[c].sid], call[c].obj}
  PROVE  Locked' /\ StoredAtHome' /\ NotStored'
<1>1. PICK s \in Sids, o \in Objects :
        /\ s = call[c].sid /\ o = call[c].obj /\ holder[s] = c /\ session[o].sid = s
        /\ \A d \in Callers \ {c} : InHook(d) => call[d].sid # s /\ call[d].obj # o
  BY HolderAlone DEF IInv, Locked, LockedCall, InHook, Hooks
<1>2. \A z \in Sids : z # s => holder'[z] = holder[z]
  BY <1>1 DEF Released, IInv, FsmTypeOK
<1>3. ASSUME NEW d \in Callers \ {c} PROVE LockedCall(d)'
  <2>1. LockedCall(d) /\ call'[d] = call[d] /\ fpc'[d] = fpc[d]
    BY DEF IInv, Locked, Others
  <2>2. InHook(d) => holder'[call[d].sid] = holder[call[d].sid]
    BY <1>1, <1>2, <2>1 DEF LockedCall, InHook, Hooks
  <2> QED BY <2>1, <2>2 DEF LockedCall, InHook
<1>4. LockedCall(c)'
  BY DEF LockedCall, InHook, Hooks
<1>5. StoredAtHome'
  <2> SUFFICES ASSUME NEW z \in Sids, stored'[z] # 0 PROVE session'[stored'[z]].sid = z
    BY DEF StoredAtHome
  <2>1. stored'[z] = stored[z] \/ (z = s /\ stored'[z] = o)
    BY <1>1
  <2>2. stored[z] \in {0} \cup Objects
    BY DEF IInv, FsmTypeOK
  <2> QED BY <1>1, <2>1, <2>2 DEF IInv, StoredAtHome
<1>6. ASSUME NEW d \in Callers,
             \/ fpc'[d] = "enter" /\ call'[d].ended
             \/ fpc'[d] = "action" /\ call'[d].op # "transition"
      PROVE  stored'[call'[d].sid] # call'[d].obj
  <2>1. d # c
    BY <1>6
  <2>2. InHook(d) /\ call'[d] = call[d] /\ fpc'[d] = fpc[d]
    BY <1>6, <2>1 DEF Others, InHook, Hooks
  <2>3. call[d].sid \in Sids /\ call[d].sid # s
    BY <1>1, <2>1, <2>2 DEF IInv, Locked, LockedCall, InHook, Hooks
  <2>4. stored'[call[d].sid] = stored[call[d].sid]
    BY <1>1, <2>3
  <2> QED BY <1>6, <2>2, <2>4 DEF IInv, NotStored
<1> QED BY <1>3, <1>4, <1>5, <1>6 DEF Locked, NotStored

-----------------------------------------------------------------------------
LEMMA InitIInv == FsmInit => IInv
<1> SUFFICES ASSUME FsmInit PROVE IInv
  OBVIOUS
<1>1. Objects = {} /\ session \in Seq(Session) /\ told \in [Objects -> {Untold} \cup STRING]
  BY DEF FsmInit, Objects
<1>2. FsmTypeOK
  BY <1>1, NoOpIsCall DEF FsmInit, FsmTypeOK
<1>3. QED
  BY <1>2
     DEF FsmInit, IInv, Locked, LockedCall, InHook, Hooks, StoredAtHome, StillAlive, NotStored, EndedStaysEnded

-----------------------------------------------------------------------------
(* Calls begin *)

LEMMA MessageIInv ==
  ASSUME IInv, NEW c \in Callers, Message(c)
  PROVE IInv'
<1>1. PICK s \in Sids : call' = [call EXCEPT ![c] = [NoOp EXCEPT !.op = "transition", !.sid = s]]
  BY DEF Message
<1>2. /\ call' \in [Callers -> Call]
      /\ call'[c].sid \in Sids /\ ~call'[c].ended /\ call'[c].op = "transition"
      /\ fpc' \in [Callers -> {"idle", "want", "update"} \cup Hooks] /\ fpc'[c] = "want"
      /\ Others(c)
  BY <1>1, NoOpIsCall, CallChanges DEF IInv, Message, NoOp
<1>3. FsmTypeOK'
  BY <1>2 DEF IInv, Message, Others, FsmTypeOK, Objects, Hooks, Call
<1>4. Locked'
  BY <1>2 DEF IInv, Message, Others, FsmTypeOK, Locked, LockedCall, InHook, Objects, Hooks, Call
<1>5. StoredAtHome'
  BY <1>2
     DEF IInv, Message, Others, FsmTypeOK, Locked, LockedCall, InHook, StoredAtHome, Objects,
         Hooks, Call
<1>6. StillAlive'
  BY <1>2
     DEF IInv, Message, Others, FsmTypeOK, Locked, LockedCall, InHook, StoredAtHome, StillAlive,
         EndedStaysEnded, Objects, Hooks, Call
<1>7. NotStored'
  BY <1>2
     DEF IInv, Message, Others, FsmTypeOK, Locked, LockedCall, InHook, StoredAtHome, NotStored,
         Objects, Hooks, Call
<1>8. EndedStaysEnded'
  BY <1>2
     DEF IInv, Message, Others, FsmTypeOK, Locked, LockedCall, InHook, StoredAtHome, StillAlive,
         NotStored, EndedStaysEnded, Objects, Hooks, Call
<1>9. QED
  BY <1>3, <1>4, <1>5, <1>6, <1>7, <1>8 DEF IInv

LEMMA StartCallIInv ==
  ASSUME IInv, NEW c \in Callers, StartCall(c)
  PROVE IInv'
<1>1. PICK s \in Sids, f \in registered :
        call' = [call EXCEPT ![c] = [NoOp EXCEPT !.op = "start", !.sid = s, !.fsm = f]]
  BY DEF StartCall
<1>2. f \in Fsms
  BY DEF IInv, FsmTypeOK
<1>3. /\ call' \in [Callers -> Call]
      /\ call'[c].sid \in Sids /\ ~call'[c].ended /\ call'[c].op = "start" /\ call'[c].fsm \in Fsms
      /\ fpc' \in [Callers -> {"idle", "want", "update"} \cup Hooks] /\ fpc'[c] = "want"
      /\ Others(c)
  BY <1>1, <1>2, NoOpIsCall, CallChanges DEF IInv, StartCall, NoOp
<1>4. FsmTypeOK'
  BY <1>3 DEF IInv, StartCall, Others, FsmTypeOK, Objects, Hooks, Call
<1>5. Locked'
  BY <1>3 DEF IInv, StartCall, Others, FsmTypeOK, Locked, LockedCall, InHook, Objects, Hooks, Call
<1>6. StoredAtHome'
  BY <1>3
     DEF IInv, StartCall, Others, FsmTypeOK, Locked, LockedCall, InHook, StoredAtHome, Objects,
         Hooks, Call
<1>7. StillAlive'
  BY <1>3
     DEF IInv, StartCall, Others, FsmTypeOK, Locked, LockedCall, InHook, StoredAtHome, StillAlive,
         EndedStaysEnded, Objects, Hooks, Call
<1>8. NotStored'
  BY <1>3
     DEF IInv, StartCall, Others, FsmTypeOK, Locked, LockedCall, InHook, StoredAtHome, NotStored,
         Objects, Hooks, Call
<1>9. EndedStaysEnded'
  BY <1>3
     DEF IInv, StartCall, Others, FsmTypeOK, Locked, LockedCall, InHook, StoredAtHome, StillAlive,
         NotStored, EndedStaysEnded, Objects, Hooks, Call
<1>10. QED
  BY <1>4, <1>5, <1>6, <1>7, <1>8, <1>9 DEF IInv

LEMMA UpdateCallIInv ==
  ASSUME IInv, NEW c \in Callers, UpdateCall(c)
  PROVE IInv'
<1>1. PICK s \in Sids :
        /\ holder[s] = NoCall /\ Lookup(s) # 0
        /\ call' = [call EXCEPT ![c] = [NoOp EXCEPT !.op = "update", !.sid = s, !.obj = Lookup(s)]]
        /\ holder' = [holder EXCEPT ![s] = c]
  BY DEF UpdateCall
<1>2. Lookup(s) = stored[s] /\ Lookup(s) \in Objects /\ Lookup(s) \in Nat
  BY <1>1 DEF Lookup, IInv, FsmTypeOK, Objects
<1>3. /\ call' \in [Callers -> Call]
      /\ call'[c].sid = s /\ call'[c].op = "update" /\ call'[c].obj = stored[s]
      /\ fpc' \in [Callers -> {"idle", "want", "update"} \cup Hooks] /\ fpc'[c] = "update"
      /\ Others(c)
  BY <1>1, <1>2, NoOpIsCall, CallChanges DEF IInv, UpdateCall, NoOp
<1>4. \A d \in Callers : InHook(d) => call[d].sid # s
  BY <1>1, FreeMeansAlone
<1>5. FsmTypeOK'
  BY <1>1, <1>2, <1>3, <1>4 DEF IInv, UpdateCall, Others, FsmTypeOK, Objects, Hooks, Call
<1>6. Locked'
  <2>1. ASSUME NEW d \in Callers \ {c} PROVE LockedCall(d)'
    BY <2>1, <1>1, <1>2, <1>3, <1>4
       DEF IInv, UpdateCall, Others, FsmTypeOK, Locked, LockedCall, InHook, Objects, Hooks, Call
  <2>2. LockedCall(c)'
    BY <1>1, <1>2, <1>3, <1>4
       DEF IInv, UpdateCall, Others, FsmTypeOK, Locked, LockedCall, InHook, StoredAtHome, Objects, Hooks, Call
  <2>3. QED
    BY <2>1, <2>2 DEF Locked
<1>7. StoredAtHome'
  BY <1>1, <1>2, <1>3, <1>4
     DEF IInv, UpdateCall, Others, FsmTypeOK, Locked, LockedCall, InHook, StoredAtHome, Objects,
         Hooks, Call
<1>8. StillAlive'
  BY <1>1, <1>2, <1>3, <1>4
     DEF IInv, UpdateCall, Others, FsmTypeOK, Locked, LockedCall, InHook, StoredAtHome, StillAlive,
         EndedStaysEnded, Objects, Hooks, Call
<1>9. NotStored'
  BY <1>1, <1>2, <1>3, <1>4
     DEF IInv, UpdateCall, Others, FsmTypeOK, Locked, LockedCall, InHook, StoredAtHome, NotStored,
         Objects, Hooks, Call
<1>10. EndedStaysEnded'
  BY <1>1, <1>2, <1>3, <1>4
     DEF IInv, UpdateCall, Others, FsmTypeOK, Locked, LockedCall, InHook, StoredAtHome, StillAlive,
         NotStored, EndedStaysEnded, Objects, Hooks, Call
<1>11. QED
  BY <1>5, <1>6, <1>7, <1>8, <1>9, <1>10 DEF IInv

-----------------------------------------------------------------------------
(* Calls under the lock *)

LEMMA TransitionRefusedIInv ==
  ASSUME IInv, NEW c \in Callers, TransitionRefused(c)
  PROVE IInv'
<1>1. call[c].sid \in Sids
  BY DEF IInv, TransitionRefused, Free, Locked, LockedCall
<1>2. /\ call' \in [Callers -> Call]
      /\ fpc' \in [Callers -> {"idle", "want", "update"} \cup Hooks]
      /\ \/ fpc'[c] = "idle"
         \/ fpc'[c] = "want" /\ call'[c].sid \in Sids /\ ~call'[c].ended /\ call'[c].op = "tryStart"
      /\ Others(c)
  BY <1>1, CallRejected DEF IInv, TransitionRefused
<1>3. FsmTypeOK'
  BY <1>2 DEF IInv, TransitionRefused, Others, FsmTypeOK, Objects, Hooks, Call
<1>4. Locked'
  <2>1. ASSUME NEW d \in Callers \ {c} PROVE LockedCall(d)'
    BY <2>1, <1>2
       DEF IInv, TransitionRefused, Others, FsmTypeOK, Locked, LockedCall, InHook, Objects, Hooks,
           Call
  <2>2. LockedCall(c)'
    BY <1>2
       DEF IInv, TransitionRefused, Others, FsmTypeOK, Locked, LockedCall, InHook, Objects, Hooks,
           Call
  <2>3. QED
    BY <2>1, <2>2 DEF Locked
<1>5. StoredAtHome'
  BY <1>2
     DEF IInv, TransitionRefused, Others, FsmTypeOK, Locked, LockedCall, InHook, StoredAtHome,
         Objects, Hooks, Call
<1>6. StillAlive'
  BY <1>2
     DEF IInv, TransitionRefused, Others, FsmTypeOK, Locked, LockedCall, InHook, StoredAtHome,
         StillAlive, EndedStaysEnded, Objects, Hooks, Call
<1>7. NotStored'
  BY <1>2
     DEF IInv, TransitionRefused, Others, FsmTypeOK, Locked, LockedCall, InHook, StoredAtHome,
         NotStored, Objects, Hooks, Call
<1>8. EndedStaysEnded'
  BY <1>2
     DEF IInv, TransitionRefused, Others, FsmTypeOK, Locked, LockedCall, InHook, StoredAtHome,
         StillAlive, NotStored, EndedStaysEnded, Objects, Hooks, Call
<1>9. QED
  BY <1>3, <1>4, <1>5, <1>6, <1>7, <1>8 DEF IInv

LEMMA TransitionBeginIInv ==
  ASSUME IInv, NEW c \in Callers, TransitionBegin(c)
  PROVE IInv'
<1> DEFINE s == call[c].sid
           o == Lookup(s)
<1>1. s \in Sids /\ holder[s] = NoCall /\ fpc[c] = "want" /\ ~call[c].ended /\ call[c].op = "transition"
  BY DEF IInv, TransitionBegin, Free, Locked, LockedCall
<1>2. o = stored[s] /\ o # 0 /\ o \in Objects /\ o \in Nat /\ session[o] \in Session
  BY <1>1 DEF TransitionBegin, Lookup, IInv, FsmTypeOK, Objects
<1>3. PICK e \in Events[session[o].fsm] : Hooked(c, o, session[o].fsm, e.to, "action")
  BY DEF TransitionBegin, Applicable
<1>4. session[o].fsm \in Fsms /\ e.to \in STRING
  BY <1>2, FsmAssumption DEF Session
<1>4a. PICK f \in Fsms, to \in STRING : Hooked(c, o, f, to, "action")
  BY <1>3, <1>4
<1>4b. FsmTypeOK /\ call[c].sid \in Sids /\ "action" \in Hooks
  BY <1>1 DEF IInv, Hooks
<1> HIDE DEF o
<1>5. /\ call' \in [Callers -> Call]
      /\ call'[c].sid = s /\ call'[c].op = call[c].op /\ call'[c].ended = call[c].ended
      /\ call'[c].obj = o
      /\ fpc' \in [Callers -> {"idle", "want", "update"} \cup Hooks] /\ fpc'[c] = "action"
      /\ holder' \in [Sids -> Callers \cup {NoCall}] /\ holder'[s] = c
      /\ \A t \in Sids : t # s => holder'[t] = holder[t]
      /\ Others(c)
  BY <1>2, <1>4a, <1>4b, CallHooked
<1>6. \A d \in Callers : InHook(d) => call[d].sid # s
  BY <1>1, FreeMeansAlone
<1> HIDE DEF s
<1>7. FsmTypeOK'
  BY <1>1, <1>2, <1>5, <1>6 DEF IInv, TransitionBegin, Others, FsmTypeOK, Objects, Hooks, Call
<1>8. Locked'
  <2>1. ASSUME NEW d \in Callers \ {c} PROVE LockedCall(d)'
    BY <2>1, <1>1, <1>2, <1>5, <1>6
       DEF IInv, TransitionBegin, Others, FsmTypeOK, Locked, LockedCall, InHook, Objects, Hooks,
           Call
  <2>2. LockedCall(c)'
    BY <1>1, <1>2, <1>5, <1>6
       DEF IInv, TransitionBegin, Others, FsmTypeOK, Locked, LockedCall, InHook, StoredAtHome, Objects, Hooks,
           Call
  <2>3. QED
    BY <2>1, <2>2 DEF Locked
<1>9. StoredAtHome'
  BY <1>1, <1>2, <1>5, <1>6
     DEF IInv, TransitionBegin, Others, FsmTypeOK, Locked, LockedCall, InHook, StoredAtHome,
         Objects, Hooks, Call
<1>10. StillAlive'
  BY <1>1, <1>2, <1>5, <1>6
     DEF IInv, TransitionBegin, Others, FsmTypeOK, Locked, LockedCall, InHook, StoredAtHome,
         StillAlive, EndedStaysEnded, Objects, Hooks, Call
<1>11. NotStored'
  BY <1>1, <1>2, <1>5, <1>6
     DEF IInv, TransitionBegin, Others, FsmTypeOK, Locked, LockedCall, InHook, StoredAtHome,
         NotStored, Objects, Hooks, Call
<1>12. EndedStaysEnded'
  BY <1>1, <1>2, <1>5, <1>6
     DEF IInv, TransitionBegin, Others, FsmTypeOK, Locked, LockedCall, InHook, StoredAtHome,
         StillAlive, NotStored, EndedStaysEnded, Objects, Hooks, Call
<1>13. QED
  BY <1>7, <1>8, <1>9, <1>10, <1>11, <1>12 DEF IInv

LEMMA TryStartBlockedIInv ==
  ASSUME IInv, NEW c \in Callers, TryStartBlocked(c)
  PROVE IInv'
<1>1. FsmTypeOK'
  BY CallLeaves DEF IInv, TryStartBlocked, FsmTypeOK, Objects
<1>2. Locked'
  BY DEF IInv, TryStartBlocked, NoOp, Free, Leave, FsmTypeOK, Locked, LockedCall, InHook, Objects,
         Hooks, Call
<1>3. StoredAtHome'
  BY DEF IInv, TryStartBlocked, NoOp, Free, Leave, FsmTypeOK, Locked, LockedCall, InHook,
         StoredAtHome, Objects, Hooks, Call
<1>4. StillAlive'
  BY DEF IInv, TryStartBlocked, NoOp, Free, Leave, FsmTypeOK, Locked, LockedCall, InHook,
         StoredAtHome, StillAlive, EndedStaysEnded, Objects, Hooks, Call
<1>5. NotStored'
  BY DEF IInv, TryStartBlocked, NoOp, Free, Leave, FsmTypeOK, Locked, LockedCall, InHook,
         StoredAtHome, NotStored, Objects, Hooks, Call
<1>6. EndedStaysEnded'
  BY DEF IInv, TryStartBlocked, NoOp, Free, Leave, FsmTypeOK, Locked, LockedCall, InHook,
         StoredAtHome, StillAlive, NotStored, EndedStaysEnded, Objects, Hooks, Call
<1>7. QED
  BY <1>1, <1>2, <1>3, <1>4, <1>5, <1>6 DEF IInv

LEMMA TryStartNoneIInv ==
  ASSUME IInv, NEW c \in Callers, TryStartNone(c)
  PROVE IInv'
<1> DEFINE s == call[c].sid
<1>1. s \in Sids /\ holder[s] = NoCall
  BY DEF IInv, TryStartNone, Free, Locked, LockedCall
<1>2. /\ call' \in [Callers -> Call]
      /\ fpc' \in [Callers -> {"idle", "want", "update"} \cup Hooks] /\ fpc'[c] = "idle"
      /\ Others(c)
  BY CallLeaves DEF IInv, TryStartNone
<1>3. /\ stored' \in [Sids -> {0} \cup Objects]
      /\ \A t \in Sids : stored'[t] \in {0, stored[t]}
      /\ \/ stored' = stored /\ ended' = ended
         \/ stored'[s] = 0 /\ ended' = ended \cup {stored[s]} /\ stored[s] \in Objects
  BY <1>1 DEF IInv, TryStartNone, StoredForStart, Lookup, FsmTypeOK
<1>4. \A d \in Callers : InHook(d) => call[d].sid # s /\ call[d].obj # stored[s]
  BY <1>1, FreeMeansAlone
<1> HIDE DEF s
<1>5. FsmTypeOK'
  BY <1>1, <1>2, <1>3, <1>4 DEF IInv, TryStartNone, Others, FsmTypeOK, Objects, Hooks, Call
<1>6. Locked'
  BY <1>1, <1>2, <1>3, <1>4
     DEF IInv, TryStartNone, Others, FsmTypeOK, Locked, LockedCall, InHook, Objects, Hooks, Call
<1>7. StoredAtHome'
  BY <1>1, <1>2, <1>3, <1>4
     DEF IInv, TryStartNone, Others, FsmTypeOK, Locked, LockedCall, InHook, StoredAtHome, Objects,
         Hooks, Call
<1>8. StillAlive'
  BY <1>1, <1>2, <1>3, <1>4
     DEF IInv, TryStartNone, Others, FsmTypeOK, Locked, LockedCall, InHook, StoredAtHome,
         StillAlive, EndedStaysEnded, Objects, Hooks, Call
<1>9. NotStored'
  BY <1>1, <1>2, <1>3, <1>4
     DEF IInv, TryStartNone, Others, FsmTypeOK, Locked, LockedCall, InHook, StoredAtHome,
         NotStored, Objects, Hooks, Call
<1>10. EndedStaysEnded'
  BY <1>1, <1>2, <1>3, <1>4
     DEF IInv, TryStartNone, Others, FsmTypeOK, Locked, LockedCall, InHook, StoredAtHome,
         StillAlive, NotStored, EndedStaysEnded, Objects, Hooks, Call
<1>11. QED
  BY <1>5, <1>6, <1>7, <1>8, <1>9, <1>10 DEF IInv

LEMMA TryStartBeginIInv ==
  ASSUME IInv, NEW c \in Callers, TryStartBegin(c)
  PROVE IInv'
<1> DEFINE s == call[c].sid
           n == Len(session) + 1
<1>1. s \in Sids /\ holder[s] = NoCall /\ fpc[c] = "want" /\ ~call[c].ended /\ call[c].op = "tryStart"
  BY DEF IInv, TryStartBegin, Free, Locked, LockedCall
<1>2. /\ \A t \in Sids : stored'[t] \in {0, stored[t]}
      /\ stored' \in [Sids -> {0} \cup Objects]
      /\ \/ stored' = stored /\ ended' = ended
         \/ stored'[s] = 0 /\ ended' = ended \cup {stored[s]} /\ stored[s] \in Objects
  BY <1>1 DEF IInv, TryStartBegin, StoredForStart, Lookup, FsmTypeOK
<1>3. \A d \in Callers : InHook(d) => call[d].sid # s /\ call[d].obj # stored[s]
  BY <1>1, FreeMeansAlone
<1>4. PICK f \in Fsms, to \in STRING :
        /\ session' = Append(session, Made(s, f, UserOf[c]))
        /\ Hooked(c, n, f, to, "action")
  BY FsmAssumption DEF IInv, FsmTypeOK, TryStartBegin, Applicable
<1>5. /\ session' \in Seq(Session)
      /\ Objects' = Objects \cup {n} /\ n \in Nat \ {0} /\ n \notin Objects
      /\ session'[n].sid = s /\ \A o \in Objects : session'[o] = session[o]
      /\ told' \in [Objects' -> {Untold} \cup STRING]
  BY <1>1, <1>4, ObjectMade DEF IInv, TryStartBegin
<1>5a. FsmTypeOK /\ call[c].sid \in Sids /\ "action" \in Hooks /\ n \in Nat
  BY <1>1, <1>5 DEF IInv, Hooks
<1>6. /\ call' \in [Callers -> Call]
      /\ call'[c].sid = s /\ call'[c].op = call[c].op /\ call'[c].ended = call[c].ended
      /\ call'[c].obj = n
      /\ fpc' \in [Callers -> {"idle", "want", "update"} \cup Hooks] /\ fpc'[c] = "action"
      /\ holder' \in [Sids -> Callers \cup {NoCall}] /\ holder'[s] = c
      /\ \A t \in Sids : t # s => holder'[t] = holder[t]
      /\ Others(c)
  BY <1>4, <1>5a, CallHooked
<1> HIDE DEF s, n
<1>7. FsmTypeOK'
  BY <1>1, <1>2, <1>3, <1>5, <1>6 DEF IInv, TryStartBegin, Others, FsmTypeOK, Objects, Hooks, Call
<1>8. Locked'
  BY <1>1, <1>2, <1>3, <1>5, <1>6
     DEF IInv, TryStartBegin, Others, FsmTypeOK, Locked, LockedCall, InHook, Objects, Hooks, Call
<1>9. StoredAtHome'
  BY <1>1, <1>2, <1>3, <1>5, <1>6
     DEF IInv, TryStartBegin, Others, FsmTypeOK, Locked, LockedCall, InHook, StoredAtHome, Objects,
         Hooks, Call
<1>10. StillAlive'
  BY <1>1, <1>2, <1>3, <1>5, <1>6
     DEF IInv, TryStartBegin, Others, FsmTypeOK, Locked, LockedCall, InHook, StoredAtHome,
         StillAlive, EndedStaysEnded, Objects, Hooks, Call
<1>11. NotStored'
  BY <1>1, <1>2, <1>3, <1>5, <1>6
     DEF IInv, TryStartBegin, Others, FsmTypeOK, Locked, LockedCall, InHook, StoredAtHome,
         NotStored, Objects, Hooks, Call
<1>12. EndedStaysEnded'
  BY <1>1, <1>2 DEF IInv, FsmTypeOK, StoredAtHome, EndedStaysEnded, Objects
<1>13. QED
  BY <1>7, <1>8, <1>9, <1>10, <1>11, <1>12 DEF IInv

LEMMA StartExistsIInv ==
  ASSUME IInv, NEW c \in Callers, StartExists(c)
  PROVE IInv'
<1>1. FsmTypeOK'
  BY CallLeaves DEF IInv, StartExists, FsmTypeOK, Objects
<1>2. Locked'
  BY DEF IInv, StartExists, NoOp, Free, Leave, FsmTypeOK, Locked, LockedCall, InHook, Objects,
         Hooks, Call
<1>3. StoredAtHome'
  BY DEF IInv, StartExists, NoOp, Free, Leave, FsmTypeOK, Locked, LockedCall, InHook, StoredAtHome,
         Objects, Hooks, Call
<1>4. StillAlive'
  BY DEF IInv, StartExists, NoOp, Free, Leave, FsmTypeOK, Locked, LockedCall, InHook, StoredAtHome,
         StillAlive, EndedStaysEnded, Objects, Hooks, Call
<1>5. NotStored'
  BY DEF IInv, StartExists, NoOp, Free, Leave, FsmTypeOK, Locked, LockedCall, InHook, StoredAtHome,
         NotStored, Objects, Hooks, Call
<1>6. EndedStaysEnded'
  BY DEF IInv, StartExists, NoOp, Free, Leave, FsmTypeOK, Locked, LockedCall, InHook, StoredAtHome,
         StillAlive, NotStored, EndedStaysEnded, Objects, Hooks, Call
<1>7. QED
  BY <1>1, <1>2, <1>3, <1>4, <1>5, <1>6 DEF IInv

LEMMA StartSaveIInv ==
  ASSUME IInv, NEW c \in Callers, StartSave(c)
  PROVE IInv'
<1> DEFINE s == call[c].sid
           n == Len(session) + 1
<1>1. s \in Sids /\ holder[s] = NoCall /\ fpc[c] = "want" /\ ~call[c].ended /\ call[c].op = "start"
      /\ call[c].fsm \in Fsms
  BY DEF IInv, StartSave, MayStart, Free, Locked, LockedCall
<1>2. stored' = [stored EXCEPT ![s] = n]
  BY DEF StartSave
<1>3. \A d \in Callers : InHook(d) => call[d].sid # s
  BY <1>1, FreeMeansAlone
<1>4. PICK f \in Fsms, to \in STRING :
        /\ session' = Append(session, Made(s, f, UserOf[c]))
        /\ Hooked(c, n, f, to, "init")
  BY <1>1, FsmAssumption DEF StartSave
<1>5. /\ session' \in Seq(Session)
      /\ Objects' = Objects \cup {n} /\ n \in Nat \ {0} /\ n \notin Objects
      /\ session'[n].sid = s /\ \A o \in Objects : session'[o] = session[o]
      /\ told' \in [Objects' -> {Untold} \cup STRING]
  BY <1>1, <1>4, ObjectMade DEF IInv, StartSave
<1>5a. FsmTypeOK /\ call[c].sid \in Sids /\ "init" \in Hooks /\ n \in Nat
  BY <1>1, <1>5 DEF IInv, Hooks
<1>6. /\ call' \in [Callers -> Call]
      /\ call'[c].sid = s /\ call'[c].op = call[c].op /\ call'[c].ended = call[c].ended
      /\ call'[c].obj = n
      /\ fpc' \in [Callers -> {"idle", "want", "update"} \cup Hooks] /\ fpc'[c] = "init"
      /\ holder' \in [Sids -> Callers \cup {NoCall}] /\ holder'[s] = c
      /\ \A t \in Sids : t # s => holder'[t] = holder[t]
      /\ Others(c)
  BY <1>4, <1>5a, CallHooked
<1> HIDE DEF s, n
<1>7. FsmTypeOK'
  BY <1>1, <1>2, <1>3, <1>5, <1>6 DEF IInv, StartSave, Others, FsmTypeOK, Objects, Hooks, Call
<1>8. Locked'
  <2>1. ASSUME NEW d \in Callers \ {c} PROVE LockedCall(d)'
    BY <2>1, <1>1, <1>2, <1>3, <1>5, <1>6
       DEF IInv, StartSave, Others, FsmTypeOK, Locked, LockedCall, InHook, Objects, Hooks, Call
  <2>2. LockedCall(c)'
    BY <1>1, <1>2, <1>3, <1>5, <1>6
       DEF IInv, StartSave, Others, FsmTypeOK, Locked, LockedCall, InHook, Objects, Hooks, Call
  <2>3. QED
    BY <2>1, <2>2 DEF Locked
<1>9. StoredAtHome'
  BY <1>1, <1>2, <1>3, <1>5, <1>6
     DEF IInv, StartSave, Others, FsmTypeOK, Locked, LockedCall, InHook, StoredAtHome, Objects,
         Hooks, Call
<1>10. StillAlive'
  BY <1>1, <1>2, <1>3, <1>5, <1>6
     DEF IInv, StartSave, Others, FsmTypeOK, Locked, LockedCall, InHook, StoredAtHome, StillAlive,
         EndedStaysEnded, Objects, Hooks, Call
<1>11. NotStored'
  BY <1>1, <1>2, <1>3, <1>5, <1>6
     DEF IInv, StartSave, Others, FsmTypeOK, Locked, LockedCall, InHook, StoredAtHome, NotStored,
         Objects, Hooks, Call
<1>12. EndedStaysEnded'
  BY <1>1, <1>2, <1>3, <1>5, <1>6
     DEF IInv, StartSave, Others, FsmTypeOK, Locked, LockedCall, InHook, StoredAtHome, StillAlive,
         NotStored, EndedStaysEnded, Objects, Hooks, Call
<1>13. QED
  BY <1>7, <1>8, <1>9, <1>10, <1>11, <1>12 DEF IInv

LEMMA UpdateSaveIInv ==
  ASSUME IInv, NEW c \in Callers, UpdateSave(c)
  PROVE IInv'
<1>1. /\ call[c].sid \in Sids /\ holder[call[c].sid] = c /\ call[c].obj \in Objects
      /\ session[call[c].obj].sid = call[c].sid /\ InHook(c)
  BY DEF IInv, UpdateSave, Locked, LockedCall, InHook, Hooks
<1>2. /\ call' \in [Callers -> Call]
      /\ fpc' \in [Callers -> {"idle", "want", "update"} \cup Hooks] /\ fpc'[c] = "idle"
      /\ Others(c)
  BY CallLeaves DEF IInv, UpdateSave
<1>3. /\ \A d \in Callers \ {c} : InHook(d) => call[d].sid # call[c].sid /\ call[d].obj # call[c].obj
      /\ \A s \in Sids : s # call[c].sid => stored[s] # call[c].obj
      /\ call[c].obj # 0
  BY <1>1, HolderAlone
<1>4. FsmTypeOK'
  BY <1>1, <1>2, <1>3
     DEF IInv, UpdateSave, Others, Released, FsmTypeOK, Objects, Hooks, Call
<1>5. Locked' /\ StoredAtHome' /\ NotStored'
  BY <1>1, <1>2, <1>3, OverKeeps DEF IInv, UpdateSave, FsmTypeOK, Objects
<1>6. StillAlive'
  BY <1>1, <1>2, <1>3
     DEF IInv, UpdateSave, Others, Released, FsmTypeOK, Locked, LockedCall, InHook, StoredAtHome,
         StillAlive, EndedStaysEnded, Objects, Hooks, Call
<1>7. EndedStaysEnded'
  BY <1>1, <1>2, <1>3
     DEF IInv, UpdateSave, Others, Released, FsmTypeOK, Locked, LockedCall, InHook, StoredAtHome,
         StillAlive, NotStored, EndedStaysEnded, Objects, Hooks, Call
<1>8. QED
  BY <1>4, <1>5, <1>6, <1>7 DEF IInv

-----------------------------------------------------------------------------
(* Hooks *)

LEMMA HookEndsIInv ==
  ASSUME IInv, NEW c \in Callers, HookEnds(c)
  PROVE IInv'
<1>1. /\ call[c].sid \in Sids /\ holder[call[c].sid] = c /\ call[c].obj \in Objects
      /\ session[call[c].obj].sid = call[c].sid /\ InHook(c)
  BY DEF IInv, HookEnds, Locked, LockedCall, InHook, Hooks
<1>2. /\ call' \in [Callers -> Call] /\ fpc' = fpc
      /\ call'[c].sid = call[c].sid /\ call'[c].obj = call[c].obj /\ call'[c].op = call[c].op
      /\ call'[c].ended /\ Others(c)
  <2> DEFINE x == [call[c] EXCEPT !.ended = TRUE]
  <2>1. /\ x \in Call /\ x.sid = call[c].sid /\ x.obj = call[c].obj /\ x.op = call[c].op /\ x.ended
    BY DEF IInv, FsmTypeOK, Call
  <2>2. call' = [call EXCEPT ![c] = x] /\ fpc' = fpc
    BY DEF IInv, HookEnds, FsmTypeOK
  <2> HIDE DEF x
  <2>3. QED
    BY <2>1, <2>2 DEF IInv, FsmTypeOK, Others
<1>3. /\ \A d \in Callers \ {c} : InHook(d) => call[d].sid # call[c].sid /\ call[d].obj # call[c].obj
      /\ \A s \in Sids : s # call[c].sid => stored[s] # call[c].obj
      /\ call[c].obj # 0
  BY <1>1, HolderAlone
<1>4. FsmTypeOK'
  BY <1>1, <1>2, <1>3 DEF IInv, HookEnds, Others, FsmTypeOK, Objects, Hooks, Call
<1>5. Locked'
  BY <1>1, <1>2, <1>3
     DEF IInv, HookEnds, Others, FsmTypeOK, Locked, LockedCall, InHook, Objects, Hooks, Call
<1>6. StoredAtHome'
  BY <1>1, <1>2, <1>3
     DEF IInv, HookEnds, Others, FsmTypeOK, Locked, LockedCall, InHook, StoredAtHome, Objects,
         Hooks, Call
<1>7. StillAlive'
  BY <1>1, <1>2, <1>3
     DEF IInv, HookEnds, Others, FsmTypeOK, Locked, LockedCall, InHook, StoredAtHome, StillAlive,
         EndedStaysEnded, Objects, Hooks, Call
<1>8. NotStored'
  BY <1>1, <1>2, <1>3
     DEF IInv, HookEnds, Others, FsmTypeOK, Locked, LockedCall, InHook, StoredAtHome, NotStored,
         Objects, Hooks, Call
<1>9. EndedStaysEnded'
  BY <1>1, <1>2, <1>3
     DEF IInv, HookEnds, Others, FsmTypeOK, Locked, LockedCall, InHook, StoredAtHome, StillAlive,
         NotStored, EndedStaysEnded, Objects, Hooks, Call
<1>10. QED
  BY <1>4, <1>5, <1>6, <1>7, <1>8, <1>9 DEF IInv

LEMMA HookFailsIInv ==
  ASSUME IInv, NEW c \in Callers, HookFails(c)
  PROVE IInv'
<1>1. /\ call[c].sid \in Sids /\ holder[call[c].sid] = c /\ call[c].obj \in Objects
      /\ session[call[c].obj].sid = call[c].sid /\ InHook(c)
  BY DEF IInv, HookFails, Locked, LockedCall, InHook, Hooks
<1>2. /\ call' \in [Callers -> Call]
      /\ fpc' \in [Callers -> {"idle", "want", "update"} \cup Hooks]
      /\ \/ fpc'[c] = "idle"
         \/ fpc'[c] = "want" /\ call'[c].sid \in Sids /\ ~call'[c].ended /\ call'[c].op = "tryStart"
      /\ Others(c)
  BY <1>1, CallRejected DEF IInv, HookFails
<1>3. /\ \A d \in Callers \ {c} : InHook(d) => call[d].sid # call[c].sid /\ call[d].obj # call[c].obj
      /\ \A s \in Sids : s # call[c].sid => stored[s] # call[c].obj
      /\ call[c].obj # 0
  BY <1>1, HolderAlone
<1>4. /\ session' \in Seq(Session) /\ Objects' = Objects
      /\ \A p \in Objects : session'[p].sid = session[p].sid
  <2>1. call[c].prev \in STRING /\ 0 \in Nat
    BY DEF IInv, FsmTypeOK, Call
  <2>2. CASE session' = [session EXCEPT ![call[c].obj].current = call[c].prev]
    BY <1>1, <2>1, <2>2, ObjectChanged DEF IInv
  <2>3. CASE session' = session
    BY <2>3 DEF IInv, FsmTypeOK, Objects
  <2>4. QED
    BY <2>2, <2>3 DEF HookFails, Undone
<1>5. FsmTypeOK'
  BY <1>1, <1>2, <1>3, <1>4
     DEF IInv, HookFails, Others, Released, FsmTypeOK, Objects, Hooks, Call
<1>6. Locked' /\ StoredAtHome' /\ NotStored'
  BY <1>1, <1>2, <1>3, <1>4, OverKeeps DEF IInv, HookFails, FsmTypeOK, Objects
<1>7. StillAlive'
  <2>1. ended' \subseteq ended \cup {call[c].obj}
    BY DEF HookFails
  <2>2. ASSUME NEW d \in Callers \ {c},
               fpc'[d] \in {"enter", "update"} \/ (fpc'[d] = "action" /\ ~call'[d].ended)
        PROVE call'[d].obj \notin ended'
    BY <1>2, <1>3, <2>1, <2>2 DEF IInv, StillAlive, Others, InHook, Hooks
  <2>3. fpc'[c] \in {"idle", "want"}
    BY <1>2
  <2>4. QED
    BY <2>2, <2>3 DEF StillAlive
<1>8. EndedStaysEnded'
  BY <1>1, <1>2, <1>3, <1>4
     DEF IInv, HookFails, Others, Released, FsmTypeOK, Locked, LockedCall, InHook, StoredAtHome,
         StillAlive, NotStored, EndedStaysEnded, Objects, Hooks, Call
<1>9. QED
  BY <1>5, <1>6, <1>7, <1>8 DEF IInv

LEMMA HookPanicsIInv ==
  ASSUME IInv, NEW c \in Callers, HookPanics(c)
  PROVE IInv'
<1>1. /\ call[c].sid \in Sids /\ holder[call[c].sid] = c /\ call[c].obj \in Objects
      /\ session[call[c].obj].sid = call[c].sid /\ InHook(c)
  BY DEF IInv, HookPanics, Locked, LockedCall, InHook, Hooks
<1>2. /\ call' \in [Callers -> Call]
      /\ fpc' \in [Callers -> {"idle", "want", "update"} \cup Hooks] /\ fpc'[c] = "idle"
      /\ Others(c)
  BY CallLeaves DEF IInv, HookPanics
<1>3. /\ \A d \in Callers \ {c} : InHook(d) => call[d].sid # call[c].sid /\ call[d].obj # call[c].obj
      /\ \A s \in Sids : s # call[c].sid => stored[s] # call[c].obj
      /\ call[c].obj # 0
  BY <1>1, HolderAlone
<1>4. FsmTypeOK'
  BY <1>1, <1>2, <1>3
     DEF IInv, HookPanics, Others, Released, FsmTypeOK, Objects, Hooks, Call
<1>5. Locked' /\ StoredAtHome' /\ NotStored'
  BY <1>1, <1>2, <1>3, OverKeeps DEF IInv, HookPanics, FsmTypeOK, Objects
<1>6. StillAlive'
  BY <1>1, <1>2, <1>3
     DEF IInv, HookPanics, Others, Released, FsmTypeOK, Locked, LockedCall, InHook, StoredAtHome,
         StillAlive, EndedStaysEnded, Objects, Hooks, Call
<1>7. EndedStaysEnded'
  BY <1>1, <1>2, <1>3
     DEF IInv, HookPanics, Others, Released, FsmTypeOK, Locked, LockedCall, InHook, StoredAtHome,
         StillAlive, NotStored, EndedStaysEnded, Objects, Hooks, Call
<1>8. QED
  BY <1>4, <1>5, <1>6, <1>7 DEF IInv

LEMMA ActionEndsIInv ==
  ASSUME IInv, NEW c \in Callers, ActionEnds(c)
  PROVE IInv'
<1>1. /\ call[c].sid \in Sids /\ holder[call[c].sid] = c /\ call[c].obj \in Objects
      /\ session[call[c].obj].sid = call[c].sid /\ InHook(c)
  BY DEF IInv, ActionEnds, Locked, LockedCall, InHook, Hooks
<1>2. /\ call' \in [Callers -> Call]
      /\ fpc' \in [Callers -> {"idle", "want", "update"} \cup Hooks] /\ fpc'[c] = "idle"
      /\ Others(c)
  BY CallLeaves DEF IInv, ActionEnds
<1>3. /\ \A d \in Callers \ {c} : InHook(d) => call[d].sid # call[c].sid /\ call[d].obj # call[c].obj
      /\ \A s \in Sids : s # call[c].sid => stored[s] # call[c].obj
      /\ call[c].obj # 0
  BY <1>1, HolderAlone
<1>4. FsmTypeOK'
  BY <1>1, <1>2, <1>3
     DEF IInv, ActionEnds, Others, Released, Over, FsmTypeOK, Objects, Hooks, Call
<1>5. Locked' /\ StoredAtHome' /\ NotStored'
  BY <1>1, <1>2, <1>3, OverKeeps DEF IInv, ActionEnds, FsmTypeOK, Objects
<1>6. StillAlive'
  BY <1>1, <1>2, <1>3
     DEF IInv, ActionEnds, Others, Released, Over, FsmTypeOK, Locked, LockedCall, InHook,
         StoredAtHome, StillAlive, EndedStaysEnded, Objects, Hooks, Call
<1>7. EndedStaysEnded'
  BY <1>1, <1>2, <1>3
     DEF IInv, ActionEnds, Others, Released, Over, FsmTypeOK, Locked, LockedCall, InHook,
         StoredAtHome, StillAlive, NotStored, EndedStaysEnded, Objects, Hooks, Call
<1>8. QED
  BY <1>4, <1>5, <1>6, <1>7 DEF IInv

LEMMA ActionMovesIInv ==
  ASSUME IInv, NEW c \in Callers, ActionMoves(c)
  PROVE IInv'
<1>1. /\ call[c].sid \in Sids /\ holder[call[c].sid] = c /\ call[c].obj \in Objects
      /\ session[call[c].obj].sid = call[c].sid /\ InHook(c)
  BY DEF IInv, ActionMoves, Locked, LockedCall, InHook, Hooks
<1> DEFINE o == call[c].obj
<1>0. session[o] \in Session
  BY <1>1 DEF IInv, FsmTypeOK, Objects
<1>2. /\ call' \in [Callers -> Call]
      /\ call'[c].sid = call[c].sid /\ call'[c].obj = call[c].obj /\ ~call'[c].ended
      /\ fpc' \in [Callers -> {"idle", "want", "update"} \cup Hooks] /\ fpc'[c] = "enter"
      /\ Others(c)
  <2> DEFINE x == [call[c] EXCEPT !.prev = session[call[c].obj].current]
  <2>1. session[call[c].obj].current \in STRING
    BY <1>0 DEF Session
  <2>2. x \in Call /\ x.sid = call[c].sid /\ x.obj = call[c].obj /\ x.ended = call[c].ended
    BY <2>1 DEF IInv, FsmTypeOK, Call
  <2>3. call' = [call EXCEPT ![c] = x] /\ fpc' = [fpc EXCEPT ![c] = "enter"] /\ ~call[c].ended
    BY DEF IInv, ActionMoves, Over, FsmTypeOK
  <2> HIDE DEF x
  <2>4. QED
    BY <2>2, <2>3, CallChanges DEF IInv, Hooks
<1>3. /\ \A d \in Callers \ {c} : InHook(d) => call[d].sid # call[c].sid /\ call[d].obj # call[c].obj
      /\ \A s \in Sids : s # call[c].sid => stored[s] # call[c].obj
      /\ call[c].obj # 0
  BY <1>1, HolderAlone
<1>4. /\ session' \in Seq(Session) /\ Objects' = Objects
      /\ \A p \in Objects : session'[p].sid = session[p].sid
  <2>1. PICK e \in Nat :
          session' = [session EXCEPT ![call[c].obj].current = call[c].to, ![call[c].obj].expire = e]
    <3>1. session[call[c].obj].expire \in Nat /\ now + Timeout \in Nat
      BY <1>0, FsmAssumption DEF IInv, FsmTypeOK, Session
    <3>2. QED
      BY <3>1 DEF ActionMoves
  <2>2. call[c].to \in STRING
    BY DEF IInv, FsmTypeOK, Call
  <2>3. QED
    BY <1>1, <2>1, <2>2, ObjectChanged DEF IInv
<1>5. FsmTypeOK'
  BY <1>1, <1>2, <1>3, <1>4 DEF IInv, ActionMoves, Others, Over, FsmTypeOK, Objects, Hooks, Call
<1>6. Locked'
  BY <1>1, <1>2, <1>3, <1>4
     DEF IInv, ActionMoves, Others, Over, FsmTypeOK, Locked, LockedCall, InHook, Objects, Hooks,
         Call
<1>7. StoredAtHome'
  BY <1>1, <1>2, <1>3, <1>4
     DEF IInv, ActionMoves, Others, Over, FsmTypeOK, Locked, LockedCall, InHook, StoredAtHome,
         Objects, Hooks, Call
<1>8. StillAlive'
  BY <1>1, <1>2, <1>3, <1>4
     DEF IInv, ActionMoves, Others, Over, FsmTypeOK, Locked, LockedCall, InHook, StoredAtHome,
         StillAlive, EndedStaysEnded, Objects, Hooks, Call
<1>9. NotStored'
  BY <1>1, <1>2, <1>3, <1>4
     DEF IInv, ActionMoves, Others, Over, FsmTypeOK, Locked, LockedCall, InHook, StoredAtHome,
         NotStored, Objects, Hooks, Call
<1>10. EndedStaysEnded'
  BY <1>1, <1>2, <1>3, <1>4
     DEF IInv, ActionMoves, Others, Over, FsmTypeOK, Locked, LockedCall, InHook, StoredAtHome,
         StillAlive, NotStored, EndedStaysEnded, Objects, Hooks, Call
<1>11. QED
  BY <1>5, <1>6, <1>7, <1>8, <1>9, <1>10 DEF IInv

LEMMA EnterReturnsIInv ==
  ASSUME IInv, NEW c \in Callers, EnterReturns(c)
  PROVE IInv'
<1>1. /\ call[c].sid \in Sids /\ holder[call[c].sid] = c /\ call[c].obj \in Objects
      /\ session[call[c].obj].sid = call[c].sid /\ InHook(c)
  BY DEF IInv, EnterReturns, Locked, LockedCall, InHook, Hooks
<1>2. /\ call' \in [Callers -> Call]
      /\ fpc' \in [Callers -> {"idle", "want", "update"} \cup Hooks] /\ fpc'[c] = "idle"
      /\ Others(c)
  BY CallLeaves DEF IInv, EnterReturns
<1>3. /\ \A d \in Callers \ {c} : InHook(d) => call[d].sid # call[c].sid /\ call[d].obj # call[c].obj
      /\ \A s \in Sids : s # call[c].sid => stored[s] # call[c].obj
      /\ call[c].obj # 0
  BY <1>1, HolderAlone
<1>4. FsmTypeOK'
  BY <1>1, <1>2, <1>3
     DEF IInv, EnterReturns, Others, Released, Saved, FsmTypeOK, Objects, Hooks, Call
<1>5. Locked' /\ StoredAtHome' /\ NotStored'
  BY <1>1, <1>2, <1>3, OverKeeps DEF IInv, EnterReturns, Saved, FsmTypeOK, Objects
<1>6. StillAlive'
  BY <1>1, <1>2, <1>3
     DEF IInv, EnterReturns, Others, Released, Saved, FsmTypeOK, Locked, LockedCall, InHook,
         StoredAtHome, StillAlive, EndedStaysEnded, Objects, Hooks, Call
<1>7. EndedStaysEnded'
  BY <1>1, <1>2, <1>3
     DEF IInv, EnterReturns, Others, Released, Saved, FsmTypeOK, Locked, LockedCall, InHook,
         StoredAtHome, StillAlive, NotStored, EndedStaysEnded, Objects, Hooks, Call
<1>8. QED
  BY <1>4, <1>5, <1>6, <1>7 DEF IInv

LEMMA InitReturnsIInv ==
  ASSUME IInv, NEW c \in Callers, InitReturns(c)
  PROVE IInv'
<1>1. /\ call[c].sid \in Sids /\ holder[call[c].sid] = c /\ call[c].obj \in Objects
      /\ session[call[c].obj].sid = call[c].sid /\ InHook(c)
  BY DEF IInv, InitReturns, Locked, LockedCall, InHook, Hooks
<1>2. /\ call' \in [Callers -> Call]
      /\ fpc' \in [Callers -> {"idle", "want", "update"} \cup Hooks] /\ fpc'[c] = "idle"
      /\ Others(c)
  BY CallLeaves DEF IInv, InitReturns
<1>3. /\ \A d \in Callers \ {c} : InHook(d) => call[d].sid # call[c].sid /\ call[d].obj # call[c].obj
      /\ \A s \in Sids : s # call[c].sid => stored[s] # call[c].obj
      /\ call[c].obj # 0
  BY <1>1, HolderAlone
<1>4. FsmTypeOK'
  BY <1>1, <1>2, <1>3
     DEF IInv, InitReturns, Others, Released, FsmTypeOK, Objects, Hooks, Call
<1>5. Locked' /\ StoredAtHome' /\ NotStored'
  BY <1>1, <1>2, <1>3, OverKeeps DEF IInv, InitReturns, FsmTypeOK, Objects
<1>6. StillAlive'
  BY <1>1, <1>2, <1>3
     DEF IInv, InitReturns, Others, Released, FsmTypeOK, Locked, LockedCall, InHook, StoredAtHome,
         StillAlive, EndedStaysEnded, Objects, Hooks, Call
<1>7. EndedStaysEnded'
  BY <1>1, <1>2, <1>3
     DEF IInv, InitReturns, Others, Released, FsmTypeOK, Locked, LockedCall, InHook, StoredAtHome,
         StillAlive, NotStored, EndedStaysEnded, Objects, Hooks, Call
<1>8. QED
  BY <1>4, <1>5, <1>6, <1>7 DEF IInv

-----------------------------------------------------------------------------
(* Other steps *)

LEMMA EndSessionIInv ==
  ASSUME IInv, NEW s \in Sids, EndSession(s)
  PROVE IInv'
<1>1. FsmTypeOK'
  BY DEF IInv, EndSession, lockVars, FsmTypeOK, Objects, Hooks, Call
<1>2. Locked'
  BY DEF IInv, EndSession, lockVars, FsmTypeOK, Locked, LockedCall, InHook, Objects, Hooks, Call
<1>3. StoredAtHome'
  BY DEF IInv, EndSession, lockVars, FsmTypeOK, Locked, LockedCall, InHook, StoredAtHome, Objects,
         Hooks, Call
<1>4. StillAlive'
  BY FreeMeansAlone DEF IInv, EndSession, lockVars, StillAlive, InHook, Hooks
<1>5. NotStored'
  BY DEF IInv, EndSession, lockVars, FsmTypeOK, Locked, LockedCall, InHook, StoredAtHome,
         NotStored, Objects, Hooks, Call
<1>6. EndedStaysEnded'
  BY DEF IInv, EndSession, lockVars, FsmTypeOK, Locked, LockedCall, InHook, StoredAtHome,
         StillAlive, NotStored, EndedStaysEnded, Objects, Hooks, Call
<1>7. QED
  BY <1>1, <1>2, <1>3, <1>4, <1>5, <1>6 DEF IInv

LEMMA RegisterIInv ==
  ASSUME IInv, NEW f \in Fsms, Register(f)
  PROVE IInv'
<1>1. FsmTypeOK'
  BY DEF IInv, Register, lockVars, FsmTypeOK, Objects, Hooks, Call
<1>2. Locked'
  BY DEF IInv, Register, lockVars, FsmTypeOK, Locked, LockedCall, InHook, Objects, Hooks, Call
<1>3. StoredAtHome'
  BY DEF IInv, Register, lockVars, FsmTypeOK, Locked, LockedCall, InHook, StoredAtHome, Objects,
         Hooks, Call
<1>4. StillAlive'
  BY DEF IInv, Register, lockVars, FsmTypeOK, Locked, LockedCall, InHook, StoredAtHome, StillAlive,
         EndedStaysEnded, Objects, Hooks, Call
<1>5. NotStored'
  BY DEF IInv, Register, lockVars, FsmTypeOK, Locked, LockedCall, InHook, StoredAtHome, NotStored,
         Objects, Hooks, Call
<1>6. EndedStaysEnded'
  BY DEF IInv, Register, lockVars, FsmTypeOK, Locked, LockedCall, InHook, StoredAtHome, StillAlive,
         NotStored, EndedStaysEnded, Objects, Hooks, Call
<1>7. QED
  BY <1>1, <1>2, <1>3, <1>4, <1>5, <1>6 DEF IInv

LEMMA UnregisterIInv ==
  ASSUME IInv, NEW f \in Fsms, Unregister(f)
  PROVE IInv'
<1>1. FsmTypeOK'
  BY DEF IInv, Unregister, lockVars, FsmTypeOK, Objects, Hooks, Call
<1>2. Locked'
  BY DEF IInv, Unregister, lockVars, FsmTypeOK, Locked, LockedCall, InHook, Objects, Hooks, Call
<1>3. StoredAtHome'
  BY DEF IInv, Unregister, lockVars, FsmTypeOK, Locked, LockedCall, InHook, StoredAtHome, Objects,
         Hooks, Call
<1>4. StillAlive'
  BY DEF IInv, Unregister, lockVars, FsmTypeOK, Locked, LockedCall, InHook, StoredAtHome,
         StillAlive, EndedStaysEnded, Objects, Hooks, Call
<1>5. NotStored'
  BY DEF IInv, Unregister, lockVars, FsmTypeOK, Locked, LockedCall, InHook, StoredAtHome,
         NotStored, Objects, Hooks, Call
<1>6. EndedStaysEnded'
  BY DEF IInv, Unregister, lockVars, FsmTypeOK, Locked, LockedCall, InHook, StoredAtHome,
         StillAlive, NotStored, EndedStaysEnded, Objects, Hooks, Call
<1>7. QED
  BY <1>1, <1>2, <1>3, <1>4, <1>5, <1>6 DEF IInv

LEMMA CleanupIInv ==
  ASSUME IInv, Cleanup
  PROVE IInv'
<1>1. FsmTypeOK'
  BY DEF IInv, Cleanup, lockVars, Expired, FsmTypeOK, Objects, Hooks, Call
<1>2. Locked'
  BY DEF IInv, Cleanup, lockVars, Expired, FsmTypeOK, Locked, LockedCall, InHook, Objects, Hooks,
         Call
<1>3. StoredAtHome'
  BY DEF IInv, Cleanup, lockVars, Expired, FsmTypeOK, Locked, LockedCall, InHook, StoredAtHome,
         Objects, Hooks, Call
<1>4. StillAlive'
  BY DEF IInv, Cleanup, lockVars, Expired, FsmTypeOK, Locked, LockedCall, InHook, StoredAtHome,
         StillAlive, EndedStaysEnded, Objects, Hooks, Call
<1>5. NotStored'
  BY DEF IInv, Cleanup, lockVars, Expired, FsmTypeOK, Locked, LockedCall, InHook, StoredAtHome,
         NotStored, Objects, Hooks, Call
<1>6. EndedStaysEnded'
  BY DEF IInv, Cleanup, lockVars, Expired, FsmTypeOK, Locked, LockedCall, InHook, StoredAtHome,
         StillAlive, NotStored, EndedStaysEnded, Objects, Hooks, Call
<1>7. QED
  BY <1>1, <1>2, <1>3, <1>4, <1>5, <1>6 DEF IInv

LEMMA TickIInv ==
  ASSUME IInv, Tick
  PROVE IInv'
<1>1. FsmTypeOK'
  BY DEF IInv, Tick, lockVars, FsmTypeOK, Objects, Hooks, Call
<1>2. Locked'
  BY DEF IInv, Tick, lockVars, FsmTypeOK, Locked, LockedCall, InHook, Objects, Hooks, Call
<1>3. StoredAtHome'
  BY DEF IInv, Tick, lockVars, FsmTypeOK, Locked, LockedCall, InHook, StoredAtHome, Objects, Hooks,
         Call
<1>4. StillAlive'
  BY DEF IInv, Tick, lockVars, FsmTypeOK, Locked, LockedCall, InHook, StoredAtHome, StillAlive,
         EndedStaysEnded, Objects, Hooks, Call
<1>5. NotStored'
  BY DEF IInv, Tick, lockVars, FsmTypeOK, Locked, LockedCall, InHook, StoredAtHome, NotStored,
         Objects, Hooks, Call
<1>6. EndedStaysEnded'
  BY DEF IInv, Tick, lockVars, FsmTypeOK, Locked, LockedCall, InHook, StoredAtHome, StillAlive,
         NotStored, EndedStaysEnded, Objects, Hooks, Call
<1>7. QED
  BY <1>1, <1>2, <1>3, <1>4, <1>5, <1>6 DEF IInv

-----------------------------------------------------------------------------
LEMMA StutterIInv ==
  ASSUME IInv, UNCHANGED fsmVars
  PROVE IInv'
  BY DEF fsmVars, IInv, FsmTypeOK, Objects, Locked, LockedCall, InHook, StoredAtHome, StillAlive, NotStored,
         EndedStaysEnded

LEMMA NextIInv == IInv /\ [FsmNext]_fsmVars => IInv'
<1> SUFFICES ASSUME IInv, [FsmNext]_fsmVars PROVE IInv'
  OBVIOUS
<1>1. ASSUME NEW c \in Callers, CallStep(c) PROVE IInv'
  BY <1>1, TransitionRefusedIInv, TransitionBeginIInv, TryStartBlockedIInv, TryStartNoneIInv,
     TryStartBeginIInv, StartExistsIInv, StartSaveIInv, UpdateSaveIInv, HookEndsIInv,
     HookFailsIInv, HookPanicsIInv, ActionEndsIInv, ActionMovesIInv, EnterReturnsIInv,
     InitReturnsIInv
     DEF CallStep
<1>2. ASSUME NEW c \in Callers, Message(c) \/ StartCall(c) \/ UpdateCall(c) PROVE IInv'
  BY <1>2, MessageIInv, StartCallIInv, UpdateCallIInv
<1>3. QED
  BY <1>1, <1>2, EndSessionIInv, RegisterIInv, UnregisterIInv, CleanupIInv, TickIInv, StutterIInv
     DEF FsmNext

LEMMA FsmInvariant == FsmSpec => []IInv
  BY InitIInv, NextIInv, PTL DEF FsmSpec

-----------------------------------------------------------------------------
(* The results *)

\* The variables keep their types (fsm.go, storage.go).
THEOREM FsmTypes == FsmSpec => []FsmTypeOK
<1>1. IInv => FsmTypeOK
  BY DEF IInv
<1>2. QED
  BY <1>1, FsmInvariant, PTL

\* A session that was ended does not come back (fsm.go:595-606 against 522, 633).
THEOREM EndedForGood == FsmSpec => []EndedStaysEnded
<1>1. IInv => EndedStaysEnded
  BY DEF IInv
<1>2. QED
  BY <1>1, FsmInvariant, PTL
-----------------------------------------------------------------------------
(* Answers and phases                                                      *)
(*                                                                         *)
(* What a caller was told holds between calls, not during them: what a     *)
(* call under way knows of its object, and will leave of it, is in Work.   *)

\* A state of o was reported, and the session has not been ended since.
Reported(o) == told[o] # Untold /\ o \notin ended

\* A call under way works on o.
InHands(o) == \E c \in Callers : InHook(c) /\ call[c].obj = o

\* An object nobody works on is as it was reported.
AtRest(o) ==
  Reported(o) /\ ~Expired(o) /\ ~InHands(o)
  => stored[session[o].sid] = o /\ session[o].current = told[o]

\* The event that a call takes is one of the machine, from st.
OnEdge(c, st) == \E e \in Applicable(call[c].fsm, st) : e.to = call[c].to

\* A session ID has no other live session than the one a call works on.
Alone(c) ==
  \A o \in Objects :
    o # call[c].obj /\ session[o].sid = call[c].sid /\ Reported(o) => Expired(o)

InTransition(c) ==
  LET o == call[c].obj  at == stored[call[c].sid] IN
  /\ call[c].fsm = session[o].fsm
  /\ at \in {0, o}
  /\ fpc[c] \in {"action", "enter"}
  /\ fpc[c] = "action" => /\ Reported(o) => at = o /\ session[o].current = told[o]
                          /\ OnEdge(c, session[o].current)
  /\ fpc[c] = "enter" => /\ Reported(o) => call[c].prev = told[o] /\ (call[c].ended \/ at = o)
                         /\ session[o].current = call[c].to
                         /\ OnEdge(c, call[c].prev) /\ call[c].to # EndState

InTryStart(c) ==
  LET o == call[c].obj IN
  /\ call[c].fsm = session[o].fsm
  /\ fpc[c] \in {"action", "enter"}
  /\ told[o] = Untold
  /\ Lookup(call[c].sid) = 0
  /\ OnEdge(c, Initial[call[c].fsm])
  /\ fpc[c] = "enter" => session[o].current = call[c].to /\ call[c].to # EndState

InStart(c) ==
  LET o == call[c].obj  at == stored[call[c].sid] IN
  /\ fpc[c] = "init"
  /\ told[o] = Untold /\ session[o].current = call[c].to
  /\ at \in {0, o}
  /\ o \in ended \/ at = o \/ Expired(o)

InUpdate(c) ==
  LET o == call[c].obj  at == stored[call[c].sid] IN
  /\ fpc[c] = "update"
  /\ at \in {0, o}
  /\ at = o \/ Expired(o)
  /\ Reported(o) => at = o /\ session[o].current = told[o]

Work(c) ==
  InHook(c) => /\ Alone(c)
               /\ \/ call[c].op = "transition" /\ InTransition(c)
                  \/ call[c].op = "tryStart" /\ InTryStart(c)
                  \/ call[c].op = "start" /\ InStart(c)
                  \/ call[c].op = "update" /\ InUpdate(c)

\* Whoever holds the lock of a session ID works under it.
HolderWorks(s) == holder[s] # NoCall => InHook(holder[s]) /\ call[holder[s]].sid = s

AnswerInv ==
  /\ \A o \in Objects : AtRest(o)
  /\ \A c \in Callers : Work(c)
  /\ \A s \in Sids : HolderWorks(s)
-----------------------------------------------------------------------------
(* Steps under one session ID *)

\* A step of c that touches nothing but session ID s, on which no other call works.
LocalStep(c, s) ==
  /\ now' = now
  /\ \A z \in Sids : z # s => stored'[z] = stored[z] /\ holder'[z] = holder[z]
  /\ \A o \in Objects :
       /\ o \in Objects' /\ session'[o].sid = session[o].sid
       /\ session[o].sid # s =>
            session'[o] = session[o] /\ told'[o] = told[o] /\ (o \in ended' <=> o \in ended)
  /\ \A o \in Objects' : o \notin Objects => session'[o].sid = s
  /\ Others(c)
  /\ \A d \in Callers \ {c} : InHook(d) => call[d].sid # s
  /\ InHook(c) => call[c].sid = s
  /\ InHook(c)' => call'[c].sid = s

LEMMA OthersKeepWork ==
  ASSUME IInv, AnswerInv, NEW c \in Callers, NEW s \in Sids, LocalStep(c, s),
         NEW d \in Callers \ {c}
  PROVE  Work(d)'
<1> SUFFICES ASSUME InHook(d)' PROVE Work(d)'
  BY DEF Work
<1> DEFINE o == call[d].obj
           z == call[d].sid
<1>1. InHook(d) /\ z # s /\ z \in Sids /\ o \in Objects /\ session[o].sid = z
  BY DEF LocalStep, Others, InHook, IInv, Locked, LockedCall, Hooks
<1>2. call'[d] = call[d] /\ fpc'[d] = fpc[d]
  BY DEF LocalStep, Others
<1>3. /\ session'[o] = session[o] /\ told'[o] = told[o] /\ (o \in ended' <=> o \in ended)
      /\ stored'[z] = stored[z] /\ now' = now /\ o \in Objects'
  BY <1>1 DEF LocalStep
<1>4. Work(d)
  BY DEF AnswerInv
<1>5. Alone(d)'
  <2> SUFFICES ASSUME NEW p \in Objects', p # o, session'[p].sid = z, Reported(p)' PROVE Expired(p)'
    BY <1>2 DEF Alone
  <2>1. p \in Objects
    BY <1>1 DEF LocalStep
  <2>2. session[p].sid = z
    BY <2>1 DEF LocalStep
  <2>3. session'[p] = session[p] /\ told'[p] = told[p] /\ (p \in ended' <=> p \in ended) /\ now' = now
    BY <1>1, <2>1, <2>2 DEF LocalStep
  <2>4. Expired(p)
    BY <1>1, <1>4, <2>1, <2>2, <2>3 DEF Work, Alone, Reported
  <2> QED BY <2>3, <2>4 DEF Expired
<1>6. stored[z] # 0 => session'[stored[z]] = session[stored[z]]
  BY <1>1 DEF LocalStep, IInv, FsmTypeOK, StoredAtHome
<1>7. Lookup(z)' = Lookup(z)
  BY <1>2, <1>3, <1>6 DEF Lookup, Expired
<1>8. (Reported(o) <=> Reported(o)') /\ (Expired(o) <=> Expired(o)')
  BY <1>2, <1>3 DEF Reported, Expired
<1>9. \A st : OnEdge(d, st)' <=> OnEdge(d, st)
  BY <1>2 DEF OnEdge
<1>10. CASE call[d].op = "transition" /\ InTransition(d)
  BY <1>2, <1>3, <1>5, <1>8, <1>9, <1>10 DEF Work, InTransition, OnEdge
<1>11. CASE call[d].op = "tryStart" /\ InTryStart(d)
  BY <1>2, <1>3, <1>5, <1>7, <1>9, <1>11 DEF Work, InTryStart, OnEdge
<1>12. CASE call[d].op = "start" /\ InStart(d)
  BY <1>2, <1>3, <1>5, <1>8, <1>12 DEF Work, InStart
<1>13. CASE call[d].op = "update" /\ InUpdate(d)
  BY <1>2, <1>3, <1>5, <1>8, <1>13 DEF Work, InUpdate
<1> QED BY <1>1, <1>4, <1>10, <1>11, <1>12, <1>13 DEF Work

LEMMA ElsewhereAtRest ==
  ASSUME IInv, AnswerInv, NEW c \in Callers, NEW s \in Sids, LocalStep(c, s),
         NEW o \in Objects, session[o].sid # s
  PROVE  AtRest(o)'
<1>1. /\ session'[o] = session[o] /\ told'[o] = told[o] /\ (o \in ended' <=> o \in ended)
      /\ now' = now
  BY DEF LocalStep
<1>2. session[o].sid \in Sids /\ stored'[session[o].sid] = stored[session[o].sid]
  <2>1. session[o] \in Session
    BY DEF IInv, FsmTypeOK, Objects
  <2>2. session[o].sid \in Sids
    BY <2>1 DEF Session
  <2> QED BY <2>2 DEF LocalStep
<1>3. InHands(o) => InHands(o)'
  <2> SUFFICES ASSUME NEW d \in Callers, InHook(d), call[d].obj = o PROVE InHands(o)'
    BY DEF InHands
  <2>1. call[d].sid = session[o].sid
    BY DEF IInv, Locked, LockedCall
  <2>2. d # c
    BY <2>1 DEF LocalStep
  <2> QED BY <2>2 DEF LocalStep, Others, InHook, InHands
<1> QED BY <1>1, <1>2, <1>3 DEF AnswerInv, AtRest, Reported, Expired

LEMMA LocalKeeps ==
  ASSUME IInv, AnswerInv, NEW c \in Callers, NEW s \in Sids, LocalStep(c, s),
         Work(c)', HolderWorks(s)',
         \A o \in Objects' : session'[o].sid = s => AtRest(o)'
  PROVE  AnswerInv'
<1>1. \A d \in Callers : Work(d)'
  BY OthersKeepWork
<1>2. \A o \in Objects' : AtRest(o)'
  BY ElsewhereAtRest DEF LocalStep
<1>3. ASSUME NEW z \in Sids, z # s PROVE HolderWorks(z)'
  <2> SUFFICES ASSUME holder'[z] # NoCall PROVE (InHook(holder[z]) /\ call[holder[z]].sid = z)'
    BY DEF HolderWorks
  <2>1. holder'[z] = holder[z] /\ holder[z] \in Callers
    BY <1>3 DEF LocalStep, IInv, FsmTypeOK
  <2>2. InHook(holder[z]) /\ call[holder[z]].sid = z
    BY <2>1 DEF AnswerInv, HolderWorks
  <2>3. holder[z] # c
    BY <1>3, <2>2 DEF LocalStep
  <2> QED BY <2>1, <2>2, <2>3 DEF LocalStep, Others, InHook
<1> QED BY <1>1, <1>2, <1>3 DEF AnswerInv

\* The call is under way after the step: its own object is in its hands.
LEMMA LocalInside ==
  ASSUME IInv, AnswerInv, NEW c \in Callers, NEW s \in Sids, LocalStep(c, s),
         InHook(c)', Work(c)', holder'[s] = c
  PROVE  AnswerInv'
<1>1. ASSUME NEW o \in Objects', session'[o].sid = s PROVE AtRest(o)'
  <2>1. CASE o = call'[c].obj
    BY <2>1 DEF AtRest, InHands
  <2>2. CASE o # call'[c].obj
    BY <1>1, <2>2 DEF AtRest, Work, Alone, LocalStep
  <2> QED BY <2>1, <2>2
<1>2. HolderWorks(s)'
  BY DEF HolderWorks, LocalStep
<1> QED BY <1>1, <1>2, LocalKeeps

\* The call is over, or has not begun: its session ID is as it was reported.
LEMMA LocalOutside ==
  ASSUME IInv, AnswerInv, NEW c \in Callers, NEW s \in Sids, LocalStep(c, s),
         ~InHook(c)', holder'[s] = NoCall, Objects' = Objects,
         \A o \in Objects : session[o].sid = s /\ Reported(o)' /\ ~Expired(o)'
            => stored'[s] = o /\ session'[o].current = told'[o]
  PROVE  AnswerInv'
<1>1. ASSUME NEW o \in Objects', session'[o].sid = s PROVE AtRest(o)'
  BY <1>1 DEF AtRest, LocalStep
<1>2. Work(c)' /\ HolderWorks(s)'
  BY DEF Work, HolderWorks
<1> QED BY <1>1, <1>2, LocalKeeps
-----------------------------------------------------------------------------
(* Calls begin *)

\* The object that is made, and what is reported of it.
LEMMA ObjectAsMade ==
  ASSUME FsmTypeOK, NEW c \in Callers, NEW s \in Sids, NEW f \in Fsms,
         session' = Append(session, Made(s, f, UserOf[c])), told' = Append(told, Untold)
  PROVE /\ session'[Len(session) + 1].fsm = f
        /\ session'[Len(session) + 1].current = Initial[f]
        /\ told'[Len(session) + 1] = Untold
        /\ \A o \in Objects : told'[o] = told[o]
<1> DEFINE x == Made(s, f, UserOf[c])
           T == {Untold} \cup STRING
           n == Len(session)
<1>1. x.fsm = f /\ x.current = Initial[f]
  BY DEF Made
<1>2. session' = Append(session, x)
  OBVIOUS
<1> HIDE DEF x
<1>3. session'[n + 1] = x
  BY <1>2 DEF FsmTypeOK
<1>4. told \in [1 .. n -> T] /\ Untold \in T /\ n \in Nat
  BY DEF FsmTypeOK, Objects
<1> HIDE DEF T, n
<1>5. told \in Seq(T)
  BY <1>4, SeqDef
<1>6. Len(told) = n
  BY <1>4, <1>5, LenProperties
<1>7. told'[n + 1] = Untold /\ \A o \in 1 .. n : told'[o] = told[o]
  BY <1>4, <1>5, <1>6
<1> QED BY <1>1, <1>3, <1>7 DEF n, Objects

\* What a call that enters a hook knows.
LEMMA HookedAs ==
  ASSUME FsmTypeOK, NEW c \in Callers, NEW o, NEW f, NEW to, NEW step, Hooked(c, o, f, to, step)
  PROVE call'[c].fsm = f /\ call'[c].to = to
BY DEF Hooked, FsmTypeOK, Call

\* While a session ID is free, its session is as it was reported.
LEMMA FreeAtRest ==
  ASSUME IInv, AnswerInv, NEW s \in Sids, holder[s] = NoCall, NEW o \in Objects,
         session[o].sid = s, Reported(o), ~Expired(o)
  PROVE  stored[s] = o /\ session[o].current = told[o] /\ Lookup(s) = o
<1>1. ~InHands(o)
  BY FreeMeansAlone DEF InHands, IInv, Locked, LockedCall
<1>2. stored[s] = o /\ session[o].current = told[o]
  BY <1>1 DEF AnswerInv, AtRest
<1> QED BY <1>2 DEF Lookup, Objects

LEMMA FreeCall ==
  ASSUME IInv, NEW c \in Callers, Free(c)
  PROVE /\ call[c].sid \in Sids /\ holder[call[c].sid] = NoCall /\ ~InHook(c)
        /\ \A d \in Callers : InHook(d) => call[d].sid # call[c].sid
<1>1. call[c].sid \in Sids /\ holder[call[c].sid] = NoCall
  BY DEF Free, IInv, Locked, LockedCall
<1> QED BY <1>1, FreeMeansAlone DEF Free, InHook, Hooks

\* A call that finds nothing to do changes nothing but its own state.
LEMMA QuietKeeps ==
  ASSUME IInv, AnswerInv, NEW c \in Callers, Free(c), Others(c), ~InHook(c)',
         UNCHANGED <<session, stored, holder, now, ended, told>>
  PROVE  AnswerInv' /\ LocalStep(c, call[c].sid)
<1> DEFINE s == call[c].sid
<1>1. s \in Sids /\ holder[s] = NoCall /\ ~InHook(c) /\ \A d \in Callers : InHook(d) => call[d].sid # s
  BY FreeCall
<1> HIDE DEF s
<1>2. LocalStep(c, s)
  BY <1>1 DEF LocalStep, Objects
<1>3. ASSUME NEW o \in Objects, session[o].sid = s, Reported(o)', ~Expired(o)'
      PROVE  stored'[s] = o /\ session'[o].current = told'[o]
  <2>1. Reported(o) /\ ~Expired(o)
    BY <1>3 DEF Reported, Expired
  <2> QED BY <1>1, <1>3, <2>1, FreeAtRest
<1> QED BY <1>1, <1>2, <1>3, LocalOutside DEF Objects, s

LEMMA TransitionRefusedAnswer ==
  ASSUME IInv, AnswerInv, NEW c \in Callers, TransitionRefused(c)
  PROVE  AnswerInv' /\ LocalStep(c, call[c].sid)
<1>1. call[c].sid \in Sids
  BY FreeCall DEF TransitionRefused
<1>2. Others(c) /\ fpc'[c] \in {"idle", "want"}
  BY <1>1, CallRejected DEF IInv, TransitionRefused
<1> QED BY <1>2, QuietKeeps DEF TransitionRefused, InHook, Hooks

LEMMA BlockedAnswer ==
  ASSUME IInv, AnswerInv, NEW c \in Callers, TryStartBlocked(c) \/ StartExists(c)
  PROVE  AnswerInv' /\ LocalStep(c, call[c].sid)
<1>1. Others(c) /\ fpc'[c] = "idle"
  BY CallLeaves DEF IInv, TryStartBlocked, StartExists
<1> QED BY <1>1, QuietKeeps DEF TryStartBlocked, StartExists, InHook, Hooks

LEMMA TryStartNoneAnswer ==
  ASSUME IInv, AnswerInv, NEW c \in Callers, TryStartNone(c)
  PROVE  AnswerInv' /\ LocalStep(c, call[c].sid)
<1> DEFINE s == call[c].sid
<1>1. s \in Sids /\ holder[s] = NoCall /\ ~InHook(c) /\ \A d \in Callers : InHook(d) => call[d].sid # s
  BY FreeCall DEF TryStartNone
<1>2. Others(c) /\ fpc'[c] = "idle"
  BY CallLeaves DEF IInv, TryStartNone
<1>3. /\ stored' = StoredForStart(s) /\ ended' = ended \cup ({Lookup(s)} \ {0})
      /\ UNCHANGED <<session, holder, now, told>>
  BY DEF TryStartNone
<1>4. Lookup(s) # 0 => session[Lookup(s)].sid = s
  BY <1>1 DEF Lookup, IInv, StoredAtHome
<1> HIDE DEF s
<1>5. ~InHook(c)'
  BY <1>2 DEF InHook, Hooks
<1>6. LocalStep(c, s)
  BY <1>1, <1>2, <1>3, <1>4, <1>5 DEF LocalStep, StoredForStart, Objects, IInv, FsmTypeOK
<1>7. ASSUME NEW o \in Objects, session[o].sid = s, Reported(o)', ~Expired(o)'
      PROVE  FALSE
  <2>1. Reported(o) /\ ~Expired(o)
    BY <1>3, <1>7 DEF Reported, Expired
  <2>2. Lookup(s) = o /\ o # 0
    BY <1>1, <1>7, <2>1, FreeAtRest DEF Objects
  <2> QED BY <1>3, <1>7, <2>2 DEF Reported
<1> QED BY <1>1, <1>3, <1>5, <1>6, <1>7, LocalOutside DEF Objects, s

LEMMA TransitionBeginAnswer ==
  ASSUME IInv, AnswerInv, NEW c \in Callers, TransitionBegin(c)
  PROVE  AnswerInv' /\ LocalStep(c, call[c].sid)
<1>s. PICK s \in Sids : s = call[c].sid
  BY FreeCall DEF TransitionBegin
<1>0. PICK o : o = Lookup(s)
  OBVIOUS
<1>1. s \in Sids /\ holder[s] = NoCall /\ ~InHook(c) /\ \A d \in Callers : InHook(d) => call[d].sid # s
  BY <1>s, <1>0, FreeCall DEF TransitionBegin
<1>2. o # 0 /\ o = stored[s] /\ ~Expired(o) /\ o \in Objects /\ session[o].sid = s /\ o \in Nat
  BY <1>s, <1>0, <1>1 DEF TransitionBegin, Lookup, IInv, FsmTypeOK, StoredAtHome, Objects
<1>3. session[o] \in Session
  BY <1>2 DEF IInv, FsmTypeOK, Objects
<1>4. session[o].fsm \in Fsms
  BY <1>3 DEF Session
<1>5. PICK e \in Applicable(session[o].fsm, session[o].current) :
        Hooked(c, o, session[o].fsm, e.to, "action")
  BY <1>s, <1>0 DEF TransitionBegin
<1>6. e.to \in STRING
  BY <1>4, FsmAssumption DEF Applicable
<1>7. /\ call'[c].sid = s /\ call'[c].op = "transition" /\ call'[c].obj = o
      /\ fpc'[c] = "action" /\ holder'[s] = c
      /\ \A z \in Sids : z # s => holder'[z] = holder[z]
      /\ Others(c)
  <2>1. FsmTypeOK /\ "action" \in Hooks /\ call[c].op = "transition" /\ call[c].sid \in Sids /\ o \in Nat
    BY <1>s, <1>2 DEF IInv, Hooks, TransitionBegin
  <2>3. PICK f \in Fsms, to \in STRING : Hooked(c, o, f, to, "action")
    BY <1>4, <1>5, <1>6
  <2>2. /\ call'[c].sid = call[c].sid /\ call'[c].op = call[c].op /\ call'[c].obj = o
        /\ fpc'[c] = "action" /\ holder'[call[c].sid] = c
        /\ \A z \in Sids : z # call[c].sid => holder'[z] = holder[z]
        /\ Others(c)
    BY ONLY c \in Callers, <2>1, <2>3, CallHooked
  <2> QED BY <1>s, <1>0, <2>1, <2>2
<1>8. call'[c].fsm = session[o].fsm /\ call'[c].to = e.to
  BY <1>5, HookedAs DEF IInv
<1>9. UNCHANGED <<session, stored, now, ended, told>>
  BY DEF TransitionBegin
<1>10. LocalStep(c, s)
  BY <1>1, <1>7, <1>9 DEF LocalStep, Objects
<1>11. Alone(c)'
  <2> SUFFICES ASSUME NEW p \in Objects, p # o, session[p].sid = s, Reported(p)' PROVE Expired(p)'
    BY <1>7, <1>9 DEF Alone, Objects
  <2>1. Reported(p)
    BY <1>9 DEF Reported
  <2>2. Expired(p)
    BY <1>1, <1>2, <2>1, FreeAtRest
  <2> QED BY <1>9, <2>2 DEF Expired
<1>12. InTransition(c)'
  <2>1. Reported(o)' => stored[s] = o /\ session[o].current = told[o]
    BY <1>1, <1>2, <1>9, FreeAtRest DEF Reported
  <2>2. OnEdge(c, session[o].current)'
    BY <1>5, <1>7, <1>8, <1>9 DEF OnEdge
  <2>3. Reported(call[c].obj)' => Reported(o)'
    BY <1>7, <1>9 DEF Reported
  <2> QED BY <1>2, <1>7, <1>8, <1>9, <2>1, <2>2, <2>3 DEF InTransition, OnEdge
<1>13. InHook(c)' /\ Work(c)'
  BY <1>7, <1>11, <1>12 DEF InHook, Hooks, Work
<1> QED BY <1>s, <1>0, <1>1, <1>7, <1>10, <1>13, LocalInside

LEMMA TryStartBeginAnswer ==
  ASSUME IInv, AnswerInv, NEW c \in Callers, TryStartBegin(c)
  PROVE  AnswerInv' /\ LocalStep(c, call[c].sid)
<1>s. PICK s \in Sids : s = call[c].sid
  BY FreeCall DEF TryStartBegin
<1>0. PICK n : n = Len(session) + 1
  OBVIOUS
<1>1. s \in Sids /\ holder[s] = NoCall /\ ~InHook(c) /\ \A d \in Callers : InHook(d) => call[d].sid # s
  BY <1>s, <1>0, FreeCall DEF TryStartBegin
<1>f. PICK f \in registered : \E e \in Applicable(f, Initial[f]) :
        /\ session' = Append(session, Made(s, f, UserOf[c]))
        /\ Hooked(c, n, f, e.to, "action")
  BY <1>s, <1>0 DEF TryStartBegin
<1>2. PICK e \in Applicable(f, Initial[f]) :
        /\ session' = Append(session, Made(s, f, UserOf[c]))
        /\ Hooked(c, n, f, e.to, "action")
  BY <1>f
<1>3. f \in Fsms /\ told' = Append(told, Untold)
  BY DEF TryStartBegin, IInv, FsmTypeOK
<1>4. e.to \in STRING
  BY <1>3, FsmAssumption DEF Applicable
<1>5. /\ Objects' = Objects \cup {n} /\ n \in Nat \ {0} /\ n \notin Objects
      /\ session'[n].sid = s /\ \A o \in Objects : session'[o] = session[o]
  BY <1>s, <1>0, <1>1, <1>2, <1>3, ObjectMade DEF IInv
<1>6. session'[n].fsm = f /\ told'[n] = Untold /\ \A o \in Objects : told'[o] = told[o]
  BY <1>s, <1>0, <1>1, <1>2, <1>3, ObjectAsMade DEF IInv
<1>7. /\ call'[c].sid = s /\ call'[c].op = "tryStart" /\ call'[c].obj = n
      /\ fpc'[c] = "action" /\ holder'[s] = c
      /\ \A z \in Sids : z # s => holder'[z] = holder[z]
      /\ Others(c)
  <2>1. FsmTypeOK /\ "action" \in Hooks /\ call[c].op = "tryStart"
    BY DEF IInv, Hooks, TryStartBegin
  <2>3. n \in Nat /\ call[c].sid \in Sids /\ f \in Fsms
    BY <1>s, <1>0, <1>3, <1>5
  <2>2. /\ call'[c].sid = call[c].sid /\ call'[c].op = call[c].op /\ call'[c].obj = n
        /\ fpc'[c] = "action" /\ holder'[call[c].sid] = c
        /\ \A z \in Sids : z # call[c].sid => holder'[z] = holder[z]
        /\ Others(c)
    <3> DEFINE to == e.to
    <3>1. to \in STRING /\ Hooked(c, n, f, to, "action")
      BY <1>2, <1>4
    <3> HIDE DEF to
    <3> QED BY ONLY c \in Callers, <2>1, <2>3, <3>1, CallHooked
  <2> QED BY <1>s, <1>0, <2>1, <2>2
<1>8. call'[c].fsm = f /\ call'[c].to = e.to
  BY <1>2, HookedAs DEF IInv
<1>9. /\ stored' = StoredForStart(s) /\ ended' = ended \cup ({Lookup(s)} \ {0}) /\ now' = now
  BY <1>s, <1>0 DEF TryStartBegin
<1>10. Lookup(s) # 0 => session[Lookup(s)].sid = s
  BY <1>1 DEF Lookup, IInv, StoredAtHome
<1>11. stored[s] \in {0} \cup Objects
  BY <1>1 DEF IInv, FsmTypeOK
<1>12. LocalStep(c, s)
  BY <1>1, <1>5, <1>6, <1>7, <1>9, <1>10 DEF LocalStep, StoredForStart, IInv, FsmTypeOK
<1>13. Alone(c)'
  <2> SUFFICES ASSUME NEW p \in Objects, session[p].sid = s, Reported(p)' PROVE Expired(p)'
    BY <1>5, <1>7 DEF Alone
  <2>1. Reported(p)
    BY <1>6, <1>9 DEF Reported
  <2>2. p # Lookup(s)
    BY <1>9 DEF Reported, Objects
  <2>3. Expired(p)
    BY <1>1, <2>1, <2>2, FreeAtRest
  <2> QED BY <1>5, <1>9, <2>3 DEF Expired
<1>14. stored'[s] = 0 \/ (stored'[s] \in Objects /\ Expired(stored'[s]))
  BY <1>1, <1>9, <1>11 DEF StoredForStart, Lookup, IInv, FsmTypeOK
<1>15. (Lookup(call[c].sid) = 0)'
  BY <1>5, <1>7, <1>9, <1>14 DEF Lookup, Expired
<1>16. OnEdge(c, Initial[call[c].fsm])'
  BY <1>2, <1>8 DEF OnEdge
<1>17. InTryStart(c)'
  BY <1>6, <1>7, <1>8, <1>15, <1>16 DEF InTryStart
<1>18. InHook(c)' /\ Work(c)'
  BY <1>7, <1>13, <1>17 DEF InHook, Hooks, Work
<1> QED BY <1>s, <1>0, <1>1, <1>7, <1>12, <1>18, LocalInside

LEMMA StartSaveAnswer ==
  ASSUME IInv, AnswerInv, NEW c \in Callers, StartSave(c)
  PROVE  AnswerInv' /\ LocalStep(c, call[c].sid)
<1>s. PICK s \in Sids : s = call[c].sid
  BY FreeCall DEF StartSave, MayStart
<1>0. PICK f, n : f = call[c].fsm /\ n = Len(session) + 1
  OBVIOUS
<1>1. s \in Sids /\ holder[s] = NoCall /\ ~InHook(c) /\ \A d \in Callers : InHook(d) => call[d].sid # s
  BY <1>s, <1>0, FreeCall DEF StartSave, MayStart
<1>2. /\ session' = Append(session, Made(s, f, UserOf[c]))
      /\ Hooked(c, n, f, Initial[f], "init")
      /\ told' = Append(told, Untold)
  BY <1>s, <1>0 DEF StartSave
<1>3. f \in Fsms /\ Initial[f] \in STRING /\ Lookup(s) = 0
  BY <1>s, <1>0, FsmAssumption DEF StartSave, MayStart, Free, IInv, Locked, LockedCall
<1>5. /\ Objects' = Objects \cup {n} /\ n \in Nat \ {0} /\ n \notin Objects
      /\ session'[n].sid = s /\ \A o \in Objects : session'[o] = session[o]
  BY <1>s, <1>0, <1>1, <1>2, <1>3, ObjectMade DEF IInv
<1>6. session'[n].current = Initial[f] /\ told'[n] = Untold /\ \A o \in Objects : told'[o] = told[o]
  BY <1>s, <1>0, <1>1, <1>2, <1>3, ObjectAsMade DEF IInv
<1>7. /\ call'[c].sid = s /\ call'[c].op = "start" /\ call'[c].obj = n
      /\ fpc'[c] = "init" /\ holder'[s] = c
      /\ \A z \in Sids : z # s => holder'[z] = holder[z]
      /\ Others(c)
  <2>1. FsmTypeOK /\ "init" \in Hooks /\ call[c].op = "start"
    BY DEF IInv, Hooks, StartSave, MayStart
  <2>3. n \in Nat /\ call[c].sid \in Sids /\ f \in Fsms
    BY <1>s, <1>0, <1>3, <1>5
  <2>2. /\ call'[c].sid = call[c].sid /\ call'[c].op = call[c].op /\ call'[c].obj = n
        /\ fpc'[c] = "init" /\ holder'[call[c].sid] = c
        /\ \A z \in Sids : z # call[c].sid => holder'[z] = holder[z]
        /\ Others(c)
    <3> DEFINE first == Initial[f]
    <3>1. first \in STRING /\ Hooked(c, n, f, first, "init")
      BY <1>2, <1>3
    <3> HIDE DEF first
    <3> QED BY ONLY c \in Callers, <2>1, <2>3, <3>1, CallHooked
  <2> QED BY <1>s, <1>0, <2>1, <2>2
<1>8. call'[c].to = Initial[f]
  BY <1>2, HookedAs DEF IInv
<1>9. stored' = [stored EXCEPT ![s] = n] /\ UNCHANGED <<now, ended>>
  BY <1>s, <1>0 DEF StartSave
<1>10. stored'[s] = n
  BY <1>1, <1>9 DEF IInv, FsmTypeOK
<1>12. LocalStep(c, s)
  BY <1>1, <1>5, <1>6, <1>7, <1>9 DEF LocalStep, IInv, FsmTypeOK
<1>13. Alone(c)'
  <2> SUFFICES ASSUME NEW p \in Objects, session[p].sid = s, Reported(p)' PROVE Expired(p)'
    BY <1>5, <1>7 DEF Alone
  <2>1. Reported(p)
    BY <1>6, <1>9 DEF Reported
  <2>2. p # Lookup(s)
    BY <1>3 DEF Objects
  <2>3. Expired(p)
    BY <1>1, <2>1, <2>2, FreeAtRest
  <2> QED BY <1>5, <1>9, <2>3 DEF Expired
<1>14. InStart(c)'
  BY <1>6, <1>7, <1>8, <1>10 DEF InStart
<1>15. InHook(c)' /\ Work(c)'
  BY <1>7, <1>13, <1>14 DEF InHook, Hooks, Work
<1> QED BY <1>s, <1>0, <1>1, <1>7, <1>12, <1>15, LocalInside

LEMMA BeginAnswer ==
  ASSUME IInv, AnswerInv, NEW c \in Callers, Message(c) \/ StartCall(c)
  PROVE  AnswerInv'
<1>1. ~InHook(c) /\ ~InHook(c)' /\ UNCHANGED <<session, stored, holder, now, ended, told>>
  BY DEF Message, StartCall, InHook, Hooks, IInv, FsmTypeOK
<1>2. Others(c)
  BY DEF Message, StartCall, Others, IInv, FsmTypeOK
<1>4. \A d \in Callers : InHook(d)' <=> InHook(d)
  BY <1>1, <1>2 DEF Others, InHook
<1>5. ASSUME NEW o \in Objects PROVE AtRest(o)'
  <2>1. InHands(o)' <=> InHands(o)
    BY <1>1, <1>2, <1>4 DEF InHands, Others
  <2> QED BY <1>1, <2>1 DEF AtRest, Reported, Expired, AnswerInv
<1>6. ASSUME NEW d \in Callers PROVE Work(d)'
  <2>1. CASE d = c
    BY <1>1, <2>1 DEF Work
  <2>2. CASE d # c
    <3>1. call'[d] = call[d] /\ fpc'[d] = fpc[d]
      BY <1>2, <2>2 DEF Others
    <3>2. Work(d)
      BY DEF AnswerInv
    <3> QED BY <1>1, <3>1, <3>2
            DEF Work, InHook, Alone, InTransition, InTryStart, InStart, InUpdate, OnEdge, Reported,
                Expired, Lookup, Objects
  <2> QED BY <2>1, <2>2
<1>7. ASSUME NEW s \in Sids PROVE HolderWorks(s)'
  <2> SUFFICES ASSUME holder[s] # NoCall PROVE (InHook(holder[s]) /\ call[holder[s]].sid = s)'
    BY <1>1 DEF HolderWorks
  <2>1. holder[s] \in Callers /\ InHook(holder[s]) /\ call[holder[s]].sid = s
    BY DEF AnswerInv, HolderWorks, IInv, FsmTypeOK
  <2>2. holder[s] # c
    BY <1>1, <2>1
  <2> QED BY <1>1, <1>2, <2>1, <2>2 DEF Others, InHook
<1> QED BY <1>1, <1>5, <1>6, <1>7 DEF AnswerInv, Objects

LEMMA UpdateCallAnswer ==
  ASSUME IInv, AnswerInv, NEW c \in Callers, UpdateCall(c)
  PROVE  AnswerInv' /\ LocalStep(c, call'[c].sid)
<1>1. PICK s \in Sids :
        /\ holder[s] = NoCall /\ Lookup(s) # 0
        /\ call' = [call EXCEPT ![c] = [NoOp EXCEPT !.op = "update", !.sid = s, !.obj = Lookup(s)]]
        /\ holder' = [holder EXCEPT ![s] = c]
  BY DEF UpdateCall
<1>0. PICK o : o = Lookup(s)
  OBVIOUS
<1>2. o = stored[s] /\ ~Expired(o) /\ o \in Objects /\ session[o].sid = s
  BY <1>0, <1>1 DEF Lookup, IInv, FsmTypeOK, StoredAtHome
<1>3. call'[c].sid = s /\ call'[c].op = "update" /\ call'[c].obj = o
  BY <1>0, <1>1 DEF IInv, FsmTypeOK, NoOp
<1>4. /\ fpc[c] = "idle" /\ fpc'[c] = "update" /\ Others(c) /\ holder'[s] = c
      /\ \A z \in Sids : z # s => holder'[z] = holder[z]
  BY <1>1 DEF UpdateCall, Others, IInv, FsmTypeOK
<1>5. \A d \in Callers : InHook(d) => call[d].sid # s
  BY <1>1, FreeMeansAlone
<1>6. UNCHANGED <<session, stored, now, ended, told>>
  BY DEF UpdateCall
<1>7. LocalStep(c, s)
  BY <1>3, <1>4, <1>5, <1>6 DEF LocalStep, Objects, InHook, Hooks
<1>8. Alone(c)'
  <2> SUFFICES ASSUME NEW p \in Objects, p # o, session[p].sid = s, Reported(p)' PROVE Expired(p)'
    BY <1>3, <1>6 DEF Alone, Objects
  <2>1. Reported(p)
    BY <1>6 DEF Reported
  <2>2. Expired(p)
    BY <1>1, <1>2, <2>1, FreeAtRest
  <2> QED BY <1>6, <2>2 DEF Expired
<1>9. Reported(o)' => stored[s] = o /\ session[o].current = told[o]
  BY <1>1, <1>2, <1>6, FreeAtRest DEF Reported
<1>10. InUpdate(c)'
  <2>1. Reported(call[c].obj)' => Reported(o)'
    BY <1>3, <1>6 DEF Reported
  <2> QED BY <1>2, <1>3, <1>4, <1>6, <1>9, <2>1 DEF InUpdate
<1>11. InHook(c)' /\ Work(c)'
  BY <1>3, <1>4, <1>8, <1>10 DEF InHook, Work
<1> QED BY <1>3, <1>4, <1>7, <1>11, LocalInside
-----------------------------------------------------------------------------
(* Calls end *)

LEMMA CallUnderLock ==
  ASSUME IInv, NEW c \in Callers, InHook(c)
  PROVE  \E s \in Sids, o \in Objects :
           /\ s = call[c].sid /\ o = call[c].obj /\ o # 0
           /\ holder[s] = c /\ session[o].sid = s
           /\ \A d \in Callers \ {c} : InHook(d) => call[d].sid # s
           /\ \A z \in Sids : z # s => stored[z] # o
BY HolderAlone DEF IInv, Locked, LockedCall, InHook, Hooks

\* An object is changed in place.
LEMMA ObjectMoved ==
  ASSUME FsmTypeOK, NEW o \in Objects, NEW st, NEW e,
         \/ session' = [session EXCEPT ![o].current = st, ![o].expire = e]
         \/ session' = [session EXCEPT ![o].current = st]
  PROVE  /\ session'[o].current = st
         /\ session'[o].fsm = session[o].fsm /\ session'[o].sid = session[o].sid
         /\ \A p \in Objects : p # o => session'[p] = session[p]
         /\ Objects' = Objects
<1>1. session[o] \in Session
  BY DEF FsmTypeOK, Objects
<1>2. /\ [session[o] EXCEPT !.current = st, !.expire = e].current = st
      /\ [session[o] EXCEPT !.current = st, !.expire = e].fsm = session[o].fsm
      /\ [session[o] EXCEPT !.current = st, !.expire = e].sid = session[o].sid
      /\ [session[o] EXCEPT !.current = st].current = st
      /\ [session[o] EXCEPT !.current = st].fsm = session[o].fsm
      /\ [session[o] EXCEPT !.current = st].sid = session[o].sid
  BY <1>1 DEF Session
<1>3. PICK x : /\ x.current = st /\ x.fsm = session[o].fsm /\ x.sid = session[o].sid
               /\ session' = [session EXCEPT ![o] = x]
  BY <1>2 DEF FsmTypeOK, Objects
<1> QED BY <1>3 DEF FsmTypeOK, Objects

\* A call that ends leaves its own object as reported; it has touched no other.
LEMMA EndKeeps ==
  ASSUME IInv, AnswerInv, NEW c \in Callers, InHook(c), ~InHook(c)', Others(c),
         holder' = Released(c), now' = now, Objects' = Objects,
         NEW s \in Sids, NEW o \in Objects, s = call[c].sid, o = call[c].obj,
         \A z \in Sids : z # s => stored'[z] = stored[z],
         \A p \in Objects : p # o =>
           session'[p] = session[p] /\ told'[p] = told[p] /\ (p \in ended' <=> p \in ended),
         session'[o].sid = s,
         told'[o] # Untold /\ o \notin ended' /\ ~(session'[o].expire > 0 /\ session'[o].expire <= now')
           => stored'[s] = o /\ session'[o].current = told'[o]
  PROVE  AnswerInv' /\ LocalStep(c, call[c].sid)
<1>1. /\ holder[s] = c /\ session[o].sid = s
      /\ \A d \in Callers \ {c} : InHook(d) => call[d].sid # s
  BY CallUnderLock
<1>2. holder'[s] = NoCall /\ \A z \in Sids : z # s => holder'[z] = holder[z]
  BY DEF Released, IInv, FsmTypeOK
<1>3. LocalStep(c, s)
  BY <1>1, <1>2 DEF LocalStep
<1>4. ASSUME NEW p \in Objects, session[p].sid = s, Reported(p)', ~Expired(p)'
      PROVE  stored'[s] = p /\ session'[p].current = told'[p]
  <2>1. CASE p = o
    BY <1>4, <2>1 DEF Reported, Expired
  <2>2. CASE p # o
    <3>1. Reported(p)
      BY <1>4, <2>2 DEF Reported
    <3>2. Expired(p)
      BY <1>4, <2>2, <3>1 DEF AnswerInv, Work, Alone
    <3>3. Expired(p)'
      BY <2>2, <3>2 DEF Expired
    <3> QED BY <1>4, <3>3
  <2> QED BY <2>1, <2>2
<1> QED BY <1>2, <1>3, <1>4, LocalOutside

LEMMA UpdateSaveAnswer ==
  ASSUME IInv, AnswerInv, NEW c \in Callers, UpdateSave(c)
  PROVE  AnswerInv' /\ LocalStep(c, call[c].sid)
<1>1. InHook(c)
  BY DEF UpdateSave, InHook
<1>2. PICK s \in Sids, o \in Objects : s = call[c].sid /\ o = call[c].obj /\ session[o].sid = s
  BY <1>1, CallUnderLock
<1>3. Others(c) /\ ~InHook(c)'
  BY CallLeaves DEF IInv, UpdateSave, InHook, Hooks
<1>4. /\ stored'[s] = o /\ \A z \in Sids : z # s => stored'[z] = stored[z]
      /\ UNCHANGED <<session, now, ended, told>> /\ holder' = Released(c)
  BY <1>2 DEF UpdateSave, IInv, FsmTypeOK
<1>5. Reported(o) => session[o].current = told[o]
  BY <1>1, <1>2 DEF AnswerInv, Work, InUpdate, InTransition, InTryStart, InStart, UpdateSave
<1> QED BY <1>1, <1>2, <1>3, <1>4, <1>5, EndKeeps DEF Objects, Reported

LEMMA HookFailsAnswer ==
  ASSUME IInv, AnswerInv, NEW c \in Callers, HookFails(c)
  PROVE  AnswerInv' /\ LocalStep(c, call[c].sid)
<1>1. InHook(c) /\ fpc[c] \in Hooks
  BY DEF HookFails, InHook
<1>2. PICK s \in Sids, o \in Objects : s = call[c].sid /\ o = call[c].obj /\ session[o].sid = s
  BY <1>1, CallUnderLock
<1>3. Others(c) /\ ~InHook(c)'
  BY <1>2, CallRejected DEF IInv, HookFails, InHook, Hooks
<1>4. /\ holder' = Released(c) /\ now' = now /\ told' = told
      /\ \A z \in Sids : z # s => stored'[z] = stored[z]
      /\ fpc[c] # "init" => stored' = stored
      /\ ended' = IF fpc[c] = "init" \/ (fpc[c] = "enter" /\ call[c].ended) THEN ended \cup {o} ELSE ended
      /\ session' = Undone(c)
  BY <1>2 DEF HookFails, IInv, FsmTypeOK
<1>5. /\ \A p \in Objects : p # o => session'[p] = session[p]
      /\ Objects' = Objects /\ session'[o].sid = s
      /\ IF fpc[c] = "enter" /\ call[c].op = "transition"
         THEN session'[o].current = call[c].prev ELSE session' = session
  <2>1. CASE fpc[c] = "enter" /\ call[c].op = "transition"
    <3>1. session' = [session EXCEPT ![o].current = call[c].prev]
      BY <1>2, <1>4, <2>1 DEF Undone
    <3> QED BY <1>2, <2>1, <3>1, ObjectMoved DEF IInv
  <2>2. CASE ~(fpc[c] = "enter" /\ call[c].op = "transition")
    BY <1>2, <1>4, <2>2 DEF Undone, Objects
  <2> QED BY <2>1, <2>2
<1>6. ASSUME told'[o] # Untold, o \notin ended'
      PROVE  stored'[s] = o /\ session'[o].current = told'[o]
  <2>1. Reported(o)
    BY <1>2, <1>4, <1>6 DEF Reported
  <2>2. Work(c)
    BY DEF AnswerInv
  <2>3. call[c].op = "transition" /\ InTransition(c)
    BY <1>1, <1>2, <1>4, <1>6, <2>1, <2>2
       DEF Work, InTryStart, InStart, InUpdate, Hooks, Reported
  <2>4. CASE fpc[c] = "action"
    BY <1>2, <1>4, <1>5, <2>1, <2>3, <2>4 DEF InTransition
  <2>5. CASE fpc[c] = "enter"
    <3>1. ~call[c].ended
      BY <1>4, <1>6, <2>5
    <3> QED BY <1>2, <1>4, <1>5, <2>1, <2>3, <2>5, <3>1 DEF InTransition
  <2> QED BY <2>3, <2>4, <2>5 DEF InTransition
<1>7. \A p \in Objects : p # o => told'[p] = told[p] /\ (p \in ended' <=> p \in ended)
  BY <1>4
<1> QED BY <1>1, <1>2, <1>3, <1>4, <1>5, <1>6, <1>7, EndKeeps

LEMMA HookPanicsAnswer ==
  ASSUME IInv, AnswerInv, NEW c \in Callers, HookPanics(c)
  PROVE  AnswerInv' /\ LocalStep(c, call[c].sid)
<1>1. InHook(c)
  BY DEF HookPanics, InHook
<1>2. PICK s \in Sids, o \in Objects : s = call[c].sid /\ o = call[c].obj /\ session[o].sid = s
  BY <1>1, CallUnderLock
<1>3. Others(c) /\ ~InHook(c)'
  BY CallLeaves DEF IInv, HookPanics, InHook, Hooks
<1>4. /\ UNCHANGED <<session, stored, now, ended>> /\ holder' = Released(c)
      /\ \A p \in Objects : p # o => told'[p] = told[p]
      /\ told'[o] = IF fpc[c] = "enter" THEN Untold ELSE told[o]
  BY <1>2 DEF HookPanics, IInv, FsmTypeOK
<1>5. ASSUME told'[o] # Untold, o \notin ended', ~Expired(o)
      PROVE  stored[s] = o /\ session[o].current = told'[o]
  <2>1. fpc[c] # "enter" /\ Reported(o) /\ told'[o] = told[o]
    BY <1>4, <1>5 DEF Reported
  <2> QED BY <1>1, <1>2, <1>4, <1>5, <2>1
          DEF AnswerInv, Work, InTransition, InTryStart, InStart, InUpdate, Reported
<1> QED BY <1>1, <1>2, <1>3, <1>4, <1>5, EndKeeps DEF Objects, Expired

LEMMA ActionEndsAnswer ==
  ASSUME IInv, AnswerInv, NEW c \in Callers, ActionEnds(c)
  PROVE  AnswerInv' /\ LocalStep(c, call[c].sid)
<1>1. InHook(c)
  BY DEF ActionEnds, InHook, Hooks
<1>2. PICK s \in Sids, o \in Objects : s = call[c].sid /\ o = call[c].obj /\ session[o].sid = s
  BY <1>1, CallUnderLock
<1>3. Others(c) /\ ~InHook(c)'
  BY CallLeaves DEF IInv, ActionEnds, InHook, Hooks
<1>4. /\ UNCHANGED <<session, now, told>> /\ holder' = Released(c)
      /\ \A z \in Sids : z # s => stored'[z] = stored[z]
      /\ ended' = ended \cup {o}
  BY <1>2 DEF ActionEnds, IInv, FsmTypeOK
<1> QED BY <1>1, <1>2, <1>3, <1>4, EndKeeps DEF Objects

LEMMA EnterReturnsAnswer ==
  ASSUME IInv, AnswerInv, NEW c \in Callers, EnterReturns(c)
  PROVE  AnswerInv' /\ LocalStep(c, call[c].sid)
<1>1. InHook(c)
  BY DEF EnterReturns, InHook, Hooks
<1>2. PICK s \in Sids, o \in Objects : s = call[c].sid /\ o = call[c].obj /\ session[o].sid = s
  BY <1>1, CallUnderLock
<1>3. Others(c) /\ ~InHook(c)'
  BY CallLeaves DEF IInv, EnterReturns, InHook, Hooks
<1>4. /\ UNCHANGED <<session, now, ended>> /\ holder' = Released(c)
      /\ stored'[s] = o /\ \A z \in Sids : z # s => stored'[z] = stored[z]
      /\ told'[o] = call[c].to /\ \A p \in Objects : p # o => told'[p] = told[p]
  BY <1>2 DEF EnterReturns, Saved, IInv, FsmTypeOK
<1>5. session[o].current = call[c].to
  BY <1>1, <1>2
     DEF EnterReturns, AnswerInv, Work, InTransition, InTryStart, InStart, InUpdate
<1> QED BY <1>1, <1>2, <1>3, <1>4, <1>5, EndKeeps DEF Objects

LEMMA InitReturnsAnswer ==
  ASSUME IInv, AnswerInv, NEW c \in Callers, InitReturns(c)
  PROVE  AnswerInv' /\ LocalStep(c, call[c].sid)
<1>1. InHook(c)
  BY DEF InitReturns, InHook, Hooks
<1>2. PICK s \in Sids, o \in Objects : s = call[c].sid /\ o = call[c].obj /\ session[o].sid = s
  BY <1>1, CallUnderLock
<1>3. Others(c) /\ ~InHook(c)'
  BY CallLeaves DEF IInv, InitReturns, InHook, Hooks
<1>4. /\ UNCHANGED <<session, stored, now, ended>> /\ holder' = Released(c)
      /\ told'[o] = call[c].to /\ \A p \in Objects : p # o => told'[p] = told[p]
  BY <1>2 DEF InitReturns, IInv, FsmTypeOK
<1>5. session[o].current = call[c].to /\ (o \in ended \/ stored[s] = o \/ Expired(o))
  BY <1>1, <1>2
     DEF InitReturns, AnswerInv, Work, InTransition, InTryStart, InStart, InUpdate
<1> QED BY <1>1, <1>2, <1>3, <1>4, <1>5, EndKeeps DEF Objects, Expired
-----------------------------------------------------------------------------
(* Calls go on, and what happens beside them *)

LEMMA HookEndsAnswer ==
  ASSUME IInv, AnswerInv, NEW c \in Callers, HookEnds(c)
  PROVE  AnswerInv' /\ LocalStep(c, call[c].sid)
<1>1. InHook(c) /\ fpc[c] \in Hooks
  BY DEF HookEnds, InHook
<1>2. PICK s \in Sids, o \in Objects :
        /\ s = call[c].sid /\ o = call[c].obj /\ holder[s] = c /\ session[o].sid = s
        /\ \A d \in Callers \ {c} : InHook(d) => call[d].sid # s
  BY <1>1, CallUnderLock
<1>3. /\ UNCHANGED <<session, holder, now, told, fpc>>
      /\ stored'[s] = 0 /\ \A z \in Sids : z # s => stored'[z] = stored[z]
      /\ ended' = IF fpc[c] = "enter" THEN ended ELSE ended \cup {o}
  BY <1>2 DEF HookEnds, IInv, FsmTypeOK
<1>4. /\ call'[c].sid = s /\ call'[c].obj = o /\ call'[c].op = call[c].op /\ call'[c].fsm = call[c].fsm
      /\ call'[c].to = call[c].to /\ call'[c].prev = call[c].prev /\ call'[c].ended
      /\ Others(c)
  BY <1>2 DEF HookEnds, Others, IInv, FsmTypeOK, Call
<1>5. InHook(c)'
  BY <1>1, <1>3 DEF InHook
<1>6. LocalStep(c, s)
  BY <1>2, <1>3, <1>4 DEF LocalStep, Objects
<1>7. Work(c)
  BY DEF AnswerInv
<1>8. Alone(c)'
  <2> SUFFICES ASSUME NEW p \in Objects, p # o, session[p].sid = s, Reported(p)' PROVE Expired(p)'
    BY <1>3, <1>4 DEF Alone, Objects
  <2>1. Reported(p)
    BY <1>3 DEF Reported
  <2>2. Expired(p)
    BY <1>1, <1>2, <1>7, <2>1 DEF Work, Alone
  <2> QED BY <1>3, <2>2 DEF Expired
<1>9. CASE call[c].op = "transition" /\ InTransition(c)
  <2>1. InTransition(c)'
    BY <1>2, <1>3, <1>4, <1>9 DEF InTransition, OnEdge, Reported
  <2> QED BY <1>2, <1>4, <1>5, <1>6, <1>8, <1>9, <2>1, <1>3, LocalInside DEF Work
<1>10. CASE call[c].op = "tryStart" /\ InTryStart(c)
  <2>1. (Lookup(call[c].sid) = 0)'
    BY <1>3, <1>4 DEF Lookup
  <2>2. InTryStart(c)'
    BY <1>2, <1>3, <1>4, <1>10, <2>1 DEF InTryStart, OnEdge
  <2> QED BY <1>2, <1>4, <1>5, <1>6, <1>8, <1>10, <2>2, <1>3, LocalInside DEF Work
<1>11. CASE call[c].op = "start" /\ InStart(c)
  <2>1. InStart(c)'
    BY <1>2, <1>3, <1>4, <1>11 DEF InStart
  <2> QED BY <1>2, <1>4, <1>5, <1>6, <1>8, <1>11, <2>1, <1>3, LocalInside DEF Work
<1> QED BY <1>1, <1>7, <1>9, <1>10, <1>11 DEF Work, InUpdate, Hooks

LEMMA ActionMovesAnswer ==
  ASSUME IInv, AnswerInv, NEW c \in Callers, ActionMoves(c)
  PROVE  AnswerInv' /\ LocalStep(c, call[c].sid)
<1>1. InHook(c) /\ fpc[c] = "action" /\ fpc'[c] = "enter" /\ InHook(c)'
  BY DEF ActionMoves, InHook, Hooks, IInv, FsmTypeOK
<1>2. PICK s \in Sids, o \in Objects :
        /\ s = call[c].sid /\ o = call[c].obj /\ holder[s] = c /\ session[o].sid = s
        /\ \A d \in Callers \ {c} : InHook(d) => call[d].sid # s
  BY <1>1, CallUnderLock
<1>3. UNCHANGED <<stored, holder, now, ended, told>> /\ ~call[c].ended /\ call[c].to # EndState
  BY DEF ActionMoves, Over
<1>4. /\ call'[c].sid = s /\ call'[c].obj = o /\ call'[c].op = call[c].op /\ call'[c].fsm = call[c].fsm
      /\ call'[c].to = call[c].to /\ call'[c].prev = session[o].current /\ ~call'[c].ended
      /\ Others(c)
  BY <1>2, <1>3 DEF ActionMoves, Others, IInv, FsmTypeOK, Call
<1>5. \E e : session' = [session EXCEPT ![o].current = call[c].to, ![o].expire = e]
  <2> DEFINE e == IF call[c].op = "transition" /\ call[c].fsm \in Expiring \cap Refreshing
                  THEN now + Timeout ELSE session[o].expire
  <2>1. session' = [session EXCEPT ![o].current = call[c].to, ![o].expire = e]
    BY <1>2 DEF ActionMoves, IInv, FsmTypeOK, Objects
  <2> QED BY <2>1
<1>6. /\ session'[o].current = call[c].to
      /\ session'[o].fsm = session[o].fsm /\ session'[o].sid = session[o].sid
      /\ \A p \in Objects : p # o => session'[p] = session[p]
      /\ Objects' = Objects
  BY <1>5, ObjectMoved DEF IInv
<1>7. LocalStep(c, s)
  BY <1>2, <1>3, <1>4, <1>6 DEF LocalStep
<1>8. Work(c)
  BY DEF AnswerInv
<1>9. Alone(c)'
  <2> SUFFICES ASSUME NEW p \in Objects, p # o, session[p].sid = s, Reported(p)' PROVE Expired(p)'
    BY <1>4, <1>6 DEF Alone
  <2>1. Reported(p)
    BY <1>3 DEF Reported
  <2>2. Expired(p)
    BY <1>1, <1>2, <1>8, <2>1 DEF Work, Alone
  <2> QED BY <1>3, <1>6, <2>2 DEF Expired
<1>10. CASE call[c].op = "transition" /\ InTransition(c)
  <2>1. InTransition(c)'
    BY <1>1, <1>2, <1>3, <1>4, <1>6, <1>10 DEF InTransition, OnEdge, Reported
  <2> QED BY <1>1, <1>2, <1>3, <1>4, <1>7, <1>9, <1>10, <2>1, LocalInside DEF Work
<1>11. CASE call[c].op = "tryStart" /\ InTryStart(c)
  <2>1. stored[s] # o
    BY <1>1, <1>2, <1>11 DEF IInv, NotStored
  <2>2. stored[s] = 0 \/ (stored[s] \in Objects /\ Expired(stored[s]))
    BY <1>2, <1>11 DEF InTryStart, Lookup, IInv, FsmTypeOK
  <2>3. (Lookup(call[c].sid) = 0)'
    BY <1>3, <1>4, <1>6, <2>1, <2>2 DEF Lookup, Expired
  <2>4. InTryStart(c)'
    BY <1>1, <1>2, <1>3, <1>4, <1>6, <1>11, <2>3 DEF InTryStart, OnEdge
  <2> QED BY <1>1, <1>2, <1>3, <1>4, <1>7, <1>9, <1>11, <2>4, LocalInside DEF Work
<1> QED BY <1>1, <1>8, <1>10, <1>11 DEF Work, InStart, InUpdate

\* Steps that belong to no call: they leave the calls, the locks and the objects.
LEMMA BesideKeeps ==
  ASSUME IInv, AnswerInv, UNCHANGED <<session, lockVars>>,
         \A o \in Objects : Expired(o) => Expired(o)',
         \A o \in Objects : Reported(o)' => Reported(o) /\ told'[o] = told[o],
         \A o \in Objects : Reported(o)' /\ ~Expired(o)' /\ stored[session[o].sid] = o
           => stored'[session[o].sid] = o,
         \A c \in Callers : InHook(c) => Work(c)'
  PROVE  AnswerInv'
<1>1. \A c \in Callers : InHook(c)' <=> InHook(c)
  BY DEF InHook, lockVars
<1>2. ASSUME NEW o \in Objects PROVE AtRest(o)'
  <2>1. InHands(o)' <=> InHands(o)
    BY <1>1 DEF InHands, lockVars
  <2>2. AtRest(o)
    BY DEF AnswerInv
  <2> QED BY <2>1, <2>2 DEF AtRest
<1>3. ASSUME NEW c \in Callers PROVE Work(c)'
  BY <1>1 DEF Work
<1>4. ASSUME NEW s \in Sids PROVE HolderWorks(s)'
  BY DEF AnswerInv, HolderWorks, InHook, lockVars
<1> QED BY <1>2, <1>3, <1>4 DEF AnswerInv, Objects

LEMMA EndSessionAnswer ==
  ASSUME IInv, AnswerInv, NEW s \in Sids, EndSession(s)
  PROVE  AnswerInv'
<1>1. /\ holder[s] = NoCall /\ stored'[s] = 0 /\ ended' = ended \cup {stored[s]}
      /\ \A z \in Sids : z # s => stored'[z] = stored[z]
      /\ UNCHANGED <<session, lockVars, now, told>>
  BY DEF EndSession, IInv, FsmTypeOK
<1>2. \A d \in Callers : InHook(d) => call[d].sid # s /\ call[d].obj # stored[s]
  BY <1>1, FreeMeansAlone
<1>3. \A o \in Objects : (Expired(o)' <=> Expired(o)) /\ (Reported(o)' => Reported(o))
  BY <1>1 DEF Expired, Reported
<1>4. ASSUME NEW o \in Objects, Reported(o)', stored[session[o].sid] = o
      PROVE  stored'[session[o].sid] = o
  <2>1. session[o].sid # s
    BY <1>1, <1>4 DEF Reported
  <2>2. session[o] \in Session
    BY DEF IInv, FsmTypeOK, Objects
  <2>3. session[o].sid \in Sids
    BY <2>2 DEF Session
  <2> QED BY <1>1, <1>4, <2>1, <2>3
<1>5. ASSUME NEW d \in Callers, InHook(d) PROVE Work(d)'
  <2>1. PICK z \in Sids, o \in Objects : z = call[d].sid /\ o = call[d].obj
    BY <1>5, CallUnderLock
  <2>2. Work(d) /\ z # s /\ stored'[z] = stored[z] /\ (o \in ended' <=> o \in ended)
    BY <1>1, <1>2, <1>5, <2>1 DEF AnswerInv
  <2>3. Alone(d)'
    BY <1>1, <1>3, <1>5, <2>2 DEF Work, Alone, Objects, lockVars
  <2>4. (Lookup(call[d].sid) = Lookup(z))' /\ Lookup(z)' = Lookup(z)
    BY <1>1, <2>1, <2>2 DEF Lookup, Expired, lockVars
  <2>5. CASE call[d].op = "transition" /\ InTransition(d)
    BY <1>1, <2>1, <2>2, <2>3, <2>5 DEF Work, InTransition, OnEdge, Reported, lockVars
  <2>6. CASE call[d].op = "tryStart" /\ InTryStart(d)
    BY <1>1, <2>1, <2>2, <2>3, <2>4, <2>6 DEF Work, InTryStart, OnEdge, lockVars
  <2>7. CASE call[d].op = "start" /\ InStart(d)
    BY <1>1, <2>1, <2>2, <2>3, <2>7 DEF Work, InStart, Expired, lockVars
  <2>8. CASE call[d].op = "update" /\ InUpdate(d)
    BY <1>1, <2>1, <2>2, <2>3, <2>8 DEF Work, InUpdate, Reported, Expired, lockVars
  <2> QED BY <1>5, <2>2, <2>5, <2>6, <2>7, <2>8 DEF Work
<1> QED BY <1>1, <1>3, <1>4, <1>5, BesideKeeps

LEMMA CleanupAnswer ==
  ASSUME IInv, AnswerInv, Cleanup
  PROVE  AnswerInv'
<1>1. /\ UNCHANGED <<session, lockVars, now, ended>>
      /\ \A z \in Sids : stored'[z] = IF stored[z] # 0 /\ Expired(stored[z]) THEN 0 ELSE stored[z]
      /\ \A o \in Objects :
           told'[o] = IF o \in {stored[z] : z \in Sids} /\ Expired(o) THEN Untold ELSE told[o]
  BY DEF Cleanup
<1>2. \A o \in Objects : (Expired(o)' <=> Expired(o)) /\ (Reported(o)' => Reported(o) /\ told'[o] = told[o])
  BY <1>1 DEF Expired, Reported
<1>3. \A o \in Objects, z \in Sids : Reported(o)' /\ stored[z] = o => stored'[z] = o
  BY <1>1 DEF Reported
<1>4. \A o \in Objects : session[o].sid \in Sids
  <2>1. \A o \in Objects : session[o] \in Session
    BY DEF IInv, FsmTypeOK, Objects
  <2> QED BY <2>1 DEF Session
<1>5. ASSUME NEW d \in Callers, InHook(d) PROVE Work(d)'
  <2>1. PICK z \in Sids, o \in Objects : z = call[d].sid /\ o = call[d].obj
    BY <1>5, CallUnderLock
  <2>2. Work(d)
    BY DEF AnswerInv
  <2>3. Alone(d)'
    BY <1>1, <1>2, <1>5, <2>2 DEF Work, Alone, Objects, lockVars
  <2>4. stored'[z] \in {0, stored[z]} /\ (stored'[z] = stored[z] \/ Expired(stored[z]))
    BY <1>1
  <2>5. Lookup(z) = 0 => Lookup(z)' = 0
    BY <1>1 DEF Lookup, Expired
  <2>6. UNCHANGED call /\ UNCHANGED fpc /\ (Reported(call[d].obj)' <=> Reported(o)')
        /\ (Lookup(call[d].sid)' = Lookup(z)') /\ (Expired(call[d].obj)' <=> Expired(o))
    BY <1>1, <2>1 DEF Reported, Lookup, Expired, lockVars
  <2>7. CASE call[d].op = "transition" /\ InTransition(d)
    BY <1>1, <1>2, <1>3, <2>1, <2>3, <2>4, <2>6, <2>7 DEF Work, InTransition, OnEdge
  <2>8. CASE call[d].op = "tryStart" /\ InTryStart(d)
    BY <1>1, <2>1, <2>3, <2>5, <2>6, <2>8 DEF Work, InTryStart, OnEdge
  <2>9. CASE call[d].op = "start" /\ InStart(d)
    BY <1>1, <2>1, <2>3, <2>4, <2>6, <2>9 DEF Work, InStart
  <2>10. CASE call[d].op = "update" /\ InUpdate(d)
    BY <1>1, <1>2, <1>3, <2>1, <2>3, <2>4, <2>6, <2>10 DEF Work, InUpdate
  <2> QED BY <1>5, <2>2, <2>7, <2>8, <2>9, <2>10 DEF Work
<1> QED BY <1>1, <1>2, <1>3, <1>4, <1>5, BesideKeeps

\* Registration and the clock.
LEMMA ElseAnswer ==
  ASSUME IInv, AnswerInv,
         UNCHANGED <<session, stored, lockVars, ended, told>>, now' \in Nat, now' >= now
  PROVE  AnswerInv'
<1>1. ASSUME NEW o \in Objects, Expired(o) PROVE Expired(o)'
  <2>1. session[o] \in Session
    BY DEF IInv, FsmTypeOK, Objects
  <2>2. session[o].expire \in Nat
    BY <2>1 DEF Session
  <2> QED BY <1>1, <2>2 DEF Expired, IInv, FsmTypeOK
<1>2. \A o \in Objects : Reported(o)' <=> Reported(o)
  BY DEF Reported
<1>3. ASSUME NEW d \in Callers, InHook(d) PROVE Work(d)'
  <2>1. PICK z \in Sids, o \in Objects : z = call[d].sid /\ o = call[d].obj
    BY <1>3, CallUnderLock
  <2>2. Work(d)
    BY DEF AnswerInv
  <2>3. Alone(d)'
    BY <1>1, <1>2, <1>3, <2>2 DEF Work, Alone, Objects, lockVars
  <2>4. stored[z] \in {0} \cup Objects
    BY DEF IInv, FsmTypeOK
  <2>5. Lookup(z) = 0 => Lookup(z)' = 0
    BY <1>1, <2>4 DEF Lookup
  <2>6. UNCHANGED call /\ UNCHANGED fpc /\ (Reported(call[d].obj)' <=> Reported(o))
        /\ (Lookup(call[d].sid)' = Lookup(z)') /\ (Expired(o) => Expired(call[d].obj)')
    BY <1>1, <2>1 DEF Reported, Lookup, Expired, lockVars
  <2>7. CASE call[d].op = "transition" /\ InTransition(d)
    BY <2>1, <2>3, <2>6, <2>7 DEF Work, InTransition, OnEdge
  <2>8. CASE call[d].op = "tryStart" /\ InTryStart(d)
    BY <2>1, <2>3, <2>5, <2>6, <2>8 DEF Work, InTryStart, OnEdge
  <2>9. CASE call[d].op = "start" /\ InStart(d)
    BY <2>1, <2>3, <2>6, <2>9 DEF Work, InStart
  <2>10. CASE call[d].op = "update" /\ InUpdate(d)
    BY <2>1, <2>3, <2>6, <2>10 DEF Work, InUpdate
  <2> QED BY <1>3, <2>2, <2>7, <2>8, <2>9, <2>10 DEF Work
<1> QED BY <1>1, <1>2, <1>3, BesideKeeps

LEMMA AnswerBegins == FsmInit => AnswerInv
<1> SUFFICES ASSUME FsmInit PROVE AnswerInv
  OBVIOUS
<1>1. Objects = {}
  BY DEF FsmInit, Objects
<1> QED BY <1>1 DEF FsmInit, AnswerInv, AtRest, Work, InHook, Hooks, HolderWorks

LEMMA AnswerStep == IInv /\ AnswerInv /\ [FsmNext]_fsmVars => AnswerInv'
<1> SUFFICES ASSUME IInv, AnswerInv, [FsmNext]_fsmVars PROVE AnswerInv'
  OBVIOUS
<1>1. ASSUME NEW c \in Callers, CallStep(c) PROVE AnswerInv'
  BY <1>1, TransitionRefusedAnswer, TransitionBeginAnswer, BlockedAnswer, TryStartNoneAnswer,
     TryStartBeginAnswer, StartSaveAnswer, UpdateSaveAnswer, HookEndsAnswer, HookFailsAnswer,
     HookPanicsAnswer, ActionEndsAnswer, ActionMovesAnswer, EnterReturnsAnswer, InitReturnsAnswer
     DEF CallStep
<1>2. ASSUME NEW c \in Callers, Message(c) \/ StartCall(c) \/ UpdateCall(c) PROVE AnswerInv'
  BY <1>2, BeginAnswer, UpdateCallAnswer
<1>3. now \in Nat
  BY DEF IInv, FsmTypeOK
<1>4. ASSUME NEW f \in Fsms, Register(f) \/ Unregister(f) PROVE AnswerInv'
  BY <1>3, <1>4, ElseAnswer DEF Register, Unregister
<1>5. CASE Tick
  BY <1>3, <1>5, ElseAnswer DEF Tick
<1>6. CASE UNCHANGED fsmVars
  BY <1>3, <1>6, ElseAnswer DEF fsmVars, lockVars
<1> QED BY <1>1, <1>2, <1>4, <1>5, <1>6, EndSessionAnswer, CleanupAnswer DEF FsmNext

LEMMA AnswerInvariant == FsmSpec => [](IInv /\ AnswerInv)
<1>1. FsmInit => IInv /\ AnswerInv
  BY InitIInv, AnswerBegins
<1>2. (IInv /\ AnswerInv) /\ [FsmNext]_fsmVars => (IInv /\ AnswerInv)'
  BY NextIInv, AnswerStep
<1> QED BY <1>1, <1>2, PTL DEF FsmSpec

\* What a caller was told of a session is what is stored when nobody is at work
\* on it (fsm.go:500-522, 692).
THEOREM AnswersAreTrue == FsmSpec => []AnswersHold
<1>1. ASSUME IInv, AnswerInv, NEW o \in Objects,
             told[o] # Untold, o \notin ended, holder[session[o].sid] = NoCall, ~Expired(o)
      PROVE  stored[session[o].sid] = o /\ session[o].current = told[o]
  <2>1. session[o] \in Session
    BY <1>1 DEF IInv, FsmTypeOK, Objects
  <2>2. session[o].sid \in Sids
    BY <2>1 DEF Session
  <2> QED BY <1>1, <2>2, FreeAtRest DEF Reported
<1>2. IInv /\ AnswerInv => AnswersHold
  BY <1>1 DEF AnswersHold
<1> QED BY <1>2, AnswerInvariant, PTL
-----------------------------------------------------------------------------
(* The protocol that is seen from outside                                  *)
(*                                                                         *)
(* A step changes the phase of at most one session ID, by beginning,       *)
(* moving or ending its session; only the clock can end several at once.   *)

\* What is stored under s, as a reader sees it.
Seen(s) ==
  IF Lookup(s) = 0 THEN NoSession
  ELSE [fsm |-> session[Lookup(s)].fsm, state |-> session[Lookup(s)].current]

Phases == [s \in Sids |-> Phase(s)]
Stays(s) == Phase(s)' = Phase(s)
Ends(s) == Phase(s) # NoSession /\ Phase(s)' = NoSession
Begins(s) ==
  /\ Phase(s) = NoSession
  /\ \E f \in Fsms : \E st \in Protocol!Starts(f) : Phase(s)' = [fsm |-> f, state |-> st]
Moves(s) ==
  /\ Phase(s) # NoSession
  /\ \E e \in Applicable(Phase(s).fsm, Phase(s).state) :
       e.to # EndState /\ Phase(s)' = [Phase(s) EXCEPT !.state = e.to]

LEMMA OneSessionMoves ==
  ASSUME NEW s \in Sids, \A z \in Sids : z # s => Stays(z),
         Stays(s) \/ Ends(s) \/ Begins(s) \/ Moves(s)
  PROVE  [Protocol!Next]_Phases
<1>1. Phases' = [z \in Sids |-> Phase(z)'] /\ \A z \in Sids : Phases[z] = Phase(z)
  BY DEF Phases
<1>2. Phases' = [Phases EXCEPT ![s] = Phase(s)']
  BY <1>1 DEF Stays, Phases
<1> SUFFICES ASSUME Phases' # Phases PROVE Protocol!Next
  OBVIOUS
<1>3. CASE Stays(s)
  BY <1>1, <1>3 DEF Stays, Phases
<1>4. CASE Ends(s)
  <2>1. Phases' = [z \in Sids |-> IF z \in {s} THEN NoSession ELSE Phases[z]]
    BY <1>1, <1>4 DEF Stays, Ends
  <2>2. Protocol!Finish({s})
    BY <1>1, <1>4, <2>1 DEF Ends, Protocol!Finish, Phases
  <2> QED BY <2>2 DEF Protocol!Next, Phases
<1>5. CASE Begins(s)
  <2>0. PICK f \in Fsms : \E st \in Protocol!Starts(f) : Phase(s)' = [fsm |-> f, state |-> st]
    BY <1>5 DEF Begins
  <2>1. PICK st \in Protocol!Starts(f) : Phase(s)' = [fsm |-> f, state |-> st]
    BY <2>0
  <2>2. Phases[s] = NoSession /\ Phases' = [Phases EXCEPT ![s] = [fsm |-> f, state |-> st]]
    BY <1>1, <1>2, <1>5, <2>1 DEF Begins
  <2>3. Protocol!Begin(s)
    BY <2>2 DEF Protocol!Begin, Phases
  <2> QED BY <2>3 DEF Protocol!Next, Phases
<1>6. CASE Moves(s)
  <2>1. PICK e \in Applicable(Phase(s).fsm, Phase(s).state) :
          e.to # EndState /\ Phase(s)' = [Phase(s) EXCEPT !.state = e.to]
    BY <1>6 DEF Moves
  <2>2. Phases[s] = Phase(s) /\ Phase(s) # NoSession
    BY <1>1, <1>6 DEF Moves
  <2>3. Phases' = [Phases EXCEPT ![s] = [Phase(s) EXCEPT !.state = e.to]]
    BY <1>2, <2>1
  <2>4. Phases' = [Phases EXCEPT ![s].state = e.to]
    BY <2>2, <2>3
  <2>5. e \in Protocol!Applicable(Phases[s].fsm, Phases[s].state)
    BY <2>1, <2>2 DEF Applicable, Protocol!Applicable
  <2>6. Protocol!Move(s)
    BY <2>1, <2>2, <2>4, <2>5 DEF Protocol!Move, Phases
  <2> QED BY <2>6 DEF Protocol!Next, Phases
<1> QED BY <1>3, <1>4, <1>5, <1>6

LEMMA SeveralEnd ==
  ASSUME \A s \in Sids : Stays(s) \/ Ends(s)
  PROVE  [Protocol!Next]_Phases
<1> DEFINE S == {s \in Sids : Ends(s)}
<1>1. Phases' = [z \in Sids |-> Phase(z)'] /\ \A z \in Sids : Phases[z] = Phase(z)
  BY DEF Phases
<1>2. Phases' = [z \in Sids |-> IF z \in S THEN NoSession ELSE Phases[z]]
  BY <1>1 DEF Stays, Ends
<1> SUFFICES ASSUME Phases' # Phases PROVE Protocol!Next
  OBVIOUS
<1>3. S # {}
  BY <1>1, <1>2 DEF Phases
<1>4. Protocol!Finish(S)
  BY <1>1, <1>2, <1>3 DEF Ends, Protocol!Finish, Phases
<1>5. S \in SUBSET Sids
  OBVIOUS
<1> QED BY <1>4, <1>5 DEF Protocol!Next, Phases

\* What is seen under s, in the words of the map and of the lock.
LEMMA PhaseFree ==
  ASSUME NEW s \in Sids, holder[s] = NoCall
  PROVE  Phase(s) = Seen(s)
BY DEF Phase, Transiting, Seen

LEMMA PhaseFreeNext ==
  ASSUME NEW s \in Sids, holder'[s] = NoCall
  PROVE  Phase(s)' = Seen(s)'
BY DEF Phase, Transiting, Seen

LEMMA PhaseHeld ==
  ASSUME NEW s \in Sids, NEW c \in Callers, holder[s] = c
  PROVE  IF call[c].op = "transition"
         THEN Phase(s) = [fsm |-> call[c].fsm,
                          state |-> IF fpc[c] = "enter" THEN call[c].prev ELSE session[call[c].obj].current]
         ELSE Phase(s) = Seen(s)
BY FsmAssumption DEF Phase, Transiting, Seen

LEMMA PhaseHeldNext ==
  ASSUME NEW s \in Sids, NEW c \in Callers, holder'[s] = c
  PROVE  IF call'[c].op = "transition"
         THEN Phase(s)' = [fsm |-> call'[c].fsm,
                           state |-> IF fpc'[c] = "enter" THEN call'[c].prev
                                     ELSE session'[call'[c].obj].current]
         ELSE Phase(s)' = Seen(s)'
BY FsmAssumption DEF Phase, Transiting, Seen

\* What is seen while the map and the objects stay.
LEMMA SeenStays ==
  ASSUME IInv, NEW s \in Sids, stored'[s] = stored[s], now' = now,
         stored[s] # 0 => session'[stored[s]] = session[stored[s]]
  PROVE  Seen(s)' = Seen(s)
<1>1. Lookup(s)' = Lookup(s)
  BY DEF Lookup, Expired
<1>2. Lookup(s) # 0 => session'[Lookup(s)] = session[Lookup(s)]
  BY DEF Lookup
<1> QED BY <1>1, <1>2 DEF Seen

\* A step of a call is seen under its own session ID only.
LEMMA ElsewhereStays ==
  ASSUME IInv, AnswerInv, NEW c \in Callers, NEW s \in Sids, LocalStep(c, s),
         NEW z \in Sids, z # s
  PROVE  Stays(z)
<1>1. stored'[z] = stored[z] /\ holder'[z] = holder[z] /\ now' = now
  BY DEF LocalStep
<1>2. stored[z] # 0 => session'[stored[z]] = session[stored[z]]
  BY DEF LocalStep, IInv, FsmTypeOK, StoredAtHome
<1>3. Seen(z)' = Seen(z)
  BY <1>1, <1>2, SeenStays
<1>4. CASE holder[z] = NoCall
  BY <1>1, <1>3, <1>4, PhaseFree, PhaseFreeNext DEF Stays
<1>5. CASE holder[z] # NoCall
  <2>1. PICK d \in Callers : d = holder[z]
    BY <1>5 DEF IInv, FsmTypeOK
  <2>2. InHook(d) /\ call[d].sid = z
    BY <1>5, <2>1 DEF AnswerInv, HolderWorks
  <2>3. call'[d] = call[d] /\ fpc'[d] = fpc[d]
    BY <2>2 DEF LocalStep, Others
  <2>4. session'[call[d].obj] = session[call[d].obj]
    BY <2>2 DEF LocalStep, IInv, Locked, LockedCall
  <2> QED BY <1>1, <1>3, <2>1, <2>3, <2>4, PhaseHeld, PhaseHeldNext DEF Stays
<1> QED BY <1>4, <1>5

LEMMA LocalMoves ==
  ASSUME IInv, AnswerInv, NEW c \in Callers, NEW s \in Sids, LocalStep(c, s),
         Stays(s) \/ Ends(s) \/ Begins(s) \/ Moves(s)
  PROVE  [Protocol!Next]_Phases
<1>1. \A z \in Sids : z # s => Stays(z)
  BY ElsewhereStays
<1> QED BY <1>1, OneSessionMoves

\* A phase is a session of a machine.
LEMMA SeenIsPhase ==
  ASSUME NEW f \in Fsms, NEW st \in STRING
  PROVE  [fsm |-> f, state |-> st] # NoSession
BY FsmAssumption

\* What is seen when the map has at most o under s.
LEMMA SeenOneNext ==
  ASSUME NEW s \in Sids, NEW o \in Objects, stored'[s] \in {0, o}
  PROVE  Seen(s)' \in {NoSession, [fsm |-> session'[o].fsm, state |-> session'[o].current]}
BY DEF Seen, Lookup, Objects

LEMMA SeenNone ==
  ASSUME NEW s \in Sids
  PROVE  /\ Lookup(s) = 0 => Seen(s) = NoSession
         /\ (Lookup(s) = 0)' => Seen(s)' = NoSession
BY DEF Seen

\* A phase that goes to NoSession ends or stays.
LEMMA GoneOrNone ==
  ASSUME NEW s \in Sids, Phase(s)' = NoSession
  PROVE  Stays(s) \/ Ends(s)
BY DEF Stays, Ends

\* What is seen of a session in transition.
LEMMA TransitionPhase ==
  ASSUME IInv, AnswerInv, NEW c \in Callers, InHook(c), call[c].op = "transition",
         NEW s \in Sids, NEW o \in Objects, s = call[c].sid, o = call[c].obj
  PROVE  /\ InTransition(c) /\ call[c].fsm = session[o].fsm /\ stored[s] \in {0, o}
         /\ Phase(s) = [fsm |-> session[o].fsm,
                        state |-> IF fpc[c] = "enter" THEN call[c].prev ELSE session[o].current]
         /\ Phase(s) # NoSession
<1>1. InTransition(c)
  BY DEF AnswerInv, Work
<1>2. holder[s] = c
  BY DEF IInv, Locked, LockedCall
<1>3. session[o] \in Session /\ call[c] \in Call
  BY DEF IInv, FsmTypeOK, Objects
<1>4. session[o].fsm \in Fsms /\ session[o].current \in STRING /\ call[c].prev \in STRING
  BY <1>3 DEF Session, Call
<1>5. call[c].fsm = session[o].fsm /\ stored[s] \in {0, o}
  BY <1>1 DEF InTransition
<1>6. Phase(s) = [fsm |-> session[o].fsm,
                  state |-> IF fpc[c] = "enter" THEN call[c].prev ELSE session[o].current]
  BY <1>2, <1>5, PhaseHeld
<1> QED BY <1>1, <1>4, <1>5, <1>6, SeenIsPhase

\* What is seen otherwise.
LEMMA OtherPhase ==
  ASSUME IInv, NEW c \in Callers, InHook(c), call[c].op # "transition",
         NEW s \in Sids, s = call[c].sid
  PROVE  Phase(s) = Seen(s)
BY PhaseHeld DEF IInv, Locked, LockedCall

LEMMA ReleasedNext ==
  ASSUME IInv, NEW c \in Callers, InHook(c), NEW s \in Sids, s = call[c].sid, holder' = Released(c)
  PROVE  Phase(s)' = Seen(s)'
<1>1. holder'[s] = NoCall
  BY DEF Released, IInv, FsmTypeOK
<1> QED BY <1>1, PhaseFreeNext

LEMMA WorkKinds ==
  ASSUME AnswerInv, NEW c \in Callers, InHook(c)
  PROVE  \/ call[c].op = "transition" /\ InTransition(c)
         \/ call[c].op = "tryStart" /\ InTryStart(c)
         \/ call[c].op = "start" /\ InStart(c)
         \/ call[c].op = "update" /\ InUpdate(c)
BY DEF AnswerInv, Work

-----------------------------------------------------------------------------
LEMMA QuietPhases ==
  ASSUME IInv, AnswerInv, NEW c \in Callers, TransitionRefused(c) \/ TryStartBlocked(c) \/ StartExists(c)
  PROVE  [Protocol!Next]_Phases
<1>1. Free(c) /\ LocalStep(c, call[c].sid) /\ UNCHANGED <<session, stored, holder, now>>
  BY TransitionRefusedAnswer, BlockedAnswer DEF TransitionRefused, TryStartBlocked, StartExists
<1>2. call[c].sid \in Sids /\ holder[call[c].sid] = NoCall
  BY <1>1, FreeCall
<1>3. PICK s \in Sids : s = call[c].sid
  BY <1>2
<1>4. Stays(s)
  BY <1>1, <1>2, <1>3, PhaseFree, PhaseFreeNext, SeenStays DEF Stays
<1> QED BY <1>1, <1>3, <1>4, LocalMoves

LEMMA TryStartNonePhases ==
  ASSUME IInv, AnswerInv, NEW c \in Callers, TryStartNone(c)
  PROVE  [Protocol!Next]_Phases
<1>1. PICK s \in Sids : s = call[c].sid /\ holder[s] = NoCall
  BY FreeCall DEF TryStartNone
<1>2. LocalStep(c, s)
  BY <1>1, TryStartNoneAnswer
<1>3. stored' = StoredForStart(s) /\ UNCHANGED <<session, holder, now>>
  BY <1>1 DEF TryStartNone
<1>4. (Lookup(s) = 0)'
  BY <1>3 DEF StoredForStart, Lookup, Expired, IInv, FsmTypeOK
<1>5. Phase(s)' = NoSession
  BY <1>1, <1>3, <1>4, SeenNone, PhaseFreeNext
<1> QED BY <1>2, <1>5, GoneOrNone, LocalMoves

LEMMA TransitionBeginPhases ==
  ASSUME IInv, AnswerInv, IInv', AnswerInv', NEW c \in Callers, TransitionBegin(c)
  PROVE  [Protocol!Next]_Phases
<1>s. PICK s \in Sids : s = call[c].sid /\ holder[s] = NoCall
  BY FreeCall DEF TransitionBegin
<1>1. PICK o, f : o = Lookup(s) /\ f = session[o].fsm
  OBVIOUS
<1>2. LocalStep(c, s)
  BY <1>s, <1>1, TransitionBeginAnswer
<1>3. UNCHANGED <<session, stored, now>> /\ o # 0 /\ call[c].op = "transition"
  BY <1>s, <1>1 DEF TransitionBegin
<1>4. PICK e : Hooked(c, o, f, e.to, "action")
  BY <1>s, <1>1 DEF TransitionBegin
<1>5. holder'[s] = c
  BY <1>s, <1>1, <1>4 DEF Hooked, IInv, FsmTypeOK
<1>6. fpc'[c] = "action" /\ call'[c].op = "transition" /\ call'[c].obj = o
  BY <1>3, <1>4 DEF Hooked, IInv, FsmTypeOK, Call
<1>7. call'[c].fsm = f
  BY <1>4, HookedAs DEF IInv
<1>8. Phase(s)' = [fsm |-> f, state |-> session[o].current]
  BY <1>3, <1>5, <1>6, <1>7, PhaseHeldNext
<1>9. Phase(s) = [fsm |-> f, state |-> session[o].current]
  BY <1>s, <1>1, <1>3, PhaseFree DEF Seen
<1> QED BY <1>2, <1>8, <1>9, LocalMoves DEF Stays

LEMMA TryStartBeginPhases ==
  ASSUME IInv, AnswerInv, IInv', AnswerInv', NEW c \in Callers, TryStartBegin(c)
  PROVE  [Protocol!Next]_Phases
<1>1. PICK s \in Sids : s = call[c].sid
  BY FreeCall DEF TryStartBegin
<1>2. LocalStep(c, s)
  BY <1>1, TryStartBeginAnswer
<1>3. call'[c].op = "tryStart" /\ call'[c].sid = s /\ holder'[s] = c /\ InHook(c)'
  BY <1>1 DEF TryStartBegin, Hooked, IInv, FsmTypeOK, Call, InHook, Hooks
<1>4. (Lookup(s) = 0)'
  <2>1. InTryStart(c)'
    BY <1>3 DEF AnswerInv, Work
  <2> QED BY <1>3, <2>1 DEF InTryStart, Lookup, Expired
<1>5. Phase(s)' = NoSession
  BY <1>3, <1>4, SeenNone, PhaseHeldNext
<1> QED BY <1>2, <1>5, GoneOrNone, LocalMoves

LEMMA StartSavePhases ==
  ASSUME IInv, AnswerInv, IInv', AnswerInv', NEW c \in Callers, StartSave(c)
  PROVE  [Protocol!Next]_Phases
<1>s. PICK s \in Sids : s = call[c].sid /\ holder[s] = NoCall
  BY FreeCall DEF StartSave, MayStart, Free, IInv, Locked, LockedCall
<1>f. PICK f \in Fsms : f = call[c].fsm
  BY FreeCall DEF StartSave, MayStart, Free, IInv, Locked, LockedCall
<1>1. PICK n : n = Len(session) + 1
  OBVIOUS
<1>2. LocalStep(c, s) /\ Lookup(s) = 0
  BY <1>s, <1>f, <1>1, StartSaveAnswer DEF StartSave, MayStart
<1>3. /\ session' = Append(session, Made(s, f, UserOf[c])) /\ told' = Append(told, Untold)
      /\ stored'[s] = n
      /\ Hooked(c, n, f, Initial[f], "init")
  BY <1>s, <1>f, <1>1 DEF StartSave, IInv, FsmTypeOK
<1>4. session'[n].fsm = f /\ session'[n].current = Initial[f]
  BY <1>s, <1>f, <1>1, <1>3, ObjectAsMade DEF IInv
<1>5. call'[c].op = "start" /\ holder'[s] = c
  BY <1>s, <1>f, <1>1, <1>3 DEF StartSave, MayStart, Hooked, IInv, FsmTypeOK, Call
<1>6. Phase(s) = NoSession
  BY <1>s, <1>f, <1>1, <1>2, SeenNone, PhaseFree
<1>7. Phase(s)' \in {NoSession, [fsm |-> f, state |-> Initial[f]]}
  BY <1>3, <1>4, <1>5, PhaseHeldNext DEF Seen, Lookup
<1>8. Initial[f] \in Protocol!Starts(f)
  BY DEF Protocol!Starts
<1>9. Stays(s) \/ Begins(s)
  BY <1>6, <1>7, <1>8 DEF Stays, Begins
<1> QED BY <1>2, <1>9, LocalMoves

LEMMA UpdateCallPhases ==
  ASSUME IInv, AnswerInv, NEW c \in Callers, UpdateCall(c)
  PROVE  [Protocol!Next]_Phases
<1>1. PICK s \in Sids :
        /\ holder[s] = NoCall
        /\ call' = [call EXCEPT ![c] = [NoOp EXCEPT !.op = "update", !.sid = s, !.obj = Lookup(s)]]
        /\ holder' = [holder EXCEPT ![s] = c]
  BY DEF UpdateCall
<1>2. call'[c].sid = s /\ call'[c].op = "update" /\ holder'[s] = c
  BY <1>1 DEF IInv, FsmTypeOK, NoOp
<1>3. LocalStep(c, s)
  BY <1>2, UpdateCallAnswer
<1>4. Seen(s)' = Seen(s)
  BY SeenStays DEF UpdateCall
<1>5. Stays(s)
  BY <1>1, <1>2, <1>4, PhaseFree, PhaseHeldNext DEF Stays
<1> QED BY <1>3, <1>5, LocalMoves

LEMMA UpdateSavePhases ==
  ASSUME IInv, AnswerInv, NEW c \in Callers, UpdateSave(c)
  PROVE  [Protocol!Next]_Phases
<1>1. InHook(c)
  BY DEF UpdateSave, InHook
<1>2. PICK s \in Sids, o \in Objects : s = call[c].sid /\ o = call[c].obj /\ o # 0 /\ holder[s] = c
  BY <1>1, CallUnderLock
<1>3. LocalStep(c, s)
  BY <1>2, UpdateSaveAnswer
<1>4. /\ call[c].op = "update" /\ stored[s] \in {0, o} /\ (stored[s] = o \/ Expired(o))
      /\ stored'[s] = o /\ UNCHANGED <<session, now>> /\ holder' = Released(c)
  BY <1>1, <1>2, WorkKinds
     DEF UpdateSave, InTransition, InTryStart, InStart, InUpdate, IInv, FsmTypeOK
<1>5. Phase(s) = Seen(s) /\ Phase(s)' = Seen(s)'
  BY <1>1, <1>2, <1>4, OtherPhase, ReleasedNext
<1>6. CASE stored[s] = o
  BY <1>3, <1>4, <1>5, <1>6, SeenStays, LocalMoves DEF Stays
<1>7. CASE stored[s] = 0
  <2>1. Expired(o)'
    BY <1>2, <1>4, <1>7 DEF Expired
  <2>2. (Lookup(s) = 0)'
    BY <1>4, <2>1 DEF Lookup
  <2> QED BY <1>3, <1>5, <2>2, SeenNone, GoneOrNone, LocalMoves
<1> QED BY <1>4, <1>6, <1>7

LEMMA HookEndsPhases ==
  ASSUME IInv, AnswerInv, NEW c \in Callers, HookEnds(c)
  PROVE  [Protocol!Next]_Phases
<1>1. InHook(c)
  BY DEF HookEnds, InHook
<1>2. PICK s \in Sids, o \in Objects : s = call[c].sid /\ o = call[c].obj /\ holder[s] = c
  BY <1>1, CallUnderLock
<1>3. LocalStep(c, s)
  BY <1>2, HookEndsAnswer
<1>4. /\ UNCHANGED <<session, holder, now, fpc>> /\ stored'[s] = 0
      /\ call'[c].op = call[c].op /\ call'[c].fsm = call[c].fsm /\ call'[c].obj = o
      /\ call'[c].prev = call[c].prev
  BY <1>2 DEF HookEnds, IInv, FsmTypeOK, Call
<1>5. CASE call[c].op = "transition"
  BY <1>2, <1>3, <1>4, <1>5, PhaseHeld, PhaseHeldNext, LocalMoves DEF Stays
<1>6. CASE call[c].op # "transition"
  <2>1. Phase(s)' = Seen(s)'
    BY <1>2, <1>4, <1>6, PhaseHeldNext
  <2>2. (Lookup(s) = 0)'
    BY <1>4 DEF Lookup
  <2> QED BY <1>3, <2>1, <2>2, SeenNone, GoneOrNone, LocalMoves
<1> QED BY <1>5, <1>6

LEMMA HookFailsPhases ==
  ASSUME IInv, AnswerInv, NEW c \in Callers, HookFails(c)
  PROVE  [Protocol!Next]_Phases
<1>1. InHook(c) /\ fpc[c] \in Hooks
  BY DEF HookFails, InHook
<1>2. PICK s \in Sids, o \in Objects : s = call[c].sid /\ o = call[c].obj /\ o # 0 /\ holder[s] = c
  BY <1>1, CallUnderLock
<1>3. LocalStep(c, s)
  BY <1>2, HookFailsAnswer
<1>4. /\ holder' = Released(c) /\ now' = now /\ session' = Undone(c)
      /\ fpc[c] # "init" => stored' = stored
      /\ fpc[c] = "init" => stored'[s] = 0
  BY <1>2 DEF HookFails, IInv, FsmTypeOK
<1>5. Phase(s)' = Seen(s)'
  BY <1>1, <1>2, <1>4, ReleasedNext
<1>6. CASE call[c].op = "transition"
  <2>1. /\ InTransition(c) /\ stored[s] \in {0, o}
        /\ Phase(s) = [fsm |-> session[o].fsm,
                       state |-> IF fpc[c] = "enter" THEN call[c].prev ELSE session[o].current]
        /\ Phase(s) # NoSession
    BY <1>1, <1>2, <1>6, TransitionPhase
  <2>2. fpc[c] \in {"action", "enter"} /\ stored'[s] \in {0, o}
    BY <1>4, <2>1 DEF InTransition
  <2>3. /\ session'[o].fsm = session[o].fsm
        /\ session'[o].current = IF fpc[c] = "enter" THEN call[c].prev ELSE session[o].current
    <3>1. CASE fpc[c] = "enter"
      <4>0. PICK st : st = call[c].prev
        OBVIOUS
      <4>1. session' = [session EXCEPT ![o].current = st]
        BY <1>2, <1>4, <1>6, <3>1, <4>0 DEF Undone
      <4>2. session'[o].current = st /\ session'[o].fsm = session[o].fsm
        BY <4>1, ObjectMoved DEF IInv
      <4> QED BY <3>1, <4>0, <4>2
    <3>2. CASE fpc[c] # "enter"
      BY <1>4, <3>2 DEF Undone
    <3> QED BY <3>1, <3>2
  <2>4. Phase(s)' \in {NoSession, Phase(s)}
    BY <1>5, <2>1, <2>2, <2>3, SeenOneNext
  <2> QED BY <1>3, <2>1, <2>4, LocalMoves DEF Stays, Ends
<1>7. CASE call[c].op # "transition"
  <2>1. Phase(s) = Seen(s) /\ session' = session
    BY <1>1, <1>2, <1>4, <1>7, OtherPhase DEF Undone
  <2>2. CASE fpc[c] # "init"
    BY <1>3, <1>4, <1>5, <2>1, <2>2, SeenStays, LocalMoves DEF Stays
  <2>3. CASE fpc[c] = "init"
    <3>1. (Lookup(s) = 0)'
      BY <1>4, <2>3 DEF Lookup
    <3> QED BY <1>3, <1>5, <3>1, SeenNone, GoneOrNone, LocalMoves
  <2> QED BY <2>2, <2>3
<1> QED BY <1>6, <1>7

\* The state that a transition has moved to is seen when its lock is released.
LEMMA TransitionShows ==
  ASSUME IInv, AnswerInv, NEW c \in Callers, fpc[c] = "enter", call[c].op = "transition",
         NEW s \in Sids, NEW o \in Objects, s = call[c].sid, o = call[c].obj,
         stored'[s] \in {0, o}, session' = session, Phase(s)' = Seen(s)'
  PROVE  Ends(s) \/ Moves(s)
<1>1. InHook(c)
  BY DEF InHook, Hooks
<1>2. /\ InTransition(c) /\ call[c].fsm = session[o].fsm
      /\ Phase(s) = [fsm |-> session[o].fsm, state |-> call[c].prev]
      /\ Phase(s) # NoSession
  BY <1>1, TransitionPhase
<1>3. session[o].current = call[c].to /\ OnEdge(c, call[c].prev) /\ call[c].to # EndState
  BY <1>2 DEF InTransition
<1>4. PICK e \in Applicable(session[o].fsm, call[c].prev) : e.to = call[c].to
  BY <1>2, <1>3 DEF OnEdge
<1>5. Phase(s)' \in {NoSession, [fsm |-> session[o].fsm, state |-> e.to]}
  BY <1>3, <1>4, SeenOneNext
<1>6. CASE Phase(s)' = NoSession
  BY <1>2, <1>6 DEF Ends
<1>7. CASE Phase(s)' = [fsm |-> session[o].fsm, state |-> e.to]
  <2>1. Phase(s).fsm = session[o].fsm /\ Phase(s).state = call[c].prev
    BY <1>2
  <2>2. Phase(s)' = [Phase(s) EXCEPT !.state = e.to]
    BY <1>2, <1>7
  <2> QED BY <1>2, <1>3, <1>4, <2>1, <2>2 DEF Moves
<1> QED BY <1>5, <1>6, <1>7

LEMMA HookPanicsPhases ==
  ASSUME IInv, AnswerInv, NEW c \in Callers, HookPanics(c)
  PROVE  [Protocol!Next]_Phases
<1>1. InHook(c)
  BY DEF HookPanics, InHook
<1>2. PICK s \in Sids, o \in Objects : s = call[c].sid /\ o = call[c].obj /\ o # 0 /\ holder[s] = c
  BY <1>1, CallUnderLock
<1>3. LocalStep(c, s)
  BY <1>2, HookPanicsAnswer
<1>4. UNCHANGED <<session, stored, now>> /\ holder' = Released(c)
  BY DEF HookPanics
<1>5. Phase(s)' = Seen(s)'
  BY <1>1, <1>2, <1>4, ReleasedNext
<1>6. CASE call[c].op = "transition"
  <2>1. /\ InTransition(c) /\ stored[s] \in {0, o}
        /\ Phase(s) = [fsm |-> session[o].fsm,
                       state |-> IF fpc[c] = "enter" THEN call[c].prev ELSE session[o].current]
        /\ Phase(s) # NoSession
    BY <1>1, <1>2, <1>6, TransitionPhase
  <2>2. CASE fpc[c] = "enter"
    BY <1>2, <1>3, <1>4, <1>5, <1>6, <2>1, <2>2, TransitionShows, LocalMoves
  <2>3. CASE fpc[c] # "enter"
    <3>1. Phase(s)' \in {NoSession, Phase(s)}
      BY <1>4, <1>5, <2>1, <2>3, SeenOneNext
    <3> QED BY <1>3, <2>1, <3>1, LocalMoves DEF Stays, Ends
  <2> QED BY <2>2, <2>3
<1>7. CASE call[c].op # "transition"
  BY <1>1, <1>2, <1>3, <1>4, <1>5, <1>7, OtherPhase, SeenStays, LocalMoves DEF Stays
<1> QED BY <1>6, <1>7

LEMMA ActionEndsPhases ==
  ASSUME IInv, AnswerInv, NEW c \in Callers, ActionEnds(c)
  PROVE  [Protocol!Next]_Phases
<1>1. InHook(c)
  BY DEF ActionEnds, InHook, Hooks
<1>2. PICK s \in Sids : s = call[c].sid
  BY <1>1, CallUnderLock
<1>3. LocalStep(c, s)
  BY <1>2, ActionEndsAnswer
<1>4. /\ UNCHANGED <<session, now>> /\ holder' = Released(c)
      /\ IF call[c].op = "transition" THEN stored'[s] = 0 ELSE stored' = stored
  BY <1>2 DEF ActionEnds, IInv, FsmTypeOK
<1>5. Phase(s)' = Seen(s)'
  BY <1>1, <1>2, <1>4, ReleasedNext
<1>6. CASE call[c].op = "transition"
  <2>1. (Lookup(s) = 0)'
    BY <1>4, <1>6 DEF Lookup
  <2> QED BY <1>3, <1>5, <2>1, SeenNone, GoneOrNone, LocalMoves
<1>7. CASE call[c].op # "transition"
  BY <1>1, <1>2, <1>3, <1>4, <1>5, <1>7, OtherPhase, SeenStays, LocalMoves DEF Stays
<1> QED BY <1>6, <1>7

LEMMA ActionMovesPhases ==
  ASSUME IInv, AnswerInv, IInv', AnswerInv', NEW c \in Callers, ActionMoves(c)
  PROVE  [Protocol!Next]_Phases
<1>1. InHook(c) /\ fpc[c] = "action" /\ fpc'[c] = "enter" /\ InHook(c)'
  BY DEF ActionMoves, InHook, Hooks, IInv, FsmTypeOK
<1>2. PICK s \in Sids, o \in Objects : s = call[c].sid /\ o = call[c].obj /\ holder[s] = c
  BY <1>1, CallUnderLock
<1>3. LocalStep(c, s)
  BY <1>2, ActionMovesAnswer
<1>4. /\ call'[c].op = call[c].op /\ call'[c].fsm = call[c].fsm /\ call'[c].sid = s
      /\ call'[c].prev = session[o].current /\ holder'[s] = c
  BY <1>2 DEF ActionMoves, IInv, FsmTypeOK, Call
<1>5. CASE call[c].op = "transition"
  BY <1>1, <1>2, <1>3, <1>4, <1>5, PhaseHeld, PhaseHeldNext, LocalMoves DEF Stays
<1>6. CASE call[c].op # "transition"
  <2>1. call'[c].op = "tryStart"
    BY <1>1, <1>4, <1>6, WorkKinds DEF InStart, InUpdate
  <2>2. InTryStart(c)'
    BY <1>1, <2>1 DEF AnswerInv, Work
  <2>3. (Lookup(s) = 0)'
    BY <1>4, <2>2 DEF InTryStart, Lookup, Expired
  <2>4. Phase(s)' = NoSession
    BY <1>4, <2>1, <2>3, SeenNone, PhaseHeldNext
  <2> QED BY <1>3, <2>4, GoneOrNone, LocalMoves
<1> QED BY <1>5, <1>6

LEMMA EnterReturnsPhases ==
  ASSUME IInv, AnswerInv, NEW c \in Callers, EnterReturns(c)
  PROVE  [Protocol!Next]_Phases
<1>1. InHook(c) /\ fpc[c] = "enter"
  BY DEF EnterReturns, InHook, Hooks
<1>2. PICK s \in Sids, o \in Objects : s = call[c].sid /\ o = call[c].obj /\ o # 0 /\ holder[s] = c
  BY <1>1, CallUnderLock
<1>3. LocalStep(c, s)
  BY <1>2, EnterReturnsAnswer
<1>4. UNCHANGED <<session, now>> /\ holder' = Released(c) /\ stored'[s] = o
  BY <1>2 DEF EnterReturns, Saved, IInv, FsmTypeOK
<1>5. Phase(s)' = Seen(s)'
  BY <1>1, <1>2, <1>4, ReleasedNext
<1>6. CASE call[c].op = "transition"
  BY <1>1, <1>2, <1>3, <1>4, <1>5, <1>6, TransitionShows, LocalMoves
<1>7. CASE call[c].op # "transition"
  <2>1. InTryStart(c)
    BY <1>1, <1>7, WorkKinds DEF InStart, InUpdate
  <2>2. Phase(s) = NoSession
    BY <1>1, <1>2, <1>7, <2>1, OtherPhase, SeenNone DEF InTryStart
  <2>3. /\ session[o].fsm = call[c].fsm /\ session[o].current = call[c].to
        /\ OnEdge(c, Initial[call[c].fsm]) /\ call[c].to # EndState
    BY <1>1, <1>2, <2>1 DEF InTryStart
  <2>4. call[c].fsm \in Fsms
    <3>1. session[o] \in Session
      BY DEF IInv, FsmTypeOK, Objects
    <3> QED BY <2>3, <3>1 DEF Session
  <2>5. call[c].to \in Protocol!Starts(call[c].fsm)
    BY <2>3 DEF OnEdge, Protocol!Starts, Protocol!Applicable, Applicable
  <2>6. Phase(s)' \in {NoSession, [fsm |-> call[c].fsm, state |-> call[c].to]}
    BY <1>4, <1>5, <2>3, SeenOneNext
  <2>7. Stays(s) \/ Begins(s)
    BY <2>2, <2>4, <2>5, <2>6 DEF Stays, Begins
  <2> QED BY <1>3, <2>7, LocalMoves
<1> QED BY <1>6, <1>7

LEMMA InitReturnsPhases ==
  ASSUME IInv, AnswerInv, NEW c \in Callers, InitReturns(c)
  PROVE  [Protocol!Next]_Phases
<1>1. InHook(c) /\ fpc[c] = "init"
  BY DEF InitReturns, InHook, Hooks
<1>2. PICK s \in Sids : s = call[c].sid
  BY <1>1, CallUnderLock
<1>3. LocalStep(c, s)
  BY <1>2, InitReturnsAnswer
<1>4. UNCHANGED <<session, stored, now>> /\ holder' = Released(c)
  BY DEF InitReturns
<1>5. call[c].op # "transition"
  BY <1>1, WorkKinds DEF InTransition
<1> QED BY <1>1, <1>2, <1>3, <1>4, <1>5, ReleasedNext, OtherPhase, SeenStays, LocalMoves DEF Stays

-----------------------------------------------------------------------------
(* Steps that belong to no call, and calls that have not begun *)

\* Where neither an object nor a call changes, a session is seen as before, or
\* is gone.
LEMMA BesidePhase ==
  ASSUME UNCHANGED <<session, lockVars>>, NEW s \in Sids,
         Seen(s)' = Seen(s) \/ Seen(s)' = NoSession
  PROVE  Stays(s) \/ Ends(s)
<1>1. UNCHANGED <<holder, call, fpc, session>>
  BY DEF lockVars
<1>2. CASE Transiting(s)
  <2>1. Phase(s)' = Phase(s)
    BY <1>1, <1>2 DEF Phase, Transiting
  <2> QED BY <2>1 DEF Stays
<1>3. CASE ~Transiting(s)
  <2>1. Phase(s) = Seen(s)
    BY <1>3 DEF Phase, Seen
  <2>2. ~Transiting(s)'
    BY <1>1, <1>3 DEF Transiting
  <2>3. Phase(s)' = Seen(s)'
    BY <2>2 DEF Phase, Seen
  <2> QED BY <2>1, <2>3 DEF Stays, Ends
<1> QED BY <1>2, <1>3

LEMMA EndSessionPhases ==
  ASSUME IInv, NEW s \in Sids, EndSession(s)
  PROVE  [Protocol!Next]_Phases
<1>1. /\ stored'[s] = 0 /\ \A z \in Sids : z # s => stored'[z] = stored[z]
      /\ UNCHANGED <<session, lockVars, now>>
  BY DEF EndSession, IInv, FsmTypeOK
<1>2. (Lookup(s) = 0)'
  BY <1>1 DEF Lookup
<1>3. ASSUME NEW z \in Sids PROVE Seen(z)' = Seen(z) \/ Seen(z)' = NoSession
  BY <1>1, <1>2, SeenNone, SeenStays
<1> QED BY <1>1, <1>3, BesidePhase, SeveralEnd

LEMMA CleanupPhases ==
  ASSUME IInv, Cleanup
  PROVE  [Protocol!Next]_Phases
<1>1. /\ \A z \in Sids : stored'[z] = IF stored[z] # 0 /\ Expired(stored[z]) THEN 0 ELSE stored[z]
      /\ UNCHANGED <<session, lockVars, now>>
  BY DEF Cleanup
<1>2. ASSUME NEW z \in Sids PROVE Seen(z)' = Seen(z) \/ Seen(z)' = NoSession
  <2>1. CASE stored[z] # 0 /\ Expired(stored[z])
    <3>1. (Lookup(z) = 0)'
      BY <1>1, <2>1 DEF Lookup
    <3> QED BY <3>1, SeenNone
  <2>2. CASE ~(stored[z] # 0 /\ Expired(stored[z]))
    BY <1>1, <2>2, SeenStays
  <2> QED BY <2>1, <2>2
<1> QED BY <1>1, <1>2, BesidePhase, SeveralEnd

\* Sessions expire as the clock moves, several at once.
LEMMA TickPhases ==
  ASSUME IInv, Tick
  PROVE  [Protocol!Next]_Phases
<1>1. UNCHANGED <<session, stored, lockVars>> /\ now' = now + 1 /\ now \in Nat
  BY DEF Tick, IInv, FsmTypeOK
<1>2. ASSUME NEW z \in Sids PROVE Seen(z)' = Seen(z) \/ Seen(z)' = NoSession
  <2>1. PICK o \in {0} \cup Objects : o = stored[z]
    BY DEF IInv, FsmTypeOK
  <2>2. CASE Lookup(z)' = 0
    BY <2>2, SeenNone
  <2>3. CASE Lookup(z)' # 0
    <3>1. o # 0 /\ ~Expired(o)' /\ Lookup(z)' = o
      BY <1>1, <2>1, <2>3 DEF Lookup, Expired
    <3>2. o \in Objects /\ session[o] \in Session
      BY <3>1 DEF IInv, FsmTypeOK, Objects
    <3>3. session[o].expire \in Nat
      BY <3>2 DEF Session
    <3>4. ~Expired(o)
      BY <1>1, <3>1, <3>3 DEF Expired
    <3>5. Lookup(z) = o
      BY <2>1, <3>1, <3>4 DEF Lookup
    <3> QED BY <1>1, <3>1, <3>5 DEF Seen
  <2> QED BY <2>2, <2>3
<1> QED BY <1>1, <1>2, BesidePhase, SeveralEnd

LEMMA RegistrationPhases ==
  ASSUME IInv, UNCHANGED <<session, stored, lockVars, now>>
  PROVE  [Protocol!Next]_Phases
<1>1. ASSUME NEW z \in Sids PROVE Seen(z)' = Seen(z)
  BY SeenStays
<1> QED BY <1>1, BesidePhase, SeveralEnd

LEMMA BeginPhases ==
  ASSUME IInv, AnswerInv, NEW c \in Callers, Message(c) \/ StartCall(c)
  PROVE  [Protocol!Next]_Phases
<1>1. ~InHook(c) /\ UNCHANGED <<session, stored, holder, now>>
  BY DEF Message, StartCall, InHook, Hooks
<1>2. Others(c)
  BY DEF Message, StartCall, Others, IInv, FsmTypeOK
<1>3. ASSUME NEW z \in Sids PROVE Stays(z)
  <2>1. Seen(z)' = Seen(z)
    BY <1>1, SeenStays
  <2>2. CASE holder[z] = NoCall
    BY <1>1, <2>1, <2>2, PhaseFree, PhaseFreeNext DEF Stays
  <2>3. CASE holder[z] # NoCall
    <3>1. PICK d \in Callers : d = holder[z]
      BY <2>3 DEF IInv, FsmTypeOK
    <3>2. d # c
      BY <1>1, <2>3, <3>1 DEF AnswerInv, HolderWorks
    <3>3. call'[d] = call[d] /\ fpc'[d] = fpc[d] /\ holder'[z] = d
      BY <1>1, <1>2, <3>1, <3>2 DEF Others
    <3> QED BY <1>1, <2>1, <3>1, <3>3, PhaseHeld, PhaseHeldNext DEF Stays
  <2> QED BY <2>2, <2>3
<1> QED BY <1>3, SeveralEnd

LEMMA CallPhases ==
  ASSUME IInv, AnswerInv, IInv', AnswerInv', NEW c \in Callers, CallStep(c)
  PROVE  [Protocol!Next]_Phases
<1>1. CASE TransitionRefused(c) \/ TryStartBlocked(c) \/ StartExists(c)
  BY <1>1, QuietPhases
<1>2. CASE TransitionBegin(c)
  BY <1>2, TransitionBeginPhases
<1>3. CASE TryStartNone(c) \/ TryStartBegin(c)
  BY <1>3, TryStartNonePhases, TryStartBeginPhases
<1>4. CASE StartSave(c) \/ UpdateSave(c)
  BY <1>4, StartSavePhases, UpdateSavePhases
<1>5. CASE HookEnds(c) \/ HookFails(c) \/ HookPanics(c)
  BY <1>5, HookEndsPhases, HookFailsPhases, HookPanicsPhases
<1>6. CASE ActionEnds(c) \/ ActionMoves(c)
  BY <1>6, ActionEndsPhases, ActionMovesPhases
<1>7. CASE EnterReturns(c) \/ InitReturns(c)
  BY <1>7, EnterReturnsPhases, InitReturnsPhases
<1> QED BY <1>1, <1>2, <1>3, <1>4, <1>5, <1>6, <1>7 DEF CallStep

LEMMA PhaseStep ==
  ASSUME IInv, AnswerInv, IInv', AnswerInv', [FsmNext]_fsmVars
  PROVE  [Protocol!Next]_Phases
<1>1. CASE \E c \in Callers : Message(c) \/ StartCall(c) \/ UpdateCall(c) \/ CallStep(c)
  BY <1>1, BeginPhases, UpdateCallPhases, CallPhases
<1>2. CASE \E s \in Sids : EndSession(s)
  BY <1>2, EndSessionPhases
<1>3. CASE \E f \in Fsms : Register(f) \/ Unregister(f)
  BY <1>3, RegistrationPhases DEF Register, Unregister
<1>4. CASE Cleanup \/ Tick
  BY <1>4, CleanupPhases, TickPhases
<1>5. CASE UNCHANGED fsmVars
  BY <1>5, RegistrationPhases DEF fsmVars, lockVars
<1> QED BY <1>1, <1>2, <1>3, <1>4, <1>5 DEF FsmNext

\* Whatever locks, hooks, storage, registration and the clock do, a session is
\* seen to begin at a start of its machine and to move along its edges, and is
\* never replaced without having ended (fsm.go:314-590).
THEOREM SessionsFollowProtocol == FsmSpec => ImplementsProtocol
<1>1. FsmInit => Protocol!Init
  <2> SUFFICES ASSUME FsmInit PROVE Phases = [s \in Sids |-> NoSession]
    BY DEF Protocol!Init, Phases
  <2>1. ASSUME NEW s \in Sids PROVE Phase(s) = NoSession
    <3>1. holder[s] = NoCall /\ Lookup(s) = 0
      BY DEF FsmInit, Lookup
    <3> QED BY <3>1, PhaseFree, SeenNone
  <2> QED BY <2>1 DEF Phases
<1>2. /\ IInv /\ AnswerInv /\ (IInv /\ AnswerInv)' /\ [FsmNext]_fsmVars
      => [Protocol!Next]_[s \in Sids |-> Phase(s)]
  BY PhaseStep DEF Phases
<1> QED BY <1>1, <1>2, AnswerInvariant, PTL DEF FsmSpec, ImplementsProtocol, Protocol!Spec
==============================================================================

--------------------------- MODULE SessionProtocol ---------------------------
(***************************************************************************)
(* What core/fsm promises to those who read a conversation from outside:   *)
(* a session begins at the start of its machine and moves along the edges  *)
(* of that machine only, one edge at a time, until it ends.  There are no  *)
(* locks, no hooks, no storage and no clock here; sessions may expire, and *)
(* several may do so at the same moment.                                   *)
(***************************************************************************)
CONSTANTS Sids, Fsms, Initial, Events, EndState, AnyState, NoSession

VARIABLE phase       \* per session ID: NoSession, or the machine and its state

Applicable(f, s) == {e \in Events[f] : e.from \in {s, AnyState}}
Starts(f) == {Initial[f]} \cup ({e.to : e \in Applicable(f, Initial[f])} \ {EndState})

Init == phase = [s \in Sids |-> NoSession]

Begin(s) ==
  /\ phase[s] = NoSession
  /\ \E f \in Fsms : \E st \in Starts(f) :
       phase' = [phase EXCEPT ![s] = [fsm |-> f, state |-> st]]

Move(s) ==
  /\ phase[s] # NoSession
  /\ \E e \in Applicable(phase[s].fsm, phase[s].state) :
       /\ e.to # EndState
       /\ phase' = [phase EXCEPT ![s].state = e.to]

Finish(S) ==
  /\ S # {}
  /\ \A s \in S : phase[s] # NoSession
  /\ phase' = [s \in Sids |-> IF s \in S THEN NoSession ELSE phase[s]]

\* A step is one that can be seen; taking an edge back to the same state is not.
Next ==
  /\ phase' # phase
  /\ \/ \E s \in Sids : Begin(s) \/ Move(s)
     \/ \E S \in SUBSET Sids : Finish(S)

Spec == Init /\ [][Next]_phase
=============================================================================

---------------------------- MODULE MCConversations ----------------------------
(***************************************************************************)
(* What a plugin leaves with the framework until something happens: the    *)
(* temporary matchers (core/engine) and state machines (core/fsm) with     *)
(* which it waits for the next message of a chat, and the subscriptions    *)
(* and hooks in its scope.  They share nothing, so the initial state       *)
(* chooses one; the others stay as they begin, and the instance has the    *)
(* sum of their states.                                                    *)
(***************************************************************************)
EXTENDS MCTempMatchers, FsmSessions, PluginScope

CONSTANTS u1, u2, k1, k2

VARIABLE part

\* A survey: a question that is asked, a state without an edge, a start that
\* ends at once; and a dialogue that can be left in every state.
Survey == {[from |-> "idle", to |-> "ask"], [from |-> "ask", to |-> "done"], [from |-> "idle", to |-> ""]}
Dialogue == {[from |-> "*", to |-> ""]}
MachineEvents == [f \in Fsms |-> IF f = "survey" THEN Survey ELSE Dialogue]
MachineInitial == [f \in Fsms |-> "idle"]
OnePerCall == k1 :> u1 @@ k2 :> u2

conversationsVars == <<part, vars, fsmVars, scopeVars, busVars>>

ConversationsInit ==
  /\ part \in {"matchers", "fsm", "scopes"}
  /\ Init /\ FsmInit /\ BusInit /\ ScopeInit
  /\ part # "matchers" => byID = {}      \* one initial state of the part that is idle
ConversationsNext ==
  /\ \/ part = "matchers" /\ Next /\ UNCHANGED <<fsmVars, scopeVars, busVars>>
     \/ part = "fsm" /\ FsmNext /\ UNCHANGED <<vars, scopeVars, busVars>>
     \/ part = "scopes" /\ ScopeNext /\ UNCHANGED <<vars, fsmVars>>
  /\ UNCHANGED part

ConversationsSpec == ConversationsInit /\ [][ConversationsNext]_conversationsVars

\* The state machines only.
SessionsAlone == part = "fsm" /\ ConversationsSpec
=============================================================================

------------------------------ MODULE ChatFifo ------------------------------
(***************************************************************************)
(* What the outbound dispatcher promises its callers, with no workers, no  *)
(* locks and no map of queues: each chat has one bounded waiting line; at  *)
(* most one message of a chat is being sent at any time; messages are sent *)
(* in the order in which they were accepted; a line may be given up as a   *)
(* whole, and each message of it is then answered without being sent.      *)
(* OutboundDispatcher.tla is shown to implement this specification.        *)
(***************************************************************************)
EXTENDS Naturals, Sequences

CONSTANTS Chats,      \* the message streams
          Tasks,      \* the messages callers want sent, each submitted once
          ChatOf,     \* the chat a message belongs to
          QueueSize   \* the length of a chat's waiting line

VARIABLES pending,    \* the waiting line of each chat
          sending,    \* the messages being sent
          dropped,    \* the messages of abandoned lines not yet answered
          answered,   \* the messages whose outcome the caller knows
          lost        \* the messages a broken hook took with it

fifoVars == <<pending, sending, dropped, answered, lost>>

Init ==
  /\ pending = [c \in Chats |-> <<>>]
  /\ sending = {}
  /\ dropped = {}
  /\ answered = {}
  /\ lost = {}

Accept(t) ==
  /\ Len(pending[ChatOf[t]]) < QueueSize
  /\ pending' = [pending EXCEPT ![ChatOf[t]] = Append(@, t)]
  /\ UNCHANGED <<sending, dropped, answered, lost>>

\* Only the oldest message of a chat may be sent, and only while no other is.
Start(c) ==
  /\ pending[c] # <<>>
  /\ \A t \in sending : ChatOf[t] # c
  /\ sending' = sending \cup {Head(pending[c])}
  /\ pending' = [pending EXCEPT ![c] = Tail(@)]
  /\ UNCHANGED <<dropped, answered, lost>>

Finish(t) ==
  /\ t \in sending
  /\ sending' = sending \ {t}
  /\ \/ answered' = answered \cup {t} /\ UNCHANGED lost
     \/ lost' = lost \cup {t} /\ UNCHANGED answered
  /\ UNCHANGED <<pending, dropped>>

Abandon(c) ==
  /\ \A t \in sending : ChatOf[t] # c
  /\ pending' = [pending EXCEPT ![c] = <<>>]
  /\ dropped' = dropped \cup {pending[c][i] : i \in DOMAIN pending[c]}
  /\ UNCHANGED <<sending, answered, lost>>

Answer(t) ==
  /\ t \in dropped
  /\ dropped' = dropped \ {t}
  /\ answered' = answered \cup {t}
  /\ UNCHANGED <<pending, sending, lost>>

Next ==
  \/ \E t \in Tasks : Accept(t) \/ Finish(t) \/ Answer(t)
  \/ \E c \in Chats : Start(c) \/ Abandon(c)

Spec == Init /\ [][Next]_fifoVars
=============================================================================

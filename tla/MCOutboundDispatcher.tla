------------------------ MODULE MCOutboundDispatcher ------------------------
(* Small instances of the dispatcher for TLC. *)
EXTENDS OutboundDispatcher, TLC

CONSTANTS a, b, t1, t2, t3, t4, q1, q2, q3, k1

\* Three tasks compete for one chat, one more for the tokens.
ThreeAndOne == t1 :> a @@ t2 :> a @@ t3 :> a @@ t4 :> b
QueuesOfThreeAndOne == q1 :> a @@ q2 :> a @@ q3 :> b

\* Two tasks of one chat, for the liveness runs: a queue object and its
\* successor, whose workers compete for one token.
TwoOfOne == t1 :> a @@ t2 :> a
QueuesOfTwo == q1 :> a @@ q2 :> a

\* Tasks of a chat and queue objects of a chat are alike.
Symmetry == Permutations({t1, t2, t3}) \cup Permutations({q1, q2})
=============================================================================

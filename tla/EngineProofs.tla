------------------------------ MODULE EngineProofs ------------------------------
(***************************************************************************)
(* The registry of matchers, and the chains of middleware.                 *)
(*                                                                         *)
(* No deletion and no registration of a permanent matcher is lost, and a   *)
(* Shutdown that has returned leaves a quiet engine, for any number of     *)
(* goroutines, events and matchers, and any sizes of channel and batch.    *)
(* A matcher that was registered once is in one place only: the state, the *)
(* open session, the session being flushed, or the hands of a goroutine    *)
(* that has taken it out.  Whoever carries a deletion carries a matcher    *)
(* that is marked, so what he removes was deleted; and what is marked      *)
(* under the hands of a flush that holds writeMu cannot be removed before  *)
(* it is put into the state, so that its deletion still finds it there.    *)
(*                                                                         *)
(* A chain that has been compiled from an older state does not stay in the *)
(* cache, for any number of goroutines, attempts and changes: the second   *)
(* part says who will see to it.                                           *)
(***************************************************************************)
EXTENDS MatcherRegistry, HandlerChains, SequenceTheorems, TLAPS

\* Nothing moves about that was not registered.
OnlyBorn ==
  /\ inState \subseteq born /\ marked \subseteq born
  /\ batch.members \subseteq born /\ flush.members \subseteq born
  /\ Members(channel) \subseteq born /\ taken \subseteq born /\ flushing \subseteq born
  /\ \A d \in Deleters : darg[d] \subseteq born

\* Hands that are idle are empty.
EmptyHands ==
  /\ ~batch.open => batch.members = {}
  /\ flush.phase = "none" => flush.members = {}
  /\ spc # "flushRemove" => flushing = {}
  /\ \A d \in Deleters : dpc[d] = "idle" => darg[d] = {}

\* Deletions are under way for marked matchers only, one in each hand.
CarriersMarked ==
  /\ Members(channel) \subseteq marked /\ taken \subseteq marked /\ flushing \subseteq marked
  /\ \A d \in Deleters :
       dpc[d] \in {"ask", "send", "remove"} => \E m \in marked : darg[d] = {m}

\* One place for each matcher.
OnePlace ==
  /\ inState \cap batch.members = {} /\ inState \cap flush.members = {}
  /\ batch.members \cap flush.members = {}
  /\ \A d \in Deleters : dpc[d] = "mark" =>
       darg[d] \cap (inState \cup batch.members \cup flush.members) = {}

\* Where the deletion of a matcher can be.
Carried == Hands \cup Members(channel)

\* What is marked under the hands of a flush that holds writeMu is still to be
\* removed: nobody can have looked for it in the state meanwhile.
LockedCarried == flush.phase = "locked" => flush.members \cap marked \subseteq Carried

\* Who reads the channel is a matter of how far Shutdown has come.
Kept == marked \cap inState \subseteq Carried

\* How far Shutdown has come, and what that means.
Stopped == spc \in {"events", "pool", "flush", "flushRemove", "flushed", "done", "gaveUp"}
Drained == spc \in {"flush", "flushRemove", "flushed", "done"}
EndInOrder ==
  /\ spc # "none" => shut
  /\ Stopped => ~active
  /\ Drained \/ spc = "pool" => poolShut /\ \A v \in Events : vpc[v] # "counted"
  /\ Drained => pooled = 0
  /\ spc = "done" => Members(channel) \subseteq late

\* No call works on a deletion that had returned when Shutdown was called, and the
\* last look of the flush found none of them in the channel.
SettledAside ==
  /\ settled \subseteq marked
  /\ \A d \in Deleters : dpc[d] \in {"ask", "send", "remove"} => darg[d] \cap settled = {}
  /\ spc = "done" => Members(channel) \cap settled = {}

IInv ==
  /\ RegistryTypeOK
  /\ OnlyBorn /\ EmptyHands /\ CarriersMarked /\ OnePlace /\ LockedCarried
  /\ EndInOrder /\ SettledAside
  /\ Kept /\ RegistrationsNotLost

-----------------------------------------------------------------------------
(* The members of a channel *)

LEMMA MembersInSet ==
  ASSUME NEW s \in Seq(Routes)
  PROVE Members(s) \subseteq Routes
  BY DEF Members

LEMMA MembersOfNone == Members(<<>>) = {}
  BY DEF Members

\* A send adds what is sent.
LEMMA MembersSent ==
  ASSUME NEW s \in Seq(Routes), NEW m \in Routes
  PROVE /\ Append(s, m) \in Seq(Routes)
        /\ Len(Append(s, m)) = Len(s) + 1
        /\ Members(Append(s, m)) = Members(s) \cup {m}
<1>1. /\ Append(s, m) \in Seq(Routes) /\ Len(Append(s, m)) = Len(s) + 1 /\ Len(s) \in Nat
      /\ \A i \in 1 .. Len(s) : Append(s, m)[i] = s[i]
      /\ Append(s, m)[Len(s) + 1] = m
  OBVIOUS
<1>2. ASSUME NEW x PROVE x \in Members(Append(s, m)) <=> x \in Members(s) \cup {m}
  BY <1>1 DEF Members
<1>3. QED
  BY <1>1, <1>2

\* A receive of the first k divides what was in the channel.
LEMMA MembersReceived ==
  ASSUME NEW s \in Seq(Routes), NEW k \in 0 .. Len(s)
  PROVE /\ SubSeq(s, k + 1, Len(s)) \in Seq(Routes)
        /\ Len(SubSeq(s, k + 1, Len(s))) <= Len(s)
        /\ Members(s) = Members(SubSeq(s, 1, k)) \cup Members(SubSeq(s, k + 1, Len(s)))
<1> DEFINE first == SubSeq(s, 1, k)
           rest == SubSeq(s, k + 1, Len(s))
<1>1. /\ first \in Seq(Routes) /\ Len(first) = k
      /\ \A i \in 1 .. k : first[i] = s[i]
  BY SubSeqProperties
<1>2. /\ rest \in Seq(Routes) /\ Len(rest) = Len(s) - k
      /\ \A i \in 1 .. Len(s) - k : rest[i] = s[k + i]
  BY SubSeqProperties
<1>3. ASSUME NEW x \in Members(s) PROVE x \in Members(first) \cup Members(rest)
  <2>1. PICK i \in 1 .. Len(s) : x = s[i]
    BY DEF Members
  <2>2. CASE i <= k
    BY <1>1, <2>1, <2>2 DEF Members
  <2>3. CASE i > k
    <3>1. i - k \in 1 .. Len(rest) /\ rest[i - k] = s[i]
      BY <1>2, <2>3
    <3>2. QED
      BY <2>1, <3>1 DEF Members
  <2>4. QED
    BY <2>2, <2>3
<1>4. ASSUME NEW x \in Members(first) \cup Members(rest) PROVE x \in Members(s)
  <2>1. CASE x \in Members(first)
    BY <1>1, <2>1 DEF Members
  <2>2. CASE x \in Members(rest)
    <3>1. PICK i \in 1 .. Len(rest) : x = rest[i]
      BY <2>2 DEF Members
    <3>2. k + i \in 1 .. Len(s) /\ x = s[k + i]
      BY <1>2, <3>1
    <3>3. QED
      BY <3>2 DEF Members
  <2>3. QED
    BY <1>4, <2>1, <2>2
<1>5. QED
  BY <1>2, <1>3, <1>4

\* What the processor and the flush receive at a time.
LEMMA BatchFits ==
  ASSUME RegistryTypeOK
  PROVE Batch \in 0 .. Len(channel)
  BY RegistryAssumption DEF RegistryTypeOK, Batch

-----------------------------------------------------------------------------
(* The invariant *)

LEMMA InitIInv == RegistryInit => IInv
<1> SUFFICES ASSUME RegistryInit PROVE IInv
  OBVIOUS
<1>1. Members(channel) = {}
  BY MembersOfNone DEF RegistryInit
<1>2. channel \in Seq(Routes) /\ Len(channel) = 0
  BY DEF RegistryInit
<1>3. pooled \in 0 .. MaxPooled
  BY RegistryAssumption DEF RegistryInit
<1>4. RegistryTypeOK
  <2>1. batch \in [open : BOOLEAN, members : SUBSET Routes]
    BY DEF RegistryInit, NoBatch
  <2>2. flush \in [phase : {"none", "closed", "filtered", "locked"}, members : SUBSET Routes]
    BY DEF RegistryInit, NoFlush
  <2>3. /\ dpc \in [Deleters -> {"idle", "ask", "send", "remove", "mark"}]
        /\ darg \in [Deleters -> SUBSET Routes]
        /\ vpc \in [Events -> {"idle", "guard", "counted"}]
    BY DEF RegistryInit
  <2>4. Len(channel) <= Capacity
    BY <1>2, RegistryAssumption
  <2>5. QED
    BY <1>2, <1>3, <2>1, <2>2, <2>3, <2>4 DEF RegistryInit, RegistryTypeOK
<1>5. QED
  BY <1>1, <1>4
     DEF RegistryInit, NoBatch, NoFlush, IInv, OnlyBorn, EmptyHands, CarriersMarked, OnePlace,
         LockedCarried, EndInOrder, SettledAside, Stopped, Drained, Kept, Carried, Hands,
         RegistrationsNotLost

-----------------------------------------------------------------------------
(* Registration *)

LEMMA RegisterIInv ==
  ASSUME IInv, NEW m \in Routes, Register(m)
  PROVE IInv'
<1>1. CarriersMarked' /\ LockedCarried' /\ EndInOrder' /\ SettledAside'
  BY DEF IInv, Register, WriteMuFree, Collects, deletionVars, eventVars, RegistryTypeOK,
         CarriersMarked, EmptyHands, OnlyBorn, OnePlace, LockedCarried, Carried, Hands, EndInOrder,
         SettledAside, Stopped, Drained
<1>2. RegistryTypeOK'
  BY DEF IInv, Register, WriteMuFree, Collects, deletionVars, eventVars, RegistryTypeOK
<1>3. OnlyBorn'
  BY DEF IInv, Register, WriteMuFree, Collects, deletionVars, eventVars, RegistryTypeOK, OnlyBorn,
         CarriersMarked
<1>4. EmptyHands'
  BY DEF IInv, Register, WriteMuFree, Collects, deletionVars, eventVars, RegistryTypeOK, EmptyHands
<1>5. OnePlace'
  BY DEF IInv, Register, WriteMuFree, Collects, deletionVars, eventVars, RegistryTypeOK, OnlyBorn,
         OnePlace, EmptyHands, CarriersMarked
<1>6. Kept'
  BY DEF IInv, Register, WriteMuFree, Collects, deletionVars, eventVars, RegistryTypeOK, OnlyBorn,
         OnePlace, EmptyHands, LockedCarried, CarriersMarked, Kept, Carried, Hands
<1>7. RegistrationsNotLost'
  BY DEF IInv, Register, WriteMuFree, Collects, deletionVars, eventVars, RegistryTypeOK, OnePlace,
         EmptyHands, CarriersMarked, RegistrationsNotLost
<1>8. QED
  BY <1>1, <1>2, <1>3, <1>4, <1>5, <1>6, <1>7 DEF IInv

LEMMA BeginBatchIInv ==
  ASSUME IInv, BeginBatch
  PROVE IInv'
<1>1. /\ RegistryTypeOK' /\ OnlyBorn' /\ CarriersMarked' /\ OnePlace'
      /\ LockedCarried' /\ EndInOrder' /\ SettledAside' /\ Kept'
  BY DEF IInv, BeginBatch, WriteMuFree, deletionVars, eventVars, RegistryTypeOK, OnlyBorn,
         CarriersMarked, EmptyHands, OnePlace, LockedCarried, EndInOrder, SettledAside, Stopped,
         Drained, Kept, Carried, Hands
<1>2. EmptyHands'
  BY DEF IInv, BeginBatch, WriteMuFree, deletionVars, eventVars, RegistryTypeOK, EmptyHands
<1>3. RegistrationsNotLost'
  BY DEF IInv, BeginBatch, deletionVars, EmptyHands, RegistrationsNotLost
<1>4. QED
  BY <1>1, <1>2, <1>3 DEF IInv

LEMMA FlushCloseIInv ==
  ASSUME IInv, FlushClose
  PROVE IInv'
<1>1. RegistryTypeOK' /\ CarriersMarked' /\ LockedCarried' /\ EndInOrder' /\ SettledAside' /\ Kept'
  BY DEF IInv, FlushClose, NoBatch, deletionVars, eventVars, RegistryTypeOK, CarriersMarked,
         EmptyHands, OnlyBorn, OnePlace, LockedCarried, EndInOrder, SettledAside, Stopped, Drained,
         Kept, Carried, Hands
<1>2. OnlyBorn'
  BY DEF IInv, FlushClose, NoBatch, deletionVars, eventVars, RegistryTypeOK, OnlyBorn, CarriersMarked
<1>3. EmptyHands'
  BY DEF IInv, FlushClose, NoBatch, deletionVars, eventVars, RegistryTypeOK, EmptyHands
<1>4. OnePlace'
  BY DEF IInv, FlushClose, NoBatch, deletionVars, eventVars, RegistryTypeOK, OnlyBorn, OnePlace,
         EmptyHands, CarriersMarked
<1>5. RegistrationsNotLost'
  BY DEF IInv, FlushClose, NoBatch, deletionVars, eventVars, RegistryTypeOK, OnePlace, EmptyHands,
         CarriersMarked, RegistrationsNotLost
<1>6. QED
  BY <1>1, <1>2, <1>3, <1>4, <1>5 DEF IInv

LEMMA FlushFilterIInv ==
  ASSUME IInv, FlushFilter
  PROVE IInv'
<1>1. RegistryTypeOK' /\ CarriersMarked' /\ EndInOrder' /\ SettledAside' /\ Kept'
  BY DEF IInv, FlushFilter, Live, deletionVars, eventVars, RegistryTypeOK, CarriersMarked,
         EmptyHands, EndInOrder, SettledAside, Stopped, Drained, OnlyBorn, OnePlace, LockedCarried,
         Kept, Carried, Hands
<1>2. OnlyBorn'
  BY DEF IInv, FlushFilter, Live, deletionVars, eventVars, RegistryTypeOK, OnlyBorn, CarriersMarked
<1>3. EmptyHands'
  BY DEF IInv, FlushFilter, Live, deletionVars, eventVars, RegistryTypeOK, EmptyHands
<1>4. OnePlace'
  BY DEF IInv, FlushFilter, Live, deletionVars, eventVars, RegistryTypeOK, OnlyBorn, OnePlace,
         EmptyHands, CarriersMarked
<1>5. LockedCarried'
  BY DEF IInv, FlushFilter, Live, deletionVars, eventVars, RegistryTypeOK, OnlyBorn, OnePlace,
         LockedCarried, Carried, Hands, EmptyHands, CarriersMarked
<1>6. RegistrationsNotLost'
  BY DEF IInv, FlushFilter, Live, deletionVars, eventVars, RegistryTypeOK, OnePlace, EmptyHands,
         CarriersMarked, RegistrationsNotLost
<1>7. QED
  BY <1>1, <1>2, <1>3, <1>4, <1>5, <1>6 DEF IInv

LEMMA FlushRecheckIInv ==
  ASSUME IInv, FlushRecheck
  PROVE IInv'
<1>1. RegistryTypeOK' /\ CarriersMarked' /\ EndInOrder' /\ SettledAside' /\ Kept'
  BY DEF IInv, FlushRecheck, StillLive, Live, deletionVars, eventVars, RegistryTypeOK,
         CarriersMarked, EmptyHands, EndInOrder, SettledAside, Stopped, Drained, OnlyBorn, OnePlace,
         LockedCarried, Kept, Carried, Hands
<1>2. OnlyBorn'
  BY DEF IInv, FlushRecheck, StillLive, Live, deletionVars, eventVars, RegistryTypeOK, OnlyBorn,
         CarriersMarked
<1>3. EmptyHands'
  BY DEF IInv, FlushRecheck, StillLive, Live, deletionVars, eventVars, RegistryTypeOK, EmptyHands
<1>4. OnePlace'
  BY DEF IInv, FlushRecheck, StillLive, Live, deletionVars, eventVars, RegistryTypeOK, OnlyBorn,
         OnePlace, EmptyHands, CarriersMarked
\* What is marked has just been left out.
<1>5. LockedCarried'
  BY DEF IInv, FlushRecheck, StillLive, Live, RegistryTypeOK, LockedCarried, Carried, Hands
<1>6. RegistrationsNotLost'
  BY DEF IInv, FlushRecheck, StillLive, Live, deletionVars, eventVars, RegistryTypeOK, OnePlace,
         EmptyHands, CarriersMarked, RegistrationsNotLost
<1>7. QED
  BY <1>1, <1>2, <1>3, <1>4, <1>5, <1>6 DEF IInv

LEMMA FlushCommitIInv ==
  ASSUME IInv, FlushCommit
  PROVE IInv'
<1>1. RegistryTypeOK' /\ EmptyHands' /\ CarriersMarked' /\ LockedCarried' /\ EndInOrder' /\ SettledAside'
  BY DEF IInv, FlushCommit, NoFlush, deletionVars, eventVars, RegistryTypeOK, EmptyHands,
         CarriersMarked, OnlyBorn, OnePlace, LockedCarried, Carried, Hands, EndInOrder, SettledAside,
         Stopped, Drained
<1>2. OnlyBorn'
  BY DEF IInv, FlushCommit, NoFlush, deletionVars, eventVars, RegistryTypeOK, OnlyBorn,
         CarriersMarked
<1>3. OnePlace'
  BY DEF IInv, FlushCommit, NoFlush, deletionVars, eventVars, RegistryTypeOK, OnlyBorn, OnePlace,
         EmptyHands, CarriersMarked
<1>4. Kept'
  BY DEF IInv, FlushCommit, NoFlush, deletionVars, eventVars, RegistryTypeOK, OnlyBorn, OnePlace,
         EmptyHands, LockedCarried, CarriersMarked, Kept, Carried, Hands
<1>5. RegistrationsNotLost'
  BY DEF IInv, FlushCommit, NoFlush, deletionVars, eventVars, RegistryTypeOK, OnePlace, EmptyHands,
         CarriersMarked, RegistrationsNotLost
<1>6. QED
  BY <1>1, <1>2, <1>3, <1>4, <1>5 DEF IInv

-----------------------------------------------------------------------------
(* Deletion *)

LEMMA MarkIInv ==
  ASSUME IInv, NEW d \in Deleters, Mark(d)
  PROVE IInv'
<1>1. RegistryTypeOK' /\ EmptyHands' /\ EndInOrder' /\ SettledAside'
  BY DEF IInv, Mark, registryVars, eventVars, RegistryTypeOK, EmptyHands, EndInOrder, SettledAside,
         Stopped, Drained
<1>2. OnlyBorn'
  BY DEF IInv, Mark, registryVars, eventVars, RegistryTypeOK, OnlyBorn, CarriersMarked
<1>3. CarriersMarked'
  BY DEF IInv, Mark, registryVars, eventVars, RegistryTypeOK, CarriersMarked, EmptyHands
<1>4. OnePlace'
  BY DEF IInv, Mark, registryVars, eventVars, RegistryTypeOK, OnlyBorn, OnePlace, EmptyHands,
         CarriersMarked
<1>5. LockedCarried'
  BY DEF IInv, Mark, registryVars, eventVars, RegistryTypeOK, OnlyBorn, OnePlace, LockedCarried,
         Carried, Hands, EmptyHands, CarriersMarked
<1>6. Kept'
  BY DEF IInv, Mark, registryVars, eventVars, RegistryTypeOK, OnlyBorn, OnePlace, EmptyHands,
         LockedCarried, CarriersMarked, Kept, Carried, Hands
<1>7. RegistrationsNotLost'
  BY DEF IInv, Mark, registryVars, eventVars, RegistryTypeOK, OnePlace, EmptyHands, CarriersMarked,
         RegistrationsNotLost
<1>8. QED
  BY <1>1, <1>2, <1>3, <1>4, <1>5, <1>6, <1>7 DEF IInv

LEMMA AskIInv ==
  ASSUME IInv, NEW d \in Deleters, Ask(d)
  PROVE IInv'
<1>1. /\ RegistryTypeOK' /\ OnlyBorn' /\ EmptyHands' /\ LockedCarried'
      /\ EndInOrder' /\ SettledAside' /\ Kept' /\ RegistrationsNotLost'
  BY DEF IInv, Ask, registryVars, eventVars, RegistryTypeOK, OnlyBorn, CarriersMarked, EmptyHands,
         OnePlace, LockedCarried, EndInOrder, SettledAside, Stopped, Drained, Kept, Carried, Hands,
         RegistrationsNotLost
<1>2. CarriersMarked'
  BY DEF IInv, Ask, registryVars, eventVars, RegistryTypeOK, CarriersMarked, EmptyHands
<1>3. OnePlace'
  BY DEF IInv, Ask, registryVars, eventVars, RegistryTypeOK, OnlyBorn, OnePlace, EmptyHands,
         CarriersMarked
<1>4. QED
  BY <1>1, <1>2, <1>3 DEF IInv

LEMMA SendIInv ==
  ASSUME IInv, NEW d \in Deleters, Send(d)
  PROVE IInv'
<1>1. PICK m \in marked : darg[d] = {m}
  BY DEF IInv, Send, CarriersMarked
<1>2. m \in Routes /\ m \in born /\ channel \in Seq(Routes) /\ Len(channel) \in Nat
  BY <1>1 DEF IInv, RegistryTypeOK, OnlyBorn
<1>3. channel' = Append(channel, m)
  BY <1>1 DEF Send
<1>4. /\ channel' \in Seq(Routes) /\ Len(channel') <= Capacity
      /\ Members(channel)' = Members(channel) \cup {m}
  BY <1>2, <1>3, MembersSent, RegistryAssumption DEF Send
<1>5. RegistryTypeOK'
  BY <1>4 DEF IInv, Send, registryVars, eventVars, RegistryTypeOK
<1>6. OnlyBorn' /\ EmptyHands' /\ CarriersMarked' /\ OnePlace' /\ LockedCarried'
  BY <1>1, <1>2, <1>4
     DEF IInv, Send, registryVars, eventVars, RegistryTypeOK, OnlyBorn, EmptyHands, CarriersMarked,
         OnePlace, LockedCarried, Carried, Hands
\* What is sent after the end was sent after the processor had been told to stop.
<1>7. EndInOrder' /\ SettledAside'
  BY <1>1, <1>4 DEF IInv, Send, registryVars, eventVars, RegistryTypeOK, EndInOrder, SettledAside, Stopped, Drained
\* The matcher goes from the hand into the channel.
<1>8. Kept' /\ RegistrationsNotLost'
  BY <1>1, <1>4
     DEF IInv, Send, registryVars, eventVars, RegistryTypeOK, Kept, Carried, Hands,
         RegistrationsNotLost
<1>9. QED
  BY <1>5, <1>6, <1>7, <1>8 DEF IInv

LEMMA ChannelFullIInv ==
  ASSUME IInv, NEW d \in Deleters, ChannelFull(d)
  PROVE IInv'
<1>1. /\ RegistryTypeOK' /\ OnlyBorn' /\ EmptyHands' /\ LockedCarried'
      /\ EndInOrder' /\ SettledAside' /\ Kept' /\ RegistrationsNotLost'
  BY DEF IInv, ChannelFull, AfterFull, registryVars, eventVars, RegistryTypeOK, OnlyBorn,
         CarriersMarked, EmptyHands, OnePlace, LockedCarried, EndInOrder, SettledAside, Stopped,
         Drained, Kept, Carried, Hands, RegistrationsNotLost
<1>2. CarriersMarked'
  BY DEF IInv, ChannelFull, AfterFull, registryVars, eventVars, RegistryTypeOK, CarriersMarked,
         EmptyHands
<1>3. OnePlace'
  BY DEF IInv, ChannelFull, AfterFull, registryVars, eventVars, RegistryTypeOK, OnlyBorn, OnePlace,
         EmptyHands, CarriersMarked
<1>4. QED
  BY <1>1, <1>2, <1>3 DEF IInv

LEMMA RemoveIInv ==
  ASSUME IInv, NEW d \in Deleters, Remove(d)
  PROVE IInv'
<1>1. RegistryTypeOK' /\ OnlyBorn' /\ EmptyHands' /\ CarriersMarked' /\ LockedCarried' /\ EndInOrder' /\ SettledAside'
  BY DEF IInv, Remove, WriteMuFree, eventVars, RegistryTypeOK, OnlyBorn, CarriersMarked, EmptyHands,
         OnePlace, LockedCarried, Carried, Hands, EndInOrder, SettledAside, Stopped, Drained
<1>2. OnePlace'
  BY DEF IInv, Remove, WriteMuFree, eventVars, RegistryTypeOK, OnlyBorn, OnePlace, EmptyHands, CarriersMarked
<1>3. Kept'
  BY DEF IInv, Remove, WriteMuFree, eventVars, RegistryTypeOK, OnlyBorn, OnePlace, EmptyHands,
         LockedCarried, CarriersMarked, Kept, Carried, Hands
<1>4. RegistrationsNotLost'
  BY DEF IInv, Remove, WriteMuFree, eventVars, RegistryTypeOK, OnePlace, EmptyHands, CarriersMarked,
         RegistrationsNotLost
<1>5. QED
  BY <1>1, <1>2, <1>3, <1>4 DEF IInv

LEMMA RemoveAllIInv ==
  ASSUME IInv, NEW d \in Deleters, RemoveAll(d)
  PROVE IInv'
<1>1. RegistryTypeOK' /\ EmptyHands' /\ LockedCarried' /\ EndInOrder' /\ SettledAside'
  BY DEF IInv, RemoveAll, WriteMuFree, eventVars, RegistryTypeOK, EmptyHands, OnlyBorn, OnePlace,
         LockedCarried, Carried, Hands, CarriersMarked, EndInOrder, SettledAside, Stopped, Drained
<1>2. OnlyBorn'
  BY DEF IInv, RemoveAll, WriteMuFree, eventVars, RegistryTypeOK, OnlyBorn, CarriersMarked
<1>3. CarriersMarked'
  BY DEF IInv, RemoveAll, WriteMuFree, eventVars, RegistryTypeOK, CarriersMarked, EmptyHands
<1>4. OnePlace'
  BY DEF IInv, RemoveAll, WriteMuFree, eventVars, RegistryTypeOK, OnlyBorn, OnePlace, EmptyHands,
         CarriersMarked
<1>5. Kept'
  BY DEF IInv, RemoveAll, WriteMuFree, eventVars, RegistryTypeOK, OnlyBorn, OnePlace, EmptyHands,
         LockedCarried, CarriersMarked, Kept, Carried, Hands
<1>6. RegistrationsNotLost'
  BY DEF IInv, RemoveAll, WriteMuFree, eventVars, RegistryTypeOK, OnePlace, EmptyHands,
         CarriersMarked, RegistrationsNotLost
<1>7. QED
  BY <1>1, <1>2, <1>3, <1>4, <1>5, <1>6 DEF IInv

LEMMA MarkAllIInv ==
  ASSUME IInv, NEW d \in Deleters, MarkAll(d)
  PROVE IInv'
<1>1. RegistryTypeOK' /\ EmptyHands' /\ CarriersMarked' /\ EndInOrder' /\ SettledAside'
  BY DEF IInv, MarkAll, registryVars, eventVars, RegistryTypeOK, EmptyHands, CarriersMarked,
         EndInOrder, SettledAside, Stopped, Drained
<1>2. OnlyBorn'
  BY DEF IInv, MarkAll, registryVars, eventVars, RegistryTypeOK, OnlyBorn, CarriersMarked
<1>3. OnePlace'
  BY DEF IInv, MarkAll, registryVars, eventVars, RegistryTypeOK, OnlyBorn, OnePlace, EmptyHands,
         CarriersMarked
<1>4. LockedCarried'
  BY DEF IInv, MarkAll, registryVars, eventVars, RegistryTypeOK, OnlyBorn, OnePlace, LockedCarried,
         Carried, Hands, EmptyHands, CarriersMarked
<1>5. Kept'
  BY DEF IInv, MarkAll, registryVars, eventVars, RegistryTypeOK, OnlyBorn, OnePlace, EmptyHands,
         LockedCarried, CarriersMarked, Kept, Carried, Hands
<1>6. RegistrationsNotLost'
  BY DEF IInv, MarkAll, registryVars, eventVars, RegistryTypeOK, OnePlace, EmptyHands,
         CarriersMarked, RegistrationsNotLost
<1>7. QED
  BY <1>1, <1>2, <1>3, <1>4, <1>5, <1>6 DEF IInv

-----------------------------------------------------------------------------
(* The processor *)

LEMMA TickIInv ==
  ASSUME IInv, Tick
  PROVE IInv'
<1>1. Batch \in 0 .. Len(channel) /\ channel \in Seq(Routes)
  BY BatchFits DEF IInv, RegistryTypeOK
<1>2. /\ channel' \in Seq(Routes) /\ Len(channel') <= Len(channel) /\ Len(channel') \in Nat
      /\ Members(channel) = taken' \cup Members(channel)'
  BY <1>1, MembersReceived DEF Tick
<1>3. taken' \subseteq Routes
  BY <1>1, <1>2, MembersInSet
<1>4. RegistryTypeOK'
  BY <1>2, <1>3, RegistryAssumption DEF IInv, Tick, registryVars, eventVars, RegistryTypeOK
<1>5. OnlyBorn' /\ EmptyHands' /\ CarriersMarked' /\ OnePlace' /\ LockedCarried' /\ EndInOrder' /\ SettledAside'
  BY <1>2
     DEF IInv, Tick, registryVars, eventVars, RegistryTypeOK, OnlyBorn, EmptyHands, CarriersMarked,
         OnePlace, LockedCarried, Carried, Hands, EndInOrder, SettledAside, Stopped, Drained
<1>6. Kept' /\ RegistrationsNotLost'
  BY <1>2
     DEF IInv, Tick, registryVars, eventVars, RegistryTypeOK, Kept, Carried, Hands,
         RegistrationsNotLost
<1>7. QED
  BY <1>4, <1>5, <1>6 DEF IInv

LEMMA TickRemoveIInv ==
  ASSUME IInv, TickRemove
  PROVE IInv'
<1>1. RegistryTypeOK' /\ EmptyHands' /\ OnePlace' /\ LockedCarried' /\ EndInOrder' /\ SettledAside'
  BY DEF IInv, TickRemove, WriteMuFree, eventVars, RegistryTypeOK, EmptyHands, OnlyBorn, OnePlace,
         CarriersMarked, LockedCarried, Carried, Hands, EndInOrder, SettledAside, Stopped, Drained
<1>2. OnlyBorn'
  BY DEF IInv, TickRemove, WriteMuFree, eventVars, RegistryTypeOK, OnlyBorn, CarriersMarked
<1>3. CarriersMarked'
  BY DEF IInv, TickRemove, WriteMuFree, eventVars, RegistryTypeOK, CarriersMarked, EmptyHands
<1>4. Kept'
  BY DEF IInv, TickRemove, WriteMuFree, eventVars, RegistryTypeOK, OnlyBorn, OnePlace, EmptyHands,
         LockedCarried, CarriersMarked, Kept, Carried, Hands
<1>5. RegistrationsNotLost'
  BY DEF IInv, TickRemove, WriteMuFree, eventVars, RegistryTypeOK, OnePlace, EmptyHands,
         CarriersMarked, RegistrationsNotLost
<1>6. QED
  BY <1>1, <1>2, <1>3, <1>4, <1>5 DEF IInv

LEMMA ProcessorExitIInv ==
  ASSUME IInv, ProcessorExit
  PROVE IInv'
<1>1. /\ OnlyBorn' /\ CarriersMarked' /\ OnePlace' /\ LockedCarried'
      /\ EndInOrder' /\ SettledAside' /\ Kept' /\ RegistrationsNotLost'
  BY DEF IInv, ProcessorExit, registryVars, eventVars, RegistryTypeOK, OnlyBorn, CarriersMarked,
         EmptyHands, OnePlace, LockedCarried, EndInOrder, SettledAside, Stopped, Drained, Kept,
         Carried, Hands, RegistrationsNotLost
<1>2. RegistryTypeOK'
  BY DEF IInv, ProcessorExit, registryVars, eventVars, RegistryTypeOK
<1>3. EmptyHands'
  BY DEF IInv, ProcessorExit, registryVars, eventVars, RegistryTypeOK, EmptyHands
<1>4. QED
  BY <1>1, <1>2, <1>3 DEF IInv

-----------------------------------------------------------------------------
(* Events *)

LEMMA EnterIInv ==
  ASSUME IInv, NEW v \in Events, Enter(v)
  PROVE IInv'
<1>1. /\ RegistryTypeOK' /\ OnlyBorn' /\ EmptyHands' /\ CarriersMarked'
      /\ OnePlace' /\ LockedCarried' /\ EndInOrder' /\ SettledAside'
      /\ Kept' /\ RegistrationsNotLost'
  BY DEF IInv, Enter, registryVars, deletionVars, RegistryTypeOK, OnlyBorn, CarriersMarked,
         EmptyHands, OnePlace, LockedCarried, EndInOrder, SettledAside, Stopped, Drained, Kept,
         Carried, Hands, RegistrationsNotLost
<1>2. QED
  BY <1>1 DEF IInv

LEMMA GuardIInv ==
  ASSUME IInv, NEW v \in Events, Guard(v)
  PROVE IInv'
<1>1. /\ RegistryTypeOK' /\ OnlyBorn' /\ EmptyHands' /\ CarriersMarked'
      /\ OnePlace' /\ LockedCarried' /\ EndInOrder' /\ SettledAside'
      /\ Kept' /\ RegistrationsNotLost'
  BY DEF IInv, Guard, StillOpen, registryVars, deletionVars, RegistryTypeOK, OnlyBorn,
         CarriersMarked, EmptyHands, OnePlace, LockedCarried, EndInOrder, SettledAside, Stopped,
         Drained, Kept, Carried, Hands, RegistrationsNotLost
<1>2. QED
  BY <1>1 DEF IInv

LEMMA SubmitIInv ==
  ASSUME IInv, NEW v \in Events, Submit(v)
  PROVE IInv'
<1>1. OnlyBorn' /\ EmptyHands' /\ CarriersMarked' /\ OnePlace' /\ LockedCarried' /\ Kept' /\ RegistrationsNotLost'
  BY DEF IInv, Submit, registryVars, deletionVars, RegistryTypeOK, OnlyBorn, CarriersMarked,
         EmptyHands, OnePlace, LockedCarried, Kept, Carried, Hands, RegistrationsNotLost
<1>2. RegistryTypeOK'
  BY RegistryAssumption DEF IInv, Submit, registryVars, deletionVars, RegistryTypeOK
<1>3. EndInOrder' /\ SettledAside'
  BY DEF IInv, Submit, registryVars, deletionVars, RegistryTypeOK, EndInOrder, SettledAside, Stopped, Drained
<1>4. QED
  BY <1>1, <1>2, <1>3 DEF IInv

LEMMA EventDoneIInv ==
  ASSUME IInv, NEW v \in Events, EventDone(v)
  PROVE IInv'
<1>1. /\ RegistryTypeOK' /\ OnlyBorn' /\ EmptyHands' /\ CarriersMarked'
      /\ OnePlace' /\ LockedCarried' /\ EndInOrder' /\ SettledAside'
      /\ Kept' /\ RegistrationsNotLost'
  BY DEF IInv, EventDone, registryVars, deletionVars, RegistryTypeOK, OnlyBorn, CarriersMarked,
         EmptyHands, OnePlace, LockedCarried, EndInOrder, SettledAside, Stopped, Drained, Kept,
         Carried, Hands, RegistrationsNotLost
<1>2. QED
  BY <1>1 DEF IInv

LEMMA PooledDoneIInv ==
  ASSUME IInv, PooledDone
  PROVE IInv'
<1>1. OnlyBorn' /\ EmptyHands' /\ CarriersMarked' /\ OnePlace' /\ LockedCarried' /\ Kept' /\ RegistrationsNotLost'
  BY DEF IInv, PooledDone, registryVars, deletionVars, RegistryTypeOK, OnlyBorn, CarriersMarked,
         EmptyHands, OnePlace, LockedCarried, Kept, Carried, Hands, RegistrationsNotLost
<1>2. RegistryTypeOK'
  BY RegistryAssumption DEF IInv, PooledDone, registryVars, deletionVars, RegistryTypeOK
<1>3. EndInOrder' /\ SettledAside'
  BY DEF IInv, PooledDone, registryVars, deletionVars, RegistryTypeOK, EndInOrder, SettledAside,
         Stopped, Drained
<1>4. QED
  BY <1>1, <1>2, <1>3 DEF IInv

-----------------------------------------------------------------------------
(* Shutdown *)

LEMMA ShutIInv ==
  ASSUME IInv, Shut
  PROVE IInv'
<1>1. /\ RegistryTypeOK' /\ OnlyBorn' /\ EmptyHands' /\ CarriersMarked'
      /\ OnePlace' /\ LockedCarried' /\ EndInOrder' /\ SettledAside'
      /\ Kept' /\ RegistrationsNotLost'
  BY DEF IInv, Shut, registryVars, deletionVars, eventVars, RegistryTypeOK, OnlyBorn, CarriersMarked,
         EmptyHands, OnePlace, LockedCarried, EndInOrder, SettledAside, Stopped, Drained, Kept,
         Carried, Hands, RegistrationsNotLost
<1>2. QED
  BY <1>1 DEF IInv

LEMMA StopAllIInv ==
  ASSUME IInv, StopAll
  PROVE IInv'
<1>1. RegistryTypeOK'
  BY DEF IInv, StopAll, StopProcessor, registryVars, eventVars, RegistryTypeOK
<1>2. OnlyBorn' /\ EmptyHands' /\ CarriersMarked' /\ OnePlace'
  BY DEF IInv, StopAll, registryVars, OnlyBorn, CarriersMarked, EmptyHands, OnePlace
<1>3. LockedCarried'
  BY DEF IInv, StopAll, registryVars, LockedCarried, Carried, Hands
<1>4. EndInOrder' /\ SettledAside'
  BY DEF IInv, StopAll, StopProcessor, registryVars, eventVars, RegistryTypeOK, EndInOrder,
         SettledAside, Stopped, Drained
<1>5. Kept'
  BY DEF IInv, StopAll, StopProcessor, registryVars, eventVars, RegistryTypeOK, OnlyBorn, OnePlace,
         EmptyHands, LockedCarried, CarriersMarked, Kept, Carried, Hands
<1>6. RegistrationsNotLost'
  BY DEF IInv, StopAll, StopProcessor, registryVars, eventVars, RegistryTypeOK, OnePlace, EmptyHands,
         CarriersMarked, RegistrationsNotLost
<1>7. QED
  BY <1>1, <1>2, <1>3, <1>4, <1>5, <1>6 DEF IInv

LEMMA EventsOverIInv ==
  ASSUME IInv, EventsOver
  PROVE IInv'
<1>1. /\ RegistryTypeOK' /\ OnlyBorn' /\ EmptyHands' /\ CarriersMarked'
      /\ OnePlace' /\ LockedCarried' /\ EndInOrder' /\ SettledAside'
      /\ Kept' /\ RegistrationsNotLost'
  BY DEF IInv, EventsOver, registryVars, deletionVars, RegistryTypeOK, OnlyBorn, CarriersMarked,
         EmptyHands, OnePlace, LockedCarried, EndInOrder, SettledAside, Stopped, Drained, Kept,
         Carried, Hands, RegistrationsNotLost
<1>2. QED
  BY <1>1 DEF IInv

LEMMA PoolDrainedIInv ==
  ASSUME IInv, PoolDrained
  PROVE IInv'
<1>1. /\ RegistryTypeOK' /\ OnlyBorn' /\ EmptyHands' /\ CarriersMarked'
      /\ OnePlace' /\ LockedCarried' /\ EndInOrder' /\ SettledAside'
      /\ Kept' /\ RegistrationsNotLost'
  BY DEF IInv, PoolDrained, AfterPool, registryVars, deletionVars, eventVars, RegistryTypeOK,
         OnlyBorn, CarriersMarked, EmptyHands, OnePlace, LockedCarried, EndInOrder, SettledAside,
         Stopped, Drained, Kept, Carried, Hands, RegistrationsNotLost
<1>2. QED
  BY <1>1 DEF IInv

LEMMA GiveUpIInv ==
  ASSUME IInv, GiveUp
  PROVE IInv'
<1>1. /\ RegistryTypeOK' /\ OnlyBorn' /\ EmptyHands' /\ CarriersMarked'
      /\ OnePlace' /\ LockedCarried' /\ EndInOrder' /\ SettledAside'
      /\ Kept' /\ RegistrationsNotLost'
  BY DEF IInv, GiveUp, registryVars, deletionVars, eventVars, RegistryTypeOK, OnlyBorn,
         CarriersMarked, EmptyHands, OnePlace, LockedCarried, EndInOrder, SettledAside, Stopped,
         Drained, Kept, Carried, Hands, RegistrationsNotLost
<1>2. QED
  BY <1>1 DEF IInv

LEMMA FlushTakeIInv ==
  ASSUME IInv, FlushTake
  PROVE IInv'
<1>1. Batch \in 0 .. Len(channel) /\ channel \in Seq(Routes)
  BY BatchFits DEF IInv, RegistryTypeOK
<1>2. /\ channel' \in Seq(Routes) /\ Len(channel') <= Len(channel) /\ Len(channel') \in Nat
      /\ Members(channel) = flushing' \cup Members(channel)'
  BY <1>1, MembersReceived DEF FlushTake
<1>3. flushing' \subseteq Routes
  BY <1>1, <1>2, MembersInSet
<1>4. RegistryTypeOK'
  BY <1>2, <1>3, RegistryAssumption DEF IInv, FlushTake, registryVars, eventVars, RegistryTypeOK
<1>5. OnlyBorn' /\ EmptyHands' /\ CarriersMarked' /\ OnePlace' /\ LockedCarried' /\ EndInOrder' /\ SettledAside'
  BY <1>2
     DEF IInv, FlushTake, registryVars, eventVars, RegistryTypeOK, OnlyBorn, EmptyHands,
         CarriersMarked, OnePlace, LockedCarried, Carried, Hands, EndInOrder, SettledAside, Stopped,
         Drained
\* Nothing was in the hands that Shutdown fills.
<1>6. Kept' /\ RegistrationsNotLost'
  BY <1>2
     DEF IInv, FlushTake, registryVars, eventVars, RegistryTypeOK, EmptyHands, Kept, Carried, Hands,
         RegistrationsNotLost
<1>7. QED
  BY <1>4, <1>5, <1>6 DEF IInv

LEMMA FlushRemoveIInv ==
  ASSUME IInv, FlushRemove
  PROVE IInv'
<1>1. RegistryTypeOK' /\ EmptyHands' /\ OnePlace' /\ LockedCarried'
  BY DEF IInv, FlushRemove, WriteMuFree, eventVars, RegistryTypeOK, EmptyHands, OnlyBorn, OnePlace,
         CarriersMarked, LockedCarried, Carried, Hands
<1>2. OnlyBorn'
  BY DEF IInv, FlushRemove, WriteMuFree, eventVars, RegistryTypeOK, OnlyBorn, CarriersMarked
<1>3. CarriersMarked'
  BY DEF IInv, FlushRemove, WriteMuFree, eventVars, RegistryTypeOK, CarriersMarked, EmptyHands
<1>4. EndInOrder' /\ SettledAside'
  BY DEF IInv, FlushRemove, WriteMuFree, eventVars, RegistryTypeOK, EndInOrder, SettledAside, Stopped, Drained
<1>5. Kept'
  BY DEF IInv, FlushRemove, WriteMuFree, eventVars, RegistryTypeOK, OnlyBorn, OnePlace, EmptyHands,
         LockedCarried, CarriersMarked, Kept, Carried, Hands
<1>6. RegistrationsNotLost'
  BY DEF IInv, FlushRemove, WriteMuFree, eventVars, RegistryTypeOK, OnePlace, EmptyHands,
         CarriersMarked, RegistrationsNotLost
<1>7. QED
  BY <1>1, <1>2, <1>3, <1>4, <1>5, <1>6 DEF IInv

LEMMA FlushLoopIInv ==
  ASSUME IInv, FlushLoop
  PROVE IInv'
<1>1. EndInOrder' /\ SettledAside'
  BY MembersOfNone
     DEF IInv, FlushLoop, registryVars, deletionVars, eventVars, RegistryTypeOK, EndInOrder,
         SettledAside, Stopped, Drained
<1>2. RegistryTypeOK' /\ OnlyBorn' /\ EmptyHands' /\ CarriersMarked' /\ OnePlace' /\ LockedCarried'
  BY DEF IInv, FlushLoop, registryVars, deletionVars, eventVars, RegistryTypeOK, OnlyBorn,
         EmptyHands, CarriersMarked, OnePlace, LockedCarried, Carried, Hands
<1>3. Kept' /\ RegistrationsNotLost'
  BY DEF IInv, FlushLoop, registryVars, deletionVars, eventVars, Kept, Carried, Hands,
         RegistrationsNotLost
<1>4. QED
  BY <1>1, <1>2, <1>3 DEF IInv

-----------------------------------------------------------------------------
LEMMA StutterIInv ==
  ASSUME IInv, UNCHANGED engineVars
  PROVE IInv'
  BY DEF IInv, engineVars, registryVars, deletionVars, eventVars, RegistryTypeOK, OnlyBorn,
         EmptyHands, CarriersMarked, OnePlace, LockedCarried, EndInOrder, SettledAside, Stopped, Drained,
         Kept, Carried, Hands, RegistrationsNotLost

LEMMA NextIInv == IInv /\ [RegistryNext]_engineVars => IInv'
<1> SUFFICES ASSUME IInv, [RegistryNext]_engineVars PROVE IInv'
  OBVIOUS
<1>1. CASE Registration
  BY <1>1, RegisterIInv, BeginBatchIInv, FlushCloseIInv, FlushFilterIInv, FlushRecheckIInv,
     FlushCommitIInv
     DEF Registration
<1>2. ASSUME NEW d \in Deleters, Deletion(d) PROVE IInv'
  BY <1>2, MarkIInv, AskIInv, SendIInv, ChannelFullIInv, RemoveIInv, RemoveAllIInv, MarkAllIInv
     DEF Deletion
<1>3. CASE Processor
  BY <1>3, TickIInv, TickRemoveIInv, ProcessorExitIInv DEF Processor
<1>4. ASSUME NEW v \in Events, Event(v) PROVE IInv'
  BY <1>4, EnterIInv, GuardIInv, SubmitIInv, EventDoneIInv DEF Event
<1>5. CASE Shutdown
  BY <1>5, ShutIInv, StopAllIInv, EventsOverIInv, PoolDrainedIInv, GiveUpIInv, FlushTakeIInv,
     FlushRemoveIInv, FlushLoopIInv
     DEF Shutdown
<1>6. QED
  BY <1>1, <1>2, <1>3, <1>4, <1>5, PooledDoneIInv, StutterIInv DEF RegistryNext

LEMMA RegistryInvariant == RegistrySpec => []IInv
  BY InitIInv, NextIInv, PTL DEF RegistrySpec

-----------------------------------------------------------------------------
(* The results *)

\* The variables keep their types (engine.go, engine_matcher_ops.go, process.go).
THEOREM RegistryTypes == RegistrySpec => []RegistryTypeOK
<1>1. IInv => RegistryTypeOK
  BY DEF IInv
<1>2. QED
  BY <1>1, RegistryInvariant, PTL

\* A matcher that is marked and still in the state has somebody who will remove it
\* (engine_matcher_ops.go:68-100, engine_register_batch.go:50-83).
THEOREM DeletionsAreKept == RegistrySpec => []DeletionsNotLost
<1>1. IInv => DeletionsNotLost
  BY DEF IInv, Kept, Carried, EndInOrder, DeletionsNotLost, Awaited
<1>2. QED
  BY <1>1, RegistryInvariant, PTL

\* What was registered and never deleted is in the state, or will be put there
\* (engine_matcher_ops.go:152-176, engine_register_batch.go:57-83).
THEOREM RegistrationsAreKept == RegistrySpec => []RegistrationsNotLost
<1>1. IInv => RegistrationsNotLost
  BY DEF IInv
<1>2. QED
  BY <1>1, RegistryInvariant, PTL

\* After Shutdown has returned nil nothing runs any more (engine.go:205-253).
THEOREM QuietAfterShutdown == RegistrySpec => []ShutdownQuiet
<1>1. IInv => ShutdownQuiet
  BY DEF IInv, EndInOrder, Stopped, Drained, ShutdownQuiet
<1>2. QED
  BY <1>1, RegistryInvariant, PTL

\* Nor is a matcher left whose deletion had returned when Shutdown was called,
\* unless the goroutine of the processor holds it (engine.go:246-249).
THEOREM NoMarkedAfterShutdown == RegistrySpec => []ShutdownRemovesMarked
<1>1. IInv => ShutdownRemovesMarked
  <2> SUFFICES ASSUME IInv, spc = "done", NEW m \in settled \cap inState
               PROVE m \in taken
    BY DEF ShutdownRemovesMarked
  <2>1. m \in taken \cup UNION {darg[d] : d \in Deleters}
    BY DEF IInv, EmptyHands, SettledAside, Kept, Carried, Hands
  <2>2. ASSUME NEW d \in Deleters PROVE m \notin darg[d]
    BY DEF IInv, RegistryTypeOK, EmptyHands, OnePlace, SettledAside
  <2>3. QED
    BY <2>1, <2>2
<1>2. QED
  BY <1>1, RegistryInvariant, PTL
-----------------------------------------------------------------------------
(* The chains of middleware                                                *)
(*                                                                         *)
(* Use, UseForGroup and the resets replace the state first and invalidate  *)
(* the caches last.  What was read with a generation that is still current *)
(* is current itself, unless a reset has come in between.  Whoever stores  *)
(* another chain for the present version is still to validate it, or to    *)
(* store one more, or the loop over the matchers is still to come.         *)

Writers == {"all", "group"}
Building == {"idle", "load", "ensure", "get", "version", "store", "validate"}

CombinedChain == [all : Nat, group : Nat, local : Nat]
Entry == [chain : Nat, gen : Nat]
Middleware == [all : Entry, group : Entry]
SnapshotPair == [all : Entry, group : Entry, old : BOOLEAN]
Cached == [chain : CombinedChain \cup {NoChain}, all : Nat, group : Nat, old : BOOLEAN]
CompiledChain == [chain : CombinedChain \cup {NoChain}, handler : Nat, version : Nat,
                  spent : BOOLEAN, old : BOOLEAN, behind : BOOLEAN]
Build == [snap : SnapshotPair, handler : Nat, from : Cached, version : Nat, attempt : Nat, behind : BOOLEAN]
ChangeRecord == [kind : Kinds \cup {"none"}, to : BOOLEAN, snap : SnapshotPair]

ChainTypeOK ==
  /\ mw \in Middleware /\ mw.all.gen >= 1 /\ (mw.group.gen = 0 => mw.group = NoEntry)
  /\ grouped \in BOOLEAN /\ indexed \in BOOLEAN
  /\ own \in [handler : Nat, local : Nat]
  /\ combined \in Cached /\ version \in Nat
  /\ compiled \in CompiledChain \cup {NoChain}
  /\ changes \in Nat
  /\ cpc \in [Changers -> {"idle", "index", "rebuild", "ensure"} \cup Writers]
  /\ change \in [Changers -> ChangeRecord]
  /\ ipc \in [Invokers -> Building]
  /\ build \in [Invokers -> Build]

\* While a matcher is given its group, nobody builds and nothing compiled runs.
LanesInv ==
  /\ \A c \in Changers : cpc[c] = "index" => change[c].kind = "SetMatcherGroup" /\ change[c].to = grouped
  /\ Grouping => NoBuildPending /\ ~Hit
  /\ indexed = grouped \/ \E c \in Changers : cpc[c] = "index"

\* Chains read with generations that are current are current.
Agrees(a, ag, g, gg) ==
  /\ ag <= Snapshots.all.gen /\ (ag = Snapshots.all.gen => a = Snapshots.all.chain)
  /\ gg <= Snapshots.group.gen /\ (gg = Snapshots.group.gen => g = Snapshots.group.chain)
SnapAgrees(s) == s.old \/ Agrees(s.all.chain, s.all.gen, s.group.chain, s.group.gen)
CacheAgrees(x) ==
  IF x.chain = NoChain THEN x.all = 0 ELSE x.old \/ Agrees(x.chain.all, x.all, x.chain.group, x.group)

AgreesInv ==
  /\ \A c \in Changers : cpc[c] = "ensure" => SnapAgrees(change[c].snap)
  /\ \A i \in Invokers : ipc[i] = "ensure" => SnapAgrees(build[i].snap)
  /\ CacheAgrees(combined)
  /\ \A i \in Invokers : ipc[i] \in {"version", "store", "validate"} => CacheAgrees(build[i].from)

\* What was made for the present version, and not behind it, holds the handler
\* and the middleware that the matcher has of its own.
Answers(v, behind, handler, chain) ==
  /\ v <= version
  /\ v = version /\ ~behind => handler = own.handler /\ (chain # NoChain => chain.local = own.local)

VersionInv ==
  /\ compiled # NoChain => Answers(compiled.version, compiled.behind, compiled.handler, compiled.chain)
  /\ \A i \in Invokers :
       /\ ipc[i] \in {"store", "validate"} =>
            Answers(build[i].version, build[i].behind, build[i].handler, build[i].from.chain)
       /\ ipc[i] \in {"version", "store", "validate"} => build[i].attempt <= Attempts

\* Who will see to it that another chain does not stay.
Reaches(c) == cpc[c] = "all" \/ (cpc[c] = "group" /\ indexed)
WillStore(i) == ipc[i] \in {"load", "ensure", "get", "version", "store"} /\ build[i].attempt <= Attempts
WillValidate(i) == ipc[i] = "validate" /\ compiled = Stored(build[i])
Attended ==
  \/ \E c \in Changers : Reaches(c)
  \/ \E i \in Invokers : WillStore(i) \/ WillValidate(i)
CurrentInv ==
  Hit /\ ~compiled.spent /\ ~compiled.old /\ ~compiled.behind => CompiledIsCurrent \/ Attended

ChainInv == ChainTypeOK /\ LanesInv /\ AgreesInv /\ VersionInv /\ CurrentInv
-----------------------------------------------------------------------------
LEMMA SnapshotsTyped ==
  ASSUME ChainTypeOK
  PROVE  /\ Snapshots \in SnapshotPair /\ ~Snapshots.old
         /\ Snapshots.all = mw.all /\ Snapshots.group = IF grouped THEN mw.group ELSE NoEntry
         /\ Snapshots.all.gen >= 1
<1>1. NoEntry \in Entry
  BY DEF NoEntry, Entry
<1> QED BY <1>1 DEF ChainTypeOK, Snapshots, SnapshotPair, Middleware

LEMMA NoneTyped ==
  /\ Empty \in Cached /\ NoBuild \in Build /\ NoChange \in ChangeRecord
  /\ NoBuild.snap \in SnapshotPair
<1>1. NoEntry \in Entry
  BY DEF NoEntry, Entry
<1>2. Empty \in Cached
  BY DEF Empty, Cached
<1>3. [all |-> NoEntry, group |-> NoEntry, old |-> FALSE] \in SnapshotPair
  BY <1>1 DEF SnapshotPair
<1>4. NoBuild \in Build /\ NoBuild.snap \in SnapshotPair
  BY <1>2, <1>3 DEF NoBuild, Build
<1> QED BY <1>2, <1>4 DEF NoChange, ChangeRecord

\* The generations stay or move on.
Advances ==
  /\ Snapshots'.all = Snapshots.all \/ Snapshots'.all.gen > Snapshots.all.gen
  /\ Snapshots'.group = Snapshots.group \/ Snapshots'.group.gen > Snapshots.group.gen

LEMMA AgreesKept ==
  ASSUME ChainTypeOK, ChainTypeOK', Advances,
         NEW a \in Nat, NEW ag \in Nat, NEW g \in Nat, NEW gg \in Nat, Agrees(a, ag, g, gg)
  PROVE  Agrees(a, ag, g, gg)'
<1>1. Snapshots \in SnapshotPair /\ Snapshots' \in SnapshotPair
  BY DEF ChainTypeOK, Snapshots, SnapshotPair, Middleware, NoEntry, Entry
<1> QED BY <1>1 DEF Agrees, Advances, SnapshotPair, Entry

LEMMA SnapKept ==
  ASSUME ChainTypeOK, ChainTypeOK', Advances, NEW s \in SnapshotPair, SnapAgrees(s)
  PROVE  SnapAgrees(s)'
BY AgreesKept DEF SnapAgrees, SnapshotPair, Entry

LEMMA CacheKept ==
  ASSUME ChainTypeOK, ChainTypeOK', Advances, NEW x \in Cached, CacheAgrees(x)
  PROVE  CacheAgrees(x)'
<1>1. CASE x.chain = NoChain \/ x.old
  BY <1>1 DEF CacheAgrees
<1>2. CASE x.chain # NoChain /\ ~x.old
  <2>1. x.chain \in CombinedChain /\ x.all \in Nat /\ x.group \in Nat
    BY <1>2 DEF Cached
  <2>2. x.chain.all \in Nat /\ x.chain.group \in Nat
    BY <2>1 DEF CombinedChain
  <2>3. Agrees(x.chain.all, x.all, x.chain.group, x.group)'
    BY <1>2, <2>1, <2>2, AgreesKept DEF CacheAgrees
  <2> QED BY <1>2, <2>3 DEF CacheAgrees
<1> QED BY <1>1, <1>2

LEMMA SnapshotsAgree ==
  ASSUME ChainTypeOK
  PROVE  SnapAgrees(Snapshots)
<1>1. Snapshots \in SnapshotPair
  BY SnapshotsTyped
<1> QED BY <1>1 DEF SnapAgrees, Agrees, SnapshotPair, Entry

\* While nothing that Snapshots reads changes.
LEMMA Untouched ==
  ASSUME mw' = mw, grouped' = grouped
  PROVE  Snapshots' = Snapshots /\ Advances
BY DEF Snapshots, Advances

\* What agreed with the snapshots still does, as far as it is kept.
LEMMA KeptAgrees ==
  ASSUME ChainTypeOK, ChainTypeOK', AgreesInv, Advances
  PROVE  /\ \A d \in Changers :
              cpc[d] = "ensure" /\ change'[d].snap = change[d].snap => SnapAgrees(change[d].snap)'
         /\ \A i \in Invokers :
              ipc[i] = "ensure" /\ build'[i].snap = build[i].snap => SnapAgrees(build[i].snap)'
         /\ \A i \in Invokers :
              ipc[i] \in {"version", "store", "validate"} /\ build'[i].from = build[i].from
              => CacheAgrees(build[i].from)'
         /\ combined' = combined => CacheAgrees(combined)'
<1>1. ASSUME NEW d \in Changers, cpc[d] = "ensure", change'[d].snap = change[d].snap
      PROVE  SnapAgrees(change[d].snap)'
  <2>1. PICK s \in SnapshotPair : s = change[d].snap
    BY DEF ChainTypeOK, ChangeRecord
  <2>2. SnapAgrees(s) /\ change'[d].snap = s
    BY <1>1, <2>1 DEF AgreesInv
  <2> QED BY <2>2, SnapKept
<1>2. ASSUME NEW i \in Invokers, ipc[i] = "ensure", build'[i].snap = build[i].snap
      PROVE  SnapAgrees(build[i].snap)'
  <2>1. PICK s \in SnapshotPair : s = build[i].snap
    BY DEF ChainTypeOK, Build
  <2>2. SnapAgrees(s) /\ build'[i].snap = s
    BY <1>2, <2>1 DEF AgreesInv
  <2> QED BY <2>2, SnapKept
<1>3. ASSUME NEW i \in Invokers, ipc[i] \in {"version", "store", "validate"}, build'[i].from = build[i].from
      PROVE  CacheAgrees(build[i].from)'
  <2>1. PICK x \in Cached : x = build[i].from
    BY DEF ChainTypeOK, Build
  <2>2. CacheAgrees(x) /\ build'[i].from = x
    BY <1>3, <2>1 DEF AgreesInv
  <2> QED BY <2>2, CacheKept
<1>4. ASSUME combined' = combined
      PROVE  CacheAgrees(combined)'
  <2>1. PICK x \in Cached : x = combined
    BY DEF ChainTypeOK
  <2>2. CacheAgrees(x) /\ combined' = x
    BY <1>4, <2>1 DEF AgreesInv
  <2> QED BY <2>2, CacheKept
<1> QED BY <1>1, <1>2, <1>3, <1>4

\* The version moves on whenever the matcher's own changes.
VersionMoves == version' >= version /\ (own' = own \/ version' > version)

LEMMA AnswersKept ==
  ASSUME ChainTypeOK, ChainTypeOK', VersionMoves,
         NEW v \in Nat, NEW b, NEW h, NEW ch, Answers(v, b, h, ch)
  PROVE  Answers(v, b, h, ch)'
BY DEF Answers, VersionMoves, ChainTypeOK

\* What a build has read of the matcher's own.
OfBuild(b) == <<b.version, b.behind, b.handler, b.attempt, b.from.chain>>

LEMMA VersionKept ==
  ASSUME ChainTypeOK, ChainTypeOK', VersionInv, VersionMoves
  PROVE  /\ compiled' = compiled /\ compiled' # NoChain =>
              Answers(compiled.version, compiled.behind, compiled.handler, compiled.chain)'
         /\ \A i \in Invokers :
              ipc'[i] = ipc[i] /\ OfBuild(build'[i]) = OfBuild(build[i]) =>
                /\ ipc'[i] \in {"store", "validate"} =>
                     Answers(build[i].version, build[i].behind, build[i].handler, build[i].from.chain)'
                /\ ipc'[i] \in {"version", "store", "validate"} => build'[i].attempt <= Attempts
<1>1. ASSUME compiled' = compiled, compiled' # NoChain
      PROVE  Answers(compiled.version, compiled.behind, compiled.handler, compiled.chain)'
  <2>1. PICK x \in CompiledChain : x = compiled
    BY <1>1 DEF ChainTypeOK
  <2>2. x.version \in Nat
    BY DEF CompiledChain
  <2>3. Answers(x.version, x.behind, x.handler, x.chain)
    BY <1>1, <2>1 DEF VersionInv
  <2>4. Answers(x.version, x.behind, x.handler, x.chain)'
    BY <2>2, <2>3, AnswersKept
  <2> QED BY <1>1, <2>1, <2>4
<1>2. ASSUME NEW i \in Invokers, ipc'[i] = ipc[i], OfBuild(build'[i]) = OfBuild(build[i]),
             ipc'[i] \in {"store", "validate"}
      PROVE  Answers(build[i].version, build[i].behind, build[i].handler, build[i].from.chain)'
  <2>1. PICK b \in Build : b = build[i]
    BY DEF ChainTypeOK
  <2>2. b.version \in Nat
    BY DEF Build
  <2>3. Answers(b.version, b.behind, b.handler, b.from.chain)
    BY <1>2, <2>1 DEF VersionInv
  <2>4. Answers(b.version, b.behind, b.handler, b.from.chain)'
    BY <2>2, <2>3, AnswersKept
  <2>5. /\ build'[i].version = b.version /\ build'[i].behind = b.behind /\ build'[i].handler = b.handler
        /\ build'[i].from.chain = b.from.chain
    BY <1>2, <2>1 DEF OfBuild
  <2> QED BY <2>4, <2>5
<1>3. ASSUME NEW i \in Invokers, ipc'[i] = ipc[i], OfBuild(build'[i]) = OfBuild(build[i]),
             ipc'[i] \in {"version", "store", "validate"}
      PROVE  build'[i].attempt <= Attempts
  BY <1>3 DEF VersionInv, OfBuild
<1> QED BY <1>1, <1>2, <1>3

\* What is compiled for another version stays out of use.
LEMMA MissStays ==
  ASSUME ChainTypeOK, ChainTypeOK', VersionInv, version' >= version,
         compiled' = compiled \/ compiled' = NoChain, ~Hit \/ version' > version
  PROVE  ~Hit'
<1>1. CASE compiled' = NoChain
  BY <1>1 DEF Hit
<1>2. CASE compiled' = compiled /\ compiled # NoChain
  <2>1. compiled.version \in Nat /\ compiled.version <= version
    BY <1>2 DEF ChainTypeOK, CompiledChain, VersionInv, Answers
  <2> QED BY <1>2, <2>1 DEF Hit, ChainTypeOK
<1> QED BY <1>1, <1>2

\* Where nobody who attends goes away.
LEMMA CurrentKept ==
  ASSUME CurrentInv, UNCHANGED <<own, compiled, version, ipc, build>>, Snapshots' = Snapshots,
         \A d \in Changers : Reaches(d) => Reaches(d)'
  PROVE  CurrentInv'
<1>1. /\ CompiledIsCurrent' <=> CompiledIsCurrent
      /\ Hit' <=> Hit
      /\ \A i \in Invokers : WillStore(i) \/ WillValidate(i) => WillStore(i)' \/ WillValidate(i)'
  BY DEF CompiledIsCurrent, Current, Hit, WillStore, WillValidate
<1>2. Attended => Attended'
  BY <1>1 DEF Attended
<1> QED BY <1>1, <1>2 DEF CurrentInv

-----------------------------------------------------------------------------
LEMMA ChainBegins == ChainInit => ChainInv
<1> SUFFICES ASSUME ChainInit PROVE ChainInv
  OBVIOUS
<1>1. ChainTypeOK
  BY NoneTyped DEF ChainInit, ChainTypeOK, Middleware, Entry, NoEntry, Building
<1>2. LanesInv
  BY DEF ChainInit, LanesInv, Grouping, NoChange
<1>3. AgreesInv
  BY DEF ChainInit, AgreesInv, CacheAgrees, Empty
<1>4. VersionInv
  BY DEF ChainInit, VersionInv
<1>5. CurrentInv
  BY DEF ChainInit, CurrentInv, Hit
<1> QED BY <1>1, <1>2, <1>3, <1>4, <1>5 DEF ChainInv

-----------------------------------------------------------------------------
(* Changes begin *)

\* What a change records of itself.
LEMMA ChangeNamed ==
  ASSUME ChainTypeOK, NEW c \in Changers, NEW kind \in Kinds, NEW to \in {"index", "rebuild"} \cup Writers,
         Begins(c, to), change' = [change EXCEPT ![c].kind = kind]
  PROVE  /\ change' \in [Changers -> ChangeRecord] /\ change'[c].kind = kind
         /\ cpc' \in [Changers -> {"idle", "index", "rebuild", "ensure"} \cup Writers] /\ cpc'[c] = to
         /\ \A d \in Changers \ {c} : cpc'[d] = cpc[d] /\ change'[d] = change[d]
         /\ changes' \in Nat /\ New \in Nat /\ cpc[c] = "idle"
<1>1. [change[c] EXCEPT !.kind = kind] \in ChangeRecord /\ [change[c] EXCEPT !.kind = kind].kind = kind
  BY DEF ChainTypeOK, ChangeRecord
<1>2. change' = [change EXCEPT ![c] = [change[c] EXCEPT !.kind = kind]]
  OBVIOUS
<1> QED BY <1>1, <1>2 DEF ChainTypeOK, Begins, New

\* A new state of the middleware: the loop over the matchers reaches this one, or
\* nothing changes for it.
LEMMA ReplaceKeeps ==
  ASSUME ChainInv, ChainTypeOK', NEW c \in Changers, NEW scope \in Writers, NEW new,
         Replace(c, new, scope),
         scope = "group" /\ ~grouped => Snapshots' = Snapshots /\ build' = build,
         change'[c].kind # "SetMatcherGroup",
         \A d \in Changers \ {c} : change'[d].kind = change[d].kind /\ change'[d].to = change[d].to,
         \A i \in Invokers : OfBuild(build'[i]) = OfBuild(build[i])
  PROVE  LanesInv' /\ VersionInv' /\ CurrentInv'
<1>1. ChainTypeOK /\ LanesInv /\ VersionInv /\ CurrentInv
  BY DEF ChainInv
<1>2. /\ UNCHANGED <<grouped, indexed, own, version, compiled, ipc>>
      /\ cpc[c] = "idle" /\ cpc'[c] = scope /\ \A d \in Changers \ {c} : cpc'[d] = cpc[d]
  BY <1>1 DEF Replace, Begins, ChainTypeOK
<1>3. LanesInv'
  <2>1. Grouping' => Grouping
    BY <1>2 DEF Grouping
  <2>2. NoBuildPending' <=> NoBuildPending
    BY <1>2 DEF NoBuildPending
  <2>3. Hit' <=> Hit
    BY <1>2 DEF Hit
  <2> QED BY <1>1, <1>2, <2>1, <2>2, <2>3 DEF LanesInv, Writers
<1>4. VersionInv'
  <2>1. VersionMoves
    BY <1>1, <1>2 DEF VersionMoves, ChainTypeOK
  <2> QED BY <1>1, <1>2, <2>1, VersionKept DEF VersionInv
<1>5. CurrentInv'
  <2>1. CASE scope = "all" \/ indexed
    BY <1>2, <2>1 DEF CurrentInv, Attended, Reaches, Writers
  <2>2. CASE scope = "group" /\ ~indexed /\ grouped
    <3>1. ~Hit
      BY <1>1, <2>2 DEF LanesInv, Grouping
    <3> QED BY <1>2, <3>1 DEF CurrentInv, Hit
  <2>3. CASE scope = "group" /\ ~indexed /\ ~grouped
    <3>1. \A d \in Changers : Reaches(d) => Reaches(d)'
      BY <1>2 DEF Reaches
    <3> QED BY <1>1, <1>2, <2>3, <3>1, CurrentKept
  <2> QED BY <2>1, <2>2, <2>3 DEF Writers
<1> QED BY <1>3, <1>4, <1>5

\* What has been added, as others read it.
LEMMA UseAdvances ==
  ASSUME ChainTypeOK, NEW c \in Changers, Use(c) \/ UseForGroup(c)
  PROVE  /\ Advances
         /\ UseForGroup(c) /\ ~grouped => Snapshots' = Snapshots
         /\ mw' \in Middleware /\ mw'.all.gen >= 1 /\ (mw'.group.gen = 0 => mw'.group = NoEntry)
<1>1. mw.all \in Entry /\ mw.group \in Entry /\ New \in Nat
  BY DEF ChainTypeOK, Middleware, New
<1>2. CASE Use(c)
  <2>1. mw' = [mw EXCEPT !.all = [chain |-> New, gen |-> mw.all.gen + 1]] /\ grouped' = grouped
    BY <1>2 DEF Use, Add, Replace
  <2>2. mw'.all = [chain |-> New, gen |-> mw.all.gen + 1] /\ mw'.group = mw.group
    BY <2>1 DEF ChainTypeOK, Middleware
  <2>3. mw' \in Middleware
    BY <1>1, <2>1 DEF ChainTypeOK, Middleware, Entry
  <2>4. ~UseForGroup(c)
    BY <1>1, <2>2 DEF UseForGroup, Add, Replace, ChainTypeOK, Middleware, Entry
  <2> QED BY <1>1, <2>1, <2>2, <2>3, <2>4 DEF Advances, Snapshots, ChainTypeOK, Entry
<1>3. CASE UseForGroup(c)
  <2> DEFINE gen == IF mw.group.gen = 0 THEN 2 ELSE mw.group.gen + 1
  <2>1. mw' = [mw EXCEPT !.group = [chain |-> New, gen |-> gen]] /\ grouped' = grouped
    BY <1>3 DEF UseForGroup, Add, Replace
  <2>2. gen \in Nat /\ gen > mw.group.gen /\ gen # 0
    BY <1>1 DEF Entry
  <2> HIDE DEF gen
  <2>3. mw'.group = [chain |-> New, gen |-> gen] /\ mw'.all = mw.all
    BY <2>1 DEF ChainTypeOK, Middleware
  <2>4. mw' \in Middleware
    BY <1>1, <2>1, <2>2 DEF ChainTypeOK, Middleware, Entry
  <2>5. mw'.all.gen >= 1 /\ mw'.group.gen # 0
    BY <2>2, <2>3 DEF ChainTypeOK
  <2>6. Snapshots'.all = mw.all /\ Snapshots'.group = IF grouped THEN mw'.group ELSE NoEntry
    BY <2>1, <2>3 DEF Snapshots
  <2>7. mw'.group.gen > mw.group.gen
    BY <2>2, <2>3
  <2>8. Advances
    BY <2>6, <2>7 DEF Advances, Snapshots
  <2>9. ~grouped => Snapshots' = Snapshots
    BY <2>1, <2>3 DEF Snapshots
  <2> QED BY <2>4, <2>5, <2>8, <2>9
<1> QED BY <1>2, <1>3

LEMMA UseInv ==
  ASSUME ChainInv, NEW c \in Changers, Use(c) \/ UseForGroup(c)
  PROVE  ChainInv'
<1>1. PICK kind \in {"Use", "UseForGroup"}, scope \in Writers :
        /\ \E new : Replace(c, new, scope)
        /\ change' = [change EXCEPT ![c].kind = kind]
        /\ scope = "group" => UseForGroup(c)
  BY DEF Use, UseForGroup, Add, Writers
<1>2. UNCHANGED <<grouped, indexed, own, combined, version, compiled, ipc, build>>
  BY DEF Use, UseForGroup, Add, Replace
<1>3. ChainTypeOK
  BY DEF ChainInv
<1>4. /\ Advances /\ (UseForGroup(c) /\ ~grouped => Snapshots' = Snapshots)
      /\ mw' \in Middleware /\ mw'.all.gen >= 1 /\ (mw'.group.gen = 0 => mw'.group = NoEntry)
  BY <1>3, UseAdvances
<1>5. /\ change' \in [Changers -> ChangeRecord] /\ change'[c].kind = kind
      /\ cpc' \in [Changers -> {"idle", "index", "rebuild", "ensure"} \cup Writers] /\ cpc'[c] = scope
      /\ \A d \in Changers \ {c} : cpc'[d] = cpc[d] /\ change'[d] = change[d]
      /\ changes' \in Nat
  <2>1. kind \in Kinds /\ scope \in {"index", "rebuild"} \cup Writers /\ Begins(c, scope)
    BY <1>1 DEF Kinds, Replace
  <2> QED BY <1>1, <1>3, <2>1, ChangeNamed
<1>6. ChainTypeOK'
  BY <1>2, <1>3, <1>4, <1>5 DEF ChainTypeOK
<1>7. LanesInv' /\ VersionInv' /\ CurrentInv'
  BY <1>1, <1>2, <1>4, <1>5, <1>6, ReplaceKeeps
<1>8. AgreesInv'
  <2>1. \A d \in Changers : cpc'[d] = "ensure" => cpc[d] = "ensure" /\ change'[d] = change[d]
    BY <1>5 DEF Writers
  <2>2. AgreesInv
    BY DEF ChainInv
  <2> QED BY <1>2, <1>3, <1>4, <1>6, <2>1, <2>2, KeptAgrees DEF AgreesInv
<1> QED BY <1>6, <1>7, <1>8 DEF ChainInv

\* What a reset makes old keeps its form, and agrees with everything.
LEMMA AgedTyped ==
  /\ \A s \in SnapshotPair : Aged(s) \in SnapshotPair /\ SnapAgrees(Aged(s))
  /\ \A x \in Cached : /\ Aged(x) \in Cached /\ Aged(x).chain = x.chain
                       /\ CacheAgrees(x) => CacheAgrees(Aged(x))
<1>1. ASSUME NEW s \in SnapshotPair PROVE Aged(s) \in SnapshotPair /\ Aged(s).old
  BY DEF Aged, SnapshotPair
<1>2. ASSUME NEW x \in Cached
      PROVE  Aged(x) \in Cached /\ Aged(x).old /\ Aged(x).chain = x.chain /\ Aged(x).all = x.all
  BY DEF Aged, Cached
<1> QED BY <1>1, <1>2 DEF SnapAgrees, CacheAgrees

LEMMA ResetTyped ==
  ASSUME ChainTypeOK, NEW c \in Changers, NEW scope \in Writers, NEW new, Discard(c, new, scope),
         new \in Middleware, new.all.gen >= 1, new.group.gen = 0 => new.group = NoEntry
  PROVE  /\ ChainTypeOK' /\ change'[c].kind = "Reset"
         /\ \A d \in Changers \ {c} : change'[d].kind = change[d].kind /\ change'[d].to = change[d].to
         /\ \A i \in Invokers : OfBuild(build'[i]) = OfBuild(build[i])
<1>1. /\ mw' = new /\ UNCHANGED <<grouped, indexed, own, version, compiled, ipc>>
      /\ cpc' = [cpc EXCEPT ![c] = scope] /\ changes' \in Nat
  BY DEF Discard, Replace, Begins, New, ChainTypeOK
<1>2. combined' \in Cached
  BY AgedTyped DEF Discard, ChainTypeOK
<1>3. /\ change' \in [Changers -> ChangeRecord] /\ change'[c].kind = "Reset"
      /\ \A d \in Changers \ {c} : change'[d].kind = change[d].kind /\ change'[d].to = change[d].to
  <2>1. ASSUME NEW d \in Changers, NEW k \in Kinds
        PROVE  [change[d] EXCEPT !.kind = k] \in ChangeRecord /\ [change[d] EXCEPT !.kind = k].kind = k
    BY DEF ChainTypeOK, ChangeRecord
  <2>2. ASSUME NEW d \in Changers
        PROVE  LET r == [change[d] EXCEPT !.snap = Aged(change[d].snap)]
               IN  r \in ChangeRecord /\ r.kind = change[d].kind /\ r.to = change[d].to
    <3>1. Aged(change[d].snap) \in SnapshotPair
      BY AgedTyped DEF ChainTypeOK, ChangeRecord
    <3> QED BY <3>1 DEF ChainTypeOK, ChangeRecord
  <2>3. CASE scope = "group" /\ ~grouped
    <3>1. change' = [change EXCEPT ![c] = [change[c] EXCEPT !.kind = "Reset"]]
      BY <2>3 DEF Discard
    <3> QED BY <2>1, <3>1 DEF ChainTypeOK, Kinds
  <2>4. CASE ~(scope = "group" /\ ~grouped)
    <3>1. change' = [d \in Changers |->
               IF d = c THEN [change[d] EXCEPT !.kind = "Reset"]
               ELSE IF cpc[d] = "ensure" THEN [change[d] EXCEPT !.snap = Aged(change[d].snap)] ELSE change[d]]
      BY <2>4 DEF Discard
    <3> QED BY <2>1, <2>2, <3>1 DEF ChainTypeOK, Kinds
  <2> QED BY <2>3, <2>4
<1>4. build' \in [Invokers -> Build] /\ \A i \in Invokers : OfBuild(build'[i]) = OfBuild(build[i])
  <2>1. ASSUME NEW i \in Invokers
        PROVE  LET r == [build[i] EXCEPT !.snap = Aged(build[i].snap)]
               IN  r \in Build /\ OfBuild(r) = OfBuild(build[i])
    <3>1. Aged(build[i].snap) \in SnapshotPair
      BY AgedTyped DEF ChainTypeOK, Build
    <3> QED BY <3>1 DEF ChainTypeOK, Build, OfBuild
  <2>2. ASSUME NEW i \in Invokers
        PROVE  LET r == [build[i] EXCEPT !.from = Aged(build[i].from)]
               IN  r \in Build /\ OfBuild(r) = OfBuild(build[i])
    <3>1. Aged(build[i].from) \in Cached /\ Aged(build[i].from).chain = build[i].from.chain
      BY AgedTyped DEF ChainTypeOK, Build
    <3> QED BY <3>1 DEF ChainTypeOK, Build, OfBuild
  <2>3. CASE scope = "group" /\ ~grouped
    BY <2>3 DEF Discard, ChainTypeOK
  <2>4. CASE ~(scope = "group" /\ ~grouped)
    <3>1. build' = [i \in Invokers |->
               IF ipc[i] = "ensure" THEN [build[i] EXCEPT !.snap = Aged(build[i].snap)]
               ELSE IF ipc[i] \in {"version", "store", "validate"} THEN [build[i] EXCEPT !.from = Aged(build[i].from)]
               ELSE build[i]]
      BY <2>4 DEF Discard
    <3> QED BY <2>1, <2>2, <3>1 DEF ChainTypeOK
  <2> QED BY <2>3, <2>4
<1> QED BY <1>1, <1>2, <1>3, <1>4 DEF ChainTypeOK

\* The resets: what was read before them is old, or they change nothing here.
LEMMA ResetInv ==
  ASSUME ChainInv, NEW c \in Changers, ResetMiddlewares(c) \/ ResetGroupMiddleware(c)
  PROVE  ChainInv'
<1>1. ChainTypeOK /\ AgreesInv
  BY DEF ChainInv
<1>2. PICK scope \in Writers, new \in Middleware :
        /\ Discard(c, new, scope) /\ new.all.gen >= 1 /\ (new.group.gen = 0 => new.group = NoEntry)
        /\ scope = "group" => new = [mw EXCEPT !.group = NoEntry]
  <2>1. CASE ResetMiddlewares(c)
    <3>1. [all |-> [chain |-> 0, gen |-> 1], group |-> NoEntry] \in Middleware
      BY DEF Middleware, Entry, NoEntry
    <3> QED BY <2>1, <3>1 DEF ResetMiddlewares, Writers
  <2>2. CASE ResetGroupMiddleware(c)
    <3>1. /\ [mw EXCEPT !.group = NoEntry] \in Middleware /\ [mw EXCEPT !.group = NoEntry].group = NoEntry
          /\ [mw EXCEPT !.group = NoEntry].all = mw.all
      BY <1>1 DEF ChainTypeOK, Middleware, Entry, NoEntry
    <3> QED BY <1>1, <2>2, <3>1 DEF ResetGroupMiddleware, Writers, ChainTypeOK
  <2> QED BY <2>1, <2>2
<1>3. /\ ChainTypeOK' /\ change'[c].kind = "Reset"
      /\ \A d \in Changers \ {c} : change'[d].kind = change[d].kind /\ change'[d].to = change[d].to
      /\ \A i \in Invokers : OfBuild(build'[i]) = OfBuild(build[i])
  BY <1>1, <1>2, ResetTyped
<1>4. /\ Replace(c, new, scope) /\ mw' = new /\ UNCHANGED <<grouped, ipc>>
      /\ cpc'[c] = scope /\ \A d \in Changers \ {c} : cpc'[d] = cpc[d]
  BY <1>1, <1>2 DEF Discard, Replace, Begins, ChainTypeOK
<1>5. scope = "group" /\ ~grouped => Snapshots' = Snapshots /\ build' = build
  <2> SUFFICES ASSUME scope = "group", ~grouped PROVE Snapshots' = Snapshots /\ build' = build
    OBVIOUS
  <2>1. mw'.all = mw.all
    BY <1>1, <1>2, <1>4 DEF ChainTypeOK, Middleware
  <2> QED BY <1>2, <1>4, <2>1 DEF Snapshots, Discard
<1>6. LanesInv' /\ VersionInv' /\ CurrentInv'
  BY <1>2, <1>3, <1>4, <1>5, ReplaceKeeps
<1>7. AgreesInv'
  <2>1. CASE scope = "group" /\ ~grouped
    <3>1. combined' = combined /\ build' = build /\ Advances
      BY <1>2, <1>5, <2>1 DEF Discard, Advances
    <3>2. \A d \in Changers : cpc'[d] = "ensure" => cpc[d] = "ensure" /\ change'[d] = change[d]
      BY <1>1, <1>2, <1>4, <2>1 DEF Discard, Writers, ChainTypeOK
    <3> QED BY <1>1, <1>3, <1>4, <3>1, <3>2, KeptAgrees DEF AgreesInv
  <2>2. CASE ~(scope = "group" /\ ~grouped)
    <3>1. ASSUME NEW d \in Changers, cpc'[d] = "ensure" PROVE change'[d].snap.old
      <4>1. d # c /\ cpc[d] = "ensure"
        BY <1>4, <3>1 DEF Writers
      <4>2. change'[d] = [change[d] EXCEPT !.snap = Aged(change[d].snap)]
        BY <1>2, <2>2, <4>1 DEF Discard
      <4>3. change[d] \in ChangeRecord /\ change[d].snap \in SnapshotPair
        BY <1>1 DEF ChainTypeOK, ChangeRecord
      <4> QED BY <4>2, <4>3 DEF Aged, ChangeRecord, SnapshotPair
    <3>2. ASSUME NEW i \in Invokers, ipc'[i] = "ensure" PROVE build'[i].snap.old
      <4>1. build'[i] = [build[i] EXCEPT !.snap = Aged(build[i].snap)]
        BY <1>2, <1>4, <2>2, <3>2 DEF Discard
      <4>2. build[i] \in Build /\ build[i].snap \in SnapshotPair
        BY <1>1 DEF ChainTypeOK, Build
      <4> QED BY <4>1, <4>2 DEF Aged, Build, SnapshotPair
    <3>3. ASSUME NEW x \in Cached, CacheAgrees(x)
          PROVE  CacheAgrees(Aged(x))' /\ (x.chain = NoChain => CacheAgrees(x)')
      BY <3>3 DEF Aged, Cached, CacheAgrees
    <3>4. CacheAgrees(combined)'
      <4>1. PICK x \in Cached : x = combined
        BY <1>1 DEF ChainTypeOK
      <4>2. combined' = IF x.chain = NoChain THEN x ELSE Aged(x)
        BY <1>2, <2>2, <4>1 DEF Discard
      <4>3. CacheAgrees(x)
        BY <1>1, <4>1 DEF AgreesInv
      <4> QED BY <3>3, <4>2, <4>3
    <3>5. ASSUME NEW i \in Invokers, ipc'[i] \in {"version", "store", "validate"}
          PROVE  CacheAgrees(build[i].from)'
      <4>1. PICK x \in Cached : x = build[i].from
        BY <1>1 DEF ChainTypeOK, Build
      <4>2. build'[i] = [build[i] EXCEPT !.from = Aged(x)]
        BY <1>2, <1>4, <2>2, <3>5, <4>1 DEF Discard
      <4>3. build'[i].from = Aged(x)
        BY <1>1, <4>2 DEF ChainTypeOK, Build
      <4>4. CacheAgrees(x)
        BY <1>1, <1>4, <3>5, <4>1 DEF AgreesInv
      <4> QED BY <3>3, <4>3, <4>4
    <3> QED BY <3>1, <3>2, <3>4, <3>5 DEF AgreesInv, SnapAgrees
  <2> QED BY <2>1, <2>2
<1> QED BY <1>3, <1>6, <1>7 DEF ChainInv

\* Matcher.Use, Matcher.Handle and SetMatcherGroup: what was compiled is not run
\* any more.
LEMMA OwnChangeTyped ==
  ASSUME ChainTypeOK, NEW c \in Changers, UseLocal(c) \/ Handle(c) \/ SetMatcherGroup(c)
  PROVE  /\ ChainTypeOK' /\ version' > version /\ (compiled' = compiled \/ compiled' = NoChain)
         /\ combined' = Empty \/ (combined' = combined /\ grouped' = grouped)
         /\ UNCHANGED <<mw, indexed, ipc, build>> /\ cpc[c] = "idle" /\ cpc'[c] \in {"index", "rebuild"}
         /\ \A d \in Changers \ {c} : cpc'[d] = cpc[d] /\ change'[d] = change[d]
         /\ SetMatcherGroup(c) => /\ cpc'[c] = "index" /\ change'[c].kind = "SetMatcherGroup"
                                  /\ change'[c].to = grouped'
         /\ ~SetMatcherGroup(c) => /\ cpc'[c] = "rebuild" /\ change'[c].kind # "SetMatcherGroup"
                                   /\ grouped' = grouped
<1>1. PICK kind \in {"UseLocal", "Handle", "SetMatcherGroup"}, to \in {"index", "rebuild"} :
        /\ Begins(c, to) /\ (to = "index" <=> kind = "SetMatcherGroup")
        /\ kind = "SetMatcherGroup" => SetMatcherGroup(c)
        /\ kind # "SetMatcherGroup" =>
             change' = [change EXCEPT ![c].kind = kind] /\ grouped' = grouped
  BY DEF UseLocal, Handle, SetMatcherGroup
<1>2. /\ UNCHANGED <<mw, indexed, ipc, build>> /\ version' = version + 1
      /\ own' \in [handler : Nat, local : Nat] /\ combined' \in Cached
      /\ compiled' = NoChain \/ compiled' = compiled
      /\ combined' = Empty \/ (combined' = combined /\ grouped' = grouped)
  BY NoneTyped DEF UseLocal, Handle, SetMatcherGroup, invokerVars, Invalidate, ChainTypeOK, New
<1>3. /\ change' \in [Changers -> ChangeRecord] /\ change'[c].kind = kind
      /\ cpc' \in [Changers -> {"idle", "index", "rebuild", "ensure"} \cup Writers] /\ cpc'[c] = to
      /\ \A d \in Changers \ {c} : cpc'[d] = cpc[d] /\ change'[d] = change[d]
      /\ changes' \in Nat /\ grouped' \in BOOLEAN /\ cpc[c] = "idle"
      /\ to = "index" => change'[c].to = grouped'
      /\ to # "index" => grouped' = grouped
  <2>1. CASE kind # "SetMatcherGroup"
    <3>1. kind \in Kinds /\ to \in {"index", "rebuild"} \cup Writers
      BY DEF Kinds
    <3> QED BY <1>1, <2>1, <3>1, ChangeNamed DEF ChainTypeOK
  <2>2. CASE kind = "SetMatcherGroup"
    <3>1. /\ change' = [change EXCEPT ![c].kind = "SetMatcherGroup", ![c].to = ~grouped]
          /\ grouped' = ~grouped /\ Begins(c, "index")
      BY <1>1, <2>2 DEF SetMatcherGroup
    <3> DEFINE x == [change[c] EXCEPT !.kind = "SetMatcherGroup", !.to = ~grouped]
    <3>2. x \in ChangeRecord /\ x.kind = "SetMatcherGroup" /\ x.to = ~grouped
      BY DEF ChainTypeOK, ChangeRecord, Kinds
    <3>3. change' = [change EXCEPT ![c] = x]
      BY <3>1 DEF ChainTypeOK
    <3> HIDE DEF x
    <3>4. cpc' = [cpc EXCEPT ![c] = "index"] /\ changes' \in Nat /\ cpc[c] = "idle"
      BY <3>1 DEF Begins, New, ChainTypeOK
    <3> QED BY <1>1, <2>2, <3>1, <3>2, <3>3, <3>4 DEF ChainTypeOK
  <2> QED BY <2>1, <2>2
<1>4. ChainTypeOK'
  BY <1>2, <1>3 DEF ChainTypeOK
<1>5. SetMatcherGroup(c) => to = "index"
  <2>1. SetMatcherGroup(c) => Begins(c, "index")
    BY DEF SetMatcherGroup
  <2> QED BY <1>1, <2>1 DEF Begins, ChainTypeOK
<1> QED BY <1>1, <1>2, <1>3, <1>4, <1>5 DEF ChainTypeOK

LEMMA OwnChangeInv ==
  ASSUME ChainInv, NEW c \in Changers, UseLocal(c) \/ Handle(c) \/ SetMatcherGroup(c)
  PROVE  ChainInv'
<1>1. ChainTypeOK /\ LanesInv /\ AgreesInv /\ VersionInv
  BY DEF ChainInv
<1>2. /\ ChainTypeOK' /\ version' > version /\ (compiled' = compiled \/ compiled' = NoChain)
      /\ combined' = Empty \/ (combined' = combined /\ grouped' = grouped)
      /\ UNCHANGED <<mw, indexed, ipc, build>> /\ cpc[c] = "idle" /\ cpc'[c] \in {"index", "rebuild"}
      /\ \A d \in Changers \ {c} : cpc'[d] = cpc[d] /\ change'[d] = change[d]
      /\ SetMatcherGroup(c) => /\ cpc'[c] = "index" /\ change'[c].kind = "SetMatcherGroup"
                               /\ change'[c].to = grouped'
      /\ ~SetMatcherGroup(c) => /\ cpc'[c] = "rebuild" /\ change'[c].kind # "SetMatcherGroup"
                                /\ grouped' = grouped
  BY <1>1, OwnChangeTyped
<1>3. VersionMoves
  BY <1>1, <1>2 DEF VersionMoves, ChainTypeOK
<1>4. ~Hit'
  BY <1>1, <1>2, <1>3, MissStays DEF VersionMoves
<1>5. LanesInv'
  <2>1. CASE SetMatcherGroup(c)
    <3>1. NoBuildPending' /\ \A d \in Changers \ {c} : cpc'[d] # "index"
      BY <1>2, <2>1 DEF SetMatcherGroup, NoBuildPending
    <3> QED BY <1>2, <1>4, <2>1, <3>1 DEF LanesInv
  <2>2. CASE ~SetMatcherGroup(c)
    <3>1. ~Grouping
      BY <2>2 DEF UseLocal, Handle
    <3>2. ~Grouping'
      BY <1>2, <2>2, <3>1 DEF Grouping
    <3>3. indexed' = grouped' /\ \A d \in Changers : cpc'[d] # "index"
      BY <1>1, <1>2, <2>2, <3>1 DEF LanesInv, Grouping
    <3> QED BY <3>2, <3>3 DEF LanesInv
  <2> QED BY <2>1, <2>2
<1>6. AgreesInv'
  <2>1. CASE SetMatcherGroup(c)
    <3>1. /\ \A i \in Invokers : ipc'[i] = "idle"
          /\ \A d \in Changers : cpc'[d] # "ensure"
          /\ combined' = Empty
      BY <1>2, <2>1 DEF SetMatcherGroup, NoBuildPending, Invalidate
    <3> QED BY <3>1 DEF AgreesInv, CacheAgrees, Empty
  <2>2. CASE ~SetMatcherGroup(c)
    <3>1. Advances
      BY <1>2, <2>2, Untouched
    <3>2. CacheAgrees(combined)'
      <4>1. CASE combined' = Empty
        BY <4>1 DEF CacheAgrees, Empty
      <4> QED BY <1>1, <1>2, <3>1, <4>1, KeptAgrees
    <3>3. \A d \in Changers : cpc'[d] = "ensure" => cpc[d] = "ensure" /\ change'[d] = change[d]
      BY <1>2, <2>2
    <3> QED BY <1>1, <1>2, <3>1, <3>2, <3>3, KeptAgrees DEF AgreesInv
  <2> QED BY <2>1, <2>2
<1>7. VersionInv'
  BY <1>1, <1>2, <1>3, VersionKept DEF VersionInv
<1>8. CurrentInv'
  BY <1>4 DEF CurrentInv
<1> QED BY <1>2, <1>5, <1>6, <1>7, <1>8 DEF ChainInv

-----------------------------------------------------------------------------
(* Changes end *)

LEMMA InvalidateInv ==
  ASSUME ChainInv, NEW c \in Changers, InvalidateMatcher(c)
  PROVE  ChainInv'
<1>1. ChainTypeOK /\ LanesInv /\ AgreesInv /\ VersionInv /\ CurrentInv
  BY DEF ChainInv
<1>2. /\ cpc[c] \in Writers /\ UNCHANGED <<mw, grouped, indexed, own, changes, ipc, build>>
      /\ cpc' = [cpc EXCEPT ![c] = "idle"] /\ change' = [change EXCEPT ![c] = NoChange]
      /\ IF Reaches(c) THEN Invalidate ELSE UNCHANGED <<combined, version, compiled>>
  BY DEF InvalidateMatcher, Writers, Reaches, settings, invokerVars, cacheVars
<1>3. /\ cpc'[c] = "idle" /\ change'[c] = NoChange /\ NoChange.kind = "none"
      /\ \A d \in Changers \ {c} : cpc'[d] = cpc[d] /\ change'[d] = change[d]
  BY <1>1, <1>2 DEF ChainTypeOK, NoChange
<1>4. ChainTypeOK' /\ VersionMoves
  BY <1>1, <1>2, NoneTyped DEF Invalidate, ChainTypeOK, VersionMoves
<1>5. compiled' = compiled \/ compiled' = NoChain
  BY <1>2 DEF Invalidate
<1>6. LanesInv'
  <2>1. Grouping' => NoBuildPending' /\ ~Hit
    BY <1>1, <1>2, <1>3 DEF LanesInv, Grouping, NoBuildPending
  <2>2. ~Hit => ~Hit'
    BY <1>1, <1>4, <1>5, MissStays DEF VersionMoves
  <2>3. cpc[c] # "index"
    BY <1>2 DEF Writers
  <2> QED BY <1>1, <1>2, <1>3, <2>1, <2>2, <2>3 DEF LanesInv
<1>7. AgreesInv'
  <2>1. Advances
    BY <1>2, Untouched
  <2>2. CacheAgrees(combined)'
    <3>1. CASE Reaches(c)
      BY <1>2, <3>1 DEF Invalidate, CacheAgrees, Empty
    <3>2. CASE ~Reaches(c)
      BY <1>1, <1>2, <1>4, <2>1, <3>2, KeptAgrees
    <3> QED BY <3>1, <3>2
  <2> QED BY <1>1, <1>2, <1>3, <1>4, <2>1, <2>2, KeptAgrees DEF AgreesInv
<1>8. VersionInv'
  BY <1>1, <1>2, <1>4, <1>5, VersionKept DEF VersionInv
<1>9. CurrentInv'
  <2>1. CASE Reaches(c)
    BY <1>2, <2>1 DEF Invalidate, CurrentInv, Hit
  <2>2. CASE ~Reaches(c)
    <3>1. UNCHANGED <<own, compiled, version, ipc, build>> /\ Snapshots' = Snapshots
      BY <1>2, <2>2, Untouched
    <3>2. \A d \in Changers : Reaches(d) => Reaches(d)'
      BY <1>2, <1>3, <2>2 DEF Reaches
    <3> QED BY <1>1, <3>1, <3>2, CurrentKept
  <2> QED BY <2>1, <2>2
<1> QED BY <1>4, <1>6, <1>7, <1>8, <1>9 DEF ChainInv

\* ensureChain leaves a chain that agrees, and tells if it has made one.
LEMMA EnsureAgrees ==
  ASSUME ChainTypeOK, NEW s \in SnapshotPair, SnapAgrees(s), Ensure(s), mw' = mw, grouped' = grouped
  PROVE  /\ combined' \in Cached /\ version' \in Nat /\ version' >= version
         /\ combined' = combined \/ CacheAgrees(combined)'
<1>1. CASE UNCHANGED <<combined, version>>
  BY <1>1 DEF ChainTypeOK
<1>2. CASE ~UNCHANGED <<combined, version>>
  <2> DEFINE ch == Content(s.all.chain, s.group.chain, own.local)
  <2>1. /\ s.all \in Entry /\ s.group \in Entry /\ s.old \in BOOLEAN
        /\ s.all.chain \in Nat /\ s.all.gen \in Nat /\ s.group.chain \in Nat /\ s.group.gen \in Nat
        /\ own.local \in Nat
    BY DEF ChainTypeOK, SnapshotPair, Entry
  <2>2. ch \in CombinedChain /\ ch # NoChain
    BY <2>1, ChainAssumption DEF Content, CombinedChain
  <2>3. ch.all = s.all.chain /\ ch.group = s.group.chain
    BY DEF Content
  <2>4. /\ combined' = [chain |-> ch, all |-> s.all.gen, group |-> s.group.gen, old |-> s.old]
        /\ version' = version + 1
    BY <1>2 DEF Ensure
  <2> HIDE DEF ch
  <2>5. combined' \in Cached
    BY <2>1, <2>2, <2>4 DEF Cached
  <2>6. s.old \/ Agrees(s.all.chain, s.all.gen, s.group.chain, s.group.gen)'
    BY DEF SnapAgrees, Agrees, Snapshots
  <2>7. PICK x : x = combined'
    OBVIOUS
  <2>8. /\ x.chain # NoChain /\ x.chain.all = s.all.chain /\ x.all = s.all.gen
        /\ x.chain.group = s.group.chain /\ x.group = s.group.gen /\ x.old = s.old
    BY <2>2, <2>3, <2>4, <2>7
  <2>9. CacheAgrees(combined)'
    BY <2>6, <2>7, <2>8 DEF CacheAgrees, Agrees
  <2> QED BY <2>4, <2>5, <2>9 DEF ChainTypeOK
<1> QED BY <1>1, <1>2

\* The rest of the changes of a single matcher.
LEMMA RebuildInv ==
  ASSUME ChainInv, NEW c \in Changers, IndexGroup(c) \/ RebuildLoad(c) \/ RebuildEnsure(c)
  PROVE  ChainInv'
<1>1. ChainTypeOK /\ LanesInv /\ AgreesInv /\ VersionInv /\ CurrentInv
  BY DEF ChainInv
<1>2. /\ cpc[c] \in {"index", "rebuild", "ensure"} /\ UNCHANGED <<mw, grouped, own, changes, compiled, ipc, build>>
      /\ cpc' = [cpc EXCEPT ![c] = IF IndexGroup(c) THEN "rebuild" ELSE IF RebuildLoad(c) THEN "ensure" ELSE "idle"]
  BY DEF IndexGroup, RebuildLoad, RebuildEnsure, settings, invokerVars, cacheVars
<1>3. PICK s \in SnapshotPair : s = Snapshots
  BY <1>1, SnapshotsTyped
<1>4. /\ change' \in [Changers -> ChangeRecord]
      /\ \A d \in Changers \ {c} : cpc'[d] = cpc[d] /\ change'[d] = change[d]
      /\ cpc'[c] = "ensure" => change'[c].snap = s
      /\ change'[c].kind \in {change[c].kind, "none"}
      /\ cpc'[c] \in {"rebuild", "ensure", "idle"}
      /\ cpc' \in [Changers -> {"idle", "index", "rebuild", "ensure"} \cup Writers]
  <2>1. CASE IndexGroup(c)
    BY <1>1, <1>2, <2>1 DEF IndexGroup, ChainTypeOK
  <2>2. CASE RebuildLoad(c)
    <3> DEFINE x == [change[c] EXCEPT !.snap = s]
    <3>1. x \in ChangeRecord /\ x.kind = change[c].kind /\ x.snap = s
      BY <1>1 DEF ChainTypeOK, ChangeRecord
    <3>2. change' = [change EXCEPT ![c] = x] /\ cpc' = [cpc EXCEPT ![c] = "ensure"]
      BY <1>3, <2>2 DEF RebuildLoad
    <3> HIDE DEF x
    <3> QED BY <1>1, <3>1, <3>2 DEF ChainTypeOK
  <2>3. CASE RebuildEnsure(c)
    <3>1. change' = [change EXCEPT ![c] = NoChange] /\ cpc' = [cpc EXCEPT ![c] = "idle"]
      BY <2>3 DEF RebuildEnsure
    <3> QED BY <1>1, <3>1, NoneTyped DEF NoChange, ChainTypeOK
  <2> QED BY <2>1, <2>2, <2>3
<1>5. /\ combined' \in Cached /\ version' \in Nat /\ version' >= version
      /\ combined' = combined \/ CacheAgrees(combined)'
      /\ version' = version \/ version' > version
  <2>1. CASE RebuildEnsure(c)
    <3>1. PICK t \in SnapshotPair : t = change[c].snap
      BY <1>1 DEF ChainTypeOK, ChangeRecord
    <3>2. Ensure(t) /\ SnapAgrees(t)
      BY <1>1, <2>1, <3>1 DEF RebuildEnsure, AgreesInv
    <3>3. /\ combined' \in Cached /\ version' \in Nat /\ version' >= version
          /\ combined' = combined \/ CacheAgrees(combined)'
      BY <1>1, <1>2, <3>2, EnsureAgrees
    <3> QED BY <1>1, <3>3 DEF ChainTypeOK
  <2>2. CASE ~RebuildEnsure(c)
    BY <1>1, <2>2 DEF IndexGroup, RebuildLoad, cacheVars, ChainTypeOK
  <2> QED BY <2>1, <2>2
<1>6. /\ indexed' \in BOOLEAN
      /\ cpc[c] = "index" => indexed' = grouped
      /\ cpc[c] # "index" => indexed' = indexed
  BY <1>1 DEF IndexGroup, RebuildLoad, RebuildEnsure, settings, LanesInv, ChainTypeOK
<1>7. ChainTypeOK' /\ VersionMoves
  BY <1>1, <1>2, <1>4, <1>5, <1>6 DEF ChainTypeOK, VersionMoves
<1>8. LanesInv'
  <2>1. Grouping' => NoBuildPending' /\ ~Hit
    BY <1>1, <1>2, <1>4 DEF LanesInv, Grouping, NoBuildPending
  <2>2. ~Hit => ~Hit'
    BY <1>1, <1>2, <1>5, <1>7, MissStays
  <2>3. indexed' = grouped' \/ \E d \in Changers : cpc'[d] = "index"
    BY <1>1, <1>2, <1>4, <1>6 DEF LanesInv
  <2>4. ASSUME NEW d \in Changers, cpc'[d] = "index"
        PROVE  change'[d].kind = "SetMatcherGroup" /\ change'[d].to = grouped'
    <3>1. d # c
      BY <1>4, <2>4
    <3> QED BY <1>1, <1>2, <1>4, <2>4, <3>1 DEF LanesInv
  <2> QED BY <2>1, <2>2, <2>3, <2>4 DEF LanesInv
<1>9. AgreesInv'
  <2>1. Advances
    BY <1>2, Untouched
  <2>2. CacheAgrees(combined)'
    BY <1>1, <1>5, <1>7, <2>1, KeptAgrees
  <2>3. SnapAgrees(s)'
    BY <1>1, <1>3, <1>7, <2>1, SnapshotsAgree, SnapKept
  <2>4. ASSUME NEW d \in Changers, cpc'[d] = "ensure" PROVE SnapAgrees(change[d].snap)'
    <3>1. CASE d = c
      BY <1>4, <2>3, <2>4, <3>1
    <3>2. CASE d # c
      BY <1>1, <1>4, <1>7, <2>1, <2>4, <3>2, KeptAgrees
    <3> QED BY <3>1, <3>2
  <2> QED BY <1>1, <1>2, <1>7, <2>1, <2>2, <2>4, KeptAgrees DEF AgreesInv
<1>10. VersionInv'
  BY <1>1, <1>2, <1>7, VersionKept DEF VersionInv
<1>11. CurrentInv'
  <2>1. CASE version' > version
    <3>1. ~Hit'
      BY <1>1, <1>2, <1>5, <1>7, <2>1, MissStays
    <3> QED BY <3>1 DEF CurrentInv
  <2>2. CASE version' = version /\ cpc[c] # "index"
    <3>1. \A d \in Changers : Reaches(d) => Reaches(d)'
      BY <1>2, <1>4, <1>6, <2>2 DEF Reaches
    <3>2. Snapshots' = Snapshots
      BY <1>2, Untouched
    <3> QED BY <1>1, <1>2, <2>2, <3>1, <3>2, CurrentKept
  <2>3. CASE cpc[c] = "index"
    <3>1. ~Hit
      BY <1>1, <2>3 DEF LanesInv, Grouping
    <3>2. ~Hit'
      BY <1>1, <1>2, <1>5, <1>7, <3>1, MissStays
    <3> QED BY <3>2 DEF CurrentInv
  <2> QED BY <1>5, <2>1, <2>2, <2>3
<1> QED BY <1>7, <1>8, <1>9, <1>10, <1>11 DEF ChainInv

-----------------------------------------------------------------------------
(* Builds *)

\* What the steps of a build leave alone.
Aside(i) ==
  /\ UNCHANGED <<mw, grouped, indexed, own, changes, cpc, change>>
  /\ ipc' \in [Invokers -> Building] /\ build' \in [Invokers -> Build]
  /\ \A j \in Invokers \ {i} : ipc'[j] = ipc[j] /\ build'[j] = build[j]

\* Every step has its place in the build, and sets no more than its own.
LEMMA BuildSteps ==
  ASSUME ChainTypeOK, LanesInv, NEW i \in Invokers, Invoke(i)
  PROVE  Aside(i) /\ ~Grouping
<1>1. UNCHANGED <<mw, grouped, indexed, own, changes, cpc, change>>
  BY DEF Invoke, SlowPath, Load, EnsureChain, GetChain, ReadVersion, Store, ValidateOk, ValidateFails,
         settings, changerVars
<1>2. PICK from, to \in Building : Step(i, from, to) /\ (from # "idle" \/ SlowPath(i))
  <2>1. SlowPath(i) => Step(i, "idle", "load")
    BY DEF SlowPath
  <2>2. Load(i) => Step(i, "load", "ensure")
    BY DEF Load
  <2>3. EnsureChain(i) => Step(i, "ensure", "get")
    BY DEF EnsureChain
  <2>4. GetChain(i) => Step(i, "get", "idle") \/ Step(i, "get", "version")
    BY DEF GetChain
  <2>5. ReadVersion(i) => Step(i, "version", "store")
    BY DEF ReadVersion
  <2>6. Store(i) => Step(i, "store", "validate")
    BY DEF Store
  <2>7. ValidateOk(i) => Step(i, "validate", "idle")
    BY DEF ValidateOk
  <2>8. ValidateFails(i) => Step(i, "validate", "load")
    BY DEF ValidateFails
  <2> QED BY <2>1, <2>2, <2>3, <2>4, <2>5, <2>6, <2>7, <2>8 DEF Invoke, Building
<1>3. ipc' \in [Invokers -> Building] /\ \A j \in Invokers \ {i} : ipc'[j] = ipc[j]
  BY <1>2 DEF Step, ChainTypeOK
<1>4. PICK b \in Build : build' = [build EXCEPT ![i] = b]
  <2>1. /\ build[i] \in Build /\ Snapshots \in SnapshotPair /\ NoBuild \in Build /\ NoBuild.snap \in SnapshotPair
        /\ combined \in Cached /\ version \in Nat /\ own.handler \in Nat
    BY SnapshotsTyped, NoneTyped DEF ChainTypeOK
  <2>2. CASE SlowPath(i)
    <3>1. [NoBuild EXCEPT !.handler = own.handler, !.attempt = 1] \in Build
      BY <2>1 DEF Build
    <3> QED BY <2>2, <3>1 DEF SlowPath
  <2>3. CASE Load(i)
    <3>1. [build[i] EXCEPT !.snap = Snapshots] \in Build
      BY <2>1 DEF Build
    <3> QED BY <2>3, <3>1 DEF Load
  <2>4. CASE Store(i)
    <3>1. build' = [build EXCEPT ![i] = build[i]]
      BY <2>4 DEF Store, ChainTypeOK
    <3> QED BY <2>1, <3>1
  <2>5. CASE EnsureChain(i)
    <3>1. [build[i] EXCEPT !.snap = NoBuild.snap] \in Build
      BY <2>1 DEF Build
    <3> QED BY <2>5, <3>1 DEF EnsureChain
  <2>6. CASE GetChain(i)
    <3>1. [build[i] EXCEPT !.from = combined] \in Build
      BY <2>1 DEF Build
    <3> QED BY <2>1, <2>6, <3>1 DEF GetChain
  <2>7. CASE ReadVersion(i)
    <3>1. Overtaken(build[i]) \in BOOLEAN
      BY DEF Overtaken
    <3>2. [build[i] EXCEPT !.version = version, !.behind = Overtaken(build[i])] \in Build
      BY <2>1, <3>1 DEF Build
    <3>3. build' = [build EXCEPT ![i] = [build[i] EXCEPT !.version = version, !.behind = Overtaken(build[i])]]
      BY <2>7 DEF ReadVersion, ChainTypeOK
    <3> QED BY <3>2, <3>3
  <2>8. CASE ValidateOk(i)
    BY <2>1, <2>8 DEF ValidateOk
  <2>9. CASE ValidateFails(i)
    <3>1. build[i].handler \in Nat /\ build[i].attempt + 1 \in Nat
      BY <2>1 DEF Build
    <3>2. [NoBuild EXCEPT !.handler = build[i].handler, !.attempt = build[i].attempt + 1] \in Build
      BY <2>1, <3>1 DEF Build
    <3> QED BY <2>9, <3>2 DEF ValidateFails
  <2> QED BY <2>2, <2>3, <2>4, <2>5, <2>6, <2>7, <2>8, <2>9 DEF Invoke
<1>5. build' \in [Invokers -> Build] /\ \A j \in Invokers \ {i} : build'[j] = build[j]
  BY <1>4 DEF ChainTypeOK
<1>6. ~Grouping
  <2>1. CASE SlowPath(i)
    BY <2>1 DEF SlowPath
  <2>2. CASE ~SlowPath(i)
    BY <1>2, <2>2 DEF Step, LanesInv, NoBuildPending
  <2> QED BY <2>1, <2>2
<1> QED BY <1>1, <1>3, <1>5, <1>6 DEF Aside

\* What has to be shown of the one that moves.
LEMMA BuildKeeps ==
  ASSUME ChainInv, NEW i \in Invokers, Invoke(i),
         combined' \in Cached, version' \in Nat, version' >= version,
         compiled' \in CompiledChain \cup {NoChain},
         combined' = combined \/ CacheAgrees(combined)',
         ipc'[i] = "ensure" => SnapAgrees(build[i].snap)',
         ipc'[i] \in {"version", "store", "validate"} =>
           CacheAgrees(build[i].from)' /\ build'[i].attempt <= Attempts,
         compiled' = compiled \/
           Answers(compiled.version, compiled.behind, compiled.handler, compiled.chain)',
         ipc'[i] \in {"store", "validate"} =>
           Answers(build[i].version, build[i].behind, build[i].handler, build[i].from.chain)',
         CurrentInv'
  PROVE  ChainInv'
<1>1. ChainTypeOK /\ AgreesInv /\ LanesInv /\ VersionInv
  BY DEF ChainInv
<1>2. Aside(i) /\ ~Grouping
  BY <1>1, BuildSteps
<1>3. ChainTypeOK' /\ VersionMoves
  BY <1>1, <1>2 DEF ChainTypeOK, Aside, VersionMoves
<1>4. Advances
  BY <1>2, Untouched DEF Aside
<1>5. LanesInv'
  <2>1. ~Grouping'
    BY <1>2 DEF Grouping, Aside
  <2> QED BY <1>1, <1>2, <2>1 DEF LanesInv, Aside
<1>6. AgreesInv'
  <2>1. CacheAgrees(combined)'
    BY <1>1, <1>3, <1>4, KeptAgrees
  <2>2. ASSUME NEW d \in Changers, cpc'[d] = "ensure" PROVE SnapAgrees(change[d].snap)'
    BY <1>1, <1>2, <1>3, <1>4, <2>2, KeptAgrees DEF Aside
  <2>3. ASSUME NEW j \in Invokers, ipc'[j] = "ensure" PROVE SnapAgrees(build[j].snap)'
    <3>1. CASE j = i
      BY <2>3, <3>1
    <3>2. CASE j # i
      BY <1>1, <1>2, <1>3, <1>4, <2>3, <3>2, KeptAgrees DEF Aside
    <3> QED BY <3>1, <3>2
  <2>4. ASSUME NEW j \in Invokers, ipc'[j] \in {"version", "store", "validate"} PROVE CacheAgrees(build[j].from)'
    <3>1. CASE j = i
      BY <2>4, <3>1
    <3>2. CASE j # i
      BY <1>1, <1>2, <1>3, <1>4, <2>4, <3>2, KeptAgrees DEF Aside
    <3> QED BY <3>1, <3>2
  <2> QED BY <2>1, <2>2, <2>3, <2>4 DEF AgreesInv
<1>7. VersionInv'
  <2>1. compiled' # NoChain =>
          Answers(compiled.version, compiled.behind, compiled.handler, compiled.chain)'
    BY <1>1, <1>3, VersionKept
  <2>2. ASSUME NEW j \in Invokers
        PROVE  /\ ipc'[j] \in {"store", "validate"} =>
                    Answers(build[j].version, build[j].behind, build[j].handler, build[j].from.chain)'
               /\ ipc'[j] \in {"version", "store", "validate"} => build'[j].attempt <= Attempts
    <3>1. CASE j = i
      BY <3>1
    <3>2. CASE j # i
      BY <1>1, <1>2, <1>3, <3>2, VersionKept DEF Aside
    <3> QED BY <3>1, <3>2
  <2> QED BY <2>1, <2>2 DEF VersionInv
<1> QED BY <1>3, <1>5, <1>6, <1>7 DEF ChainInv

\* Those who stand aside attend to a chain as before.
LEMMA AttendedStays ==
  ASSUME CurrentInv, NEW i \in Invokers, Aside(i), UNCHANGED <<compiled, version>>,
         ~compiled.old /\ ~compiled.behind /\ Hit =>
           (WillStore(i) \/ WillValidate(i) => WillStore(i)' \/ CompiledIsCurrent)
  PROVE  CurrentInv'
<1> SUFFICES ASSUME Hit, ~compiled.spent, ~compiled.old, ~compiled.behind
             PROVE  CompiledIsCurrent' \/ Attended'
  BY DEF CurrentInv, Hit
<1>1. CompiledIsCurrent' <=> CompiledIsCurrent
  BY DEF CompiledIsCurrent, Current, Snapshots, Aside
<1>2. CASE CompiledIsCurrent
  BY <1>1, <1>2
<1>3. CASE ~CompiledIsCurrent
  <2>1. Attended
    BY <1>3 DEF CurrentInv
  <2>2. CASE \E c \in Changers : Reaches(c)
    BY <2>2 DEF Attended, Reaches, Aside
  <2>3. CASE \E j \in Invokers : WillStore(j) \/ WillValidate(j)
    <3>1. PICK j \in Invokers : WillStore(j) \/ WillValidate(j)
      BY <2>3
    <3>2. CASE j = i
      BY <1>3, <3>1, <3>2 DEF Attended
    <3>3. CASE j # i
      <4>1. ipc'[j] = ipc[j] /\ build'[j] = build[j]
        BY <3>3 DEF Aside
      <4>2. (WillStore(j) \/ WillValidate(j))'
        BY <3>1, <4>1 DEF WillStore, WillValidate
      <4> QED BY <4>2 DEF Attended
    <3> QED BY <3>2, <3>3
  <2> QED BY <2>1, <2>2, <2>3 DEF Attended
<1> QED BY <1>2, <1>3

LEMMA SlowPathInv ==
  ASSUME ChainInv, NEW i \in Invokers, SlowPath(i)
  PROVE  ChainInv'
<1>1. ChainTypeOK
  BY DEF ChainInv
<1>2. Invoke(i) /\ UNCHANGED <<combined, version, compiled>> /\ ~Hit /\ ipc'[i] = "load"
  BY <1>1 DEF Invoke, SlowPath, Step, cacheVars, ChainTypeOK
<1>3. CurrentInv'
  BY <1>2 DEF CurrentInv, Hit
<1>4. version' \in Nat /\ version' >= version /\ compiled' \in CompiledChain \cup {NoChain} /\ combined' \in Cached
  BY <1>1, <1>2 DEF ChainTypeOK
<1> QED BY <1>2, <1>3, <1>4, BuildKeeps

LEMMA LoadInv ==
  ASSUME ChainInv, NEW i \in Invokers, Load(i)
  PROVE  ChainInv'
<1>1. ChainTypeOK /\ LanesInv /\ CurrentInv
  BY DEF ChainInv
<1>2. Invoke(i) /\ UNCHANGED <<combined, version, compiled>> /\ ipc[i] = "load"
  BY DEF Invoke, Load, Step, cacheVars
<1>3. Aside(i)
  BY <1>1, <1>2, BuildSteps
<1>4. PICK s \in SnapshotPair : s = Snapshots
  BY <1>1, SnapshotsTyped
<1>5. ipc'[i] = "ensure" /\ build'[i].snap = s /\ build'[i].attempt = build[i].attempt
  <2> DEFINE b == [build[i] EXCEPT !.snap = s]
  <2>1. b.snap = s /\ b.attempt = build[i].attempt
    BY <1>1 DEF ChainTypeOK, Build
  <2>2. build' = [build EXCEPT ![i] = b]
    BY <1>4 DEF Load
  <2> HIDE DEF b
  <2>3. build'[i] = b /\ ipc'[i] = "ensure"
    BY <1>1, <2>2 DEF Load, Step, ChainTypeOK
  <2> QED BY <2>1, <2>3
<1>6. SnapAgrees(build[i].snap)'
  <2>1. SnapAgrees(s)
    BY <1>1, <1>4, SnapshotsAgree
  <2>2. SnapAgrees(s)'
    BY <1>3, <2>1 DEF SnapAgrees, Agrees, Snapshots, Aside
  <2> QED BY <1>5, <2>2
<1>7. CurrentInv'
  <2>1. WillStore(i) \/ WillValidate(i) => WillStore(i)'
    BY <1>2, <1>5 DEF WillStore, WillValidate
  <2> QED BY <1>1, <1>2, <1>3, <2>1, AttendedStays
<1>8. version' \in Nat /\ version' >= version /\ compiled' \in CompiledChain \cup {NoChain} /\ combined' \in Cached
  BY <1>1, <1>2 DEF ChainTypeOK
<1> QED BY <1>2, <1>5, <1>6, <1>7, <1>8, BuildKeeps

LEMMA EnsureChainInv ==
  ASSUME ChainInv, NEW i \in Invokers, EnsureChain(i)
  PROVE  ChainInv'
<1>1. ChainTypeOK /\ LanesInv /\ VersionInv /\ AgreesInv /\ CurrentInv
  BY DEF ChainInv
<1>2. Invoke(i) /\ compiled' = compiled /\ ipc[i] = "ensure" /\ ipc'[i] = "get"
  BY <1>1 DEF Invoke, EnsureChain, Step, ChainTypeOK
<1>3. Aside(i)
  BY <1>1, <1>2, BuildSteps
<1>4. /\ combined' \in Cached /\ version' \in Nat /\ version' >= version
      /\ combined' = combined \/ CacheAgrees(combined)'
  <2>1. PICK s \in SnapshotPair : s = build[i].snap
    BY <1>1 DEF ChainTypeOK, Build
  <2>2. SnapAgrees(s) /\ Ensure(s)
    BY <1>1, <1>2, <2>1 DEF AgreesInv, EnsureChain
  <2> QED BY <1>1, <1>3, <2>2, EnsureAgrees DEF Aside
<1>5. build'[i].attempt = build[i].attempt
  <2>1. build[i] \in Build
    BY <1>1 DEF ChainTypeOK
  <2>2. build'[i] = [build[i] EXCEPT !.snap = NoBuild.snap]
    BY <1>1 DEF EnsureChain, ChainTypeOK
  <2> QED BY <2>1, <2>2 DEF Build
<1>6. CurrentInv'
  <2>1. CASE version' = version
    <3>1. WillStore(i) \/ WillValidate(i) => WillStore(i)'
      BY <1>2, <1>5 DEF WillStore, WillValidate
    <3> QED BY <1>1, <1>2, <1>3, <2>1, <3>1, AttendedStays
  <2>2. CASE version' # version
    <3>1. ChainTypeOK' /\ version' > version
      BY <1>1, <1>2, <1>3, <1>4, <2>2 DEF ChainTypeOK, Aside
    <3>2. ~Hit'
      BY <1>1, <1>2, <1>4, <3>1, MissStays
    <3> QED BY <3>2 DEF CurrentInv
  <2> QED BY <2>1, <2>2
<1>7. compiled' \in CompiledChain \cup {NoChain}
  BY <1>1, <1>2 DEF ChainTypeOK
<1> QED BY <1>2, <1>4, <1>6, <1>7, BuildKeeps

LEMMA GetChainInv ==
  ASSUME ChainInv, NEW i \in Invokers, GetChain(i)
  PROVE  ChainInv'
<1>1. ChainTypeOK /\ LanesInv /\ AgreesInv /\ CurrentInv
  BY DEF ChainInv
<1>2. Invoke(i) /\ UNCHANGED <<combined, version, compiled>> /\ ipc[i] = "get"
  BY DEF Invoke, GetChain, Step, cacheVars
<1>3. Aside(i)
  BY <1>1, <1>2, BuildSteps
<1>4. build[i].attempt \in Nat /\ Attempts \in Nat
  BY <1>1, ChainAssumption DEF ChainTypeOK, Build
<1>5. /\ build[i].attempt > Attempts => ipc'[i] = "idle"
      /\ build[i].attempt <= Attempts =>
           ipc'[i] = "version" /\ build'[i].from = combined /\ build'[i].attempt = build[i].attempt
  <2>1. CASE build[i].attempt > Attempts
    BY <1>1, <1>4, <2>1 DEF GetChain, Step, ChainTypeOK
  <2>2. CASE ~(build[i].attempt > Attempts)
    <3> DEFINE b == [build[i] EXCEPT !.from = combined]
    <3>1. b.from = combined /\ b.attempt = build[i].attempt
      BY <1>1 DEF ChainTypeOK, Build
    <3>2. build' = [build EXCEPT ![i] = b] /\ ipc' = [ipc EXCEPT ![i] = "version"]
      BY <2>2 DEF GetChain, Step
    <3> HIDE DEF b
    <3>3. build'[i] = b /\ ipc'[i] = "version"
      BY <1>1, <3>2 DEF ChainTypeOK
    <3> QED BY <1>4, <2>2, <3>1, <3>3
  <2> QED BY <2>1, <2>2
<1>6. ipc'[i] = "version" => CacheAgrees(build[i].from)' /\ build'[i].attempt <= Attempts
  <2> SUFFICES ASSUME ipc'[i] = "version"
               PROVE  CacheAgrees(build[i].from)' /\ build'[i].attempt <= Attempts
    OBVIOUS
  <2>1. build'[i].from = combined /\ build'[i].attempt <= Attempts
    BY <1>4, <1>5
  <2>2. PICK x : x = combined
    OBVIOUS
  <2>3. CacheAgrees(x)
    BY <1>1, <2>2 DEF AgreesInv
  <2>4. CacheAgrees(x)'
    BY <1>3, <2>3 DEF CacheAgrees, Agrees, Snapshots, Aside
  <2> QED BY <2>1, <2>2, <2>4
<1>7. CurrentInv'
  <2>1. WillStore(i) \/ WillValidate(i) => WillStore(i)'
    BY <1>2, <1>5 DEF WillStore, WillValidate
  <2> QED BY <1>1, <1>2, <1>3, <2>1, AttendedStays
<1>8. version' \in Nat /\ version' >= version /\ compiled' \in CompiledChain \cup {NoChain} /\ combined' \in Cached
  BY <1>1, <1>2 DEF ChainTypeOK
<1>9. ipc'[i] \in {"idle", "version"}
  BY <1>4, <1>5
<1> QED BY <1>2, <1>6, <1>7, <1>8, <1>9, BuildKeeps

LEMMA ReadVersionInv ==
  ASSUME ChainInv, NEW i \in Invokers, ReadVersion(i)
  PROVE  ChainInv'
<1>1. ChainTypeOK /\ LanesInv /\ VersionInv /\ AgreesInv /\ CurrentInv
  BY DEF ChainInv
<1>2. Invoke(i) /\ UNCHANGED <<combined, version, compiled>> /\ ipc[i] = "version"
  BY DEF Invoke, ReadVersion, Step, cacheVars
<1>3. Aside(i)
  BY <1>1, <1>2, BuildSteps
<1>4. PICK b \in Build : b = build[i]
  BY <1>1 DEF ChainTypeOK
<1>5. /\ ipc'[i] = "store" /\ build'[i].version = version /\ build'[i].from = b.from
      /\ build'[i].handler = b.handler /\ build'[i].attempt = b.attempt /\ build'[i].behind = Overtaken(b)
  <2> DEFINE r == [b EXCEPT !.version = version, !.behind = Overtaken(b)]
  <2>1. /\ r.version = version /\ r.from = b.from /\ r.handler = b.handler /\ r.attempt = b.attempt
        /\ r.behind = Overtaken(b)
    BY DEF Build
  <2>2. build' = [build EXCEPT ![i] = r]
    BY <1>1, <1>4 DEF ReadVersion, ChainTypeOK
  <2>3. ipc' = [ipc EXCEPT ![i] = "store"]
    BY DEF ReadVersion, Step
  <2> HIDE DEF r
  <2>4. build'[i] = r /\ ipc'[i] = "store"
    BY <1>1, <2>2, <2>3 DEF ChainTypeOK
  <2> QED BY <2>1, <2>4
<1>6. CacheAgrees(build[i].from)'
  <2>1. PICK x : x = b.from
    OBVIOUS
  <2>2. CacheAgrees(x)
    BY <1>1, <1>2, <1>4, <2>1 DEF AgreesInv
  <2>3. CacheAgrees(x)'
    BY <1>3, <2>2 DEF Aside, CacheAgrees, Agrees, Snapshots
  <2> QED BY <1>5, <2>1, <2>3
<1>7. Answers(build[i].version, build[i].behind, build[i].handler, build[i].from.chain)'
  <2>1. own' = own /\ version' = version /\ version \in Nat
    BY <1>1, <1>2, <1>3 DEF Aside, ChainTypeOK
  <2>2. ASSUME ~build'[i].behind
        PROVE  b.handler = own.handler /\ (b.from.chain # NoChain => b.from.chain.local = own.local)
    BY <1>5, <2>2 DEF Overtaken
  <2>3. version <= version
    BY <2>1
  <2> QED BY <1>5, <2>1, <2>2, <2>3 DEF Answers
<1>8. CurrentInv'
  <2>1. WillStore(i) \/ WillValidate(i) => WillStore(i)'
    BY <1>2, <1>4, <1>5 DEF WillStore, WillValidate
  <2> QED BY <1>1, <1>2, <1>3, <2>1, AttendedStays
<1>9. version' \in Nat /\ version' >= version /\ compiled' \in CompiledChain \cup {NoChain} /\ combined' \in Cached
  BY <1>1, <1>2 DEF ChainTypeOK
<1>10. build'[i].attempt <= Attempts
  BY <1>1, <1>2, <1>4, <1>5 DEF VersionInv
<1> QED BY <1>2, <1>5, <1>6, <1>7, <1>8, <1>9, <1>10, BuildKeeps

LEMMA StoreInv ==
  ASSUME ChainInv, NEW i \in Invokers, Store(i)
  PROVE  ChainInv'
<1>1. ChainTypeOK /\ LanesInv /\ VersionInv /\ AgreesInv
  BY DEF ChainInv
<1>2. /\ Invoke(i) /\ UNCHANGED <<combined, version, build>> /\ ipc[i] = "store"
      /\ compiled' = Stored(build[i]) /\ ipc'[i] = "validate"
  BY <1>1 DEF Invoke, Store, Step, ChainTypeOK
<1>3. Aside(i)
  BY <1>1, <1>2, BuildSteps
<1>4. PICK b \in Build : b = build[i] /\ build'[i] = b
  BY <1>1, <1>2 DEF ChainTypeOK
<1>5. CacheAgrees(build[i].from)'
  <2>1. PICK x : x = b.from
    OBVIOUS
  <2>2. CacheAgrees(x)
    BY <1>1, <1>2, <1>4, <2>1 DEF AgreesInv
  <2>3. CacheAgrees(x)'
    BY <1>3, <2>2 DEF Aside, CacheAgrees, Agrees, Snapshots
  <2> QED BY <1>4, <2>1, <2>3
<1>6. Answers(b.version, b.behind, b.handler, b.from.chain) /\ b.attempt <= Attempts
  BY <1>1, <1>2, <1>4 DEF VersionInv
<1>7. Answers(b.version, b.behind, b.handler, b.from.chain)'
  BY <1>2, <1>3, <1>6 DEF Answers, Aside
<1>8. /\ compiled' \in CompiledChain
      /\ compiled'.version = b.version /\ compiled'.handler = b.handler
      /\ compiled'.behind = b.behind /\ compiled'.chain = b.from.chain
  <2>1. /\ b.from.chain \in CombinedChain \cup {NoChain} /\ b.from.old \in BOOLEAN
        /\ b.handler \in Nat /\ b.version \in Nat /\ b.behind \in BOOLEAN
    BY DEF Build, Cached
  <2> QED BY <1>2, <1>4, <2>1 DEF Stored, CompiledChain
<1>9. CurrentInv'
  <2>1. WillValidate(i)'
    BY <1>2 DEF WillValidate, Stored
  <2> QED BY <2>1 DEF CurrentInv, Attended
<1>10. version' \in Nat /\ version' >= version /\ combined' \in Cached
  BY <1>1, <1>2 DEF ChainTypeOK
<1>11. /\ Answers(compiled.version, compiled.behind, compiled.handler, compiled.chain)'
       /\ Answers(build[i].version, build[i].behind, build[i].handler, build[i].from.chain)'
  BY <1>4, <1>7, <1>8
<1> QED BY <1>2, <1>4, <1>5, <1>6, <1>8, <1>9, <1>10, <1>11, BuildKeeps

\* What is found valid is current.
LEMMA ValidIsCurrent ==
  ASSUME ChainInv, NEW i \in Invokers, ipc[i] = "validate", Valid(build[i]), WillValidate(i),
         ~compiled.old, ~compiled.behind
  PROVE  CompiledIsCurrent
<1>1. ChainTypeOK /\ VersionInv /\ AgreesInv
  BY DEF ChainInv
<1>2. PICK b \in Build : b = build[i]
  BY <1>1 DEF ChainTypeOK
<1>3. PICK x \in Cached : x = b.from
  BY DEF Build
<1>4. ~x.old /\ ~b.behind /\ compiled.chain = x.chain /\ compiled.handler = b.handler
  BY <1>2, <1>3 DEF WillValidate, Stored
<1>5. CacheAgrees(x) /\ Answers(b.version, b.behind, b.handler, x.chain)
  BY <1>1, <1>2, <1>3 DEF AgreesInv, VersionInv
<1>6. x.all = Snapshots.all.gen /\ x.group = Snapshots.group.gen /\ x.all # 0 /\ version = b.version
  BY <1>1, <1>2, <1>3, SnapshotsTyped DEF Valid, SnapshotPair, Entry
<1>7. x.chain \in CombinedChain /\ x.chain # NoChain
  BY <1>5, <1>6 DEF CacheAgrees, Cached
<1>8. /\ x.chain.all = Snapshots.all.chain /\ x.chain.group = Snapshots.group.chain
      /\ x.chain.local = own.local /\ b.handler = own.handler
  BY <1>4, <1>5, <1>6, <1>7 DEF CacheAgrees, Agrees, Answers
<1>9. x.chain = Content(Snapshots.all.chain, Snapshots.group.chain, own.local)
  BY <1>7, <1>8 DEF Content, CombinedChain
<1> QED BY <1>4, <1>8, <1>9 DEF CompiledIsCurrent, Current

LEMMA ValidateOkInv ==
  ASSUME ChainInv, NEW i \in Invokers, ValidateOk(i)
  PROVE  ChainInv'
<1>1. ChainTypeOK /\ LanesInv /\ CurrentInv
  BY DEF ChainInv
<1>2. Invoke(i) /\ UNCHANGED <<combined, version, compiled>> /\ ipc[i] = "validate" /\ ipc'[i] = "idle"
  BY <1>1 DEF Invoke, ValidateOk, Step, cacheVars, ChainTypeOK
<1>3. Aside(i)
  BY <1>1, <1>2, BuildSteps
<1>4. CurrentInv'
  <2>1. ~WillStore(i)
    BY <1>2 DEF WillStore
  <2>2. WillValidate(i) /\ ~compiled.old /\ ~compiled.behind => CompiledIsCurrent
    BY <1>2, ValidIsCurrent DEF ValidateOk
  <2> QED BY <1>1, <1>2, <1>3, <2>1, <2>2, AttendedStays
<1>5. version' \in Nat /\ version' >= version /\ compiled' \in CompiledChain \cup {NoChain} /\ combined' \in Cached
  BY <1>1, <1>2 DEF ChainTypeOK
<1> QED BY <1>2, <1>4, <1>5, BuildKeeps

LEMMA ValidateFailsInv ==
  ASSUME ChainInv, NEW i \in Invokers, ValidateFails(i)
  PROVE  ChainInv'
<1>1. ChainTypeOK /\ LanesInv /\ VersionInv /\ CurrentInv
  BY DEF ChainInv
<1>2. Invoke(i) /\ UNCHANGED <<combined, version>> /\ ipc[i] = "validate"
  BY DEF Invoke, ValidateFails, Step
<1>3. Aside(i)
  BY <1>1, <1>2, BuildSteps
<1>4. build[i].attempt \in Nat /\ build[i].attempt <= Attempts /\ Attempts \in Nat
  BY <1>1, <1>2, ChainAssumption DEF VersionInv, ChainTypeOK, Build
<1>5. ipc'[i] = "load" /\ build'[i].attempt = build[i].attempt + 1
  <2> DEFINE b == [NoBuild EXCEPT !.handler = build[i].handler, !.attempt = build[i].attempt + 1]
  <2>1. b.attempt = build[i].attempt + 1
    BY DEF NoBuild
  <2>2. build' = [build EXCEPT ![i] = b] /\ ipc' = [ipc EXCEPT ![i] = "load"]
    BY DEF ValidateFails, Step
  <2> HIDE DEF b
  <2>3. build'[i] = b /\ ipc'[i] = "load"
    BY <1>1, <2>2 DEF ChainTypeOK
  <2> QED BY <1>4, <2>1, <2>3
<1>6. CASE LastAttempt(i) /\ compiled = Stored(build[i])
  <2>1. PICK x \in CompiledChain : x = compiled
    <3>1. build[i] \in Build
      BY <1>1 DEF ChainTypeOK
    <3>2. /\ build[i].from.chain \in CombinedChain \cup {NoChain} /\ build[i].from.old \in BOOLEAN
          /\ build[i].handler \in Nat /\ build[i].version \in Nat /\ build[i].behind \in BOOLEAN
      BY <3>1 DEF Build, Cached
    <3> QED BY <1>6, <3>2 DEF Stored, CompiledChain
  <2>2. compiled' = [x EXCEPT !.spent = TRUE]
    BY <1>6, <2>1 DEF ValidateFails
  <2>3. /\ compiled' \in CompiledChain /\ compiled'.spent
        /\ compiled'.version = x.version /\ compiled'.behind = x.behind
        /\ compiled'.handler = x.handler /\ compiled'.chain = x.chain
    BY <2>2 DEF CompiledChain
  <2>4. Answers(x.version, x.behind, x.handler, x.chain)
    BY <1>1, <1>2, <1>6, <2>1 DEF VersionInv, Stored
  <2>5. Answers(compiled.version, compiled.behind, compiled.handler, compiled.chain)'
    BY <1>2, <1>3, <2>3, <2>4 DEF Answers, Aside
  <2>6. CurrentInv'
    BY <2>3 DEF CurrentInv
  <2>7. version' \in Nat /\ version' >= version /\ combined' \in Cached
    BY <1>1, <1>2 DEF ChainTypeOK
  <2> QED BY <1>2, <1>5, <2>3, <2>5, <2>6, <2>7, BuildKeeps
<1>7. CASE ~(LastAttempt(i) /\ compiled = Stored(build[i]))
  <2>1. compiled' = compiled
    BY <1>7 DEF ValidateFails
  <2>2. ~LastAttempt(i) => WillStore(i)'
    BY <1>4, <1>5 DEF LastAttempt, WillStore
  <2>3. LastAttempt(i) => ~WillStore(i) /\ ~WillValidate(i)
    BY <1>2, <1>7 DEF WillStore, WillValidate
  <2>4. CurrentInv'
    BY <1>1, <1>2, <1>3, <2>1, <2>2, <2>3, AttendedStays
  <2>5. version' \in Nat /\ version' >= version /\ combined' \in Cached /\ compiled' \in CompiledChain \cup {NoChain}
    BY <1>1, <1>2, <2>1 DEF ChainTypeOK
  <2> QED BY <1>2, <1>5, <2>1, <2>4, <2>5, BuildKeeps
<1> QED BY <1>6, <1>7

-----------------------------------------------------------------------------
LEMMA ChainStutters ==
  ASSUME ChainInv, UNCHANGED chainVars
  PROVE  ChainInv'
<1>1. UNCHANGED <<mw, grouped, indexed, own, changes, combined, version, compiled, cpc, change, ipc, build>>
  BY DEF chainVars, settings, cacheVars, changerVars, invokerVars
<1>2. ChainTypeOK'
  BY <1>1 DEF ChainInv, ChainTypeOK
<1>3. LanesInv'
  BY <1>1 DEF ChainInv, LanesInv, Grouping, NoBuildPending, Hit
<1>4. AgreesInv'
  BY <1>1 DEF ChainInv, AgreesInv, SnapAgrees, CacheAgrees, Agrees, Snapshots
<1>5. VersionInv'
  BY <1>1 DEF ChainInv, VersionInv, Answers
<1>6. CurrentInv'
  BY <1>1 DEF ChainInv, CurrentInv, Hit, CompiledIsCurrent, Current, Snapshots, Attended, Reaches,
              WillStore, WillValidate, Stored
<1> QED BY <1>2, <1>3, <1>4, <1>5, <1>6 DEF ChainInv

\* Whatever changes and builds overlap, whoever leaves another chain than the
\* current one in the cache is still to validate it or to replace it, or the loop
\* over the matchers is still to drop it (middleware.go:97-151, process.go:216-244).
THEOREM ChainInvariant == ChainSpec => []ChainInv
<1>1. ChainInit => ChainInv
  BY ChainBegins
<1>2. ChainInv /\ [ChainNext]_chainVars => ChainInv'
  <2> SUFFICES ASSUME ChainInv, [ChainNext]_chainVars PROVE ChainInv'
    OBVIOUS
  <2>1. ASSUME NEW c \in Changers, Change(c) PROVE ChainInv'
    BY <2>1, UseInv, ResetInv, OwnChangeInv DEF Change
  <2>2. ASSUME NEW c \in Changers, FinishChange(c) PROVE ChainInv'
    BY <2>2, InvalidateInv, RebuildInv DEF FinishChange
  <2>3. ASSUME NEW i \in Invokers, Invoke(i) PROVE ChainInv'
    BY <2>3, SlowPathInv, LoadInv, EnsureChainInv, GetChainInv, ReadVersionInv, StoreInv, ValidateOkInv,
       ValidateFailsInv DEF Invoke
  <2>4. CASE UNCHANGED chainVars
    BY <2>4, ChainStutters
  <2> QED BY <2>1, <2>2, <2>3, <2>4 DEF ChainNext
<1> QED BY <1>1, <1>2, PTL DEF ChainSpec

\* When changes and builds have come to rest, what an event would run is the
\* current chain around the current handler (process.go:216-244), for any number
\* of goroutines, attempts and changes, and whichever of them overlap; but for an
\* entry that the last of the attempts stored and found invalid, one made of what
\* was read before a reset, and one whose version was read after the matcher's own
\* handler or middleware had been replaced.
THEOREM RestingCacheIsCurrent == ChainSpec => []RestingCacheCurrent
<1>1. ChainInv => RestingCacheCurrent
  <2> SUFFICES ASSUME ChainInv, AtRest, ~compiled.spent, ~compiled.old, ~compiled.behind
               PROVE  CompiledIsCurrent
    BY DEF RestingCacheCurrent
  <2>1. ~Attended
    BY DEF AtRest, Attended, NoChangePending, NoBuildPending, Reaches, WillStore, WillValidate
  <2> QED BY <2>1 DEF AtRest, ChainInv, CurrentInv
<1> QED BY <1>1, ChainInvariant, PTL
=================================================================================

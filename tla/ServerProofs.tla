---------------------------- MODULE ServerProofs ----------------------------
(***************************************************************************)
(* Proofs about two parts of the server that share no state.               *)
(*                                                                         *)
(* The event bus: one worker per type and no event lost or reordered in a  *)
(* channel, for any number of publishers, types and handlers, any queue    *)
(* capacity and any number of events, with Close at any moment.            *)
(*                                                                         *)
(* The worker generation: the books of its workers agree, and what is      *)
(* closed is shut, for any number of nodes, proxies, relays, connections   *)
(* and calls.                                                              *)
(***************************************************************************)
EXTENDS EventBus, Workers, SequenceTheorems, TLAPS

-----------------------------------------------------------------------------
(* The event bus.                                                          *)

(* Appending to the second part of a concatenation appends to the whole.   *)
LEMMA ConcatAppend ==
  ASSUME NEW S, NEW s \in Seq(S), NEW t \in Seq(S), NEW e \in S
  PROVE  s \o Append(t, e) = Append(s \o t, e)
  <1>1. <<e>> \in Seq(S) /\ s \o t \in Seq(S)
    BY ConcatProperties
  <1>2. Append(t, e) = t \o <<e>>
    BY AppendIsConcat
  <1>3. Append(s \o t, e) = (s \o t) \o <<e>>
    BY <1>1, AppendIsConcat
  <1> QED
    BY <1>1, <1>2, <1>3, ConcatAssociative

(* Moving the head of the second part to the end of the first changes      *)
(* nothing: what a worker receives leaves the channel at the front.        *)
LEMMA ConcatMoveHead ==
  ASSUME NEW S, NEW s \in Seq(S), NEW t \in Seq(S), t # <<>>
  PROVE  Append(s, Head(t)) \o Tail(t) = s \o t
  <1>1. Head(t) \in S /\ Tail(t) \in Seq(S) /\ <<Head(t)>> \in Seq(S)
    BY HeadTailProperties
  <1>2. <<Head(t)>> \o Tail(t) = t
    <2>1. Len(t) \in Nat \ {0}
      BY EmptySeq
    <2>2. t = SubSeq(t, 1, Len(t)) /\ Tail(t) = SubSeq(t, 2, Len(t))
      BY SubSeqFull, TailIsSubSeq
    <2>3. SubSeq(t, 1, Len(t)) = <<t[1]>> \o SubSeq(t, 1 + 1, Len(t))
      BY <2>1, SubSeqRecursiveFirst
    <2>4. Head(t) = t[1]
      BY <2>1
    <2> QED
      BY <2>2, <2>3, <2>4
  <1>3. Append(s, Head(t)) = s \o <<Head(t)>>
    BY <1>1, AppendIsConcat
  <1> QED
    BY <1>1, <1>2, <1>3, ConcatAssociative

(* Removing one element of a sequence, as Unsubscribe does, leaves a       *)
(* sequence over the same set.                                             *)
LEMMA RemoveOne ==
  ASSUME NEW S, NEW s \in Seq(S), NEW i \in 1..Len(s)
  PROVE  SubSeq(s, 1, i - 1) \o SubSeq(s, i + 1, Len(s)) \in Seq(S)
  <1>1. Len(s) \in Nat /\ \A j \in 1..Len(s) : s[j] \in S
    BY LenProperties, ElementOfSeq
  <1>2. SubSeq(s, 1, i - 1) \in Seq(S)
    BY <1>1, SubSeqProperties
  <1>3. SubSeq(s, i + 1, Len(s)) \in Seq(S)
    BY <1>1, SubSeqProperties
  <1> QED
    BY <1>2, <1>3, ConcatProperties

(* What removing one element leaves at each place.                         *)
LEMMA RemoveOneElements ==
  ASSUME NEW S, NEW s \in Seq(S), NEW i \in 1..Len(s),
         NEW r, r = SubSeq(s, 1, i - 1) \o SubSeq(s, i + 1, Len(s))
  PROVE  /\ Len(r) = Len(s) - 1
         /\ \A j \in 1..(Len(s) - 1) : r[j] = IF j < i THEN s[j] ELSE s[j + 1]
  <1> DEFINE a == SubSeq(s, 1, i - 1)
             b == SubSeq(s, i + 1, Len(s))
  <1>1. Len(s) \in Nat /\ \A j \in 1..Len(s) : s[j] \in S
    BY LenProperties, ElementOfSeq
  <1>2. a \in Seq(S) /\ Len(a) = i - 1 /\ \A j \in 1..(i - 1) : a[j] = s[j]
    BY <1>1, SubSeqProperties
  <1>3. b \in Seq(S) /\ Len(b) = Len(s) - i
        /\ \A j \in 1..(Len(s) - i) : b[j] = s[i + j]
    <2>1. /\ i + 1 \in Int /\ Len(s) \in Int
          /\ \A j \in (i + 1)..Len(s) : s[j] \in S
      BY <1>1
    <2>2. b \in Seq(S) /\ Len(b) = IF i + 1 <= Len(s) THEN Len(s) - (i + 1) + 1 ELSE 0
      BY <1>1, <2>1, SubSeqProperties
    <2>3. \A j \in 1..(Len(s) - (i + 1) + 1) : b[j] = s[(i + 1) + j - 1]
      BY <1>1, <2>1, SubSeqProperties
    <2> QED
      BY <1>1, <2>2, <2>3
  <1> HIDE DEF a, b
  <1>4. /\ Len(a \o b) = Len(a) + Len(b)
        /\ \A j \in 1..(Len(a) + Len(b)) :
             (a \o b)[j] = IF j <= Len(a) THEN a[j] ELSE b[j - Len(a)]
    BY <1>2, <1>3, ConcatProperties
  <1>5. /\ Len(a \o b) = Len(s) - 1
        /\ \A j \in 1..(Len(s) - 1) :
             (a \o b)[j] = IF j < i THEN s[j] ELSE s[j + 1]
    <2>1. Len(a \o b) = Len(s) - 1 /\ Len(a) + Len(b) = Len(s) - 1
      BY <1>1, <1>2, <1>3, <1>4
    <2>2. ASSUME NEW j \in 1..(Len(s) - 1)
          PROVE  (a \o b)[j] = IF j < i THEN s[j] ELSE s[j + 1]
      <3>1. (a \o b)[j] = IF j <= Len(a) THEN a[j] ELSE b[j - Len(a)]
        BY <1>4, <2>1
      <3>2. CASE j < i
        <4>1. j \in 1..(i - 1) /\ j <= Len(a)
          BY <1>2, <3>2
        <4> QED
          BY <1>2, <3>1, <3>2, <4>1
      <3>3. CASE ~(j < i)
        <4>1. j - Len(a) \in 1..(Len(s) - i) /\ ~(j <= Len(a)) /\ i + (j - Len(a)) = j + 1
          BY <1>1, <1>2, <3>3
        <4> QED
          BY <1>3, <3>1, <3>3, <4>1
      <3> QED
        BY <3>2, <3>3
    <2> QED
      BY <2>1, <2>2
  <1>6. r = a \o b
    BY DEF a, b
  <1> QED
    BY <1>5, <1>6

(* The sequence numbers are numbers, and NotPublishing is well-typed.      *)
LEMMA SeqsFacts ==
  /\ Seqs \subseteq 0..MaxSeq /\ Seqs \subseteq Nat /\ 0..MaxSeq \subseteq Nat
  /\ NotPublishing \in PubState
  BY BusAssumption DEF Seqs, NotPublishing, AnyType, PubState

(* What a Publish in progress knows: its type, its number, its channel.    *)
LEMMA PublishFacts ==
  ASSUME BusInv, NEW p \in Publishers, pub[p].pc # "idle"
  PROVE  /\ pub[p] \in PubState
         /\ pub[p].type \in Types /\ pub[p].ev \in Seqs
         /\ pub[p].pc = "send" => pub[p].ch \in Seqs
  <1>1. pub[p] \in PubState /\ seq \in 0..MaxSeq /\ made \in [Types -> SUBSET Seqs]
    BY DEF BusInv, TypeOK
  <1>2. pub[p].type \in Types
    BY <1>1 DEF PubState
  <1>3. pub[p].ev \in 1..seq
    BY DEF BusInv, PublishesDistinct
  <1>4. pub[p].ev \in Seqs
    BY <1>1, <1>3, BusAssumption DEF Seqs
  <1>5. pub[p].pc = "send" => pub[p].ch \in made[pub[p].type]
    BY DEF BusInv, ChannelsInMap
  <1> QED
    BY <1>1, <1>2, <1>4, <1>5

(* Nothing was published and nobody is closing.                            *)
LEMMA BusInvInit == Init => BusInv
  <1> SUFFICES ASSUME Init PROVE BusInv
    OBVIOUS
  <1> USE BusAssumption
  <1>1. TypeOK
    <2>1. closed \in BOOLEAN /\ stopped \in BOOLEAN
      BY DEF Init
    <2>2. /\ seq \in 0..MaxSeq /\ typeSubs \in [Types -> Seq(Handlers)]
          /\ hasKey \subseteq Types /\ chClosed \subseteq Seqs /\ closer = "open"
          /\ queues \in [Types -> 0..MaxSeq] /\ made \in [Types -> SUBSET Seqs]
      BY DEF Init
    <2>3. /\ buf \in [Seqs -> Seq(Seqs)] /\ wtodo \in [Seqs -> Seq(Handlers)]
          /\ accepted \in [Types -> Seq(Seqs)] /\ received \in [Types -> Seq(Seqs)]
          /\ delivered \in [Handlers -> Seq(Seqs)]
      BY EmptySeq DEF Init
    <2>4. \A c \in Seqs : Len(buf[c]) <= QueueCap
      BY EmptySeq DEF Init
    <2>5. /\ wpc \in [Seqs -> {"none", "receive", "copy", "call", "exit"}]
          /\ wev \in [Seqs -> 0..MaxSeq]
          /\ pub \in [Publishers -> PubState]
      BY SeqsFacts DEF Init
    <2> QED
      BY <2>1, <2>2, <2>3, <2>4, <2>5, Zenon DEF TypeOK
  <1>2. ClosePhases
    BY DEF Init, ClosePhases
  <1>3. PublishesDistinct /\ ChannelsInMap /\ OneWorkerPerType
    BY DEF Init, PublishesDistinct, ChannelsInMap, OneWorkerPerType, NotPublishing
  <1>4. WorkersInStep /\ NothingLost
    BY DEF Init, WorkersInStep, NothingLost
  <1>5. DeliveryInStep
    <2>1. \A t \in Types : InitialsFirst(t, InitialSubs[t], 0)
      <3> TAKE t \in Types
      <3>1. Len(InitialSubs[t]) \in Nat /\ DOMAIN InitialSubs[t] = 1..Len(InitialSubs[t])
        BY LenProperties
      <3> QED
        BY <3>1 DEF InitialsFirst
    <2>2. \A t \in Types : \A i \in DOMAIN InitialSubs[t] : InitialSubs[t][i] \in Handlers
      BY ElementOfSeq, LenProperties
    <2> QED
      BY <2>1, <2>2 DEF Init, DeliveryInStep
  <1> QED
    BY <1>1, <1>2, <1>3, <1>4, <1>5 DEF BusInv

(* Every step keeps the types.                                             *)
LEMMA TypeOKNext == ASSUME BusInv, [Next]_vars PROVE TypeOK'
  <1> USE BusAssumption, SeqsFacts
  <1>0. TypeOK
    BY DEF BusInv
  <1>1. ASSUME NEW p \in Publishers, NEW t \in Types, PublishBegin(p, t)
        PROVE  TypeOK'
    <2>1. seq' \in 0..MaxSeq
      BY <1>0, <1>1 DEF PublishBegin, TypeOK
    <2>2. pub' \in [Publishers -> PubState]
      <3>1. [pc |-> "lookup", type |-> t, ev |-> seq + 1, ch |-> 0] \in PubState
        BY <1>0, <1>1 DEF PublishBegin, TypeOK, PubState
      <3> QED
        BY <1>0, <1>1, <3>1 DEF PublishBegin, TypeOK
    <2> QED
      BY <1>0, <1>1, <2>1, <2>2, Zenon DEF PublishBegin, TypeOK, chanVars,
         workerVars, history
  <1>2. ASSUME NEW p \in Publishers, PublishLookup(p) PROVE TypeOK'
    <2>1. /\ pub[p] \in PubState /\ pub[p].ev \in Seqs /\ pub[p].type \in Types
      BY <1>2, PublishFacts DEF PublishLookup
    <2>2. /\ queues' \in [Types -> 0..MaxSeq] /\ made' \in [Types -> SUBSET Seqs]
          /\ wpc' \in [Seqs -> {"none", "receive", "copy", "call", "exit"}]
          /\ pub' \in [Publishers -> PubState]
      <3>1. CASE MakesChannel(pub[p].type)
        <4>1. /\ queues' = [queues EXCEPT ![pub[p].type] = pub[p].ev]
              /\ made' = [made EXCEPT ![pub[p].type] = @ \cup {pub[p].ev}]
              /\ wpc' = [wpc EXCEPT ![pub[p].ev] = "receive"]
              /\ pub' = [pub EXCEPT ![p] = [@ EXCEPT !.pc = "send", !.ch = pub[p].ev]]
          BY <1>2, <3>1 DEF PublishLookup
        <4>2. [pub[p] EXCEPT !.pc = "send", !.ch = pub[p].ev] \in PubState
          BY <2>1 DEF PubState
        <4>3. pub' \in [Publishers -> PubState]
          BY <1>0, <4>1, <4>2 DEF TypeOK
        <4>4. queues' \in [Types -> 0..MaxSeq]
          BY <1>0, <2>1, <4>1 DEF TypeOK
        <4>5. made' \in [Types -> SUBSET Seqs]
          BY <1>0, <2>1, <4>1 DEF TypeOK
        <4>6. wpc' \in [Seqs -> {"none", "receive", "copy", "call", "exit"}]
          BY <1>0, <4>1 DEF TypeOK
        <4> QED
          BY <4>3, <4>4, <4>5, <4>6
      <3>2. CASE ~MakesChannel(pub[p].type)
        <4> DEFINE q == IF queues[pub[p].type] = 0 THEN NotPublishing
                        ELSE [pub[p] EXCEPT !.pc = "send",
                                            !.ch = queues[pub[p].type]]
        <4>1. pub' = [pub EXCEPT ![p] = q] /\ UNCHANGED <<queues, made, wpc>>
          BY <1>2, <3>2 DEF PublishLookup
        <4>2. queues[pub[p].type] \in 0..MaxSeq
          BY <1>0, <2>1 DEF TypeOK
        <4>3. q \in PubState
          BY <2>1, <4>2 DEF PubState
        <4> HIDE DEF q
        <4> QED
          BY <1>0, <4>1, <4>3 DEF TypeOK
      <3> QED
        BY <3>1, <3>2
    <2> QED
      BY <1>0, <1>2, <2>2, Zenon DEF PublishLookup, TypeOK, history
  <1>3. ASSUME NEW p \in Publishers, PublishSend(p) PROVE TypeOK'
    <2>1. /\ pub[p].ev \in Seqs /\ pub[p].type \in Types
          /\ pub[p].ch \in Seqs
      BY <1>3, PublishFacts DEF PublishSend
    <2>2. /\ buf' \in [Seqs -> Seq(Seqs)] /\ accepted' \in [Types -> Seq(Seqs)]
          /\ \A c \in Seqs : Len(buf'[c]) <= QueueCap
      <3>1. CASE SendSucceeds(pub[p].ch)
        <4>1. /\ buf' = [buf EXCEPT ![pub[p].ch] = Append(@, pub[p].ev)]
              /\ accepted' = [accepted EXCEPT ![pub[p].type] = Append(@, pub[p].ev)]
          BY <1>3, <3>1 DEF PublishSend
        <4>2. /\ buf[pub[p].ch] \in Seq(Seqs)
              /\ accepted[pub[p].type] \in Seq(Seqs)
          BY <1>0, <2>1 DEF TypeOK
        <4>3. /\ Append(buf[pub[p].ch], pub[p].ev) \in Seq(Seqs)
              /\ Append(accepted[pub[p].type], pub[p].ev) \in Seq(Seqs)
              /\ Len(Append(buf[pub[p].ch], pub[p].ev)) <= QueueCap
          BY <2>1, <3>1, <4>2, AppendProperties, LenProperties DEF SendSucceeds
        <4>4. buf' \in [Seqs -> Seq(Seqs)] /\ accepted' \in [Types -> Seq(Seqs)]
          BY <1>0, <4>1, <4>3 DEF TypeOK
        <4>5. \A c \in Seqs : Len(buf'[c]) <= QueueCap
          BY <1>0, <4>1, <4>3 DEF TypeOK
        <4> QED
          BY <4>4, <4>5
      <3>2. CASE ~SendSucceeds(pub[p].ch)
        BY <1>0, <1>3, <3>2 DEF PublishSend, TypeOK
      <3> QED
        BY <3>1, <3>2
    <2>3. pub' \in [Publishers -> PubState]
      BY <1>0, <1>3 DEF PublishSend, TypeOK
    <2> QED
      BY <1>0, <1>3, <2>2, <2>3, Zenon DEF PublishSend, TypeOK, busVars,
         workerVars
  <1>4. ASSUME NEW t \in Types, NEW h \in Handlers, Subscribe(t, h)
        PROVE  TypeOK'
    <2>1. Append(typeSubs[t], h) \in Seq(Handlers)
      BY <1>0, AppendProperties DEF TypeOK
    <2>2. typeSubs' \in [Types -> Seq(Handlers)] /\ hasKey' \subseteq Types
      BY <1>0, <1>4, <2>1 DEF Subscribe, TypeOK
    <2> QED
      BY <1>0, <1>4, <2>2, Zenon DEF Subscribe, TypeOK, chanVars, workerVars,
         history
  <1>5. ASSUME NEW t \in Types, NEW h \in Handlers, Unsubscribe(t, h)
        PROVE  TypeOK'
    <2>1. PICK i \in DOMAIN typeSubs[t] :
            typeSubs' = [typeSubs EXCEPT ![t] =
                           SubSeq(@, 1, i - 1) \o SubSeq(@, i + 1, Len(@))]
      BY <1>5 DEF Unsubscribe
    <2>2. typeSubs[t] \in Seq(Handlers) /\ i \in 1..Len(typeSubs[t])
      BY <1>0, LenProperties DEF TypeOK
    <2>3. SubSeq(typeSubs[t], 1, i - 1)
            \o SubSeq(typeSubs[t], i + 1, Len(typeSubs[t])) \in Seq(Handlers)
      BY <2>2, RemoveOne
    <2>4. typeSubs' \in [Types -> Seq(Handlers)]
      BY <1>0, <2>1, <2>3 DEF TypeOK
    <2> QED
      BY <1>0, <1>5, <2>4, Zenon DEF Unsubscribe, TypeOK, chanVars, workerVars,
         history
  <1>6. ASSUME NEW c \in Seqs, NEW t \in Types, WorkerReceive(t, c)
        PROVE  TypeOK'
    <2>1. /\ Head(buf[c]) \in Seqs /\ Tail(buf[c]) \in Seq(Seqs)
          /\ Len(Tail(buf[c])) <= QueueCap
      <3>1. buf[c] \in Seq(Seqs) /\ buf[c] # <<>> /\ Len(buf[c]) <= QueueCap
        BY <1>0, <1>6 DEF WorkerReceive, TypeOK
      <3>2. /\ Head(buf[c]) \in Seqs /\ Tail(buf[c]) \in Seq(Seqs)
            /\ Len(Tail(buf[c])) = Len(buf[c]) - 1 /\ Len(buf[c]) \in Nat
        BY <3>1, HeadTailProperties, LenProperties
      <3> QED
        BY <3>1, <3>2
    <2>2. /\ buf' \in [Seqs -> Seq(Seqs)]
          /\ \A d \in Seqs : Len(buf'[d]) <= QueueCap
      BY <1>0, <1>6, <2>1 DEF WorkerReceive, TypeOK
    <2>3. Append(received[t], Head(buf[c])) \in Seq(Seqs)
      BY <1>0, <2>1, AppendProperties DEF TypeOK
    <2>4. /\ received' \in [Types -> Seq(Seqs)]
          /\ wpc' \in [Seqs -> {"none", "receive", "copy", "call", "exit"}]
          /\ wev' \in [Seqs -> 0..MaxSeq]
      BY <1>0, <1>6, <2>1, <2>3 DEF WorkerReceive, TypeOK
    <2> QED
      BY <1>0, <1>6, <2>2, <2>4, Zenon DEF WorkerReceive, TypeOK, busVars
  <1>7. ASSUME NEW c \in Seqs, NEW t \in Types, WorkerCopy(t, c)
        PROVE  TypeOK'
    <2>1. /\ wtodo' \in [Seqs -> Seq(Handlers)]
          /\ wpc' \in [Seqs -> {"none", "receive", "copy", "call", "exit"}]
      BY <1>0, <1>7 DEF WorkerCopy, TypeOK
    <2> QED
      BY <1>0, <1>7, <2>1, Zenon DEF WorkerCopy, TypeOK, busVars, chanVars,
         history
  <1>8. ASSUME NEW c \in Seqs, WorkerCall(c) PROVE TypeOK'
    <2>1. CASE wtodo[c] = <<>>
      <3>1. /\ wpc' = [wpc EXCEPT ![c] = "receive"]
            /\ wev' = [wev EXCEPT ![c] = 0] /\ UNCHANGED <<wtodo, delivered>>
        BY <1>8, <2>1, Zenon DEF WorkerCall
      <3>2. /\ wpc' \in [Seqs -> {"none", "receive", "copy", "call", "exit"}]
            /\ wev' \in [Seqs -> 0..MaxSeq]
        BY <1>0, <3>1 DEF TypeOK
      <3> QED
        BY <1>0, <1>8, <3>1, <3>2, Zenon DEF WorkerCall, TypeOK, busVars, chanVars
    <2>2. CASE wtodo[c] # <<>>
      <3>1. Head(wtodo[c]) \in Handlers /\ Tail(wtodo[c]) \in Seq(Handlers)
        BY <1>0, <2>2, HeadTailProperties DEF TypeOK
      <3>2. Append(delivered[Head(wtodo[c])], wev[c]) \in Seq(Seqs)
        <4>1. wev[c] \in Seqs
          BY <1>8 DEF WorkerCall, BusInv, WorkersInStep
        <4> QED
          BY <1>0, <3>1, <4>1, AppendProperties DEF TypeOK
      <3>3. /\ wtodo' \in [Seqs -> Seq(Handlers)]
            /\ delivered' \in [Handlers -> Seq(Seqs)] /\ UNCHANGED <<wpc, wev>>
        <4>1. /\ delivered' = [delivered EXCEPT ![Head(wtodo[c])] = Append(@, wev[c])]
              /\ wtodo' = [wtodo EXCEPT ![c] = Tail(@)]
              /\ UNCHANGED <<wpc, wev>>
          BY <1>8, <2>2, Zenon DEF WorkerCall
        <4> QED
          BY <1>0, <3>1, <3>2, <4>1 DEF TypeOK
      <3> QED
        BY <1>0, <1>8, <3>3, Zenon DEF WorkerCall, TypeOK, busVars, chanVars
    <2> QED
      BY <2>1, <2>2
  <1>9. ASSUME NEW c \in Seqs, WorkerExit(c) PROVE TypeOK'
    <2>1. wpc' \in [Seqs -> {"none", "receive", "copy", "call", "exit"}]
      BY <1>0, <1>9 DEF WorkerExit, TypeOK
    <2> QED
      BY <1>0, <1>9, <2>1, Zenon DEF WorkerExit, TypeOK, busVars, chanVars,
         history
  <1>10. CASE CloseMark
    BY <1>0, <1>10, Zenon DEF CloseMark, TypeOK, chanVars, workerVars, history
  <1>11. CASE CloseStop
    BY <1>0, <1>11, Zenon DEF CloseStop, TypeOK, chanVars, workerVars, history
  <1>12. CASE CloseQueues
    <2>1. OpenChannels \subseteq Seqs
      BY <1>0 DEF OpenChannels, TypeOK, Seqs
    <2>2. /\ chClosed' \subseteq Seqs /\ queues' \in [Types -> 0..MaxSeq]
          /\ closer' = "wait"
      BY <1>0, <1>12, <2>1 DEF CloseQueues, TypeOK
    <2> QED
      BY <1>0, <1>12, <2>2, Zenon DEF CloseQueues, TypeOK, workerVars, history
  <1>13. CASE CloseClear
    <2>1. /\ typeSubs' \in [Types -> Seq(Handlers)] /\ hasKey' \subseteq Types
          /\ closer' = "done"
      BY <1>13, EmptySeq DEF CloseClear
    <2> QED
      BY <1>0, <1>13, <2>1, Zenon DEF CloseClear, TypeOK, chanVars, workerVars,
         history
  <1>14. CASE UNCHANGED vars
    BY <1>0, <1>14, Zenon DEF vars, busVars, chanVars, workerVars, history, TypeOK
  <1> QED
    BY <1>1, <1>2, <1>3, <1>4, <1>5, <1>6, <1>7, <1>8, <1>9, <1>10, <1>11,
       <1>12, <1>13, <1>14
    DEF Next, Publish, Worker, Close

(* What the lookup of a Publish does, in its two cases.                    *)
LEMMA LookupCases ==
  ASSUME BusInv, NEW p \in Publishers, PublishLookup(p)
  PROVE  \/ /\ MakesChannel(pub[p].type)
            /\ queues' = [queues EXCEPT ![pub[p].type] = pub[p].ev]
            /\ made' = [made EXCEPT ![pub[p].type] = @ \cup {pub[p].ev}]
            /\ wpc' = [wpc EXCEPT ![pub[p].ev] = "receive"]
            /\ pub' = [pub EXCEPT ![p] = [@ EXCEPT !.pc = "send", !.ch = pub[p].ev]]
         \/ /\ ~MakesChannel(pub[p].type)
            /\ UNCHANGED <<queues, made, wpc>>
            /\ pub' = [pub EXCEPT ![p] =
                         IF queues[pub[p].type] = 0 THEN NotPublishing
                         ELSE [@ EXCEPT !.pc = "send", !.ch = queues[pub[p].type]]]
  BY DEF PublishLookup

(* The phases of Close.                                                    *)
LEMMA ClosePhasesNext == ASSUME BusInv, [Next]_vars PROVE ClosePhases'
  <1>0. ClosePhases /\ TypeOK
    BY DEF BusInv
  <1>1. ASSUME NEW p \in Publishers, PublishLookup(p) PROVE ClosePhases'
    <2>1. UNCHANGED <<closed, stopped, closer>>
      BY <1>1 DEF PublishLookup
    <2>2. CASE MakesChannel(pub[p].type)
      <3>1. closer \notin {"wait", "done"}
        BY <1>0, <2>2 DEF ClosePhases, MakesChannel
      <3> QED
        BY <1>0, <2>1, <3>1 DEF ClosePhases
    <2>3. CASE ~MakesChannel(pub[p].type)
      <3>1. UNCHANGED queues
        BY <1>1, <2>3, LookupCases
      <3> QED
        BY <1>0, <2>1, <3>1 DEF ClosePhases
    <2> QED
      BY <2>2, <2>3
  <1>2. CASE CloseMark
    BY <1>0, <1>2 DEF CloseMark, ClosePhases
  <1>3. CASE CloseStop
    BY <1>0, <1>3 DEF CloseStop, ClosePhases
  <1>4. CASE CloseQueues
    BY <1>0, <1>4 DEF CloseQueues, ClosePhases
  <1>5. CASE CloseClear
    BY <1>0, <1>5 DEF CloseClear, ClosePhases
  <1>6. ASSUME UNCHANGED <<closed, stopped, closer, queues>> PROVE ClosePhases'
    BY <1>0, <1>6 DEF ClosePhases
  <1>7. ASSUME NEW p \in Publishers, NEW t \in Types,
               PublishBegin(p, t) \/ PublishSend(p)
        PROVE  ClosePhases'
    BY <1>6, <1>7 DEF PublishBegin, PublishSend, busVars
  <1>8. ASSUME NEW t \in Types, NEW h \in Handlers,
               Subscribe(t, h) \/ Unsubscribe(t, h)
        PROVE  ClosePhases'
    BY <1>6, <1>8 DEF Subscribe, Unsubscribe
  <1>9. ASSUME NEW c \in Seqs, Worker(c) PROVE ClosePhases'
    BY <1>6, <1>9 DEF Worker, WorkerReceive, WorkerCopy, WorkerCall, WorkerExit,
       busVars
  <1>10. CASE UNCHANGED vars
    BY <1>6, <1>10 DEF vars, busVars
  <1> QED
    BY <1>1, <1>2, <1>3, <1>4, <1>5, <1>7, <1>8, <1>9, <1>10, BusAssumption
    DEF Next, Publish, Close

(* A sequence number is drawn once, so numbers in flight stay distinct and *)
(* channels are new when they are made.                                    *)
LEMMA PublishesNext == ASSUME BusInv, [Next]_vars PROVE PublishesDistinct'
  <1> USE BusAssumption
  <1>0. PublishesDistinct /\ TypeOK
    BY DEF BusInv
  <1>1. ASSUME NEW p \in Publishers, NEW t \in Types, PublishBegin(p, t)
        PROVE  PublishesDistinct'
    <2>1. /\ seq \in Nat /\ seq' = seq + 1 /\ pub[p].pc = "idle"
          /\ UNCHANGED made
      BY <1>0, <1>1, SeqsFacts DEF PublishBegin, TypeOK, chanVars
    <2>2. \A t1 \in Types : \A c \in made[t1] : c \in Nat /\ c <= seq
      BY <1>0, SeqsFacts DEF PublishesDistinct, TypeOK
    <2>3. CASE t \in hasKey
      <3>1. /\ pub'[p] = [pc |-> "lookup", type |-> t, ev |-> seq + 1, ch |-> 0]
            /\ \A q \in Publishers : q # p => pub'[q] = pub[q]
        BY <1>0, <1>1, <2>3 DEF PublishBegin, TypeOK
      <3>2. \A q \in Publishers : pub'[q].pc # "idle" =>
              pub'[q].ev \in 1..seq' /\ (q # p => pub'[q].ev \in 1..seq)
        BY <1>0, <2>1, <3>1 DEF PublishesDistinct
      <3>3. \A q, r \in Publishers :
              pub'[q].pc # "idle" /\ pub'[r].pc # "idle" /\ pub'[q].ev = pub'[r].ev
                => q = r
        <4> SUFFICES ASSUME NEW q \in Publishers, NEW r \in Publishers,
                            pub'[q].pc # "idle", pub'[r].pc # "idle",
                            pub'[q].ev = pub'[r].ev
                     PROVE  q = r
          OBVIOUS
        <4>1. pub'[p].ev = seq + 1
          BY <3>1
        <4>2. CASE q = p \/ r = p
          BY <2>1, <3>2, <4>1, <4>2
        <4>3. CASE q # p /\ r # p
          BY <1>0, <3>1, <4>3, ZenonT(60) DEF PublishesDistinct
        <4> QED
          BY <4>2, <4>3
      <3>4. \A t1 \in Types : \A c \in made'[t1] :
              c <= seq' /\ \A q \in Publishers : pub'[q].pc = "lookup" => pub'[q].ev # c
        <4> SUFFICES ASSUME NEW t1 \in Types, NEW c \in made[t1], NEW q \in Publishers
                     PROVE  c <= seq + 1 /\ (pub'[q].pc = "lookup" => pub'[q].ev # c)
          BY <2>1
        <4>1. c \in Nat /\ c <= seq
          BY <2>2
        <4>2. CASE q = p
          BY <2>1, <3>1, <4>1, <4>2
        <4>3. CASE q # p
          BY <1>0, <2>1, <3>1, <4>1, <4>3 DEF PublishesDistinct
        <4> QED
          BY <4>2, <4>3
      <3> QED
        BY <3>2, <3>3, <3>4 DEF PublishesDistinct
    <2>4. CASE t \notin hasKey
      <3>1. UNCHANGED pub
        BY <1>1, <2>4 DEF PublishBegin
      <3>2. \A t1 \in Types : \A c \in made'[t1] : c <= seq'
        BY <2>1, <2>2
      <3>3. \A q \in Publishers : pub'[q].pc # "idle" => pub'[q].ev \in 1..seq'
        BY <1>0, <2>1, <3>1 DEF PublishesDistinct
      <3> QED
        BY <1>0, <2>1, <3>1, <3>2, <3>3 DEF PublishesDistinct
    <2> QED
      BY <2>3, <2>4
  <1>2. ASSUME NEW p \in Publishers, PublishLookup(p) PROVE PublishesDistinct'
    <2>1. /\ pub[p].pc = "lookup" /\ pub[p].ev \in Seqs /\ pub[p].type \in Types
          /\ pub[p] \in PubState /\ UNCHANGED seq
      BY <1>2, PublishFacts DEF PublishLookup
    <2>2. /\ pub'[p].pc \in {"idle", "send"}
          /\ pub'[p].pc # "idle" => pub'[p].ev = pub[p].ev
          /\ \A q \in Publishers : q # p => pub'[q] = pub[q]
      <3>1. CASE MakesChannel(pub[p].type)
        <4>1. pub' = [pub EXCEPT ![p] = [@ EXCEPT !.pc = "send", !.ch = pub[p].ev]]
          BY <1>2, <3>1, LookupCases
        <4> QED
          BY <1>0, <2>1, <4>1 DEF TypeOK, PubState
      <3>2. CASE ~MakesChannel(pub[p].type)
        <4>1. pub' = [pub EXCEPT ![p] =
                        IF queues[pub[p].type] = 0 THEN NotPublishing
                        ELSE [@ EXCEPT !.pc = "send", !.ch = queues[pub[p].type]]]
          BY <1>2, <3>2, LookupCases
        <4> QED
          BY <1>0, <2>1, <4>1 DEF TypeOK, PubState, NotPublishing
      <3> QED
        BY <3>1, <3>2
    <2>3. \A t \in Types : made'[t] \subseteq made[t] \cup {pub[p].ev}
      <3>1. \/ made' = [made EXCEPT ![pub[p].type] = @ \cup {pub[p].ev}]
            \/ made' = made
        BY <1>2, LookupCases
      <3> QED
        BY <1>0, <2>1, <3>1 DEF TypeOK
    <2>4. \A q \in Publishers : pub'[q].pc # "idle" =>
            pub[q].pc # "idle" /\ pub'[q].ev = pub[q].ev
      BY <2>1, <2>2
    <2>5. pub[p].ev \in 1..seq
      BY <1>0, <2>1 DEF PublishesDistinct
    <2>6. \A t \in Types : \A c \in made'[t] :
            c <= seq' /\ \A q \in Publishers : pub'[q].pc = "lookup" => pub'[q].ev # c
      <3> SUFFICES ASSUME NEW t \in Types, NEW c \in made'[t]
                   PROVE  /\ c <= seq
                          /\ \A q \in Publishers :
                               pub'[q].pc = "lookup" => pub'[q].ev # c
        BY <2>1
      <3>1. CASE c \in made[t]
        BY <1>0, <2>2, <3>1 DEF PublishesDistinct
      <3>2. CASE c = pub[p].ev
        <4>1. c <= seq
          BY <1>0, <2>5, <3>2 DEF TypeOK
        <4>2. \A q \in Publishers : pub'[q].pc = "lookup" => pub'[q].ev # c
          BY <1>0, <2>1, <2>2, <3>2 DEF PublishesDistinct
        <4> QED
          BY <4>1, <4>2
      <3> QED
        BY <2>3, <3>1, <3>2
    <2>7. /\ \A q \in Publishers : pub'[q].pc # "idle" => pub'[q].ev \in 1..seq'
          /\ \A q, r \in Publishers :
               pub'[q].pc # "idle" /\ pub'[r].pc # "idle" /\ pub'[q].ev = pub'[r].ev
                 => q = r
      BY <1>0, <2>1, <2>4 DEF PublishesDistinct
    <2> QED
      BY <2>6, <2>7 DEF PublishesDistinct
  <1>3. ASSUME NEW p \in Publishers, PublishSend(p) PROVE PublishesDistinct'
    <2>1. /\ pub'[p].pc = "idle" /\ \A q \in Publishers : q # p => pub'[q] = pub[q]
          /\ UNCHANGED <<seq, made>>
      BY <1>0, <1>3 DEF PublishSend, TypeOK, NotPublishing, busVars
    <2> QED
      BY <1>0, <2>1, ZenonT(60) DEF PublishesDistinct
  <1>4. ASSUME UNCHANGED <<seq, pub, made>> PROVE PublishesDistinct'
    BY <1>0, <1>4 DEF PublishesDistinct
  <1>5. ASSUME NEW t \in Types, NEW h \in Handlers,
               Subscribe(t, h) \/ Unsubscribe(t, h)
        PROVE  PublishesDistinct'
    BY <1>4, <1>5 DEF Subscribe, Unsubscribe, chanVars
  <1>6. ASSUME NEW c \in Seqs, Worker(c) PROVE PublishesDistinct'
    BY <1>4, <1>6 DEF Worker, WorkerReceive, WorkerCopy, WorkerCall, WorkerExit,
       busVars, chanVars
  <1>7. CASE Close
    BY <1>4, <1>7 DEF Close, CloseMark, CloseStop, CloseQueues, CloseClear, chanVars
  <1>8. CASE UNCHANGED vars
    BY <1>4, <1>8 DEF vars, busVars, chanVars
  <1> QED
    BY <1>1, <1>2, <1>3, <1>5, <1>6, <1>7, <1>8 DEF Next, Publish

(* Channels are made under b.queueMu, when the type has none and b.stopped *)
(* is not set; Close takes them out only after it has set b.stopped.       *)
LEMMA ChannelsNext ==
  ASSUME BusInv, [Next]_vars
  PROVE  ChannelsInMap' /\ OneWorkerPerType'
  <1> USE BusAssumption
  <1>0. ChannelsInMap /\ OneWorkerPerType /\ TypeOK /\ ClosePhases /\ PublishesDistinct
    BY DEF BusInv
  <1>1. ASSUME NEW p \in Publishers, NEW t \in Types, PublishBegin(p, t)
        PROVE  ChannelsInMap' /\ OneWorkerPerType'
    <2>1. UNCHANGED <<queues, made, closer>>
      BY <1>1 DEF PublishBegin, chanVars
    <2>2. \A q \in Publishers : pub'[q].pc = "send" => pub'[q] = pub[q]
      BY <1>0, <1>1 DEF PublishBegin, TypeOK
    <2> QED
      BY <1>0, <2>1, <2>2 DEF ChannelsInMap, OneWorkerPerType
  <1>2. ASSUME NEW p \in Publishers, PublishLookup(p)
        PROVE  ChannelsInMap' /\ OneWorkerPerType'
    <2> DEFINE t == pub[p].type
               e == pub[p].ev
    <2>1. /\ pub[p].pc = "lookup" /\ e \in Seqs /\ t \in Types
          /\ pub[p] \in PubState /\ UNCHANGED <<closer, stopped>>
      BY <1>2, PublishFacts DEF PublishLookup
    <2>2. CASE MakesChannel(t)
      <3>1. /\ queues' = [queues EXCEPT ![t] = e]
            /\ made' = [made EXCEPT ![t] = @ \cup {e}]
            /\ pub' = [pub EXCEPT ![p] = [@ EXCEPT !.pc = "send", !.ch = e]]
        BY <1>2, <2>2, LookupCases
      <3>2. made[t] = {}
        BY <1>0, <2>1, <2>2 DEF ChannelsInMap, ClosePhases, MakesChannel
      <3>3. /\ queues'[t] = e /\ made'[t] = {e}
            /\ \A u \in Types : u # t => queues'[u] = queues[u] /\ made'[u] = made[u]
        BY <1>0, <2>1, <3>1, <3>2 DEF TypeOK
      <3>4. \A u \in Types : e \notin made[u]
        BY <1>0, <2>1 DEF PublishesDistinct
      <3>5. /\ pub'[p].type = t /\ pub'[p].ch = e
            /\ \A q \in Publishers : q # p => pub'[q] = pub[q]
        BY <1>0, <2>1, <3>1 DEF TypeOK, PubState
      <3>6. /\ \A u \in Types : queues'[u] # 0 => queues'[u] \in made'[u]
            /\ \A u \in Types : queues'[u] = 0 =>
                 made'[u] = {} \/ closer' \in {"wait", "done"}
        <4> SUFFICES ASSUME NEW u \in Types
                     PROVE  /\ queues'[u] # 0 => queues'[u] \in made'[u]
                            /\ queues'[u] = 0 =>
                                 made'[u] = {} \/ closer' \in {"wait", "done"}
          OBVIOUS
        <4>1. CASE u = t
          <5>1. e # 0
            BY <2>1 DEF Seqs
          <5> QED
            BY <3>3, <4>1, <5>1
        <4>2. CASE u # t
          BY <1>0, <2>1, <3>3, <4>2 DEF ChannelsInMap
        <4> QED
          BY <4>1, <4>2
      <3>7. \A u, v \in Types : \A c \in made'[u] : c \in made'[v] => u = v
        BY <1>0, <3>3, <3>4 DEF ChannelsInMap
      <3>8. \A q \in Publishers : pub'[q].pc = "send" => pub'[q].ch \in made'[pub'[q].type]
        <4> SUFFICES ASSUME NEW q \in Publishers, pub'[q].pc = "send"
                     PROVE  pub'[q].ch \in made'[pub'[q].type]
          OBVIOUS
        <4>1. CASE q = p
          BY <3>3, <3>5, <4>1
        <4>2. CASE q # p
          <5>1. pub[q].pc = "send" /\ pub'[q] = pub[q] /\ pub[q].type \in Types
            BY <3>5, <4>2, PublishFacts
          <5>2. pub[q].ch \in made[pub[q].type]
            BY <1>0, <5>1 DEF ChannelsInMap
          <5> QED
            BY <3>2, <3>3, <5>1, <5>2
        <4> QED
          BY <4>1, <4>2
      <3>9. OneWorkerPerType'
        BY <1>0, <3>3 DEF OneWorkerPerType
      <3> QED
        BY <3>6, <3>7, <3>8, <3>9 DEF ChannelsInMap
    <2>3. CASE ~MakesChannel(t)
      <3>1. /\ UNCHANGED <<queues, made>>
            /\ pub' = [pub EXCEPT ![p] =
                         IF queues[t] = 0 THEN NotPublishing
                         ELSE [@ EXCEPT !.pc = "send", !.ch = queues[t]]]
        BY <1>2, <2>3, LookupCases
      <3>2. /\ \A q \in Publishers : q # p => pub'[q] = pub[q]
            /\ pub'[p].pc = "send" => pub'[p].type = t /\ pub'[p].ch = queues[t]
                                      /\ queues[t] # 0
        BY <1>0, <2>1, <3>1 DEF TypeOK, PubState, NotPublishing
      <3>3. \A q \in Publishers : pub'[q].pc = "send" => pub'[q].ch \in made[pub'[q].type]
        <4> SUFFICES ASSUME NEW q \in Publishers, pub'[q].pc = "send"
                     PROVE  pub'[q].ch \in made[pub'[q].type]
          OBVIOUS
        <4>1. CASE q = p
          BY <1>0, <2>1, <3>2, <4>1 DEF ChannelsInMap
        <4>2. CASE q # p
          BY <1>0, <3>2, <4>2 DEF ChannelsInMap
        <4> QED
          BY <4>1, <4>2
      <3> QED
        BY <1>0, <2>1, <3>1, <3>3 DEF ChannelsInMap, OneWorkerPerType
    <2> QED
      BY <2>2, <2>3
  <1>3. ASSUME NEW p \in Publishers, PublishSend(p)
        PROVE  ChannelsInMap' /\ OneWorkerPerType'
    <2>1. /\ \A q \in Publishers : pub'[q].pc = "send" => pub'[q] = pub[q]
          /\ UNCHANGED <<queues, made, closer>>
      BY <1>0, <1>3 DEF PublishSend, TypeOK, NotPublishing, busVars
    <2> QED
      BY <1>0, <2>1 DEF ChannelsInMap, OneWorkerPerType
  <1>4. CASE CloseQueues
    <2>1. /\ \A t \in Types : queues'[t] = 0
          /\ closer' = "wait" /\ UNCHANGED <<made, pub>>
      BY <1>4 DEF CloseQueues
    <2> QED
      BY <1>0, <2>1 DEF ChannelsInMap, OneWorkerPerType
  <1>5. ASSUME UNCHANGED <<queues, made, pub>>,
               closer \in {"wait", "done"} => closer' \in {"wait", "done"}
        PROVE  ChannelsInMap' /\ OneWorkerPerType'
    BY <1>0, <1>5 DEF ChannelsInMap, OneWorkerPerType
  <1>6. CASE CloseMark \/ CloseStop \/ CloseClear
    BY <1>5, <1>6 DEF CloseMark, CloseStop, CloseClear, chanVars
  <1>7. ASSUME NEW t \in Types, NEW h \in Handlers,
               Subscribe(t, h) \/ Unsubscribe(t, h)
        PROVE  ChannelsInMap' /\ OneWorkerPerType'
    BY <1>5, <1>7 DEF Subscribe, Unsubscribe, chanVars
  <1>8. ASSUME NEW c \in Seqs, Worker(c) PROVE ChannelsInMap' /\ OneWorkerPerType'
    BY <1>5, <1>8 DEF Worker, WorkerReceive, WorkerCopy, WorkerCall, WorkerExit,
       busVars, chanVars
  <1>9. CASE UNCHANGED vars
    BY <1>5, <1>9 DEF vars, busVars, chanVars
  <1> QED
    BY <1>1, <1>2, <1>3, <1>4, <1>6, <1>7, <1>8, <1>9 DEF Next, Publish, Close

(* A worker exists from the making of its channel on and returns only from *)
(* a closed and empty one, on which no send succeeds any more.             *)
LEMMA WorkersInStepNext == ASSUME BusInv, [Next]_vars PROVE WorkersInStep'
  <1> USE BusAssumption
  <1>0. WorkersInStep /\ TypeOK /\ ClosePhases /\ ChannelsInMap
    BY DEF BusInv
  <1>1. ASSUME NEW p \in Publishers, PublishLookup(p) PROVE WorkersInStep'
    <2> DEFINE t == pub[p].type
               e == pub[p].ev
    <2>1. /\ e \in Seqs /\ t \in Types /\ \A u \in Types : e \notin made[u]
          /\ UNCHANGED <<closer, stopped, buf, chClosed, wev, accepted, received>>
      BY <1>1, PublishFacts DEF PublishLookup, BusInv, PublishesDistinct, history
    <2>2. CASE MakesChannel(t)
      <3>1. /\ made' = [made EXCEPT ![t] = @ \cup {e}]
            /\ wpc' = [wpc EXCEPT ![e] = "receive"]
        BY <1>1, <2>2, LookupCases
      <3>2. /\ made'[t] = made[t] \cup {e}
            /\ \A u \in Types : u # t => made'[u] = made[u]
            /\ wpc'[e] = "receive"
            /\ \A c \in Seqs : c # e => wpc'[c] = wpc[c]
        BY <1>0, <2>1, <3>1 DEF TypeOK
      <3>3. closer # "done"
        BY <1>0, <2>2 DEF ClosePhases, MakesChannel
      <3>4. \A c \in Seqs : wpc'[c] = "none" <=> \A u \in Types : c \notin made'[u]
        <4> SUFFICES ASSUME NEW c \in Seqs
                     PROVE  wpc'[c] = "none" <=> \A u \in Types : c \notin made'[u]
          OBVIOUS
        <4>1. CASE c = e
          BY <2>1, <3>2, <4>1
        <4>2. CASE c # e
          <5>1. \A u \in Types : c \in made'[u] <=> c \in made[u]
            BY <3>2, <4>2
          <5> QED
            BY <1>0, <3>2, <4>2, <5>1 DEF WorkersInStep
        <4> QED
          BY <4>1, <4>2
      <3>5. \A c \in Seqs : wpc'[c] = "none" \/ wpc'[c] = "exit"
                            \/ wpc'[c] \in {"copy", "call"} => wpc'[c] = wpc[c]
        BY <3>2
      <3>6. \A u \in Types : made'[u] = {} => made[u] = {}
        BY <2>1, <3>2
      <3> QED
        BY <1>0, <2>1, <3>3, <3>4, <3>5, <3>6 DEF WorkersInStep
    <2>3. CASE ~MakesChannel(t)
      <3>1. UNCHANGED <<made, wpc>>
        BY <1>1, <2>3, LookupCases
      <3> QED
        BY <1>0, <2>1, <3>1 DEF WorkersInStep
    <2> QED
      BY <2>2, <2>3
  <1>2. ASSUME NEW p \in Publishers, PublishSend(p) PROVE WorkersInStep'
    <2> DEFINE t == pub[p].type
               d == pub[p].ch
    <2>1. /\ d \in made[t] /\ d \in Seqs /\ t \in Types
          /\ UNCHANGED <<closer, chClosed, made, wpc, wev, received>>
      BY <1>0, <1>2, PublishFacts DEF PublishSend, ChannelsInMap, workerVars
    <2>2. CASE SendSucceeds(d)
      <3>1. /\ \A c \in Seqs : c # d => buf'[c] = buf[c]
            /\ \A u \in Types : u # t => accepted'[u] = accepted[u]
        BY <1>0, <1>2, <2>1, <2>2 DEF PublishSend, TypeOK
      <3>2. wpc[d] # "none" /\ wpc[d] # "exit"
        BY <1>0, <2>1, <2>2 DEF WorkersInStep, SendSucceeds
      <3> QED
        BY <1>0, <2>1, <3>1, <3>2 DEF WorkersInStep
    <2>3. CASE ~SendSucceeds(d)
      <3>1. UNCHANGED <<buf, accepted>>
        BY <1>2, <2>3 DEF PublishSend
      <3> QED
        BY <1>0, <2>1, <3>1 DEF WorkersInStep
    <2> QED
      BY <2>2, <2>3
  <1>3. ASSUME NEW c \in Seqs, NEW t \in Types, WorkerReceive(t, c)
        PROVE  WorkersInStep'
    <2>1. /\ c \in made[t] /\ wpc[c] = "receive"
          /\ UNCHANGED <<closer, chClosed, made, accepted>>
      BY <1>3 DEF WorkerReceive
    <2>2. /\ \A d \in Seqs : d # c => buf'[d] = buf[d] /\ wpc'[d] = wpc[d]
                                      /\ wev'[d] = wev[d]
          /\ \A u \in Types : u # t => received'[u] = received[u]
          /\ wpc'[c] = "copy"
      BY <1>0, <1>3 DEF WorkerReceive, TypeOK
    <2>3. wev'[c] \in Seqs
      <3>1. buf[c] \in Seq(Seqs) /\ buf[c] # <<>> /\ wev'[c] = Head(buf[c])
        BY <1>0, <1>3 DEF WorkerReceive, TypeOK
      <3> QED
        BY <3>1, HeadTailProperties
    <2>4. closer # "done"
      BY <1>0, <2>1 DEF WorkersInStep
    <2> QED
      BY <1>0, <2>1, <2>2, <2>3, <2>4 DEF WorkersInStep
  <1>4. ASSUME NEW c \in Seqs, NEW t \in Types, WorkerCopy(t, c)
        PROVE  WorkersInStep'
    <2>1. /\ wpc[c] = "copy" /\ wpc'[c] = "call"
          /\ \A d \in Seqs : d # c => wpc'[d] = wpc[d]
          /\ UNCHANGED <<closer, buf, chClosed, made, wev, accepted, received>>
      BY <1>0, <1>4 DEF WorkerCopy, TypeOK, chanVars, history
    <2> QED
      BY <1>0, <2>1 DEF WorkersInStep
  <1>5. ASSUME NEW c \in Seqs, WorkerCall(c) PROVE WorkersInStep'
    <2>1. wpc[c] = "call" /\ UNCHANGED <<closer, buf, chClosed, made, accepted, received>>
      BY <1>5 DEF WorkerCall, chanVars
    <2>2. CASE wtodo[c] = <<>>
      <3>1. /\ wpc' = [wpc EXCEPT ![c] = "receive"]
            /\ wev' = [wev EXCEPT ![c] = 0]
        BY <1>5, <2>2, Zenon DEF WorkerCall
      <3>2. /\ wpc'[c] = "receive"
            /\ \A d \in Seqs : d # c => wpc'[d] = wpc[d] /\ wev'[d] = wev[d]
        BY <1>0, <3>1 DEF TypeOK
      <3> QED
        BY <1>0, <2>1, <3>2 DEF WorkersInStep
    <2>3. CASE wtodo[c] # <<>>
      <3>1. UNCHANGED <<wpc, wev>>
        BY <1>5, <2>3, Zenon DEF WorkerCall
      <3> QED
        BY <1>0, <2>1, <3>1 DEF WorkersInStep
    <2> QED
      BY <2>2, <2>3
  <1>6. ASSUME NEW c \in Seqs, WorkerExit(c) PROVE WorkersInStep'
    <2>1. /\ wpc[c] = "receive" /\ wpc'[c] = "exit"
          /\ c \in chClosed /\ buf[c] = <<>>
          /\ \A d \in Seqs : d # c => wpc'[d] = wpc[d]
          /\ UNCHANGED <<closer, buf, chClosed, made, wev, accepted, received>>
      BY <1>0, <1>6 DEF WorkerExit, Drained, TypeOK, chanVars, history
    <2> QED
      BY <1>0, <2>1 DEF WorkersInStep
  <1>7. CASE CloseQueues
    <2>1. /\ chClosed \subseteq chClosed' /\ closer' = "wait"
          /\ UNCHANGED <<buf, made, wpc, wev, accepted, received>>
      BY <1>7 DEF CloseQueues, workerVars, history
    <2> QED
      BY <1>0, <2>1 DEF WorkersInStep
  <1>8. CASE CloseClear
    <2>1. /\ \A c \in Seqs : wpc[c] \in {"none", "exit"}
          /\ UNCHANGED <<buf, chClosed, made, wpc, wev, accepted, received>>
      BY <1>8 DEF CloseClear, WorkersDone, chanVars, workerVars, history
    <2> QED
      BY <1>0, <2>1 DEF WorkersInStep
  <1>9. ASSUME UNCHANGED <<buf, chClosed, made, wpc, wev, accepted, received>>,
               closer' = "done" => closer = "done"
        PROVE  WorkersInStep'
    BY <1>0, <1>9 DEF WorkersInStep
  <1>10. CASE CloseMark \/ CloseStop
    BY <1>9, <1>10 DEF CloseMark, CloseStop, chanVars, workerVars, history
  <1>11. ASSUME NEW t \in Types, NEW h \in Handlers,
                Subscribe(t, h) \/ Unsubscribe(t, h)
         PROVE  WorkersInStep'
    BY <1>9, <1>11 DEF Subscribe, Unsubscribe, chanVars, workerVars, history
  <1>12. ASSUME NEW p \in Publishers, NEW t \in Types, PublishBegin(p, t)
         PROVE  WorkersInStep'
    BY <1>9, <1>12 DEF PublishBegin, chanVars, workerVars, history
  <1>13. CASE UNCHANGED vars
    BY <1>9, <1>13 DEF vars, busVars, chanVars, workerVars, history
  <1> QED
    BY <1>1, <1>2, <1>3, <1>4, <1>5, <1>6, <1>7, <1>8, <1>10, <1>11, <1>12, <1>13
    DEF Next, Publish, Worker, Close

(* What goes into a channel at the end comes out of it at the front.       *)
LEMMA NothingLostNext == ASSUME BusInv, [Next]_vars PROVE NothingLost'
  <1> USE BusAssumption
  <1>0. NothingLost /\ TypeOK /\ ChannelsInMap /\ OneWorkerPerType /\ WorkersInStep
    BY DEF BusInv
  <1>1. ASSUME NEW p \in Publishers, PublishLookup(p) PROVE NothingLost'
    <2> DEFINE t == pub[p].type
               e == pub[p].ev
    <2>1. /\ e \in Seqs /\ t \in Types /\ \A u \in Types : e \notin made[u]
          /\ UNCHANGED <<closer, buf, accepted, received>>
      BY <1>1, PublishFacts DEF PublishLookup, BusInv, PublishesDistinct, history
    <2>2. CASE MakesChannel(t)
      <3>1. /\ made'[t] = made[t] \cup {e}
            /\ \A u \in Types : u # t => made'[u] = made[u]
        BY <1>0, <1>1, <2>1, <2>2, LookupCases DEF TypeOK
      <3>2. made[t] = {}
        BY <2>1, <2>2 DEF BusInv, ChannelsInMap, ClosePhases, MakesChannel
      <3>3. accepted[t] = <<>> /\ received[t] = <<>> /\ buf[e] = <<>>
        BY <1>0, <2>1, <3>2 DEF WorkersInStep
      <3>4. received[t] \o buf[e] = accepted[t]
        BY <3>3, EmptySeq, ConcatEmptySeq
      <3> QED
        BY <1>0, <2>1, <3>1, <3>2, <3>4 DEF NothingLost
    <2>3. CASE ~MakesChannel(t)
      BY <1>0, <1>1, <2>1, <2>3, LookupCases DEF NothingLost
    <2> QED
      BY <2>2, <2>3
  <1>2. ASSUME NEW p \in Publishers, PublishSend(p) PROVE NothingLost'
    <2> DEFINE t == pub[p].type
               d == pub[p].ch
               e == pub[p].ev
    <2>1. /\ d \in made[t] /\ d \in Seqs /\ t \in Types /\ e \in Seqs
          /\ UNCHANGED <<made, received>>
      BY <1>0, <1>2, PublishFacts DEF PublishSend, ChannelsInMap
    <2>2. CASE SendSucceeds(d)
      <3>1. /\ buf'[d] = Append(buf[d], e) /\ accepted'[t] = Append(accepted[t], e)
            /\ \A c \in Seqs : c # d => buf'[c] = buf[c]
            /\ \A u \in Types : u # t => accepted'[u] = accepted[u]
        BY <1>0, <1>2, <2>1, <2>2 DEF PublishSend, TypeOK
      <3>2. received[t] \o Append(buf[d], e) = Append(received[t] \o buf[d], e)
        <4>1. received[t] \in Seq(Seqs) /\ buf[d] \in Seq(Seqs)
          BY <1>0, <2>1 DEF TypeOK
        <4>2. \A r, q \in Seq(Seqs) : \A x \in Seqs :
                r \o Append(q, x) = Append(r \o q, x)
          BY ConcatAppend
        <4> HIDE DEF t, d, e
        <4> QED
          BY <2>1, <4>1, <4>2, Zenon
      <3>3. received'[t] \o buf'[d] = accepted'[t]
        <4>1. received[t] \o buf[d] = accepted[t]
          BY <1>0, <2>1 DEF NothingLost
        <4> QED
          BY <2>1, <3>1, <3>2, <4>1, Zenon
      <3>4. \A c \in made[t] : c = d
        BY <1>0, <2>1 DEF OneWorkerPerType
      <3>5. \A u \in Types : u # t => d \notin made[u] /\ made[u] \subseteq Seqs
        BY <1>0, <2>1 DEF ChannelsInMap, TypeOK
      <3> QED
        BY <1>0, <2>1, <3>1, <3>3, <3>4, <3>5, ZenonT(60) DEF NothingLost
    <2>3. CASE ~SendSucceeds(d)
      <3>1. UNCHANGED <<buf, accepted>>
        BY <1>2, <2>3 DEF PublishSend
      <3> QED
        BY <1>0, <2>1, <3>1 DEF NothingLost
    <2> QED
      BY <2>2, <2>3
  <1>3. ASSUME NEW c \in Seqs, NEW t \in Types, WorkerReceive(t, c)
        PROVE  NothingLost'
    <2>1. c \in made[t] /\ buf[c] # <<>> /\ UNCHANGED <<made, accepted>>
      BY <1>3 DEF WorkerReceive
    <2>2. /\ buf'[c] = Tail(buf[c])
          /\ received'[t] = Append(received[t], Head(buf[c]))
          /\ \A d \in Seqs : d # c => buf'[d] = buf[d]
          /\ \A u \in Types : u # t => received'[u] = received[u]
      BY <1>0, <1>3 DEF WorkerReceive, TypeOK
    <2>3. Append(received[t], Head(buf[c])) \o Tail(buf[c]) = received[t] \o buf[c]
      <3>1. received[t] \in Seq(Seqs) /\ buf[c] \in Seq(Seqs)
        BY <1>0 DEF TypeOK
      <3> QED
        BY <2>1, <3>1, ConcatMoveHead
    <2>4. received'[t] \o buf'[c] = accepted'[t]
      <3>1. received[t] \o buf[c] = accepted[t]
        BY <1>0, <2>1 DEF NothingLost
      <3> QED
        BY <2>1, <2>2, <2>3, <3>1, Zenon
    <2>5. \A d \in made[t] : d = c
      BY <1>0, <2>1 DEF OneWorkerPerType
    <2>6. \A u \in Types : u # t => c \notin made[u] /\ made[u] \subseteq Seqs
      BY <1>0, <2>1 DEF ChannelsInMap, TypeOK
    <2> QED
      BY <1>0, <2>1, <2>2, <2>4, <2>5, <2>6 DEF NothingLost
  <1>4. ASSUME UNCHANGED <<buf, made, accepted, received>> PROVE NothingLost'
    BY <1>0, <1>4 DEF NothingLost
  <1>5. ASSUME NEW c \in Seqs, NEW t \in Types,
               WorkerCopy(t, c) \/ WorkerCall(c) \/ WorkerExit(c)
        PROVE  NothingLost'
    BY <1>4, <1>5 DEF WorkerCopy, WorkerCall, WorkerExit, chanVars, history
  <1>6. CASE Close
    BY <1>4, <1>6 DEF Close, CloseMark, CloseStop, CloseQueues, CloseClear,
       chanVars, history
  <1>7. ASSUME NEW t \in Types, NEW h \in Handlers,
               Subscribe(t, h) \/ Unsubscribe(t, h)
        PROVE  NothingLost'
    BY <1>4, <1>7 DEF Subscribe, Unsubscribe, chanVars, history
  <1>8. ASSUME NEW p \in Publishers, NEW t \in Types, PublishBegin(p, t)
        PROVE  NothingLost'
    BY <1>4, <1>8 DEF PublishBegin, chanVars, history
  <1>9. CASE UNCHANGED vars
    BY <1>4, <1>9 DEF vars, chanVars, history
  <1> QED
    BY <1>1, <1>2, <1>3, <1>5, <1>6, <1>7, <1>8, <1>9 DEF Next, Publish, Worker

(* Going one handler further in a copy of the handlers of a type.          *)
LEMMA InitialsTail ==
  ASSUME NEW t \in Types, NEW s \in Seq(Handlers), s # <<>>,
         NEW k \in 0..Len(InitialSubs[t]), InitialsFirst(t, s, k)
  PROVE  \/ /\ k < Len(InitialSubs[t])
            /\ Head(s) = InitialSubs[t][k + 1]
            /\ InitialsFirst(t, Tail(s), k + 1)
         \/ /\ k = Len(InitialSubs[t])
            /\ ~IsInitial(Head(s))
            /\ InitialsFirst(t, Tail(s), k)
  <1> DEFINE n == Len(InitialSubs[t])
  <1>1. n \in Nat /\ k \in Nat /\ k <= n
    BY BusAssumption, LenProperties
  <1>2. Len(s) \in Nat \ {0} /\ Head(s) = s[1] /\ DOMAIN s = 1..Len(s)
    BY EmptySeq, LenProperties
  <1>3. /\ Tail(s) \in Seq(Handlers) /\ Len(Tail(s)) = Len(s) - 1
        /\ \A i \in 1..Len(Tail(s)) : Tail(s)[i] = s[i + 1]
    BY HeadTailProperties
  <1>4. DOMAIN Tail(s) = 1..(Len(s) - 1)
    BY <1>3, LenProperties
  <1>5. /\ n - k <= Len(s)
        /\ \A i \in 1..(n - k) : s[i] = InitialSubs[t][k + i]
        /\ \A i \in 1..Len(s) : i > n - k => ~IsInitial(s[i])
    BY <1>2 DEF InitialsFirst
  <1> HIDE DEF n
  <1>6. CASE k < n
    <2>1. Head(s) = InitialSubs[t][k + 1]
      BY <1>1, <1>2, <1>5, <1>6
    <2>2. \A i \in 1..(n - (k + 1)) : Tail(s)[i] = InitialSubs[t][(k + 1) + i]
      <3> TAKE i \in 1..(n - (k + 1))
      <3>1. i \in 1..Len(Tail(s)) /\ i + 1 \in 1..(n - k) /\ k + (i + 1) = (k + 1) + i
        BY <1>1, <1>2, <1>3, <1>5, <1>6
      <3> QED
        BY <1>3, <1>5, <3>1
    <2>3. \A i \in DOMAIN Tail(s) : i > n - (k + 1) => ~IsInitial(Tail(s)[i])
      <3> SUFFICES ASSUME NEW i \in 1..(Len(s) - 1), i > n - (k + 1)
                   PROVE  ~IsInitial(Tail(s)[i])
        BY <1>4
      <3>1. i \in 1..Len(Tail(s)) /\ i + 1 \in 1..Len(s) /\ i + 1 > n - k
        BY <1>1, <1>2, <1>3
      <3> QED
        BY <1>3, <1>5, <3>1
    <2>4. n - (k + 1) <= Len(Tail(s))
      BY <1>1, <1>2, <1>3, <1>5
    <2>5. InitialsFirst(t, Tail(s), k + 1)
      BY <2>2, <2>3, <2>4 DEF InitialsFirst, n
    <2> QED
      BY <1>6, <2>1, <2>5 DEF n
  <1>7. CASE k = n
    <2>1. ~IsInitial(Head(s))
      BY <1>1, <1>2, <1>5, <1>7
    <2>2. \A i \in DOMAIN Tail(s) : i > n - k => ~IsInitial(Tail(s)[i])
      <3> SUFFICES ASSUME NEW i \in 1..(Len(s) - 1)
                   PROVE  ~IsInitial(Tail(s)[i])
        BY <1>4
      <3>1. i \in 1..Len(Tail(s)) /\ i + 1 \in 1..Len(s) /\ i + 1 > n - k
        BY <1>1, <1>2, <1>3, <1>7
      <3> QED
        BY <1>3, <1>5, <3>1
    <2>3. n - k <= Len(Tail(s)) /\ 1..(n - k) = {}
      BY <1>1, <1>2, <1>3, <1>7
    <2>4. InitialsFirst(t, Tail(s), k)
      BY <2>2, <2>3 DEF InitialsFirst, n
    <2> QED
      BY <1>7, <2>1, <2>4 DEF n
  <1> QED
    BY <1>1, <1>6, <1>7

(* Handlers come late behind the ones subscribed from the start, and only  *)
(* late ones are taken away.                                               *)
LEMMA SubscribersNext ==
  ASSUME BusInv, [Next]_vars
  PROVE  closer' # "done" => \A t \in Types : InitialsFirst(t, typeSubs'[t], 0)
  <1> USE BusAssumption
  <1>0. /\ TypeOK
        /\ closer # "done" => \A t \in Types : InitialsFirst(t, typeSubs[t], 0)
    BY DEF BusInv, DeliveryInStep
  <1>a. \A t \in Types : /\ InitialSubs[t] \in Seq(Handlers)
                         /\ Len(InitialSubs[t]) \in Nat
                         /\ typeSubs[t] \in Seq(Handlers)
                         /\ Len(typeSubs[t]) \in Nat
                         /\ DOMAIN typeSubs[t] = 1..Len(typeSubs[t])
    BY <1>0, LenProperties DEF TypeOK
  <1>b. ASSUME NEW t \in Types, NEW h \in Handlers, <<t, h>> \in LateSubs
        PROVE  ~IsInitial(h)
    BY <1>b, SubsAssumption DEF IsInitial
  <1>1. ASSUME NEW t \in Types, NEW h \in Handlers, Subscribe(t, h)
        PROVE  \A u \in Types : InitialsFirst(u, typeSubs'[u], 0)
    <2>1. closer # "done" /\ ~IsInitial(h)
      BY <1>1, <1>b DEF Subscribe
    <2>2. /\ typeSubs'[t] = Append(typeSubs[t], h)
          /\ \A u \in Types : u # t => typeSubs'[u] = typeSubs[u]
      BY <1>0, <1>1 DEF Subscribe, TypeOK
    <2>3. /\ Len(Append(typeSubs[t], h)) = Len(typeSubs[t]) + 1
          /\ \A j \in 1..Len(typeSubs[t]) : Append(typeSubs[t], h)[j] = typeSubs[t][j]
          /\ Append(typeSubs[t], h)[Len(typeSubs[t]) + 1] = h
          /\ DOMAIN Append(typeSubs[t], h) = 1..(Len(typeSubs[t]) + 1)
      BY <1>a, AppendProperties, LenProperties
    <2>4. InitialsFirst(t, typeSubs[t], 0)
      BY <1>0, <2>1
    <2> DEFINE s == typeSubs[t]
               r == Append(typeSubs[t], h)
               n == Len(InitialSubs[t])
    <2>5. /\ n \in Nat /\ Len(s) \in Nat /\ n <= Len(s)
          /\ \A j \in 1..n : s[j] = InitialSubs[t][j]
          /\ \A j \in 1..Len(s) : j > n => ~IsInitial(s[j])
      BY <1>a, <2>4 DEF InitialsFirst
    <2> HIDE DEF s, r
    <2>6. /\ Len(r) = Len(s) + 1 /\ DOMAIN r = 1..(Len(s) + 1)
          /\ \A j \in 1..Len(s) : r[j] = s[j]
          /\ r[Len(s) + 1] = h
      BY <2>3 DEF s, r
    <2>7. n <= Len(r) /\ \A j \in 1..n : r[j] = InitialSubs[t][j]
      BY <2>5, <2>6
    <2>8. \A j \in DOMAIN r : j > n => ~IsInitial(r[j])
      <3> SUFFICES ASSUME NEW j \in 1..(Len(s) + 1), j > n PROVE ~IsInitial(r[j])
        BY <2>6
      <3>1. j \in 1..Len(s) \/ j = Len(s) + 1
        BY <2>5
      <3> QED
        BY <2>1, <2>5, <2>6, <3>1
    <2>9. InitialsFirst(t, r, 0)
      BY <2>5, <2>7, <2>8 DEF InitialsFirst
    <2> QED
      BY <1>0, <2>1, <2>2, <2>9 DEF r
  <1>2. ASSUME NEW t \in Types, NEW h \in Handlers, Unsubscribe(t, h)
        PROVE  \A u \in Types : InitialsFirst(u, typeSubs'[u], 0)
    <2>1. closer # "done" /\ ~IsInitial(h)
      BY <1>2, <1>b DEF Unsubscribe
    <2>2. PICK i \in DOMAIN typeSubs[t] :
            /\ typeSubs[t][i] = h
            /\ typeSubs' = [typeSubs EXCEPT ![t] =
                              SubSeq(@, 1, i - 1) \o SubSeq(@, i + 1, Len(@))]
      BY <1>2 DEF Unsubscribe
    <2> DEFINE s == typeSubs[t]
               r == SubSeq(s, 1, i - 1) \o SubSeq(s, i + 1, Len(s))
               n == Len(InitialSubs[t])
    <2>3. typeSubs'[t] = r /\ \A u \in Types : u # t => typeSubs'[u] = typeSubs[u]
      BY <1>0, <2>2 DEF TypeOK
    <2>4. s \in Seq(Handlers) /\ i \in 1..Len(s) /\ Len(s) \in Nat /\ n \in Nat
      BY <1>a
    <2>5. /\ r \in Seq(Handlers) /\ Len(r) = Len(s) - 1
          /\ \A j \in 1..(Len(s) - 1) : r[j] = IF j < i THEN s[j] ELSE s[j + 1]
      BY <2>4, RemoveOne, RemoveOneElements, ZenonT(60)
    <2>6. /\ n <= Len(s) /\ \A j \in 1..n : s[j] = InitialSubs[t][j]
          /\ \A j \in 1..Len(s) : j > n => ~IsInitial(s[j])
      <3>1. InitialsFirst(t, s, 0)
        BY <1>0, <2>1
      <3> QED
        BY <1>a, <3>1 DEF InitialsFirst
    <2>7. i > n
      <3> SUFFICES ASSUME i <= n PROVE FALSE
        BY <2>4
      <3>1. i \in DOMAIN InitialSubs[t] /\ h = InitialSubs[t][i]
        BY <1>a, <2>2, <2>4, <2>6, LenProperties
      <3> QED
        BY <2>1, <3>1 DEF IsInitial
    <2>8. DOMAIN r = 1..(Len(s) - 1)
      BY <2>5, LenProperties
    <2> HIDE DEF s, r
    <2>9. /\ n <= Len(r) /\ \A j \in 1..n : r[j] = InitialSubs[t][j]
      <3>1. n <= Len(s) - 1
        BY <2>4, <2>7
      <3>2. n <= Len(r)
        BY <2>5, <3>1
      <3>3. ASSUME NEW j \in 1..n PROVE r[j] = InitialSubs[t][j]
        <4>1. j \in 1..(Len(s) - 1) /\ j < i
          BY <2>4, <2>7, <3>1
        <4> QED
          BY <2>5, <2>6, <4>1
      <3> QED
        BY <3>2, <3>3
    <2>10. \A j \in 1..(Len(s) - 1) : j > n => ~IsInitial(r[j])
      <3> SUFFICES ASSUME NEW j \in 1..(Len(s) - 1), j > n PROVE ~IsInitial(r[j])
        OBVIOUS
      <3>1. r[j] = s[j] \/ r[j] = s[j + 1]
        BY <2>5
      <3>2. j \in 1..Len(s) /\ j + 1 \in 1..Len(s) /\ j + 1 > n
        BY <2>4
      <3> QED
        BY <2>6, <3>1, <3>2
    <2>11. InitialsFirst(t, r, 0)
      BY <2>4, <2>8, <2>9, <2>10 DEF InitialsFirst
    <2> QED
      BY <1>0, <2>1, <2>3, <2>11
  <1>3. ASSUME UNCHANGED typeSubs, closer' # "done" => closer # "done"
        PROVE  closer' # "done" => \A t \in Types : InitialsFirst(t, typeSubs'[t], 0)
    BY <1>0, <1>3
  <1>4. CASE CloseClear
    BY <1>4 DEF CloseClear
  <1>5. CASE CloseMark \/ CloseStop \/ CloseQueues
    BY <1>3, <1>5 DEF CloseMark, CloseStop, CloseQueues
  <1>6. ASSUME NEW p \in Publishers, Publish(p)
        PROVE  UNCHANGED <<typeSubs, closer>>
    BY <1>6 DEF Publish, PublishBegin, PublishLookup, PublishSend, busVars
  <1>7. ASSUME NEW c \in Seqs, Worker(c)
        PROVE  UNCHANGED <<typeSubs, closer>>
    BY <1>7 DEF Worker, WorkerReceive, WorkerCopy, WorkerCall, WorkerExit, busVars
  <1>8. CASE UNCHANGED vars
    BY <1>3, <1>8 DEF vars, busVars
  <1> QED
    BY <1>1, <1>2, <1>3, <1>4, <1>5, <1>6, <1>7, <1>8 DEF Next, Close

(* A worker goes through the handlers of its event in subscription order.  *)
LEMMA DeliveryNext == ASSUME BusInv, [Next]_vars PROVE DeliveryInStep'
  <1> USE BusAssumption
  <1>0. /\ TypeOK /\ DeliveryInStep /\ OneWorkerPerType /\ ChannelsInMap
        /\ WorkersInStep /\ PublishesDistinct
    BY DEF BusInv
  <1>a. closer' # "done" => \A t \in Types : InitialsFirst(t, typeSubs'[t], 0)
    BY SubscribersNext
  <1>b. \A t \in Types : /\ InitialSubs[t] \in Seq(Handlers)
                         /\ Len(InitialSubs[t]) \in Nat
                         /\ DOMAIN InitialSubs[t] = 1..Len(InitialSubs[t])
                         /\ \A i \in DOMAIN InitialSubs[t] : InitialSubs[t][i] \in Handlers
    BY LenProperties, ElementOfSeq
  <1> DEFINE IdleType(t) == made[t] = {} =>
                          \A i \in DOMAIN InitialSubs[t] : delivered[InitialSubs[t][i]] = <<>>
             Busy(t, c) ==
               /\ wpc[c] \in {"receive", "exit"} =>
                    \A i \in DOMAIN InitialSubs[t] : delivered[InitialSubs[t][i]] = received[t]
               /\ wpc[c] = "copy" => CalledUpTo(t, 0, wev[c])
               /\ wpc[c] = "call" =>
                    \E k \in 0..Len(InitialSubs[t]) :
                       InitialsFirst(t, wtodo[c], k) /\ CalledUpTo(t, k, wev[c])
  <1>c. \A t \in Types : IdleType(t) /\ \A c \in made[t] : Busy(t, c)
    BY <1>0 DEF DeliveryInStep
  <1>d. ASSUME \A t \in Types : IdleType(t)' /\ \A c \in made'[t] : Busy(t, c)'
        PROVE  DeliveryInStep'
    BY <1>a, <1>d DEF DeliveryInStep
  <1> HIDE DEF IdleType
  <1>e. ASSUME NEW t \in Types, made'[t] = made[t],
               \A i \in DOMAIN InitialSubs[t] :
                  delivered'[InitialSubs[t][i]] = delivered[InitialSubs[t][i]]
        PROVE  IdleType(t)'
    BY <1>c, <1>e DEF IdleType
  <1>f. ASSUME NEW t \in Types, NEW c \in made[t], received'[t] = received[t],
               wpc'[c] = wpc[c], wev'[c] = wev[c], wtodo'[c] = wtodo[c],
               \A i \in DOMAIN InitialSubs[t] :
                  delivered'[InitialSubs[t][i]] = delivered[InitialSubs[t][i]]
        PROVE  Busy(t, c)'
    <2>1. \A k : CalledUpTo(t, k, wev[c]) => CalledUpTo(t, k, wev[c])'
      BY <1>f DEF CalledUpTo
    <2>2. \A k : InitialsFirst(t, wtodo[c], k) => InitialsFirst(t, wtodo[c], k)'
      BY <1>f DEF InitialsFirst, IsInitial
    <2>3. wpc'[c] \in {"receive", "exit"} =>
            \A i \in DOMAIN InitialSubs[t] : delivered'[InitialSubs[t][i]] = received'[t]
      BY <1>c, <1>f
    <2>4. wpc'[c] = "copy" => CalledUpTo(t, 0, wev[c])'
      BY <1>c, <1>f, <2>1
    <2>5. wpc'[c] = "call" =>
            \E k \in 0..Len(InitialSubs[t]) :
               InitialsFirst(t, wtodo[c], k)' /\ CalledUpTo(t, k, wev[c])'
      BY <1>c, <1>f, <2>1, <2>2
    <2> QED
      BY <2>3, <2>4, <2>5
  <1>g. ASSUME UNCHANGED <<made, workerVars, received, delivered>>
        PROVE  DeliveryInStep'
    <2>1. \A t \in Types : IdleType(t)' /\ \A c \in made'[t] : Busy(t, c)'
      BY <1>e, <1>f, <1>g DEF workerVars
    <2> QED
      BY <1>d, <2>1
  <1>1. ASSUME NEW p \in Publishers, PublishLookup(p) PROVE DeliveryInStep'
    <2>1. PICK t \in Types, e \in Seqs : t = pub[p].type /\ e = pub[p].ev
      BY <1>1, PublishFacts DEF PublishLookup
    <2>2. UNCHANGED <<wev, wtodo, received, delivered>>
      BY <1>1 DEF PublishLookup, history
    <2>3. CASE MakesChannel(t)
      <3>1. /\ made'[t] = made[t] \cup {e} /\ wpc'[e] = "receive"
            /\ \A u \in Types : u # t => made'[u] = made[u]
            /\ \A c \in Seqs : c # e => wpc'[c] = wpc[c]
        BY <1>0, <1>1, <2>1, <2>3 DEF PublishLookup, TypeOK
      <3>2. made[t] = {} /\ closer \notin {"wait", "done"}
        BY <1>0, <2>1, <2>3, BusInv DEF MakesChannel, BusInv, ClosePhases, ChannelsInMap
      <3>3. \A i \in DOMAIN InitialSubs[t] :
               delivered[InitialSubs[t][i]] = <<>> /\ received[t] = <<>>
        BY <1>0, <1>c, <2>1, <3>2 DEF WorkersInStep, IdleType
      <3>4. IdleType(t)' /\ \A c \in made'[t] : Busy(t, c)'
        <4>1. made'[t] = {e}
          BY <3>1, <3>2
        <4>2. Busy(t, e)'
          BY <2>2, <3>1, <3>3
        <4> QED
          BY <4>1, <4>2 DEF IdleType
      <3>5. ASSUME NEW u \in Types, u # t
            PROVE  IdleType(u)' /\ \A c \in made'[u] : Busy(u, c)'
        <4>1. \A c \in made[u] : c \in Seqs /\ c # e
          BY <1>0, <1>1, <2>1, <3>5 DEF TypeOK, PublishesDistinct, PublishLookup
        <4>2. IdleType(u)'
          BY <1>e, <2>2, <3>1, <3>5
        <4>3. ASSUME NEW c \in made[u] PROVE Busy(u, c)'
          <5>1. wpc'[c] = wpc[c]
            BY <3>1, <4>1
          <5> QED
            BY <1>f, <2>2, <5>1
        <4> QED
          BY <3>1, <3>5, <4>2, <4>3
      <3> QED
        BY <1>d, <3>4, <3>5
    <2>4. CASE ~MakesChannel(t)
      BY <1>1, <1>g, <2>1, <2>2, <2>4 DEF PublishLookup, workerVars
    <2> QED
      BY <2>3, <2>4
  <1>2. ASSUME NEW c \in Seqs, NEW t \in Types, WorkerReceive(t, c)
        PROVE  DeliveryInStep'
    <2>1. /\ c \in made[t] /\ wpc[c] = "receive" /\ UNCHANGED <<made, wtodo, delivered>>
          /\ wpc'[c] = "copy" /\ wev'[c] = Head(buf[c])
          /\ received'[t] = Append(received[t], Head(buf[c]))
          /\ \A u \in Types : u # t => received'[u] = received[u]
          /\ \A d \in Seqs : d # c => wpc'[d] = wpc[d] /\ wev'[d] = wev[d]
      BY <1>0, <1>2 DEF WorkerReceive, TypeOK
    <2>2. \A i \in DOMAIN InitialSubs[t] : delivered[InitialSubs[t][i]] = received[t]
      BY <1>c, <2>1
    <2>3. CalledUpTo(t, 0, wev[c])'
      BY <1>b, <2>1, <2>2 DEF CalledUpTo
    <2>4. \A d \in made'[t] : d = c
      BY <1>0, <2>1 DEF OneWorkerPerType
    <2>5. IdleType(t)' /\ \A d \in made'[t] : Busy(t, d)'
      BY <1>e, <2>1, <2>3, <2>4
    <2>6. ASSUME NEW u \in Types, u # t
          PROVE  IdleType(u)' /\ \A d \in made'[u] : Busy(u, d)'
      <3>1. \A d \in made[u] : d \in Seqs /\ d # c
        BY <1>0, <2>1, <2>6 DEF ChannelsInMap, TypeOK
      <3> QED
        BY <1>e, <1>f, <2>1, <2>6, <3>1
    <2>7. \A u \in Types : IdleType(u)' /\ \A d \in made'[u] : Busy(u, d)'
      <3> HIDE DEF Busy
      <3> QED
        BY <2>5, <2>6
    <2> QED
      BY <1>d, <2>7
  <1>3. ASSUME NEW c \in Seqs, NEW t \in Types, WorkerCopy(t, c)
        PROVE  DeliveryInStep'
    <2>1. /\ c \in made[t] /\ wpc[c] = "copy" /\ UNCHANGED <<made, wev, received, delivered>>
          /\ wpc'[c] = "call" /\ wtodo'[c] = typeSubs[t]
          /\ \A d \in Seqs : d # c => wpc'[d] = wpc[d] /\ wtodo'[d] = wtodo[d]
      BY <1>0, <1>3 DEF WorkerCopy, TypeOK, chanVars, history
    <2>2. InitialsFirst(t, typeSubs[t], 0)
      <3>1. closer # "done"
        BY <1>0, <2>1 DEF WorkersInStep
      <3> QED
        BY <1>0, <3>1 DEF DeliveryInStep
    <2>3. CalledUpTo(t, 0, wev[c])'
      BY <1>c, <2>1 DEF CalledUpTo
    <2>4. \A d \in made'[t] : d = c
      BY <1>0, <2>1 DEF OneWorkerPerType
    <2>5. Busy(t, c)'
      <3>1. InitialsFirst(t, wtodo'[c], 0) /\ 0 \in 0..Len(InitialSubs[t])
        BY <1>b, <2>1, <2>2
      <3>2. InitialsFirst(t, wtodo[c], 0)'
        BY <3>1 DEF InitialsFirst, IsInitial
      <3> QED
        BY <2>1, <2>3, <3>1, <3>2
    <2>6. IdleType(t)' /\ \A d \in made'[t] : Busy(t, d)'
      BY <1>e, <2>1, <2>4, <2>5
    <2>7. ASSUME NEW u \in Types, u # t
          PROVE  IdleType(u)' /\ \A d \in made'[u] : Busy(u, d)'
      <3>1. \A d \in made[u] : d \in Seqs /\ d # c
        BY <1>0, <2>1, <2>7 DEF ChannelsInMap, TypeOK
      <3> QED
        BY <1>e, <1>f, <2>1, <2>7, <3>1
    <2>8. \A u \in Types : IdleType(u)' /\ \A d \in made'[u] : Busy(u, d)'
      <3> HIDE DEF Busy
      <3> QED
        BY <2>6, <2>7
    <2> QED
      BY <1>d, <2>8
  <1>4. ASSUME NEW c \in Seqs, WorkerCall(c) PROVE DeliveryInStep'
    <2>1. wpc[c] = "call" /\ UNCHANGED <<made, received>>
      BY <1>4 DEF WorkerCall, chanVars
    <2>2. PICK t \in Types : c \in made[t]
      BY <1>0, <2>1 DEF WorkersInStep
    <2>3. PICK k \in 0..Len(InitialSubs[t]) :
            InitialsFirst(t, wtodo[c], k) /\ CalledUpTo(t, k, wev[c])
      BY <1>c, <2>1, <2>2
    <2>4. \A d \in made'[t] : d = c
      BY <1>0, <2>1, <2>2 DEF OneWorkerPerType
    <2>5. \A u \in Types : u # t => \A d \in made[u] : d \in Seqs /\ d # c
      BY <1>0, <2>2 DEF ChannelsInMap, TypeOK
    <2>6. made'[t] # {}
      BY <2>1, <2>2
    <2>7. CASE wtodo[c] = <<>>
      <3>1. /\ wpc'[c] = "receive" /\ UNCHANGED <<wtodo, delivered>>
            /\ \A d \in Seqs : d # c => wpc'[d] = wpc[d] /\ wev'[d] = wev[d]
        BY <1>0, <1>4, <2>7 DEF WorkerCall, TypeOK
      <3>2. k = Len(InitialSubs[t])
        BY <1>b, <2>3, <2>7, EmptySeq DEF InitialsFirst
      <3>3. \A i \in DOMAIN InitialSubs[t] : delivered[InitialSubs[t][i]] = received[t]
        BY <1>b, <2>3, <3>2 DEF CalledUpTo
      <3>4. IdleType(t)' /\ \A d \in made'[t] : Busy(t, d)'
        BY <2>1, <2>4, <2>6, <3>1, <3>3 DEF IdleType
      <3>5. ASSUME NEW u \in Types, u # t
            PROVE  IdleType(u)' /\ \A d \in made'[u] : Busy(u, d)'
        BY <1>e, <1>f, <2>1, <2>5, <3>1, <3>5
      <3> QED
        BY <1>d, <3>4, <3>5
    <2>8. CASE wtodo[c] # <<>>
      <3> DEFINE h == Head(wtodo[c])
      <3>1. wtodo[c] \in Seq(Handlers) /\ h \in Handlers
        BY <1>0, <2>8, HeadTailProperties DEF TypeOK
      <3>2. /\ wtodo'[c] = Tail(wtodo[c]) /\ UNCHANGED <<wpc, wev>>
            /\ delivered'[h] = Append(delivered[h], wev[c])
            /\ \A g \in Handlers : g # h => delivered'[g] = delivered[g]
            /\ \A d \in Seqs : d # c => wtodo'[d] = wtodo[d]
        BY <1>0, <1>4, <2>8, <3>1 DEF WorkerCall, TypeOK
      <3>3. \/ /\ k < Len(InitialSubs[t]) /\ h = InitialSubs[t][k + 1]
               /\ InitialsFirst(t, Tail(wtodo[c]), k + 1)
            \/ /\ k = Len(InitialSubs[t]) /\ ~IsInitial(h)
               /\ InitialsFirst(t, Tail(wtodo[c]), k)
        BY <2>3, <2>8, <3>1, InitialsTail
      <3> HIDE DEF h
      <3>4. \A u \in Types : u # t =>
               \A i \in DOMAIN InitialSubs[u] :
                  delivered'[InitialSubs[u][i]] = delivered[InitialSubs[u][i]]
        <4> SUFFICES ASSUME NEW u \in Types, u # t, NEW i \in DOMAIN InitialSubs[u]
                     PROVE  InitialSubs[u][i] # h
          BY <1>b, <3>2
        <4>1. CASE IsInitial(h)
          <5>1. k + 1 \in DOMAIN InitialSubs[t] /\ h = InitialSubs[t][k + 1]
            BY <1>b, <3>3, <4>1
          <5> QED
            BY <5>1, SubsAssumption
        <4>2. CASE ~IsInitial(h)
          BY <4>2 DEF IsInitial
        <4> QED
          BY <4>1, <4>2
      <3>5. ASSUME NEW u \in Types, u # t
            PROVE  IdleType(u)' /\ \A d \in made'[u] : Busy(u, d)'
        BY <1>e, <1>f, <2>1, <2>5, <3>2, <3>4, <3>5
      <3>6. \E m \in 0..Len(InitialSubs[t]) :
               InitialsFirst(t, Tail(wtodo[c]), m) /\ CalledUpTo(t, m, wev[c])'
        <4>1. CASE k < Len(InitialSubs[t])
          <5>1. /\ k + 1 \in DOMAIN InitialSubs[t] /\ h = InitialSubs[t][k + 1]
                /\ InitialsFirst(t, Tail(wtodo[c]), k + 1)
                /\ k + 1 \in 0..Len(InitialSubs[t]) /\ k \in Nat
            BY <1>b, <3>3, <4>1
          <5>2. \A i \in DOMAIN InitialSubs[t] : i # k + 1 => InitialSubs[t][i] # h
            BY <5>1, SubsAssumption
          <5>3. delivered'[InitialSubs[t][k + 1]] = received[t]
            <6>1. ~(k + 1 <= k)
              BY <5>1
            <6>2. received[t] = Append(delivered[InitialSubs[t][k + 1]], wev[c])
              BY <2>3, <5>1, <6>1 DEF CalledUpTo
            <6> QED
              BY <3>2, <5>1, <6>2
          <5>4. CalledUpTo(t, k + 1, wev[c])'
            <6> SUFFICES ASSUME NEW i \in DOMAIN InitialSubs[t]
                         PROVE  IF i <= k + 1 THEN delivered'[InitialSubs[t][i]] = received[t]
                                ELSE received[t] = Append(delivered'[InitialSubs[t][i]], wev[c])
              BY <2>1, <3>2 DEF CalledUpTo
            <6>1. CASE i = k + 1
              BY <5>1, <5>3, <6>1
            <6>2. CASE i # k + 1
              <7>1. delivered'[InitialSubs[t][i]] = delivered[InitialSubs[t][i]]
                BY <1>b, <3>2, <5>2, <6>2
              <7>2. IF i <= k THEN delivered[InitialSubs[t][i]] = received[t]
                    ELSE received[t] = Append(delivered[InitialSubs[t][i]], wev[c])
                BY <2>3 DEF CalledUpTo
              <7>3. i \in Nat /\ (i <= k + 1 <=> i <= k)
                BY <1>b, <5>1, <6>2
              <7> QED
                BY <7>1, <7>2, <7>3
            <6> QED
              BY <6>1, <6>2
          <5> QED
            BY <5>1, <5>4
        <4>2. CASE k = Len(InitialSubs[t])
          <5>1. ~IsInitial(h) /\ InitialsFirst(t, Tail(wtodo[c]), k)
            BY <1>b, <3>3, <4>2
          <5>2. \A i \in DOMAIN InitialSubs[t] :
                   delivered'[InitialSubs[t][i]] = delivered[InitialSubs[t][i]]
            BY <1>b, <3>2, <5>1 DEF IsInitial
          <5>3. CalledUpTo(t, k, wev[c])'
            BY <2>1, <2>3, <3>2, <5>2 DEF CalledUpTo
          <5> QED
            BY <5>1, <5>3
        <4> QED
          BY <1>b, <4>1, <4>2
      <3>7. Busy(t, c)'
        <4>1. PICK m \in 0..Len(InitialSubs[t]) :
                 InitialsFirst(t, Tail(wtodo[c]), m) /\ CalledUpTo(t, m, wev[c])'
          BY <3>6
        <4>2. InitialsFirst(t, wtodo[c], m)'
          <5>1. InitialsFirst(t, wtodo'[c], m)
            BY <3>2, <4>1
          <5> QED
            BY <5>1 DEF InitialsFirst, IsInitial
        <4> QED
          BY <2>1, <3>2, <4>1, <4>2
      <3>8. IdleType(t)' /\ \A d \in made'[t] : Busy(t, d)'
        BY <2>4, <2>6, <3>7 DEF IdleType
      <3> QED
        BY <1>d, <3>5, <3>8
    <2> QED
      BY <2>7, <2>8
  <1>5. ASSUME NEW c \in Seqs, WorkerExit(c) PROVE DeliveryInStep'
    <2>1. /\ wpc[c] = "receive" /\ wpc'[c] = "exit"
          /\ \A d \in Seqs : d # c => wpc'[d] = wpc[d]
          /\ UNCHANGED <<made, wev, wtodo, received, delivered>>
      BY <1>0, <1>5 DEF WorkerExit, TypeOK, chanVars, history
    <2>2. ASSUME NEW t \in Types PROVE IdleType(t)' /\ \A d \in made'[t] : Busy(t, d)'
      <3>1. IdleType(t)'
        BY <1>e, <2>1
      <3>2. ASSUME NEW d \in made[t] PROVE Busy(t, d)'
        <4>1. d \in Seqs
          BY <1>0 DEF TypeOK
        <4>2. CASE d = c
          BY <1>c, <2>1, <4>2
        <4>3. CASE d # c
          BY <1>f, <2>1, <4>1, <4>3
        <4> QED
          BY <4>2, <4>3
      <3> QED
        BY <2>1, <3>1, <3>2
    <2> QED
      BY <1>d, <2>2
  <1>6. ASSUME NEW p \in Publishers, NEW t \in Types,
               PublishBegin(p, t) \/ PublishSend(p)
        PROVE  DeliveryInStep'
    BY <1>6, <1>g DEF PublishBegin, PublishSend, chanVars, workerVars, history
  <1>7. CASE Close
    BY <1>7, <1>g DEF Close, CloseMark, CloseStop, CloseQueues, CloseClear,
       chanVars, workerVars, history
  <1>8. ASSUME NEW t \in Types, NEW h \in Handlers, Subscribe(t, h) \/ Unsubscribe(t, h)
        PROVE  DeliveryInStep'
    BY <1>8, <1>g DEF Subscribe, Unsubscribe, chanVars, workerVars, history
  <1>9. CASE UNCHANGED vars
    BY <1>9, <1>g DEF vars, chanVars, workerVars, history
  <1> QED
    BY <1>1, <1>2, <1>3, <1>4, <1>5, <1>6, <1>7, <1>8, <1>9 DEF Next, Publish, Worker

(* The inductive invariant holds in every state of every behaviour.        *)
THEOREM BusInvariant == Spec => []BusInv
  <1>1. BusInv /\ [Next]_vars => BusInv'
    BY TypeOKNext, ClosePhasesNext, PublishesNext, ChannelsNext, WorkersInStepNext,
       NothingLostNext, DeliveryNext DEF BusInv
  <1> QED
    BY <1>1, BusInvInit, PTL DEF Spec

(* A channel never holds more than its capacity and every table keeps its  *)
(* type, across all interleavings (eventbus.go:17-35, 88-96).              *)
THEOREM BusTypes == Spec => []TypeOK
  <1>1. BusInv => TypeOK
    BY DEF BusInv
  <1> QED
    BY <1>1, BusInvariant, PTL

(* Handlers of one resource type never run concurrently                    *)
(* (eventbus.go:64-77).                                                    *)
THEOREM HandlersAreSerial == Spec => []OneWorkerPerType
  <1>1. BusInv => OneWorkerPerType
    BY DEF BusInv
  <1> QED
    BY <1>1, BusInvariant, PTL

(* No accepted event is lost, duplicated or overtaken in its channel       *)
(* (eventbus.go:80-97, 123-127, 154-167).                                  *)
THEOREM NoEventIsLost == Spec => []NothingLost
  <1>1. BusInv => NothingLost
    BY DEF BusInv
  <1> QED
    BY <1>1, BusInvariant, PTL

(* When Close returns everything accepted was taken out and no worker is   *)
(* left (eventbus.go:154-174).                                             *)
THEOREM CloseDrains == Spec => []ClosedIsDrained
  <1>1. ASSUME BusInv PROVE ClosedIsDrained
    <2> SUFFICES ASSUME closer = "done", NEW t \in Types
                 PROVE  /\ queues[t] = 0 /\ received[t] = accepted[t]
                        /\ \A c \in Seqs : wpc[c] \in {"none", "exit"}
      BY <1>1, BusAssumption DEF ClosedIsDrained
    <2>1. /\ \A c \in Seqs : wpc[c] \in {"none", "exit"}
          /\ queues[t] = 0
      BY <1>1 DEF BusInv, WorkersInStep, ClosePhases
    <2>2. CASE made[t] = {}
      BY <1>1, <2>1, <2>2 DEF BusInv, WorkersInStep
    <2>3. CASE made[t] # {}
      <3>1. PICK c \in made[t] : TRUE
        BY <2>3
      <3>2. c \in Seqs /\ received[t] \in Seq(Seqs)
        BY <1>1, <3>1 DEF BusInv, TypeOK
      <3>3. wpc[c] = "exit"
        BY <1>1, <2>1, <3>1, <3>2 DEF BusInv, WorkersInStep
      <3>4. buf[c] = <<>>
        BY <1>1, <3>2, <3>3 DEF BusInv, WorkersInStep
      <3>5. received[t] \o buf[c] = accepted[t]
        BY <1>1, <3>1 DEF BusInv, NothingLost
      <3> QED
        BY <2>1, <3>2, <3>4, <3>5, ConcatEmptySeq
    <2> QED
      BY <2>2, <2>3
  <1> QED
    BY <1>1, BusInvariant, PTL

(* A handler never sees an event before one subscribed ahead of it, and is *)
(* never more than that one event behind: the core has applied an event    *)
(* before the session layer acts on it (eventbus.go:99-104, 123-147).      *)
THEOREM HandlersInOrder == Spec => []SubscriptionOrder
  <1>1. ASSUME BusInv PROVE SubscriptionOrder
    <2> SUFFICES ASSUME NEW t \in Types, NEW i \in DOMAIN InitialSubs[t],
                        NEW j \in DOMAIN InitialSubs[t], i < j
                 PROVE  LET a == delivered[InitialSubs[t][i]]
                            b == delivered[InitialSubs[t][j]]
                        IN  /\ Len(b) <= Len(a) /\ Len(a) <= Len(b) + 1
                            /\ b = SubSeq(a, 1, Len(b))
      BY DEF SubscriptionOrder
    <2> DEFINE a == delivered[InitialSubs[t][i]]
               b == delivered[InitialSubs[t][j]]
               r == received[t]
    <2>1. /\ a \in Seq(Seqs) /\ b \in Seq(Seqs) /\ r \in Seq(Seqs)
          /\ i \in Nat /\ j \in Nat /\ j <= Len(InitialSubs[t])
      <3>1. /\ DOMAIN InitialSubs[t] = 1..Len(InitialSubs[t])
            /\ Len(InitialSubs[t]) \in Nat
            /\ InitialSubs[t][i] \in Handlers /\ InitialSubs[t][j] \in Handlers
        BY BusAssumption, LenProperties, ElementOfSeq
      <3>2. received \in [Types -> Seq(Seqs)] /\ delivered \in [Handlers -> Seq(Seqs)]
        BY <1>1 DEF BusInv, TypeOK
      <3> QED
        BY <3>1, <3>2
    <2>2. a = b \/ \E e \in Seqs : a = r /\ r = Append(b, e)
      <3>1. CASE made[t] = {}
        BY <1>1, <3>1 DEF BusInv, DeliveryInStep
      <3>2. ASSUME NEW c \in made[t] PROVE a = b \/ \E e \in Seqs : a = r /\ r = Append(b, e)
        <4>1. c \in Seqs /\ wpc[c] \in {"none", "receive", "copy", "call", "exit"}
          BY <1>1 DEF BusInv, TypeOK
        <4>2. wpc[c] # "none"
          BY <1>1, <4>1 DEF BusInv, WorkersInStep
        <4>3. CASE wpc[c] \in {"receive", "exit"}
          BY <1>1, <4>3 DEF BusInv, DeliveryInStep
        <4>4. ASSUME NEW k \in Nat, wev[c] \in Seqs, CalledUpTo(t, k, wev[c])
              PROVE  a = b \/ \E e \in Seqs : a = r /\ r = Append(b, e)
          <5>1. /\ IF i <= k THEN a = r ELSE r = Append(a, wev[c])
                /\ IF j <= k THEN b = r ELSE r = Append(b, wev[c])
            BY <4>4 DEF CalledUpTo
          <5> HIDE DEF a, b, r
          <5>2. CASE j <= k
            BY <2>1, <5>1, <5>2
          <5>3. CASE ~(j <= k) /\ i <= k
            BY <4>4, <5>1, <5>3
          <5>4. CASE ~(i <= k)
            <6>1. Append(a, wev[c]) = Append(b, wev[c])
              BY <2>1, <5>1, <5>4
            <6> QED
              BY <2>1, <4>4, <6>1, AppendInjective
          <5> QED
            BY <5>2, <5>3, <5>4
        <4>5. CASE wpc[c] \in {"copy", "call"}
          <5>1. wev[c] \in Seqs
            BY <1>1, <4>1, <4>5 DEF BusInv, WorkersInStep
          <5>2. \E k \in Nat : CalledUpTo(t, k, wev[c])
            <6>1. Len(InitialSubs[t]) \in Nat
              BY BusAssumption, LenProperties
            <6> QED
              BY <1>1, <4>5, <6>1 DEF BusInv, DeliveryInStep
          <5> QED
            BY <4>4, <5>1, <5>2
        <4> QED
          BY <4>1, <4>2, <4>3, <4>5
      <3> QED
        BY <3>1, <3>2
    <2> HIDE DEF a, b
    <2>3. CASE a = b
      <3>1. Len(a) \in Nat /\ b = SubSeq(b, 1, Len(b))
        BY <2>1, SubSeqFull, LenProperties
      <3> QED
        BY <2>3, <3>1 DEF a, b
    <2>4. ASSUME NEW e \in Seqs, a = Append(b, e)
          PROVE  Len(b) <= Len(a) /\ Len(a) <= Len(b) + 1 /\ b = SubSeq(a, 1, Len(b))
      <3>1. /\ Len(b) \in Nat /\ Len(a) = Len(b) + 1
            /\ \A m \in 1..Len(b) : a[m] = b[m]
        BY <2>1, <2>4, AppendProperties, LenProperties
      <3>2. /\ SubSeq(a, 1, Len(b)) \in Seq(Seqs)
            /\ Len(SubSeq(a, 1, Len(b))) = Len(b)
            /\ \A m \in 1..Len(b) : SubSeq(a, 1, Len(b))[m] = a[m]
        <4>1. \A m \in 1..Len(a) : a[m] \in Seqs
          BY <2>1, ElementOfSeq
        <4>2. \A m \in 1..Len(b) : a[m] \in Seqs
          BY <3>1, <4>1
        <4> QED
          BY <2>1, <3>1, <4>2, SubSeqProperties
      <3>3. b = SubSeq(a, 1, Len(b))
        BY <2>1, <3>1, <3>2, SeqEqual
      <3> QED
        BY <3>1, <3>3
    <2> QED
      BY <2>2, <2>3, <2>4 DEF a, b
  <1> QED
    BY <1>1, BusInvariant, PTL

-----------------------------------------------------------------------------
(* The workers.  WorkersInv is inductive; it is proved in four parts that  *)
(* have few variables in common.                                           *)

ProxyTypes ==
    /\ desired \subseteq Keys /\ stored \subseteq Keys /\ excused \subseteq Keys
    /\ listeners \in [Keys -> 0..MaxListens]
    /\ task \in [Slots -> Tasks] /\ op \in [Callers -> Ops]

(* The part of the inductive invariant about proxies and their listeners.  *)
ProxyInv ==
    /\ ProxyTypes /\ CallsHold /\ TasksHold
    /\ ListedIsRunning /\ OpenIsListed
    /\ OverlapsExcused /\ StoreInStep /\ DifferIsPending
    /\ ShutStaysShut /\ ListensForDesired

-----------------------------------------------------------------------------
(* The proxies.                                                            *)

(* The empty key of a call that is about no proxy is no proxy.             *)
LEMMA NoKeyIsNone == NoKey \notin Keys
  <1> SUFFICES ASSUME NoKey \in Keys PROVE FALSE
    OBVIOUS
  <1>1. PICK c \in Clients, n \in Nat : NoKey = <<c, n>>
    BY KeysAssumption
  <1> QED
    BY <1>1 DEF NoKey

(* Steps that leave the proxies and the calls about them alone.            *)
LEMMA ProxyFrame ==
  ASSUME ProxyInv, UNCHANGED <<op, desired, stored, excused, task, listeners>>
  PROVE  ProxyInv'
  BY DEF ProxyInv, ProxyTypes, CallsHold, TasksHold, ListedIsRunning, OpenIsListed,
         OverlapsExcused, StoreInStep, DifferIsPending, ShutStaysShut,
         ListensForDesired

(* A call that holds no proxy after the step, and none before it that it    *)
(* has begun to create or to close.                                        *)
LEMMA KeylessStep ==
  ASSUME ProxyInv, NEW p \in Callers, NEW o \in Ops,
         op' = [op EXCEPT ![p] = o],
         op[p].at \notin Adding \cup Closing,
         o.key = NoKey, o.at \notin Creating \cup Closing,
         o.at \in {"source", "target"} => o.pair \in Pairs,
         UNCHANGED <<desired, stored, excused, task, listeners>>
  PROVE  ProxyInv'
  <1>1. /\ op' \in [Callers -> Ops] /\ op'[p] = o
        /\ \A q \in Callers : q # p => op'[q] = op[q]
    BY DEF ProxyInv, ProxyTypes
  <1>2. ProxyTypes' /\ TasksHold' /\ ListedIsRunning' /\ OpenIsListed' /\ ListensForDesired'
    BY <1>1 DEF ProxyInv, ProxyTypes, TasksHold, ListedIsRunning, OpenIsListed,
                ListensForDesired
  <1>3. CallsHold'
    BY <1>1 DEF ProxyInv, CallsHold, Creating, Closing
  <1>4. \A q \in Callers, k \in Keys : op'[q].key = k => op'[q] = op[q]
    BY <1>1, NoKeyIsNone
  <1>5. OverlapsExcused' /\ StoreInStep'
    BY <1>4 DEF ProxyInv, OverlapsExcused, StoreInStep
  <1>6. DifferIsPending'
    <2>1. \A q \in Callers : op[q].at \in {"store", "unstore"} => op'[q] = op[q]
      BY <1>1 DEF Adding, Closing
    <2> QED
      BY <2>1 DEF ProxyInv, DifferIsPending
  <1>7. ShutStaysShut'
    <2>1. \A q \in Callers : op'[q].at \in Shutting => op'[q] = op[q]
      BY <1>1 DEF Shutting, Closing
    <2> QED
      BY <2>1 DEF ProxyInv, ShutStaysShut
  <1> QED
    BY <1>2, <1>3, <1>5, <1>6, <1>7 DEF ProxyInv

\* CreateSends keeps the proxy books.
LEMMA CreateSendsProxy ==
  ASSUME ProxyInv, NEW p \in Callers, NEW k \in Keys, CreateSends(p, k),
         op[p].at \in {"idle", "relist"}, op[p].key \in {NoKey, k}
  PROVE  ProxyInv'
  <1>1. /\ op' \in [Callers -> Ops] /\ op'[p].at = "add" /\ op'[p].key = k
        /\ \A q \in Callers : q # p => op'[q] = op[q]
    BY BoundsAssumption DEF ProxyInv, ProxyTypes, CreateSends, Call, Ops
  <1>2. UNCHANGED <<desired, stored, task, listeners>>
    BY DEF CreateSends, proxyVars, listenVars
  <1>3. /\ excused \subseteq excused' /\ excused' \subseteq Keys
        /\ \A q \in Callers : op[q].key = k /\ op[q].at \in Closing => k \in excused'
    BY DEF CreateSends, Overlapped, ProxyInv, ProxyTypes
  <1>4. ProxyTypes' /\ TasksHold' /\ ListedIsRunning' /\ OpenIsListed' /\ ListensForDesired'
    BY <1>1, <1>2, <1>3 DEF ProxyInv, ProxyTypes, TasksHold, ListedIsRunning, OpenIsListed,
                ListensForDesired
  <1>5. CallsHold'
    BY <1>1, NoKeyIsNone DEF ProxyInv, CallsHold, Creating, Closing
  <1>6. OverlapsExcused'
    BY <1>1, <1>3 DEF ProxyInv, OverlapsExcused, Adding, Closing
  <1>7. StoreInStep'
    BY <1>1, <1>2, <1>3 DEF ProxyInv, StoreInStep
  <1>8. DifferIsPending'
    BY <1>1, <1>2, <1>3 DEF ProxyInv, DifferIsPending
  <1>9. ShutStaysShut'
    BY <1>1, <1>2, <1>3 DEF ProxyInv, ShutStaysShut, Shutting
  <1> QED
    BY <1>4, <1>5, <1>6, <1>7, <1>8, <1>9 DEF ProxyInv

\* AddProxy keeps the proxy books.
LEMMA AddProxyProxy ==
  ASSUME ProxyInv, NEW p \in Callers, AddProxy(p)
  PROVE  ProxyInv'
  <1> DEFINE k == op[p].key
             t == clients[k[1]]
  <1>1. /\ op' \in [Callers -> Ops]
        /\ op'[p].at = (IF t = 0 THEN "start" ELSE "store") /\ op'[p].key = k
        /\ op'[p].pair = op[p].pair
        /\ \A q \in Callers : q # p => op'[q] = op[q]
    BY DEF ProxyInv, ProxyTypes, AddProxy, Step, Ops
  <1>2. UNCHANGED <<stored, task, listeners>> /\ op[p].at = "add"
    BY DEF AddProxy, listenVars
  <1>3. k \in Keys
    BY <1>2 DEF ProxyInv, CallsHold, Creating, ProxyTypes, Ops
  <1>4. /\ excused' = IF t = 0 THEN excused \cup {k} ELSE excused
        /\ desired' = IF t = 0 THEN desired ELSE desired \cup {k}
    BY DEF AddProxy
  <1>5. ProxyTypes' /\ TasksHold' /\ ListedIsRunning' /\ OpenIsListed' /\ ListensForDesired'
    BY <1>1, <1>2, <1>3, <1>4 DEF ProxyInv, ProxyTypes, TasksHold, ListedIsRunning,
                OpenIsListed, ListensForDesired
  <1>6. CallsHold'
    BY <1>1, <1>2, <1>3, NoKeyIsNone DEF ProxyInv, CallsHold, Creating, Closing
  <1>7. OverlapsExcused'
    BY <1>1, <1>2, <1>4 DEF ProxyInv, OverlapsExcused, Adding, Closing
  <1>8. StoreInStep'
    <2> SUFFICES ASSUME NEW j \in Keys \ excused', NEW q \in Callers, op'[q].key = j
                 PROVE  /\ op'[q].at # "start"
                        /\ op'[q].at = "store" => j \in desired'
                        /\ op'[q].at = "unstore" => j \notin desired'
      BY DEF StoreInStep
    <2>1. CASE q = p
      BY <2>1, <1>1, <1>4
    <2>2. CASE q # p
      BY <2>2, <1>1, <1>2, <1>3, <1>4 DEF ProxyInv, StoreInStep, OverlapsExcused, Closing, Adding
    <2> QED
      BY <2>1, <2>2
  <1>9. DifferIsPending'
    BY <1>1, <1>2, <1>4 DEF ProxyInv, DifferIsPending
  <1>10. ShutStaysShut'
    BY <1>1, <1>2, <1>4 DEF ProxyInv, ShutStaysShut, Shutting
  <1> QED
    BY <1>5, <1>6, <1>7, <1>8, <1>9, <1>10 DEF ProxyInv

(* The goroutine started for a proxy that is stored finds it desired.      *)
LEMMA StartProxyProxy ==
  ASSUME ProxyInv, NEW p \in Callers, StartProxy(p)
  PROVE  ProxyInv'
  <1> DEFINE k == op[p].key
  <1>1. /\ op' \in [Callers -> Ops] /\ op'[p] = After(p)
        /\ \A q \in Callers : q # p => op'[q] = op[q]
    BY BoundsAssumption DEF ProxyInv, ProxyTypes, StartProxy, After, Idle, Call, Ops, Callers
  <1>2. op'[p].key = NoKey /\ op'[p].at \in {"idle", "next"}
    BY <1>1 DEF After, Call
  <1>3. UNCHANGED <<desired, listeners, excused>> /\ op[p].at \in {"store", "start"}
    BY DEF StartProxy
  <1>4. k \in Keys
    BY <1>3 DEF ProxyInv, CallsHold, Creating, ProxyTypes, Ops
  <1>5. stored' = IF op[p].at = "store" THEN stored \cup {k} ELSE stored
    BY DEF StartProxy
  <1>6. PICK g \in Slots : /\ task[g] = NoTask
                           /\ task' = [task EXCEPT ![g] = [at |-> "start", key |-> k]]
    BY DEF StartProxy
  <1>7. /\ task' \in [Slots -> Tasks] /\ task[g].at = "free"
        /\ task'[g].at = "start" /\ task'[g].key = k
        /\ \A h \in Slots : h # g => task'[h] = task[h]
    BY <1>4, <1>6 DEF ProxyInv, ProxyTypes, Tasks, NoTask
  <1>8. k \notin excused => k \in desired /\ op[p].at = "store"
    BY <1>3, <1>4 DEF ProxyInv, StoreInStep
  <1>9. ProxyTypes' /\ TasksHold'
    BY <1>1, <1>3, <1>4, <1>5, <1>7 DEF ProxyInv, ProxyTypes, TasksHold
  <1>10. ListedIsRunning'
    BY <1>3, <1>7 DEF ProxyInv, ListedIsRunning, ProxyTypes, Slots
  <1>11. OpenIsListed' /\ ListensForDesired'
    BY <1>3, <1>7, <1>8 DEF ProxyInv, OpenIsListed, ListensForDesired
  <1>12. CallsHold'
    BY <1>1, <1>2, <1>3, <1>4, NoKeyIsNone DEF ProxyInv, CallsHold, Creating, Closing
  <1>13. \A q \in Callers, j \in Keys : op'[q].key = j => q # p /\ op'[q] = op[q]
    BY <1>1, <1>2, NoKeyIsNone
  <1>14. OverlapsExcused' /\ StoreInStep'
    BY <1>3, <1>13 DEF ProxyInv, OverlapsExcused, StoreInStep
  <1>15. DifferIsPending'
    BY <1>1, <1>3, <1>5, <1>8 DEF ProxyInv, DifferIsPending
  <1>16. ShutStaysShut'
    <2> SUFFICES ASSUME NEW h \in Slots, NEW q \in Callers,
                        op'[q].at \in Shutting, op'[q].key \notin excused,
                        task'[h].key = op'[q].key
                 PROVE  task'[h].at \notin {"start", "open"}
      BY <1>3 DEF ShutStaysShut
    <2>1. q # p /\ op'[q] = op[q]
      BY <1>1, <1>2 DEF Shutting
    <2>2. CASE h = g
      BY <2>1, <2>2, <1>3, <1>4, <1>7 DEF ProxyInv, OverlapsExcused, Shutting, Closing, Adding
    <2>3. CASE h # g
      BY <2>1, <2>3, <1>7 DEF ProxyInv, ShutStaysShut
    <2> QED
      BY <2>2, <2>3
  <1> QED
    BY <1>9, <1>10, <1>11, <1>12, <1>14, <1>15, <1>16 DEF ProxyInv

\* The start of a close keeps the proxy books.
LEMMA CloseProxyProxy ==
  ASSUME ProxyInv, NEW k \in Keys, CloseProxy(k)
  PROVE  ProxyInv'
  <1> DEFINE p == "admin"
  <1>0. p \in Callers
    BY DEF Callers
  <1>1. /\ op' \in [Callers -> Ops] /\ op'[p].at = "unlisten" /\ op'[p].key = k
        /\ \A q \in Callers : q # p => op'[q] = op[q]
    BY BoundsAssumption, <1>0 DEF ProxyInv, ProxyTypes, CloseProxy, Call, Ops
  <1>2. UNCHANGED <<desired, stored, task, listeners>> /\ op[p].at = "idle"
    BY DEF CloseProxy, proxyVars, listenVars
  <1>3. op[p].key = NoKey
    BY <1>0, <1>2 DEF ProxyInv, CallsHold, Creating, Closing
  <1>4. /\ excused \subseteq excused' /\ excused' \subseteq Keys
        /\ \A q \in Callers : op[q].key = k /\ op[q].at \in Creating => k \in excused'
    BY DEF CloseProxy, Overlapped, ProxyInv, ProxyTypes
  <1>5. ProxyTypes' /\ TasksHold' /\ ListedIsRunning' /\ OpenIsListed' /\ ListensForDesired'
    BY <1>1, <1>2, <1>4 DEF ProxyInv, ProxyTypes, TasksHold, ListedIsRunning, OpenIsListed,
                ListensForDesired
  <1>6. CallsHold'
    BY <1>1, <1>2, NoKeyIsNone DEF ProxyInv, CallsHold, Creating, Closing
  <1>7. OverlapsExcused'
    BY <1>1, <1>4 DEF ProxyInv, OverlapsExcused, Adding, Creating, Closing
  <1>8. StoreInStep'
    BY <1>1, <1>2, <1>4 DEF ProxyInv, StoreInStep
  <1>9. DifferIsPending'
    BY <1>1, <1>2, <1>4 DEF ProxyInv, DifferIsPending
  <1>10. ShutStaysShut'
    BY <1>1, <1>2, <1>4 DEF ProxyInv, ShutStaysShut, Shutting
  <1> QED
    BY <1>5, <1>6, <1>7, <1>8, <1>9, <1>10 DEF ProxyInv

(* What CloseListener leaves: the listed listener of the proxy is closed,  *)
(* and a proxy whose goroutine has not listened yet is excused.            *)
LEMMA CloseListenerDoes ==
  ASSUME ProxyInv, NEW k \in Keys, CloseListener(k)
  PROVE  /\ task' \in [Slots -> Tasks] /\ listeners' = listeners
         /\ \A g \in Slots : /\ task'[g].key = task[g].key
                             /\ \/ task'[g].at = task[g].at
                                \/ task[g].at = "open" /\ task'[g].at = "closed"
         /\ excused \subseteq excused' /\ excused' \subseteq Keys
         /\ k \notin excused' => \A g \in Slots : task[g].key = k =>
                task'[g].at \notin {"start", "open"}
  <1>1. /\ task' \in [Slots -> Tasks] /\ listeners' = listeners
        /\ \A g \in Slots : /\ task'[g].key = task[g].key
                            /\ task'[g].at = IF g = listeners[k] /\ task[g].at = "open"
                                             THEN "closed" ELSE task[g].at
    BY DEF ProxyInv, ProxyTypes, CloseListener, Shut, Tasks
  <1>2. /\ excused \subseteq excused' /\ excused' \subseteq Keys
        /\ k \notin excused' => \A g \in Slots : task[g].key = k => task[g].at # "start"
    BY DEF ProxyInv, ProxyTypes, CloseListener
  <1>3. k \notin excused' => \A g \in Slots : task[g].key = k =>
                task'[g].at \notin {"start", "open"}
    BY <1>1, <1>2 DEF ProxyInv, OpenIsListed
  <1> QED
    BY <1>1, <1>2, <1>3

(* Closing a listener disturbs no proxy.                                   *)
LEMMA CloseListenerKeeps ==
  ASSUME ProxyInv, NEW k \in Keys, CloseListener(k), desired' = desired
  PROVE  TasksHold' /\ ListedIsRunning' /\ OpenIsListed' /\ ListensForDesired'
  <1>1. TasksHold'
    BY CloseListenerDoes DEF ProxyInv, TasksHold
  <1>2. ListedIsRunning'
    BY CloseListenerDoes DEF ProxyInv, ProxyTypes, ListedIsRunning, Slots
  <1>3. OpenIsListed' /\ ListensForDesired'
    BY CloseListenerDoes DEF ProxyInv, OpenIsListed, ListensForDesired
  <1> QED
    BY <1>1, <1>2, <1>3

\* Closing the listener keeps the proxy books.
LEMMA CloseListensProxy ==
  ASSUME ProxyInv, NEW p \in Callers, CloseListens(p)
  PROVE  ProxyInv'
  <1> DEFINE k == op[p].key
  <1>1. /\ op' \in [Callers -> Ops] /\ op'[p].at = "unport" /\ op'[p].key = k
        /\ \A q \in Callers : q # p => op'[q] = op[q]
    BY DEF ProxyInv, ProxyTypes, CloseListens, Step, Ops
  <1>2. UNCHANGED <<desired, stored>> /\ op[p].at = "unlisten" /\ CloseListener(k)
    BY DEF CloseListens, proxyVars
  <1>3. k \in Keys
    BY <1>2 DEF ProxyInv, CallsHold, Closing, ProxyTypes, Ops
  <1>4. /\ task' \in [Slots -> Tasks] /\ listeners' = listeners
        /\ \A g \in Slots : /\ task'[g].key = task[g].key
                            /\ \/ task'[g].at = task[g].at
                               \/ task[g].at = "open" /\ task'[g].at = "closed"
        /\ excused \subseteq excused' /\ excused' \subseteq Keys
        /\ k \notin excused' => \A g \in Slots : task[g].key = k =>
                task'[g].at \notin {"start", "open"}
    BY <1>2, <1>3, CloseListenerDoes
  <1>5. TasksHold' /\ ListedIsRunning' /\ OpenIsListed' /\ ListensForDesired'
    BY <1>2, <1>3, CloseListenerKeeps
  <1>6. ProxyTypes'
    BY <1>1, <1>2, <1>4 DEF ProxyInv, ProxyTypes
  <1>7. CallsHold'
    BY <1>1, <1>2 DEF ProxyInv, CallsHold, Creating, Closing
  <1>8. OverlapsExcused'
    BY <1>1, <1>2, <1>4 DEF ProxyInv, OverlapsExcused, Adding, Closing
  <1>9. StoreInStep'
    BY <1>1, <1>2, <1>4 DEF ProxyInv, StoreInStep
  <1>10. DifferIsPending'
    BY <1>1, <1>2, <1>4 DEF ProxyInv, DifferIsPending
  <1>11. ShutStaysShut'
    BY <1>1, <1>2, <1>4 DEF ProxyInv, ShutStaysShut, Shutting
  <1> QED
    BY <1>5, <1>6, <1>7, <1>8, <1>9, <1>10, <1>11 DEF ProxyInv

\* Freeing the port keeps the proxy books.
LEMMA UnregisterPortProxy ==
  ASSUME ProxyInv, NEW p \in Callers, UnregisterPort(p)
  PROVE  ProxyInv'
  <1>1. /\ op' \in [Callers -> Ops] /\ op'[p].at = "remove" /\ op'[p].key = op[p].key
        /\ \A q \in Callers : q # p => op'[q] = op[q]
    BY DEF ProxyInv, ProxyTypes, UnregisterPort, Step, Ops
  <1>2. UNCHANGED <<desired, stored, task, listeners, excused>> /\ op[p].at = "unport"
    BY DEF UnregisterPort, listenVars
  <1>3. ProxyTypes' /\ TasksHold' /\ ListedIsRunning' /\ OpenIsListed' /\ ListensForDesired'
    BY <1>1, <1>2 DEF ProxyInv, ProxyTypes, TasksHold, ListedIsRunning, OpenIsListed,
                ListensForDesired
  <1>4. CallsHold'
    BY <1>1, <1>2 DEF ProxyInv, CallsHold, Creating, Closing
  <1>5. OverlapsExcused'
    BY <1>1, <1>2 DEF ProxyInv, OverlapsExcused, Adding, Closing
  <1>6. StoreInStep' /\ DifferIsPending'
    BY <1>1, <1>2 DEF ProxyInv, StoreInStep, DifferIsPending
  <1>7. ShutStaysShut'
    BY <1>1, <1>2 DEF ProxyInv, ShutStaysShut, Shutting
  <1> QED
    BY <1>3, <1>4, <1>5, <1>6, <1>7 DEF ProxyInv

(* Nothing listens for the proxy that is taken from the desired ones.      *)
LEMMA RemoveProxyProxy ==
  ASSUME ProxyInv, NEW p \in Callers, RemoveProxy(p)
  PROVE  ProxyInv'
  <1> DEFINE k == op[p].key
             t == clients[k[1]]
  <1>1. UNCHANGED <<stored, task, listeners, excused>> /\ op[p].at = "remove"
    BY DEF RemoveProxy, listenVars
  <1>2. k \in Keys /\ p = "admin"
    BY <1>1 DEF ProxyInv, CallsHold, Closing, ProxyTypes, Ops
  <1>3. Idle \in Ops
    BY BoundsAssumption DEF Idle, Call, Ops
  <1>4. /\ op' \in [Callers -> Ops]
        /\ IF t = 0 THEN op'[p] = Idle
                    ELSE op'[p].at = "unstore" /\ op'[p].key = k
        /\ \A q \in Callers : q # p => op'[q] = op[q]
    BY <1>3 DEF ProxyInv, ProxyTypes, RemoveProxy, Step, Ops
  <1>5. desired' = IF t = 0 THEN desired ELSE desired \ {k}
    BY DEF RemoveProxy
  <1>6. \A g \in Slots : task[g].key = k /\ k \notin excused =>
                task[g].at \notin {"start", "open"}
    BY <1>1 DEF ProxyInv, ShutStaysShut, Shutting
  <1>7. op'[p].at \in {"idle", "unstore"} /\ op'[p].key \in {NoKey, k}
    BY <1>4 DEF Idle, Call
  <1>8. ProxyTypes' /\ TasksHold' /\ ListedIsRunning' /\ OpenIsListed'
    BY <1>1, <1>4, <1>5 DEF ProxyInv, ProxyTypes, TasksHold, ListedIsRunning, OpenIsListed
  <1>9. ListensForDesired'
    BY <1>1, <1>5, <1>6 DEF ProxyInv, ListensForDesired
  <1>10. CallsHold'
    BY <1>1, <1>2, <1>4, NoKeyIsNone DEF ProxyInv, CallsHold, Creating, Closing, Idle, Call
  <1>11. OverlapsExcused'
    BY <1>1, <1>4, <1>7, NoKeyIsNone DEF ProxyInv, OverlapsExcused, Adding, Closing
  <1>12. StoreInStep'
    <2> SUFFICES ASSUME NEW j \in Keys \ excused, NEW q \in Callers, op'[q].key = j
                 PROVE  /\ op'[q].at # "start"
                        /\ op'[q].at = "store" => j \in desired'
                        /\ op'[q].at = "unstore" => j \notin desired'
      BY <1>1 DEF StoreInStep
    <2>1. CASE q = p
      BY <2>1, <1>4, <1>5, <1>7 DEF Idle, Call
    <2>2. CASE q # p
      BY <2>2, <1>1, <1>2, <1>4, <1>5
         DEF ProxyInv, StoreInStep, OverlapsExcused, Closing, Adding
    <2> QED
      BY <2>1, <2>2
  <1>13. DifferIsPending'
    BY <1>1, <1>4, <1>5 DEF ProxyInv, DifferIsPending
  <1>14. ShutStaysShut'
    <2> SUFFICES ASSUME NEW g \in Slots, NEW q \in Callers,
                        op'[q].at \in Shutting, op'[q].key \notin excused,
                        task[g].key = op'[q].key
                 PROVE  task[g].at \notin {"start", "open"}
      BY <1>1 DEF ShutStaysShut
    <2>1. CASE q = p
      BY <2>1, <1>4, <1>6 DEF Idle, Call, Shutting
    <2>2. CASE q # p
      BY <2>2, <1>4 DEF ProxyInv, ShutStaysShut
    <2> QED
      BY <2>1, <2>2
  <1> QED
    BY <1>8, <1>9, <1>10, <1>11, <1>12, <1>13, <1>14 DEF ProxyInv

\* Deleting the stored proxy keeps the proxy books.
LEMMA UnstoreProxyProxy ==
  ASSUME ProxyInv, NEW p \in Callers, UnstoreProxy(p)
  PROVE  ProxyInv'
  <1> DEFINE k == op[p].key
  <1>1. UNCHANGED <<desired, task, listeners, excused>> /\ op[p].at = "unstore"
    BY DEF UnstoreProxy, listenVars
  <1>2. k \in Keys
    BY <1>1 DEF ProxyInv, CallsHold, Closing, ProxyTypes, Ops
  <1>3. Idle \in Ops
    BY BoundsAssumption DEF Idle, Call, Ops
  <1>4. /\ op' \in [Callers -> Ops] /\ op'[p] = Idle
        /\ \A q \in Callers : q # p => op'[q] = op[q]
    BY <1>3 DEF ProxyInv, ProxyTypes, UnstoreProxy
  <1>5. op'[p].at = "idle" /\ op'[p].key = NoKey
    BY <1>4 DEF Idle, Call
  <1>6. stored' = stored \ {k}
    BY DEF UnstoreProxy, Unstored
  <1>7. ProxyTypes' /\ TasksHold' /\ ListedIsRunning' /\ OpenIsListed' /\ ListensForDesired'
    BY <1>1, <1>4, <1>6 DEF ProxyInv, ProxyTypes, TasksHold, ListedIsRunning, OpenIsListed,
                ListensForDesired
  <1>8. CallsHold'
    BY <1>1, <1>4, <1>5 DEF ProxyInv, CallsHold, Creating, Closing
  <1>9. \A q \in Callers, j \in Keys : op'[q].key = j => q # p /\ op'[q] = op[q]
    BY <1>4, <1>5, NoKeyIsNone
  <1>10. OverlapsExcused' /\ StoreInStep'
    BY <1>1, <1>9 DEF ProxyInv, OverlapsExcused, StoreInStep
  <1>11. k \notin excused => k \notin desired
    BY <1>1, <1>2 DEF ProxyInv, StoreInStep
  <1>12. DifferIsPending'
    BY <1>1, <1>4, <1>6, <1>11 DEF ProxyInv, DifferIsPending
  <1>13. ShutStaysShut'
    BY <1>1, <1>4, <1>5 DEF ProxyInv, ShutStaysShut, Shutting
  <1> QED
    BY <1>7, <1>8, <1>10, <1>12, <1>13 DEF ProxyInv

(* A goroutine that listens is the only one that has the port.             *)
LEMMA ListenProxy ==
  ASSUME ProxyInv, NEW g \in Slots, Listen(g)
  PROVE  ProxyInv'
  <1> DEFINE k == task[g].key
  <1>1. UNCHANGED <<op, desired, stored, excused>> /\ task[g].at = "start"
    BY DEF Listen, TaskStep, proxyVars, callVars
  <1>2. k \in Keys
    BY <1>1 DEF ProxyInv, TasksHold
  <1>3. CASE /\ \E h \in Slots : task[h].at = "open" /\ task[h].key[2] = k[2]
    <2>1. task' = [task EXCEPT ![g] = NoTask] /\ UNCHANGED listeners
      BY <1>3 DEF Listen
    <2>2. /\ task' \in [Slots -> Tasks] /\ task'[g].at = "free"
          /\ \A h \in Slots : h # g => task'[h] = task[h]
      BY <2>1 DEF ProxyInv, ProxyTypes, NoTask, Tasks
    <2>3. ProxyTypes' /\ TasksHold' /\ OpenIsListed' /\ ListensForDesired'
      BY <1>1, <2>1, <2>2 DEF ProxyInv, ProxyTypes, TasksHold, OpenIsListed, ListensForDesired
    <2>4. ListedIsRunning'
      BY <1>1, <2>1, <2>2 DEF ProxyInv, ProxyTypes, ListedIsRunning, Slots
    <2>5. CallsHold' /\ OverlapsExcused' /\ StoreInStep' /\ DifferIsPending'
      BY <1>1 DEF ProxyInv, CallsHold, OverlapsExcused, StoreInStep, DifferIsPending
    <2>6. ShutStaysShut'
      BY <1>1, <2>2 DEF ProxyInv, ShutStaysShut
    <2> QED
      BY <2>3, <2>4, <2>5, <2>6 DEF ProxyInv
  <1>4. CASE ~ \E h \in Slots : task[h].at = "open" /\ task[h].key[2] = k[2]
    <2>1. task' = [task EXCEPT ![g].at = "open"] /\ listeners' = [listeners EXCEPT ![k] = g]
      BY <1>4 DEF Listen
    <2>2. /\ task' \in [Slots -> Tasks] /\ task'[g].at = "open" /\ task'[g].key = k
          /\ \A h \in Slots : h # g => task'[h] = task[h]
      BY <2>1 DEF ProxyInv, ProxyTypes, Tasks
    <2>3. /\ listeners' \in [Keys -> 0..MaxListens] /\ listeners'[k] = g
          /\ \A j \in Keys : j # k => listeners'[j] = listeners[j]
      BY <2>1, <1>2, BoundsAssumption DEF ProxyInv, ProxyTypes, Slots
    <2>4. \A h \in Slots : task[h].at = "open" => task[h].key # k
      BY <1>4
    <2>5. ProxyTypes' /\ TasksHold' /\ ListensForDesired'
      BY <1>1, <2>2, <2>3 DEF ProxyInv, ProxyTypes, TasksHold, ListensForDesired
    <2>6. OpenIsListed'
      BY <1>1, <1>2, <2>2, <2>3, <2>4 DEF ProxyInv, OpenIsListed, TasksHold
    <2>7. ListedIsRunning'
      BY <1>1, <2>2, <2>3 DEF ProxyInv, ProxyTypes, ListedIsRunning, Slots
    <2>8. CallsHold' /\ OverlapsExcused' /\ StoreInStep' /\ DifferIsPending'
      BY <1>1 DEF ProxyInv, CallsHold, OverlapsExcused, StoreInStep, DifferIsPending
    <2>9. ShutStaysShut'
      BY <1>1, <2>2 DEF ProxyInv, ShutStaysShut
    <2> QED
      BY <2>5, <2>6, <2>7, <2>8, <2>9 DEF ProxyInv
  <1> QED
    BY <1>3, <1>4

(* A goroutine that ends takes its own entry, or one it shares with no     *)
(* open listener, unless the proxy is excused.                             *)
LEMMA ListenEndsProxy ==
  ASSUME ProxyInv, NEW g \in Slots, ListenEnds(g)
  PROVE  ProxyInv'
  <1> DEFINE k == task[g].key
  <1>1. UNCHANGED <<op, desired, stored>> /\ task[g].at = "closed"
    BY DEF ListenEnds, TaskStep, proxyVars, callVars
  <1>2. k \in Keys
    BY <1>1 DEF ProxyInv, TasksHold
  <1>3. /\ task' \in [Slots -> Tasks] /\ task'[g].at = "free"
        /\ \A h \in Slots : h # g => task'[h] = task[h]
    BY DEF ListenEnds, ProxyInv, ProxyTypes, NoTask, Tasks
  <1>4. /\ listeners' \in [Keys -> 0..MaxListens] /\ listeners'[k] = 0
        /\ \A j \in Keys : j # k => listeners'[j] = listeners[j]
    BY <1>2, BoundsAssumption DEF ListenEnds, ProxyInv, ProxyTypes
  <1>5. /\ excused \subseteq excused' /\ excused' \subseteq Keys
        /\ k \notin excused' => listeners[k] \in {0, g}
    BY <1>2 DEF ListenEnds, ProxyInv, ProxyTypes
  <1>6. ProxyTypes' /\ TasksHold' /\ ListensForDesired'
    BY <1>1, <1>3, <1>4, <1>5 DEF ProxyInv, ProxyTypes, TasksHold, ListensForDesired
  <1>7. OpenIsListed'
    <2> SUFFICES ASSUME NEW h \in Slots, task'[h].at = "open", task'[h].key \notin excused'
                 PROVE  listeners'[task'[h].key] = h
      BY DEF OpenIsListed
    <2>1. h # g /\ task'[h] = task[h]
      BY <1>3
    <2>2. listeners[task[h].key] = h /\ task[h].key \in Keys
      BY <2>1, <1>5 DEF ProxyInv, OpenIsListed, TasksHold
    <2>3. h # 0
      BY DEF Slots
    <2>4. task[h].key # k
      BY <2>1, <2>2, <2>3, <1>5
    <2> QED
      BY <2>1, <2>2, <2>4, <1>4
  <1>8. ListedIsRunning'
    BY <1>1, <1>3, <1>4 DEF ProxyInv, ProxyTypes, ListedIsRunning, Slots
  <1>9. CallsHold' /\ OverlapsExcused' /\ StoreInStep' /\ DifferIsPending'
    BY <1>1, <1>5 DEF ProxyInv, CallsHold, OverlapsExcused, StoreInStep, DifferIsPending
  <1>10. ShutStaysShut'
    BY <1>1, <1>3, <1>5 DEF ProxyInv, ShutStaysShut
  <1> QED
    BY <1>6, <1>7, <1>8, <1>9, <1>10 DEF ProxyInv

(* A restoration closes the listener before it has begun to create.        *)
LEMMA RestoreProxyProxy ==
  ASSUME ProxyInv, NEW k \in Keys, RestoreProxy(k)
  PROVE  ProxyInv'
  <1> DEFINE p == "reconcile"
  <1>1. p \in Callers /\ UNCHANGED <<desired, stored>> /\ op[p].at = "next"
    BY DEF RestoreProxy, PassRest, proxyVars, Callers
  <1>2. CASE clients[k[1]] = 0
    BY <1>1, <1>2, ProxyFrame DEF RestoreProxy, listenVars
  <1>3. CASE clients[k[1]] # 0
    <2>1. /\ op' \in [Callers -> Ops] /\ op'[p].at = "relist" /\ op'[p].key = k
          /\ \A q \in Callers : q # p => op'[q] = op[q]
      BY <1>1, <1>3, BoundsAssumption DEF ProxyInv, ProxyTypes, RestoreProxy, Call, Ops
    <2>2. CloseListener(k)
      BY <1>3 DEF RestoreProxy
    <2>3. /\ task' \in [Slots -> Tasks] /\ listeners' = listeners
          /\ \A g \in Slots : /\ task'[g].key = task[g].key
                              /\ \/ task'[g].at = task[g].at
                                 \/ task[g].at = "open" /\ task'[g].at = "closed"
          /\ excused \subseteq excused' /\ excused' \subseteq Keys
      BY <2>2, CloseListenerDoes
    <2>4. TasksHold' /\ ListedIsRunning' /\ OpenIsListed' /\ ListensForDesired'
      BY <1>1, <2>2, CloseListenerKeeps
    <2>5. ProxyTypes'
      BY <1>1, <2>1, <2>3 DEF ProxyInv, ProxyTypes
    <2>6. CallsHold'
      BY <1>1, <2>1, NoKeyIsNone DEF ProxyInv, CallsHold, Creating, Closing
    <2>7. OverlapsExcused'
      BY <2>1, <2>3 DEF ProxyInv, OverlapsExcused, Adding, Closing
    <2>8. StoreInStep'
      BY <1>1, <2>1, <2>3 DEF ProxyInv, StoreInStep
    <2>9. DifferIsPending'
      BY <1>1, <2>1, <2>3 DEF ProxyInv, DifferIsPending
    <2>10. ShutStaysShut'
      BY <2>1, <2>3 DEF ProxyInv, ShutStaysShut, Shutting
    <2> QED
      BY <2>4, <2>5, <2>6, <2>7, <2>8, <2>9, <2>10 DEF ProxyInv
  <1> QED
    BY <1>2, <1>3

\* A creation that a restore starts keeps the proxy books.
LEMMA RestoreCreatesProxy ==
  ASSUME ProxyInv, RestoreCreates
  PROVE  ProxyInv'
  <1>1. /\ "reconcile" \in Callers /\ op["reconcile"].at = "relist"
        /\ CreateSends("reconcile", op["reconcile"].key)
    BY DEF RestoreCreates, Callers
  <1>2. op["reconcile"].key \in Keys
    BY <1>1 DEF ProxyInv, ProxyTypes, CallsHold, Creating, Ops
  <1> QED
    BY <1>1, <1>2, CreateSendsProxy

\* The start of a creation keeps the proxy books.
LEMMA CreateProxyProxy ==
  ASSUME ProxyInv, NEW k \in Keys, CreateProxy(k)
  PROVE  ProxyInv'
  <1>1. /\ "admin" \in Callers /\ op["admin"].at = "idle"
        /\ CreateSends("admin", k)
    BY DEF CreateProxy, Callers
  <1>2. op["admin"].key = NoKey
    BY <1>1 DEF ProxyInv, CallsHold, Creating, Closing
  <1> QED
    BY <1>1, <1>2, CreateSendsProxy

(* Relay calls hold no proxy.                                              *)
LEMMA CreateRelaySessionProxy ==
  ASSUME ProxyInv, NEW p \in Callers, NEW pair \in Pairs,
         CreateRelaySession(p, pair), op[p].at \in {"idle", "relays"}
  PROVE  ProxyInv'
  <1>1. PICK id \in 1..MaxRelays :
           op' = [op EXCEPT ![p] = [at |-> "source", key |-> NoKey,
                                    pair |-> pair, id |-> id]]
    BY DEF CreateRelaySession
  <1> DEFINE o == [at |-> "source", key |-> NoKey, pair |-> pair, id |-> id]
  <1>2. o \in Ops /\ o.key = NoKey /\ o.at = "source" /\ o.pair = pair
    BY BoundsAssumption DEF Ops
  <1>3. UNCHANGED <<desired, stored, excused, task, listeners>>
    BY DEF CreateRelaySession, proxyVars, listenVars
  <1>4. op[p].at \notin Adding \cup Closing /\ o.at \notin Creating \cup Closing
    BY <1>2 DEF Adding, Closing, Creating
  <1> HIDE DEF o
  <1> QED
    BY <1>1, <1>2, <1>3, <1>4, KeylessStep DEF o

\* What a caller does after a relay touches no proxy key.
LEMMA AfterRelayIsKeyless ==
  ASSUME NEW p \in Callers
  PROVE  AfterRelay(p) \in Ops /\ AfterRelay(p).key = NoKey
         /\ AfterRelay(p).at \in {"idle", "relays"}
  BY BoundsAssumption DEF AfterRelay, Call, Ops

\* A relay announced, or not announced, leaves the proxy books alone.
LEMMA RelaySentProxy ==
  ASSUME ProxyInv, NEW p \in Callers, RelaySent(p) \/ RelayNotSent(p)
  PROVE  ProxyInv'
  <1>1. /\ UNCHANGED <<desired, stored, excused, task, listeners>>
        /\ op[p].at \in {"source", "target"}
    BY DEF RelaySent, RelayNotSent, RelayRest, proxyVars, listenVars
  <1>2. op[p].at \notin Adding \cup Closing
    BY <1>1 DEF Adding, Closing
  <1>3. CASE op' = [op EXCEPT ![p] = AfterRelay(p)]
    <2>1. AfterRelay(p).at \notin Creating \cup Closing
      BY AfterRelayIsKeyless DEF Creating, Closing
    <2> QED
      BY <1>1, <1>2, <1>3, <2>1, AfterRelayIsKeyless, KeylessStep
  <1>4. CASE Step(p, "target")
    <2> DEFINE o == [op[p] EXCEPT !.at = "target"]
    <2>1. op[p] \in Ops /\ op[p].key = NoKey /\ op[p].pair \in Pairs
      BY <1>1 DEF ProxyInv, ProxyTypes, CallsHold, Creating, Closing
    <2>2. o \in Ops /\ o.key = NoKey /\ o.pair \in Pairs /\ o.at = "target"
      BY <2>1 DEF Ops
    <2>3. op' = [op EXCEPT ![p] = o]
      BY <1>4 DEF Step
    <2>4. o.at \notin Creating \cup Closing
      BY <2>2 DEF Creating, Closing
    <2> HIDE DEF o
    <2> QED
      BY <1>1, <1>2, <2>2, <2>3, <2>4, KeylessStep
  <1> QED
    BY <1>3, <1>4 DEF RelaySent, RelayNotSent

\* The steps of a reconcile pass that only queue work keep the proxy books.
LEMMA PassStepsProxy ==
  ASSUME ProxyInv, ReconcileProxies \/ ReconcileRelays \/ PassEnds \/ RestoreFails
  PROVE  ProxyInv'
  <1> DEFINE p == "reconcile"
  <1>1. /\ p \in Callers /\ UNCHANGED <<desired, stored, excused, task, listeners>>
        /\ op[p].at \in {"idle", "next", "relays", "relist"}
    BY DEF ReconcileProxies, PassBegins, ReconcileRelays, PassEnds, RestoreFails, PassRest,
           proxyVars, listenVars, Callers
  <1>2. op[p].at \notin Adding \cup Closing
    BY <1>1 DEF Adding, Closing
  <1>3. CASE RestoreFails
    <2>1. After(p) \in Ops /\ After(p).key = NoKey /\ After(p).at = "next"
      BY BoundsAssumption DEF After, Call, Ops
    <2>2. After(p).at \notin Creating \cup Closing
      BY <2>1 DEF Creating, Closing
    <2>3. op' = [op EXCEPT ![p] = After(p)]
      BY <1>3 DEF RestoreFails
    <2> QED
      BY <1>1, <1>2, <2>1, <2>2, <2>3, KeylessStep
  <1>4. ASSUME NEW at \in {"idle", "next", "relays"}, Step(p, at), op[p].at # "relist"
        PROVE  ProxyInv'
    <2> DEFINE o == [op[p] EXCEPT !.at = at]
    <2>1. op[p] \in Ops /\ op[p].key = NoKey
      BY <1>1, <1>4 DEF ProxyInv, ProxyTypes, CallsHold, Creating, Closing
    <2>2. o \in Ops /\ o.key = NoKey /\ o.at = at
      BY <2>1 DEF Ops
    <2>3. op' = [op EXCEPT ![p] = o]
      BY <1>4 DEF Step
    <2>4. o.at \notin Creating \cup Closing
      BY <2>2 DEF Creating, Closing
    <2> HIDE DEF o
    <2> QED
      BY <1>1, <1>2, <2>2, <2>3, <2>4, KeylessStep
  <1> QED
    BY <1>3, <1>4 DEF ReconcileProxies, PassBegins, ReconcileRelays, PassEnds

-----------------------------------------------------------------------------
(* The relays.                                                             *)

(* The part about relays.                                                  *)
RelayBooks ==
    /\ sessions \subseteq Relays /\ desiredRelays \subseteq Relays
    /\ todo \in [keys : SUBSET Keys, relays : SUBSET Relays]
    /\ imported \subseteq Pairs
    /\ RelaysImported

(* Steps that leave the relays alone.                                      *)
LEMMA RelayFrame ==
  ASSUME RelayBooks, UNCHANGED <<sessions, desiredRelays, imported>>,
         todo' \in [keys : SUBSET Keys, relays : SUBSET Relays],
         todo'.relays \subseteq todo.relays
  PROVE  RelayBooks'
  BY DEF RelayBooks, RelaysImported

(* A session is stored with the desired relay, so a relay of a call is     *)
(* never one without a session.                                            *)
LEMMA CreateRelaySessionBooks ==
  ASSUME RelayBooks, NEW p \in Callers, NEW pair \in Pairs,
         p = "reconcile" => pair \in imported,
         CreateRelaySession(p, pair),
         todo' \in [keys : SUBSET Keys, relays : SUBSET Relays],
         todo'.relays \subseteq todo.relays
  PROVE  RelayBooks'
  <1>1. PICK id \in 1..MaxRelays :
           /\ sessions' = sessions \cup {[id |-> id, pair |-> pair, by |-> p]}
           /\ desiredRelays' = desiredRelays \cup {[id |-> id, pair |-> pair, by |-> p]}
    BY DEF CreateRelaySession
  <1> DEFINE r == [id |-> id, pair |-> pair, by |-> p]
  <1>2. r \in Relays /\ r.pair = pair /\ r.by = p
    BY DEF Relays
  <1>3. imported' = imported
    BY DEF CreateRelaySession
  <1>4. sessions' = sessions \cup {r} /\ desiredRelays' = desiredRelays \cup {r}
    BY <1>1
  <1> HIDE DEF r
  <1> QED
    BY <1>2, <1>3, <1>4 DEF RelayBooks, RelaysImported

\* Removing a relay session keeps the relay books.
LEMMA RemoveRelaySessionBooks ==
  ASSUME RelayBooks, NEW id, RemoveRelaySession(id), UNCHANGED <<todo, imported>>
  PROVE  RelayBooks'
  BY DEF RelayBooks, RelaysImported, RemoveRelaySession

\* Every step keeps the relay books.
LEMMA RelayBooksNext ==
  ASSUME ProxyInv, RelayBooks, [WorkersNext]_workersVars
  PROVE  RelayBooks'
  <1>1. CASE /\ UNCHANGED <<sessions, desiredRelays, imported>>
             /\ UNCHANGED todo
    BY <1>1, RelayFrame DEF RelayBooks
  <1>2. ASSUME NEW pair \in Pairs, CreateRelay(pair)
        PROVE  RelayBooks'
    BY <1>2, CreateRelaySessionBooks DEF CreateRelay, Callers, RelayBooks
  <1>3. ASSUME NEW id \in 1..MaxRelays, CloseRelay(id)
        PROVE  RelayBooks'
    BY <1>3, RemoveRelaySessionBooks DEF CloseRelay, callVars
  <1>4. ASSUME NEW p \in Callers, RelayNotSent(p)
        PROVE  RelayBooks'
    BY <1>4, RemoveRelaySessionBooks DEF RelayNotSent, bounds
  <1>5. CASE ReconcileProxies
    <2>1. todo' = [todo EXCEPT !.keys = {k \in desired : Missing(k)}]
          /\ UNCHANGED <<sessions, desiredRelays, imported>>
      BY <1>5 DEF ReconcileProxies, PassRest, relayVars, bounds
    <2>2. desired \subseteq Keys
      BY DEF ProxyInv, ProxyTypes
    <2> QED
      BY <2>1, <2>2, RelayFrame DEF RelayBooks
  <1>6. ASSUME NEW k \in Keys, RestoreProxy(k)
        PROVE  RelayBooks'
    <2>1. todo' = [todo EXCEPT !.keys = todo.keys \ {k}]
          /\ UNCHANGED <<sessions, desiredRelays, imported>>
      BY <1>6 DEF RestoreProxy, PassRest, relayVars, bounds
    <2> QED
      BY <2>1, RelayFrame DEF RelayBooks
  <1>7. CASE ReconcileRelays
    <2>1. todo' = [todo EXCEPT !.relays = desiredRelays \ sessions]
          /\ UNCHANGED <<sessions, desiredRelays, imported>>
      BY <1>7 DEF ReconcileRelays, PassRest, relayVars, bounds
    <2> QED
      BY <2>1 DEF RelayBooks, RelaysImported
  <1>8. ASSUME NEW r \in todo.relays, RestoreRelay(r)
        PROVE  RelayBooks'
    <2>1. todo' = [todo EXCEPT !.relays = todo.relays \ {r}]
      BY <1>8 DEF RestoreRelay
    <2>2. /\ todo' \in [keys : SUBSET Keys, relays : SUBSET Relays]
          /\ todo'.relays \subseteq todo.relays
          /\ r.pair \in Pairs /\ r.pair \in imported
      BY <2>1, <1>8 DEF RelayBooks, RelaysImported, Relays
    <2>3. CASE CreateRelaySession("reconcile", r.pair)
      BY <2>2, <2>3, CreateRelaySessionBooks DEF Callers
    <2>4. CASE UNCHANGED <<sessions, desiredRelays, imported>>
      BY <2>2, <2>4, RelayFrame
    <2> QED
      BY <1>8, <2>3, <2>4 DEF RestoreRelay, PassRest, relayVars, bounds
  <1> QED
    <2>1. CASE UNCHANGED workersVars
      BY <2>1, <1>1 DEF workersVars, relayVars, callVars, bounds
    <2>2. CASE \/ Administer
               \/ \E c \in Clients : Handle(c) \/ HandleTemp(c)
               \/ \E i \in DOMAIN conn : ReadFails(i) \/ WriteFails(i) \/ RegisterTimesOut(i)
               \/ \E i \in DOMAIN conn : ConnStep(i)
               \/ \E g \in Slots : TaskSteps(g)
               \/ \E k \in Keys : CreateProxy(k) \/ CloseProxy(k)
      BY <2>2, <1>1 DEF Administer, Handle, HandleTemp, ReadFails, WriteFails, RegisterTimesOut,
           CloseConn, ConnStep, RegisterFindsOld, AddClient, RemoveClient, CloseEnds, Rest,
           TaskSteps, Listen, ListenEnds, TaskStep, CreateProxy, CloseProxy, CreateSends,
           relayVars, callVars, bounds
    <2>3. ASSUME NEW p \in Callers, CallStep(p)
          PROVE  RelayBooks'
      BY <2>3, <1>1, <1>4 DEF CallStep, AddProxy, StartProxy, CloseListens, UnregisterPort,
           RemoveProxy, UnstoreProxy, RelaySent, RelayRest, Quiet, relayVars, bounds
    <2>4. CASE PassStep
      <3>1. CASE RestoreCreates \/ RestoreFails \/ PassEnds
        BY <3>1, <1>1 DEF RestoreCreates, CreateSends, RestoreFails, PassEnds, PassRest,
             relayVars, bounds
      <3> QED
        BY <2>4, <3>1, <1>5, <1>6, <1>7, <1>8 DEF PassStep
    <2> QED
      BY <2>1, <2>2, <2>3, <2>4, <1>2, <1>3 DEF WorkersNext

\* Every step keeps the proxy books.
LEMMA ProxyNext ==
  ASSUME ProxyInv, RelayBooks, [WorkersNext]_workersVars
  PROVE  ProxyInv'
  <1>1. CASE UNCHANGED <<op, desired, stored, excused, task, listeners>>
    BY <1>1, ProxyFrame
  <1>2. CASE UNCHANGED workersVars
    BY <1>2, <1>1 DEF workersVars, proxyVars, callVars, listenVars
  <1>3. CASE \/ Administer
             \/ \E c \in Clients : Handle(c) \/ HandleTemp(c)
             \/ \E i \in DOMAIN conn : ReadFails(i) \/ WriteFails(i) \/ RegisterTimesOut(i)
             \/ \E i \in DOMAIN conn : ConnStep(i)
             \/ \E id \in 1..MaxRelays : CloseRelay(id)
    BY <1>3, <1>1 DEF Administer, Handle, HandleTemp, ReadFails, WriteFails, RegisterTimesOut,
         CloseConn, ConnStep, RegisterFindsOld, AddClient, RemoveClient, CloseEnds, Rest,
         CloseRelay, RelayRest, proxyVars, callVars, listenVars
  <1>4. ASSUME NEW k \in Keys, CreateProxy(k) \/ CloseProxy(k)
        PROVE  ProxyInv'
    BY <1>4, CreateProxyProxy, CloseProxyProxy
  <1>5. ASSUME NEW pair \in Pairs, CreateRelay(pair)
        PROVE  ProxyInv'
    BY <1>5, CreateRelaySessionProxy DEF CreateRelay, Callers
  <1>6. ASSUME NEW p \in Callers, CallStep(p)
        PROVE  ProxyInv'
    BY <1>6, AddProxyProxy, StartProxyProxy, CloseListensProxy, UnregisterPortProxy,
       RemoveProxyProxy, UnstoreProxyProxy, RelaySentProxy DEF CallStep
  <1>7. ASSUME NEW r \in todo.relays, RestoreRelay(r)
        PROVE  ProxyInv'
    <2>1. r.pair \in Pairs /\ op["reconcile"].at = "relays" /\ "reconcile" \in Callers
      BY <1>7 DEF RestoreRelay, RelayBooks, Relays, Callers
    <2>2. CASE CreateRelaySession("reconcile", r.pair)
      BY <2>1, <2>2, CreateRelaySessionProxy
    <2>3. CASE PassRest /\ UNCHANGED <<op, listenVars, excused>>
      BY <2>3, <1>1 DEF PassRest, proxyVars, listenVars
    <2> QED
      BY <1>7, <2>2, <2>3 DEF RestoreRelay
  <1>8. CASE PassStep
    BY <1>7, <1>8, RestoreProxyProxy, RestoreCreatesProxy, PassStepsProxy DEF PassStep
  <1>9. ASSUME NEW g \in Slots, TaskSteps(g)
        PROVE  ProxyInv'
    BY <1>9, ListenProxy, ListenEndsProxy DEF TaskSteps
  <1> QED
    BY <1>2, <1>3, <1>4, <1>5, <1>6, <1>8, <1>9 DEF WorkersNext

-----------------------------------------------------------------------------
(* The registry.                                                           *)

(* The part about the registry.                                            *)
RegistryBooks == RegistryTypeOK /\ ListedWhereAssigned

(* No record becomes that of a temporary node.                             *)
NoNewTemp ==
    \A c \in Clients : record'[c].status = "temp" => record[c].status = "temp"

(* The lists follow the records through every operation of the registry.   *)
LEMMA RecordSet ==
  ASSUME RegistryBooks, NEW c \in Clients, NEW r \in Records,
         record' = [record EXCEPT ![c] = r],
         members' \in [Namespaces -> SUBSET Clients],
         r.ns # "none" => c \in members'[r.ns],
         \A n \in Namespaces : members[n] \ {c} \subseteq members'[n]
  PROVE  RegistryBooks' /\ record'[c] = r
         /\ \A d \in Clients : d # c => record'[d] = record[d]
  <1>1. /\ record' \in [Clients -> Records] /\ record'[c] = r
        /\ \A d \in Clients : d # c => record'[d] = record[d]
    BY DEF RegistryBooks, RegistryTypeOK
  <1>2. \A d \in Clients : record[d].ns \in Namespaces \cup {"none"}
    BY DEF RegistryBooks, RegistryTypeOK, Records
  <1>3. ListedWhereAssigned'
    BY <1>1, <1>2 DEF RegistryBooks, ListedWhereAssigned
  <1> QED
    BY <1>1, <1>3 DEF RegistryBooks, RegistryTypeOK

\* Taking a client out of its namespace leaves a well-typed registry.
LEMMA RemovedFromNamespace ==
  ASSUME RegistryBooks, NEW c \in Clients
  PROVE  /\ RemoveFromNamespace(c) \in [Namespaces -> SUBSET Clients]
         /\ \A n \in Namespaces : members[n] \ {c} \subseteq RemoveFromNamespace(c)[n]
  BY DEF RegistryBooks, RegistryTypeOK, RemoveFromNamespace

\* The forms a client's record takes, and their fields.
LEMMA RecordForms ==
  /\ NoRecord \in Records /\ NoRecord.ns = "none" /\ NoRecord.status = "none"
  /\ \A s \in {"none", "pending", "approved", "temp"}, n \in Namespaces \cup {"none"} :
       /\ [status |-> s, ns |-> n] \in Records
       /\ [status |-> s, ns |-> n].ns = n /\ [status |-> s, ns |-> n].status = s
  BY DEF NoRecord, Records

(* A node that gives its place up: Delete and RemoveTempClient.            *)
LEMMA RecordErased ==
  ASSUME RegistryBooks, NEW c \in Clients,
         members' = RemoveFromNamespace(c), record' = [record EXCEPT ![c] = NoRecord]
  PROVE  RegistryBooks' /\ NoNewTemp /\ record'[c].status = "none"
  <1>1. NoRecord \in Records /\ NoRecord.ns = "none" /\ NoRecord.status = "none"
    BY RecordForms
  <1>2. /\ members' \in [Namespaces -> SUBSET Clients]
        /\ \A n \in Namespaces : members[n] \ {c} \subseteq members'[n]
    BY RemovedFromNamespace
  <1>3. /\ RegistryBooks' /\ record'[c] = NoRecord
        /\ \A d \in Clients : d # c => record'[d] = record[d]
    BY <1>1, <1>2, RecordSet
  <1> QED
    BY <1>1, <1>3 DEF NoNewTemp

\* Removing a temporary client keeps the registry books.
LEMMA RemoveTempClientBooks ==
  ASSUME RegistryBooks, NEW c \in Clients, RemoveTempClient(c)
  PROVE  RegistryBooks' /\ NoNewTemp /\ record'[c].status # "temp"
  <1>1. CASE record[c].status # "temp"
    BY <1>1 DEF RemoveTempClient, registryVars, RegistryBooks, RegistryTypeOK,
                ListedWhereAssigned, NoNewTemp
  <1>2. CASE record[c].status = "temp"
    BY <1>2, RecordErased DEF RemoveTempClient
  <1> QED
    BY <1>1, <1>2

\* Adding a temporary client keeps the registry books.
LEMMA AddTempClientBooks ==
  ASSUME RegistryBooks, NEW c \in Clients, AddTempClient(c)
  PROVE  RegistryBooks' /\ \A d \in Clients :
            d # c /\ record'[d].status = "temp" => record[d].status = "temp"
  <1>1. CASE record[c].status = "approved"
    BY <1>1 DEF AddTempClient, registryVars, RegistryBooks, RegistryTypeOK,
                ListedWhereAssigned
  <1>2. CASE record[c].status # "approved"
    <2>1. /\ record' = [record EXCEPT ![c] = [status |-> "temp", ns |-> "temporary"]]
          /\ members' = [members EXCEPT !["temporary"] = members["temporary"] \cup {c}]
      BY <1>2 DEF AddTempClient
    <2>2. /\ members' \in [Namespaces -> SUBSET Clients] /\ c \in members'["temporary"]
          /\ \A n \in Namespaces : members[n] \ {c} \subseteq members'[n]
      BY <2>1 DEF RegistryBooks, RegistryTypeOK, Namespaces
    <2>3. "temporary" \in Namespaces
      BY DEF Namespaces
    <2>4. PICK r \in Records : r = [status |-> "temp", ns |-> "temporary"]
      BY RecordForms, <2>3
    <2>5. r.status = "temp" /\ r.ns = "temporary"
      BY <2>4, RecordForms, <2>3
    <2>6. /\ RegistryBooks' /\ record'[c] = r
          /\ \A d \in Clients : d # c => record'[d] = record[d]
      BY <2>1, <2>2, <2>4, <2>5, RecordSet
    <2> QED
      BY <2>5, <2>6
  <1> QED
    BY <1>1, <1>2

\* The administrator's calls keep the registry books.
LEMMA AdministerBooks ==
  ASSUME RegistryBooks, Administer
  PROVE  RegistryBooks' /\ NoNewTemp
  <1>1. ASSUME NEW c \in Clients, AddApplication(c)
        PROVE  RegistryBooks' /\ NoNewTemp
    <2>1. /\ members' = members
          /\ record' = [record EXCEPT ![c] = [status |-> "pending", ns |-> "none"]]
      BY <1>1 DEF AddApplication
    <2>2. /\ members' \in [Namespaces -> SUBSET Clients]
          /\ \A n \in Namespaces : members[n] \ {c} \subseteq members'[n]
      BY <2>1 DEF RegistryBooks, RegistryTypeOK
    <2>4. PICK r \in Records : r = [status |-> "pending", ns |-> "none"]
      BY RecordForms
    <2>5. r.status = "pending" /\ r.ns = "none"
      BY <2>4, RecordForms
    <2>6. /\ RegistryBooks' /\ record'[c] = r
          /\ \A d \in Clients : d # c => record'[d] = record[d]
      BY <2>1, <2>2, <2>4, <2>5, RecordSet
    <2> QED
      BY <2>5, <2>6 DEF NoNewTemp
  <1>2. ASSUME NEW c \in Clients, NEW n \in Namespaces, Approve(c, n)
        PROVE  RegistryBooks' /\ NoNewTemp
    <2>1. /\ members' = [members EXCEPT ![n] = members[n] \cup {c}]
          /\ record' = [record EXCEPT ![c] = [status |-> "approved", ns |-> n]]
      BY <1>2 DEF Approve
    <2>2. /\ members' \in [Namespaces -> SUBSET Clients] /\ c \in members'[n]
          /\ \A m \in Namespaces : members[m] \ {c} \subseteq members'[m]
      BY <2>1 DEF RegistryBooks, RegistryTypeOK
    <2>4. PICK r \in Records : r = [status |-> "approved", ns |-> n]
      BY RecordForms
    <2>5. r.status = "approved" /\ r.ns = n
      BY <2>4, RecordForms
    <2>6. /\ RegistryBooks' /\ record'[c] = r
          /\ \A d \in Clients : d # c => record'[d] = record[d]
      BY <2>1, <2>2, <2>4, <2>5, RecordSet
    <2> QED
      BY <2>5, <2>6 DEF NoNewTemp
  <1>3. ASSUME NEW c \in Clients, Delete(c)
        PROVE  RegistryBooks' /\ NoNewTemp
    BY <1>3, RecordErased DEF Delete
  <1>4. ASSUME NEW c \in Clients, NEW n \in Namespaces, SetClientNamespace(c, n)
        PROVE  RegistryBooks' /\ NoNewTemp
    <2> DEFINE r == [record[c] EXCEPT !.ns = n]
    <2>1. record[c] \in Records
      BY DEF RegistryBooks, RegistryTypeOK
    <2>2. r \in Records /\ r.ns = n /\ r.status = record[c].status
      BY <2>1 DEF Records
    <2>3. record' = [record EXCEPT ![c] = r]
      BY <1>4 DEF SetClientNamespace
    <2>4. members' = [RemoveFromNamespace(c) EXCEPT ![n] = RemoveFromNamespace(c)[n] \cup {c}]
      BY <1>4 DEF SetClientNamespace
    <2>5. /\ members' \in [Namespaces -> SUBSET Clients] /\ c \in members'[n]
          /\ \A m \in Namespaces : members[m] \ {c} \subseteq members'[m]
      BY <2>4, RemovedFromNamespace
    <2> HIDE DEF r
    <2>6. /\ RegistryBooks' /\ record'[c] = r
          /\ \A d \in Clients : d # c => record'[d] = record[d]
      BY <2>2, <2>3, <2>5, RecordSet
    <2> QED
      BY <2>2, <2>6 DEF NoNewTemp
  <1> QED
    BY <1>1, <1>2, <1>3, <1>4 DEF Administer

-----------------------------------------------------------------------------
(* The connections.                                                        *)

(* Replacing one element of a sequence.                                    *)
LEMMA ElementSet ==
  ASSUME NEW S, NEW s \in Seq(S), NEW i \in DOMAIN s, NEW x \in S, NEW t,
         t = [s EXCEPT ![i] = x]
  PROVE  /\ t \in Seq(S) /\ Len(t) = Len(s) /\ DOMAIN t = DOMAIN s /\ t[i] = x
         /\ \A j \in DOMAIN s : j # i => t[j] = s[j]
  <1>1. /\ s \in [1..Len(s) -> S] /\ Len(s) \in Nat /\ DOMAIN s = 1..Len(s)
    OBVIOUS
  <1>2. t \in [1..Len(s) -> S] /\ DOMAIN t = 1..Len(s)
    BY <1>1
  <1>3. t \in Seq(S) /\ Len(t) = Len(s)
    BY <1>1, <1>2
  <1> QED
    BY <1>1, <1>2, <1>3

(* A connection whose close moves on.                                      *)
LEMMA CloseForm ==
  ASSUME NEW r \in Conns,
         NEW x \in {"no", "remove", "ports", "closed"}, NEW t, t = [r EXCEPT !.close = x]
  PROVE  /\ t \in Conns /\ t.who = r.who /\ t.temp = r.temp
         /\ t.named = r.named /\ t.close = x
  <1>1. /\ r.who \in Clients /\ r.temp \in BOOLEAN /\ r.named \in BOOLEAN
        /\ r.reg \in {"no", "old", "done"} /\ r.old \in Nat
        /\ r.close \in {"no", "remove", "ports", "closed"}
        /\ r = [who |-> r.who, temp |-> r.temp, named |-> r.named, reg |-> r.reg,
                old |-> r.old, close |-> r.close]
    BY DEF Conns
  <1> QED
    BY <1>1 DEF Conns

(* A connection that has found the one it replaces.                        *)
LEMMA FoundForm ==
  ASSUME NEW r \in Conns, NEW o \in Nat
  PROVE  LET t == [r EXCEPT !.reg = "old", !.old = o]
         IN  /\ t \in Conns /\ t.who = r.who /\ t.temp = r.temp
             /\ t.named = r.named /\ t.close = r.close
  <1>1. /\ r.who \in Clients /\ r.temp \in BOOLEAN /\ r.named \in BOOLEAN
        /\ r.reg \in {"no", "old", "done"} /\ r.old \in Nat
        /\ r.close \in {"no", "remove", "ports", "closed"}
        /\ r = [who |-> r.who, temp |-> r.temp, named |-> r.named, reg |-> r.reg,
                old |-> r.old, close |-> r.close]
    BY DEF Conns
  <1> QED
    BY <1>1 DEF Conns

(* A connection that has been registered.                                  *)
LEMMA DoneForm ==
  ASSUME NEW r \in Conns, NEW t, t = [r EXCEPT !.reg = "done", !.old = 0, !.named = TRUE]
  PROVE  /\ t \in Conns /\ t.who = r.who /\ t.temp = r.temp
         /\ t.named = TRUE /\ t.close = r.close
  <1>1. /\ r.who \in Clients /\ r.temp \in BOOLEAN /\ r.named \in BOOLEAN
        /\ r.reg \in {"no", "old", "done"} /\ r.old \in Nat
        /\ r.close \in {"no", "remove", "ports", "closed"}
        /\ r = [who |-> r.who, temp |-> r.temp, named |-> r.named, reg |-> r.reg,
                old |-> r.old, close |-> r.close]
    BY DEF Conns
  <1> QED
    BY <1>1 DEF Conns

(* The part about connections and the tables they store.                   *)
ConnBooks ==
    /\ conn \in Seq(Conns)
    /\ proxies \in Seq(SUBSET Ports) /\ Len(proxies) = Len(conn)
    /\ clients \in [Clients -> 0..Len(conn)]
    /\ portIndex \in [Ports -> Clients \cup {NoClient}]
    /\ unanswered \subseteq Clients
    /\ TempsNamed /\ TempIsConnected

\* The fields of one connection.
LEMMA ConnTypes ==
  ASSUME ConnBooks, NEW i \in DOMAIN conn
  PROVE  /\ conn[i] \in Conns /\ conn[i].who \in Clients
         /\ i \in 1..Len(conn) /\ Len(conn) \in Nat
  <1>1. conn[i] \in Conns /\ i \in 1..Len(conn) /\ Len(conn) \in Nat
    BY DEF ConnBooks
  <1> QED
    BY <1>1 DEF Conns

(* The connection of a temporary node is closed with its record.           *)
LEMMA TempKept ==
  ASSUME ConnBooks, NoNewTemp, unanswered \subseteq unanswered',
         DOMAIN conn \subseteq DOMAIN conn',
         \A i \in DOMAIN conn :
            /\ conn'[i].who = conn[i].who /\ conn'[i].temp = conn[i].temp
            /\ conn[i].temp /\ conn[i].close # "closed" /\ conn'[i].close = "closed"
               => record'[conn[i].who].status # "temp"
  PROVE  TempIsConnected'
  BY DEF ConnBooks, TempIsConnected, NoNewTemp

\* A step that writes only the port and proxy tables keeps the connection books.
LEMMA ConnFrame ==
  ASSUME RegistryBooks, ConnBooks,
         UNCHANGED <<record, members, conn, clients, unanswered>>,
         portIndex' \in [Ports -> Clients \cup {NoClient}],
         proxies' \in Seq(SUBSET Ports), Len(proxies') = Len(proxies)
  PROVE  RegistryBooks' /\ ConnBooks'
  BY DEF RegistryBooks, RegistryTypeOK, ListedWhereAssigned, ConnBooks, TempsNamed,
         TempIsConnected

(* One connection changes, and keeps its node, its kind and its name.      *)
LEMMA ConnSet ==
  ASSUME RegistryBooks, RegistryBooks', NoNewTemp, ConnBooks,
         NEW i \in DOMAIN conn, NEW r \in Conns, conn' = [conn EXCEPT ![i] = r],
         r.who = conn[i].who, r.temp = conn[i].temp, conn[i].named => r.named,
         conn[i].temp /\ r.close = "closed" /\ conn[i].close # "closed"
            => record'[r.who].status # "temp",
         clients' \in [Clients -> 0..Len(conn)],
         proxies' \in Seq(SUBSET Ports), Len(proxies') = Len(proxies),
         portIndex' \in [Ports -> Clients \cup {NoClient}],
         unanswered' = unanswered
  PROVE  ConnBooks'
  <1>1. /\ conn' \in Seq(Conns) /\ Len(conn') = Len(conn) /\ DOMAIN conn' = DOMAIN conn
        /\ conn'[i] = r /\ \A j \in DOMAIN conn : j # i => conn'[j] = conn[j]
    BY ElementSet DEF ConnBooks
  <1>2. TempsNamed'
    BY <1>1 DEF ConnBooks, TempsNamed
  <1>3. TempIsConnected'
    <2>1. ASSUME NEW j \in DOMAIN conn
          PROVE  /\ conn'[j].who = conn[j].who /\ conn'[j].temp = conn[j].temp
                 /\ conn[j].temp /\ conn[j].close # "closed" /\ conn'[j].close = "closed"
                    => record'[conn[j].who].status # "temp"
      BY <1>1
    <2> QED
      BY <1>1, <2>1, TempKept
  <1> QED
    BY <1>1, <1>2, <1>3 DEF ConnBooks

(* A new connection; of a temporary node, it is the one its record needs.  *)
LEMMA AcceptBooks ==
  ASSUME RegistryBooks', ConnBooks, NEW c \in Clients, NEW temp \in BOOLEAN,
         Accept(c, temp), UNCHANGED <<portIndex, unanswered>>,
         \A d \in Clients : record'[d].status = "temp" =>
            record[d].status = "temp" \/ (d = c /\ temp)
  PROVE  ConnBooks'
  <1> DEFINE a == Accepted(c, temp)
  <1>1. /\ a \in Conns /\ a.who = c /\ a.temp = temp /\ a.named = temp /\ a.close = "no"
    BY DEF Accepted, Conns
  <1>2. /\ conn' = Append(conn, a) /\ proxies' = Append(proxies, {})
        /\ clients' = clients
    BY DEF Accept
  <1> HIDE DEF a
  <1>3. /\ conn' \in Seq(Conns) /\ Len(conn') = Len(conn) + 1 /\ Len(conn) \in Nat
        /\ DOMAIN conn' = 1..(Len(conn) + 1) /\ DOMAIN conn = 1..Len(conn)
        /\ conn'[Len(conn) + 1] = a
        /\ \A i \in DOMAIN conn : i \in DOMAIN conn' /\ conn'[i] = conn[i]
    BY <1>1, <1>2 DEF ConnBooks
  <1>4. proxies' \in Seq(SUBSET Ports) /\ Len(proxies') = Len(conn')
    BY <1>2, <1>3 DEF ConnBooks
  <1>5. clients' \in [Clients -> 0..Len(conn')]
    BY <1>2, <1>3 DEF ConnBooks
  <1>6. TempsNamed'
    <2> SUFFICES ASSUME NEW i \in DOMAIN conn', conn'[i].temp
                 PROVE  conn'[i].named
      BY DEF TempsNamed
    <2>1. i \in DOMAIN conn \/ i = Len(conn) + 1
      BY <1>3
    <2> QED
      BY <1>1, <1>3, <2>1 DEF ConnBooks, TempsNamed
  <1>7. TempIsConnected'
    <2> SUFFICES ASSUME NEW d \in Clients, record'[d].status = "temp", d \notin unanswered
                 PROVE  \E i \in DOMAIN conn' :
                          conn'[i].who = d /\ conn'[i].temp /\ conn'[i].close # "closed"
      BY DEF TempIsConnected
    <2>1. CASE d = c /\ temp
      <3>1. Len(conn) + 1 \in DOMAIN conn'
        BY <1>3
      <3> QED
        BY <1>1, <1>3, <2>1, <3>1
    <2>2. CASE record[d].status = "temp"
      <3>1. PICK i \in DOMAIN conn :
               conn[i].who = d /\ conn[i].temp /\ conn[i].close # "closed"
        BY <2>2 DEF ConnBooks, TempIsConnected
      <3> QED
        BY <3>1, <1>3
    <2> QED
      BY <2>1, <2>2
  <1> QED
    BY <1>3, <1>4, <1>5, <1>6, <1>7 DEF ConnBooks

\* A connection accepted keeps the connection books.
LEMMA HandleBooks ==
  ASSUME RegistryBooks, ConnBooks, NEW c \in Clients, Handle(c) \/ HandleTemp(c)
  PROVE  RegistryBooks' /\ ConnBooks'
  <1>1. CASE Handle(c)
    <2>1. UNCHANGED <<record, members, portIndex, unanswered>> /\ Accept(c, FALSE)
      BY <1>1 DEF Handle, registryVars, Rest, proxyVars
    <2>2. RegistryBooks'
      BY <2>1 DEF RegistryBooks, RegistryTypeOK, ListedWhereAssigned
    <2> QED
      BY <2>1, <2>2, AcceptBooks
  <1>2. CASE HandleTemp(c)
    <2>1. RegistryBooks' /\ \A d \in Clients :
            d # c /\ record'[d].status = "temp" => record[d].status = "temp"
      BY <1>2, AddTempClientBooks DEF HandleTemp
    <2>2. CASE Accept(c, TRUE) /\ UNCHANGED Rest
      <3>1. UNCHANGED <<portIndex, unanswered>>
        BY <2>2 DEF Rest, proxyVars
      <3> QED
        BY <2>1, <2>2, <3>1, AcceptBooks
    <2>3. CASE unanswered' = unanswered \cup {c} /\ UNCHANGED <<connVars, proxyVars>>
      <3>1. UNCHANGED <<conn, clients, proxies, portIndex>>
        BY <2>3 DEF connVars, proxyVars
      <3> QED
        BY <2>1, <2>3, <3>1 DEF ConnBooks, TempsNamed, TempIsConnected
    <2> QED
      BY <1>2, <2>2, <2>3 DEF HandleTemp
  <1> QED
    BY <1>1, <1>2

(* What holds when a step leaves the registry alone.                       *)
LEMMA RegistryFrame ==
  ASSUME RegistryBooks, UNCHANGED <<record, members>>
  PROVE  RegistryBooks' /\ NoNewTemp
  BY DEF RegistryBooks, RegistryTypeOK, ListedWhereAssigned, NoNewTemp

(* A temporary node has a name, so that its close goes on to its record.   *)
LEMMA CloseConnBooks ==
  ASSUME RegistryBooks, ConnBooks, NEW i \in DOMAIN conn, CloseConn(i)
  PROVE  RegistryBooks' /\ ConnBooks'
  <1> DEFINE x == IF conn[i].named THEN "remove" ELSE "closed"
             r == [conn[i] EXCEPT !.close = x]
  <1>1. conn[i] \in Conns
    BY ConnTypes
  <1>2. x \in {"no", "remove", "ports", "closed"}
    OBVIOUS
  <1>3. /\ r \in Conns /\ r.who = conn[i].who /\ r.temp = conn[i].temp
        /\ r.named = conn[i].named /\ r.close = x
    BY <1>1, <1>2, CloseForm
  <1>4. /\ conn' = [conn EXCEPT ![i] = r]
        /\ UNCHANGED <<record, members, clients, proxies, portIndex, unanswered>>
    BY DEF CloseConn, registryVars, Rest, proxyVars
  <1>5. RegistryBooks' /\ NoNewTemp
    BY <1>4, RegistryFrame
  <1>6. conn[i].temp => r.close # "closed"
    BY <1>3 DEF ConnBooks, TempsNamed
  <1> HIDE DEF r, x
  <1>7. ConnBooks'
    BY <1>3, <1>4, <1>5, <1>6, ConnSet DEF ConnBooks
  <1> QED
    BY <1>5, <1>7

\* Finding the client's old connection keeps the connection books.
LEMMA RegisterFindsOldBooks ==
  ASSUME RegistryBooks, ConnBooks, NEW i \in DOMAIN conn, RegisterFindsOld(i)
  PROVE  RegistryBooks' /\ ConnBooks'
  <1> DEFINE o == clients[conn[i].who]
             r == [conn[i] EXCEPT !.reg = "old", !.old = o]
             found == [conn EXCEPT ![i].reg = "old", ![i].old = o]
  <1>1. conn[i] \in Conns /\ conn[i].who \in Clients
    BY ConnTypes
  <1>2. o \in 0..Len(conn) /\ o \in Nat
    BY <1>1 DEF ConnBooks
  <1>3. /\ r \in Conns /\ r.who = conn[i].who /\ r.temp = conn[i].temp
        /\ r.named = conn[i].named /\ r.close = conn[i].close
    <2> HIDE DEF o
    <2> QED
      BY <1>1, <1>2, FoundForm
  <1>4. found = [conn EXCEPT ![i] = r]
    BY Zenon
  <1>5. /\ conn' = IF o # 0 /\ conn[o].close = "no"
                   THEN [found EXCEPT ![o].close = "remove"] ELSE found
        /\ UNCHANGED <<record, members, clients, proxies, portIndex, unanswered>>
    BY DEF RegisterFindsOld, registryVars, Rest, proxyVars
  <1>6. RegistryBooks' /\ NoNewTemp
    BY <1>5, RegistryFrame
  <1> HIDE DEF r, found
  <1>7. /\ found \in Seq(Conns) /\ Len(found) = Len(conn) /\ DOMAIN found = DOMAIN conn
        /\ \A j \in DOMAIN conn : /\ found[j].who = conn[j].who /\ found[j].temp = conn[j].temp
                                  /\ found[j].named = conn[j].named
                                  /\ found[j].close = conn[j].close
    BY <1>3, <1>4, ElementSet DEF ConnBooks
  <1> HIDE DEF o
  <1>8. /\ conn' \in Seq(Conns) /\ Len(conn') = Len(conn) /\ DOMAIN conn' = DOMAIN conn
        /\ \A j \in DOMAIN conn : /\ conn'[j].who = conn[j].who /\ conn'[j].temp = conn[j].temp
                                  /\ conn'[j].named = conn[j].named
                                  /\ conn'[j].close \in {conn[j].close, "remove"}
    <2>1. CASE ~(o # 0 /\ conn[o].close = "no")
      BY <1>5, <1>7, <2>1
    <2>2. CASE o # 0 /\ conn[o].close = "no"
      <3> DEFINE q == [found[o] EXCEPT !.close = "remove"]
      <3>1. o \in DOMAIN found
        BY <1>2, <1>7, <2>2
      <3>2. found[o] \in Conns
        BY <1>7, <3>1
      <3>3. /\ q \in Conns /\ q.who = found[o].who /\ q.temp = found[o].temp
            /\ q.named = found[o].named /\ q.close = "remove"
        BY <3>2, CloseForm
      <3>4. conn' = [found EXCEPT ![o] = q]
        BY <1>5, <2>2
      <3> HIDE DEF q
      <3>5. /\ conn' \in Seq(Conns) /\ Len(conn') = Len(found) /\ DOMAIN conn' = DOMAIN found
            /\ conn'[o] = q /\ \A j \in DOMAIN found : j # o => conn'[j] = found[j]
        BY <1>7, <3>1, <3>3, <3>4, ElementSet
      <3> QED
        BY <1>7, <3>3, <3>5
    <2> QED
      BY <2>1, <2>2
  <1>9. TempIsConnected'
    BY <1>5, <1>6, <1>8, TempKept
  <1>10. TempsNamed'
    BY <1>8 DEF ConnBooks, TempsNamed
  <1>11. ConnBooks'
    BY <1>5, <1>8, <1>9, <1>10 DEF ConnBooks
  <1> QED
    BY <1>6, <1>11

\* Entering the client in the table keeps the connection books.
LEMMA AddClientBooks ==
  ASSUME RegistryBooks, ConnBooks, NEW i \in DOMAIN conn, AddClient(i)
  PROVE  RegistryBooks' /\ ConnBooks'
  <1> DEFINE r == [conn[i] EXCEPT !.reg = "done", !.old = 0, !.named = TRUE]
  <1>1. conn[i] \in Conns /\ conn[i].who \in Clients /\ i \in 1..Len(conn) /\ Len(conn) \in Nat
    BY ConnTypes
  <1>2. /\ r \in Conns /\ r.who = conn[i].who /\ r.temp = conn[i].temp
        /\ r.named = TRUE /\ r.close = conn[i].close
    BY <1>1, DoneForm
  <1>3. conn' = [conn EXCEPT ![i] = r]
    BY Zenon DEF AddClient
  <1>4. /\ clients' = [clients EXCEPT ![conn[i].who] = i]
        /\ UNCHANGED <<record, members, proxies, portIndex, unanswered>>
    BY DEF AddClient, registryVars, Rest, proxyVars
  <1>5. RegistryBooks' /\ NoNewTemp
    BY <1>4, RegistryFrame
  <1> HIDE DEF r
  <1>6. clients' \in [Clients -> 0..Len(conn)]
    BY <1>1, <1>4 DEF ConnBooks
  <1>7. ConnBooks'
    BY <1>2, <1>3, <1>4, <1>5, <1>6, ConnSet DEF ConnBooks
  <1> QED
    BY <1>5, <1>7

(* RemoveClient closes the connection of a temporary node only together    *)
(* with its record, or leaves that to CloseEnds.                           *)
LEMMA RemoveClientBooks ==
  ASSUME RegistryBooks, ConnBooks, NEW i \in DOMAIN conn, RemoveClient(i)
  PROVE  RegistryBooks' /\ ConnBooks'
  <1> DEFINE w == conn[i].who
             t == clients[w]
             x == IF t = 0 THEN "closed" ELSE "ports"
             r == [conn[i] EXCEPT !.close = x]
  <1>1. conn[i] \in Conns /\ w \in Clients /\ Len(conn) \in Nat
    BY ConnTypes
  <1>2. x \in {"no", "remove", "ports", "closed"}
    OBVIOUS
  <1>3. /\ r \in Conns /\ r.who = w /\ r.temp = conn[i].temp
        /\ r.named = conn[i].named /\ r.close = x
    <2> HIDE DEF x
    <2> QED
      BY <1>1, <1>2, CloseForm
  <1>4. /\ conn' = [conn EXCEPT ![i] = r]
        /\ clients' = [clients EXCEPT ![w] = 0]
        /\ proxies' = IF t = 0 THEN proxies ELSE [proxies EXCEPT ![t] = {}]
        /\ IF t = 0 /\ conn[i].temp THEN RemoveTempClient(w) ELSE UNCHANGED registryVars
        /\ UNCHANGED <<portIndex, unanswered>>
    BY DEF RemoveClient, Rest, proxyVars
  <1>5. /\ RegistryBooks' /\ NoNewTemp
        /\ t = 0 /\ conn[i].temp => record'[w].status # "temp"
    BY <1>1, <1>4, RemoveTempClientBooks, RegistryFrame DEF registryVars
  <1>6. clients' \in [Clients -> 0..Len(conn)]
    BY <1>1, <1>4 DEF ConnBooks
  <1>7. proxies' \in Seq(SUBSET Ports) /\ Len(proxies') = Len(proxies)
    <2>1. CASE t = 0
      BY <1>4, <2>1 DEF ConnBooks
    <2>2. CASE t # 0
      <3>1. t \in 0..Len(conn)
        BY <1>1 DEF ConnBooks
      <3> HIDE DEF t
      <3>2. t \in DOMAIN proxies /\ {} \in SUBSET Ports
        BY <1>1, <2>2, <3>1 DEF ConnBooks
      <3> QED
        BY <1>4, <2>2, <3>2, ElementSet DEF ConnBooks
    <2> QED
      BY <2>1, <2>2
  <1>8. conn[i].temp /\ r.close = "closed" => record'[r.who].status # "temp"
    BY <1>3, <1>5
  <1> HIDE DEF r, x, t
  <1>9. ConnBooks'
    BY <1>3, <1>4, <1>5, <1>6, <1>7, <1>8, ConnSet DEF ConnBooks
  <1> QED
    BY <1>5, <1>9

\* The end of a connection's close keeps the connection books.
LEMMA CloseEndsBooks ==
  ASSUME RegistryBooks, ConnBooks, NEW i \in DOMAIN conn, CloseEnds(i)
  PROVE  RegistryBooks' /\ ConnBooks'
  <1> DEFINE w == conn[i].who
             r == [conn[i] EXCEPT !.close = "closed"]
  <1>1. conn[i] \in Conns /\ w \in Clients
    BY ConnTypes
  <1>2. /\ r \in Conns /\ r.who = w /\ r.temp = conn[i].temp
        /\ r.named = conn[i].named /\ r.close = "closed"
    BY <1>1, CloseForm
  <1>3. /\ conn' = [conn EXCEPT ![i] = r]
        /\ IF conn[i].temp THEN RemoveTempClient(w) ELSE UNCHANGED registryVars
        /\ UNCHANGED <<clients, proxies, unanswered>>
    BY DEF CloseEnds
  <1>4. portIndex' \in [Ports -> Clients \cup {NoClient}]
    BY DEF CloseEnds, ConnBooks
  <1>5. /\ RegistryBooks' /\ NoNewTemp
        /\ conn[i].temp => record'[w].status # "temp"
    BY <1>1, <1>3, RemoveTempClientBooks, RegistryFrame DEF registryVars
  <1> HIDE DEF r
  <1>6. ConnBooks'
    BY <1>2, <1>3, <1>4, <1>5, ConnSet DEF ConnBooks
  <1> QED
    BY <1>5, <1>6

(* A call about a proxy writes the table of a node or the port index.      *)
LEMMA TableSet ==
  ASSUME ConnBooks, NEW c \in Clients, clients[c] # 0, NEW x \in SUBSET Ports,
         proxies' = [proxies EXCEPT ![clients[c]] = x]
  PROVE  proxies' \in Seq(SUBSET Ports) /\ Len(proxies') = Len(proxies)
  <1>1. clients[c] \in DOMAIN proxies
    BY DEF ConnBooks
  <1> QED
    BY <1>1, ElementSet DEF ConnBooks

\* A proxy key names a client and a port.
LEMMA KeyParts ==
  ASSUME NEW k \in Keys
  PROVE  k[1] \in Clients /\ k[2] \in Ports
  BY KeysAssumption DEF Ports

\* Writing the proxy table keeps the connection books.
LEMMA TableWritten ==
  ASSUME RegistryBooks, ConnBooks, ProxyInv, NEW p \in Callers, AddProxy(p) \/ RemoveProxy(p)
  PROVE  RegistryBooks' /\ ConnBooks'
  <1> DEFINE k == op[p].key
             t == clients[k[1]]
  <1>1. k \in Keys
    BY DEF AddProxy, RemoveProxy, ProxyInv, ProxyTypes, CallsHold, Creating, Closing, Ops
  <1>2. k[1] \in Clients /\ k[2] \in Ports
    BY <1>1, KeyParts
  <1>3. UNCHANGED <<record, members, conn, clients, unanswered, portIndex>>
    BY DEF AddProxy, RemoveProxy, registryVars
  <1>4. proxies' \in Seq(SUBSET Ports) /\ Len(proxies') = Len(proxies)
    <2>1. CASE t = 0
      BY <2>1 DEF AddProxy, RemoveProxy, ConnBooks
    <2>2. CASE t # 0
      <3>1. proxies[t] \subseteq Ports
        <4>1. t \in DOMAIN proxies
          BY <1>2, <2>2 DEF ConnBooks
        <4> QED
          BY <4>1 DEF ConnBooks
      <3>2. \/ proxies' = [proxies EXCEPT ![t] = proxies[t] \cup {k[2]}]
            \/ proxies' = [proxies EXCEPT ![t] = proxies[t] \ {k[2]}]
        BY <2>2 DEF AddProxy, RemoveProxy
      <3>3. proxies[t] \cup {k[2]} \in SUBSET Ports /\ proxies[t] \ {k[2]} \in SUBSET Ports
        BY <1>2, <3>1
      <3> HIDE DEF k
      <3> QED
        BY <1>2, <2>2, <3>2, <3>3, TableSet
    <2> QED
      BY <2>1, <2>2
  <1> QED
    BY <1>3, <1>4, ConnFrame DEF ConnBooks

\* Writing the port table keeps the connection books.
LEMMA PortWritten ==
  ASSUME RegistryBooks, ConnBooks, ProxyInv, NEW p \in Callers,
         StartProxy(p) \/ UnregisterPort(p)
  PROVE  RegistryBooks' /\ ConnBooks'
  <1> DEFINE k == op[p].key
  <1>1. k \in Keys
    BY DEF StartProxy, UnregisterPort, ProxyInv, ProxyTypes, CallsHold, Creating, Closing, Ops
  <1>2. k[1] \in Clients /\ k[2] \in Ports
    BY <1>1, KeyParts
  <1>3. UNCHANGED <<record, members, conn, clients, proxies, unanswered>>
    BY DEF StartProxy, UnregisterPort, Quiet, registryVars, connVars
  <1>4. portIndex' \in [Ports -> Clients \cup {NoClient}]
    <2>1. \/ portIndex' = [portIndex EXCEPT ![k[2]] = k[1]]
          \/ portIndex' = [portIndex EXCEPT ![k[2]] = NoClient]
      BY DEF StartProxy, UnregisterPort
    <2> HIDE DEF k
    <2> QED
      BY <1>2, <2>1 DEF ConnBooks
  <1> QED
    BY <1>3, <1>4, ConnFrame DEF ConnBooks

\* Every step keeps the registry and the connection books.
LEMMA ConnNext ==
  ASSUME RegistryBooks, ConnBooks, ProxyInv, [WorkersNext]_workersVars
  PROVE  RegistryBooks' /\ ConnBooks'
  <1>1. CASE UNCHANGED <<record, members, conn, clients, proxies, portIndex, unanswered>>
    BY <1>1, ConnFrame DEF ConnBooks
  <1>2. CASE UNCHANGED workersVars
    BY <1>1, <1>2 DEF workersVars, registryVars, connVars, proxyVars
  <1>3. CASE Administer
    <2>1. UNCHANGED <<conn, clients, proxies, portIndex, unanswered>>
      BY <1>3 DEF Administer, connVars, proxyVars
    <2>2. RegistryBooks' /\ NoNewTemp
      BY <1>3, AdministerBooks
    <2> QED
      BY <2>1, <2>2, TempKept DEF ConnBooks, TempsNamed
  <1>4. ASSUME NEW i \in DOMAIN conn, ReadFails(i) \/ WriteFails(i) \/ RegisterTimesOut(i)
        PROVE  RegistryBooks' /\ ConnBooks'
    BY <1>4, CloseConnBooks DEF ReadFails, WriteFails, RegisterTimesOut
  <1>5. ASSUME NEW i \in DOMAIN conn, ConnStep(i)
        PROVE  RegistryBooks' /\ ConnBooks'
    BY <1>5, RegisterFindsOldBooks, AddClientBooks, RemoveClientBooks, CloseEndsBooks
       DEF ConnStep
  <1>6. ASSUME NEW p \in Callers, CallStep(p)
        PROVE  RegistryBooks' /\ ConnBooks'
    <2>1. CASE AddProxy(p) \/ RemoveProxy(p) \/ StartProxy(p) \/ UnregisterPort(p)
      BY <2>1, TableWritten, PortWritten
    <2>2. CASE CloseListens(p) \/ UnstoreProxy(p)
      BY <2>2, <1>1 DEF CloseListens, UnstoreProxy, Quiet, registryVars, connVars, proxyVars
    <2>3. CASE RelaySent(p) \/ RelayNotSent(p)
      BY <2>3, <1>1 DEF RelaySent, RelayNotSent, RelayRest, registryVars, connVars, proxyVars
    <2> QED
      BY <1>6, <2>1, <2>2, <2>3 DEF CallStep
  <1>7. CASE \/ \E k \in Keys : CreateProxy(k) \/ CloseProxy(k)
             \/ \E pair \in Pairs : CreateRelay(pair)
             \/ \E id \in 1..MaxRelays : CloseRelay(id)
             \/ \E g \in Slots : TaskSteps(g)
    BY <1>7, <1>1 DEF CreateProxy, CloseProxy, CreateSends, CreateRelay, CreateRelaySession,
         CloseRelay, RelayRest, TaskSteps, Listen, ListenEnds, TaskStep, registryVars,
         connVars, proxyVars
  <1>8. CASE PassStep
    BY <1>8, <1>1 DEF PassStep, ReconcileProxies, RestoreProxy, RestoreCreates, CreateSends,
         RestoreFails, ReconcileRelays, RestoreRelay, CreateRelaySession, PassEnds, PassRest,
         registryVars, connVars, proxyVars
  <1> QED
    BY <1>2, <1>3, <1>4, <1>5, <1>6, <1>7, <1>8, HandleBooks DEF WorkersNext

-----------------------------------------------------------------------------
(* The inductive invariant of the workers, and the two theorems.           *)

WorkersBooks == ProxyInv /\ RelayBooks /\ RegistryBooks /\ ConnBooks

\* The registry a start loads is in order.
LEMMA RegistryStarts ==
  ASSUME RegistryInit
  PROVE  RegistryBooks /\ \A c \in Clients : record[c].status # "temp"
  <1>1. PICK file \in [Clients -> {"none", "approved", "temp"}] :
          /\ record = CleanupTempClients(LoadRegistry(file))
          /\ members = [n \in Namespaces |->
               {c \in InitDefaultNamespaces(LoadRegistry(file))[n] : record[c].status # "none"}]
    BY DEF RegistryInit
  <1> DEFINE l == LoadRegistry(file)
  <1>2. ASSUME NEW c \in Clients
        PROVE  \/ l[c] = [status |-> "approved", ns |-> "permanent"]
               \/ l[c] = [status |-> "temp", ns |-> "temporary"]
               \/ l[c] = NoRecord
    BY DEF LoadRegistry
  <1>3. ASSUME NEW c \in Clients
        PROVE  /\ l[c] \in Records
               /\ l[c].status # "none" \/ l[c] = NoRecord
    BY <1>2, RecordForms DEF Namespaces
  <1>4. ASSUME NEW c \in Clients
        PROVE  record[c] = IF l[c].status = "temp" THEN NoRecord ELSE l[c]
    BY <1>1 DEF CleanupTempClients
  <1>5. /\ record \in [Clients -> Records]
        /\ \A c \in Clients : record[c].status # "temp"
    <2>1. record = [c \in Clients |-> record[c]]
      BY <1>1 DEF CleanupTempClients
    <2> QED
      BY <2>1, <1>3, <1>4, RecordForms
  <1>6. \A n \in Namespaces : members[n] =
          {c \in Clients : l[c].ns = n /\ record[c].status # "none"}
    BY <1>1 DEF InitDefaultNamespaces
  <1>7. members \in [Namespaces -> SUBSET Clients]
    BY <1>1, <1>6
  <1>8. ListedWhereAssigned
    <2> SUFFICES ASSUME NEW c \in Clients, record[c].ns # "none"
                 PROVE  c \in members[record[c].ns]
      BY DEF ListedWhereAssigned
    <2>1. record[c] # NoRecord
      BY RecordForms
    <2>2. record[c] = l[c] /\ l[c].status # "none"
      BY <2>1, <1>3, <1>4
    <2>3. l[c].ns \in Namespaces
      BY <1>3, <2>2 DEF Records
    <2> QED
      BY <2>2, <2>3, <1>6
  <1> QED
    BY <1>5, <1>7, <1>8 DEF RegistryBooks, RegistryTypeOK

\* The initial states satisfy the strengthened invariant.
LEMMA WorkersStart == WorkersInit => WorkersBooks
  <1> SUFFICES ASSUME WorkersInit PROVE WorkersBooks
    OBVIOUS
  <1>1. RegistryBooks /\ \A c \in Clients : record[c].status # "temp"
    BY RegistryStarts DEF WorkersInit
  <1>2. ConnBooks
    BY <1>1 DEF WorkersInit, ConnBooks, TempsNamed, TempIsConnected
  <1>3. RelayBooks
    BY PairsAssumption DEF WorkersInit, RelayBooks, RelaysImported, StoredRelays, Relays
  <1>4. /\ \A p \in Callers : op[p].at = "idle" /\ op[p].key = NoKey
        /\ op \in [Callers -> Ops]
    BY BoundsAssumption DEF WorkersInit, Idle, Call, Ops
  <1>5. /\ \A g \in Slots : task[g].at = "free"
        /\ task \in [Slots -> Tasks]
    BY DEF WorkersInit, NoTask, Tasks
  <1>6. /\ listeners \in [Keys -> 0..MaxListens] /\ \A k \in Keys : listeners[k] = 0
        /\ desired \subseteq Keys /\ stored = desired /\ excused = {}
    BY BoundsAssumption DEF WorkersInit
  <1>7. ProxyInv
    BY <1>4, <1>5, <1>6, NoKeyIsNone DEF ProxyInv, ProxyTypes, CallsHold, TasksHold,
       ListedIsRunning, OpenIsListed, OverlapsExcused, StoreInStep, DifferIsPending,
       ShutStaysShut, ListensForDesired, Creating, Closing, Adding, Shutting
  <1> QED
    BY <1>1, <1>2, <1>3, <1>7 DEF WorkersBooks

\* Every step keeps the strengthened invariant.
LEMMA WorkersStep == WorkersBooks /\ [WorkersNext]_workersVars => WorkersBooks'
  BY ProxyNext, RelayBooksNext, ConnNext DEF WorkersBooks

\* The strengthened invariant implies the two the run checks.
LEMMA BooksImply == WorkersBooks => WorkersInv /\ ClosedIsShut
  <1> SUFFICES ASSUME WorkersBooks PROVE WorkersInv /\ ClosedIsShut
    OBVIOUS
  <1>1. WorkersTypeOK
    BY DEF WorkersBooks, WorkersTypeOK, ProxyInv, ProxyTypes, RelayBooks, RegistryBooks, ConnBooks
  <1>2. /\ ListedIsRunning /\ CallsHold /\ TasksHold /\ OpenIsListed
        /\ OverlapsExcused /\ StoreInStep /\ DifferIsPending
        /\ ShutStaysShut /\ ListensForDesired
        /\ ListedWhereAssigned /\ TempsNamed /\ TempIsConnected /\ RelaysImported
    BY DEF WorkersBooks, ProxyInv, RegistryBooks, ConnBooks, RelayBooks
  <1>3. NoRelayRevived
    BY DEF WorkersBooks, RelayBooks, RelaysImported, NoRelayRevived
  <1>4. StoredIsDesired
    BY NoKeyIsNone DEF WorkersBooks, ProxyInv, DifferIsPending, StoredIsDesired, CallsDone
  <1>5. ClosedIsShut
    BY DEF WorkersBooks, ProxyInv, ListensForDesired, ClosedIsShut
  <1> QED
    BY <1>1, <1>2, <1>3, <1>4, <1>5 DEF WorkersInv

(* The books of the workers agree whatever calls, reconcile passes and     *)
(* connections overlap: the listener map names running goroutines, the     *)
(* lists of the namespaces follow the records, the storage is what is      *)
(* desired once the calls about a proxy are done (state.go), no closed     *)
(* relay is made again by ReconcileWorker and no record of a temporary     *)
(* node outlives its connection (auth.go, ws.go).                          *)
THEOREM WorkersInvariant == WorkersSpec => []WorkersInv
  <1>1. WorkersSpec => []WorkersBooks
    BY WorkersStart, WorkersStep, PTL DEF WorkersSpec
  <1> QED
    BY <1>1, BooksImply, PTL

(* CloseProxy (control.go) leaves no port open: a listener of DataWorker   *)
(* is open only for a desired proxy, except where the code itself lets go  *)
(* of it, which excused records.                                           *)
THEOREM ClosedProxiesAreShut == WorkersSpec => []ClosedIsShut
  <1>1. WorkersSpec => []WorkersBooks
    BY WorkersStart, WorkersStep, PTL DEF WorkersSpec
  <1> QED
    BY <1>1, BooksImply, PTL
=============================================================================

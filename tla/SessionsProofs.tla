--------------------------- MODULE SessionsProofs ---------------------------
(* The session map names live sessions, and the session it names is told   *)
(* of all proxies and relays of its client if HTTP answers only after the  *)
(* restore, for any number of sessions, clients, proxies and relays.       *)
EXTENDS Sessions, SequenceTheorems, TLAPS

(* The channels of a kind and what a channel carries.                      *)
LEMMA KindFacts ==
  /\ Kinds = {"proxy", "relay"}
  /\ Of("proxy") = Proxies /\ Of("relay") = Relays
  /\ \A k \in Kinds : Of(k) \subseteq Resources
  /\ \A r \in Resources : \E k \in Kinds : r \in Of(k)
  /\ \A k, l \in Kinds : \A r \in Of(k) : r \in Of(l) => k = l
  BY SessionAssumption DEF Kinds, Of, Resources

(* Types of a channel after a send and a receive.                          *)
LEMMA ChannelTypes ==
  ASSUME NEW S, NEW q \in Seq(S), Len(q) <= QueueCap
  PROVE  /\ \A x \in S : /\ Append(q, x) \in Seq(S)
                         /\ Len(q) < QueueCap => Len(Append(q, x)) <= QueueCap
         /\ q # <<>> => /\ Head(q) \in S /\ Tail(q) \in Seq(S)
                        /\ Len(Tail(q)) <= QueueCap
  <1>1. Len(q) \in Nat /\ QueueCap \in Nat
    BY SessionAssumption, LenProperties
  <1>2. \A x \in S : Append(q, x) \in Seq(S) /\ Len(Append(q, x)) = Len(q) + 1
    BY AppendProperties
  <1>3. q # <<>> => Head(q) \in S /\ Tail(q) \in Seq(S) /\ Len(Tail(q)) = Len(q) - 1
    BY HeadTailProperties
  <1> QED
    BY <1>1, <1>2, <1>3

(* The elements of a channel after a send and a receive.                   *)
LEMMA ChannelElements ==
  ASSUME NEW S, NEW q \in Seq(S)
  PROVE  /\ \A x \in S : \A i \in DOMAIN Append(q, x) :
              Append(q, x)[i] = x \/ \E j \in DOMAIN q : Append(q, x)[i] = q[j]
         /\ q # <<>> => /\ \E j \in DOMAIN q : Head(q) = q[j]
                        /\ \A i \in DOMAIN Tail(q) : \E j \in DOMAIN q : Tail(q)[i] = q[j]
                        /\ \A j \in DOMAIN q :
                             q[j] = Head(q) \/ \E i \in DOMAIN Tail(q) : Tail(q)[i] = q[j]
  <1>1. Len(q) \in Nat /\ DOMAIN q = 1..Len(q)
    BY LenProperties
  <1>2. \A x \in S : \A i \in DOMAIN Append(q, x) :
              Append(q, x)[i] = x \/ \E j \in DOMAIN q : Append(q, x)[i] = q[j]
    BY <1>1, AppendProperties
  <1>3. ASSUME q # <<>>
        PROVE  /\ \E j \in DOMAIN q : Head(q) = q[j]
               /\ \A i \in DOMAIN Tail(q) : \E j \in DOMAIN q : Tail(q)[i] = q[j]
               /\ \A j \in DOMAIN q :
                    q[j] = Head(q) \/ \E i \in DOMAIN Tail(q) : Tail(q)[i] = q[j]
    <2>1. Len(q) >= 1 /\ Head(q) = q[1]
      BY <1>1, <1>3, EmptySeq, HeadTailProperties
    <2>2. DOMAIN Tail(q) = 1..(Len(q) - 1) /\ \A i \in 1..(Len(q) - 1) : Tail(q)[i] = q[i + 1]
      BY <1>1, <1>3, HeadTailProperties
    <2>3. \A j \in DOMAIN q : j = 1 \/ (j - 1 \in 1..(Len(q) - 1) /\ (j - 1) + 1 = j)
      BY <1>1
    <2> QED
      BY <1>1, <2>1, <2>2, <2>3
  <1> QED
    BY <1>2, <1>3

(* Types of what Publish on the client channel does.                       *)
LEMMA PublishClientTypes ==
  ASSUME TypeOK, NEW c \in Clients, NEW type \in {"ADDED", "DELETED"},
         PublishClient(type, c)
  PROVE  cq' \in Seq(ClientEvents) /\ Len(cq') <= QueueCap /\ lost' \in BOOLEAN
  <1>1. cq \in Seq(ClientEvents) /\ Len(cq) <= QueueCap /\ lost \in BOOLEAN
    BY DEF TypeOK
  <1>2. [type |-> type, client |-> c] \in ClientEvents
    BY DEF ClientEvents
  <1>3. CASE Len(cq) < QueueCap
    <2>1. cq' = Append(cq, [type |-> type, client |-> c]) /\ UNCHANGED lost
      BY <1>3 DEF PublishClient
    <2>2. cq' \in Seq(ClientEvents) /\ Len(cq') <= QueueCap
      BY <1>1, <1>2, <1>3, <2>1, ChannelTypes
    <2> QED
      BY <1>1, <2>1, <2>2, Zenon
  <1>4. CASE ~(Len(cq) < QueueCap)
    <2>1. UNCHANGED cq /\ lost' = TRUE
      BY <1>4, Zenon DEF PublishClient
    <2> QED
      BY <1>1, <2>1, Zenon
  <1> QED
    BY <1>3, <1>4

(* Types of what Publish on the channel of a kind does.                    *)
LEMMA PublishEventTypes ==
  ASSUME TypeOK, NEW k \in Kinds, NEW r \in Resources,
         NEW type \in {"ADDED", "DELETED"}, PublishEvent(k, type, r)
  PROVE  rq' \in [Kinds -> Seq(Events)] /\ \A l \in Kinds : Len(rq'[l]) <= QueueCap
  <1>1. rq \in [Kinds -> Seq(Events)] /\ \A l \in Kinds : Len(rq[l]) <= QueueCap
    BY DEF TypeOK
  <1>2. [type |-> type, res |-> r] \in Events
    BY DEF Events
  <1>3. CASE Len(rq[k]) < QueueCap
    <2>1. rq' = [rq EXCEPT ![k] = Append(rq[k], [type |-> type, res |-> r])]
      BY <1>1, <1>3 DEF PublishEvent
    <2>2. /\ Append(rq[k], [type |-> type, res |-> r]) \in Seq(Events)
          /\ Len(Append(rq[k], [type |-> type, res |-> r])) <= QueueCap
      BY <1>1, <1>2, <1>3, ChannelTypes
    <2> QED
      BY <1>1, <2>1, <2>2
  <1>4. CASE ~(Len(rq[k]) < QueueCap)
    BY <1>1, <1>4 DEF PublishEvent
  <1> QED
    BY <1>3, <1>4

(* Types of what SendToClient does.                                        *)
LEMMA SendTypes ==
  ASSUME TypeOK, NEW c \in Clients, NEW r \in Resources, NEW msg,
         SendToClient(c, msg, r)
  PROVE  told' \in [Sessions -> SUBSET Resources]
  <1>1. /\ told \in [Sessions -> SUBSET Resources]
        /\ sessions[c] # None => sessions[c] \in Sessions
    BY DEF TypeOK
  <1> QED
    BY <1>1 DEF SendToClient

(* Types of what the worker of a kind is given to do.                      *)
LEMMA WorkerTypes ==
  ASSUME TypeOK, NEW k \in Kinds, NEW w,
         w \in [pc : {"idle", "handle", "send"}, type : {"ADDED", "DELETED"},
                res : Resources \cup {None}, to : Seq(Clients)],
         worker' = [worker EXCEPT ![k] = w]
  PROVE  worker' \in [Kinds -> [pc : {"idle", "handle", "send"},
                                type : {"ADDED", "DELETED"},
                                res : Resources \cup {None}, to : Seq(Clients)]]
  BY DEF TypeOK

LEMMA IdleType ==
  Idle \in [pc : {"idle", "handle", "send"}, type : {"ADDED", "DELETED"},
            res : Resources \cup {None}, to : Seq(Clients)]
  BY DEF Idle

(* Every step keeps the types.                                             *)
LEMMA TypesNext == SessionInv /\ [Next]_vars => TypeOK'
  <1> SUFFICES ASSUME SessionInv, [Next]_vars PROVE TypeOK'
    OBVIOUS
  <1> USE SessionAssumption
  <1>0. TypeOK
    BY DEF SessionInv
  <1>1. ASSUME NEW s \in Sessions, Open(s) PROVE TypeOK'
    <2>1. /\ reader' \in [Sessions -> {"none", "read", "publish", "conn", "gone"}]
          /\ clientID' \in [Sessions -> Clients \cup {None}]
          /\ tracker' \in [Sessions -> Tracking \cup {"none", "wait", "close", "gone"}]
      BY <1>0, <1>1 DEF Open, TypeOK
    <2>2. alone' \subseteq Sessions
      BY <1>0, <1>1 DEF Open, TypeOK
    <2> QED
      BY <1>0, <1>1, <2>1, <2>2, Zenon DEF Open, TypeOK, resVars
  <1>2. ASSUME NEW s \in Sessions, HandleRegister(s) \/ HandleTempRegister(s)
        PROVE  TypeOK'
    <2>0. /\ reader' = [reader EXCEPT ![s] = "publish"]
          /\ clientID' = [clientID EXCEPT ![s] = Who[s]]
      BY <1>2, Zenon DEF HandleRegister, HandleTempRegister
    <2>1. /\ reader' \in [Sessions -> {"none", "read", "publish", "conn", "gone"}]
          /\ clientID' \in [Sessions -> Clients \cup {None}]
      BY <1>0, <2>0 DEF TypeOK
    <2> QED
      BY <1>0, <1>2, <2>1, ZenonT(60) DEF HandleRegister, HandleTempRegister, TypeOK,
         trackVars, resVars
  <1>3. ASSUME NEW s \in Sessions, RegisterPublish(s) PROVE TypeOK'
    <2>1. reader' \in [Sessions -> {"none", "read", "publish", "conn", "gone"}]
      BY <1>0, <1>3 DEF RegisterPublish, TypeOK
    <2>2. clientID[s] \in Clients
      BY <1>0, <1>3 DEF RegisterPublish, TypeOK, SessionInv, IDsInPlace
    <2>3. cq' \in Seq(ClientEvents) /\ Len(cq') <= QueueCap /\ lost' \in BOOLEAN
      BY <1>0, <1>3, <2>2, PublishClientTypes DEF RegisterPublish
    <2> QED
      BY <1>0, <1>3, <2>1, <2>3, Zenon DEF RegisterPublish, TypeOK, trackVars, resVars
  <1>4. ASSUME NEW s \in Sessions, RegisterEnd(s) PROVE TypeOK'
    <2>1. /\ reader' \in [Sessions -> {"none", "read", "publish", "conn", "gone"}]
          /\ registered' \subseteq Sessions /\ late' \subseteq Sessions
      BY <1>0, <1>4 DEF RegisterEnd, TypeOK
    <2>2. clients' \subseteq Clients
      BY <1>0, <1>4 DEF RegisterEnd, TypeOK, SessionInv, IDsInPlace
    <2> QED
      BY <1>0, <1>4, <2>1, <2>2, Zenon DEF RegisterEnd, TypeOK, trackVars, resVars
  <1>5. ASSUME NEW s \in Sessions, Close(s)
        PROVE  /\ cq' \in Seq(ClientEvents) /\ Len(cq') <= QueueCap
               /\ lost' \in BOOLEAN /\ done' \subseteq Sessions
    <2>1. done' \subseteq Sessions
      BY <1>0, <1>5 DEF Close, TypeOK
    <2>2. CASE s \notin done /\ clientID[s] # None
      <3>1. clientID[s] \in Clients
        BY <1>0, <2>2 DEF TypeOK
      <3>2. PublishClient("DELETED", clientID[s])
        BY <1>5, <2>2, Zenon DEF Close
      <3> QED
        BY <1>0, <2>1, <3>1, <3>2, PublishClientTypes
    <2>3. CASE ~(s \notin done /\ clientID[s] # None)
      <3>1. UNCHANGED <<cq, lost>>
        BY <1>5, <2>3, Zenon DEF Close
      <3> QED
        BY <1>0, <2>1, <3>1, Zenon DEF TypeOK
    <2> QED
      BY <2>2, <2>3
  <1>6. ASSUME NEW s \in Sessions, ReadFails(s) PROVE TypeOK'
    <2>1. reader' \in [Sessions -> {"none", "read", "publish", "conn", "gone"}]
      BY <1>0, <1>6 DEF ReadFails, TypeOK
    <2>2. Close(s)
      BY <1>6 DEF ReadFails
    <2> QED
      BY <1>0, <1>5, <1>6, <2>1, <2>2, Zenon DEF ReadFails, TypeOK, trackVars, resVars
  <1>7. ASSUME NEW s \in Sessions, TrackClose(s) PROVE TypeOK'
    <2>1. tracker' \in [Sessions -> Tracking \cup {"none", "wait", "close", "gone"}]
      BY <1>0, <1>7 DEF TrackClose, TypeOK
    <2>2. Close(s)
      BY <1>7 DEF TrackClose
    <2> QED
      BY <1>0, <1>5, <1>7, <2>1, <2>2, Zenon DEF TrackClose, TypeOK, readVars, resVars
  <1>8. ASSUME NEW s \in Sessions, Store(s) PROVE TypeOK'
    <2>1. /\ tracker' \in [Sessions -> Tracking \cup {"none", "wait", "close", "gone"}]
          /\ sessions' \in [Clients -> Sessions \cup {None}]
      BY <1>0, <1>8 DEF Store, TypeOK, TrackedID, Tracking
    <2> QED
      BY <1>0, <1>8, <2>1, Zenon DEF Store, TypeOK, readVars, resVars
  <1>9. ASSUME NEW s \in Sessions, TrackRegistered(s) \/ TrackTimeout(s) \/ TrackDone(s)
        PROVE  TypeOK'
    <2>1. CASE Store(s)
      BY <1>8, <2>1
    <2>2. CASE ~Store(s)
      <3>1. \/ tracker' = [tracker EXCEPT ![s] = "close"]
            \/ tracker' = [tracker EXCEPT ![s] = "gone"]
        BY <1>9, <2>2, Zenon DEF TrackRegistered, TrackTimeout, TrackDone
      <3>2. tracker' \in [Sessions -> Tracking \cup {"none", "wait", "close", "gone"}]
        BY <1>0, <3>1 DEF TypeOK
      <3>3. UNCHANGED <<readVars, done, todo, sessions, clients, cq, lost,
                        resVars, told, alone>>
        BY <1>9, <2>2, Zenon DEF TrackRegistered, TrackTimeout, TrackDone
      <3> QED
        BY <1>0, <3>2, <3>3, Zenon DEF TypeOK, readVars, resVars
    <2> QED
      BY <2>1, <2>2
  <1>10. ASSUME NEW s \in Sessions, NEW k \in Kinds, SyncList(s, k) PROVE TypeOK'
    <2>1. /\ tracker' \in [Sessions -> Tracking \cup {"none", "wait", "close", "gone"}]
          /\ todo' \in [Sessions -> SUBSET Resources]
      BY <1>0, <1>10 DEF SyncList, TypeOK, Tracking, Listed
    <2> QED
      BY <1>0, <1>10, <2>1, Zenon DEF SyncList, TypeOK, readVars, resVars
  <1>11. ASSUME NEW s \in Sessions, SyncNext(s) PROVE TypeOK'
    <2>1. tracker' \in [Sessions -> Tracking \cup {"none", "wait", "close", "gone"}]
      BY <1>0, <1>11 DEF SyncNext, TypeOK, Tracking
    <2> QED
      BY <1>0, <1>11, <2>1, Zenon DEF SyncNext, TypeOK, readVars, resVars
  <1>13. ASSUME NEW s \in Sessions, TrackEnd(s) PROVE TypeOK'
    <2>1. tracker' \in [Sessions -> Tracking \cup {"none", "wait", "close", "gone"}]
      BY <1>0, <1>13 DEF TrackEnd, TypeOK
    <2>2. sessions' \in [Clients -> Sessions \cup {None}]
      BY <1>0, <1>13 DEF TrackEnd, TypeOK, Removed
    <2> QED
      BY <1>0, <1>13, <2>1, <2>2, Zenon DEF TrackEnd, TypeOK, readVars, resVars
  <1>12. ApplyClientEvent => TypeOK'
    <2> SUFFICES ASSUME ApplyClientEvent PROVE TypeOK'
      OBVIOUS
    <2>1. /\ Head(cq) \in ClientEvents
          /\ cq' \in Seq(ClientEvents) /\ Len(cq') <= QueueCap
      BY <1>0, ChannelTypes DEF ApplyClientEvent, TypeOK
    <2>2. clients' \subseteq Clients
      BY <1>0, <2>1 DEF ApplyClientEvent, TypeOK, ClientEvents, RecordsAfterDeleted
    <2> QED
      BY <1>0, <2>1, <2>2, Zenon DEF ApplyClientEvent, TypeOK, readVars, trackVars, resVars
  <1>14. ASSUME NEW s \in Sessions, NEW r \in Resources, SyncSend(s, r) PROVE TypeOK'
    <2>1. todo' \in [Sessions -> SUBSET Resources]
      BY <1>0, <1>14 DEF SyncSend, TypeOK
    <2>2. clientID[s] \in Clients
      BY <1>0, <1>14 DEF SyncSend, SessionInv, IDsInPlace, Tracking, TypeOK
    <2>3. told' \in [Sessions -> SUBSET Resources]
      BY <1>0, <1>14, <2>2, SendTypes DEF SyncSend, TrackedID
    <2> QED
      BY <1>0, <1>14, <2>1, <2>3, Zenon DEF SyncSend, TypeOK, readVars, resVars
  <1>15. ASSUME NEW k \in Kinds, NEW r \in Resources, Create(k, r) \/ Delete(k, r)
         PROVE  TypeOK'
    <2>1. /\ PublishEvent(k, "ADDED", r) \/ PublishEvent(k, "DELETED", r)
          /\ requests < MaxRequests /\ requests' = requests + 1
          /\ UNCHANGED <<readVars, done, trackVars, clients, cq, lost, actual,
                         worker, told, restore, toRestore, alone>>
      BY <1>15, Zenon DEF Create, Delete
    <2>2. rq' \in [Kinds -> Seq(Events)] /\ \A l \in Kinds : Len(rq'[l]) <= QueueCap
      BY <1>0, <2>1, PublishEventTypes
    <2>3. requests' \in 0..MaxRequests
      BY <1>0, <2>1 DEF TypeOK
    <2>4. created' \subseteq Relays
      BY <1>0, <1>15 DEF Create, Delete, TypeOK, Of
    <2> QED
      BY <1>0, <2>1, <2>2, <2>3, <2>4, Zenon DEF TypeOK, readVars, trackVars
  <1>16. ASSUME NEW k \in Kinds, NEW r \in Resources, RestorePublish(k, r) PROVE TypeOK'
    <2>1. rq' \in [Kinds -> Seq(Events)] /\ \A l \in Kinds : Len(rq'[l]) <= QueueCap
      BY <1>0, <1>16, PublishEventTypes DEF RestorePublish
    <2>2. toRestore' \subseteq Saved
      BY <1>0, <1>16 DEF RestorePublish, TypeOK
    <2> QED
      BY <1>0, <1>16, <2>1, <2>2, Zenon DEF RestorePublish, TypeOK, readVars, trackVars
  <1>17. ASSUME RestoreSnapshot PROVE TypeOK'
    <2>1. actual' \subseteq Resources
      BY <1>0, <1>17 DEF RestoreSnapshot, TypeOK
    <2> QED
      BY <1>0, <1>17, <2>1, Zenon DEF RestoreSnapshot, TypeOK, readVars, trackVars
  <1>18. ASSUME RestoreEnd PROVE TypeOK'
    BY <1>0, <1>18, Zenon DEF RestoreEnd, TypeOK, readVars, trackVars
  <1>19. ASSUME NEW k \in Kinds, WorkerApply(k) PROVE TypeOK'
    <2>1. /\ rq[k] \in Seq(Events) /\ Len(rq[k]) <= QueueCap /\ rq[k] # <<>>
          /\ rq \in [Kinds -> Seq(Events)] /\ \A l \in Kinds : Len(rq[l]) <= QueueCap
      BY <1>0, <1>19 DEF WorkerApply, TypeOK
    <2>2. /\ Head(rq[k]) \in Events /\ Tail(rq[k]) \in Seq(Events)
          /\ Len(Tail(rq[k])) <= QueueCap
      BY <2>1, ChannelTypes
    <2>3. rq' \in [Kinds -> Seq(Events)] /\ \A l \in Kinds : Len(rq'[l]) <= QueueCap
      BY <1>19, <2>1, <2>2 DEF WorkerApply
    <2>4. actual' \subseteq Resources
      BY <1>0, <1>19, <2>2 DEF WorkerApply, TypeOK, Events
    <2>5. worker' \in [Kinds -> [pc : {"idle", "handle", "send"},
                                type : {"ADDED", "DELETED"},
                                res : Resources \cup {None}, to : Seq(Clients)]]
      <3>1. [pc |-> "handle", type |-> Head(rq[k]).type, res |-> Head(rq[k]).res,
             to |-> <<>>] \in [pc : {"idle", "handle", "send"},
                               type : {"ADDED", "DELETED"},
                               res : Resources \cup {None}, to : Seq(Clients)]
        BY <2>2 DEF Events
      <3> QED
        BY <1>0, <1>19, <3>1, WorkerTypes DEF WorkerApply
    <2> QED
      BY <1>0, <1>19, <2>3, <2>4, <2>5, Zenon DEF WorkerApply, TypeOK, readVars, trackVars
  <1>20. ASSUME NEW k \in Kinds, WorkerHandle(k) PROVE TypeOK'
    <2>1. worker[k].res \in Resources /\ worker[k].type \in {"ADDED", "DELETED"}
      BY <1>0, <1>20, KindFacts DEF WorkerHandle, TypeOK, SessionInv, WorkersInStep
    <2>2. Sending(worker[k], Parties[worker[k].res]) \in
            [pc : {"idle", "handle", "send"}, type : {"ADDED", "DELETED"},
             res : Resources \cup {None}, to : Seq(Clients)]
      BY <2>1 DEF Sending
    <2>3. worker' \in [Kinds -> [pc : {"idle", "handle", "send"},
                                type : {"ADDED", "DELETED"},
                                res : Resources \cup {None}, to : Seq(Clients)]]
      <3>1. CASE Announced(k)
        BY <1>0, <1>20, <2>2, <3>1, WorkerTypes DEF WorkerHandle
      <3>2. CASE ~Announced(k)
        BY <1>0, <1>20, <3>2, WorkerTypes, IdleType DEF WorkerHandle
      <3> QED
        BY <3>1, <3>2
    <2> QED
      BY <1>0, <1>20, <2>3, Zenon DEF WorkerHandle, TypeOK, readVars, trackVars
  <1>21. ASSUME NEW k \in Kinds, WorkerSend(k) PROVE TypeOK'
    <2>1. /\ worker[k].res \in Resources /\ worker[k].to \in Seq(Clients)
          /\ worker[k].to # <<>>
          /\ worker[k] \in [pc : {"idle", "handle", "send"}, type : {"ADDED", "DELETED"},
                            res : Resources \cup {None}, to : Seq(Clients)]
      BY <1>0, <1>21, KindFacts DEF WorkerSend, TypeOK, SessionInv, WorkersInStep
    <2>2. Head(worker[k].to) \in Clients /\ Tail(worker[k].to) \in Seq(Clients)
      BY <2>1, HeadTailProperties
    <2>3. told' \in [Sessions -> SUBSET Resources]
      BY <1>0, <1>21, <2>1, <2>2, SendTypes DEF WorkerSend
    <2>4. worker' \in [Kinds -> [pc : {"idle", "handle", "send"},
                                type : {"ADDED", "DELETED"},
                                res : Resources \cup {None}, to : Seq(Clients)]]
      <3>1. CASE Len(worker[k].to) = 1
        <4>1. worker' = [worker EXCEPT ![k] = Idle]
          BY <1>21, <3>1 DEF WorkerSend
        <4> QED
          BY <1>0, <4>1, WorkerTypes, IdleType
      <3>2. CASE Len(worker[k].to) # 1
        <4>1. worker' = [worker EXCEPT ![k] = Sending(worker[k], Tail(worker[k].to))]
          BY <1>21, <3>2 DEF WorkerSend
        <4>2. Sending(worker[k], Tail(worker[k].to)) \in
                [pc : {"idle", "handle", "send"}, type : {"ADDED", "DELETED"},
                 res : Resources \cup {None}, to : Seq(Clients)]
          BY <2>1, <2>2 DEF Sending
        <4> QED
          BY <1>0, <4>1, <4>2, WorkerTypes
      <3> QED
        BY <3>1, <3>2
    <2> QED
      BY <1>0, <1>21, <2>3, <2>4, Zenon DEF WorkerSend, TypeOK, readVars, trackVars
  <1>22. CASE UNCHANGED vars
    BY <1>0, <1>22, Zenon DEF vars, TypeOK, readVars, trackVars, resVars
  <1> QED
    BY <1>1, <1>2, <1>3, <1>4, <1>6, <1>7, <1>9, <1>10, <1>11, <1>12, <1>13, <1>14,
       <1>15, <1>16, <1>17, <1>18, <1>19, <1>20, <1>21, <1>22, Zenon
    DEF Next, Reader, Tracker, Worker

(* The map names tracked sessions under their own ID: only a session's own *)
(* tracker takes it out of tracking, and then removes the entry.           *)
LEMMA MapNext == SessionInv /\ [Next]_vars => MapIsLive' /\ IDsInPlace'
  <1> SUFFICES ASSUME SessionInv, [Next]_vars PROVE MapIsLive' /\ IDsInPlace'
    OBVIOUS
  <1> USE SessionAssumption
  <1>0. TypeOK /\ MapIsLive /\ IDsInPlace
    BY DEF SessionInv
  <1>1. ASSUME UNCHANGED <<reader, clientID, tracker, sessions>>
        PROVE  MapIsLive' /\ IDsInPlace'
    BY <1>0, <1>1 DEF MapIsLive, IDsInPlace
  <1>2. ASSUME NEW s \in Sessions, Open(s) PROVE MapIsLive' /\ IDsInPlace'
    BY <1>0, <1>2 DEF Open, MapIsLive, IDsInPlace, Tracking, TypeOK
  <1>3. ASSUME NEW s \in Sessions, HandleRegister(s) \/ HandleTempRegister(s)
        PROVE  MapIsLive' /\ IDsInPlace'
    <2>1. /\ reader' = [reader EXCEPT ![s] = "publish"] /\ reader[s] = "read"
          /\ clientID' = [clientID EXCEPT ![s] = Who[s]]
          /\ UNCHANGED <<tracker, sessions>>
          /\ clientID[s] \in {None, Who[s]}
      BY <1>0, <1>3 DEF HandleRegister, HandleTempRegister, IDsInPlace, trackVars
    <2>2. Who[s] \in Clients /\ Who[s] # None
      OBVIOUS
    <2>3. MapIsLive'
      BY <1>0, <2>1, <2>2 DEF MapIsLive, TypeOK
    <2>4. IDsInPlace'
      BY <1>0, <2>1, <2>2 DEF IDsInPlace, TypeOK
    <2> QED
      BY <2>3, <2>4
  <1>4. ASSUME NEW s \in Sessions, RegisterPublish(s) \/ RegisterEnd(s) \/ ReadFails(s)
        PROVE  MapIsLive' /\ IDsInPlace'
    <2>1. UNCHANGED <<clientID, tracker, sessions>>
      BY <1>4, Zenon DEF RegisterPublish, RegisterEnd, ReadFails, trackVars
    <2>2. MapIsLive'
      BY <1>0, <2>1 DEF MapIsLive
    <2>3. PICK x \in {"conn", "read", "gone"} : reader' = [reader EXCEPT ![s] = x]
      BY <1>4 DEF RegisterPublish, RegisterEnd, ReadFails
    <2>4. x = "conn" => reader[s] = "publish"
      BY <1>0, <1>4, <2>3 DEF RegisterPublish, RegisterEnd, ReadFails, TypeOK
    <2>5. IDsInPlace'
      BY <1>0, <2>1, <2>3, <2>4 DEF IDsInPlace, TypeOK
    <2> QED
      BY <2>2, <2>5
  <1>5. ASSUME NEW s \in Sessions, Store(s), tracker[s] = "wait"
        PROVE  MapIsLive' /\ IDsInPlace'
    BY <1>0, <1>5 DEF Store, TrackedID, MapIsLive, IDsInPlace, Tracking, TypeOK, readVars
  <1>6. ASSUME NEW s \in Sessions, NEW x \in {"close", "gone"},
               tracker[s] \notin Tracking, tracker[s] # "none",
               tracker' = [tracker EXCEPT ![s] = x],
               UNCHANGED <<reader, clientID, sessions>>
        PROVE  MapIsLive' /\ IDsInPlace'
    BY <1>0, <1>6 DEF MapIsLive, IDsInPlace, Tracking, TypeOK
  <1>7. ASSUME NEW s \in Sessions,
               TrackRegistered(s) \/ TrackTimeout(s) \/ TrackDone(s) \/ TrackClose(s)
        PROVE  MapIsLive' /\ IDsInPlace'
    <2>1. tracker[s] \in {"wait", "close"} /\ tracker[s] \notin Tracking /\ tracker[s] # "none"
      BY <1>7 DEF TrackRegistered, TrackTimeout, TrackDone, TrackClose, Tracking
    <2>2. CASE Store(s) /\ tracker[s] = "wait"
      BY <1>5, <2>2
    <2>3. CASE ~(Store(s) /\ tracker[s] = "wait")
      <3>1. /\ \E x \in {"close", "gone"} : tracker' = [tracker EXCEPT ![s] = x]
            /\ UNCHANGED <<reader, clientID, sessions>>
        BY <1>7, <2>3 DEF TrackRegistered, TrackTimeout, TrackDone, TrackClose, readVars
      <3> QED
        BY <1>6, <2>1, <3>1
    <2> QED
      BY <2>2, <2>3
  <1>8. ASSUME NEW s \in Sessions, NEW k \in Kinds, SyncList(s, k)
        PROVE  MapIsLive' /\ IDsInPlace'
    BY <1>0, <1>8 DEF SyncList, MapIsLive, IDsInPlace, Tracking, TypeOK, readVars
  <1>9. ASSUME NEW s \in Sessions, SyncNext(s) PROVE MapIsLive' /\ IDsInPlace'
    BY <1>0, <1>9 DEF SyncNext, MapIsLive, IDsInPlace, Tracking, TypeOK, readVars
  <1>10. ASSUME NEW s \in Sessions, TrackEnd(s) PROVE MapIsLive' /\ IDsInPlace'
    BY <1>0, <1>10 DEF TrackEnd, Removed, TrackedID, MapIsLive, IDsInPlace, Tracking,
       TypeOK, readVars
  <1>11. ASSUME NEW s \in Sessions, NEW r \in Resources, SyncSend(s, r)
         PROVE  MapIsLive' /\ IDsInPlace'
    BY <1>1, <1>11 DEF SyncSend, readVars
  <1>12. ApplyClientEvent => MapIsLive' /\ IDsInPlace'
    BY <1>1 DEF ApplyClientEvent, readVars, trackVars
  <1>13. ASSUME NEW k \in Kinds, Worker(k) PROVE MapIsLive' /\ IDsInPlace'
    BY <1>1, <1>13 DEF Worker, WorkerApply, WorkerHandle, WorkerSend, readVars, trackVars
  <1>14. ASSUME NEW k \in Kinds, NEW r \in Resources,
                Create(k, r) \/ Delete(k, r) \/ RestorePublish(k, r)
         PROVE  MapIsLive' /\ IDsInPlace'
    BY <1>1, <1>14 DEF Create, Delete, RestorePublish, readVars, trackVars
  <1>15. CASE RestoreSnapshot \/ RestoreEnd \/ UNCHANGED vars
    BY <1>1, <1>15 DEF RestoreSnapshot, RestoreEnd, vars, readVars, trackVars
  <1> QED
    BY <1>2, <1>3, <1>4, <1>7, <1>8, <1>9, <1>10, <1>11, <1>12, <1>13, <1>14, <1>15,
       Zenon DEF Next, Reader, Tracker

(* The channel of a kind carries events of the kind after a Publish.       *)
LEMMA PublishEventKind ==
  ASSUME SessionInv, NEW k \in Kinds, NEW r \in Of(k),
         NEW type \in {"ADDED", "DELETED"}, PublishEvent(k, type, r)
  PROVE  \A l \in Kinds : \A i \in DOMAIN rq'[l] :
             /\ rq'[l][i].res \in Of(l)
             /\ \/ rq'[l][i].type = type
                \/ \E j \in DOMAIN rq[l] : rq'[l][i].type = rq[l][j].type
  <1>1. /\ rq \in [Kinds -> Seq(Events)]
        /\ \A l \in Kinds : \A i \in DOMAIN rq[l] : rq[l][i].res \in Of(l)
    BY DEF SessionInv, TypeOK, WorkersInStep
  <1>2. r \in Resources
    BY KindFacts
  <1>3. [type |-> type, res |-> r] \in Events
    BY <1>2 DEF Events
  <1>4. CASE Len(rq[k]) < QueueCap
    <2> DEFINE q == Append(rq[k], [type |-> type, res |-> r])
    <2>1. rq' = [rq EXCEPT ![k] = q]
      BY <1>1, <1>4 DEF PublishEvent
    <2>2. \A i \in DOMAIN q : q[i] = [type |-> type, res |-> r]
                              \/ \E j \in DOMAIN rq[k] : q[i] = rq[k][j]
      BY <1>1, <1>3, ChannelElements
    <2> HIDE DEF q
    <2>3. rq'[k] = q /\ \A l \in Kinds : l # k => rq'[l] = rq[l]
      BY <1>1, <2>1
    <2> QED
      BY <1>1, <2>2, <2>3
  <1>5. CASE ~(Len(rq[k]) < QueueCap)
    BY <1>1, <1>5 DEF PublishEvent
  <1> QED
    BY <1>4, <1>5

(* Workers handle events of their kind, and a deleted resource stays away  *)
(* while its deletion is announced: only its own worker could bring it     *)
(* back, and the restore, which is over by then.                           *)
LEMMA WorkersNext ==
  ASSUME SessionInv, [Next]_vars PROVE WorkersInStep' /\ RestoreIsQuiet'
  <1> USE SessionAssumption
  <1>0. TypeOK /\ WorkersInStep /\ RestoreIsQuiet
    BY DEF SessionInv
  <1>q. restoring /\ ~EarlyHTTP =>
          /\ \A s \in Sessions : reader[s] = "none"
          /\ \A k \in Kinds : /\ \A i \in DOMAIN rq[k] : rq[k][i].type = "ADDED"
                              /\ worker[k].type = "ADDED"
    BY <1>0, Zenon DEF RestoreIsQuiet
  <1>1. ASSUME UNCHANGED <<rq, worker, actual, restore>>,
               UNCHANGED reader \/ ~restoring \/ EarlyHTTP
        PROVE  WorkersInStep' /\ RestoreIsQuiet'
    BY <1>0, <1>1 DEF WorkersInStep, RestoreIsQuiet, restoring
  <1>2. ASSUME NEW s \in Sessions, Open(s) PROVE WorkersInStep' /\ RestoreIsQuiet'
    BY <1>1, <1>2 DEF Open, resVars
  <1>3. ASSUME NEW s \in Sessions,
               HandleRegister(s) \/ HandleTempRegister(s) \/ RegisterPublish(s)
               \/ RegisterEnd(s) \/ ReadFails(s)
        PROVE  WorkersInStep' /\ RestoreIsQuiet'
    <2>1. reader[s] # "none" /\ UNCHANGED <<rq, worker, actual, restore>>
      BY <1>3 DEF HandleRegister, HandleTempRegister, RegisterPublish, RegisterEnd,
         ReadFails, resVars
    <2> QED
      BY <1>0, <1>1, <2>1 DEF RestoreIsQuiet
  <1>4. ASSUME NEW s \in Sessions, Tracker(s) \/ TrackTimeout(s)
        PROVE  WorkersInStep' /\ RestoreIsQuiet'
    <2>1. UNCHANGED <<rq, worker, actual, restore, reader>>
      BY <1>4 DEF Tracker, TrackTimeout, TrackRegistered, TrackClose, TrackDone, Store,
         SyncList, SyncSend, SyncNext, TrackEnd, resVars, readVars
    <2> QED
      BY <1>1, <2>1
  <1>5. ASSUME ApplyClientEvent \/ UNCHANGED vars PROVE WorkersInStep' /\ RestoreIsQuiet'
    BY <1>1, <1>5 DEF ApplyClientEvent, vars, resVars, readVars
  <1>6. ASSUME NEW k \in Kinds, NEW r \in Resources, RestorePublish(k, r)
        PROVE  WorkersInStep' /\ RestoreIsQuiet'
    <2>1. PublishEvent(k, "ADDED", r) /\ UNCHANGED <<worker, actual, restore, reader>>
          /\ r \in Of(k)
      BY <1>6 DEF RestorePublish, readVars
    <2>2. \A l \in Kinds : \A i \in DOMAIN rq'[l] :
             /\ rq'[l][i].res \in Of(l)
             /\ \/ rq'[l][i].type = "ADDED"
                \/ \E j \in DOMAIN rq[l] : rq'[l][i].type = rq[l][j].type
      BY <2>1, PublishEventKind
    <2>3. WorkersInStep'
      BY <1>0, <2>1, <2>2, Zenon DEF WorkersInStep
    <2>4. ~EarlyHTTP => \A l \in Kinds : \A j \in DOMAIN rq[l] : rq[l][j].type = "ADDED"
      <3>1. restoring
        BY <1>6 DEF RestorePublish, restoring
      <3> QED
        BY <1>q, <3>1, Zenon
    <2>5. ASSUME ~EarlyHTTP, NEW l \in Kinds, NEW i \in DOMAIN rq'[l]
          PROVE  rq'[l][i].type = "ADDED"
      <3>1. \A j \in DOMAIN rq[l] : rq[l][j].type = "ADDED"
        BY <2>4, <2>5, Zenon
      <3>2. \/ rq'[l][i].type = "ADDED"
            \/ \E j \in DOMAIN rq[l] : rq'[l][i].type = rq[l][j].type
        BY <2>2, <2>5, Zenon
      <3> QED
        BY <3>1, <3>2, Zenon
    <2>6. RestoreIsQuiet'
      BY <1>q, <2>1, <2>4, <2>5, Zenon DEF RestoreIsQuiet, restoring
    <2> QED
      BY <2>3, <2>6
  <1>7. ASSUME NEW k \in Kinds, NEW r \in Resources, Create(k, r) \/ Delete(k, r)
        PROVE  WorkersInStep' /\ RestoreIsQuiet'
    <2>1. /\ PublishEvent(k, "ADDED", r) \/ PublishEvent(k, "DELETED", r)
          /\ UNCHANGED <<worker, actual, restore, reader>>
          /\ r \in Of(k) /\ (~restoring \/ EarlyHTTP)
      BY <1>7 DEF Create, Delete, readVars
    <2>2. \A l \in Kinds : \A i \in DOMAIN rq'[l] : rq'[l][i].res \in Of(l)
      BY <2>1, PublishEventKind
    <2> QED
      BY <1>0, <2>1, <2>2 DEF WorkersInStep, RestoreIsQuiet, restoring
  <1>8. ASSUME RestoreSnapshot PROVE WorkersInStep' /\ RestoreIsQuiet'
    <2>0. restoring
      BY <1>8 DEF RestoreSnapshot, restoring
    <2>1. /\ UNCHANGED <<rq, worker, reader>>
          /\ ~EarlyHTTP => \A k \in Kinds : worker[k].type = "ADDED"
      BY <1>q, <1>8, <2>0, Zenon DEF RestoreSnapshot, readVars
    <2>2. WorkersInStep'
      BY <1>0, <2>1 DEF WorkersInStep
    <2>3. RestoreIsQuiet'
      BY <1>q, <2>0, <2>1, Zenon DEF RestoreIsQuiet
    <2> QED
      BY <2>2, <2>3
  <1>9. ASSUME RestoreEnd PROVE WorkersInStep' /\ RestoreIsQuiet'
    BY <1>0, <1>9 DEF RestoreEnd, WorkersInStep, RestoreIsQuiet, readVars, restoring
  <1>10. ASSUME NEW k \in Kinds, WorkerApply(k) PROVE WorkersInStep' /\ RestoreIsQuiet'
    <2>1. /\ rq \in [Kinds -> Seq(Events)] /\ rq[k] \in Seq(Events) /\ rq[k] # <<>>
          /\ worker \in [Kinds -> [pc : {"idle", "handle", "send"},
                                   type : {"ADDED", "DELETED"},
                                   res : Resources \cup {None}, to : Seq(Clients)]]
          /\ UNCHANGED <<restore, reader>>
      BY <1>0, <1>10 DEF WorkerApply, TypeOK, readVars
    <2>2. /\ \E j \in DOMAIN rq[k] : Head(rq[k]) = rq[k][j]
          /\ \A i \in DOMAIN Tail(rq[k]) : \E j \in DOMAIN rq[k] : Tail(rq[k])[i] = rq[k][j]
      BY <2>1, ChannelElements
    <2>3. /\ rq'[k] = Tail(rq[k]) /\ \A l \in Kinds : l # k => rq'[l] = rq[l]
          /\ worker'[k].pc = "handle" /\ worker'[k].type = Head(rq[k]).type
          /\ worker'[k].res = Head(rq[k]).res
          /\ \A l \in Kinds : l # k => worker'[l] = worker[l]
          /\ actual' = IF Head(rq[k]).type = "ADDED" THEN actual \cup {Head(rq[k]).res}
                       ELSE actual \ {Head(rq[k]).res}
      BY <1>10, <2>1 DEF WorkerApply
    <2>4. Head(rq[k]).res \in Of(k)
      BY <1>0, <2>2 DEF WorkersInStep
    <2>5. \A l \in Kinds : \A i \in DOMAIN rq'[l] :
             \E j \in DOMAIN rq[l] : rq'[l][i] = rq[l][j]
      <3> SUFFICES ASSUME NEW l \in Kinds, NEW i \in DOMAIN rq'[l]
                   PROVE  \E j \in DOMAIN rq[l] : rq'[l][i] = rq[l][j]
        OBVIOUS
      <3>1. CASE l = k
        <4>1. i \in DOMAIN Tail(rq[k]) /\ rq'[l][i] = Tail(rq[k])[i]
          BY <2>3, <3>1
        <4> QED
          BY <2>2, <3>1, <4>1
      <3>2. CASE l # k
        BY <2>3, <3>2
      <3> QED
        BY <3>1, <3>2
    <2>6. \A l \in Kinds : l # k /\ worker[l].pc # "idle" => worker[l].res # Head(rq[k]).res
      BY <1>0, <2>4, KindFacts DEF WorkersInStep
    <2>7. WorkersInStep'
      BY <1>0, <2>3, <2>4, <2>5, <2>6 DEF WorkersInStep
    <2>8. RestoreIsQuiet'
      <3> SUFFICES ASSUME restoring, ~EarlyHTTP
                   PROVE  /\ \A s \in Sessions : reader[s] = "none"
                          /\ \A l \in Kinds : /\ \A i \in DOMAIN rq'[l] : rq'[l][i].type = "ADDED"
                                              /\ worker'[l].type = "ADDED"
        BY <2>1, Zenon DEF RestoreIsQuiet, restoring
      <3>1. /\ \A s \in Sessions : reader[s] = "none"
            /\ \A l \in Kinds : /\ \A i \in DOMAIN rq[l] : rq[l][i].type = "ADDED"
                                /\ worker[l].type = "ADDED"
        BY <1>q, Zenon
      <3>2. Head(rq[k]).type = "ADDED"
        BY <2>2, <3>1
      <3>3. ASSUME NEW l \in Kinds PROVE worker'[l].type = "ADDED"
        <4>1. CASE l = k
          BY <2>3, <3>2, <4>1
        <4>2. CASE l # k
          BY <2>3, <3>1, <4>2
        <4> QED
          BY <4>1, <4>2
      <3>4. \A l \in Kinds : \A i \in DOMAIN rq'[l] : rq'[l][i].type = "ADDED"
        BY <2>5, <3>1
      <3> QED
        BY <3>1, <3>3, <3>4
    <2> QED
      BY <2>7, <2>8
  <1>11. ASSUME NEW k \in Kinds, NEW to \in Seq(Clients), to # <<>>,
                worker[k].pc # "idle",
                \/ worker' = [worker EXCEPT ![k] = Idle]
                \/ worker' = [worker EXCEPT ![k] = Sending(worker[k], to)],
                UNCHANGED <<rq, actual, restore, reader>>
         PROVE  WorkersInStep' /\ RestoreIsQuiet'
    <2>1. worker \in [Kinds -> [pc : {"idle", "handle", "send"},
                                type : {"ADDED", "DELETED"},
                                res : Resources \cup {None}, to : Seq(Clients)]]
      BY <1>0 DEF TypeOK
    <2>2. \A l \in Kinds : l # k => worker'[l] = worker[l]
      BY <1>11, <2>1
    <2>3. \/ worker'[k].pc = "idle" /\ worker'[k].type = "ADDED"
          \/ /\ worker'[k].pc = "send" /\ worker'[k].type = worker[k].type
             /\ worker'[k].res = worker[k].res /\ worker'[k].to = to
      BY <1>11, <2>1 DEF Idle, Sending
    <2>4. WorkersInStep'
      BY <1>0, <1>11, <2>2, <2>3 DEF WorkersInStep
    <2>5. RestoreIsQuiet'
      BY <1>0, <1>11, <2>2, <2>3 DEF RestoreIsQuiet, restoring
    <2> QED
      BY <2>4, <2>5
  <1>12. ASSUME NEW k \in Kinds, WorkerHandle(k) PROVE WorkersInStep' /\ RestoreIsQuiet'
    <2>1. worker[k].res \in Resources /\ worker[k].pc # "idle"
      BY <1>0, <1>12, KindFacts DEF WorkerHandle, WorkersInStep
    <2>2. Parties[worker[k].res] \in Seq(Clients) /\ Parties[worker[k].res] # <<>>
      BY <2>1
    <2>3. UNCHANGED <<rq, actual, restore, reader>>
      BY <1>12 DEF WorkerHandle, readVars
    <2>4. \/ worker' = [worker EXCEPT ![k] = Idle]
          \/ worker' = [worker EXCEPT ![k] = Sending(worker[k], Parties[worker[k].res])]
      BY <1>12, Zenon DEF WorkerHandle
    <2> QED
      BY <1>11, <2>1, <2>2, <2>3, <2>4
  <1>13. ASSUME NEW k \in Kinds, WorkerSend(k) PROVE WorkersInStep' /\ RestoreIsQuiet'
    <2>1. worker[k].to \in Seq(Clients) /\ worker[k].to # <<>> /\ worker[k].pc # "idle"
      BY <1>0, <1>13 DEF WorkerSend, WorkersInStep, TypeOK
    <2>2. UNCHANGED <<rq, actual, restore, reader>>
      BY <1>13 DEF WorkerSend, readVars
    <2>3. CASE Len(worker[k].to) = 1
      <3>1. worker' = [worker EXCEPT ![k] = Idle]
        BY <1>13, <2>3 DEF WorkerSend
      <3> QED
        BY <1>11, <2>1, <2>2, <3>1
    <2>4. CASE Len(worker[k].to) # 1
      <3>1. worker' = [worker EXCEPT ![k] = Sending(worker[k], Tail(worker[k].to))]
        BY <1>13, <2>4 DEF WorkerSend
      <3>2. Tail(worker[k].to) \in Seq(Clients) /\ Tail(worker[k].to) # <<>>
        <4>1. /\ Tail(worker[k].to) \in Seq(Clients)
              /\ Len(Tail(worker[k].to)) = Len(worker[k].to) - 1
          BY <2>1, HeadTailProperties
        <4>2. Len(worker[k].to) \in Nat
          BY <2>1, LenProperties
        <4>3. Len(Tail(worker[k].to)) # 0
          BY <2>4, <4>1, <4>2
        <4>4. Tail(worker[k].to) # <<>>
          BY <4>1, <4>3, EmptySeq
        <4> QED
          BY <4>1, <4>4
      <3> QED
        BY <1>11, <2>1, <2>2, <3>1, <3>2
    <2> QED
      BY <2>3, <2>4
  <1> QED
    BY <1>2, <1>3, <1>4, <1>5, <1>6, <1>7, <1>8, <1>9, <1>10, <1>12, <1>13, Zenon
    DEF Next, Reader, Worker

(* A resource of a client stays told of, or still to be listed, sent or    *)
(* announced, for the session the map names.                               *)
LEMMA ToldNext ==
  ASSUME ~EarlyHTTP, SessionInv, [Next]_vars PROVE ToldOrToBe'
  <1> USE SessionAssumption
  <1>0. TypeOK /\ MapIsLive /\ IDsInPlace /\ WorkersInStep /\ ToldOrToBe
    BY DEF SessionInv
  <1>m. \A c \in Clients : sessions[c] # None =>
          /\ sessions[c] \in Sessions
          /\ tracker[sessions[c]] \in Tracking /\ clientID[sessions[c]] = c
    BY <1>0 DEF TypeOK, MapIsLive
  <1>q. ASSUME restoring PROVE \A c \in Clients : sessions[c] = None
    <2>1. \A s \in Sessions : reader[s] = "none"
      BY <1>q, Zenon DEF SessionInv, RestoreIsQuiet
    <2>2. \A s \in Sessions : tracker[s] \notin Tracking
      BY <1>0, <2>1 DEF IDsInPlace, Tracking
    <2> QED
      BY <1>m, <2>2
  <1>1. ASSUME UNCHANGED <<sessions, actual, told, todo, worker>>,
               \A c \in Clients : sessions[c] # None =>
                   tracker'[sessions[c]] = tracker[sessions[c]]
        PROVE  ToldOrToBe'
    <2> SUFFICES ASSUME NEW c \in Clients, sessions[c] # None,
                        NEW r \in actual \cap Concerns(c)
                 PROVE  \/ r \in told'[sessions'[c]] \/ WillList(sessions[c], r)'
                        \/ WillSend(sessions[c], r)' \/ WillAnnounce(c, r)'
      BY <1>1 DEF ToldOrToBe
    <2>1. WillList(sessions[c], r) => WillList(sessions[c], r)'
      BY <1>1 DEF WillList
    <2>2. WillSend(sessions[c], r) => WillSend(sessions[c], r)'
      BY <1>1 DEF WillSend
    <2>3. WillAnnounce(c, r) => WillAnnounce(c, r)'
      BY <1>1 DEF WillAnnounce
    <2> QED
      BY <1>0, <1>1, <2>1, <2>2, <2>3 DEF ToldOrToBe
  <1>2. ASSUME NEW s \in Sessions, NEW x, tracker[s] \notin Tracking,
               tracker' = [tracker EXCEPT ![s] = x],
               UNCHANGED <<sessions, actual, told, todo, worker>>
        PROVE  ToldOrToBe'
    <2>1. \A c \in Clients : sessions[c] # None =>
              tracker'[sessions[c]] = tracker[sessions[c]]
      BY <1>0, <1>m, <1>2 DEF TypeOK
    <2> QED
      BY <1>1, <1>2, <2>1
  <1>3. ASSUME NEW s \in Sessions, Open(s) PROVE ToldOrToBe'
    <2>1. tracker[s] \notin Tracking /\ tracker' = [tracker EXCEPT ![s] = "wait"]
      BY <1>0, <1>3 DEF Open, IDsInPlace, Tracking
    <2> QED
      BY <1>2, <1>3, <2>1 DEF Open, resVars
  <1>4. ASSUME NEW s \in Sessions,
               HandleRegister(s) \/ HandleTempRegister(s) \/ RegisterPublish(s)
               \/ RegisterEnd(s) \/ ReadFails(s)
        PROVE  ToldOrToBe'
    <2>1. UNCHANGED <<sessions, actual, told, todo, worker, tracker>>
      BY <1>4, Zenon DEF HandleRegister, HandleTempRegister, RegisterPublish, RegisterEnd,
         ReadFails, resVars, trackVars
    <2> QED
      BY <1>1, <2>1
  <1>5. ASSUME NEW s \in Sessions, Store(s), tracker[s] = "wait" PROVE ToldOrToBe'
    <2>1. tracker[s] \notin Tracking /\ UNCHANGED <<actual, told, todo, worker>>
      BY <1>5 DEF Store, resVars, Tracking
    <2>2. CASE clientID[s] = None
      BY <1>2, <1>5, <2>1, <2>2 DEF Store, TrackedID
    <2>3. CASE clientID[s] # None
      <3>1. /\ sessions' = [sessions EXCEPT ![clientID[s]] = s]
            /\ tracker' = [tracker EXCEPT ![s] = "proxies"]
        BY <1>5, <2>3 DEF Store, TrackedID
      <3> SUFFICES ASSUME NEW c \in Clients, sessions'[c] # None,
                          NEW r \in actual \cap Concerns(c)
                   PROVE  \/ r \in told[sessions'[c]] \/ WillList(sessions[c], r)'
                          \/ WillSend(sessions[c], r)' \/ WillAnnounce(c, r)'
        BY <2>1 DEF ToldOrToBe
      <3>2. CASE sessions'[c] = s
        <4>1. tracker'[s] = "proxies"
          BY <1>0, <3>1 DEF TypeOK
        <4> QED
          BY <3>2, <4>1 DEF WillList
      <3>3. CASE sessions'[c] # s
        <4>1. sessions'[c] = sessions[c]
          BY <1>0, <3>1, <3>3 DEF TypeOK
        <4>2. tracker'[sessions[c]] = tracker[sessions[c]] /\ todo' = todo /\ worker' = worker
          BY <1>0, <1>m, <2>1, <3>1, <3>3, <4>1 DEF TypeOK
        <4>3. \/ r \in told[sessions[c]] \/ WillList(sessions[c], r)
              \/ WillSend(sessions[c], r) \/ WillAnnounce(c, r)
          BY <1>0, <4>1 DEF ToldOrToBe
        <4>4. WillList(sessions[c], r) => WillList(sessions[c], r)'
          BY <4>1, <4>2 DEF WillList
        <4>5. WillSend(sessions[c], r) => WillSend(sessions[c], r)'
          BY <4>1, <4>2 DEF WillSend
        <4>6. WillAnnounce(c, r) => WillAnnounce(c, r)'
          BY <4>2 DEF WillAnnounce
        <4> QED
          BY <4>1, <4>3, <4>4, <4>5, <4>6
      <3> QED
        BY <3>2, <3>3
    <2> QED
      BY <2>2, <2>3
  <1>6. ASSUME NEW s \in Sessions,
               TrackRegistered(s) \/ TrackTimeout(s) \/ TrackDone(s) \/ TrackClose(s)
        PROVE  ToldOrToBe'
    <2>1. tracker[s] \in {"wait", "close"} /\ tracker[s] \notin Tracking
      BY <1>6 DEF TrackRegistered, TrackTimeout, TrackDone, TrackClose, Tracking
    <2>2. CASE Store(s) /\ tracker[s] = "wait"
      BY <1>5, <2>2
    <2>3. CASE ~(Store(s) /\ tracker[s] = "wait")
      <3>1. /\ \E x \in {"close", "gone"} : tracker' = [tracker EXCEPT ![s] = x]
            /\ UNCHANGED <<sessions, actual, told, todo, worker>>
        BY <1>6, <2>3 DEF TrackRegistered, TrackTimeout, TrackDone, TrackClose, resVars
      <3> QED
        BY <1>2, <2>1, <3>1
    <2> QED
      BY <2>2, <2>3
  <1>7. ASSUME NEW s \in Sessions, NEW k \in Kinds, SyncList(s, k) PROVE ToldOrToBe'
    <2>1. /\ UNCHANGED <<sessions, actual, told, worker>>
          /\ tracker[s] = IF k = "proxy" THEN "proxies" ELSE "relays"
          /\ todo' = [todo EXCEPT ![s] = Listed(k, clientID[s])]
          /\ tracker' = [tracker EXCEPT ![s] =
                           IF k = "proxy" THEN "sendProxies" ELSE "sendRelays"]
      BY <1>7 DEF SyncList, TrackedID, resVars
    <2> SUFFICES ASSUME NEW c \in Clients, sessions[c] # None,
                        NEW r \in actual \cap Concerns(c)
                 PROVE  \/ r \in told'[sessions'[c]] \/ WillList(sessions[c], r)'
                        \/ WillSend(sessions[c], r)' \/ WillAnnounce(c, r)'
      BY <2>1 DEF ToldOrToBe
    <2>2. \/ r \in told[sessions[c]] \/ WillList(sessions[c], r)
          \/ WillSend(sessions[c], r) \/ WillAnnounce(c, r)
      BY <1>0 DEF ToldOrToBe
    <2>3. WillAnnounce(c, r) => WillAnnounce(c, r)'
      BY <2>1 DEF WillAnnounce
    <2>4. r \in Proxies \/ r \in Relays
      BY DEF Concerns, Resources
    <2>5. CASE sessions[c] = s
      <3>1. clientID[s] = c
        BY <1>m, <2>5
      <3>2. /\ todo'[s] = actual \cap Concerns(c) \cap Of(k)
            /\ tracker'[s] = IF k = "proxy" THEN "sendProxies" ELSE "sendRelays"
        BY <1>0, <2>1, <3>1 DEF TypeOK, Listed
      <3>3. CASE r \in Of(k)
        BY <2>1, <2>5, <3>2, <3>3 DEF WillSend
      <3>4. CASE r \notin Of(k)
        <4>1. CASE k = "proxy"
          BY <2>1, <2>4, <2>5, <3>2, <3>4, <4>1 DEF WillList, Of
        <4>2. CASE k = "relay"
          <5>1. r \notin Relays
            BY <3>4, <4>2 DEF Of
          <5>2. ~WillList(s, r) /\ ~WillSend(s, r)
            BY <2>1, <4>2, <5>1 DEF WillList, WillSend
          <5> QED
            BY <2>1, <2>2, <2>3, <2>5, <5>2
        <4> QED
          BY <4>1, <4>2 DEF Kinds
      <3> QED
        BY <3>3, <3>4
    <2>6. CASE sessions[c] # s
      <3>1. tracker'[sessions[c]] = tracker[sessions[c]] /\ todo'[sessions[c]] = todo[sessions[c]]
        BY <1>0, <1>m, <2>1, <2>6 DEF TypeOK
      <3> QED
        BY <2>1, <2>2, <2>3, <3>1 DEF WillList, WillSend
    <2> QED
      BY <2>5, <2>6
  <1>8. ASSUME NEW s \in Sessions, NEW r0 \in Resources, SyncSend(s, r0) PROVE ToldOrToBe'
    <2>1. /\ UNCHANGED <<sessions, actual, worker, tracker>>
          /\ todo' = [todo EXCEPT ![s] = @ \ {r0}]
          /\ tracker[s] \in {"sendProxies", "sendRelays"}
          /\ SendToClient(clientID[s], "open", r0)
      BY <1>8 DEF SyncSend, TrackedID, resVars
    <2>2. clientID[s] \in Clients
      BY <1>0, <2>1 DEF IDsInPlace, Tracking, TypeOK
    <2>3. \A t \in Sessions : told[t] \subseteq told'[t]
      BY <1>0, <1>m, <2>1, <2>2 DEF SendToClient, TypeOK
    <2>4. sessions[clientID[s]] # None => r0 \in told'[sessions[clientID[s]]]
      BY <1>0, <1>m, <2>1, <2>2 DEF SendToClient, TypeOK
    <2> SUFFICES ASSUME NEW c \in Clients, sessions[c] # None,
                        NEW r \in actual \cap Concerns(c)
                 PROVE  \/ r \in told'[sessions'[c]] \/ WillList(sessions[c], r)'
                        \/ WillSend(sessions[c], r)' \/ WillAnnounce(c, r)'
      BY <2>1 DEF ToldOrToBe
    <2>5. \/ r \in told[sessions[c]] \/ WillList(sessions[c], r)
          \/ WillSend(sessions[c], r) \/ WillAnnounce(c, r)
      BY <1>0 DEF ToldOrToBe
    <2>6. r \in told[sessions[c]] => r \in told'[sessions'[c]]
      BY <1>m, <2>1, <2>3
    <2>7. WillList(sessions[c], r) => WillList(sessions[c], r)'
      BY <2>1 DEF WillList
    <2>8. WillAnnounce(c, r) => WillAnnounce(c, r)'
      BY <2>1 DEF WillAnnounce
    <2>9. WillSend(sessions[c], r) => WillSend(sessions[c], r)' \/ r \in told'[sessions'[c]]
      <3>1. CASE sessions[c] = s /\ r = r0
        BY <1>m, <2>1, <2>4, <3>1
      <3>2. CASE ~(sessions[c] = s /\ r = r0)
        <4>1. r \in todo[sessions[c]] => r \in todo'[sessions[c]]
          BY <1>0, <1>m, <2>1, <3>2 DEF TypeOK
        <4> QED
          BY <2>1, <4>1 DEF WillSend
      <3> QED
        BY <3>1, <3>2
    <2> QED
      BY <2>5, <2>6, <2>7, <2>8, <2>9
  <1>9. ASSUME NEW s \in Sessions, SyncNext(s) PROVE ToldOrToBe'
    <2>1. /\ UNCHANGED <<sessions, actual, told, worker, todo>>
          /\ todo[s] = {} /\ tracker[s] \in {"sendProxies", "sendRelays"}
          /\ tracker' = [tracker EXCEPT ![s] = IF @ = "sendProxies" THEN "relays" ELSE "block"]
      BY <1>9 DEF SyncNext, resVars
    <2> SUFFICES ASSUME NEW c \in Clients, sessions[c] # None,
                        NEW r \in actual \cap Concerns(c)
                 PROVE  \/ r \in told'[sessions'[c]] \/ WillList(sessions[c], r)'
                        \/ WillSend(sessions[c], r)' \/ WillAnnounce(c, r)'
      BY <2>1 DEF ToldOrToBe
    <2>2. \/ r \in told[sessions[c]] \/ WillList(sessions[c], r)
          \/ WillSend(sessions[c], r) \/ WillAnnounce(c, r)
      BY <1>0 DEF ToldOrToBe
    <2>3. WillAnnounce(c, r) => WillAnnounce(c, r)'
      BY <2>1 DEF WillAnnounce
    <2>4. CASE sessions[c] = s
      <3>1. tracker'[s] = IF tracker[s] = "sendProxies" THEN "relays" ELSE "block"
        BY <1>0, <2>1 DEF TypeOK
      <3>2. ~WillSend(s, r)
        BY <2>1 DEF WillSend
      <3>3. WillList(s, r) => WillList(sessions[c], r)'
        BY <2>1, <2>4, <3>1 DEF WillList
      <3> QED
        BY <2>1, <2>2, <2>3, <2>4, <3>2, <3>3
    <2>5. CASE sessions[c] # s
      <3>1. tracker'[sessions[c]] = tracker[sessions[c]]
        BY <1>0, <1>m, <2>1, <2>5 DEF TypeOK
      <3> QED
        BY <2>1, <2>2, <2>3, <3>1 DEF WillList, WillSend
    <2> QED
      BY <2>4, <2>5
  <1>10. ASSUME NEW s \in Sessions, TrackEnd(s) PROVE ToldOrToBe'
    <2>1. /\ UNCHANGED <<actual, told, worker, todo>>
          /\ sessions' = Removed(clientID[s])
          /\ tracker' = [tracker EXCEPT ![s] = "gone"]
      BY <1>10 DEF TrackEnd, TrackedID, resVars
    <2> SUFFICES ASSUME NEW c \in Clients, sessions'[c] # None,
                        NEW r \in actual \cap Concerns(c)
                 PROVE  \/ r \in told'[sessions'[c]] \/ WillList(sessions[c], r)'
                        \/ WillSend(sessions[c], r)' \/ WillAnnounce(c, r)'
      BY <2>1 DEF ToldOrToBe
    <2>2. sessions'[c] = sessions[c] /\ c # clientID[s]
      BY <1>0, <2>1 DEF Removed, TypeOK
    <2>3. sessions[c] # s
      BY <1>m, <2>2
    <2>4. tracker'[sessions[c]] = tracker[sessions[c]]
      BY <1>0, <1>m, <2>1, <2>2, <2>3 DEF TypeOK
    <2>5. \/ r \in told[sessions[c]] \/ WillList(sessions[c], r)
          \/ WillSend(sessions[c], r) \/ WillAnnounce(c, r)
      BY <1>0, <2>2 DEF ToldOrToBe
    <2>6. WillAnnounce(c, r) => WillAnnounce(c, r)'
      BY <2>1 DEF WillAnnounce
    <2> QED
      BY <2>1, <2>2, <2>4, <2>5, <2>6 DEF WillList, WillSend
  <1>11. ASSUME NEW k \in Kinds, WorkerApply(k) PROVE ToldOrToBe'
    <2>1. /\ UNCHANGED <<sessions, told, todo, tracker>>
          /\ worker[k].pc = "idle"
          /\ actual' = IF Head(rq[k]).type = "ADDED" THEN actual \cup {Head(rq[k]).res}
                       ELSE actual \ {Head(rq[k]).res}
          /\ worker' = [worker EXCEPT ![k] =
                          [pc |-> "handle", type |-> Head(rq[k]).type,
                           res |-> Head(rq[k]).res, to |-> <<>>]]
      BY <1>11 DEF WorkerApply, trackVars
    <2>2. /\ worker'[k].pc = "handle" /\ worker'[k].type = Head(rq[k]).type
          /\ worker'[k].res = Head(rq[k]).res
          /\ \A l \in Kinds : l # k => worker'[l] = worker[l]
      BY <1>0, <2>1 DEF TypeOK
    <2> SUFFICES ASSUME NEW c \in Clients, sessions[c] # None,
                        NEW r \in actual' \cap Concerns(c)
                 PROVE  \/ r \in told'[sessions'[c]] \/ WillList(sessions[c], r)'
                        \/ WillSend(sessions[c], r)' \/ WillAnnounce(c, r)'
      BY <2>1 DEF ToldOrToBe
    <2>3. CASE r \in actual
      <3>1. \/ r \in told[sessions[c]] \/ WillList(sessions[c], r)
            \/ WillSend(sessions[c], r) \/ WillAnnounce(c, r)
        BY <1>0, <2>3 DEF ToldOrToBe
      <3>2. WillAnnounce(c, r) => WillAnnounce(c, r)'
        BY <2>1, <2>2 DEF WillAnnounce
      <3> QED
        BY <2>1, <3>1, <3>2 DEF WillList, WillSend
    <2>4. CASE r \notin actual
      <3>1. Head(rq[k]).type = "ADDED" /\ r = Head(rq[k]).res
        BY <2>1, <2>4
      <3> QED
        BY <2>2, <3>1 DEF WillAnnounce
    <2> QED
      BY <2>3, <2>4
  <1>12. ASSUME NEW k \in Kinds, WorkerHandle(k) PROVE ToldOrToBe'
    <2>1. UNCHANGED <<sessions, told, todo, tracker, actual>> /\ worker[k].pc = "handle"
      BY <1>12 DEF WorkerHandle, trackVars
    <2>2. \A l \in Kinds : l # k => worker'[l] = worker[l]
      BY <1>0, <1>12 DEF WorkerHandle, TypeOK
    <2> SUFFICES ASSUME NEW c \in Clients, sessions[c] # None,
                        NEW r \in actual \cap Concerns(c)
                 PROVE  \/ r \in told'[sessions'[c]] \/ WillList(sessions[c], r)'
                        \/ WillSend(sessions[c], r)' \/ WillAnnounce(c, r)'
      BY <2>1 DEF ToldOrToBe
    <2>3. ~restoring
      BY <1>q
    <2>4. \/ r \in told[sessions[c]] \/ WillList(sessions[c], r)
          \/ WillSend(sessions[c], r) \/ WillAnnounce(c, r)
      BY <1>0 DEF ToldOrToBe
    <2>5. CASE worker[k].type = "ADDED" /\ worker[k].res = r
      <3>1. Announced(k)
        BY <2>3, <2>5 DEF Announced
      <3>2. worker' = [worker EXCEPT ![k] = Sending(worker[k], Parties[r])]
        BY <1>12, <2>5, <3>1 DEF WorkerHandle
      <3>3. worker'[k].pc = "send" /\ worker'[k].type = "ADDED"
            /\ worker'[k].res = r /\ worker'[k].to = Parties[r]
        BY <1>0, <2>5, <3>2 DEF Sending, TypeOK
      <3>4. \E i \in DOMAIN Parties[r] : Parties[r][i] = c
        BY DEF Concerns
      <3> QED
        BY <3>3, <3>4 DEF WillAnnounce
    <2>6. CASE ~(worker[k].type = "ADDED" /\ worker[k].res = r)
      <3>1. WillAnnounce(c, r) => WillAnnounce(c, r)'
        BY <2>2, <2>6 DEF WillAnnounce
      <3> QED
        BY <2>1, <2>4, <3>1 DEF WillList, WillSend
    <2> QED
      BY <2>5, <2>6
  <1>13. ASSUME NEW k \in Kinds, WorkerSend(k) PROVE ToldOrToBe'
    <2>1. UNCHANGED <<sessions, todo, tracker, actual>> /\ worker[k].pc = "send"
      BY <1>13 DEF WorkerSend, trackVars
    <2>2. \A l \in Kinds : l # k => worker'[l] = worker[l]
      BY <1>0, <1>13 DEF WorkerSend, TypeOK
    <2>3. /\ worker[k].to \in Seq(Clients) /\ worker[k].to # <<>>
          /\ worker[k].type = "DELETED" => worker[k].res \notin actual
          /\ worker[k].type \in {"ADDED", "DELETED"}
          /\ worker[k].res \in Resources
      BY <1>0, <2>1, KindFacts DEF WorkersInStep, TypeOK
    <2>4. Head(worker[k].to) \in Clients
      BY <2>3, HeadTailProperties
    <2> DEFINE h == Head(worker[k].to)
               m == IF worker[k].type = "ADDED" THEN "open" ELSE "closed"
    <2>5. SendToClient(h, m, worker[k].res)
      BY <1>13 DEF WorkerSend
    <2>6. \A t \in Sessions : told[t] \cap actual \subseteq told'[t]
      BY <1>0, <1>m, <2>3, <2>4, <2>5 DEF SendToClient, TypeOK
    <2>7. worker[k].type = "ADDED" /\ sessions[h] # None
            => worker[k].res \in told'[sessions[h]]
      BY <1>0, <1>m, <2>4, <2>5 DEF SendToClient, TypeOK
    <2> HIDE DEF h, m
    <2> SUFFICES ASSUME NEW c \in Clients, sessions[c] # None,
                        NEW r \in actual \cap Concerns(c)
                 PROVE  \/ r \in told'[sessions'[c]] \/ WillList(sessions[c], r)'
                        \/ WillSend(sessions[c], r)' \/ WillAnnounce(c, r)'
      BY <2>1 DEF ToldOrToBe
    <2>8. \/ r \in told[sessions[c]] \/ WillList(sessions[c], r)
          \/ WillSend(sessions[c], r) \/ WillAnnounce(c, r)
      BY <1>0 DEF ToldOrToBe
    <2>9. r \in told[sessions[c]] => r \in told'[sessions'[c]]
      BY <1>m, <2>1, <2>6
    <2>10. ASSUME WillAnnounce(c, r) PROVE WillAnnounce(c, r)' \/ r \in told'[sessions'[c]]
      <3>1. PICK l \in Kinds :
              /\ worker[l].type = "ADDED" /\ worker[l].res = r
              /\ \/ worker[l].pc = "handle"
                 \/ worker[l].pc = "send" /\ \E i \in DOMAIN worker[l].to : worker[l].to[i] = c
        BY <2>10 DEF WillAnnounce
      <3>2. CASE l # k
        BY <2>2, <3>1, <3>2 DEF WillAnnounce
      <3>3. CASE l = k
        <4>1. PICK i \in DOMAIN worker[k].to : worker[k].to[i] = c
          BY <2>1, <3>1, <3>3
        <4>2. CASE c = h
          BY <2>1, <2>7, <3>1, <3>3, <4>2
        <4>3. CASE c # h
          <5>1. \E j \in DOMAIN Tail(worker[k].to) : Tail(worker[k].to)[j] = c
            <6>1. \A j \in DOMAIN worker[k].to :
                    \/ worker[k].to[j] = Head(worker[k].to)
                    \/ \E n \in DOMAIN Tail(worker[k].to) :
                         Tail(worker[k].to)[n] = worker[k].to[j]
              BY <2>3, ChannelElements
            <6> QED
              BY <4>1, <4>3, <6>1 DEF h
          <5>2. Len(worker[k].to) # 1
            <6>1. Len(worker[k].to) \in Nat /\ DOMAIN worker[k].to = 1..Len(worker[k].to)
              BY <2>3, LenProperties
            <6>2. worker[k].to[1] = h
              BY <2>3, HeadTailProperties DEF h
            <6> QED
              BY <4>1, <4>3, <6>1, <6>2
          <5>3. worker' = [worker EXCEPT ![k] = Sending(worker[k], Tail(worker[k].to))]
            BY <1>13, <5>2 DEF WorkerSend
          <5>4. worker'[k].pc = "send" /\ worker'[k].type = "ADDED"
                /\ worker'[k].res = r /\ worker'[k].to = Tail(worker[k].to)
            BY <1>0, <3>1, <3>3, <5>3 DEF Sending, TypeOK
          <5> QED
            BY <5>1, <5>4 DEF WillAnnounce
        <4> QED
          BY <4>2, <4>3
      <3> QED
        BY <3>2, <3>3
    <2> QED
      BY <2>1, <2>8, <2>9, <2>10 DEF WillList, WillSend
  <1>14. ASSUME NEW k \in Kinds, NEW r \in Resources,
                Create(k, r) \/ Delete(k, r) \/ RestorePublish(k, r)
         PROVE  ToldOrToBe'
    <2>1. UNCHANGED <<sessions, actual, told, todo, worker, tracker>>
      BY <1>14, Zenon DEF Create, Delete, RestorePublish, trackVars
    <2> QED
      BY <1>1, <2>1
  <1>15. CASE ApplyClientEvent \/ RestoreEnd \/ UNCHANGED vars
    <2>1. UNCHANGED <<sessions, actual, told, todo, worker, tracker>>
      BY <1>15, Zenon DEF ApplyClientEvent, RestoreEnd, vars, resVars, trackVars
    <2> QED
      BY <1>1, <2>1
  <1>16. CASE RestoreSnapshot
    <2>1. restoring /\ UNCHANGED sessions
      BY <1>16 DEF RestoreSnapshot, restoring, trackVars
    <2> QED
      BY <1>q, <2>1 DEF ToldOrToBe
  <1> QED
    BY <1>3, <1>4, <1>6, <1>7, <1>8, <1>9, <1>10, <1>11, <1>12, <1>13, <1>14, <1>15,
       <1>16, Zenon DEF Next, Reader, Tracker, Worker

(* A client event that enters the channel decides what becomes of the      *)
(* record of its client, and nothing else.                                 *)
LEMMA PublishSays ==
  ASSUME TypeOK, NEW c \in Clients, NEW type \in {"ADDED", "DELETED"},
         PublishClient(type, c), ~lost', UNCHANGED clients
  PROVE  /\ ~lost /\ LastSays(c, type)'
         /\ \A d \in Clients : d # c => /\ WillHave(d) => WillHave(d)'
                                        /\ WillForget(d) => WillForget(d)'
  <1> DEFINE e == [type |-> type, client |-> c]
             n == Len(cq)
  <1>1. cq' = Append(cq, e) /\ UNCHANGED lost
    BY DEF PublishClient
  <1>2. /\ cq \in Seq(ClientEvents) /\ e \in ClientEvents /\ n \in Nat /\ DOMAIN cq = 1..n
        /\ e.type = type /\ e.client = c
    BY LenProperties DEF TypeOK, ClientEvents
  <1> HIDE DEF e
  <1>3. /\ cq' \in Seq(ClientEvents) /\ Len(cq') = n + 1
        /\ \A i \in 1..n : cq'[i] = cq[i]
        /\ cq'[n + 1] = e
    BY <1>1, <1>2, AppendProperties
  <1>4. DOMAIN cq' = 1..(n + 1)
    BY <1>3, LenProperties
  <1> HIDE DEF n
  <1>5. LastSays(c, type)'
    <2>1. n + 1 \in DOMAIN cq' /\ \A j \in DOMAIN cq' : j <= n + 1
      BY <1>2, <1>4
    <2> QED
      BY <1>2, <1>3, <2>1 DEF LastSays
  <1>6. ASSUME NEW d \in Clients, d # c
        PROVE  /\ SilentOn(d) => SilentOn(d)'
               /\ \A x : LastSays(d, x) => LastSays(d, x)'
    <2>1. \A j \in DOMAIN cq' : cq'[j].client = d => j \in DOMAIN cq /\ cq'[j] = cq[j]
      <3> SUFFICES ASSUME NEW j \in 1..(n + 1), cq'[j].client = d
                   PROVE  j \in DOMAIN cq /\ cq'[j] = cq[j]
        BY <1>4
      <3>1. j \in 1..n \/ j = n + 1
        BY <1>2
      <3> QED
        BY <1>2, <1>3, <1>6, <3>1
    <2>2. \A j \in DOMAIN cq : j \in DOMAIN cq' /\ cq'[j] = cq[j]
      BY <1>2, <1>3, <1>4
    <2>3. SilentOn(d) => SilentOn(d)'
      BY <2>1 DEF SilentOn
    <2>4. \A x : LastSays(d, x) => LastSays(d, x)'
      BY <2>1, <2>2 DEF LastSays
    <2> QED
      BY <2>3, <2>4
  <1>7. \A d \in Clients : d # c => /\ WillHave(d) => WillHave(d)'
                                    /\ WillForget(d) => WillForget(d)'
    BY <1>6 DEF WillHave, WillForget
  <1> QED
    BY <1>1, <1>5, <1>7

(* Applying the first client event changes nothing of what the records     *)
(* will be once all are applied.                                           *)
LEMMA ApplySays ==
  ASSUME TypeOK, ApplyClientEvent
  PROVE  \A d \in Clients : /\ WillHave(d) => WillHave(d)'
                            /\ WillForget(d) => WillForget(d)'
  <1> DEFINE n == Len(cq)
  <1>1. /\ cq \in Seq(ClientEvents) /\ cq # <<>> /\ cq' = Tail(cq)
        /\ clients' = IF Head(cq).type = "ADDED" THEN clients \cup {Head(cq).client}
                      ELSE clients \ {Head(cq).client}
    BY DEF ApplyClientEvent, RecordsAfterDeleted, TypeOK
  <1>2. n \in Nat \ {0} /\ DOMAIN cq = 1..n /\ Head(cq) = cq[1]
    BY <1>1, EmptySeq, LenProperties
  <1>3. /\ cq' \in Seq(ClientEvents) /\ Len(cq') = n - 1
        /\ \A i \in 1..(n - 1) : cq'[i] = cq[i + 1]
    BY <1>1, HeadTailProperties
  <1>4. DOMAIN cq' = 1..(n - 1)
    BY <1>3, LenProperties
  <1> HIDE DEF n
  <1>5. ASSUME NEW d \in Clients
        PROVE  /\ WillHave(d) => WillHave(d)'
               /\ WillForget(d) => WillForget(d)'
    <2>1. \A j \in DOMAIN cq' : j + 1 \in DOMAIN cq /\ cq'[j] = cq[j + 1]
      BY <1>2, <1>3, <1>4
    <2>2. \A j \in DOMAIN cq : j = 1 \/ (j - 1 \in DOMAIN cq' /\ cq'[j - 1] = cq[j])
      <3> SUFFICES ASSUME NEW j \in 1..n, j # 1
                   PROVE  j - 1 \in DOMAIN cq' /\ cq'[j - 1] = cq[j]
        BY <1>2
      <3>1. j - 1 \in 1..(n - 1) /\ (j - 1) + 1 = j
        BY <1>2
      <3> QED
        BY <1>3, <1>4, <3>1
    <2>3. SilentOn(d) => SilentOn(d)' /\ (d \in clients <=> d \in clients')
      <3> SUFFICES ASSUME SilentOn(d) PROVE SilentOn(d)' /\ (d \in clients <=> d \in clients')
        OBVIOUS
      <3>1. SilentOn(d)'
        BY <2>1 DEF SilentOn
      <3>2. Head(cq).client # d
        BY <1>2 DEF SilentOn
      <3> QED
        BY <1>1, <3>1, <3>2
    <2>4. ASSUME NEW x \in {"ADDED", "DELETED"}, LastSays(d, x)
          PROVE  \/ LastSays(d, x)'
                 \/ SilentOn(d)' /\ Head(cq).client = d /\ Head(cq).type = x
      <3>1. PICK i \in DOMAIN cq : /\ cq[i].client = d /\ cq[i].type = x
                                   /\ \A j \in DOMAIN cq : cq[j].client = d => j <= i
        BY <2>4 DEF LastSays
      <3>2. CASE i = 1
        <4>1. SilentOn(d)'
          <5> SUFFICES ASSUME NEW j \in DOMAIN cq', cq'[j].client = d PROVE FALSE
            BY DEF SilentOn
          <5>1. j + 1 <= 1
            BY <2>1, <3>1, <3>2
          <5> QED
            BY <1>2, <1>4, <5>1
        <4> QED
          BY <1>2, <3>1, <3>2, <4>1
      <3>3. CASE i # 1
        <4>1. i - 1 \in DOMAIN cq' /\ cq'[i - 1] = cq[i]
          BY <2>2, <3>3
        <4>2. ASSUME NEW j \in DOMAIN cq', cq'[j].client = d PROVE j <= i - 1
          <5>1. j + 1 <= i /\ j \in Int /\ i \in Int
            BY <1>2, <1>4, <2>1, <3>1, <4>2
          <5> QED
            BY <5>1
        <4> QED
          BY <3>1, <4>1, <4>2 DEF LastSays
      <3> QED
        BY <3>2, <3>3
    <2>5. WillHave(d) => WillHave(d)'
      <3>1. CASE LastSays(d, "ADDED")
        BY <1>1, <2>4, <3>1 DEF WillHave
      <3>2. CASE SilentOn(d) /\ d \in clients
        BY <2>3, <3>2 DEF WillHave
      <3> QED
        BY <3>1, <3>2 DEF WillHave
    <2>6. WillForget(d) => WillForget(d)'
      <3>1. CASE LastSays(d, "DELETED")
        BY <1>1, <2>4, <3>1 DEF WillForget
      <3>2. CASE SilentOn(d) /\ d \notin clients
        BY <2>3, <3>2 DEF WillForget
      <3> QED
        BY <3>1, <3>2 DEF WillForget
    <2> QED
      BY <2>5, <2>6
  <1> QED
    BY <1>5

(* A session that acts has another ID than one that is alone.              *)
LEMMA AloneApart ==
  ASSUME SessionInv, NEW u \in alone, NEW s \in Sessions, u # s, ~Ended(u),
         reader[s] # "none", ~Ended(s), clientID[u] # None
  PROVE  clientID[s] # clientID[u]
  <1>1. u \in Sessions /\ SessionsInStep /\ AloneIsReachable
    BY DEF SessionInv, TypeOK
  <1>2. Names(u) \cap Names(s) = {}
    BY <1>1 DEF AloneIsReachable
  <1>3. clientID[u] \in Names(u)
    BY <1>1 DEF SessionsInStep
  <1>4. clientID[s] # None => clientID[s] \in Names(s)
    BY <1>1 DEF SessionsInStep
  <1> QED
    BY <1>2, <1>3, <1>4

RecordParts == SessionsInStep /\ AloneIsReachable /\ RecordsAccounted

(* Steps of others than the reader and the tracker's beginning and end.    *)
LEMMA RecordsKeptBy ==
  ASSUME SessionInv,
         UNCHANGED <<reader, clientID, registered, done, late, alone, sessions,
                     clients, cq, lost>>,
         \A s \in Sessions : \/ tracker'[s] = tracker[s]
                             \/ tracker[s] \in Tracking /\ tracker'[s] \in Tracking
  PROVE  RecordParts'
  <1>0. /\ SessionsInStep /\ AloneIsReachable /\ RecordsAccounted
        /\ alone \subseteq Sessions
    BY DEF SessionInv, TypeOK
  <1>1. \A s \in Sessions : Ended(s)' <=> Ended(s)
    BY DEF Ended, Tracking
  <1>2. \A c : (WillHave(c)' <=> WillHave(c)) /\ (WillForget(c)' <=> WillForget(c))
    BY DEF WillHave, WillForget, LastSays, SilentOn
  <1>3. SessionsInStep'
    BY <1>0 DEF SessionsInStep, Names
  <1>4. AloneIsReachable'
    BY <1>0, <1>1, <1>2 DEF AloneIsReachable, Names
  <1>5. RecordsAccounted'
    BY <1>0, <1>2 DEF RecordsAccounted, KeepsRecord
  <1> QED
    BY <1>3, <1>4, <1>5 DEF RecordParts

(* What Close says of the records: the DELETED event of a session that was *)
(* not closed before takes away what it kept.                              *)
LEMMA CloseSays ==
  ASSUME SessionInv, NEW s \in Sessions, Close(s), reader[s] # "none", ~Ended(s),
         ~lost', UNCHANGED <<clients, clientID, registered, late>>
  PROVE  /\ ~lost
         /\ s \notin done /\ clientID[s] # None => WillForget(clientID[s])'
         /\ \A c \in Clients : c # clientID[s] \/ s \in done =>
               (WillHave(c) => WillHave(c)') /\ (WillForget(c) => WillForget(c)')
  <1>0. TypeOK
    BY DEF SessionInv
  <1>1. CASE s \notin done /\ clientID[s] # None
    <2>1. PublishClient("DELETED", clientID[s]) /\ clientID[s] \in Clients
      BY <1>0, <1>1 DEF Close, TypeOK
    <2> QED
      BY <1>0, <1>1, <2>1, PublishSays DEF WillForget
  <1>2. CASE ~(s \notin done /\ clientID[s] # None)
    <2>1. UNCHANGED <<cq, lost>>
      BY <1>2 DEF Close
    <2>2. \A c : (WillHave(c)' <=> WillHave(c)) /\ (WillForget(c)' <=> WillForget(c))
      BY <2>1 DEF WillHave, WillForget, LastSays, SilentOn
    <2> QED
      BY <1>2, <2>1, <2>2
  <1> QED
    BY <1>1, <1>2

(* Steps that leave the channel and the records alone.                     *)
LEMMA SaysKept ==
  ASSUME UNCHANGED <<cq, clients>>
  PROVE  \A c : (WillHave(c)' <=> WillHave(c)) /\ (WillForget(c)' <=> WillForget(c))
  BY DEF WillHave, WillForget, LastSays, SilentOn

(* Open: the session is alone only if no session of its client acts, and   *)
(* those it overlaps are alone no more.                                    *)
LEMMA RecordsOpen ==
  ASSUME SessionInv, NEW s \in Sessions, Open(s) PROVE RecordParts'
  <1>0. /\ TypeOK /\ IDsInPlace /\ SessionsInStep /\ AloneIsReachable /\ RecordsAccounted
        /\ alone \subseteq Sessions
    BY DEF SessionInv, TypeOK
  <1>1. /\ reader[s] = "none"
        /\ reader' = [reader EXCEPT ![s] = "read"]
        /\ clientID' = [clientID EXCEPT ![s] = Cert[s]]
        /\ tracker' = [tracker EXCEPT ![s] = "wait"]
        /\ UNCHANGED <<registered, late, done, sessions, clients, cq, lost>>
    BY DEF Open
  <1>2. clientID[s] = None /\ s \notin registered /\ s \notin done /\ s \notin alone
    BY <1>0, <1>1 DEF SessionsInStep
  <1>3. /\ reader'[s] = "read" /\ clientID'[s] = Cert[s] /\ tracker'[s] = "wait"
        /\ \A t \in Sessions : t # s => /\ reader'[t] = reader[t]
                                        /\ clientID'[t] = clientID[t]
                                        /\ tracker'[t] = tracker[t]
    BY <1>0, <1>1 DEF TypeOK
  <1>4. ~Ended(s)' /\ \A t \in Sessions : t # s => (Ended(t)' <=> Ended(t))
    BY <1>3 DEF Ended
  <1>5. \A c : (WillHave(c)' <=> WillHave(c)) /\ (WillForget(c)' <=> WillForget(c))
    BY <1>1, SaysKept
  <1>6. SessionsInStep'
    <2> SUFFICES ASSUME NEW t \in Sessions
                 PROVE  /\ clientID'[t] # None => clientID'[t] \in Names(t)
                        /\ reader'[t] = "none" =>
                             clientID'[t] = None /\ t \notin registered' \cup done' \cup alone'
                        /\ reader'[t] = "gone" => t \in done'
                        /\ t \in registered' => clientID'[t] # None
                        /\ tracker'[t] \in Tracking => clientID'[t] # None
      BY DEF SessionsInStep, Names
    <2>1. CASE t = s
      BY <1>1, <1>2, <1>3, <2>1 DEF Names, Tracking
    <2>2. CASE t # s
      <3>1. t \in alone' => t \in alone
        BY <2>2 DEF Open
      <3> QED
        BY <1>0, <1>1, <1>3, <2>2, <3>1 DEF SessionsInStep
    <2> QED
      BY <2>1, <2>2
  <1>7. \A u \in alone' : u # s => u \in alone /\ (Ended(u) \/ Names(s) \cap Names(u) = {})
    <2> SUFFICES ASSUME NEW u \in alone', u # s
                 PROVE  u \in alone /\ (Ended(u) \/ Names(s) \cap Names(u) = {})
      OBVIOUS
    <2>1. PICK over : /\ over = {t \in Sessions \ {s} : /\ reader[t] # "none" /\ ~Ended(t)
                                                        /\ Names(s) \cap Names(t) # {}}
                      /\ alone' = IF over = {} THEN alone \cup {s} ELSE alone \ over
      BY DEF Open
    <2>2. u \in alone /\ u \notin over
      BY <2>1
    <2>3. u \in Sessions /\ reader[u] # "none"
      BY <1>0, <2>2 DEF SessionsInStep
    <2> QED
      BY <2>1, <2>2, <2>3
  <1>8. s \in alone' => \A t \in Sessions \ {s} :
           reader[t] = "none" \/ Ended(t) \/ Names(s) \cap Names(t) = {}
    BY <1>2 DEF Open
  <1>9. AloneIsReachable'
    <2> SUFFICES ASSUME NEW u \in alone'
          PROVE  /\ ~Ended(u)' => \A t \in Sessions \ {u} :
                      reader'[t] = "none" \/ Ended(t)' \/ Names(u) \cap Names(t) = {}
                 /\ tracker'[u] \in Tracking => sessions'[clientID'[u]] = u
                 /\ ~lost' /\ u \notin done' /\ (u \in registered' \/ reader'[u] = "conn")
                      => WillHave(clientID[u])'
      BY DEF AloneIsReachable, Names
    <2>1. CASE u = s
      BY <1>2, <1>1, <1>3, <1>4, <1>8, <2>1 DEF Tracking
    <2>2. CASE u # s
      <3>1. u \in alone /\ u \in Sessions /\ (Ended(u) \/ Names(s) \cap Names(u) = {})
        BY <1>0, <1>7, <2>2
      <3>2. ASSUME ~Ended(u)', NEW t \in Sessions \ {u}
            PROVE  reader'[t] = "none" \/ Ended(t)' \/ Names(u) \cap Names(t) = {}
        <4>1. CASE t = s
          BY <1>4, <2>2, <3>1, <3>2, <4>1
        <4>2. CASE t # s
          BY <1>0, <1>3, <1>4, <2>2, <3>1, <3>2, <4>2 DEF AloneIsReachable
        <4> QED
          BY <4>1, <4>2
      <3>3. tracker'[u] \in Tracking => sessions'[clientID'[u]] = u
        BY <1>0, <1>1, <1>3, <2>2, <3>1 DEF AloneIsReachable
      <3>4. ~lost' /\ u \notin done' /\ (u \in registered' \/ reader'[u] = "conn")
              => WillHave(clientID[u])'
        <4>1. clientID'[u] = clientID[u]
          BY <1>3, <2>2, <3>1
        <4>2. ~lost' /\ u \notin done' /\ (u \in registered' \/ reader'[u] = "conn")
                => WillHave(clientID[u])
          BY <1>0, <1>1, <1>3, <2>2, <3>1 DEF AloneIsReachable
        <4> QED
          BY <1>1, <4>1, <4>2 DEF WillHave, LastSays, SilentOn
      <3> QED
        BY <3>2, <3>3, <3>4
    <2> QED
      BY <2>1, <2>2
  <1>10. RecordsAccounted'
    <2>1. \A t \in Sessions, c \in Clients : KeepsRecord(t, c) => KeepsRecord(t, c)'
      BY <1>1, <1>2, <1>3 DEF KeepsRecord
    <2> QED
      BY <1>0, <1>1, <1>5, <2>1 DEF RecordsAccounted
  <1> QED
    BY <1>6, <1>9, <1>10 DEF RecordParts

(* What a step of a session s that acts has to show: the others are as     *)
(* they were, so only s, the map and the records are left.                 *)
LEMMA RecordsStep ==
  ASSUME SessionInv, NEW s \in Sessions, reader[s] # "none", ~Ended(s), UNCHANGED alone,
         \A t \in Sessions : t # s =>
            /\ reader'[t] = reader[t] /\ clientID'[t] = clientID[t]
            /\ tracker'[t] = tracker[t] /\ (t \in registered' <=> t \in registered)
            /\ (t \in done' <=> t \in done),
         clientID'[s] # None => clientID'[s] \in Names(s),
         reader'[s] # "none", reader'[s] = "gone" => s \in done',
         s \in registered' \/ tracker'[s] \in Tracking => clientID'[s] # None,
         \A u \in alone : tracker'[u] \in Tracking => sessions'[clientID'[u]] = u,
         \A u \in alone : ~lost' /\ u \notin done' /\ (u \in registered' \/ reader'[u] = "conn")
                            => WillHave(clientID[u])',
         RecordsAccounted'
  PROVE  RecordParts'
  <1>0. /\ SessionsInStep /\ AloneIsReachable /\ alone \subseteq Sessions
    BY DEF SessionInv, TypeOK
  <1>1. SessionsInStep'
    <2> SUFFICES ASSUME NEW t \in Sessions
                 PROVE  /\ clientID'[t] # None => clientID'[t] \in Names(t)
                        /\ reader'[t] = "none" =>
                             clientID'[t] = None /\ t \notin registered' \cup done' \cup alone'
                        /\ reader'[t] = "gone" => t \in done'
                        /\ t \in registered' => clientID'[t] # None
                        /\ tracker'[t] \in Tracking => clientID'[t] # None
      BY DEF SessionsInStep, Names
    <2>1. CASE t = s
      BY <2>1
    <2>2. CASE t # s
      BY <1>0, <2>2 DEF SessionsInStep
    <2> QED
      BY <2>1, <2>2
  <1>2. \A t \in Sessions : (Ended(t) => Ended(t)') /\ (t # s => (Ended(t)' <=> Ended(t)))
    BY DEF Ended
  <1>3. ASSUME NEW u \in alone, ~Ended(u)', NEW t \in Sessions \ {u}
        PROVE  reader'[t] = "none" \/ Ended(t)' \/ Names(u) \cap Names(t) = {}
    <2>1. ~Ended(u) /\ u \in Sessions
      BY <1>0, <1>2, <1>3
    <2>2. reader[t] = "none" \/ Ended(t) \/ Names(u) \cap Names(t) = {}
      BY <1>0, <1>3, <2>1 DEF AloneIsReachable
    <2>3. CASE t = s
      BY <2>2, <2>3
    <2>4. CASE t # s
      BY <1>2, <2>2, <2>4
    <2> QED
      BY <2>3, <2>4
  <1>4. AloneIsReachable'
    <2> SUFFICES ASSUME NEW u \in alone
          PROVE  /\ ~Ended(u)' => \A t \in Sessions \ {u} :
                      reader'[t] = "none" \/ Ended(t)' \/ Names(u) \cap Names(t) = {}
                 /\ tracker'[u] \in Tracking => sessions'[clientID'[u]] = u
                 /\ ~lost' /\ u \notin done' /\ (u \in registered' \/ reader'[u] = "conn")
                      => WillHave(clientID[u])'
      BY DEF AloneIsReachable, Names
    <2> QED
      BY <1>3
  <1> QED
    BY <1>1, <1>4 DEF RecordParts

(* What the invariant says of a session that is alone.                     *)
LEMMA AloneFacts ==
  ASSUME SessionInv, NEW u \in alone
  PROVE  /\ u \in Sessions
         /\ u \notin done \/ tracker[u] \in Tracking => ~Ended(u)
         /\ tracker[u] \in Tracking => clientID[u] # None /\ sessions[clientID[u]] = u
         /\ u \in registered \/ reader[u] = "conn" => clientID[u] # None
         /\ ~lost /\ u \notin done /\ (u \in registered \/ reader[u] = "conn")
              => WillHave(clientID[u])
  <1>1. u \in Sessions /\ IDsInPlace /\ SessionsInStep /\ AloneIsReachable
    BY DEF SessionInv, TypeOK
  <1>2. u \notin done \/ tracker[u] \in Tracking => ~Ended(u)
    BY <1>1 DEF SessionsInStep, Ended, Tracking
  <1> QED
    BY <1>1, <1>2 DEF SessionsInStep, AloneIsReachable, IDsInPlace

(* handleRegister and handleTempRegister: no session in the map changes    *)
(* its ID.                                                                 *)
LEMMA RecordsHandle ==
  ASSUME SessionInv, NEW s \in Sessions, HandleRegister(s) \/ HandleTempRegister(s)
  PROVE  RecordParts'
  <1>0. /\ TypeOK /\ IDsInPlace /\ SessionsInStep /\ RecordsAccounted
    BY DEF SessionInv
  <1>1. /\ reader[s] = "read" /\ s \notin registered /\ clientID[s] \in {None, Who[s]}
        /\ clientID' = [clientID EXCEPT ![s] = Who[s]]
        /\ reader' = [reader EXCEPT ![s] = "publish"]
        /\ UNCHANGED <<registered, late, done, tracker, sessions, clients, cq, lost, alone>>
    BY <1>0 DEF HandleRegister, HandleTempRegister, IDsInPlace, trackVars
  <1>2. /\ reader'[s] = "publish" /\ clientID'[s] = Who[s] /\ Who[s] # None
        /\ \A t \in Sessions : t # s => reader'[t] = reader[t] /\ clientID'[t] = clientID[t]
    BY <1>0, <1>1, SessionAssumption DEF TypeOK
  <1>3. \A c : (WillHave(c)' <=> WillHave(c)) /\ (WillForget(c)' <=> WillForget(c))
    BY <1>1, SaysKept
  <1>4. ASSUME NEW u \in alone, tracker'[u] \in Tracking PROVE sessions'[clientID'[u]] = u
    <2>1. clientID[u] # None /\ sessions[clientID[u]] = u /\ u \in Sessions
      BY <1>1, <1>4, AloneFacts
    <2> QED
      BY <1>1, <1>2, <2>1
  <1>5. ASSUME NEW u \in alone, ~lost', u \notin done', u \in registered' \/ reader'[u] = "conn"
        PROVE  WillHave(clientID[u])'
    <2>1. u # s /\ WillHave(clientID[u]) /\ u \in Sessions
      BY <1>1, <1>2, <1>5, AloneFacts
    <2>2. clientID'[u] = clientID[u]
      BY <1>2, <2>1
    <2> QED
      BY <1>1, <2>1, <2>2 DEF WillHave, LastSays, SilentOn
  <1>6. RecordsAccounted'
    <2>1. \A t \in Sessions, c \in Clients : KeepsRecord(t, c) => KeepsRecord(t, c)'
      BY <1>1, <1>2 DEF KeepsRecord
    <2> QED
      BY <1>0, <1>1, <1>3, <2>1 DEF RecordsAccounted
  <1>7. Who[s] \in Names(s)
    BY <1>2 DEF Names
  <1>8. reader[s] # "none" /\ ~Ended(s)
    BY <1>1 DEF Ended
  <1> QED
    BY <1>1, <1>2, <1>4, <1>5, <1>6, <1>7, <1>8, RecordsStep

(* The ADDED event makes the session a keeper of the record.               *)
LEMMA RecordsPublish ==
  ASSUME SessionInv, NEW s \in Sessions, RegisterPublish(s) PROVE RecordParts'
  <1>0. /\ TypeOK /\ IDsInPlace /\ SessionsInStep /\ RecordsAccounted
    BY DEF SessionInv
  <1>1. /\ reader[s] = "publish" /\ PublishClient("ADDED", clientID[s])
        /\ reader' = [reader EXCEPT ![s] = "conn"]
        /\ UNCHANGED <<clientID, registered, late, done, tracker, sessions, clients, alone>>
    BY DEF RegisterPublish, trackVars
  <1>2. /\ reader'[s] = "conn" /\ clientID[s] # None /\ clientID[s] \in Clients
        /\ \A t \in Sessions : t # s => reader'[t] = reader[t]
    BY <1>0, <1>1 DEF TypeOK, IDsInPlace
  <1>3. ~lost' => /\ ~lost /\ WillHave(clientID[s])'
                  /\ \A c \in Clients : WillHave(c) /\ c # clientID[s] => WillHave(c)'
                  /\ \A c \in Clients : WillForget(c) /\ c # clientID[s] => WillForget(c)'
    BY <1>0, <1>1, <1>2, PublishSays DEF WillHave
  <1>4. ASSUME NEW u \in alone, tracker'[u] \in Tracking PROVE sessions'[clientID'[u]] = u
    BY <1>1, <1>4, AloneFacts
  <1>5. ASSUME NEW u \in alone, ~lost', u \notin done', u \in registered' \/ reader'[u] = "conn"
        PROVE  WillHave(clientID[u])'
    <2>1. CASE u = s
      BY <1>3, <1>5, <2>1
    <2>2. CASE u # s
      <3>1. /\ WillHave(clientID[u]) /\ u \in Sessions /\ ~Ended(u) /\ clientID[u] # None
        BY <1>1, <1>2, <1>3, <1>5, <2>2, AloneFacts
      <3>2. reader[s] # "none" /\ ~Ended(s)
        BY <1>1 DEF Ended
      <3>3. clientID[s] # clientID[u] /\ clientID[u] \in Clients
        BY <1>0, <2>2, <3>1, <3>2, AloneApart DEF TypeOK
      <3>4. \A c \in Clients : WillHave(c) /\ c # clientID[s] => WillHave(c)'
        BY <1>3, <1>5
      <3>5. PICK c \in Clients : c = clientID[u]
        BY <3>3
      <3>6. WillHave(c)' /\ c = clientID'[u]
        BY <1>1, <3>1, <3>3, <3>4, <3>5
      <3> QED
        BY <3>6 DEF WillHave, LastSays, SilentOn
    <2> QED
      BY <2>1, <2>2
  <1>6. RecordsAccounted'
    <2> SUFFICES ASSUME ~lost', NEW c \in Clients
                 PROVE  WillForget(c)' \/ \E t \in Sessions : KeepsRecord(t, c)'
      BY DEF RecordsAccounted
    <2>1. CASE c = clientID[s]
      BY <1>1, <1>2, <2>1 DEF KeepsRecord
    <2>2. CASE c # clientID[s]
      <3>1. CASE WillForget(c)
        BY <1>3, <2>2, <3>1
      <3>2. CASE \E t \in Sessions : KeepsRecord(t, c)
        <4>1. \A t \in Sessions : KeepsRecord(t, c) => KeepsRecord(t, c)'
          BY <1>1, <1>2 DEF KeepsRecord
        <4> QED
          BY <3>2, <4>1
      <3> QED
        BY <1>0, <1>3, <3>1, <3>2 DEF RecordsAccounted
    <2> QED
      BY <2>1, <2>2
  <1>7. reader[s] # "none" /\ ~Ended(s) /\ clientID[s] \in Names(s)
    BY <1>0, <1>1, <1>2 DEF Ended, SessionsInStep
  <1> QED
    BY <1>0, <1>1, <1>2, <1>4, <1>5, <1>6, <1>7, RecordsStep

(* SetClientConn makes the record if there is none; the session keeps it   *)
(* until its Close, or for ever if it was closed before.                   *)
LEMMA RecordsRegisterEnd ==
  ASSUME SessionInv, NEW s \in Sessions, RegisterEnd(s) PROVE RecordParts'
  <1>0. /\ TypeOK /\ IDsInPlace /\ SessionsInStep /\ RecordsAccounted
    BY DEF SessionInv
  <1>1. /\ reader[s] = "conn"
        /\ clients' = clients \cup {clientID[s]}
        /\ registered' = registered \cup {s}
        /\ reader' = [reader EXCEPT ![s] = "read"]
        /\ late' = IF s \in done THEN late \cup {s} ELSE late
        /\ UNCHANGED <<clientID, done, tracker, sessions, cq, lost, alone>>
    BY DEF RegisterEnd, trackVars
  <1>2. /\ reader'[s] = "read" /\ clientID[s] # None
        /\ \A t \in Sessions : t # s => reader'[t] = reader[t]
    BY <1>0, <1>1 DEF TypeOK, IDsInPlace
  <1>3. \A c : /\ WillHave(c) => WillHave(c)'
               /\ c # clientID[s] => (WillForget(c) => WillForget(c)')
    BY <1>1 DEF WillHave, WillForget, LastSays, SilentOn
  <1>4. ASSUME NEW u \in alone, tracker'[u] \in Tracking PROVE sessions'[clientID'[u]] = u
    BY <1>1, <1>4, AloneFacts
  <1>5. ASSUME NEW u \in alone, ~lost', u \notin done', u \in registered' \/ reader'[u] = "conn"
        PROVE  WillHave(clientID[u])'
    <2>1. WillHave(clientID[u])
      BY <1>1, <1>2, <1>5, AloneFacts
    <2> QED
      BY <1>1, <2>1 DEF WillHave, LastSays, SilentOn
  <1>6. RecordsAccounted'
    <2> SUFFICES ASSUME ~lost', NEW c \in Clients
                 PROVE  WillForget(c)' \/ \E t \in Sessions : KeepsRecord(t, c)'
      BY DEF RecordsAccounted
    <2>1. CASE c = clientID[s]
      BY <1>1, <1>2, <2>1 DEF KeepsRecord
    <2>2. CASE c # clientID[s]
      <3>1. \A t \in Sessions : KeepsRecord(t, c) => KeepsRecord(t, c)'
        BY <1>1, <1>2, <2>2 DEF KeepsRecord
      <3> QED
        BY <1>0, <1>1, <1>3, <2>2, <3>1 DEF RecordsAccounted
    <2> QED
      BY <2>1, <2>2
  <1>7. reader[s] # "none" /\ ~Ended(s) /\ clientID[s] \in Names(s)
    BY <1>0, <1>1, <1>2 DEF Ended, SessionsInStep
  <1> QED
    BY <1>0, <1>1, <1>2, <1>4, <1>5, <1>6, <1>7, RecordsStep

(* Close, by the reader or the tracker: the DELETED event takes away what  *)
(* the session kept and touches no client of a session that is alone.      *)
LEMMA RecordsClose ==
  ASSUME SessionInv, NEW s \in Sessions, ReadFails(s) \/ TrackClose(s) PROVE RecordParts'
  <1>0. /\ TypeOK /\ IDsInPlace /\ SessionsInStep /\ RecordsAccounted
    BY DEF SessionInv
  <1>1. /\ Close(s) /\ done' = done \cup {s}
        /\ UNCHANGED <<clientID, registered, late, sessions, clients, alone>>
    BY DEF ReadFails, TrackClose, Close, readVars, trackVars
  <1>2. /\ reader[s] # "none" /\ ~Ended(s)
        /\ reader'[s] \in {reader[s], "gone"} /\ tracker'[s] \in {tracker[s], "gone"}
        /\ reader'[s] = "conn" <=> reader[s] = "conn"
        /\ \A t \in Sessions : t # s => reader'[t] = reader[t] /\ tracker'[t] = tracker[t]
    <2>1. CASE ReadFails(s)
      BY <1>0, <2>1 DEF ReadFails, TypeOK, Ended, trackVars
    <2>2. CASE TrackClose(s)
      BY <1>0, <2>2 DEF TrackClose, TypeOK, Ended, IDsInPlace, readVars
    <2> QED
      BY <2>1, <2>2
  <1>3. ~lost' =>
          /\ ~lost
          /\ s \notin done /\ clientID[s] # None => WillForget(clientID[s])'
          /\ \A c \in Clients : c # clientID[s] \/ s \in done =>
               (WillHave(c) => WillHave(c)') /\ (WillForget(c) => WillForget(c)')
    BY <1>1, <1>2, CloseSays
  <1>4. ASSUME NEW u \in alone, tracker'[u] \in Tracking PROVE sessions'[clientID'[u]] = u
    <2>1. u \in Sessions
      BY AloneFacts
    <2>2. tracker[u] \in Tracking
      BY <1>2, <1>4, <2>1 DEF Tracking
    <2> QED
      BY <1>1, <2>2, AloneFacts
  <1>5. ASSUME NEW u \in alone, ~lost', u \notin done', u \in registered' \/ reader'[u] = "conn"
        PROVE  WillHave(clientID[u])'
    <2>1. u # s /\ u \notin done /\ (u \in registered \/ reader[u] = "conn")
      BY <1>1, <1>2, <1>5, AloneFacts
    <2>2. WillHave(clientID[u]) /\ u \in Sessions /\ ~Ended(u) /\ clientID[u] # None
      BY <1>3, <1>5, <2>1, AloneFacts
    <2>3. clientID[s] # clientID[u] /\ clientID[u] \in Clients
      BY <1>0, <1>2, <2>1, <2>2, AloneApart DEF TypeOK
    <2>4. PICK c \in Clients : c = clientID[u]
      BY <2>3
    <2>5. WillHave(c)' /\ c = clientID'[u]
      BY <1>1, <1>3, <1>5, <2>2, <2>3, <2>4
    <2> QED
      BY <2>5 DEF WillHave, LastSays, SilentOn
  <1>6. RecordsAccounted'
    <2> SUFFICES ASSUME ~lost', NEW c \in Clients
                 PROVE  WillForget(c)' \/ \E t \in Sessions : KeepsRecord(t, c)'
      BY DEF RecordsAccounted
    <2>1. CASE c = clientID[s] /\ s \notin done
      <3>1. clientID[s] # None
        BY <2>1, SessionAssumption
      <3>2. WillForget(clientID[s])' /\ clientID'[s] = c
        BY <1>1, <1>3, <2>1, <3>1
      <3> QED
        BY <3>2 DEF WillForget, LastSays, SilentOn
    <2>2. CASE c # clientID[s] \/ s \in done
      <3>1. CASE WillForget(c)
        BY <1>3, <2>2, <3>1
      <3>2. CASE \E t \in Sessions : KeepsRecord(t, c)
        <4>1. \A t \in Sessions : KeepsRecord(t, c) => KeepsRecord(t, c)'
          BY <1>1, <1>2, <2>2 DEF KeepsRecord
        <4> QED
          BY <3>2, <4>1
      <3> QED
        BY <1>0, <1>3, <3>1, <3>2 DEF RecordsAccounted
    <2> QED
      BY <2>1, <2>2
  <1>7. reader'[s] # "none" /\ s \in done' /\ clientID'[s] = clientID[s]
    BY <1>1, <1>2
  <1>8. s \in registered' \/ tracker'[s] \in Tracking => clientID'[s] # None
    BY <1>0, <1>1, <1>2 DEF SessionsInStep, Tracking
  <1>9. clientID'[s] # None => clientID'[s] \in Names(s)
    BY <1>0, <1>7 DEF SessionsInStep
  <1> QED
    BY <1>1, <1>2, <1>4, <1>5, <1>6, <1>7, <1>8, <1>9, RecordsStep

(* The tracker's other steps out of the select and its end: the entry of   *)
(* the map it sets or removes is not that of a session that is alone.      *)
LEMMA RecordsTrack ==
  ASSUME SessionInv, NEW s \in Sessions,
         TrackRegistered(s) \/ TrackTimeout(s) \/ TrackDone(s) \/ TrackEnd(s)
  PROVE  RecordParts'
  <1>0. /\ TypeOK /\ IDsInPlace /\ SessionsInStep /\ RecordsAccounted
    BY DEF SessionInv
  <1>1. UNCHANGED <<reader, clientID, registered, late, done, clients, cq, lost, alone>>
    BY Zenon DEF TrackRegistered, TrackTimeout, TrackDone, TrackEnd, Store, readVars
  <1>2. /\ tracker[s] \in {"wait", "block"}
        /\ \A t \in Sessions : t # s => tracker'[t] = tracker[t]
        /\ tracker'[s] \in Tracking => clientID[s] # None /\ sessions'[clientID[s]] = s
        /\ sessions' # sessions =>
             /\ clientID[s] \in Clients
             /\ \E x : sessions' = [sessions EXCEPT ![clientID[s]] = x]
    <2>1. CASE TrackRegistered(s) \/ (TrackTimeout(s) /\ clientID[s] # None)
      <3>1. clientID[s] \in Clients /\ clientID[s] # None /\ Store(s) /\ tracker[s] = "wait"
        BY <1>0, <2>1 DEF TrackRegistered, TrackTimeout, SessionsInStep, TypeOK
      <3>2. /\ sessions' = [sessions EXCEPT ![clientID[s]] = s]
            /\ tracker' = [tracker EXCEPT ![s] = "proxies"]
        BY <3>1 DEF Store, TrackedID
      <3> QED
        BY <1>0, <3>1, <3>2 DEF TypeOK
    <2>2. CASE TrackDone(s) \/ (TrackTimeout(s) /\ clientID[s] = None)
      BY <1>0, <2>2 DEF TrackDone, TrackTimeout, TypeOK, Tracking
    <2>3. CASE TrackEnd(s)
      <3>1. clientID[s] \in Clients /\ clientID[s] # None /\ tracker[s] = "block"
        BY <1>0, <2>3 DEF TrackEnd, SessionsInStep, TypeOK, Tracking
      <3>2. /\ sessions' = [sessions EXCEPT ![clientID[s]] = None]
            /\ tracker' = [tracker EXCEPT ![s] = "gone"]
        BY <2>3, <3>1 DEF TrackEnd, Removed, TrackedID
      <3> QED
        BY <1>0, <3>1, <3>2 DEF TypeOK, Tracking
    <2> QED
      BY <2>1, <2>2, <2>3
  <1>3. reader[s] # "none" /\ ~Ended(s)
    BY <1>0, <1>2 DEF IDsInPlace, Ended
  <1>4. ASSUME NEW u \in alone, tracker'[u] \in Tracking PROVE sessions'[clientID'[u]] = u
    <2>1. CASE u = s
      BY <1>1, <1>2, <1>4, <2>1
    <2>2. CASE u # s
      <3>1. /\ u \in Sessions /\ tracker[u] \in Tracking /\ ~Ended(u)
            /\ clientID[u] # None /\ sessions[clientID[u]] = u
        BY <1>2, <1>4, <2>2, AloneFacts
      <3>2. clientID[s] # clientID[u]
        BY <1>3, <2>2, <3>1, AloneApart
      <3>3. sessions'[clientID[u]] = sessions[clientID[u]]
        BY <1>0, <1>2, <3>1, <3>2 DEF TypeOK
      <3> QED
        BY <1>1, <3>1, <3>3
    <2> QED
      BY <2>1, <2>2
  <1>5. ASSUME NEW u \in alone, ~lost', u \notin done', u \in registered' \/ reader'[u] = "conn"
        PROVE  WillHave(clientID[u])'
    <2>1. WillHave(clientID[u])
      BY <1>1, <1>5, AloneFacts
    <2> QED
      BY <1>1, <2>1 DEF WillHave, LastSays, SilentOn
  <1>6. RecordsAccounted'
    <2>1. \A c : WillForget(c)' <=> WillForget(c)
      BY <1>1, SaysKept
    <2> QED
      BY <1>0, <1>1, <2>1 DEF RecordsAccounted, KeepsRecord
  <1>7. /\ clientID[s] # None => clientID[s] \in Names(s)
        /\ reader[s] = "gone" => s \in done
        /\ s \in registered => clientID[s] # None
    BY <1>0 DEF SessionsInStep
  <1> QED
    BY <1>1, <1>2, <1>3, <1>4, <1>5, <1>6, <1>7, RecordsStep

(* applyClientEvent carries out what was announced.                        *)
LEMMA RecordsApply ==
  ASSUME SessionInv, ApplyClientEvent PROVE RecordParts'
  <1>0. /\ TypeOK /\ SessionsInStep /\ AloneIsReachable /\ RecordsAccounted
        /\ alone \subseteq Sessions
    BY DEF SessionInv, TypeOK
  <1>1. UNCHANGED <<reader, clientID, registered, late, done, tracker, sessions, lost, alone>>
    BY DEF ApplyClientEvent, readVars, trackVars
  <1>2. \A c \in Clients : /\ WillHave(c) => WillHave(c)'
                           /\ WillForget(c) => WillForget(c)'
    BY <1>0, ApplySays
  <1>3. SessionsInStep'
    BY <1>0, <1>1 DEF SessionsInStep, Names
  <1>4. AloneIsReachable'
    <2> SUFFICES ASSUME NEW u \in alone
          PROVE  /\ ~Ended(u)' => \A t \in Sessions \ {u} :
                      reader'[t] = "none" \/ Ended(t)' \/ Names(u) \cap Names(t) = {}
                 /\ tracker'[u] \in Tracking => sessions'[clientID'[u]] = u
                 /\ ~lost' /\ u \notin done' /\ (u \in registered' \/ reader'[u] = "conn")
                      => WillHave(clientID[u])'
      BY <1>1 DEF AloneIsReachable, Names
    <2>1. \A t : Ended(t)' <=> Ended(t)
      BY <1>1 DEF Ended
    <2>2. ASSUME ~lost, u \notin done, u \in registered \/ reader[u] = "conn"
          PROVE  WillHave(clientID[u])'
      <3>1. WillHave(clientID[u]) /\ clientID[u] # None /\ clientID[u] \in Clients
        BY <1>0, <2>2, AloneFacts DEF TypeOK
      <3>2. PICK c \in Clients : c = clientID[u]
        BY <3>1
      <3>3. WillHave(c)' /\ c = clientID'[u]
        BY <1>1, <1>2, <3>1, <3>2
      <3> QED
        BY <3>3 DEF WillHave, LastSays, SilentOn
    <2> QED
      BY <1>0, <1>1, <2>1, <2>2 DEF AloneIsReachable
  <1>5. RecordsAccounted'
    BY <1>0, <1>1, <1>2 DEF RecordsAccounted, KeepsRecord
  <1> QED
    BY <1>3, <1>4, <1>5 DEF RecordParts

(* Every step keeps the account of the client records.                     *)
LEMMA RecordsNext == SessionInv /\ [Next]_vars => RecordParts'
  <1> SUFFICES ASSUME SessionInv, [Next]_vars PROVE RecordParts'
    OBVIOUS
  <1>0. TypeOK
    BY DEF SessionInv
  <1>1. ASSUME NEW s \in Sessions, NEW k \in Kinds, SyncList(s, k) PROVE RecordParts'
    <2>1. UNCHANGED <<reader, clientID, registered, done, late, alone, sessions,
                      clients, cq, lost>>
      BY <1>1 DEF SyncList, readVars
    <2>2. \A t \in Sessions : \/ tracker'[t] = tracker[t]
                              \/ tracker[t] \in Tracking /\ tracker'[t] \in Tracking
      BY <1>0, <1>1 DEF SyncList, TypeOK, Tracking
    <2> QED
      BY <2>1, <2>2, RecordsKeptBy
  <1>2. ASSUME NEW s \in Sessions, SyncNext(s) PROVE RecordParts'
    <2>1. UNCHANGED <<reader, clientID, registered, done, late, alone, sessions,
                      clients, cq, lost>>
      BY <1>2 DEF SyncNext, readVars
    <2>2. \A t \in Sessions : \/ tracker'[t] = tracker[t]
                              \/ tracker[t] \in Tracking /\ tracker'[t] \in Tracking
      BY <1>0, <1>2 DEF SyncNext, TypeOK, Tracking
    <2> QED
      BY <2>1, <2>2, RecordsKeptBy
  <1>3. ASSUME NEW s \in Sessions, NEW r \in Resources, SyncSend(s, r) PROVE RecordParts'
    <2>1. UNCHANGED <<reader, clientID, registered, done, late, alone, sessions,
                      clients, cq, lost, tracker>>
      BY <1>3 DEF SyncSend, readVars
    <2> QED
      BY <2>1, RecordsKeptBy
  <1>4. ASSUME NEW k \in Kinds, Worker(k) PROVE RecordParts'
    <2>1. UNCHANGED <<reader, clientID, registered, done, late, alone, sessions,
                      clients, cq, lost, tracker>>
      BY <1>4, Zenon DEF Worker, WorkerApply, WorkerHandle, WorkerSend, readVars, trackVars
    <2> QED
      BY <2>1, RecordsKeptBy
  <1>5. ASSUME NEW k \in Kinds, NEW r \in Resources,
               Create(k, r) \/ Delete(k, r) \/ RestorePublish(k, r)
        PROVE  RecordParts'
    <2>1. UNCHANGED <<reader, clientID, registered, done, late, alone, sessions,
                      clients, cq, lost, tracker>>
      BY <1>5, Zenon DEF Create, Delete, RestorePublish, readVars, trackVars
    <2> QED
      BY <2>1, RecordsKeptBy
  <1>6. CASE RestoreSnapshot \/ RestoreEnd \/ UNCHANGED vars
    <2>1. UNCHANGED <<reader, clientID, registered, done, late, alone, sessions,
                      clients, cq, lost, tracker>>
      BY <1>6, Zenon DEF RestoreSnapshot, RestoreEnd, vars, readVars, trackVars
    <2> QED
      BY <2>1, RecordsKeptBy
  <1> QED
    BY <1>1, <1>2, <1>3, <1>4, <1>5, <1>6, RecordsOpen, RecordsHandle, RecordsPublish,
       RecordsRegisterEnd, RecordsClose, RecordsTrack, RecordsApply, Zenon
       DEF Next, Reader, Tracker

(* The invariant holds at the start.                                       *)
LEMMA SessionInvInit == Init => SessionInv
  <1> SUFFICES ASSUME Init PROVE SessionInv
    OBVIOUS
  <1> USE SessionAssumption
  <1>1. TypeOK
    <2>1. worker \in [Kinds -> [pc : {"idle", "handle", "send"},
                                type : {"ADDED", "DELETED"},
                                res : Resources \cup {None}, to : Seq(Clients)]]
      BY IdleType DEF Init
    <2>2. /\ cq \in Seq(ClientEvents) /\ Len(cq) <= QueueCap
          /\ rq \in [Kinds -> Seq(Events)] /\ \A k \in Kinds : Len(rq[k]) <= QueueCap
      BY DEF Init
    <2>3. /\ reader \in [Sessions -> {"none", "read", "publish", "conn", "gone"}]
          /\ clientID \in [Sessions -> Clients \cup {None}]
          /\ tracker \in [Sessions -> Tracking \cup {"none", "wait", "close", "gone"}]
          /\ todo \in [Sessions -> SUBSET Resources]
          /\ sessions \in [Clients -> Sessions \cup {None}]
          /\ told \in [Sessions -> SUBSET Resources]
          /\ requests \in 0..MaxRequests /\ created \subseteq Relays
      BY DEF Init
    <2> QED
      BY <2>1, <2>2, <2>3 DEF Init, TypeOK
  <1>2. MapIsLive /\ IDsInPlace /\ ToldOrToBe
    BY DEF Init, MapIsLive, IDsInPlace, ToldOrToBe, Tracking
  <1>3. WorkersInStep /\ RestoreIsQuiet
    BY DEF Init, WorkersInStep, RestoreIsQuiet, Idle
  <1>4. SessionsInStep /\ AloneIsReachable
    BY DEF Init, SessionsInStep, AloneIsReachable, Tracking
  <1>5. RecordsAccounted
    <2>1. DOMAIN cq = {} /\ clients = {}
      BY DEF Init
    <2> QED
      BY <2>1 DEF RecordsAccounted, WillForget, SilentOn
  <1> QED
    BY <1>1, <1>2, <1>3, <1>4, <1>5 DEF SessionInv

(* The invariant behind the theorems below, for every number of sessions,  *)
(* clients, proxies and relays: types, the map of live sessions, IDs and   *)
(* workers in step, every resource told of or to be, and the account of    *)
(* the client records (server.go:183-338, 502-697; statestore.go:219,      *)
(* 303-431).                                                               *)
THEOREM SessionInvariant == Spec => []SessionInv
  <1>1. SessionInv /\ [Next]_vars => SessionInv'
    BY TypesNext, MapNext, WorkersNext, ToldNext, RecordsNext DEF SessionInv, RecordParts
  <1> QED
    BY <1>1, SessionInvInit, PTL DEF Spec

(* The map never names a session that has ended, or one of another client, *)
(* whichever sessions of a client overlap (server.go:513-519).             *)
THEOREM MapNamesLiveSessions == Spec => []MapIsLive
  <1>1. SessionInv => MapIsLive
    BY DEF SessionInv
  <1> QED
    BY <1>1, SessionInvariant, PTL

(* Once events are handled and sessions synchronised, the session the map  *)
(* names was told of every proxy and relay of its client (server.go:502-   *)
(* 610, 657-697; relay.go:81-155).                                         *)
THEOREM CurrentSessionIsTold == ~EarlyHTTP /\ Spec => []ToldOfEverything
  <1> SUFFICES ASSUME ~EarlyHTTP PROVE Spec => []ToldOfEverything
    OBVIOUS
  <1>1. SessionInv => ToldOfEverything
    <2> SUFFICES ASSUME SessionInv, EventsHandled, \A s \in Sessions : Settled(s),
                        NEW c \in Clients, sessions[c] # None,
                        NEW r \in actual \cap Concerns(c)
                 PROVE  r \in told[sessions[c]]
      BY DEF ToldOfEverything
    <2>1. sessions[c] \in Sessions
      BY DEF SessionInv, TypeOK
    <2>2. tracker[sessions[c]] \in {"none", "wait", "block", "gone"}
      BY <2>1 DEF Settled
    <2>3. ~WillList(sessions[c], r) /\ ~WillSend(sessions[c], r)
      BY <2>2 DEF WillList, WillSend
    <2>4. ~WillAnnounce(c, r)
      BY DEF EventsHandled, WillAnnounce
    <2> QED
      BY <2>3, <2>4 DEF SessionInv, ToldOrToBe
  <1> QED
    BY <1>1, SessionInvariant, PTL

(* A registered session that no other session of its client overlapped is  *)
(* named by the map and its client has a record, in whichever order the    *)
(* client events, SetClientConn, the tracker and other clients' sessions   *)
(* take their steps (server.go:183-208, 516; statestore.go:219, 346).      *)
THEOREM AloneCanBeReached == Spec => []LiveIsReachable
  <1>1. SessionInv => LiveIsReachable
    <2> SUFFICES ASSUME SessionInv, ClientsHandled, ~lost, NEW s \in alone \cap registered,
                        tracker[s] = "block", s \notin done
                 PROVE  sessions[clientID[s]] = s /\ clientID[s] \in clients
      BY DEF LiveIsReachable
    <2>1. sessions[clientID[s]] = s
      BY AloneFacts DEF Tracking
    <2>2. WillHave(clientID[s])
      BY AloneFacts
    <2>3. DOMAIN cq = {}
      BY DEF ClientsHandled
    <2> QED
      BY <2>1, <2>2, <2>3 DEF WillHave, LastSays
  <1> QED
    BY <1>1, SessionInvariant, PTL

(* A client all of whose sessions have ended has no record and no entry in *)
(* the map, whichever sessions overlapped, unless a session was closed     *)
(* before it was registered: a DELETED event always follows the last ADDED *)
(* of a client (server.go:319-338, 516; statestore.go:346).                *)
THEOREM EndedIsForgotten == Spec => []GoneIsForgotten
  <1>1. SessionInv => GoneIsForgotten
    <2> SUFFICES ASSUME SessionInv, ClientsHandled, ~lost, NEW c \in Clients,
                        \A s \in Sessions : c \in Names(s) =>
                           reader[s] = "none" \/ (Ended(s) /\ s \notin late)
                 PROVE  c \notin clients /\ sessions[c] = None
      BY DEF GoneIsForgotten
    <2>0. /\ TypeOK /\ MapIsLive /\ IDsInPlace /\ SessionsInStep /\ RecordsAccounted
          /\ c # None
      BY SessionAssumption DEF SessionInv
    <2>1. \A s \in Sessions : clientID[s] = c => Ended(s) /\ s \in done /\ s \notin late
      BY <2>0 DEF SessionsInStep, Ended
    <2>2. sessions[c] = None
      <3>1. sessions[c] # None => /\ sessions[c] \in Sessions
                                  /\ tracker[sessions[c]] \in Tracking
                                  /\ clientID[sessions[c]] = c
        BY <2>0 DEF TypeOK, MapIsLive
      <3> QED
        BY <2>1, <3>1 DEF Ended, Tracking
    <2>3. \A s \in Sessions : ~KeepsRecord(s, c)
      BY <2>1 DEF KeepsRecord, Ended
    <2>4. WillForget(c)
      BY <2>0, <2>3 DEF RecordsAccounted
    <2>5. DOMAIN cq = {}
      BY DEF ClientsHandled
    <2> QED
      BY <2>2, <2>4, <2>5 DEF WillForget, LastSays
  <1> QED
    BY <1>1, SessionInvariant, PTL
=============================================================================

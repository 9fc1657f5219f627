------------------------------ MODULE Sessions ------------------------------
(***************************************************************************)
(* The sessions of clients with the server (session/server.go): a reader   *)
(* goroutine that handles register messages and closes, a tracker (the     *)
(* HTTP handler's goroutine in trackSession) that enters the session in    *)
(* the map, sends the client its proxies and relays and removes the entry  *)
(* at the end, the worker of client events that keeps the client records   *)
(* of the state store, and the workers of proxy and relay events that tell *)
(* connected clients of changes.                                           *)
(*                                                                         *)
(* A client is told of a proxy or relay when the message enters the send   *)
(* channel of its session; the channel (256 messages, a 3 second limit) is *)
(* taken to have room.  A connection sends one register message, as        *)
(* registerRaw of the client does.                                         *)
(***************************************************************************)
EXTENDS Naturals, Sequences

CONSTANTS
    Sessions,       \* websocket connections
    Clients,        \* client IDs
    None,           \* no client, no session
    Who,            \* [Sessions -> Clients]: the ID the client registers with
    Cert,           \* [Sessions -> Clients \cup {None}]: its certificate's ID
    Temp,           \* the sessions of HandleTemp, which have no certificate
    Proxies,        \* proxies
    Relays,         \* relay sessions
    Parties,        \* the clients of a proxy or relay, in notification order
    Saved,          \* what the meta store and the snapshot hold at the start
    EarlyHTTP,      \* does HTTP answer before the restore is over?
    QueueCap,       \* capacity of a channel of the event bus
    MaxRequests     \* bound: create and delete requests

Kinds == {"proxy", "relay"}
Resources == Proxies \cup Relays
Of(k) == IF k = "proxy" THEN Proxies ELSE Relays
Concerns(c) == {r \in Resources : \E i \in DOMAIN Parties[r] : Parties[r][i] = c}

ASSUME SessionAssumption ==
    /\ None \notin Clients /\ None \notin Sessions
    /\ Who \in [Sessions -> Clients]
    /\ Cert \in [Sessions -> Clients \cup {None}]
    /\ Temp \subseteq Sessions /\ \A s \in Temp : Cert[s] = None
    /\ Proxies \cap Relays = {}
    /\ Parties \in [Resources -> Seq(Clients) \ {<<>>}]
    /\ Saved \subseteq Resources
    /\ EarlyHTTP \in BOOLEAN
    /\ QueueCap \in Nat \ {0} /\ MaxRequests \in Nat

VARIABLES
    reader,     \* where readPump and the handler it calls are
    clientID,   \* Session.clientID
    registered, \* the sessions whose channel registered is closed
    done,       \* the sessions whose channel done is closed: closeOnce has run
    tracker,    \* where trackSession is
    todo,       \* the proxies or relays it has listed and not yet sent
    sessions,   \* Server.sessions: client ID to session
    clients,    \* StateStore.clients: the IDs with a record (its Conn is left
                \* out: only SendCommand reads it, which no code calls)
    cq,         \* the channel of client events
    actual,     \* StateStore.proxies and relays
    rq,         \* the channels of proxy and of relay events
    worker,     \* what the worker of a channel does
    told,       \* the proxies and relays a session was told of
    restore,    \* where persist.Run is: "meta", "flag", "over"
    toRestore,  \* what persist.Run has still to publish
    requests,   \* requests made
    created,    \* the relays ever created: a relay ID is fresh
    lost,       \* history: a client event was dropped
    late,       \* history: sessions closed before they were registered
    alone       \* history: sessions that no other of the client overlapped

readVars == <<reader, clientID, registered, late>>
trackVars == <<tracker, todo, sessions>>
resVars == <<actual, rq, worker, restore, toRestore, requests,
             created>>
vars == <<readVars, done, trackVars, clients, cq, lost, resVars, told, alone>>

Idle == [pc |-> "idle", type |-> "ADDED", res |-> None, to |-> <<>>]
Tracking == {"proxies", "sendProxies", "relays", "sendRelays", "block"}
ClientEvents == [type : {"ADDED", "DELETED"}, client : Clients]
Events == [type : {"ADDED", "DELETED"}, res : Resources]

TypeOK ==
    /\ reader \in [Sessions -> {"none", "read", "publish", "conn", "gone"}]
    /\ clientID \in [Sessions -> Clients \cup {None}]
    /\ registered \subseteq Sessions /\ done \subseteq Sessions
    /\ tracker \in [Sessions -> Tracking \cup {"none", "wait", "close", "gone"}]
    /\ todo \in [Sessions -> SUBSET Resources]
    /\ sessions \in [Clients -> Sessions \cup {None}]
    /\ clients \subseteq Clients
    /\ cq \in Seq(ClientEvents) /\ Len(cq) <= QueueCap
    /\ actual \subseteq Resources
    /\ rq \in [Kinds -> Seq(Events)] /\ \A k \in Kinds : Len(rq[k]) <= QueueCap
    /\ worker \in [Kinds -> [pc : {"idle", "handle", "send"},
                             type : {"ADDED", "DELETED"},
                             res : Resources \cup {None}, to : Seq(Clients)]]
    /\ told \in [Sessions -> SUBSET Resources]
    /\ restore \in {"meta", "flag", "over"} /\ lost \in BOOLEAN
    /\ toRestore \subseteq Saved
    /\ requests \in 0..MaxRequests
    /\ created \subseteq Relays
    /\ late \subseteq Sessions /\ alone \subseteq Sessions

Init ==
    /\ reader = [s \in Sessions |-> "none"]
    /\ clientID = [s \in Sessions |-> None]
    /\ registered = {} /\ done = {} /\ late = {} /\ alone = {}
    /\ tracker = [s \in Sessions |-> "none"]
    /\ todo = [s \in Sessions |-> {}]
    /\ sessions = [c \in Clients |-> None]
    /\ clients = {}
    /\ cq = <<>>
    /\ actual = {}
    /\ rq = [k \in Kinds |-> <<>>]
    /\ worker = [k \in Kinds |-> Idle]
    /\ told = [s \in Sessions |-> {}]
    /\ restore = "meta" /\ toRestore = Saved
    /\ requests = 0
    /\ created = Saved \cap Relays
    /\ lost = FALSE
-----------------------------------------------------------------------------
(* Core.restoring.                                                         *)
restoring == restore # "over"

(* The IDs a session can act for, and whether it still acts.               *)
Names(s) == {Who[s], Cert[s]} \ {None}
Ended(s) == reader[s] = "gone" /\ tracker[s] = "gone"

(* Handle and HandleTemp: a connection is upgraded, its pumps and tracker  *)
(* start.  It overlaps the sessions of its client that have not ended.     *)
Open(s) ==
    /\ reader[s] = "none"
    /\ EarlyHTTP \/ ~restoring
    /\ reader' = [reader EXCEPT ![s] = "read"]
    /\ clientID' = [clientID EXCEPT ![s] = Cert[s]]
    /\ tracker' = [tracker EXCEPT ![s] = "wait"]
    /\ LET over == {t \in Sessions \ {s} : /\ reader[t] # "none" /\ ~Ended(t)
                                           /\ Names(s) \cap Names(t) # {}}
       IN  alone' = IF over = {} THEN alone \cup {s} ELSE alone \ over
    /\ UNCHANGED <<registered, late, done, todo, sessions, clients, cq,
                   lost, resVars, told>>

(* Publish on the bus: a full channel drops the event.                     *)
PublishClient(type, c) ==
    IF Len(cq) < QueueCap
    THEN /\ cq' = Append(cq, [type |-> type, client |-> c])
         /\ UNCHANGED lost
    ELSE /\ lost' = TRUE
         /\ UNCHANGED cq

(* A valid register message gives the session its ID; nothing happens if   *)
(* the ID is not the certificate's.                                        *)
HandleRegister(s) ==
    /\ s \notin Temp /\ reader[s] = "read" /\ s \notin registered
    /\ clientID[s] \in {None, Who[s]}
    /\ clientID' = [clientID EXCEPT ![s] = Who[s]]
    /\ reader' = [reader EXCEPT ![s] = "publish"]
    /\ UNCHANGED <<registered, late, done, trackVars, clients, cq, lost,
                   resVars, told, alone>>

(* A temporary client's register message: no certificate to compare with.  *)
HandleTempRegister(s) ==
    /\ s \in Temp /\ reader[s] = "read" /\ s \notin registered
    /\ clientID' = [clientID EXCEPT ![s] = Who[s]]
    /\ reader' = [reader EXCEPT ![s] = "publish"]
    /\ UNCHANGED <<registered, late, done, trackVars, clients, cq, lost,
                   resVars, told, alone>>

(* The rest of both handlers: the ADDED event ...                          *)
RegisterPublish(s) ==
    /\ reader[s] = "publish"
    /\ PublishClient("ADDED", clientID[s])
    /\ reader' = [reader EXCEPT ![s] = "conn"]
    /\ UNCHANGED <<clientID, registered, late, done, trackVars, clients,
                   resVars, told, alone>>

(* ... SetClientConn, which makes the record if there is none, and the     *)
(* answer, after which the tracker goes on.                                *)
RegisterEnd(s) ==
    /\ reader[s] = "conn"
    /\ clients' = clients \cup {clientID[s]}
    /\ registered' = registered \cup {s}
    /\ reader' = [reader EXCEPT ![s] = "read"]
    /\ late' = IF s \in done THEN late \cup {s} ELSE late
    /\ UNCHANGED <<clientID, done, trackVars, cq, lost, resVars, told,
                   alone>>

(* Close: closeOnce closes done and publishes the DELETED event of the ID  *)
(* the session has; a second caller finds it run.  Who sees done before    *)
(* the event is published can only end, so the two are one step.           *)
Close(s) ==
    /\ done' = done \cup {s}
    /\ IF s \notin done /\ clientID[s] # None
       THEN PublishClient("DELETED", clientID[s])
       ELSE UNCHANGED <<cq, lost>>

(* ReadMessage fails (the peer is gone, 40 seconds without a message, or   *)
(* the connection was closed) and readPump ends with Close.                *)
ReadFails(s) ==
    /\ reader[s] = "read"
    /\ Close(s)
    /\ reader' = [reader EXCEPT ![s] = "gone"]
    /\ UNCHANGED <<clientID, registered, late, trackVars, clients, resVars,
                   told, alone>>
-----------------------------------------------------------------------------
(* Mutated form of TrackedID: the ID known when the connection was opened. *)
TrackedInitialID(s) == Cert[s]

(* trackSession enters the session under the ID it has now.                *)
TrackedID(s) == clientID[s]

Store(s) ==
    /\ sessions' = IF TrackedID(s) = None THEN sessions
                   ELSE [sessions EXCEPT ![TrackedID(s)] = s]
    /\ tracker' = [tracker EXCEPT ![s] =
                     IF TrackedID(s) = None THEN "block" ELSE "proxies"]
    /\ UNCHANGED <<readVars, done, todo, clients, cq, lost, resVars,
                   told, alone>>

(* The select of trackSession: registered ...                              *)
TrackRegistered(s) ==
    /\ tracker[s] = "wait" /\ s \in registered
    /\ Store(s)

(* ... or 30 seconds passed: a session without an ID is closed, one with   *)
(* an ID (from its certificate, or just being registered) is entered ...   *)
TrackTimeout(s) ==
    /\ tracker[s] = "wait"
    /\ IF clientID[s] # None
       THEN Store(s)
       ELSE /\ tracker' = [tracker EXCEPT ![s] = "close"]
            /\ UNCHANGED <<readVars, done, todo, sessions, clients, cq,
                           lost, resVars, told, alone>>

(* ... whose registration may be under way: it is not looked at again.     *)
TrackClose(s) ==
    /\ tracker[s] = "close"
    /\ Close(s)
    /\ tracker' = [tracker EXCEPT ![s] = "gone"]
    /\ UNCHANGED <<readVars, todo, sessions, clients, resVars, told, alone>>

(* ... or the session is done.                                             *)
TrackDone(s) ==
    /\ tracker[s] = "wait" /\ s \in done
    /\ tracker' = [tracker EXCEPT ![s] = "gone"]
    /\ UNCHANGED <<readVars, done, todo, sessions, clients, cq, lost, resVars,
                   told, alone>>

(* SendToClient: the message goes to the session the map names now.        *)
SendToClient(c, msg, r) ==
    told' = IF sessions[c] = None THEN told
            ELSE [told EXCEPT ![sessions[c]] =
                    IF msg = "open" THEN @ \cup {r} ELSE @ \ {r}]

(* Mutated form of Listed: the relays are not sent again.                  *)
ListedProxies(k, c) == actual \cap Concerns(c) \cap Proxies \cap Of(k)

(* ListProxies and ListRelaySessions, those of the client.                 *)
Listed(k, c) == actual \cap Concerns(c) \cap Of(k)

(* syncClientProxies and syncClientRelays list under the lock of the state *)
(* store and then send one by one, in the order of a map.                  *)
SyncList(s, k) ==
    /\ tracker[s] = IF k = "proxy" THEN "proxies" ELSE "relays"
    /\ todo' = [todo EXCEPT ![s] = Listed(k, TrackedID(s))]
    /\ tracker' = [tracker EXCEPT ![s] =
                     IF k = "proxy" THEN "sendProxies" ELSE "sendRelays"]
    /\ UNCHANGED <<readVars, done, sessions, clients, cq, lost, resVars,
                   told, alone>>

SyncSend(s, r) ==
    /\ tracker[s] \in {"sendProxies", "sendRelays"}
    /\ r \in todo[s]
    /\ SendToClient(TrackedID(s), "open", r)
    /\ todo' = [todo EXCEPT ![s] = @ \ {r}]
    /\ UNCHANGED <<readVars, done, tracker, sessions, clients, cq, lost,
                   resVars, alone>>

(* After the relays deliverPendingRelaySignals finds nothing: no code adds *)
(* to pendingRelaySignal.                                                  *)
SyncNext(s) ==
    /\ tracker[s] \in {"sendProxies", "sendRelays"}
    /\ todo[s] = {}
    /\ tracker' = [tracker EXCEPT ![s] =
                     IF @ = "sendProxies" THEN "relays" ELSE "block"]
    /\ UNCHANGED <<readVars, done, todo, sessions, clients, cq, lost,
                   resVars, told, alone>>

(* Mutated form of Removed: the entry is left when the session ends.       *)
NotRemoved(c) == sessions

(* The deferred Delete removes the entry of the ID, whosever it is.        *)
Removed(c) == IF c = None THEN sessions ELSE [sessions EXCEPT ![c] = None]

TrackEnd(s) ==
    /\ tracker[s] = "block" /\ s \in done
    /\ sessions' = Removed(TrackedID(s))
    /\ tracker' = [tracker EXCEPT ![s] = "gone"]
    /\ UNCHANGED <<readVars, done, todo, clients, cq, lost, resVars,
                   told, alone>>
-----------------------------------------------------------------------------
(* Mutated form of RecordsAfterDeleted: the record is kept.                *)
RecordsKept(c) == clients

RecordsAfterDeleted(c) == clients \ {c}

(* applyClientEvent: after ADDED there is a record, the old or a new one;  *)
(* DELETED removes it.                                                     *)
ApplyClientEvent ==
    /\ cq # <<>>
    /\ clients' = IF Head(cq).type = "ADDED" THEN clients \cup {Head(cq).client}
                  ELSE RecordsAfterDeleted(Head(cq).client)
    /\ cq' = Tail(cq)
    /\ UNCHANGED <<readVars, done, trackVars, lost, resVars, told, alone>>
-----------------------------------------------------------------------------
(* Publish on the channel of a kind; a full channel drops the event.       *)
PublishEvent(k, type, r) ==
    rq' = IF Len(rq[k]) < QueueCap
          THEN [rq EXCEPT ![k] = Append(@, [type |-> type, res |-> r])]
          ELSE rq

(* handleCreateProxy and handleCreateRelay.                                *)
Create(k, r) ==
    /\ EarlyHTTP \/ ~restoring
    /\ r \in Of(k) /\ r \notin created
    /\ requests < MaxRequests
    /\ PublishEvent(k, "ADDED", r)
    /\ requests' = requests + 1
    /\ created' = IF k = "relay" THEN created \cup {r} ELSE created
    /\ UNCHANGED <<readVars, done, trackVars, clients, cq, lost, actual,
                   worker, told, restore, toRestore, alone>>

(* handleDeleteProxy and handleDeleteRelay, for what the state store lists. *)
Delete(k, r) ==
    /\ EarlyHTTP \/ ~restoring
    /\ r \in Of(k) /\ r \in actual
    /\ requests < MaxRequests
    /\ PublishEvent(k, "DELETED", r)
    /\ requests' = requests + 1
    /\ UNCHANGED <<readVars, done, trackVars, clients, cq, lost, actual,
                   worker, told, restore, toRestore, created, alone>>

(* persist.Run: what the meta store holds is published, what the snapshot  *)
(* holds, if there is one yet, goes straight into the state store, and the *)
(* flag restoring is cleared.                                              *)
RestorePublish(k, r) ==
    /\ restore = "meta" /\ r \in toRestore \cap Of(k)
    /\ PublishEvent(k, "ADDED", r)
    /\ toRestore' = toRestore \ {r}
    /\ UNCHANGED <<readVars, done, trackVars, clients, cq, lost, actual,
                   worker, told, restore, requests, created, alone>>

RestoreSnapshot ==
    /\ restore = "meta" /\ toRestore = {}
    /\ actual' \in {actual, actual \cup Saved}
    /\ restore' = "flag"
    /\ UNCHANGED <<readVars, done, trackVars, clients, cq, lost, rq,
                   worker, told, toRestore, requests, created, alone>>

RestoreEnd ==
    /\ restore = "flag"
    /\ restore' = "over"
    /\ UNCHANGED <<readVars, done, trackVars, clients, cq, lost, actual,
                   rq, worker, told, toRestore, requests, created, alone>>

(* The worker of a kind: the core applies the event ...                    *)
WorkerApply(k) ==
    /\ worker[k].pc = "idle" /\ rq[k] # <<>>
    /\ LET e == Head(rq[k])
       IN  /\ actual' = IF e.type = "ADDED" THEN actual \cup {e.res}
                        ELSE actual \ {e.res}
           /\ worker' = [worker EXCEPT ![k] =
                           [pc |-> "handle", type |-> e.type, res |-> e.res,
                            to |-> <<>>]]
    /\ rq' = [rq EXCEPT ![k] = Tail(@)]
    /\ UNCHANGED <<readVars, done, trackVars, clients, cq, lost, told,
                   restore, toRestore, requests, created, alone>>

(* ... then the session layer (proxies) or the relay plugin (relays) sees  *)
(* it.  An ADDED is announced unless the server is restoring; a deleted    *)
(* proxy is announced; for a deleted relay the plugin looks in the state   *)
(* store for the clients, where the core has just removed it.              *)
Announced(k) ==
    LET w == worker[k]
    IN  CASE w.type = "ADDED" -> ~restoring
          [] w.type = "DELETED" /\ k = "proxy" -> TRUE
          [] OTHER -> w.res \in actual

Sending(w, to) == [pc |-> "send", type |-> w.type, res |-> w.res, to |-> to]

WorkerHandle(k) ==
    /\ worker[k].pc = "handle"
    /\ worker' = [worker EXCEPT ![k] =
                    IF Announced(k)
                    THEN Sending(worker[k], Parties[worker[k].res])
                    ELSE Idle]
    /\ UNCHANGED <<readVars, done, trackVars, clients, cq, lost, actual,
                   rq, told, restore, toRestore, requests, created, alone>>

(* One notification: SendToClient of the next party.                       *)
WorkerSend(k) ==
    /\ worker[k].pc = "send"
    /\ SendToClient(Head(worker[k].to),
                    IF worker[k].type = "ADDED" THEN "open" ELSE "closed",
                    worker[k].res)
    /\ worker' = [worker EXCEPT ![k] =
                    IF Len(worker[k].to) = 1 THEN Idle
                    ELSE Sending(worker[k], Tail(worker[k].to))]
    /\ UNCHANGED <<readVars, done, trackVars, clients, cq, lost, actual,
                   rq, restore, toRestore, requests, created, alone>>
-----------------------------------------------------------------------------
Reader(s) ==
    \/ RegisterPublish(s)
    \/ RegisterEnd(s)
    \/ s \in done /\ ReadFails(s)

Tracker(s) ==
    \/ TrackRegistered(s) \/ TrackClose(s) \/ TrackDone(s)
    \/ SyncNext(s) \/ TrackEnd(s)
    \/ \E k \in Kinds : SyncList(s, k)
    \/ \E r \in Resources : SyncSend(s, r)

Worker(k) == WorkerApply(k) \/ WorkerHandle(k) \/ WorkerSend(k)

Next ==
    \/ \E s \in Sessions :
         \/ Open(s) \/ HandleRegister(s) \/ HandleTempRegister(s)
         \/ Reader(s) \/ ReadFails(s) \/ Tracker(s) \/ TrackTimeout(s)
    \/ ApplyClientEvent
    \/ \E k \in Kinds : Worker(k)
    \/ \E k \in Kinds, r \in Resources :
         Create(k, r) \/ Delete(k, r) \/ RestorePublish(k, r)
    \/ RestoreSnapshot
    \/ RestoreEnd

(* Goroutines that can run do.  A read on a closed connection fails; a     *)
(* live one need never fail.                                               *)
Fairness ==
    /\ \A s \in Sessions : WF_vars(Reader(s)) /\ WF_vars(Tracker(s))
    /\ \A k \in Kinds : WF_vars(Worker(k))
    /\ WF_vars(ApplyClientEvent)

Spec == Init /\ [][Next]_vars
FairSpec == Spec /\ Fairness
-----------------------------------------------------------------------------
(* Nothing is on its way: no event queued or being handled, no session in  *)
(* the middle of registering, closing or being told.                       *)
EventsHandled == \A k \in Kinds : rq[k] = <<>> /\ worker[k].pc = "idle"
ClientsHandled ==
    /\ cq = <<>>
    /\ \A s \in Sessions : reader[s] \in {"none", "read", "gone"}
Settled(s) == tracker[s] \in {"none", "wait", "block", "gone"}

(* The map names only sessions that are being tracked, under their own ID: *)
(* a session that ends leaves no entry behind, also when two sessions of a *)
(* client overlap (server.go:516-519).                                     *)
MapIsLive ==
    \A c \in Clients : sessions[c] # None =>
        tracker[sessions[c]] \in Tracking /\ clientID[sessions[c]] = c

(* Once events are handled and sessions synchronised, the session the map  *)
(* names was told of every proxy and relay of its client, whichever way    *)
(* creation, reconnects and the synchronisation interleave (server.go:502, *)
(* 527, 578, 657), if HTTP answers only after the restore: what is created *)
(* before is not announced (server.go:691).                                *)
ToldOfEverything ==
    EventsHandled /\ (\A s \in Sessions : Settled(s)) =>
        \A c \in Clients : sessions[c] # None =>
            actual \cap Concerns(c) \subseteq told[sessions[c]]

(* A registered session that no other session of its client overlapped can *)
(* be reached: the map names it and the client has a record (server.go:    *)
(* 183-208, 516; statestore.go:219).                                       *)
LiveIsReachable ==
    ClientsHandled /\ ~lost =>
        \A s \in alone \cap registered :
            tracker[s] = "block" /\ s \notin done =>
                sessions[clientID[s]] = s /\ clientID[s] \in clients

(* When all sessions of a client have ended, the server has forgotten it,  *)
(* unless the 30 second timeout closed one that was being registered       *)
(* (server.go:319-338, 516; statestore.go:346).                            *)
GoneIsForgotten ==
    ClientsHandled /\ ~lost =>
        \A c \in Clients :
            (\A s \in Sessions : c \in Names(s) =>
                 reader[s] = "none" \/ (Ended(s) /\ s \notin late))
            => c \notin clients /\ sessions[c] = None

(* Where a session of the map stands with a resource of its client that    *)
(* it was not told of: its tracker has still to list it or to send it, or  *)
(* the worker has still to announce it.                                    *)
WillList(s, r) ==
    \/ tracker[s] = "proxies"
    \/ r \in Relays /\ tracker[s] \in {"sendProxies", "relays"}
WillSend(s, r) == r \in todo[s] /\ tracker[s] \in {"sendProxies", "sendRelays"}
WillAnnounce(c, r) ==
    \E k \in Kinds :
        /\ worker[k].type = "ADDED" /\ worker[k].res = r
        /\ \/ worker[k].pc = "handle"
           \/ worker[k].pc = "send" /\ \E i \in DOMAIN worker[k].to : worker[k].to[i] = c

ToldOrToBe ==
    \A c \in Clients : sessions[c] # None =>
        \A r \in actual \cap Concerns(c) :
            \/ r \in told[sessions[c]]
            \/ WillList(sessions[c], r)
            \/ WillSend(sessions[c], r)
            \/ WillAnnounce(c, r)

(* A session has its ID before its client can be announced, and keeps it.  *)
IDsInPlace ==
    \A s \in Sessions :
        /\ reader[s] = "none" => tracker[s] = "none"
        /\ reader[s] \in {"publish", "conn"} => clientID[s] # None
        /\ tracker[s] \in Tracking \ {"block"} => clientID[s] # None
        /\ s \in Temp => clientID[s] \in {None, Who[s]}

(* A worker handles events of its kind, and what it announces as closed is *)
(* not there, unless the restore brought it back.                          *)
WorkersInStep ==
    \A k \in Kinds :
        /\ \A i \in DOMAIN rq[k] : rq[k][i].res \in Of(k)
        /\ worker[k].pc # "idle" =>
             /\ worker[k].res \in Of(k)
             /\ ~EarlyHTTP /\ worker[k].type = "DELETED"
                  => worker[k].res \notin actual
        /\ worker[k].pc = "send" => worker[k].to # <<>>

(* While the server restores it has no sessions and no deletions, if HTTP  *)
(* answers only afterwards.                                                *)
RestoreIsQuiet ==
    restoring /\ ~EarlyHTTP =>
        /\ \A s \in Sessions : reader[s] = "none"
        /\ \A k \in Kinds : /\ \A i \in DOMAIN rq[k] : rq[k][i].type = "ADDED"
                            /\ worker[k].type = "ADDED"

(* What the client events on their way say of the record of c, and what    *)
(* becomes of it when they are applied.                                    *)
SilentOn(c) == \A i \in DOMAIN cq : cq[i].client # c
LastSays(c, type) ==
    \E i \in DOMAIN cq :
        /\ cq[i].client = c /\ cq[i].type = type
        /\ \A j \in DOMAIN cq : cq[j].client = c => j <= i
WillHave(c) == LastSays(c, "ADDED") \/ (SilentOn(c) /\ c \in clients)
WillForget(c) == LastSays(c, "DELETED") \/ (SilentOn(c) /\ c \notin clients)

(* A session keeps the record of its client from its ADDED event to its    *)
(* Close; one registered after its Close keeps it for ever.                *)
KeepsRecord(s, c) ==
    /\ clientID[s] = c
    /\ reader[s] = "conn" \/ (s \in registered /\ (s \notin done \/ s \in late))

(* The ID of a session is its certificate's or the one it registers with,  *)
(* it has one when it is registered or in the map, and no goroutine of an  *)
(* ended session has left out Close.                                       *)
SessionsInStep ==
    \A s \in Sessions :
        /\ clientID[s] # None => clientID[s] \in Names(s)
        /\ reader[s] = "none" =>
             clientID[s] = None /\ s \notin registered \cup done \cup alone
        /\ reader[s] = "gone" => s \in done
        /\ s \in registered => clientID[s] # None
        /\ tracker[s] \in Tracking => clientID[s] # None

(* A session that is alone shares its names with no session that acts, so  *)
(* the map names it as long as it is tracked, and its client's record is   *)
(* there once the events are applied.                                      *)
AloneIsReachable ==
    \A s \in alone :
        /\ ~Ended(s) => \A t \in Sessions \ {s} :
              reader[t] = "none" \/ Ended(t) \/ Names(s) \cap Names(t) = {}
        /\ tracker[s] \in Tracking => sessions[clientID[s]] = s
        /\ ~lost /\ s \notin done /\ (s \in registered \/ reader[s] = "conn")
              => WillHave(clientID[s])

(* A record that no session keeps is forgotten once the events are applied. *)
RecordsAccounted ==
    ~lost => \A c \in Clients : WillForget(c) \/ \E s \in Sessions : KeepsRecord(s, c)

(* Why the session of the map is told of everything, a session that is     *)
(* alone can be reached and a client without sessions is forgotten         *)
(* (server.go:183-208, 319-338, 502-697).                                  *)
SessionInv ==
    /\ TypeOK
    /\ MapIsLive
    /\ IDsInPlace
    /\ WorkersInStep
    /\ RestoreIsQuiet
    /\ ~EarlyHTTP => ToldOrToBe
    /\ SessionsInStep
    /\ AloneIsReachable
    /\ RecordsAccounted

(* A session that is done leaves the map, and its goroutines end: no one   *)
(* waits for ever in Close, in the select or in the synchronisation        *)
(* (server.go:319, 502).                                                   *)
SessionEnds ==
    \A s \in Sessions :
        s \in done ~> Ended(s) /\ \A c \in Clients : sessions[c] # s

(* A client that reconnects is reachable, even if the server has yet to    *)
(* notice that its old connection is gone (src/README.md:16).              *)
ReconnectIsReachable ==
    ClientsHandled /\ ~lost =>
        \A s \in registered :
            tracker[s] = "block" /\ s \notin done
            /\ (\A t \in Sessions \ {s} : Ended(t))
                => sessions[clientID[s]] = s
=============================================================================

------------------------------- MODULE Workers -------------------------------
(***************************************************************************)
(* The worker generation of the server (BBgrid_Server/workers): the        *)
(* connections of the nodes (conn.go, ws.go), the state they and the       *)
(* administrator share (state.go), the proxies and relays that ControlWorker *)
(* creates and closes (control.go), the listeners of DataWorker (data.go)  *)
(* and the passes of ReconcileWorker (reconcile.go).                       *)
(*                                                                         *)
(* A connection and the client table that its registration stores have one *)
(* number.  A step is what happens between two accesses to shared state: a *)
(* sync.Map or the maps under portMu, proxyMu, relayMu and lnMu are each   *)
(* accessed alone.  Left out: the tokens of websocket tunnels (nothing     *)
(* reads the tunnels they admit), the pairing of users and tunnels, which  *)
(* is that of the TunnelPairing module, and full send queues.              *)
(***************************************************************************)
EXTENDS LegacyRegistry

CONSTANTS
    Keys,           \* the proxies: <<client, remote port>>
    Pairs,          \* the relays that are asked for: <<source, target>>
    MaxConns,       \* bound: connections
    MaxCalls,       \* bound: calls of the administrator
    MaxListens,     \* bound: StartTCPProxy goroutines at a time
    MaxRelays       \* bound: relays

ASSUME KeysAssumption == Keys \subseteq Clients \X Nat
ASSUME PairsAssumption == Pairs \subseteq Clients \X Clients
ASSUME BoundsAssumption == /\ MaxListens \in Nat /\ MaxRelays \in Nat
                           /\ MaxConns \in Nat /\ MaxCalls \in Nat

Callers == {"admin", "reconcile"}
Slots == 1..MaxListens
Ports == {k[2] : k \in Keys}
NoKey == <<>>
NoPair == <<>>

VARIABLES
    conn,       \* the connections, in the order they are accepted
    clients,    \* StateWorker.clients: the number of the table, or 0
    proxies,    \* the proxies of every table: a sequence of sets of ports
    portIndex,  \* [Ports -> Clients or {}]
    desired,    \* desiredProxies
    stored,     \* the proxies in the storage
    sessions,   \* relaySessions
    desiredRelays,
    listeners,  \* DataWorker.listeners: [Keys -> slot or 0]
    task,       \* [Slots -> StartTCPProxy goroutine]
    op,         \* [Callers -> the call under way]
    todo,       \* toRestore of the pass: the keys left, then the relays left
    calls,      \* calls made, with those that left something stored
    imported,   \* history: the relays that the start found stored
    excused,    \* history: the proxies that a call of each kind overlapped on,
                \* or whose listener CloseListener could not find
    unanswered  \* history: the temporary nodes whose answer failed

connVars == <<conn, clients, proxies>>
proxyVars == <<portIndex, desired, stored>>
relayVars == <<sessions, desiredRelays>>
listenVars == <<listeners, task>>
callVars == <<op, todo>>
bounds == <<calls, imported>>
workersVars == <<registryVars, connVars, proxyVars, relayVars, listenVars, callVars,
          bounds, excused, unanswered>>

Conns == [who : Clients, temp : BOOLEAN, named : BOOLEAN,
          reg : {"no", "old", "done"}, old : Nat,
          close : {"no", "remove", "ports", "closed"}]

Relays == [id : 1..MaxRelays, pair : Pairs, by : Callers]
StoredRelays == {x \in Relays : x.by = "reconcile"}

Call(at, k) == [at |-> at, key |-> k, pair |-> NoPair, id |-> 0]
Idle == Call("idle", NoKey)
NoTask == [at |-> "free", key |-> NoKey]
NoClient == {}

Tasks == [at : {"free", "start", "open", "closed"}, key : Keys \cup {NoKey}]

Ops == [at : {"idle", "add", "store", "start", "unlisten", "unport", "remove",
              "unstore", "next", "relist", "relays", "source", "target"},
        key : Keys \cup {NoKey}, pair : Pairs \cup {NoPair}, id : 0..MaxRelays]

WorkersTypeOK ==
    /\ RegistryTypeOK
    /\ conn \in Seq(Conns)
    /\ proxies \in Seq(SUBSET Ports) /\ Len(proxies) = Len(conn)
    /\ clients \in [Clients -> 0..Len(conn)]
    /\ portIndex \in [Ports -> Clients \cup {NoClient}]
    /\ desired \subseteq Keys /\ stored \subseteq Keys
    /\ sessions \subseteq Relays /\ desiredRelays \subseteq Relays
    /\ listeners \in [Keys -> 0..MaxListens]
    /\ task \in [Slots -> Tasks] /\ op \in [Callers -> Ops]
    /\ todo \in [keys : SUBSET Keys, relays : SUBSET Relays]
    /\ imported \subseteq Pairs /\ excused \subseteq Keys
    /\ unanswered \subseteq Clients

(* A start: the registry is loaded, the stored proxies and relays become   *)
(* the desired ones (the Import of the two providers), all else is empty.  *)
WorkersInit ==
    /\ RegistryInit
    /\ conn = <<>> /\ proxies = <<>> /\ clients = [c \in Clients |-> 0]
    /\ stored \in SUBSET Keys /\ desired = stored
    /\ portIndex = [p \in Ports |-> NoClient]
    /\ desiredRelays \in {R \in SUBSET StoredRelays :
                            \A x, y \in R : x.id = y.id => x = y}
    /\ imported = {x.pair : x \in desiredRelays}
    /\ sessions = {}
    /\ listeners = [k \in Keys |-> 0] /\ task = [g \in Slots |-> NoTask]
    /\ op = [p \in Callers |-> Idle]
    /\ todo = [keys |-> {}, relays |-> {}]
    /\ calls = Cardinality(stored) + Cardinality(desiredRelays)
    /\ excused = {} /\ unanswered = {}

Rest == <<proxyVars, relayVars, listenVars, callVars, bounds, excused,
          unanswered>>

-----------------------------------------------------------------------------
(* Connections.                                                            *)

Accepted(c, temp) ==
    [who |-> c, temp |-> temp, named |-> temp,
     reg |-> IF temp THEN "done" ELSE "no", old |-> 0, close |-> "no"]

Accept(c, temp) ==
    /\ Len(conn) < MaxConns
    /\ conn' = Append(conn, Accepted(c, temp))
    /\ proxies' = Append(proxies, {})
    /\ UNCHANGED clients

(* Handle: the certificate's node must be approved now.                    *)
Handle(c) ==
    /\ record[c].status = "approved"
    /\ Accept(c, FALSE)
    /\ UNCHANGED <<registryVars, Rest>>

(* HandleTemp: the node is recorded, and answered, whether or not the      *)
(* registry took it; it gets a name and no client table.  When the answer  *)
(* cannot be written the record stays.                                     *)
HandleTemp(c) ==
    /\ AddTempClient(c)
    /\ \/ /\ Accept(c, TRUE)
          /\ UNCHANGED Rest
       \/ /\ record'[c].status = "temp"
          /\ unanswered' = unanswered \cup {c}
          /\ UNCHANGED <<connVars, proxyVars, relayVars, listenVars, callVars,
                         bounds, excused>>

(* handleRegister: the connection that the node is registered with is      *)
(* closed and the close waited for (closeOnce), ...                        *)
RegisterFindsOld(i) ==
    LET o == clients[conn[i].who]
        found == [conn EXCEPT ![i].reg = "old", ![i].old = o] IN
    /\ conn[i].reg = "no"
    /\ conn' = IF o # 0 /\ conn[o].close = "no"
               THEN [found EXCEPT ![o].close = "remove"] ELSE found
    /\ UNCHANGED <<registryVars, clients, proxies, Rest>>

(* ... then the connection gets its name and the node a new table, even if *)
(* the connection has been closed in the meantime.                         *)
AddClient(i) ==
    /\ conn[i].reg = "old"
    /\ conn[i].old # 0 => conn[conn[i].old].close = "closed"
    /\ conn' = [conn EXCEPT ![i].reg = "done", ![i].old = 0, ![i].named = TRUE]
    /\ clients' = [clients EXCEPT ![conn[i].who] = i]
    /\ UNCHANGED <<registryVars, proxies, Rest>>

(* Close, once per connection.                                             *)
CloseConn(i) ==
    /\ conn[i].close = "no"
    /\ conn' = [conn EXCEPT ![i].close =
                    IF conn[i].named THEN "remove" ELSE "closed"]
    /\ UNCHANGED <<registryVars, clients, proxies, Rest>>

(* readPump ends when a read fails; handleRegister runs in it.             *)
ReadFails(i) == conn[i].reg # "old" /\ CloseConn(i)

(* writePump ends when a write fails, a ping's perhaps.                    *)
WriteFails(i) == CloseConn(i)

(* Start closes a connection that is not registered after 30 seconds.      *)
RegisterTimesOut(i) == conn[i].reg # "done" /\ CloseConn(i)

(* RemoveClient goes by the name: what it empties, deletes and unindexes   *)
(* is the node's, whichever connection put it there.                       *)
RemoveClient(i) ==
    LET t == clients[conn[i].who] IN
    /\ conn[i].close = "remove"
    /\ conn' = [conn EXCEPT ![i].close = IF t = 0 THEN "closed" ELSE "ports"]
    /\ clients' = [clients EXCEPT ![conn[i].who] = 0]
    /\ proxies' = IF t = 0 THEN proxies ELSE [proxies EXCEPT ![t] = {}]
    /\ IF t = 0 /\ conn[i].temp THEN RemoveTempClient(conn[i].who)
                                ELSE UNCHANGED registryVars
    /\ UNCHANGED Rest

CloseEnds(i) ==
    /\ conn[i].close = "ports"
    /\ conn' = [conn EXCEPT ![i].close = "closed"]
    /\ portIndex' = [p \in Ports |->
          IF portIndex[p] = conn[i].who THEN NoClient ELSE portIndex[p]]
    /\ IF conn[i].temp THEN RemoveTempClient(conn[i].who)
                       ELSE UNCHANGED registryVars
    /\ UNCHANGED <<clients, proxies, desired, stored, relayVars, listenVars,
                   callVars, bounds, excused, unanswered>>

-----------------------------------------------------------------------------
(* Calls.  The administrator makes one call at a time; the reconcile       *)
(* worker makes its own beside it.                                         *)

Called == calls < MaxCalls /\ calls' = calls + 1

(* SendCommand: the select of WriteJSON may take the queue of a connection *)
(* that is closed.                                                         *)
MaySend(c) == clients[c] # 0
MayFail(c) == clients[c] # 0 => conn[clients[c]].close # "no"

Creating == {"relist", "add", "store", "start"}
Closing == {"unlisten", "unport", "remove", "unstore"}

Overlapped(k, ats) ==
    IF \E q \in Callers : op[q].key = k /\ op[q].at \in ats
    THEN excused \cup {k} ELSE excused

(* What a caller does after CreateProxy: the pass goes on.                 *)
After(p) == Call(IF p = "admin" THEN "idle" ELSE "next", NoKey)
AfterRelay(p) == Call(IF p = "admin" THEN "idle" ELSE "relays", NoKey)

Step(p, at) == op' = [op EXCEPT ![p].at = at]

(* CreateProxy: the node must be there and the command go out; ...         *)
CreateSends(p, k) ==
    /\ MaySend(k[1])
    /\ op' = [op EXCEPT ![p] = Call("add", k)]
    /\ excused' = Overlapped(k, Closing)
    /\ UNCHANGED <<registryVars, connVars, proxyVars, relayVars, listenVars,
                   todo, imported, unanswered>>

CreateProxy(k) == op["admin"].at = "idle" /\ Called /\ CreateSends("admin", k)

(* ... AddProxy writes to the table it finds now, and without one nothing  *)
(* at all, while CreateProxy goes on;                                      *)
AddProxy(p) ==
    LET k == op[p].key
        t == clients[k[1]] IN
    /\ op[p].at = "add" /\ Step(p, IF t = 0 THEN "start" ELSE "store")
    /\ IF t = 0 THEN UNCHANGED <<proxies, desired>>
       ELSE /\ proxies' = [proxies EXCEPT ![t] = @ \cup {k[2]}]
            /\ desired' = desired \cup {k}
    /\ excused' = IF t = 0 THEN excused \cup {k} ELSE excused
    /\ UNCHANGED <<registryVars, conn, clients, portIndex, stored, relayVars,
                   listenVars, todo, bounds, unanswered>>

Quiet == UNCHANGED <<registryVars, connVars, relayVars, todo, bounds, unanswered>>

(* the proxy is stored, its port indexed and StartTCPProxy started.        *)
StartProxy(p) ==
    LET k == op[p].key IN
    /\ op[p].at \in {"store", "start"}
    /\ stored' = IF op[p].at = "store" THEN stored \cup {k} ELSE stored
    /\ portIndex' = [portIndex EXCEPT ![k[2]] = k[1]]
    /\ \E g \in Slots :
         /\ task[g] = NoTask
         /\ \A h \in Slots : task[h] = NoTask => g <= h
         /\ task' = [task EXCEPT ![g] = [at |-> "start", key |-> k]]
    /\ op' = [op EXCEPT ![p] = After(p)]
    /\ Quiet /\ UNCHANGED <<desired, listeners, excused>>

(* CloseProxy goes by the port index: a port of a node that is not         *)
(* connected, or that a late RemoveClient unindexed, is not found.         *)
CloseProxy(k) ==
    /\ op["admin"].at = "idle" /\ Called
    /\ portIndex[k[2]] = k[1]
    /\ op' = [op EXCEPT !["admin"] = Call("unlisten", k)]
    /\ excused' = Overlapped(k, Creating)
    /\ UNCHANGED <<registryVars, connVars, proxyVars, relayVars, listenVars,
                   todo, imported, unanswered>>

(* Mutated form of Shut: the listener is not closed.                       *)
NotShut(k) == task
Shut(k) == [g \in Slots |-> IF g = listeners[k] /\ task[g].at = "open"
                            THEN [task[g] EXCEPT !.at = "closed"]
                            ELSE task[g]]

(* CloseListener: a goroutine that has not listened yet is not reached.    *)
CloseListener(k) ==
    /\ task' = Shut(k)
    /\ excused' = IF \E g \in Slots : task[g].key = k /\ task[g].at = "start"
                  THEN excused \cup {k} ELSE excused
    /\ UNCHANGED listeners

CloseListens(p) ==
    /\ op[p].at = "unlisten" /\ Step(p, "unport")
    /\ CloseListener(op[p].key)
    /\ Quiet /\ UNCHANGED proxyVars

UnregisterPort(p) ==
    /\ op[p].at = "unport" /\ Step(p, "remove")
    /\ portIndex' = [portIndex EXCEPT ![op[p].key[2]] = NoClient]
    /\ Quiet /\ UNCHANGED <<desired, stored, listenVars, excused>>

(* RemoveProxy does nothing for a node that has gone: the proxy stays      *)
(* desired and comes back with the node.                                   *)
RemoveProxy(p) ==
    LET k == op[p].key
        t == clients[k[1]] IN
    /\ op[p].at = "remove"
    /\ IF t = 0 THEN /\ op' = [op EXCEPT ![p] = Idle]
                     /\ UNCHANGED <<proxies, desired>>
       ELSE /\ Step(p, "unstore")
            /\ proxies' = [proxies EXCEPT ![t] = @ \ {k[2]}]
            /\ desired' = desired \ {k}
    /\ UNCHANGED <<registryVars, conn, clients, portIndex, stored, relayVars,
                   listenVars, todo, bounds, excused, unanswered>>

(* Mutated form of Unstored: the proxy stays in the storage.               *)
StillStored(k) == stored
Unstored(k) == stored \ {k}

UnstoreProxy(p) ==
    /\ op[p].at = "unstore"
    /\ op' = [op EXCEPT ![p] = Idle]
    /\ stored' = Unstored(op[p].key)
    /\ Quiet /\ UNCHANGED <<portIndex, desired, listenVars, excused>>

-----------------------------------------------------------------------------
(* StartTCPProxy.                                                          *)

TaskStep == UNCHANGED <<registryVars, connVars, proxyVars, relayVars, callVars,
                        bounds, unanswered>>

(* net.Listen: when the port is taken the goroutine returns and nobody     *)
(* learns of it.                                                           *)
Listen(g) ==
    LET k == task[g].key IN
    /\ task[g].at = "start"
    /\ IF \E h \in Slots : task[h].at = "open" /\ task[h].key[2] = k[2]
       THEN task' = [task EXCEPT ![g] = NoTask] /\ UNCHANGED listeners
       ELSE /\ task' = [task EXCEPT ![g].at = "open"]
            /\ listeners' = [listeners EXCEPT ![k] = g]
    /\ UNCHANGED excused /\ TaskStep

(* The deferred function deletes the entry of the key, whoever's it is now. *)
ListenEnds(g) ==
    LET k == task[g].key IN
    /\ task[g].at = "closed"
    /\ task' = [task EXCEPT ![g] = NoTask]
    /\ listeners' = [listeners EXCEPT ![k] = 0]
    /\ excused' = IF listeners[k] \in {0, g} THEN excused ELSE excused \cup {k}
    /\ TaskStep

-----------------------------------------------------------------------------
(* Relays.                                                                 *)

Online(pair) == clients[pair[1]] # 0 /\ clients[pair[2]] # 0

(* CreateRelay: both nodes must be there; the session is stored under a    *)
(* new id before either is told.                                           *)
CreateRelaySession(p, pair) ==
    /\ Online(pair)
    /\ \E id \in 1..MaxRelays :
         LET r == [id |-> id, pair |-> pair, by |-> p] IN
         /\ \A x \in sessions \cup desiredRelays : x.id # id
         /\ \A j \in 1..(id - 1) :
               \E x \in sessions \cup desiredRelays : x.id = j
         /\ sessions' = sessions \cup {r}
         /\ desiredRelays' = desiredRelays \cup {r}
         /\ op' = [op EXCEPT ![p] = [at |-> "source", key |-> NoKey,
                                     pair |-> pair, id |-> id]]
    /\ UNCHANGED <<registryVars, connVars, proxyVars, listenVars, imported,
                   excused, unanswered>>

CreateRelay(pair) ==
    /\ op["admin"].at = "idle" /\ Called
    /\ CreateRelaySession("admin", pair) /\ UNCHANGED todo

RemoveRelaySession(id) ==
    /\ sessions' = {x \in sessions : x.id # id}
    /\ desiredRelays' = {x \in desiredRelays : x.id # id}

RelayRest == UNCHANGED <<registryVars, connVars, proxyVars, listenVars, excused,
                         unanswered>>

RelaySent(p) ==
    /\ op[p].at \in {"source", "target"}
    /\ MaySend(op[p].pair[IF op[p].at = "source" THEN 1 ELSE 2])
    /\ IF op[p].at = "source" THEN Step(p, "target")
                              ELSE op' = [op EXCEPT ![p] = AfterRelay(p)]
    /\ RelayRest /\ UNCHANGED <<relayVars, todo, bounds>>

(* A node that cannot be told ends the session; the source that has been   *)
(* told of it is not told of that.                                         *)
RelayNotSent(p) ==
    /\ op[p].at \in {"source", "target"}
    /\ MayFail(op[p].pair[IF op[p].at = "source" THEN 1 ELSE 2])
    /\ RemoveRelaySession(op[p].id)
    /\ op' = [op EXCEPT ![p] = AfterRelay(p)]
    /\ RelayRest /\ UNCHANGED <<todo, bounds>>

CloseRelay(id) ==
    /\ op["admin"].at = "idle" /\ Called
    /\ \E x \in sessions \cup desiredRelays : x.id = id
    /\ RemoveRelaySession(id)
    /\ RelayRest /\ UNCHANGED <<callVars, imported>>

-----------------------------------------------------------------------------
(* A pass of the reconcile worker.                                         *)

PassRest == UNCHANGED <<registryVars, connVars, proxyVars, relayVars, bounds,
                        unanswered>>

(* Mutated form of Missing: the tables of the nodes are not looked at.     *)
MissingNode(k) == clients[k[1]] = 0
(* reconcileProxies collects, under proxyMu, the proxies that are desired  *)
(* and not in the table of their node.                                     *)
Missing(k) == clients[k[1]] = 0 \/ k[2] \notin proxies[clients[k[1]]]

(* Run of the worker: a tick or a trigger starts a pass after the last one *)
(* has ended.                                                              *)
PassBegins == op["reconcile"].at = "idle" /\ Step("reconcile", "next")

ReconcileProxies ==
    /\ PassBegins
    /\ todo' = [todo EXCEPT !.keys = {k \in desired : Missing(k)}]
    /\ PassRest /\ UNCHANGED <<listenVars, excused>>

(* A node that is not there is skipped; of one that is, the listener is    *)
(* closed before CreateProxy is called.                                    *)
RestoreProxy(k) ==
    /\ op["reconcile"].at = "next" /\ k \in todo.keys
    /\ todo' = [todo EXCEPT !.keys = @ \ {k}]
    /\ IF clients[k[1]] = 0 THEN UNCHANGED <<op, listenVars, excused>>
       ELSE /\ op' = [op EXCEPT !["reconcile"] =
                        Call("relist", k)]
            /\ CloseListener(k)
    /\ PassRest

RestoreCreates ==
    /\ op["reconcile"].at = "relist" /\ CreateSends("reconcile", op["reconcile"].key)
    /\ UNCHANGED calls

RestoreFails ==
    /\ op["reconcile"].at = "relist" /\ MayFail(op["reconcile"].key[1])
    /\ op' = [op EXCEPT !["reconcile"] = After("reconcile")]
    /\ PassRest /\ UNCHANGED <<todo, listenVars, excused>>

(* reconcileRelays collects the desired relays that have no session: those *)
(* imported by a start, whose sessions will have other ids.                *)
ReconcileRelays ==
    /\ op["reconcile"].at = "next" /\ todo.keys = {}
    /\ Step("reconcile", "relays")
    /\ todo' = [todo EXCEPT !.relays = desiredRelays \ sessions]
    /\ PassRest /\ UNCHANGED <<listenVars, excused>>

RestoreRelay(r) ==
    /\ op["reconcile"].at = "relays" /\ r \in todo.relays
    /\ todo' = [todo EXCEPT !.relays = @ \ {r}]
    /\ \/ CreateRelaySession("reconcile", r.pair) /\ UNCHANGED calls
       \/ /\ ~Online(r.pair) \/ Cardinality(sessions \cup desiredRelays) = MaxRelays
          /\ PassRest /\ UNCHANGED <<op, listenVars, excused>>

PassEnds ==
    /\ op["reconcile"].at = "relays" /\ todo.relays = {}
    /\ Step("reconcile", "idle")
    /\ PassRest /\ UNCHANGED <<todo, listenVars, excused>>

-----------------------------------------------------------------------------
(* The registry, in the hands of nodes that apply and the administrator.   *)
Administer ==
    /\ Called
    /\ \E c \in Clients :
         \/ AddApplication(c)
         \/ \E n \in Namespaces : Approve(c, n)
         \/ Delete(c)
         \/ \E n \in Namespaces : SetClientNamespace(c, n)
    /\ UNCHANGED <<connVars, proxyVars, relayVars, listenVars, callVars,
                   imported, excused, unanswered>>

ConnStep(i) ==
    \/ RegisterFindsOld(i)
    \/ AddClient(i)
    \/ RemoveClient(i)
    \/ CloseEnds(i)

CallStep(p) ==
    \/ AddProxy(p)
    \/ StartProxy(p)
    \/ CloseListens(p)
    \/ UnregisterPort(p)
    \/ RemoveProxy(p)
    \/ UnstoreProxy(p)
    \/ RelaySent(p)
    \/ RelayNotSent(p)

PassStep ==
    \/ ReconcileProxies
    \/ \E k \in Keys : RestoreProxy(k)
    \/ RestoreCreates
    \/ RestoreFails
    \/ ReconcileRelays
    \/ \E r \in todo.relays : RestoreRelay(r)
    \/ PassEnds

TaskSteps(g) == Listen(g) \/ ListenEnds(g)

WorkersNext ==
    \/ Administer
    \/ \E c \in Clients : Handle(c) \/ HandleTemp(c)
    \/ \E i \in DOMAIN conn : ReadFails(i) \/ WriteFails(i) \/ RegisterTimesOut(i)
    \/ \E i \in DOMAIN conn : ConnStep(i)
    \/ \E k \in Keys : CreateProxy(k) \/ CloseProxy(k)
    \/ \E pair \in Pairs : CreateRelay(pair)
    \/ \E id \in 1..MaxRelays : CloseRelay(id)
    \/ \E p \in Callers : CallStep(p)
    \/ PassStep
    \/ \E g \in Slots : TaskSteps(g)

WorkersSpec == WorkersInit /\ [][WorkersNext]_workersVars

(* The scheduler runs every goroutine, and the ticker starts pass after    *)
(* pass.                                                                   *)
WorkersFairSpec ==
    /\ WorkersSpec
    /\ WF_workersVars(PassStep)
    /\ \A p \in Callers : WF_workersVars(CallStep(p))
    /\ \A g \in Slots : WF_workersVars(TaskSteps(g))
    /\ \A i \in 1..MaxConns : WF_workersVars(i \in DOMAIN conn /\ ConnStep(i))

-----------------------------------------------------------------------------
(* Properties.                                                             *)

(* StartTCPProxy deletes the entry of its key when it ends, so an entry of  *)
(* DataWorker.listeners is always that of a goroutine of this key that has *)
(* not ended.                                                              *)
ListedIsRunning ==
    \A k \in Keys : listeners[k] # 0 =>
        /\ task[listeners[k]].key = k
        /\ task[listeners[k]].at \in {"open", "closed"}

(* Whatever is approved, moved, replaced and removed: a node is in the list *)
(* of the namespace its record names.                                      *)
ListedWhereAssigned ==
    \A c \in Clients : record[c].ns # "none" => c \in members[record[c].ns]

CallsDone == \A p \in Callers : op[p].key = NoKey

(* CloseProxy shuts the port before it takes the proxy from the desired    *)
(* ones: a listener is open only for a desired proxy.  The exceptions are the code's *)
(* own: AddProxy found no table and CreateProxy went on; CloseListener came *)
(* before the goroutine had listened; the goroutine of the listener before *)
(* it deleted its entry; or a close and a restoration of it overlapped.    *)
ClosedIsShut ==
    \A g \in Slots :
        task[g].at = "open" => task[g].key \in desired \cup excused

(* What a restart would bring back is what is desired, unless calls about  *)
(* the proxy overlapped: AddProxy and RemoveProxy write the storage after  *)
(* proxyMu is released.                                                    *)
StoredIsDesired ==
    CallsDone => \A k \in Keys \ excused : k \in stored <=> k \in desired

(* The reconcile worker makes a relay session only for a relay that the    *)
(* start imported: one that was created and closed since is never made     *)
(* again, because sessions and desired relays change under one lock.       *)
NoRelayRevived ==
    \A x \in sessions : x.by = "reconcile" => x.pair \in imported

(* The registry keeps no temporary node without a connection, except one   *)
(* whose answer HandleTemp could not write.                                *)
TempIsConnected ==
    \A c \in Clients : record[c].status = "temp" =>
        \/ c \in unanswered
        \/ \E i \in DOMAIN conn :
              conn[i].who = c /\ conn[i].temp /\ conn[i].close # "closed"

Adding == {"add", "store", "start"}
Shutting == {"unport", "remove", "unstore"}

(* A call holds the proxy or the relay it is about, and only the           *)
(* administrator closes.                                                   *)
CallsHold ==
    \A p \in Callers :
        /\ op[p].at \in Creating \cup Closing <=> op[p].key # NoKey
        /\ op[p].at \in {"source", "target"} => op[p].pair \in Pairs
        /\ op[p].at \in Closing => p = "admin"

(* A goroutine of StartTCPProxy has the key it was started for.            *)
TasksHold == \A g \in Slots : task[g].at # "free" => task[g].key \in Keys

(* A close and a creation of one proxy under way together are an overlap.  *)
OverlapsExcused ==
    \A k \in Keys \ excused : \A p, q \in Callers :
        ~ /\ op[p].key = k /\ op[p].at \in Closing
          /\ op[q].key = k /\ op[q].at \in Adding

(* Where a call is between the desired proxies and the storage.            *)
StoreInStep ==
    \A k \in Keys \ excused : \A p \in Callers : op[p].key = k =>
        /\ op[p].at # "start"
        /\ op[p].at = "store" => k \in desired
        /\ op[p].at = "unstore" => k \notin desired

(* The storage differs from the desired proxies only by what a call is     *)
(* about to write.                                                         *)
DifferIsPending ==
    \A k \in Keys \ excused :
        \/ k \in stored <=> k \in desired
        \/ \E p \in Callers : op[p].key = k /\ op[p].at \in {"store", "unstore"}

(* The one open listener of a proxy is the one that CloseListener finds.   *)
OpenIsListed ==
    \A g \in Slots :
        task[g].at = "open" /\ task[g].key \notin excused => listeners[task[g].key] = g

(* Once CloseListener has run, nothing listens or will listen for the proxy. *)
ShutStaysShut ==
    \A g \in Slots, p \in Callers :
        /\ op[p].at \in Shutting /\ op[p].key \notin excused
        /\ task[g].key = op[p].key
        => task[g].at \notin {"start", "open"}

(* A goroutine that listens or will listen does so for a desired proxy.    *)
ListensForDesired ==
    \A g \in Slots :
        task[g].at \in {"start", "open"} => task[g].key \in desired \cup excused

(* A desired relay without a session, and one that the pass is about to    *)
(* make a session for, was imported.                                       *)
RelaysImported ==
    /\ \A x \in sessions : x.by = "reconcile" => x.pair \in imported
    /\ \A x \in desiredRelays \ sessions : x.pair \in imported
    /\ \A x \in todo.relays : x.pair \in imported

(* A temporary node has its name from the start.                           *)
TempsNamed == \A i \in DOMAIN conn : conn[i].temp => conn[i].named

(* The books of the workers: what the listener map, the member lists, the  *)
(* storage (state.go:364), the relay tables and the registry (auth.go) say *)
(* of each other, under calls, reconcile passes and connections that overlap, *)
(* and how things stand in the middle of a call.                           *)
WorkersInv ==
    /\ WorkersTypeOK
    /\ ListedIsRunning /\ ListedWhereAssigned
    /\ StoredIsDesired /\ NoRelayRevived /\ TempIsConnected
    /\ CallsHold /\ TasksHold /\ OpenIsListed
    /\ OverlapsExcused /\ StoreInStep /\ DifferIsPending
    /\ ShutStaysShut /\ ListensForDesired
    /\ RelaysImported /\ TempsNamed

Reachable(c) == clients[c] # 0 /\ conn[clients[c]].close = "no"

(* A proxy that stays desired while its node stays reachable is listened   *)
(* for again and again, whatever the reconnections, restorations and       *)
(* closing calls before did to its listener.                               *)
DesiredIsServed ==
    \A k \in Keys :
        <>[](k \in desired /\ Reachable(k[1]))
            => []<>(\E g \in Slots : task[g] = [at |-> "open", key |-> k])
=============================================================================

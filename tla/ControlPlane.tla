---------------------------- MODULE ControlPlane ----------------------------
(***************************************************************************)
(* The proxy control plane of the server, from an HTTP request to the disk *)
(* and back:                                                               *)
(*   runtime/statestore.go    proxies, desiredProxies, portIndex           *)
(*   runtime/core.go          the core's event handler (apply, persist)    *)
(*   runtime/reconcile.go     the reconcile engine, provider.go behind it  *)
(*   common/store             event log, snapshots, meta store             *)
(*   plugins/persist          what is restored at a start                  *)
(*   plugins/proxy            the TCP listeners                            *)
(*   main.go                  the order in which the parts are started     *)
(*                                                                         *)
(* Events of the type "proxy" go through one FIFO channel and one worker   *)
(* (module EventBus shows that the bus provides this); a full channel      *)
(* drops the event and the publisher is not told.  Relay sessions take the *)
(* same path through the core, the store and the reconcile engine: a relay *)
(* is a key with a port of its own and no listener.                        *)
(*                                                                         *)
(* A proxy is its key <<client, port>>; the fields that are only carried   *)
(* along (local address, protocol) are left out, and what a bind address   *)
(* does to net.Listen is a choice (OtherSockets).  A map from keys is the  *)
(* set of its keys; portIndex, a map from ports to clients, is a set of    *)
(* <<client, port>> pairs with one pair per port.                          *)
(***************************************************************************)
EXTENDS Naturals, Sequences

CONSTANTS
    Clients, Ports,
    QueueCap,           \* capacity of the event channel: 256 in the code
    SnapshotInterval,   \* logged events between snapshots: 1000 in the code
    Early,              \* what may happen before the restore is over
    OtherSockets,       \* may other sockets and addresses decide a net.Listen?
    MaxRequests,        \* bound: requests and disconnects
    MaxStops            \* bound: crashes and shutdowns

ASSUME ControlAssumption ==
    /\ QueueCap \in Nat \ {0}
    /\ SnapshotInterval \in Nat \ {0}
    /\ Early \subseteq {"request", "reconcile"}
    /\ OtherSockets \in BOOLEAN
    /\ MaxRequests \in Nat
    /\ MaxStops \in Nat

VARIABLES
    \* on disk
    meta,           \* MetaStore: the keys in meta/proxy.json
    snapshot,       \* SnapshotStore.latest: a set of key sets, at most one
    \* in memory
    proxies, desiredProxies, portIndex,
    listeners,      \* TCPProvider.listeners
    eventCount,     \* StorageManager.eventCount
    restoring,      \* Core.restoring
    queue,          \* the event channel
    wpc, wev,       \* the bus worker: where it is and its event
    wplugin,        \* did the handlers it copied include the proxy plugin?
    boot,           \* how far main has come
    rpc, rleft,     \* persist.Run: where it is, keys still to publish
    recovered,      \* history: the restore is over and its events handled
    epc,            \* the reconcile engine: where it is,
    edesired, etodo,    \* the desired keys it read, the events it will publish
    trigger,        \* ReconcileEngine.triggerCh
    \* bounds and history
    requests, stops,
    handled,        \* keys whose last fully handled event was ADDED
    wanted          \* keys whose last accepted request was a create

disk == <<meta, snapshot>>
state == <<proxies, desiredProxies, portIndex>>
worker == <<wpc, wev, wplugin>>
restore == <<restoring, rpc, rleft, recovered>>
engine == <<epc, edesired, etodo>>
bounds == <<requests, stops>>
vars == <<disk, state, listeners, eventCount, restore, queue, worker, boot,
          engine, trigger, bounds, handled, wanted>>

Keys == Clients \X Ports
Event == [op : {"ADDED", "DELETED"}, key : Keys]
Added(k) == [op |-> "ADDED", key |-> k]
Deleted(k) == [op |-> "DELETED", key |-> k]

TypeOK ==
    /\ meta \subseteq Keys
    /\ snapshot \subseteq SUBSET Keys
    /\ proxies \subseteq Keys /\ desiredProxies \subseteq Keys
    /\ portIndex \subseteq Keys
    /\ listeners \subseteq Keys
    /\ eventCount \in 0..(SnapshotInterval - 1)
    /\ restoring \in BOOLEAN
    /\ queue \in Seq(Event)
    /\ Len(queue) <= QueueCap
    /\ wpc \in {"receive", "apply", "check", "put", "log", "remove", "plugin"}
    /\ wev \subseteq Event
    /\ wplugin \in BOOLEAN
    /\ boot \in {"down", "persist", "ready", "closing"}
    /\ rpc \in {"off", "start", "meta", "snapshot", "end", "done"}
    /\ rleft \subseteq Keys
    /\ recovered \in BOOLEAN
    /\ epc \in {"off", "idle", "read", "publish"}
    /\ edesired \subseteq Keys
    /\ etodo \subseteq Event
    /\ trigger \in BOOLEAN
    /\ requests \in 0..MaxRequests
    /\ stops \in 0..MaxStops
    /\ handled \subseteq Keys
    /\ wanted \subseteq Keys

(* The memory of a process that is not running.                            *)
MemoryEmpty ==
    /\ proxies = {} /\ desiredProxies = {} /\ portIndex = {}
    /\ listeners = {}
    /\ eventCount = 0
    /\ restoring = FALSE /\ rpc = "off" /\ rleft = {} /\ recovered = FALSE
    /\ queue = <<>>
    /\ wpc = "receive" /\ wev = {} /\ wplugin = FALSE
    /\ epc = "off" /\ edesired = {} /\ etodo = {}
    /\ trigger = FALSE

Init ==
    /\ meta = {} /\ snapshot = {}
    /\ boot = "down"
    /\ MemoryEmpty
    /\ requests = 0 /\ stops = 0
    /\ handled = {} /\ wanted = {}
-----------------------------------------------------------------------------
(* Publish: see module EventBus.                                           *)
Enqueue(e) ==
    queue' = IF boot # "closing" /\ Len(queue) < QueueCap
             THEN Append(queue, e) ELSE queue

(* The entry of a port is replaced; map assignment.                        *)
SetPort(index, k) == {l \in index : l[2] # k[2]} \cup {k}

(* Mutated form of DropPort: the entry of the port is left behind.         *)
KeepPort(index, k) == index

(* The entry of a port is deleted, whichever client it names.              *)
DropPort(index, k) == {l \in index : l[2] # k[2]}
-----------------------------------------------------------------------------
(* main: NewCore subscribes the core; the plugins are initialised in order *)
(* and persist.Run is started before the proxy plugin subscribes.          *)
BootPersist ==
    /\ boot = "down"
    /\ boot' = "persist"
    /\ rpc' = "start"
    /\ UNCHANGED <<disk, state, listeners, eventCount, restoring, rleft, recovered,
                   queue, worker, engine, trigger, bounds, handled, wanted>>

(* The proxy plugin subscribes, core.Start starts the reconcile engine and *)
(* the HTTP server begins to serve.                                        *)
BootReady ==
    /\ boot = "persist"
    /\ boot' = "ready"
    /\ epc' = "idle"
    /\ UNCHANGED <<disk, state, listeners, eventCount, restore, queue, worker,
                   edesired, etodo, trigger, bounds, handled, wanted>>

(* persist.Run: SetRestoring(true) and the list of the meta store.         *)
RestoreStart ==
    /\ rpc = "start"
    /\ restoring' = TRUE
    /\ rleft' = meta
    /\ rpc' = "meta"
    /\ UNCHANGED <<disk, state, listeners, eventCount, recovered, queue, worker,
                   boot, engine, trigger, bounds, handled, wanted>>

(* restoreFromMetaStore publishes ADDED for every key, in map order.       *)
RestoreMeta ==
    /\ rpc = "meta"
    /\ \/ \E k \in rleft : /\ Enqueue(Added(k))
                           /\ rleft' = rleft \ {k}
                           /\ rpc' = rpc
       \/ /\ rleft = {}
          /\ rpc' = "snapshot"
          /\ UNCHANGED <<queue, rleft>>
    /\ UNCHANGED <<disk, state, listeners, eventCount, restoring, recovered,
                   worker, boot, engine, trigger, bounds, handled, wanted>>

(* restoreSnapshot: StateStore.Restore writes the keys of the latest       *)
(* snapshot into the desired and the actual state and the port index; the  *)
(* order of a map decides which key of a port its index keeps.             *)
RestoreSnapshot ==
    /\ rpc = "snapshot"
    /\ rpc' = "end"
    /\ LET keys == UNION snapshot
       IN  /\ proxies' = proxies \cup keys
           /\ desiredProxies' = desiredProxies \cup keys
           /\ \E index \in SUBSET (portIndex \cup keys) :
                /\ \A k \in keys : \E l \in index : l[2] = k[2] /\ l \in keys
                /\ \A k, l \in index : k[2] = l[2] => k = l
                /\ \A k \in portIndex :
                     (\A l \in keys : l[2] # k[2]) => k \in index
                /\ portIndex' = index
    /\ UNCHANGED <<disk, listeners, eventCount, restoring, rleft, recovered,
                   queue, worker, boot, engine, trigger, bounds, handled, wanted>>

(* restoreAll (plugin state, not modelled) and SetRestoring(false).        *)
RestoreEnd ==
    /\ rpc = "end"
    /\ restoring' = FALSE
    /\ rpc' = "done"
    /\ recovered' = (queue = <<>> /\ wpc = "receive")
    /\ UNCHANGED <<disk, state, listeners, eventCount, rleft, queue, worker,
                   boot, engine, trigger, bounds, handled, wanted>>
-----------------------------------------------------------------------------
(* Nothing in the code makes a request, or the first pass of the reconcile *)
(* engine (5 seconds after core.Start), wait for the end of the restore.   *)
(* "request" \notin Early and "reconcile" \notin Early are assumptions on   *)
(* the users and on the time a restore takes.                              *)
NotTooEarly(what) == what \in Early \/ recovered

(* The HTTP server is up.                                                  *)
Serving ==
    /\ boot = "ready"
    /\ requests < MaxRequests
    /\ NotTooEarly("request")

(* handleCreateProxy: any client and port, a port in use is not refused.   *)
CreateProxy(k) ==
    /\ Serving
    /\ Enqueue(Added(k))
    /\ wanted' = wanted \cup {k}
    /\ requests' = requests + 1
    /\ UNCHANGED <<disk, state, listeners, eventCount, restore, worker, boot,
                   engine, trigger, stops, handled>>

(* handleDeleteProxy looks the port up among the proxies: the client is    *)
(* that of some proxy with the port.                                       *)
DeleteProxy(k) ==
    /\ Serving
    /\ k \in proxies
    /\ Enqueue(Deleted(k))
    /\ wanted' = wanted \ {k}
    /\ requests' = requests + 1
    /\ UNCHANGED <<disk, state, listeners, eventCount, restore, worker, boot,
                   engine, trigger, stops, handled>>

(* A client's DELETED event, applied by the worker of the client channel.  *)
ApplyClientDeleted(c) ==
    /\ boot = "ready"
    /\ requests < MaxRequests
    /\ portIndex' = {k \in portIndex : k[1] # c}
    /\ requests' = requests + 1
    /\ UNCHANGED <<disk, proxies, desiredProxies, listeners, eventCount,
                   restore, queue, worker, boot, engine, trigger, stops,
                   handled, wanted>>
-----------------------------------------------------------------------------
(* The bus worker takes an event and copies the handlers.                  *)
WorkerReceive ==
    /\ wpc = "receive"
    /\ queue # <<>>
    /\ wev' = {Head(queue)}
    /\ queue' = Tail(queue)
    /\ wplugin' = (boot \in {"ready", "closing"})
    /\ wpc' = "apply"
    /\ UNCHANGED <<disk, state, listeners, eventCount, restore, boot, engine,
                   trigger, bounds, handled, wanted>>

(* Mutated form of AppliedDesired: a DELETED event leaves the desired      *)
(* state alone.                                                            *)
AppliedDesiredAddsOnly(e) ==
    IF e.op = "ADDED" THEN desiredProxies \cup {e.key} ELSE desiredProxies

(* applyProxyEvent on desiredProxies.                                      *)
AppliedDesired(e) ==
    IF e.op = "ADDED" THEN desiredProxies \cup {e.key}
    ELSE desiredProxies \ {e.key}

(* StateStore.Apply, under its lock: applyProxyEvent.                      *)
CoreApply ==
    /\ wpc = "apply"
    /\ \E e \in wev :
         /\ proxies' = IF e.op = "ADDED" THEN proxies \cup {e.key}
                       ELSE proxies \ {e.key}
         /\ portIndex' = IF e.op = "ADDED" THEN SetPort(portIndex, e.key)
                         ELSE IF e.key \in proxies
                              THEN DropPort(portIndex, e.key) ELSE portIndex
         /\ desiredProxies' = AppliedDesired(e)
    /\ wpc' = "check"
    /\ UNCHANGED <<disk, listeners, eventCount, restore, queue, wev, wplugin,
                   boot, engine, trigger, bounds, handled, wanted>>

Handled(e) ==
    handled' = IF e.op = "ADDED" THEN handled \cup {e.key}
               ELSE handled \ {e.key}

(* The core reads the restoring flag: nothing is persisted while it is on. *)
CoreCheck ==
    /\ wpc = "check"
    /\ \E e \in wev :
         IF restoring
         THEN /\ wpc' = "plugin"
              /\ trigger' = TRUE
              /\ Handled(e)
         ELSE /\ wpc' = IF e.op = "ADDED" THEN "log" ELSE "remove"
              /\ UNCHANGED <<trigger, handled>>
    /\ UNCHANGED <<disk, state, listeners, eventCount, restore, queue, wev,
                   wplugin, boot, engine, bounds, wanted>>

(* Mutated form of LogEvent: the count is not reset after a snapshot.      *)
LogEventNoReset ==
    /\ eventCount' = eventCount + 1
    /\ snapshot' = IF eventCount + 1 >= SnapshotInterval THEN {meta} ELSE snapshot

(* EventStore.Append, and a snapshot of the meta store every               *)
(* SnapshotInterval events.                                                *)
LogEvent ==
    IF eventCount + 1 >= SnapshotInterval
    THEN eventCount' = 0 /\ snapshot' = {meta}
    ELSE eventCount' = eventCount + 1 /\ UNCHANGED snapshot

(* The logged event: for ADDED it comes before the meta store is written,  *)
(* for DELETED after; the core then triggers the reconcile engine.         *)
CoreLog ==
    /\ wpc = "log"
    /\ LogEvent
    /\ \E e \in wev :
         IF e.op = "ADDED"
         THEN wpc' = "put" /\ UNCHANGED trigger
         ELSE wpc' = "plugin" /\ trigger' = TRUE
    /\ UNCHANGED <<meta, state, listeners, restore, queue, wev, wplugin, boot,
                   engine, bounds, handled, wanted>>

(* Mutated form of MetaPut: the resource is logged but not saved.          *)
MetaNotPut(k) == meta

(* MetaStore.Put: written to a temporary file, renamed over the old one.   *)
MetaPut(k) == meta \cup {k}

(* AppendEventAndSave, its second half.                                    *)
CorePut ==
    /\ wpc = "put"
    /\ \E e \in wev : meta' = MetaPut(e.key) /\ Handled(e)
    /\ trigger' = TRUE
    /\ wpc' = "plugin"
    /\ UNCHANGED <<snapshot, state, listeners, eventCount, restore, queue, wev,
                   wplugin, boot, engine, bounds, wanted>>

(* DeleteResource, its first half: MetaStore.Delete.                       *)
CoreRemove ==
    /\ wpc = "remove"
    /\ \E e \in wev : meta' = meta \ {e.key} /\ Handled(e)
    /\ wpc' = "log"
    /\ UNCHANGED <<snapshot, state, listeners, eventCount, restore, queue, wev,
                   wplugin, boot, engine, trigger, bounds, wanted>>

(* No listener of the provider has the port.                               *)
PortFree(k) == \A l \in listeners : l[2] # k[2]

(* TCPProvider.Create: net.Listen fails while another listener has the     *)
(* port, and nothing is kept then.  If OtherSockets it fails also because  *)
(* of another process or a bind address that is not local, and succeeds on *)
(* a port in use at a different bind address.                              *)
ListenOutcomes(k) ==
    IF OtherSockets THEN {listeners, listeners \cup {k}}
    ELSE {IF PortFree(k) THEN listeners \cup {k} ELSE listeners}

(* Mutated form of ClosedListeners: a deleted proxy keeps its listener.    *)
KeptListeners(k) == listeners

(* TCPProvider.Delete closes the listener of the key.                      *)
ClosedListeners(k) == listeners \ {k}

(* The proxy plugin's handler, if it was subscribed.  The worker then      *)
(* takes the next event.                                                   *)
PluginHandle ==
    /\ wpc = "plugin"
    /\ \E e \in wev :
         listeners' \in IF ~wplugin THEN {listeners}
                        ELSE IF e.op = "DELETED" THEN {ClosedListeners(e.key)}
                        ELSE ListenOutcomes(e.key)
    /\ wpc' = "receive"
    /\ wev' = {}
    /\ wplugin' = FALSE
    /\ recovered' = (recovered \/ (rpc = "done" /\ queue = <<>>))
    /\ UNCHANGED <<disk, state, eventCount, restoring, rpc, rleft, queue, boot,
                   engine, trigger, bounds, handled, wanted>>
-----------------------------------------------------------------------------
(* doReconcile begins, by the ticker or by a pending trigger: it reads the *)
(* desired proxies under the store's lock and releases it.                 *)
ReconcileReadDesired ==
    /\ epc = "idle"
    /\ NotTooEarly("reconcile")
    /\ trigger' \in {trigger, FALSE}
    /\ edesired' = desiredProxies
    /\ epc' = "read"
    /\ UNCHANGED <<disk, state, listeners, eventCount, restore, queue, worker,
                   boot, etodo, bounds, handled, wanted>>

(* reconcileProxies and, for the keys that stand for relays,               *)
(* reconcileRelays compare: create what is only desired, delete what is    *)
(* only actual.                                                            *)
Differences(desired, actual) ==
    {Added(k) : k \in desired \ actual} \cup {Deleted(k) : k \in actual \ desired}

(* It then reads the actual proxies, under the lock again.                 *)
ReconcileReadActual ==
    /\ epc = "read"
    /\ etodo' = Differences(edesired, proxies)
    /\ edesired' = {}
    /\ epc' = "publish"
    /\ UNCHANGED <<disk, state, listeners, eventCount, restore, queue, worker,
                   boot, trigger, bounds, handled, wanted>>

(* EventBusReconcileProvider, to create as to delete, publishes an event   *)
(* and reports success whatever becomes of it, so no failure is counted    *)
(* and no backoff begins.                                                  *)
ProviderPublish(e) == Enqueue(e)

(* Creations come before deletions, each in map order.                     *)
ReconcilePublish ==
    /\ epc = "publish"
    /\ \/ \E e \in etodo :
            /\ e.op = "DELETED" => \A f \in etodo : f.op = "DELETED"
            /\ ProviderPublish(e)
            /\ etodo' = etodo \ {e}
            /\ epc' = epc
       \/ /\ etodo = {}
          /\ epc' = "idle"
          /\ UNCHANGED <<queue, etodo>>
    /\ UNCHANGED <<disk, state, listeners, eventCount, restore, worker, boot,
                   edesired, trigger, bounds, handled, wanted>>
-----------------------------------------------------------------------------
MemoryLost ==
    /\ proxies' = {} /\ desiredProxies' = {} /\ portIndex' = {}
    /\ listeners' = {}
    /\ eventCount' = 0
    /\ restoring' = FALSE /\ rpc' = "off" /\ rleft' = {} /\ recovered' = FALSE
    /\ queue' = <<>>
    /\ wpc' = "receive" /\ wev' = {} /\ wplugin' = FALSE
    /\ epc' = "off" /\ edesired' = {} /\ etodo' = {}
    /\ trigger' = FALSE

(* The process dies at any point.                                          *)
Crash ==
    /\ boot # "down"
    /\ stops < MaxStops
    /\ stops' = stops + 1
    /\ boot' = "down"
    /\ MemoryLost
    /\ UNCHANGED <<disk, requests, handled, wanted>>

(* SIGTERM: core.Stop closes the bus, which drains the channel ...         *)
ShutdownBegin ==
    /\ boot = "ready"
    /\ stops < MaxStops
    /\ stops' = stops + 1
    /\ boot' = "closing"
    /\ UNCHANGED <<disk, state, listeners, eventCount, restore, queue, worker,
                   engine, trigger, requests, handled, wanted>>

(* ... and storage.Close takes a last snapshot.                            *)
ShutdownEnd ==
    /\ boot = "closing"
    /\ queue = <<>> /\ wpc = "receive"
    /\ snapshot' = {meta}
    /\ boot' = "down"
    /\ MemoryLost
    /\ UNCHANGED <<meta, bounds, handled, wanted>>
-----------------------------------------------------------------------------
Boot == BootPersist \/ BootReady
Restore == RestoreStart \/ RestoreMeta \/ RestoreSnapshot \/ RestoreEnd
User ==
    \/ \E k \in Keys : CreateProxy(k) \/ DeleteProxy(k)
    \/ \E c \in Clients : ApplyClientDeleted(c)
Worker == \/ WorkerReceive \/ CoreApply \/ CoreCheck \/ CoreLog \/ CorePut
          \/ CoreRemove \/ PluginHandle
Reconcile == ReconcileReadDesired \/ ReconcileReadActual \/ ReconcilePublish
Stop == Crash \/ ShutdownBegin \/ ShutdownEnd

Next == Boot \/ Restore \/ User \/ Worker \/ Reconcile \/ Stop

Spec == Init /\ [][Next]_vars
-----------------------------------------------------------------------------
(* The server is up, its restore is over and every event is handled.       *)
Idle ==
    /\ boot = "ready" /\ rpc = "done"
    /\ queue = <<>> /\ wpc = "receive"

(* The desired and the actual state have the same keys at every moment, so *)
(* the reconcile engine finds a difference only when an event is applied   *)
(* between its two reads (statestore.go:365-402, 454-497).                 *)
DesiredIsActual == desiredProxies = proxies

(* The port index names one client per port, and only a client that really *)
(* has a proxy on it: deleting any proxy of a shared port, losing a client *)
(* and restoring a snapshot keep it so (statestore.go:347-353, 395-401).   *)
PortIndexSound ==
    /\ portIndex \subseteq proxies
    /\ \A k, l \in portIndex : k[2] = l[2] => k = l

(* The provider lists no listener of a proxy the state does not know:      *)
(* between two events every listed listener belongs to a proxy, whatever   *)
(* the plugin missed while it was not subscribed and whatever Listen did   *)
(* (proxy.go:84-129, 196-230).                                             *)
NoOrphanListener == wpc = "receive" => listeners \subseteq proxies

(* The worker holds one event exactly while it handles one; between the    *)
(* core's and the plugin's turn at a DELETED event its key may still have  *)
(* a listener; as long as the plugin is not subscribed there are none.     *)
ListenersAccounted ==
    /\ wpc = "receive" => wev = {}
    /\ \A e, f \in wev : e = f
    /\ boot \in {"down", "persist"} => listeners = {}
    /\ wpc # "receive" /\ ~wplugin => listeners = {}
    /\ wpc # "receive" /\ wplugin => boot \in {"ready", "closing"}
    /\ wpc \in {"receive", "apply"} => listeners \subseteq proxies
    /\ wpc \notin {"receive", "apply"} =>
         /\ \A k \in listeners : k \in proxies \/ Deleted(k) \in wev
         /\ \A e \in wev : e.op = "ADDED" => e.key \in proxies

(* Why the three invariants hold at every step (eventbus.go:123-150,       *)
(* proxy.go:84-129, statestore.go:365-402).                                *)
ControlInv == TypeOK /\ DesiredIsActual /\ PortIndexSound /\ ListenersAccounted

(* What was handled before a crash or a shutdown is there again once the   *)
(* server has recovered, if nobody sends requests and no reconcile pass    *)
(* begins during the recovery and the channel holds the restored events    *)
(* (persist.go:75-86, manager.go).  A pass that begins too early breaks    *)
(* it: a proxy that only the old snapshot has, deleted and added again by  *)
(* the engine while the restoring flag is on, is never saved.              *)
RecoveryComplete == Idle => handled \subseteq proxies

(* The events in the channel.                                              *)
Queued == {queue[i] : i \in DOMAIN queue}

(* The phases of a recovery: the flag is on while persist.Run restores,    *)
(* the worker has nothing to do before and the engine waits until it is    *)
(* over, and what is put was added, what is removed was deleted.           *)
RecoveryPhases ==
    /\ restoring <=> rpc \in {"meta", "snapshot", "end"}
    /\ recovered => rpc = "done"
    /\ boot = "down" => rpc = "off"
    /\ rpc \in {"off", "start"} => queue = <<>> /\ wpc = "receive"
    /\ rleft \subseteq meta
    /\ rpc # "meta" => rleft = {}
    /\ ~recovered => epc \in {"off", "idle"}
    /\ wpc = "put" => \A e \in wev : e.op = "ADDED"
    /\ wpc = "remove" => \A e \in wev : e.op = "DELETED"

(* Until the recovery is over only saved proxies are added, none deleted,  *)
(* so what is on disk is what was handled.                                 *)
DiskIsHandled ==
    /\ handled = meta
    /\ ~recovered => \A e \in Queued \cup wev : e.op = "ADDED" /\ e.key \in meta

(* A proxy on disk is in memory, or its restore is still to come, or its   *)
(* deletion has been applied and not yet saved.                            *)
DiskInMemory ==
    boot # "closing" =>
        /\ ~recovered /\ rpc \notin {"off", "start"} =>
             \A k \in meta : \/ k \in proxies \cup rleft
                             \/ Added(k) \in Queued
                             \/ wpc = "apply" /\ Added(k) \in wev
        /\ recovered =>
             \A k \in meta : \/ k \in proxies
                             \/ wpc \in {"check", "remove"} /\ Deleted(k) \in wev

(* README.md:16 promises that proxies come back after a restart; a deleted *)
(* proxy is not one of them (persist.go:170-189).                          *)
DeletedStaysDeleted == Idle => proxies \subseteq handled

(* main.go:93,96: the handlers are subscribed before the restore begins,   *)
(* so every restored proxy has its listener (README.md:199).               *)
RestoredListens == Idle => \A k \in proxies : ~PortFree(k)

(* README.md:11: the reconcile engine synchronises the desired and the     *)
(* actual state; once everything is handled the proxies are the ones the   *)
(* users asked for.                                                        *)
RequestsHonoured ==
    Idle /\ epc = "idle" => proxies = wanted
=============================================================================

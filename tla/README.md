# BBgrid: TLA+ models, checks and proofs

BBgrid exposes ports of clients through a public server (proxies) and connects
clients with each other (relays).  This directory models its logic: the event
bus and the control plane behind it, sessions, tunnels and relays on the
server, the client that follows them, the multiplexer between the two ends of a
relay, registration, external plugins, storage, and the worker generation that
preceded the current server.  Paths below are relative to `src/`.

## Inventory

| Component | State | Operations | What makes it correct |
|---|---|---|---|
| Event bus, `BBgrid_Server/runtime/eventbus.go` | a channel and a worker per resource type, subscriptions, sequence number, closed flag | Publish, Subscribe, Unsubscribe, Close, the workers | handlers of one type are serial; nothing accepted is lost or left behind by Close; Close returns |
| State store, `runtime/statestore.go` | clients, proxies, desired proxies, port index, relays | Apply, SetClientConn, Restore, the reads | desired and actual agree; the index names clients that have the port |
| Core, `runtime/core.go` | restoring flag, subscriptions | the handlers that apply, persist and trigger | what was handled survives a crash |
| Reconcile engine, `runtime/reconcile.go`, `provider.go` | trigger, backoff | read desired, read actual, publish the difference | acts only on real differences |
| Storage, `common/store` | event log, snapshots, meta files and their memory | AppendEventAndSave, DeleteResource, Close, the start | what was acknowledged is on disk; log numbers grow; a clean stop agrees with itself |
| Persist and tag plugins, `plugins/persist`, `plugins/tag` | dirty flag, `persist.json`, tags | restore, debounce, flush, set, delete, import, export | everything saved comes back, nothing else does |
| Proxy plugin, `plugins/proxy` | listeners by proxy key | Create, Delete, GetListener | a port is open exactly while its proxy exists |
| Sessions, `session/server.go` | a session per websocket, the map from client ID to session | Handle, register, trackSession, Close, the synchronisation, notifications | the map names live sessions; a client is told of all it has |
| Tunnels, `session/server.go`, `dataplane/server.go` | active loops, pending user connections | startTunnelLoop, AcceptTunnel, cleanup | one loop per proxy; one tunnel per user; everyone is answered |
| Relay pairing, `session/server.go`, `BBgrid_Client/handler/relay.go`, `plugins/relay` | pending ends, relay sessions of the nodes, source port | HandleRelay, relayWSPipe, signals, runSource, runTarget, clean-up | ends are joined one to one; what is over lets go |
| Multiplexer, `common/mux` | channels, windows, control queue, write loop, frame workers | open, send, close, dispatch, window updates | nothing is lost on an open channel; nobody sleeps on work; the window adds up |
| Authentication, `auth/auth.go`, `BBgrid_Client/client.go` | authority, vouchers, records, namespaces, the client's files | create, use, approve, re-key, revoke, load, start | a voucher is not overspent; a certificate fits its key and its authority |
| Client, `BBgrid_Client` | connection, contexts of tunnels, proxy table, pipes | handlers, readPump, writePump, tunnels, Stop | the node's tunnels are the server's proxies; what is cancelled ends |
| Plugin gRPC server, `common/plugin`, `common/sdk` | registered plugins, subscriber streams, result channels | Register, Subscribe, BroadcastEvent, ExecuteAction | no send on a closed channel; a call returns, with its own result |
| Legacy workers, `BBgrid_Server/workers` | client tables, desired and stored proxies, relays, listeners, registry | registration, create, close, reconcile passes | tables, storage and listeners agree; what is desired is served |
| HTTP API, main, other plugins, command line | little or none | | |

How they interact: HTTP handlers, sessions and the restore *publish* events;
the worker of each resource type calls the core (which applies the event to the
state store, writes the disk and triggers the reconcile engine), then the
plugins (listeners, relay signals), then the session layer (client
notifications, accept loops).  Sessions also read the state store directly when
a client connects, and the reconcile engine reads it at any time.  A client
turns the notifications into tunnels and relay attempts; the two ends of a
relay dial the server, which joins them, and run a multiplexer over the result.

What is hard here: every publisher, worker, session, loop and pipe is a
goroutine; checks and their uses lie in different critical sections; channels
drop events when full; a crash may fall between any two writes and a write may
fail; the restore runs while the rest of the server is starting; clients
reconnect before their old connection is noticed gone; a deferred clean-up may
hit the successor of what it was meant for.  `PROJECT.json` lists these hazards
line by line.

## Modules

| Module | Models | Proofs |
|---|---|---|
| `EventBus` (`MCEventBus`) | `eventbus.go`, one action per critical section | `ServerProofs` |
| `ControlPlane` (`MCControlPlane`) | a proxy from the HTTP request to the disk and back: state store, core, reconcile engine, storage, persist and proxy plugins, start, crash and shutdown | `ControlPlaneProofs` |
| `Sessions` (`MCSessions`) | reader and tracker of every session, the map, client records, the workers that notify clients, the restore | `SessionsProofs` |
| `TunnelLoop` (`MCTunnelLoop`) | `startTunnelLoop` called by the worker and by sessions, the listeners it accepts on | `TunnelProofs` |
| `TunnelPairing` (`MCTunnelPairing`) | a user connection waiting for the tunnel of its token: waiter, both entries of tunnels, `AcceptTunnel`, cleanup | `TunnelProofs` |
| `Stream` | what a channel of the multiplexer promises (abstract) | |
| `Mux` (`MCMux`) | two multiplexers over a connection; implements `Stream` | `MuxProofs` |
| `Registration` (`MCRegistration`) | server authority, vouchers and records with their files, the client's start and its files | `RegistrationProofs` |
| `ClientNode` (`MCClientNode`) | the client's handler, tunnels and pipes against what the server sends | `NodeProofs` |
| `Relay` (`MCRelay`) | one relay: attempts at both nodes, `HandleRelay`, `relayWSPipe` | `NodeProofs` |
| `PluginHost` | plugin gRPC server and one SDK plugin | `NodeProofs` |
| `LegacyRegistry`, `Workers` (`MCWorkers`) | `BBgrid_Server/workers`: registry, connections, state, control, listeners, reconcile passes | `ServerProofs` |
| `Storage` (`MCStorage`) | log, snapshots, meta files, plugin state, with failing and torn writes, crash and restart | `StorageProofs` |

`EventBus` shows what the other modules rely on: a type has one FIFO channel,
one worker, and handlers in the order of subscription.  They use a sequence
with a capacity in its place; a full one drops the event, as Publish does.
`ControlPlane` takes the disk as three atomic stores; `Storage` opens them up.
`Sessions` says what a client is told; `ClientNode` takes those messages and
says what becomes of them.  `Relay` says when two ends are joined; `Mux` is the
protocol they then speak.

Modules whose proofs share a proof module prefix the names of their
specification (`PairingSpec`, `RelaySpec`, `HostSpec`, `WorkersSpec`); the
others call it `Spec`.

**EventBus.**  A publisher is between its three critical sections
(`PublishBegin` draws the sequence number, `PublishLookup` finds or makes the
channel, `PublishSend` sends or drops).  A worker receives, copies the handler
list, and calls one handler per step.  Close marks, closes the stop channel,
closes the channels, waits, and clears.  Panicking handlers are recovered in
the code and change nothing here.

**ControlPlane.**  A proxy is its key `<<client, port>>`.  The worker's steps
are apply, the check of `restoring`, log (with the snapshot every
`SnapshotInterval` events), put or remove in the meta store, and the proxy
plugin; a crash may fall between any two.  `main` is the variable `boot`,
persist.Run is `rpc`.  `handled` and `wanted` are history.

**Sessions.**  `reader` is readPump with the register handler it calls,
`tracker` is trackSession, `worker[k]` the worker of proxy or relay events with
the notification it is sending, `told[s]` what the session `s` was told of.
`late`, `lost` and `alone` are history.

**TunnelLoop.**  A call of startTunnelLoop checks and sets the flag
(`CheckFlag`), looks the listener up (`GetListener`), accepts, and clears the
flag when it ends.  Listeners are numbered, so that a loop on a closed one is
told from one on its successor.

**TunnelPairing.**  Time is a clock that ages pending entries; `Timeout` is the
waiter's 30 seconds, `MaxAge` the age at which cleanupExpired removes an entry.

**Mux and Stream.**  A channel is a record with its send queue, window, inbox
and the bytes consumed but not given back.  Send is four steps (see the window,
take it, queue, notify); the write loop makes rounds over the channels it found
at their start; workers take frames off the wire and dispatch each in one to
three steps.  `Promise == INSTANCE Stream` maps what readers took to `got` and
what is accepted but neither taken nor anywhere under way to `lost`; `Stream`
allows a loss only once something was closed.  Message content is left out.

**Registration.**  Keys and authorities are numbered; a certificate is the pair
of both.  A voucher request is the sequence of manager calls the HTTP handler
makes, each under the manager's lock, so that two requests of one id interleave
between them.  Every save may fail, and server and nodes may crash between any
two file writes.  `issued`, `booted` and the causes of a node are history.

**ClientNode.**  `tunnels` are the contexts the handler has made, each with its
goroutine, `tunnelCtxs` its map from key to the newest.  The server is reduced
to the worker that changes the store and then tells, and the synchronisation
that lists and then sends.  `raced`, `leaked` and `killed` are history: the
three ways in which the node and the server come to differ.

**Relay.**  An attempt and its connection have one number.  `relayPending`
names who waits, `handed[w]` is what lies in the channel of waiter `w`, `peer`
and `copying` are relayWSPipe.  `stolen` is history.

**PluginHost.**  `stream[s]` is a Subscribe call, `call[c]` an ExecuteAction
call; `running` are requests inside the plugin.  A panic of the server
(closing twice, sending on a closed channel) is the variable `crash`, after
which nothing happens.

**Workers.**  One step per access to a sync.Map or to a map under one of the
four mutexes.  `op["admin"]` and `op["reconcile"]` are the two callers of
ControlWorker, `task[g]` a StartTCPProxy goroutine.

**Storage.**  `op` is the call that holds the manager's lock, with a step for
every access to the disk; a step may fail or the process may die after it.
`lines` are the sequence numbers in the log, with `Garbage` for what does not
parse.  Tags are one version number.

## Runs

| Run | Shows |
|---|---|
| `event_bus` | two publishers race with each other, with a late subscriber and with Close: one worker per type and nothing lost (`BusInv`), channels drained, handlers in order of subscription, accepted events delivered, Close returns |
| `control_plane` | requests, disconnects, reconcile passes, snapshots, two crashes or shutdowns at any step and the restores after them: desired = actual, port index and listeners in step (`ControlInv`); what was handled is back (`RecoveryComplete`) |
| `tunnel_loop` | accept loops are exclusive and flagged (`LoopInv`), end when their listener closes; ports close with their proxy |
| `tunnel_pairing` | no send blocks and a token is used once (`PairingInv`), every user is answered, entries are reclaimed |
| `sessions` | map, client records and what clients were told, over two overlapping connections of one client |
| `mux` | the stream promise (refinement), window accounting, no lost wake-up, everything sent is received and every Send returns unless something is closed |
| `registration` | vouchers, certificates, authority and member lists across overlapping registrations, failing saves and crashes; a voucher request is answered |
| `client` | the node agrees with the server once all messages are handled, but for the three recorded differences; cancelled tunnels and pipes end |
| `relay` | ends are joined one to one, a waiting end is met, an attempt that is over gives up its port and its connection settles |
| `plugins` | broadcasts never hit a closed channel, a call that overlaps no other gets its own result, every call returns |
| `workers` | listeners, tables, storage and registry of the worker generation agree; a desired proxy of a reachable node is served again and again |
| `storage` | acknowledged changes are on disk, the log is ordered, the newest snapshot is kept, a clean stop agrees with itself, tags are kept, dirty tags are flushed |

All twelve pass.

### Known deviations

Several properties that a comment or the repository's README states do not
hold.  Their definitions are kept in the modules; adding one to the cfg named
(with the constants given) makes TLC show the behaviour.

| Definition | cfg | What the code does instead |
|---|---|---|
| `SequenceOrder` | EventBus | sequence numbers are drawn under the lock, channels entered after it: two publishers can swap (`eventbus.go:51`; the comment at `:40` promises the order) |
| `DeletedStaysDeleted` | ControlPlane | the snapshot is restored over the meta store and brings back proxies deleted since (`statestore.go:485`) |
| `RestoredListens` | ControlPlane | `persist.Run` starts before the proxy plugin has subscribed: a restored proxy may get no listener (`main.go:230`; the comment at `:93` says otherwise) |
| `RequestsHonoured` | ControlPlane | desired and actual are read under two locks; the engine undoes the event applied in between (`reconcile.go:174`) |
| `OpenPortIsServed` | TunnelLoop | a flag set without a listener is not cleared, and a key whose old loop still ends is skipped (`server.go:736`, `:723`) |
| `ReconnectIsReachable` | Sessions, both sessions with a certificate | the old session's deferred Delete removes the entry of the new one (`server.go:517`) |
| `StreamOrder` | Mux | the workers dispatch frames of one stream concurrently (`mux.go:131`); the mux tests compare checksums of streams |
| `BothRolesPaired` | Relay | HandleRelay joins any two connections of a session (`server.go:989`) |

Conditions that the passing properties need:

- `RecoveryComplete`: with `Early = {"request"}` an event handled while
  `restoring` is set is not persisted (`core.go:69`).  With
  `Early = {"reconcile"}` and two stops a reconcile pass during the restore can
  do the same: a proxy that only the stale snapshot has is deleted and added
  again while `restoring` is set, is handled and never saved, and is lost at the
  next stop.  With `QueueCap = 1` restored events are dropped.  The theorem has
  these conditions as its hypothesis `QuietRecovery`.
- `ClosedWithProxy`: with `Rebind = TRUE` a proxy created again at another bind
  address overwrites its listener in the map (`proxy.go:209`).
- `ToldOfEverything`: with `EarlyHTTP = TRUE` what is created or restored while
  `restoring` is set is not announced (`server.go:691`), and main does not wait
  for the restore before it serves HTTP.
- `LiveIsReachable`, `AgreesWithServer`, `NoMissedMeeting`, `OwnResult`,
  `ClosedIsShut`, `StoredIsDesired` and `TagsAreKept` except exactly the cases
  their history variables record; the comment of each names them.

Behaviour of the code that the models show and no property is about:

- *Tunnels*: a tunnel that claims its entry after the waiter gave up is
  acknowledged and left in a channel nobody reads (`server.go:840`).
- *Mux*: a close frame that the waiting select takes is written without the
  local clean-up that the comment at `mux.go:615` promises; frames queued when
  a channel closes are discarded (`:633`); a second local connection of a relay
  source shares the channel of the first (`:598`).
- *Registration*: connecting overwrites the namespace of a record with
  "permanent"; a crash between the halves of a key pair makes the client exit
  at every start; a revocation whose save failed is undone by a restart.
- *Client*: the proxy message carries no token, so the websocket tunnels it
  starts are refused; the deferred stopTunnel of an ended tunnel cancels its
  successor of the same key.
- *Relay*: relay_closed is never sent, because the plugin looks the relay up
  after the core removed it (`relay.go:104`); the websocket of an attempt is not
  closed on a normal exit; a second attempt may find the source port taken.
- *Plugins*: a replaced subscriber's channel is closed twice, which panics;
  ExecuteAction may send on a channel that was closed after it was looked up;
  a late result goes to the next call.
- *Workers*: RemoveClient removes by name, so a late close takes the successor
  (`state.go:252`); AddProxy may return early while CreateProxy goes on; the
  goroutine of a listener deletes the entry of its successor (`data.go:101`);
  imported relays are created again in every pass (`reconcile.go:226`).
- *Storage*: a torn log line swallows the next event; a snapshot taken in
  AppendEventAndSave lacks the newest resource; `persist.json` is written in
  place and a crash can tear it; changing a tag does not itself mark the state
  dirty; main does not wait for the plugin's last flush.

### Bounds

Bounds are constants, named in the modules, and only requests, faults, crashes
and numbers are bounded; every other step may always be taken.

- `EventBus`: two publishers, two types, three publishes and channels of
  capacity 1: enough for two makers of one channel, for a full channel, and for
  a publisher caught in each phase of Close.
- `ControlPlane`: two clients (symmetric) that compete for one port, four
  requests, two stops, a snapshot every two events, so that a snapshot falls
  before, between and after the requests and a second restore starts from what
  the first one left.  Requests and reconcile passes wait for the restore
  (`Early = {}`), as `RecoveryComplete` needs; `ControlInv` is proved for every
  `Early`.
- `TunnelLoop`: one proxy, two reconnecting sessions, four events, three calls:
  a create, delete, create, delete with loops of each generation alive.
- `TunnelPairing`: two users, two tunnels, any tunnel with any token.
- `Sessions`: two connections of a client, one with a certificate and one
  temporary, a proxy and a relay with a second client, one request, one
  restored proxy.
- `Mux`: three messages of size 1 against a window and a threshold of 2, queues
  of capacity 1, two workers at the receiver, one close by the sender, and two
  channels: the sender runs out of window, updates are held back, frames are
  dispatched concurrently and with the close.  The overdraft of two senders was
  checked on a separate instance (two senders, sizes 2, 2, 1, window 3,
  4.1 million states): the window becomes negative and `OverdraftBounded` holds.
- `Registration`: two nodes with one id, one of them with a voucher for a
  single use, two voucher requests, three key pairs, one fault; the invariants
  also with two faults (1.5 million states).
- `ClientNode`: a TCP proxy, a websocket proxy and an outbound tunnel, two
  connections, three changes, two tunnels, one user.
- `Relay`: three attempts, two of them of the source over one connection, one
  fault: a replacement, a timeout next to a new arrival, and a reconnect.
- `PluginHost`: two streams, two registrations, two calls, one event, channels
  of capacity 1.
- `Workers`: one node with one proxy and one relay, two connections that may
  replace each other, two administrator calls or stored
  relays against the endless reconcile passes, three listener goroutines.
- `Storage`: two resources in one meta file, a snapshot every two events, one
  kept, three operations, one failing write, two starts.

Deadlock is not checked where the bounded system runs out of requests, or
where all processes may be over; `ControlPlane` never is, and is checked.  Only
the clients of `ControlPlane` are a symmetry set: no constant tells them apart,
and its run checks no liveness.

### Fairness

Weak fairness of goroutine steps that can run: the Go scheduler runs every
runnable goroutine.  No fairness is assumed of requests, subscribers, clients,
crashes, faults, timeouts of live connections or reads that fail on them.
- `TunnelPairing`: the clock and the cleanup ticker are fair (`time.After`,
  `time.NewTicker`); that is what answers a user whose client never connects.
- `Mux`: senders, readers, the write loop and the workers; not the users who
  open and close.
- `Registration`: the start of the server, the steps of requests and of nodes.
- `ClientNode`: the loops look at their context between two connections; a
  connection that the other side never closes is excepted in `CancelledEnds`.
- `Relay`: timeouts of waiting ends, the steps of attempts and of the server,
  reads on dead connections; a live connection need not end.
- `PluginHost`: streams and calls, with the 30 second limit, while the process
  lives; the plugin itself need not answer.
- `Workers`: callers, listener goroutines, connections, and pass after pass of
  the reconcile ticker.
- `Storage`: the goroutine of the persist plugin.

## Proofs

TLAPS proves, for every value of the constants that satisfies the module's
ASSUME:

- `ServerProofs`, the event bus: `BusInv` is invariant; from it `OneWorkerPerType`,
  `NothingLost`, `ClosedIsDrained` and `SubscriptionOrder`.  The invariant adds
  to the types the phases of Close (what may still be open in each), that a
  channel in the map is the one made for its type, that numbers of publishes are
  distinct, and that what a channel accepted is what its worker handled, has in
  hand and finds in the channel.  `SubscriptionOrder` compares two handlers;
  its inductive form `DeliveryInStep` compares each with the worker: the
  handlers before the one about to be called have the event in hand, the others
  do not yet.  It needs that the initial handlers are distinct and are not the
  ones that come and go (`SubsAssumption`).
- `ControlPlaneProofs`: `ControlInv`; from it `DesiredIsActual`,
  `PortIndexSound`, `NoOrphanListener`.  The last is not inductive: between the
  core's step and the plugin's a deleted proxy still has its listener, so
  `ListenersAccounted` says which event the worker holds then.
  `RecoveryComplete` speaks of the end of a restore; the proof carries it
  through its phases (`RecoveryPhases`): the meta files hold what was handled,
  and until the recovery is over only proxies of theirs are added and none is
  deleted (`DiskIsHandled`); a proxy on disk is in memory, or persist.Run has
  still to publish it, or it is in the channel or the worker's hand, or its
  deletion is applied and not yet saved (`DiskInMemory`).  The hypothesis
  `QuietRecovery` (`Early = {}`, room in the channel for all keys) cannot be
  dropped, see above.
- `TunnelProofs`: of the accept loops `LoopInv`, `OneLoopPerProxy`,
  `RunningIsFlagged` and, if a proxy keeps its bind address (`~Rebind`),
  `ListenersListed` and `ClosedWithProxy`; of the pairing `PairingInv`,
  `SendNeverBlocks`, `TokenUsedOnce`, by the argument that an entry leaves the
  map before its only value is sent.
- `SessionsProofs`: `SessionInv`, `MapIsLive`, `LiveIsReachable` and
  `GoneIsForgotten` without conditions, and `ToldOfEverything` if HTTP answers
  only after the restore (`~EarlyHTTP`).
  `ToldOfEverything` speaks of quiet states only; `ToldOrToBe` is its inductive
  form: a resource the session was not told of is still to be listed by its
  tracker (`WillList`), to be sent (`WillSend`) or to be announced by the
  worker (`WillAnnounce`).  It needs that a worker announcing a deletion finds
  the resource gone (`WorkersInStep`) and that nobody is connected while
  announcements are skipped (`RestoreIsQuiet`).  `LiveIsReachable` and
  `GoneIsForgotten` speak of states in which no client event is under way; in
  the others a record that no session keeps is deleted by an event still to be
  applied (`RecordsAccounted`), a session that is alone is in the map and will
  have its record (`AloneIsReachable`), and reader, tracker and ID of a session
  agree on how far it has come (`SessionsInStep`).
- `RegistrationProofs`: `RegistrationInv`, with `VoucherNotOverspent` and
  `AuthorityKept`, for any nodes, ids, vouchers, namespaces, requests and
  faults.  None of the properties but `ListedSinceBoot` is inductive, so each has
  a form that is.  A voucher: what it paid for is counted in memory and in the file, where
  they know it at all (`VouchersCovered`), because the use is saved before the
  request goes on.  The authority: its two files belong together once the
  second is written, and every certificate anywhere, in a record, the registry
  file, a request or a node, is theirs (`AuthorityAccounted`); a half-written
  one has signed nothing.  Keys: keys that are in use exist (`KeysHeld`), nobody
  waits for the request of another and no request runs while the server is
  down (`RequestsOwned`), and a client without a cause finds its own key on
  record, in its request and in its certificate (`WaitersFit`).
- `StorageProofs`: `StorageInv` with `LogIsOrdered`, `NewestIsKept`,
  `CleanStopAgrees` and `TagsAreKept`, and `AckedSurvives`, for any resources,
  types, intervals, faults and starts.  The strengthenings say how things stand
  in the middle of the call that holds the lock: which steps belong to which
  call, and that its key has no result yet (`CallInStep`); that only the last
  line may lack its end and no line has a number above the counter (`LogInStep`);
  that one of the snapshot files is the newest (`NewestExists`); that no meta
  file is torn and memory, from which the files are written, agrees with what
  was acknowledged (`MetaInStep`); how far a stop has come (`StopInStep`); and
  that `persist.json` holds the newest tags between two flushes (`TagsInStep`).
- `MuxProofs`: `MuxInv`, `WindowConserved`, and that `Mux` implements `Stream`
  (`PromiseKept`: an initial state maps to one, every step to a step of `Stream` or a stutter),
  for any ports, senders, messages, workers, capacities and channels.  The
  constants are assumed to have two ends of which at least one has
  OnNewChannel (`EndsAssumption`), and messages of at most the window less what
  the reader may hold back (`WindowAssumption`; the code has a window of 1 MiB
  and a threshold of 16 KiB).  `OverdraftBounded` is not inductive: several
  senders may have seen the window and not yet taken from it, and the bound
  must leave room for them; `WindowInStep` counts them.  `OpenIsListed` and
  `NoLostWakeup` rest on `GoroutinesInStep`: a sender under way has a message of
  its own and a channel of its end, and the write loop copies channels of its
  end.  The refinement rests on three more.  Before something is closed no
  channel is shut, no close frame is under way and both ends are up
  (`CloseIsEnd`).  Until then no data frame is thrown away: an end with
  OnNewChannel makes the channel when the frame arrives, and at the other end
  there is nothing on a port before that end has opened it (`PortsInStep`).  And
  an accepted message is in at most one of the queues, wires, workers' hands,
  inboxes and what was read, once (`OnePlace`).
  `WindowConserved` sums sizes over sets of messages, which a recursive sum
  would leave to induction over data; `Total` is the cardinality of a set of
  units, so a step adds or removes the units of one message or one update.  The
  invariant needs that a worker that has looked a channel up has one of its end
  and port (`WorkersInStep`), `OnePlace`, and that until something is closed the
  channel of a port is the listed one: SendWindowUpdate credits the channel it
  read from.
- `NodeProofs`, the relay: `RelayInv` and `NoMissedMeeting`.  The strengthening
  `PipesInStep` says what the other variables hold of a connection in each state
  of the server's side, so that a hand-over finds its channel empty.
- `NodeProofs`, plugins: `PluginInv` (`BroadcastIsSafe`, `OwnResult`).  A stream
  ends only if it was replaced or cut (`StreamsInStep`); the result channel of a
  plugin is that of an open call, and a call that is not mixed is alone, with
  its own request and no other under way (`CallsInStep`).
- `NodeProofs`, the node: `ClientInv`, and from it `AgreesWithServer`, which
  speaks of quiet states.  In the others a proxy of the server is served, or the
  message that makes the node serve it is on the wire with no closing one after
  it, or still to be sent (`ServedOrToBe`), and the same of a deleted one
  (`ClosedOrToBe`).  `TunnelsInStep` ties table, contexts and goroutines
  together: the table names the newest context of a key, and a live one that it
  does not name was overwritten.
- `ServerProofs`, the workers: `WorkersInv` and `ClosedIsShut`, for any nodes,
  proxies, relays, connections and calls.  `StoredIsDesired` speaks of states
  without a call; in the middle of one, storage and desired proxies differ only
  by what the call is about to write (`DifferIsPending`, `StoreInStep`).
  `ClosedIsShut` rests on the order in CloseProxy: the one open listener of a
  proxy is the one CloseListener finds (`OpenIsListed`), and from then on nothing
  listens or will listen for it (`ShutStaysShut`) until it is no longer desired;
  a creation that overlaps is recorded (`OverlapsExcused`).  No closed relay is
  made again because a desired relay without a session can only be an imported
  one (`RelaysImported`).

Only model-checked: all liveness properties, which need fairness and ENABLED.
Every invariant that a run checks is stated by a theorem.
`SessionEnds` of `Sessions` (a session that is done leaves the map and its
goroutines end) was checked on an instance without requests and with channels
of capacity 1 and is not kept as a run.

## Not modelled

- The backoff of the reconcile engine, which the repository's provider never
  enters.  Proxy configuration beyond the key, everywhere.
- Sessions: pong messages and latency, writePump (one that ends on an error
  does not close the connection), the `Conn` of a client record (its only
  reader, `SendCommand`, is called by nobody), a full send buffer (256
  messages, 3 seconds), a second register message on a connection, events the
  reconcile engine publishes.
- What HandleTunnel reads from the websocket after handing it over
  (`server.go:949`): both readers of one connection see arbitrary halves of it.
- Administrator tokens and login; file permissions.
- The temporary client (`temp_client.go`), which waits for an answer the server
  does not send.  Messages of the client that no server sends (`update_*`).
- In `Workers`: tunnel tokens and the data path; `bus.go`, `supervisor.go` and
  `status.go`, which nobody starts.
- Hole punching (used by nobody), the VPN runtime (external processes), file
  transfer, latency probes, configuration, logging, generated protobuf code and
  the command line: input and output with little state.

## Plan

1. A composition of `Relay` and `Mux`: what a broken relay connection costs the
   streams on it.
2. A FIFO channel per type as an abstract specification that `EventBus`
   implements.

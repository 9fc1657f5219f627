----------------------------- MODULE ClientNode -----------------------------
(***************************************************************************)
(* A node and the proxies the server has for it (BBgrid_Client: client.go, *)
(* conn/conn.go, handler/handler.go).  Over one websocket connection the   *)
(* server tells the node of each proxy, of each closed proxy and of each   *)
(* user who waits for a tunnel; the node's read pump hands the messages to *)
(* the Handler, which keeps a cancel function per proxy key, runs a        *)
(* goroutine for every websocket, UDP and outbound tunnel and one for      *)
(* every tunnel a user waits for.  A new connection has a new Handler.     *)
(*                                                                         *)
(* The server is reduced to what it sends: the worker of proxy events,     *)
(* which changes the state store and then tells the client, and            *)
(* syncClientProxies, which lists the store and sends one proxy at a time. *)
(* A message is in order on the connection and is lost only with it.       *)
(***************************************************************************)
EXTENDS Naturals, Sequences, FiniteSets

CONSTANTS
    Keys,           \* the proxies of this node, by key
    Kind,           \* [Keys -> {"tcp", "loop", "outbound"}]; "loop" stands for
                    \* the protocols websocket and udp
    None,           \* no proxy
    MaxLinks,       \* bound: connections
    MaxChanges,     \* bound: proxies created and deleted, outbound tunnels
    MaxTunnels,     \* bound: contexts created by the node
    MaxPipes,       \* bound: users that wait for a tunnel
    WireCap,        \* bound: messages under way
    OutCap          \* capacity of Connection.send

ASSUME ClientNodeAssumption ==
    /\ Kind \in [Keys -> {"tcp", "loop", "outbound"}]
    /\ None \notin Keys
    /\ {MaxLinks, MaxChanges, MaxTunnels, MaxPipes} \subseteq Nat
    /\ {WireCap, OutCap} \subseteq Nat \ {0}

Proxies == {k \in Keys : Kind[k] # "outbound"}

VARIABLES
    srv,        \* StateStore.proxies of this client
    event,      \* the proxy whose change the worker has not told yet
    listing,    \* where trackSession is: "none", "list", "send"
    todo,       \* the proxies it has listed and not sent
    changes,    \* changes made
    link,       \* connections made
    up,         \* is the last one up?
    wire,       \* messages on it
    reader,     \* where readPump is: "read", "reply" (in WriteJSON)
    out,        \* messages in Connection.send
    tunnels,    \* the contexts, in the order in which they were created, each
                \* with its goroutine
    tunnelCtxs, \* Handler.tunnelCtxs of the connected Handler: 0 for no entry
    proxyInfo,  \* Handler.proxyInfo and tunnelContexts
    pipes,      \* the goroutines of connectAndPipe
    raced,      \* history: proxies the sync sent after they were deleted
    leaked,     \* history: tunnels whose cancel function was overwritten
    killed      \* history: tunnels that another tunnel's end cancelled

srvVars == <<srv, event, listing, todo, changes, raced>>
linkVars == <<link, up>>
nodeVars == <<tunnels, tunnelCtxs, proxyInfo, leaked, killed>>
vars == <<srvVars, linkVars, wire, reader, out, nodeVars, pipes>>

Messages == [type : {"proxy", "proxy_closed", "tunnel_request",
                     "proxy_outbound", "ping"}, key : Keys]
Ids == 0..MaxTunnels

TypeOK ==
    /\ srv \subseteq Proxies /\ todo \subseteq Proxies /\ raced \subseteq Proxies
    /\ event \in Proxies \cup {None}
    /\ listing \in {"none", "list", "send"}
    /\ changes \in 0..MaxChanges /\ link \in 0..MaxLinks /\ up \in BOOLEAN
    /\ wire \in Seq(Messages) /\ Len(wire) <= WireCap
    /\ reader \in {"read", "reply"} /\ out \in 0..OutCap
    /\ tunnels \in Seq([key : Keys, link : 1..MaxLinks, live : BOOLEAN,
                        pc : {"ctx", "top", "dial", "serve", "exit", "ended"}])
    /\ Len(tunnels) <= MaxTunnels
    /\ tunnelCtxs \in [Keys -> Ids] /\ proxyInfo \in [Keys -> Ids]
    /\ pipes \in Seq([ctx : 1..MaxTunnels, pc : {"dial", "pipe", "done"}])
    /\ Len(pipes) <= MaxPipes
    /\ leaked \subseteq 1..MaxTunnels /\ killed \subseteq 1..MaxTunnels

Init ==
    /\ srv = {} /\ event = None /\ listing = "none" /\ todo = {} /\ changes = 0
    /\ link = 0 /\ up = FALSE /\ wire = <<>>
    /\ reader = "read" /\ out = 0
    /\ tunnels = <<>> /\ pipes = <<>>
    /\ tunnelCtxs = [k \in Keys |-> 0] /\ proxyInfo = [k \in Keys |-> 0]
    /\ raced = {} /\ leaked = {} /\ killed = {}

-----------------------------------------------------------------------------
(* The server.                                                             *)

\* SendToClient: to the session of this client, if there is one
SendToClient(type, k) ==
    IF up
    THEN /\ Len(wire) < WireCap
         /\ wire' = Append(wire, [type |-> type, key |-> k])
    ELSE UNCHANGED wire

\* the worker of proxy events applies one to the state store ...
AddProxy(k) ==
    /\ event = None /\ k \in Proxies \ srv /\ changes < MaxChanges
    /\ changes' = changes + 1
    /\ srv' = srv \cup {k} /\ event' = k
    /\ raced' = raced \ {k}
    /\ UNCHANGED <<listing, todo, linkVars, wire, reader, out, nodeVars, pipes>>

DeleteProxy(k) ==
    /\ event = None /\ k \in srv /\ changes < MaxChanges
    /\ changes' = changes + 1
    /\ srv' = srv \ {k} /\ event' = k
    /\ UNCHANGED <<listing, todo, raced, linkVars, wire, reader, out, nodeVars,
                   pipes>>

\* ... and then calls handleProxyEvent, which tells the client
NotifyProxyClient ==
    /\ event \in srv
    /\ SendToClient("proxy", event)
    /\ event' = None
    /\ UNCHANGED <<srv, listing, todo, changes, raced, linkVars, reader, out,
                   nodeVars, pipes>>

HandleProxyDeleted ==
    /\ event \in Proxies \ srv
    /\ SendToClient("proxy_closed", event)
    /\ event' = None
    /\ UNCHANGED <<srv, listing, todo, changes, raced, linkVars, reader, out,
                   nodeVars, pipes>>

\* syncClientProxies: the list, and a message for each proxy of the list
SyncList ==
    /\ up /\ listing = "list"
    /\ listing' = "send" /\ todo' = srv
    /\ UNCHANGED <<srv, event, changes, raced, linkVars, wire, reader, out,
                   nodeVars, pipes>>

SyncSend(k) ==
    /\ up /\ k \in todo
    /\ SendToClient("proxy", k)
    /\ todo' = todo \ {k}
    /\ raced' = IF k \in srv THEN raced ELSE raced \cup {k}
    /\ UNCHANGED <<srv, event, listing, changes, linkVars, reader, out,
                   nodeVars, pipes>>

\* the requests for a tunnel under way
Requested == {i \in DOMAIN wire : wire[i].type = "tunnel_request"}

\* a user of a TCP proxy: the tunnel loop asks for a tunnel
TunnelRequest(k) ==
    /\ up /\ k \in srv /\ Kind[k] = "tcp"
    /\ Len(pipes) + Cardinality(Requested) < MaxPipes
    /\ SendToClient("tunnel_request", k)
    /\ UNCHANGED <<srvVars, linkVars, reader, out, nodeVars, pipes>>

\* an outbound tunnel and a ping, which this server never sends
OtherMessage(type, k) ==
    /\ up /\ changes < MaxChanges /\ type \in {"proxy_outbound", "ping"}
    /\ Kind[k] = "outbound"
    /\ changes' = changes + 1
    /\ SendToClient(type, k)
    /\ UNCHANGED <<srv, event, listing, todo, raced, linkVars, reader, out,
                   nodeVars, pipes>>

-----------------------------------------------------------------------------
(* The connection.                                                         *)

\* connectAndServe: the register message was answered, the pumps start with
\* a new Handler; the server enters the session in its map
Connect ==
    /\ ~up /\ link < MaxLinks
    /\ link' = link + 1 /\ up' = TRUE
    /\ listing' = "list"
    /\ reader' = "read" /\ out' = 0
    /\ tunnelCtxs' = [k \in Keys |-> 0] /\ proxyInfo' = [k \in Keys |-> 0]
    /\ UNCHANGED <<srv, event, todo, changes, raced, wire, tunnels, leaked,
                   killed, pipes>>

\* Handler.Stop: every context of the Handler descends from baseCtx
Cancelled(S) ==
    [i \in DOMAIN tunnels |->
        IF i \in S THEN [tunnels[i] EXCEPT !.live = FALSE] ELSE tunnels[i]]

\* Mutated form of OfHandler: only the cancel functions in the table are called.
InTable == {tunnelCtxs[k] : k \in Keys} \ {0}
OfHandler == {i \in DOMAIN tunnels : tunnels[i].link = link}

\* a pump ends, Connection.Close closes done and connectAndServe stops the
\* Handler; what was under way is lost, and so is the session's sync
Disconnect ==
    /\ up
    /\ up' = FALSE
    /\ wire' = <<>> /\ listing' = "none" /\ todo' = {} /\ raced' = {}
    /\ tunnels' = Cancelled(OfHandler)
    /\ reader' = "read" /\ out' = 0
    /\ UNCHANGED <<srv, event, changes, link, tunnelCtxs, proxyInfo, leaked,
                   killed, pipes>>

\* WriteJSON: the reply enters the channel, when it has room
WriteJSON ==
    /\ up /\ reader = "reply" /\ out < OutCap
    /\ out' = out + 1 /\ reader' = "read"
    /\ UNCHANGED <<srvVars, linkVars, wire, nodeVars, pipes>>

\* writePump: Session.handleMessage ignores proxy_close_ack, and a pong
\* changes nothing here
WritePump ==
    /\ up /\ out > 0
    /\ out' = out - 1
    /\ UNCHANGED <<srvVars, linkVars, wire, reader, nodeVars, pipes>>

-----------------------------------------------------------------------------
(* The Handler: readPump takes the next message and calls Handle.          *)

Receive(type, k) ==
    /\ up /\ reader = "read" /\ wire # <<>>
    /\ Head(wire) = [type |-> type, key |-> k]
    /\ wire' = Tail(wire)

\* registerTunnel overwrites the cancel function it finds
RegisterTunnel(k, pc) ==
    /\ Len(tunnels) < MaxTunnels
    /\ tunnels' = Append(tunnels, [key |-> k, link |-> link, live |-> TRUE,
                                   pc |-> pc])
    /\ tunnelCtxs' = [tunnelCtxs EXCEPT ![k] = Len(tunnels) + 1]
    /\ leaked' = leaked \cup {i \in {tunnelCtxs[k]} \ {0} : tunnels[i].live}

HandleProxy(k) ==
    /\ Receive("proxy", k)
    /\ RegisterTunnel(k, IF Kind[k] = "tcp" THEN "ctx" ELSE "top")
    /\ proxyInfo' = IF Kind[k] = "tcp"
                    THEN [proxyInfo EXCEPT ![k] = Len(tunnels) + 1]
                    ELSE proxyInfo
    /\ UNCHANGED <<srvVars, linkVars, reader, out, killed, pipes>>

HandleProxyOutbound(k) ==
    /\ Receive("proxy_outbound", k)
    /\ RegisterTunnel(k, "dial")
    /\ UNCHANGED <<srvVars, linkVars, reader, out, proxyInfo, killed, pipes>>

\* Mutated form of Stopped: the entry is deleted, the context not cancelled.
NotStopped(k) == tunnels
\* stopTunnel, what it changes in the table and in the contexts
Stopped(k) == Cancelled({tunnelCtxs[k]} \ {0})

HandleProxyClosed(k) ==
    /\ Receive("proxy_closed", k)
    /\ tunnels' = Stopped(k)
    /\ tunnelCtxs' = [tunnelCtxs EXCEPT ![k] = 0]
    /\ proxyInfo' = [proxyInfo EXCEPT ![k] = 0]
    /\ reader' = "reply"
    /\ UNCHANGED <<srvVars, linkVars, out, leaked, killed, pipes>>

HandlePing(k) ==
    /\ Receive("ping", k)
    /\ reader' = "reply"
    /\ UNCHANGED <<srvVars, linkVars, out, nodeVars, pipes>>

\* the request of a proxy the Handler does not know is dropped
HandleTunnelRequest(k) ==
    /\ Receive("tunnel_request", k)
    /\ pipes' = IF proxyInfo[k] = 0 THEN pipes
                ELSE Append(pipes, [ctx |-> proxyInfo[k], pc |-> "dial"])
    /\ UNCHANGED <<srvVars, linkVars, reader, out, nodeVars>>

-----------------------------------------------------------------------------
(* The goroutines.                                                         *)

At(i, from, to) ==
    /\ i \in DOMAIN tunnels /\ tunnels[i].pc = from
    /\ tunnels' = [tunnels EXCEPT ![i].pc = to]
    /\ UNCHANGED <<srvVars, linkVars, wire, reader, out, tunnelCtxs, proxyInfo,
                   leaked, killed, pipes>>

\* Mutated form of LoopTop: the context is not looked at.
LoopIgnoresContext(i) == i \in DOMAIN tunnels /\ At(i, "top", "dial")

\* runTunnelWS, runTunnelUDP: the context is looked at between connections
LoopTop(i) ==
    /\ i \in DOMAIN tunnels
    /\ At(i, "top", IF tunnels[i].live THEN "dial" ELSE "exit")

\* connectTunnelWS, the dial of runTunnelUDP and of connectOutboundTunnel
Dialled(i) == At(i, "dial", "serve")
DialFails(i) ==
    /\ i \in DOMAIN tunnels
    /\ At(i, "dial", IF Kind[tunnels[i].key] = "loop" THEN "top" ELSE "exit")

\* the other side closes: mx.Done of runTunnelWS, handleUDPTunnel returns,
\* or pipeTCP of an outbound tunnel does
ConnectionEnds(i) ==
    /\ i \in DOMAIN tunnels
    /\ At(i, "serve", IF Kind[tunnels[i].key] = "loop" THEN "top" ELSE "exit")

\* the watcher of connectOutboundTunnel; the loops have none
OutboundCancelled(i) ==
    /\ i \in DOMAIN tunnels /\ Kind[tunnels[i].key] = "outbound"
    /\ ~tunnels[i].live
    /\ At(i, "serve", "exit")

\* the deferred stopTunnel(key) of the goroutine, on its own Handler: once
\* that is stopped every context in its table is cancelled
TunnelEnds(i) ==
    /\ i \in DOMAIN tunnels /\ tunnels[i].pc = "exit"
    /\ LET k == tunnels[i].key
           hit == IF up /\ tunnels[i].link = link THEN tunnelCtxs[k] ELSE 0
           left == Cancelled({hit} \ {0})
       IN /\ tunnels' = [left EXCEPT ![i].pc = "ended"]
          /\ tunnelCtxs' = IF hit = 0 THEN tunnelCtxs
                           ELSE [tunnelCtxs EXCEPT ![k] = 0]
          /\ killed' = killed \cup ({hit} \ {0, i})
    /\ UNCHANGED <<srvVars, linkVars, wire, reader, out, proxyInfo, leaked,
                   pipes>>

\* connectAndPipe
PipeAt(p, from, to) ==
    /\ p \in DOMAIN pipes /\ pipes[p].pc = from
    /\ pipes' = [pipes EXCEPT ![p].pc = to]
    /\ UNCHANGED <<srvVars, linkVars, wire, reader, out, nodeVars>>

\* dial, auth, ack and local dial: the context is not looked at
PipeStarts(p) == PipeAt(p, "dial", "pipe")
PipeFails(p) == PipeAt(p, "dial", "done")
PipeEnds(p) == PipeAt(p, "pipe", "done")
PipeCancelled(p) ==
    /\ p \in DOMAIN pipes /\ ~tunnels[pipes[p].ctx].live
    /\ PipeAt(p, "pipe", "done")

-----------------------------------------------------------------------------

Handle(k) ==
    \/ HandleProxy(k)
    \/ HandleProxyClosed(k)
    \/ HandleProxyOutbound(k)
    \/ HandlePing(k)
    \/ HandleTunnelRequest(k)

TunnelStep(i) ==
    \/ LoopTop(i)
    \/ Dialled(i)
    \/ DialFails(i)
    \/ OutboundCancelled(i)
    \/ TunnelEnds(i)

PipeStep(p) == PipeStarts(p) \/ PipeFails(p) \/ PipeCancelled(p)

Next ==
    \/ \E k \in Keys : AddProxy(k) \/ DeleteProxy(k) \/ SyncSend(k)
                       \/ TunnelRequest(k)
    \/ \E k \in Keys : \E type \in {"proxy_outbound", "ping"} : OtherMessage(type, k)
    \/ NotifyProxyClient
    \/ HandleProxyDeleted
    \/ SyncList
    \/ Connect
    \/ Disconnect
    \/ WriteJSON
    \/ WritePump
    \/ \E k \in Keys : Handle(k)
    \/ \E i \in 1..MaxTunnels : TunnelStep(i) \/ ConnectionEnds(i)
    \/ \E p \in 1..MaxPipes : PipeStep(p) \/ PipeEnds(p)

Spec == Init /\ [][Next]_vars

\* The pumps, the worker and the sync run, and every dial has a time limit.
\* Nothing makes the other side of a tunnel close it.
FairSpec ==
    /\ Spec
    /\ WF_vars(NotifyProxyClient) /\ WF_vars(HandleProxyDeleted)
    /\ WF_vars(SyncList)
    /\ WF_vars(WriteJSON) /\ WF_vars(WritePump)
    /\ \A k \in Keys : WF_vars(SyncSend(k)) /\ WF_vars(Handle(k))
    /\ \A i \in 1..MaxTunnels : WF_vars(TunnelStep(i))
    /\ \A p \in 1..MaxPipes : WF_vars(PipeStep(p))

-----------------------------------------------------------------------------
(* Properties.                                                             *)

\* everything sent has been handled
Quiet ==
    /\ up /\ event = None /\ listing = "send" /\ todo = {}
    /\ wire = <<>> /\ reader = "read"

LiveTunnels(k) ==
    {i \in DOMAIN tunnels : tunnels[i].key = k /\ tunnels[i].live}

\* a proxy the server has: the node holds a live context for it, unless the
\* end of an older tunnel of the same key cancelled the newest
ServedByNode(k) ==
    \/ tunnelCtxs[k] # 0 /\ tunnelCtxs[k] \in LiveTunnels(k)
    \/ \E i \in killed :
        /\ tunnels[i].key = k /\ tunnels[i].link = link
        /\ \A j \in DOMAIN tunnels :
              tunnels[j].key = k /\ tunnels[j].link = link => j <= i

\* Once every message is handled, the node's tunnels are the server's
\* proxies, with three exceptions and no other: a tunnel whose cancel
\* function a second message for the key overwrote (registerTunnel), a proxy
\* that syncClientProxies sent after its deletion, and a tunnel that the
\* deferred stopTunnel of an older one with its key cancelled.
AgreesWithServer ==
    Quiet => \A k \in Proxies :
                /\ k \in srv => ServedByNode(k)
                /\ k \notin srv \cup raced => LiveTunnels(k) \subseteq leaked

\* Every live context belongs to the Handler of the connection that is up:
\* Handler.Stop cancels the others, the overwritten ones too.
StoppedWithLink ==
    \A i \in DOMAIN tunnels :
        tunnels[i].live => up /\ tunnels[i].link = link

\* The table names the newest context of a key, a live context is in the table
\* or was overwritten there, and the goroutine of a proxy's tunnel ends only
\* once its context is cancelled; a TCP proxy has a context and no goroutine.
TunnelsInStep ==
    /\ \A k \in Keys : tunnelCtxs[k] # 0 =>
         /\ tunnelCtxs[k] \in DOMAIN tunnels
         /\ tunnels[tunnelCtxs[k]].key = k /\ tunnels[tunnelCtxs[k]].link = link
         /\ \A j \in DOMAIN tunnels :
              tunnels[j].key = k /\ tunnels[j].link = link => j <= tunnelCtxs[k]
    /\ \A i \in DOMAIN tunnels :
         /\ tunnels[i].link <= link
         /\ tunnels[i].live => tunnelCtxs[tunnels[i].key] = i \/ i \in leaked
         /\ tunnels[i].pc = "exit" /\ tunnels[i].live
              => Kind[tunnels[i].key] = "outbound"
         /\ Kind[tunnels[i].key] = "tcp" => tunnels[i].pc = "ctx"
    /\ \A i \in killed : i \in DOMAIN tunnels
    /\ \A p \in DOMAIN pipes : pipes[p].ctx \in DOMAIN tunnels
    /\ \A k \in Keys : proxyInfo[k] # 0 => proxyInfo[k] \in DOMAIN tunnels

\* Between two connections nothing is under way, the sync lists before it
\* sends, and a user who waits has a place among the pipes.
LinkInStep ==
    /\ IF up THEN link # 0 ELSE wire = <<>> /\ listing = "none"
    /\ listing # "send" => todo = {}
    /\ \A i \in DOMAIN wire :
         wire[i].type = "proxy_outbound" => Kind[wire[i].key] = "outbound"
    /\ Len(pipes) + Cardinality(Requested) <= MaxPipes

Msg(type, k) == [type |-> type, key |-> k]
Absent(m) == \A i \in DOMAIN wire : wire[i] # m
\* m is on the wire and no n comes after it
LastIs(m, n) ==
    \E i \in DOMAIN wire : wire[i] = m /\ \A j \in DOMAIN wire : j > i => wire[j] # n

\* A proxy the server has is served, or the message that will make the node
\* serve it is on the wire or still to be sent.
ServedOrToBe ==
    up => \A k \in srv :
        \/ listing = "list" \/ k \in todo \/ event = k
        \/ LastIs(Msg("proxy", k), Msg("proxy_closed", k))
        \/ Absent(Msg("proxy_closed", k)) /\ ServedByNode(k)

\* A proxy the server does not have is not served, or the message that closes
\* it is on the wire or still to be sent, or the sync sends it too late.
ClosedOrToBe ==
    up => \A k \in Proxies \ srv :
        \/ event = k \/ k \in todo \/ k \in raced
        \/ LastIs(Msg("proxy_closed", k), Msg("proxy", k))
        \/ Absent(Msg("proxy", k)) /\ LiveTunnels(k) \subseteq leaked

\* The types, and what Handler.Stop leaves: after a connection is lost no
\* context of its Handler is live, whatever became of its cancel function; and
\* why the node comes to agree with the server.
ClientInv ==
    /\ TypeOK /\ StoppedWithLink
    /\ TunnelsInStep /\ LinkInStep /\ ServedOrToBe /\ ClosedOrToBe

TunnelOver(i) == i \in DOMAIN tunnels /\ tunnels[i].pc \in {"ctx", "ended"}
HeldOpen(i) ==
    /\ i \in DOMAIN tunnels /\ tunnels[i].pc = "serve"
    /\ Kind[tunnels[i].key] = "loop"
PipeOver(p) == p \in DOMAIN pipes /\ pipes[p].pc = "done"

\* A cancelled tunnel ends, unless it is in a connection that the other side
\* never closes: runTunnelWS and runTunnelUDP look at the context only
\* between two connections.  A user's pipe ends in any case.
CancelledEnds ==
    /\ \A i \in 1..MaxTunnels :
        (i \in DOMAIN tunnels /\ ~tunnels[i].live)
          ~> (TunnelOver(i) \/ []HeldOpen(i))
    /\ \A p \in 1..MaxPipes :
        (p \in DOMAIN pipes /\ ~tunnels[pipes[p].ctx].live) ~> PipeOver(p)
=============================================================================

--------------------------- MODULE TunnelPairing ---------------------------
(***************************************************************************)
(* Pairing a user's connection on a proxy port with the tunnel its client  *)
(* opens for it (session/server.go: the body of the accept loop,           *)
(* registerPending, AcceptTunnel, cleanupExpired; dataplane/server.go and  *)
(* HandleTunnel hand the tunnels in).                                      *)
(*                                                                         *)
(* A user connection is named by the token generated for it.  Its pending  *)
(* entry has a channel of capacity 1 that AcceptTunnel (a tunnel) and      *)
(* cleanupExpired (nil) send to; the waiter goroutine receives from it,    *)
(* gives up after 60 seconds, or ends with the server.  cleanupExpired     *)
(* sends while it holds pendingMu: if that send could block, every tunnel  *)
(* of the server would.                                                    *)
(*                                                                         *)
(* Time is counted in the 30-second ticks of the cleanup loop.  A waiter's *)
(* timer starts at most 3 seconds after its entry was made (the time limit *)
(* of the send in between), so within the same tick.                       *)
(***************************************************************************)
EXTENDS Naturals, Sequences, FiniteSets

CONSTANTS
    Tokens,     \* user connections
    Tunnels,    \* tunnel connections opened by clients
    Nil,        \* the nil connection
    Timeout,    \* ticks until a waiter gives up: 60 seconds, 2 ticks
    MaxAge      \* bound: entries age no further

ASSUME PairingAssumption ==
    /\ Nil \notin Tunnels
    /\ Timeout \in Nat /\ MaxAge \in Nat
    /\ Timeout < MaxAge

VARIABLES
    user,       \* the user connection: where it is
    pendingMap, \* Server.pendingMap: the tokens with an entry
    age,        \* ticks since the entry was made
    ch,         \* the entry's channel
    tunnel,     \* the tunnel connection: where it is
    claim,      \* the token whose entry a tunnel took; a set, at most one
    peer,       \* the tunnel a user connection is piped to; at most one
    known,      \* the tokens a client was told
    stopCh      \* Server.stopCh: closed?

pairingVars == <<user, pendingMap, age, ch, tunnel, claim, peer, known, stopCh>>

PairingTypeOK ==
    /\ user \in [Tokens -> {"none", "registered", "waiting", "piped", "closed"}]
    /\ pendingMap \subseteq Tokens
    /\ age \in [Tokens -> 0..MaxAge]
    /\ ch \in [Tokens -> {<<>>} \cup {<<x>> : x \in Tunnels \cup {Nil}}]
    /\ tunnel \in [Tunnels -> {"none", "accepted", "open", "claimed", "acked",
                            "sent", "piped", "closed"}]
    /\ claim \in [Tunnels -> SUBSET Tokens]
    /\ peer \in [Tokens -> SUBSET Tunnels]
    /\ known \subseteq Tokens
    /\ stopCh \in BOOLEAN

PairingInit ==
    /\ user = [u \in Tokens |-> "none"]
    /\ pendingMap = {}
    /\ age = [u \in Tokens |-> 0]
    /\ ch = [u \in Tokens |-> <<>>]
    /\ tunnel = [t \in Tunnels |-> "none"]
    /\ claim = [t \in Tunnels |-> {}]
    /\ peer = [u \in Tokens |-> {}]
    /\ known = {}
    /\ stopCh = FALSE
-----------------------------------------------------------------------------
(* The accept loop: Accept, a fresh token, registerPending.                *)
AcceptUser(u) ==
    /\ user[u] = "none"
    /\ user' = [user EXCEPT ![u] = "registered"]
    /\ pendingMap' = pendingMap \cup {u}
    /\ UNCHANGED <<age, ch, tunnel, claim, peer, known, stopCh>>

(* tunnel_request reaches the client's session and the waiter is started.  *)
RequestSent(u) ==
    /\ user[u] = "registered"
    /\ user' = [user EXCEPT ![u] = "waiting"]
    /\ known' = known \cup {u}
    /\ UNCHANGED <<pendingMap, age, ch, tunnel, claim, peer, stopCh>>

(* SendToClient fails: the user connection is closed, its entry is left to *)
(* the cleanup.                                                            *)
RequestFailed(u) ==
    /\ user[u] = "registered"
    /\ user' = [user EXCEPT ![u] = "closed"]
    /\ UNCHANGED <<pendingMap, age, ch, tunnel, claim, peer, known, stopCh>>

(* The waiter receives a tunnel and pipes, or nil and closes.              *)
WaiterReceives(u) ==
    /\ user[u] = "waiting"
    /\ ch[u] # <<>>
    /\ ch' = [ch EXCEPT ![u] = Tail(@)]
    /\ LET t == Head(ch[u])
       IN  IF t = Nil
           THEN /\ user' = [user EXCEPT ![u] = "closed"]
                /\ UNCHANGED <<tunnel, peer>>
           ELSE /\ user' = [user EXCEPT ![u] = "piped"]
                /\ tunnel' = [tunnel EXCEPT ![t] = "piped"]
                /\ peer' = [peer EXCEPT ![u] = {t}]
    /\ UNCHANGED <<pendingMap, age, claim, known, stopCh>>

(* Mutated form of TimedOut: the select has no timeout.                    *)
NeverTimesOut(u) == FALSE

(* The waiter's timer has fired: 60 seconds.                               *)
TimedOut(u) == age[u] >= Timeout

(* The waiter's 60 seconds are over, or the server stops.  Only the user   *)
(* connection is closed; the entry stays.                                  *)
WaiterGivesUp(u) ==
    /\ user[u] = "waiting"
    /\ TimedOut(u) \/ stopCh
    /\ user' = [user EXCEPT ![u] = "closed"]
    /\ UNCHANGED <<pendingMap, age, ch, tunnel, claim, peer, known, stopCh>>

(* PipeBidir returns and both connections are closed.                      *)
PipeEnds(u, t) ==
    /\ user[u] = "piped" /\ t \in peer[u]
    /\ user' = [user EXCEPT ![u] = "closed"]
    /\ tunnel' = [tunnel EXCEPT ![t] = "closed"]
    /\ UNCHANGED <<pendingMap, age, ch, claim, peer, known, stopCh>>
-----------------------------------------------------------------------------
(* The data plane accepts connections on the tunnel port; it is stopped    *)
(* after the session server, just before the process ends.                 *)
RunAccepts(t) ==
    /\ tunnel[t] = "none"
    /\ tunnel' = [tunnel EXCEPT ![t] = "accepted"]
    /\ UNCHANGED <<user, pendingMap, age, ch, claim, peer, known, stopCh>>

(* What reading the first bytes of a connection comes to: a token, or a    *)
(* connection that is closed.                                              *)
ReadToken(t) ==
    /\ tunnel' \in {[tunnel EXCEPT ![t] = "open"],
                    [tunnel EXCEPT ![t] = "closed"]}
    /\ UNCHANGED <<user, pendingMap, age, ch, claim, peer, known, stopCh>>

(* handleTunnelConn: "TUNL", a length and a token of this length.          *)
HandleTunnelConn(t) == tunnel[t] = "accepted" /\ ReadToken(t)

(* HandleTunnel: a websocket whose first message is a tunnel_auth with a   *)
(* token.  What the handler does with the websocket after AcceptTunnel has *)
(* handed it over is not modelled.                                         *)
HandleTunnel(t) == tunnel[t] = "none" /\ ReadToken(t)

(* Mutated form of EntriesAfterClaim: the entry is not deleted.            *)
EntriesKept(u) == pendingMap

(* AcceptTunnel deletes the entry in the critical section it finds it in.  *)
EntriesAfterClaim(u) == pendingMap \ {u}

(* AcceptTunnel, under pendingMu: the entry of the token is taken; without *)
(* one the tunnel is closed.  A client presents a token it was told, more  *)
(* than once perhaps.                                                      *)
AcceptTunnel(t, u) ==
    /\ tunnel[t] = "open"
    /\ u \in known
    /\ IF u \in pendingMap
       THEN /\ tunnel' = [tunnel EXCEPT ![t] = "claimed"]
            /\ claim' = [claim EXCEPT ![t] = {u}]
            /\ pendingMap' = EntriesAfterClaim(u)
       ELSE /\ tunnel' = [tunnel EXCEPT ![t] = "closed"]
            /\ UNCHANGED <<claim, pendingMap>>
    /\ UNCHANGED <<user, age, ch, peer, known, stopCh>>

(* The acknowledgement is written to the client, or that fails and the     *)
(* tunnel is closed.                                                       *)
WriteAck(t) ==
    /\ tunnel[t] = "claimed"
    /\ tunnel' \in {[tunnel EXCEPT ![t] = "acked"],
                    [tunnel EXCEPT ![t] = "closed"]}
    /\ UNCHANGED <<user, pendingMap, age, ch, claim, peer, known, stopCh>>

(* entry.ch <- conn: waits while the channel is full.                      *)
SendTunnel(t, u) ==
    /\ tunnel[t] = "acked" /\ u \in claim[t]
    /\ ch[u] = <<>>
    /\ ch' = [ch EXCEPT ![u] = <<t>>]
    /\ tunnel' = [tunnel EXCEPT ![t] = "sent"]
    /\ UNCHANGED <<user, pendingMap, age, claim, peer, known, stopCh>>
-----------------------------------------------------------------------------
(* Time passes for all entries alike.                                      *)
Tick ==
    /\ age' = [u \in Tokens |->
                 IF user[u] # "none" /\ age[u] < MaxAge
                 THEN age[u] + 1 ELSE age[u]]
    /\ age' # age
    /\ UNCHANGED <<user, pendingMap, ch, tunnel, claim, peer, known, stopCh>>

(* cleanupExpired finds the entries older than 60 seconds.                 *)
Expired == {u \in pendingMap : age[u] > Timeout}

(* Mutated form of EntriesAfterCleanup: the expired entries stay.          *)
EntriesNotCleaned == pendingMap

(* cleanupExpired deletes the entries it finds expired.                    *)
EntriesAfterCleanup == pendingMap \ Expired

(* cleanupExpired, under pendingMu: nil to every expired entry's channel.  *)
(* The whole loop is one critical section; it waits if a channel is full.  *)
CleanupExpired ==
    /\ ~stopCh
    /\ Expired # {}
    /\ \A u \in Expired : ch[u] = <<>>
    /\ ch' = [u \in Tokens |-> IF u \in Expired THEN <<Nil>> ELSE ch[u]]
    /\ pendingMap' = EntriesAfterCleanup
    /\ UNCHANGED <<user, age, tunnel, claim, peer, known, stopCh>>

(* Server.Stop.                                                            *)
CloseStopCh ==
    /\ ~stopCh
    /\ stopCh' = TRUE
    /\ UNCHANGED <<user, pendingMap, age, ch, tunnel, claim, peer, known>>
-----------------------------------------------------------------------------
Waiter(u) == WaiterReceives(u) \/ WaiterGivesUp(u)
Handler(t) == WriteAck(t) \/ \E u \in Tokens : SendTunnel(t, u)

PairingNext ==
    \/ \E u \in Tokens : AcceptUser(u) \/ RequestSent(u) \/ RequestFailed(u)
    \/ \E u \in Tokens : Waiter(u)
    \/ \E u \in Tokens, t \in Tunnels : PipeEnds(u, t) \/ AcceptTunnel(t, u)
    \/ \E t \in Tunnels : RunAccepts(t) \/ HandleTunnelConn(t) \/ HandleTunnel(t)
    \/ \E t \in Tunnels : Handler(t)
    \/ Tick \/ CleanupExpired \/ CloseStopCh

(* Goroutines run, timers fire, the send of a request returns (after 3     *)
(* seconds at most).  Nothing makes a client connect, a pipe end or the    *)
(* server stop.                                                            *)
PairingFairness ==
    /\ \A u \in Tokens : /\ WF_pairingVars(RequestSent(u) \/ RequestFailed(u))
                         /\ WF_pairingVars(Waiter(u))
    /\ \A t \in Tunnels : WF_pairingVars(Handler(t))
    /\ WF_pairingVars(Tick)
    /\ WF_pairingVars(CleanupExpired)

PairingSpec == PairingInit /\ [][PairingNext]_pairingVars
PairingFairSpec == PairingSpec /\ PairingFairness
-----------------------------------------------------------------------------
Sending(t, u) == tunnel[t] \in {"claimed", "acked"} /\ u \in claim[t]

(* No send to an entry's channel ever waits: the entry is gone before its  *)
(* one value is sent, so cleanupExpired never blocks with pendingMu held   *)
(* and AcceptTunnel never leaks its goroutine (server.go:826-874).         *)
SendNeverBlocks ==
    \A u \in Tokens :
        /\ u \in pendingMap => ch[u] = <<>>
        /\ \A t \in Tunnels : Sending(t, u) => ch[u] = <<>>

(* A token is good for one tunnel: of all tunnels that present it, one     *)
(* takes the entry, and what a user connection is piped to is the tunnel   *)
(* that did; a tunnel is never handed to two users (server.go:826-844).    *)
TokenUsedOnce ==
    /\ \A t, s \in Tunnels : claim[t] \cap claim[s] # {} => t = s
    /\ \A u \in Tokens : \A t \in peer[u] : claim[t] = {u}

(* Why the two invariants hold, at every step: an entry in the map has an  *)
(* empty channel and no tunnel has taken it; a token is known to a client  *)
(* only after its entry was made; what is in a channel, and later piped,   *)
(* is the tunnel that took the entry, or nil (server.go:808-874).          *)
PairingInv ==
    /\ PairingTypeOK
    /\ SendNeverBlocks
    /\ TokenUsedOnce
    /\ \A u \in pendingMap : \A t \in Tunnels : u \notin claim[t]
    /\ \A u \in Tokens : user[u] = "none" =>
         /\ ch[u] = <<>> /\ u \notin known /\ u \notin pendingMap
         /\ \A t \in Tunnels : u \notin claim[t]
    /\ \A t \in Tunnels : 
         tunnel[t] \in {"none", "accepted", "open"} => claim[t] = {}
    /\ \A t \in Tunnels : \A u, v \in claim[t] : u = v
    /\ \A u \in Tokens : \A t \in Tunnels :
         ch[u] = <<t>> => u \in claim[t] /\ tunnel[t] = "sent"
    /\ \A u \in Tokens : \A t \in peer[u] : tunnel[t] \in {"piped", "closed"}

(* A user is not kept waiting for ever: his connection is piped or closed, *)
(* whether the request fails, the client never answers or its tunnel is    *)
(* lost (server.go:770-801).                                               *)
UserIsAnswered ==
    \A u \in Tokens :
        (user[u] = "registered") ~> (user[u] \in {"piped", "closed"})

(* Entries do not pile up: one whose request failed or whose client never  *)
(* connects is removed while the server runs (server.go:847-874).          *)
PendingIsReclaimed ==
    \A u \in Tokens : (u \in pendingMap) ~> (u \notin pendingMap \/ stopCh)
=============================================================================

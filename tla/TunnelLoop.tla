----------------------------- MODULE TunnelLoop -----------------------------
(***************************************************************************)
(* Who accepts connections on a proxy's public port                        *)
(* (session/server.go startTunnelLoop, plugins/proxy/proxy.go).            *)
(*                                                                         *)
(* A proxy event is handled by three handlers in turn on the bus worker:   *)
(* the core applies it, the proxy plugin opens or closes the listener, the *)
(* session layer starts the accept loop.  Sessions of reconnecting clients *)
(* start loops too (syncClientProxies), each on its own goroutine, and a   *)
(* loop ends on its own goroutine after its listener was closed.  The map  *)
(* activeLoops is meant to keep two loops from one proxy.                  *)
(*                                                                         *)
(* A call of startTunnelLoop that passes the check of activeLoops, and the *)
(* goroutine it becomes, is a number; so is a listener among those opened  *)
(* for its key.                                                            *)
(***************************************************************************)
EXTENDS Naturals

CONSTANTS
    Keys,       \* proxy keys "clientID:port"
    Syncs,      \* sessions that may synchronise their client's proxies
    Rebind,     \* may a proxy be created again at another bind address?
    MaxEvents,  \* bound: proxy events handled
    MaxStarts   \* bound: calls of startTunnelLoop past the check

ASSUME LoopAssumption ==
    /\ Keys # {}
    /\ Rebind \in BOOLEAN
    /\ MaxEvents \in Nat
    /\ MaxStarts \in Nat

VARIABLES
    proxies,        \* StateStore.proxies
    listeners,      \* TCPProvider.listeners: the listener of a key, or 0
    opened,         \* how many listeners were opened for a key so far
    open,           \* the listeners that are open, <<key, number>>
    activeLoops,    \* Server.activeLoops
    loop,           \* the calls of startTunnelLoop past the check
    started,        \* how many there are
    worker,         \* the bus worker: [pc, key, call]
    sync,           \* the synchronising sessions: [pc, todo, call]
    events,         \* bound
    stopped         \* Server.stopCh is closed

vars == <<proxies, listeners, opened, open, activeLoops, loop, started, worker,
          sync, events, stopped>>

Calls == 1..MaxStarts
AnyKey == CHOOSE k \in Keys : TRUE
NoCall == [pc |-> "none", key |-> AnyKey, ln |-> 0]
IdleWorker == [pc |-> "idle", key |-> AnyKey, call |-> 0]
IdleSync == [pc |-> "idle", todo |-> {}, call |-> 0]

TypeOK ==
    /\ proxies \subseteq Keys
    /\ listeners \in [Keys -> Nat]
    /\ opened \in [Keys -> Nat]
    /\ open \subseteq Keys \X Nat
    /\ activeLoops \subseteq Keys
    /\ loop \in [Calls -> [pc : {"none", "get", "failed", "accept", "exit", "gone"},
                           key : Keys, ln : Nat]]
    /\ started \in 0..MaxStarts
    /\ worker \in [pc : {"idle", "listen", "close", "session", "start"},
                   key : Keys, call : 0..MaxStarts]
    /\ sync \in [Syncs -> [pc : {"idle", "run", "start"}, todo : SUBSET Keys,
                           call : 0..MaxStarts]]
    /\ events \in 0..MaxEvents
    /\ stopped \in BOOLEAN

Init ==
    /\ proxies = {}
    /\ listeners = [k \in Keys |-> 0]
    /\ opened = [k \in Keys |-> 0]
    /\ open = {}
    /\ activeLoops = {}
    /\ loop = [n \in Calls |-> NoCall]
    /\ started = 0
    /\ worker = IdleWorker
    /\ sync = [s \in Syncs |-> IdleSync]
    /\ events = 0
    /\ stopped = FALSE
-----------------------------------------------------------------------------
(* Mutated form of MayStart: the loop is started unconditionally.          *)
MayStartAgain(k) == TRUE

(* startTunnelLoop, under loopsMu: is there no loop for the key yet?       *)
MayStart(k) == k \notin activeLoops

(* startTunnelLoop, first part: set the flag and become a call, or return  *)
(* (no call, 0).                                                           *)
CheckFlag(k, call) ==
    IF MayStart(k)
    THEN /\ started < MaxStarts
         /\ started' = started + 1
         /\ call = started + 1
         /\ loop' = [loop EXCEPT ![call] = [pc |-> "get", key |-> k, ln |-> 0]]
         /\ activeLoops' = activeLoops \cup {k}
    ELSE /\ call = 0
         /\ UNCHANGED <<started, loop, activeLoops>>

(* startTunnelLoop, second part: GetListener.  Without a listener the call *)
(* returns and leaves the flag set; with one it becomes the accept loop.   *)
GetListener(n) ==
    /\ loop[n].pc = "get"
    /\ LET k == loop[n].key
       IN  loop' = [loop EXCEPT ![n] =
                      IF listeners[k] # 0
                      THEN [@ EXCEPT !.pc = "accept", !.ln = listeners[k]]
                      ELSE [@ EXCEPT !.pc = "failed"]]
    /\ UNCHANGED <<proxies, listeners, opened, open, activeLoops, started, worker,
                   sync, events, stopped>>

(* The listener a loop accepts on has been closed.                         *)
Closed(n) == <<loop[n].key, loop[n].ln>> \notin open

(* Mutated form of AcceptEnds: ErrClosed is taken for a passing error.     *)
AcceptEndsOnStop(n) == Closed(n) /\ stopped

(* Accept fails with net.ErrClosed once the listener is closed.  (It hands *)
(* out connections before that: module TunnelPairing.)                     *)
AcceptEnds(n) == Closed(n)

(* The loop returns on net.ErrClosed.                                      *)
LoopEnds(n) ==
    /\ loop[n].pc = "accept"
    /\ AcceptEnds(n)
    /\ loop' = [loop EXCEPT ![n].pc = "exit"]
    /\ UNCHANGED <<proxies, listeners, opened, open, activeLoops, started, worker,
                   sync, events, stopped>>

(* After Server.Stop the loop also returns on any other error of Accept;   *)
(* before, it tries again.                                                 *)
AcceptFails(n) ==
    /\ loop[n].pc = "accept"
    /\ stopped
    /\ loop' = [loop EXCEPT ![n].pc = "exit"]
    /\ UNCHANGED <<proxies, listeners, opened, open, activeLoops, started, worker,
                   sync, events, stopped>>

(* The deferred function clears the flag, some time after the listener was *)
(* closed.                                                                 *)
LoopClears(n) ==
    /\ loop[n].pc = "exit"
    /\ activeLoops' = activeLoops \ {loop[n].key}
    /\ loop' = [loop EXCEPT ![n].pc = "gone"]
    /\ UNCHANGED <<proxies, listeners, opened, open, started, worker, sync,
                   events, stopped>>
-----------------------------------------------------------------------------
(* The bus worker takes a proxy event; the core applies it.                *)
ApplyAdded(k) ==
    /\ worker.pc = "idle"
    /\ events < MaxEvents
    /\ events' = events + 1
    /\ proxies' = proxies \cup {k}
    /\ worker' = [pc |-> "listen", key |-> k, call |-> 0]
    /\ UNCHANGED <<listeners, opened, open, activeLoops, loop, started, sync,
                   stopped>>

(* The same for a DELETED event.                                           *)
ApplyDeleted(k) ==
    /\ worker.pc = "idle"
    /\ events < MaxEvents
    /\ events' = events + 1
    /\ proxies' = proxies \ {k}
    /\ worker' = [pc |-> "close", key |-> k, call |-> 0]
    /\ UNCHANGED <<listeners, opened, open, activeLoops, loop, started, sync,
                   stopped>>

(* The proxy plugin's handler of ADDED: net.Listen may fail because of     *)
(* another socket.  It does if the key has a listener already, unless the  *)
(* proxy is now bound to another address; the new listener then takes the  *)
(* place of the old one in the map.                                        *)
PluginListen ==
    /\ worker.pc = "listen"
    /\ LET k == worker.key
       IN  \/ /\ listeners[k] = 0 \/ Rebind
              /\ opened' = [opened EXCEPT ![k] = @ + 1]
              /\ listeners' = [listeners EXCEPT ![k] = opened[k] + 1]
              /\ open' = open \cup {<<k, opened[k] + 1>>}
           \/ UNCHANGED <<listeners, opened, open>>
    /\ worker' = [worker EXCEPT !.pc = "session"]
    /\ UNCHANGED <<proxies, activeLoops, loop, started, sync, events, stopped>>

(* Mutated form of OpenAfterDelete: the entry is removed, the listener     *)
(* stays open.                                                             *)
OpenKept(k) == open

(* TCPProvider.Delete closes the listener that the map names.              *)
OpenAfterDelete(k) == open \ {<<k, listeners[k]>>}

(* The plugin's handler of DELETED; the session handler then only notifies *)
(* the client.                                                             *)
PluginClose ==
    /\ worker.pc = "close"
    /\ listeners' = [listeners EXCEPT ![worker.key] = 0]
    /\ open' = OpenAfterDelete(worker.key)
    /\ worker' = IdleWorker
    /\ UNCHANGED <<proxies, opened, activeLoops, loop, started, sync, events,
                   stopped>>

(* Session.handleProxyAdded: startTunnelLoop on the worker.                *)
SessionStart ==
    /\ worker.pc = "session"
    /\ \E call \in 0..MaxStarts :
         /\ CheckFlag(worker.key, call)
         /\ worker' = IF call = 0 THEN IdleWorker
                      ELSE [worker EXCEPT !.pc = "start", !.call = call]
    /\ UNCHANGED <<proxies, listeners, opened, open, sync, events, stopped>>

(* startTunnelLoop has returned to the worker.                             *)
SessionStarted ==
    /\ worker.pc = "start"
    /\ loop[worker.call].pc # "get"
    /\ worker' = IdleWorker
    /\ UNCHANGED <<proxies, listeners, opened, open, activeLoops, loop, started,
                   sync, events, stopped>>
-----------------------------------------------------------------------------
(* A client registers: syncClientProxies lists its proxies ...             *)
SyncBegin(s) ==
    /\ sync[s].pc = "idle"
    /\ ~stopped
    /\ proxies # {}
    /\ sync' = [sync EXCEPT ![s] = [pc |-> "run", todo |-> proxies, call |-> 0]]
    /\ UNCHANGED <<proxies, listeners, opened, open, activeLoops, loop, started,
                   worker, events, stopped>>

(* ... and calls startTunnelLoop for each.                                 *)
SyncStart(s, k) ==
    /\ sync[s].pc = "run"
    /\ k \in sync[s].todo
    /\ \E call \in 0..MaxStarts :
         /\ CheckFlag(k, call)
         /\ sync' = [sync EXCEPT ![s] =
                       [pc |-> IF call = 0 THEN "run" ELSE "start",
                        todo |-> @.todo \ {k}, call |-> call]]
    /\ UNCHANGED <<proxies, listeners, opened, open, worker, events, stopped>>

(* startTunnelLoop has returned to the session, and the next key follows.  *)
SyncStarted(s) ==
    /\ sync[s].pc = "start"
    /\ loop[sync[s].call].pc # "get"
    /\ sync' = [sync EXCEPT ![s] = [pc |-> "run", todo |-> @.todo, call |-> 0]]
    /\ UNCHANGED <<proxies, listeners, opened, open, activeLoops, loop, started,
                   worker, events, stopped>>

(* All proxies are synchronised.                                           *)
SyncEnd(s) ==
    /\ sync[s].pc = "run"
    /\ sync[s].todo = {}
    /\ sync' = [sync EXCEPT ![s] = IdleSync]
    /\ UNCHANGED <<proxies, listeners, opened, open, activeLoops, loop, started,
                   worker, events, stopped>>

(* Server.Stop closes stopCh; it leaves the listeners open.                *)
StopServer ==
    /\ ~stopped
    /\ stopped' = TRUE
    /\ UNCHANGED <<proxies, listeners, opened, open, activeLoops, loop, started,
                   worker, sync, events>>
-----------------------------------------------------------------------------
Loop(n) == GetListener(n) \/ LoopEnds(n) \/ LoopClears(n)

Worker ==
    \/ \E k \in Keys : ApplyAdded(k) \/ ApplyDeleted(k)
    \/ PluginListen \/ PluginClose \/ SessionStart \/ SessionStarted

Sync(s) ==
    \/ SyncBegin(s) \/ SyncStarted(s) \/ SyncEnd(s)
    \/ \E k \in Keys : SyncStart(s, k)

Next ==
    \/ Worker
    \/ \E s \in Syncs : Sync(s)
    \/ \E n \in Calls : Loop(n) \/ AcceptFails(n)
    \/ StopServer

(* Every loop goroutine that can run is scheduled.  No Accept need fail    *)
(* while its listener is open.                                             *)
Fairness == \A n \in Calls : WF_vars(Loop(n))

Spec == Init /\ [][Next]_vars
FairSpec == Spec /\ Fairness
-----------------------------------------------------------------------------
Running(n) == loop[n].pc \in {"get", "accept", "exit"}

(* The comment of startTunnelLoop (server.go:719), "the same proxy is not  *)
(* started twice": two calls for one key are never past the check at the   *)
(* same time, so a connection is accepted by one loop, in whatever order   *)
(* the worker, the sessions and a loop that is ending run.                 *)
OneLoopPerProxy ==
    \A n, m \in Calls :
        Running(n) /\ Running(m) /\ loop[n].key = loop[m].key => n = m

(* The flag of a running loop is set: nobody clears it for a loop that is  *)
(* not its own (server.go:745-749).                                        *)
RunningIsFlagged == \A n \in Calls : Running(n) => loop[n].key \in activeLoops

(* Why the two hold together at every step: a call past the check set the  *)
(* flag of its key when no running call had it, and calls are numbered in  *)
(* the order they pass the check (server.go:720-749).                      *)
LoopInv ==
    /\ TypeOK
    /\ OneLoopPerProxy
    /\ RunningIsFlagged
    /\ \A n \in Calls : n > started => loop[n].pc = "none"

(* A loop whose listener was closed ends and releases its flag             *)
(* (server.go:751-756), even while the server keeps running.               *)
ClosedLoopEnds ==
    \A n \in Calls : (loop[n].pc = "accept" /\ Closed(n)) ~> (loop[n].pc = "gone")

(* No port stays open for a proxy that was deleted: between two events     *)
(* every open listener belongs to a proxy (proxy.go:117-129, 196-230).     *)
ClosedWithProxy == worker.pc = "idle" => \A l \in open : l[1] \in proxies

(* Why it holds without Rebind: the map names every open listener, and a   *)
(* key it names is a proxy or about to be closed (proxy.go:196-230).       *)
ListenersListed ==
    /\ open = {<<k, listeners[k]>> : k \in {j \in Keys : listeners[j] # 0}}
    /\ \A k \in Keys : listeners[k] # 0 =>
         k \in proxies \/ (worker.pc = "close" /\ worker.key = k)
    /\ worker.pc = "listen" => worker.key \in proxies

Quiet ==
    /\ ~stopped
    /\ worker.pc = "idle"
    /\ \A s \in Syncs : sync[s].pc = "idle"
    /\ \A n \in Calls : loop[n].pc \in {"none", "failed", "accept", "gone"}
    /\ \A n \in Calls : loop[n].pc = "accept" => ~Closed(n)

(* server.go:599: the loop of a proxy is started with its listener, and    *)
(* again when its client reconnects: when nothing is going on, every open  *)
(* port is being accepted on.                                              *)
OpenPortIsServed ==
    Quiet => \A l \in open :
        \E n \in Calls : loop[n].pc = "accept" /\ l = <<loop[n].key, loop[n].ln>>
=============================================================================

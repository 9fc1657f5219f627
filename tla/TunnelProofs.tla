---------------------------- MODULE TunnelProofs ----------------------------
(* Tunnels.  First the accept loops: one per proxy, for any number of      *)
(* proxies, sessions, events and calls of startTunnelLoop.  Then the       *)
(* pairing of users and tunnels: the sends to an entry's channel never     *)
(* wait and a token is good for one tunnel, for any number of user         *)
(* connections and tunnels and any timeout.                                *)
EXTENDS TunnelLoop, TunnelPairing, TLAPS

(* The numbers of calls are natural numbers.                               *)
LEMMA CallsAreNumbers == Calls \subseteq Nat /\ 0..MaxStarts \subseteq Nat
  BY LoopAssumption DEF Calls

(* The first step: no call has passed the check, the invariant holds.      *)
LEMMA LoopInvInit == Init => LoopInv
  <1> SUFFICES ASSUME Init PROVE LoopInv
    OBVIOUS
  <1> USE LoopAssumption
  <1>1. AnyKey \in Keys
    BY DEF AnyKey
  <1>2. TypeOK
    <2>1. /\ IdleSync \in [pc : {"idle", "run", "start"}, todo : SUBSET Keys,
                           call : 0..MaxStarts]
          /\ IdleWorker \in [pc : {"idle", "listen", "close", "session", "start"},
                             key : Keys, call : 0..MaxStarts]
          /\ NoCall \in [pc : {"none", "get", "failed", "accept", "exit", "gone"},
                         key : Keys, ln : Nat]
      BY <1>1 DEF NoCall, IdleWorker, IdleSync
    <2>2. stopped \in BOOLEAN
      BY DEF Init
    <2>3. /\ proxies \subseteq Keys
          /\ activeLoops \subseteq Keys
          /\ started \in 0..MaxStarts /\ events \in 0..MaxEvents
          /\ listeners \in [Keys -> Nat] /\ opened \in [Keys -> Nat]
          /\ open \subseteq Keys \X Nat
      BY DEF Init
    <2> QED
      BY <2>1, <2>2, <2>3, Zenon DEF Init, TypeOK
  <1>3. OneLoopPerProxy /\ RunningIsFlagged
    BY DEF Init, OneLoopPerProxy, RunningIsFlagged, Running, NoCall
  <1>4. \A n \in Calls : n > started => loop[n].pc = "none"
    BY DEF Init, NoCall
  <1> QED
    BY <1>2, <1>3, <1>4 DEF LoopInv

(* The check of startTunnelLoop (server.go:721-727) keeps the invariant    *)
(* about loops, whoever calls it.                                          *)
LEMMA CheckFlagSafe ==
  ASSUME LoopInv, NEW k \in Keys, NEW call \in 0..MaxStarts,
         CheckFlag(k, call)
  PROVE  /\ started' \in 0..MaxStarts
         /\ activeLoops' \subseteq Keys
         /\ loop' \in [Calls -> [pc : {"none", "get", "failed", "accept",
                                       "exit", "gone"},
                                 key : Keys, ln : Nat]]
         /\ OneLoopPerProxy' /\ RunningIsFlagged'
         /\ \A n \in Calls : n > started' => loop'[n].pc = "none"
  <1> USE LoopAssumption DEF LoopInv, TypeOK
  <1>1. CASE MayStart(k)
    <2>1. /\ started < MaxStarts /\ started' = started + 1
          /\ call = started + 1 /\ call \in Calls
          /\ loop' = [loop EXCEPT ![call] = [pc |-> "get", key |-> k, ln |-> 0]]
          /\ activeLoops' = activeLoops \cup {k}
      BY <1>1 DEF CheckFlag, Calls
    <2>2. /\ loop'[call] = [pc |-> "get", key |-> k, ln |-> 0]
          /\ \A n \in Calls : n # call => loop'[n] = loop[n]
      BY <2>1
    <2>3. loop' \in [Calls -> [pc : {"none", "get", "failed", "accept",
                                     "exit", "gone"},
                               key : Keys, ln : Nat]]
      BY <2>1
    <2>4. \A n \in Calls : Running(n) => loop[n].key # k
      BY <1>1 DEF MayStart, RunningIsFlagged
    <2>5. \A n \in Calls : n # call =>
            (Running(n)' = Running(n) /\ loop'[n].key = loop[n].key)
      BY <2>2 DEF Running
    <2>6. OneLoopPerProxy'
      BY <2>2, <2>4, <2>5 DEF OneLoopPerProxy
    <2>7. RunningIsFlagged'
      BY <2>1, <2>2, <2>5 DEF RunningIsFlagged
    <2>8. \A n \in Calls : n > started' => loop'[n].pc = "none"
      BY <2>1, <2>2, CallsAreNumbers
    <2> QED
      BY <2>1, <2>3, <2>6, <2>7, <2>8
  <1>2. CASE ~MayStart(k)
    BY <1>2 DEF CheckFlag, OneLoopPerProxy, RunningIsFlagged, Running
  <1> QED
    BY <1>1, <1>2

(* Steps that leave the loops and their flags alone keep the invariant     *)
(* about them.                                                             *)
LEMMA SameLoops ==
  ASSUME LoopInv, UNCHANGED <<activeLoops, loop, started>>
  PROVE  /\ OneLoopPerProxy' /\ RunningIsFlagged'
         /\ \A n \in Calls : n > started' => loop'[n].pc = "none"
  BY DEF LoopInv, OneLoopPerProxy, RunningIsFlagged, Running

(* A loop that moves on with its key, and stays running or stops being so, *)
(* keeps the invariant: no other running loop has the key.                 *)
LEMMA LoopMoves ==
  ASSUME LoopInv, NEW n \in Calls,
         NEW c \in [pc : {"failed", "accept", "exit", "gone"},
                    key : Keys, ln : Nat],
         c.key = loop[n].key,
         Running(n),
         loop' = [loop EXCEPT ![n] = c],
         started' = started,
         activeLoops' = activeLoops
           \/ (c.pc = "gone" /\ activeLoops' = activeLoops \ {loop[n].key})
  PROVE  /\ activeLoops' \subseteq Keys
         /\ loop' \in [Calls -> [pc : {"none", "get", "failed", "accept",
                                       "exit", "gone"},
                                 key : Keys, ln : Nat]]
         /\ OneLoopPerProxy' /\ RunningIsFlagged'
         /\ \A m \in Calls : m > started' => loop'[m].pc = "none"
  <1> USE DEF LoopInv, TypeOK
  <1>1. /\ loop'[n] = c
        /\ \A m \in Calls : m # n => loop'[m] = loop[m]
    OBVIOUS
  <1>2. loop' \in [Calls -> [pc : {"none", "get", "failed", "accept",
                                   "exit", "gone"},
                             key : Keys, ln : Nat]]
    OBVIOUS
  <1>3. \A m \in Calls : Running(m)' => Running(m) /\ loop'[m].key = loop[m].key
    BY <1>1 DEF Running
  <1>4. OneLoopPerProxy'
    BY <1>3 DEF OneLoopPerProxy
  <1>5. RunningIsFlagged'
    <2> SUFFICES ASSUME NEW m \in Calls, Running(m)'
                 PROVE  loop'[m].key \in activeLoops'
      BY DEF RunningIsFlagged
    <2>1. loop[m].key \in activeLoops /\ loop'[m].key = loop[m].key
      BY <1>3 DEF RunningIsFlagged
    <2>2. CASE activeLoops' = activeLoops
      BY <2>1, <2>2
    <2>3. CASE c.pc = "gone" /\ activeLoops' = activeLoops \ {loop[n].key}
      <3>1. m # n
        BY <1>1, <2>3 DEF Running
      <3>2. loop[m].key # loop[n].key
        BY <1>3, <3>1 DEF OneLoopPerProxy
      <3> QED
        BY <2>1, <2>3, <3>2
    <2> QED
      BY <2>2, <2>3
  <1>6. \A m \in Calls : m > started' => loop'[m].pc = "none"
    BY <1>1 DEF Running
  <1> QED
    BY <1>2, <1>4, <1>5, <1>6

(* Every step of the worker, of a session or of a loop keeps the           *)
(* invariant.                                                              *)
LEMMA LoopInvNext == LoopInv /\ [Next]_vars => LoopInv'
  <1> SUFFICES ASSUME LoopInv, [Next]_vars PROVE LoopInv'
    OBVIOUS
  <1> USE LoopAssumption
  <1>0. TypeOK
    BY DEF LoopInv
  <1>01. AnyKey \in Keys
    BY DEF AnyKey
  <1>1. ASSUME NEW k \in Keys, ApplyAdded(k) PROVE LoopInv'
    <2>1. TypeOK'
      BY <1>0, <1>1 DEF ApplyAdded, TypeOK
    <2> QED
      BY <1>1, <2>1, SameLoops DEF ApplyAdded, LoopInv
  <1>2. ASSUME NEW k \in Keys, ApplyDeleted(k) PROVE LoopInv'
    <2>1. TypeOK'
      BY <1>0, <1>2 DEF ApplyDeleted, TypeOK
    <2> QED
      BY <1>2, <2>1, SameLoops DEF ApplyDeleted, LoopInv
  <1>3. CASE PluginListen
    <2>1. TypeOK'
      BY <1>0, <1>3 DEF PluginListen, TypeOK
    <2> QED
      BY <1>3, <2>1, SameLoops DEF PluginListen, LoopInv
  <1>4. CASE PluginClose
    <2>1. TypeOK'
      BY <1>0, <1>01, <1>4 DEF PluginClose, OpenAfterDelete, TypeOK, IdleWorker
    <2> QED
      BY <1>4, <2>1, SameLoops DEF PluginClose, LoopInv
  <1>5. CASE SessionStart
    <2>1. PICK call \in 0..MaxStarts :
            /\ CheckFlag(worker.key, call)
            /\ worker' = IF call = 0 THEN IdleWorker
                         ELSE [worker EXCEPT !.pc = "start", !.call = call]
      BY <1>5 DEF SessionStart
    <2>2. worker.key \in Keys
      BY <1>0 DEF TypeOK
    <2>3. worker' \in [pc : {"idle", "listen", "close", "session", "start"},
                       key : Keys, call : 0..MaxStarts]
      BY <1>0, <1>01, <2>1 DEF TypeOK, IdleWorker
    <2> QED
      BY <1>0, <1>5, <2>1, <2>2, <2>3, CheckFlagSafe
      DEF SessionStart, LoopInv, TypeOK
  <1>6. CASE SessionStarted
    <2>1. TypeOK'
      BY <1>0, <1>01, <1>6 DEF SessionStarted, TypeOK, IdleWorker
    <2> QED
      BY <1>6, <2>1, SameLoops DEF SessionStarted, LoopInv
  <1>7. ASSUME NEW s \in Syncs, SyncBegin(s) PROVE LoopInv'
    <2>1. TypeOK'
      BY <1>0, <1>7 DEF SyncBegin, TypeOK
    <2> QED
      BY <1>7, <2>1, SameLoops DEF SyncBegin, LoopInv
  <1>8. ASSUME NEW s \in Syncs, NEW k \in Keys, SyncStart(s, k) PROVE LoopInv'
    <2>1. PICK call \in 0..MaxStarts :
            /\ CheckFlag(k, call)
            /\ sync' = [sync EXCEPT ![s] =
                          [pc |-> IF call = 0 THEN "run" ELSE "start",
                           todo |-> @.todo \ {k}, call |-> call]]
      BY <1>8 DEF SyncStart
    <2>2. sync' \in [Syncs -> [pc : {"idle", "run", "start"},
                               todo : SUBSET Keys, call : 0..MaxStarts]]
      BY <1>0, <2>1 DEF TypeOK
    <2> QED
      BY <1>0, <1>8, <2>1, <2>2, CheckFlagSafe DEF SyncStart, LoopInv, TypeOK
  <1>9. ASSUME NEW s \in Syncs, SyncStarted(s) PROVE LoopInv'
    <2>1. TypeOK'
      BY <1>0, <1>9 DEF SyncStarted, TypeOK
    <2> QED
      BY <1>9, <2>1, SameLoops DEF SyncStarted, LoopInv
  <1>10. ASSUME NEW s \in Syncs, SyncEnd(s) PROVE LoopInv'
    <2>1. TypeOK'
      BY <1>0, <1>10 DEF SyncEnd, TypeOK, IdleSync
    <2> QED
      BY <1>10, <2>1, SameLoops DEF SyncEnd, LoopInv
  <1>11. ASSUME NEW n \in Calls, GetListener(n) PROVE LoopInv'
    <2> DEFINE c == IF listeners[loop[n].key] # 0
                    THEN [loop[n] EXCEPT !.pc = "accept",
                                         !.ln = listeners[loop[n].key]]
                    ELSE [loop[n] EXCEPT !.pc = "failed"]
    <2>1. loop' = [loop EXCEPT ![n] = c]
      BY <1>11 DEF GetListener
    <2>2. /\ c \in [pc : {"failed", "accept", "exit", "gone"}, key : Keys, ln : Nat]
          /\ c.key = loop[n].key
      BY <1>0 DEF TypeOK
    <2>3. Running(n)
      BY <1>11 DEF GetListener, Running
    <2> HIDE DEF c
    <2> QED
      BY <1>0, <1>11, <2>1, <2>2, <2>3, LoopMoves DEF GetListener, LoopInv, TypeOK
  <1>12. ASSUME NEW n \in Calls, LoopEnds(n) PROVE LoopInv'
    <2> DEFINE c == [loop[n] EXCEPT !.pc = "exit"]
    <2>1. loop' = [loop EXCEPT ![n] = c]
      BY <1>12 DEF LoopEnds
    <2>2. /\ c \in [pc : {"failed", "accept", "exit", "gone"}, key : Keys, ln : Nat]
          /\ c.key = loop[n].key
      BY <1>0 DEF TypeOK
    <2>3. Running(n)
      BY <1>12 DEF LoopEnds, Running
    <2> HIDE DEF c
    <2> QED
      BY <1>0, <1>12, <2>1, <2>2, <2>3, LoopMoves DEF LoopEnds, LoopInv, TypeOK
  <1>13. ASSUME NEW n \in Calls, LoopClears(n) PROVE LoopInv'
    <2> DEFINE c == [loop[n] EXCEPT !.pc = "gone"]
    <2>1. loop' = [loop EXCEPT ![n] = c]
      BY <1>13 DEF LoopClears
    <2>2. /\ c \in [pc : {"failed", "accept", "exit", "gone"}, key : Keys, ln : Nat]
          /\ c.key = loop[n].key /\ c.pc = "gone"
      BY <1>0 DEF TypeOK
    <2>3. Running(n)
      BY <1>13 DEF LoopClears, Running
    <2> HIDE DEF c
    <2> QED
      BY <1>0, <1>13, <2>1, <2>2, <2>3, LoopMoves DEF LoopClears, LoopInv, TypeOK
  <1>14. CASE StopServer
    <2>1. TypeOK'
      BY <1>0, <1>14, Zenon DEF StopServer, TypeOK
    <2> QED
      BY <1>14, <2>1, SameLoops DEF StopServer, LoopInv
  <1>15. CASE UNCHANGED vars
    <2>1. TypeOK'
      BY <1>0, <1>15 DEF vars, TypeOK
    <2> QED
      BY <1>15, <2>1, SameLoops DEF vars, LoopInv
  <1>16. ASSUME NEW n \in Calls, AcceptFails(n) PROVE LoopInv'
    <2> DEFINE c == [loop[n] EXCEPT !.pc = "exit"]
    <2>1. loop' = [loop EXCEPT ![n] = c]
      BY <1>16 DEF AcceptFails
    <2>2. /\ c \in [pc : {"failed", "accept", "exit", "gone"}, key : Keys, ln : Nat]
          /\ c.key = loop[n].key
      BY <1>0 DEF TypeOK
    <2>3. Running(n)
      BY <1>16 DEF AcceptFails, Running
    <2> HIDE DEF c
    <2> QED
      BY <1>0, <1>16, <2>1, <2>2, <2>3, LoopMoves DEF AcceptFails, LoopInv, TypeOK
  <1> QED
    BY <1>1, <1>2, <1>3, <1>4, <1>5, <1>6, <1>7, <1>8, <1>9, <1>10, <1>11,
       <1>12, <1>13, <1>14, <1>15, <1>16
    DEF Next, Worker, Sync, Loop

(* The inductive invariant holds in every state of every behaviour.        *)
THEOREM LoopInvariant == Spec => []LoopInv
  BY LoopInvInit, LoopInvNext, PTL DEF Spec

(* Two accept loops never run for one proxy at the same time, whatever the *)
(* worker, the sessions and the ending loops do: the promise of the        *)
(* comment of startTunnelLoop (server.go:719).                             *)
THEOREM LoopsAreExclusive == Spec => []OneLoopPerProxy
  <1>1. LoopInv => OneLoopPerProxy
    BY DEF LoopInv
  <1> QED
    BY <1>1, LoopInvariant, PTL

(* The flag of a running loop is never cleared by somebody else            *)
(* (server.go:744-748).                                                    *)
THEOREM RunningLoopsAreFlagged == Spec => []RunningIsFlagged
  <1>1. LoopInv => RunningIsFlagged
    BY DEF LoopInv
  <1> QED
    BY <1>1, LoopInvariant, PTL
-----------------------------------------------------------------------------
(* A step that leaves the proxies, the listeners and the worker's turn at  *)
(* a DELETED event alone keeps them listed.                                *)
LEMMA SameListeners ==
  ASSUME ListenersListed, UNCHANGED <<listeners, open, proxies>>,
         worker.pc # "close", worker'.pc # "listen"
  PROVE  ListenersListed'
  BY DEF ListenersListed

(* Without a second bind address, every step keeps the listeners listed.   *)
LEMMA ListedNext ==
  ASSUME ~Rebind, TypeOK, ListenersListed, [Next]_vars
  PROVE  ListenersListed'
  <1> USE DEF ListenersListed
  <1>1. ASSUME NEW k \in Keys, ApplyAdded(k) PROVE ListenersListed'
    BY <1>1 DEF ApplyAdded
  <1>2. ASSUME NEW k \in Keys, ApplyDeleted(k) PROVE ListenersListed'
    BY <1>2 DEF ApplyDeleted
  <1>3. CASE PluginListen
    <2>1. worker.key \in Keys /\ opened[worker.key] \in Nat /\ worker'.pc = "session"
      BY <1>3 DEF PluginListen, TypeOK
    <2>2. CASE UNCHANGED <<listeners, opened, open>>
      BY <1>3, <2>1, <2>2 DEF PluginListen
    <2>3. CASE ~UNCHANGED <<listeners, opened, open>>
      <3> DEFINE k == worker.key
      <3>1. /\ listeners[k] = 0
            /\ listeners' = [listeners EXCEPT ![k] = opened[k] + 1]
            /\ open' = open \cup {<<k, opened[k] + 1>>}
            /\ k \in proxies /\ proxies' = proxies
        BY <1>3, <2>3 DEF PluginListen
      <3>2. opened[k] + 1 # 0
        BY <2>1
      <3>3. open' = {<<j, listeners'[j]>> : j \in {i \in Keys : listeners'[i] # 0}}
        BY <2>1, <3>1, <3>2 DEF TypeOK
      <3> QED
        BY <1>3, <2>1, <3>1, <3>3 DEF PluginListen, TypeOK
    <2> QED
      BY <2>2, <2>3
  <1>4. CASE PluginClose
    <2> DEFINE k == worker.key
    <2>1. /\ k \in Keys /\ worker.pc = "close" /\ proxies' = proxies
          /\ worker' = IdleWorker
          /\ listeners' = [listeners EXCEPT ![k] = 0]
          /\ open' = open \ {<<k, listeners[k]>>}
      BY <1>4 DEF PluginClose, OpenAfterDelete, TypeOK
    <2>2. open' = {<<j, listeners'[j]>> : j \in {i \in Keys : listeners'[i] # 0}}
      BY <2>1 DEF TypeOK
    <2> QED
      BY <2>1, <2>2 DEF IdleWorker, TypeOK
  <1>5. CASE SessionStart
    <2>1. worker.pc = "session" /\ UNCHANGED <<listeners, open, proxies>>
      BY <1>5 DEF SessionStart
    <2>2. worker'.pc \in {"idle", "start"}
      BY <1>5 DEF SessionStart, IdleWorker, TypeOK
    <2> QED
      BY <2>1, <2>2, SameListeners
  <1>6. CASE SessionStarted
    BY <1>6 DEF SessionStarted, IdleWorker
  <1>7. ASSUME NEW s \in Syncs, Sync(s) PROVE ListenersListed'
    BY <1>7 DEF Sync, SyncBegin, SyncStart, SyncStarted, SyncEnd
  <1>8. ASSUME NEW n \in Calls, Loop(n) \/ AcceptFails(n) PROVE ListenersListed'
    BY <1>8 DEF Loop, GetListener, LoopEnds, LoopClears, AcceptFails
  <1>9. CASE StopServer \/ UNCHANGED vars
    BY <1>9 DEF StopServer, vars
  <1> QED
    BY <1>1, <1>2, <1>3, <1>4, <1>5, <1>6, <1>7, <1>8, <1>9 DEF Next, Worker

(* As long as no proxy is created again at another bind address, the map   *)
(* of the provider names every open listener (proxy.go:196-230).           *)
THEOREM ListenersAreListed == ~Rebind /\ Spec => []ListenersListed
  <1>1. Init => ListenersListed
    BY DEF Init, ListenersListed, IdleWorker
  <1>2. ~Rebind /\ LoopInv /\ ListenersListed /\ [Next]_vars => ListenersListed'
    BY ListedNext DEF LoopInv
  <1>3. CASE ~Rebind
    BY <1>1, <1>2, <1>3, LoopInvariant, PTL DEF Spec
  <1> QED
    BY <1>3

(* Under the same condition no port stays open for a deleted proxy         *)
(* (proxy.go:117-129).  With Rebind the first listener would be overwritten. *)
THEOREM PortsCloseWithTheirProxy == ~Rebind /\ Spec => []ClosedWithProxy
  <1>1. TypeOK /\ ListenersListed => ClosedWithProxy
    BY DEF ListenersListed, ClosedWithProxy
  <1>2. LoopInv => TypeOK
    BY DEF LoopInv
  <1> QED
    BY <1>1, <1>2, LoopInvariant, ListenersAreListed, PTL
-----------------------------------------------------------------------------

(* Singleton sequences tell their element; they are not empty.             *)
LEMMA Singletons ==
  /\ \A x : <<x>> # <<>> /\ Head(<<x>>) = x /\ Tail(<<x>>) = <<>>
  /\ \A x, y : <<x>> = <<y>> => x = y
  OBVIOUS

(* Initially there is no entry, no tunnel and no token.                    *)
LEMMA PairingInvInit == PairingInit => PairingInv
  <1> SUFFICES ASSUME PairingInit PROVE PairingInv
    OBVIOUS
  <1> USE PairingAssumption, Singletons DEF PairingInit
  <1>1. PairingTypeOK
    <2>1. stopCh \in BOOLEAN
      OBVIOUS
    <2>2. /\ user \in [Tokens -> {"none", "registered", "waiting", "piped", "closed"}]
          /\ age \in [Tokens -> 0..MaxAge]
          /\ ch \in [Tokens -> {<<>>} \cup {<<x>> : x \in Tunnels \cup {Nil}}]
      OBVIOUS
    <2>3. /\ tunnel \in [Tunnels -> {"none", "accepted", "open", "claimed",
                                     "acked", "sent", "piped", "closed"}]
          /\ claim \in [Tunnels -> SUBSET Tokens]
          /\ peer \in [Tokens -> SUBSET Tunnels]
          /\ known \subseteq Tokens /\ pendingMap \subseteq Tokens
      OBVIOUS
    <2> QED
      BY <2>1, <2>2, <2>3, Zenon DEF PairingTypeOK
  <1>2. SendNeverBlocks /\ TokenUsedOnce
    BY DEF SendNeverBlocks, TokenUsedOnce, Sending
  <1> QED
    BY <1>1, <1>2 DEF PairingInv

(* Every step keeps it.                                                    *)
LEMMA PairingInvNext == PairingInv /\ [PairingNext]_pairingVars => PairingInv'
  <1> SUFFICES ASSUME PairingInv, [PairingNext]_pairingVars PROVE PairingInv'
    OBVIOUS
  <1> USE PairingAssumption, Singletons
  <1>0. PairingTypeOK
    BY DEF PairingInv
  <1>1. ASSUME NEW u \in Tokens, AcceptUser(u) PROVE PairingInv'
    BY <1>0, <1>1 DEF AcceptUser, PairingInv, PairingTypeOK, SendNeverBlocks,
       TokenUsedOnce, Sending
  <1>2. ASSUME NEW u \in Tokens, RequestSent(u) PROVE PairingInv'
    BY <1>0, <1>2 DEF RequestSent, PairingInv, PairingTypeOK, SendNeverBlocks,
       TokenUsedOnce, Sending
  <1>3. ASSUME NEW u \in Tokens, RequestFailed(u) PROVE PairingInv'
    BY <1>0, <1>3 DEF RequestFailed, PairingInv, PairingTypeOK, SendNeverBlocks,
       TokenUsedOnce, Sending
  <1>4. ASSUME NEW u \in Tokens, WaiterReceives(u) PROVE PairingInv'
    <2>1. PICK x \in Tunnels \cup {Nil} : ch[u] = <<x>>
      BY <1>0, <1>4 DEF WaiterReceives, PairingTypeOK
    <2>2. /\ user[u] = "waiting"
          /\ ch' = [ch EXCEPT ![u] = <<>>]
          /\ UNCHANGED <<pendingMap, age, claim, known, stopCh>>
      BY <1>4, <2>1 DEF WaiterReceives
    <2>3. CASE x = Nil
      <3>1. user' = [user EXCEPT ![u] = "closed"] /\ UNCHANGED <<tunnel, peer>>
        BY <1>4, <2>1, <2>3 DEF WaiterReceives
      <3>2. ch'[u] = <<>> /\ \A v \in Tokens : v # u => ch'[v] = ch[v]
        BY <1>0, <2>2 DEF PairingTypeOK
      <3>3. user'[u] = "closed" /\ \A v \in Tokens : v # u => user'[v] = user[v]
        BY <1>0, <3>1 DEF PairingTypeOK
      <3>4. PairingTypeOK'
        BY <1>0, <2>2, <3>1 DEF PairingTypeOK
      <3>5. SendNeverBlocks' /\ TokenUsedOnce'
        BY <2>2, <3>1, <3>2 DEF PairingInv, SendNeverBlocks, TokenUsedOnce, Sending
      <3> QED
        BY <2>2, <3>1, <3>2, <3>3, <3>4, <3>5 DEF PairingInv
    <2>4. CASE x \in Tunnels
      <3>1. /\ user' = [user EXCEPT ![u] = "piped"]
            /\ tunnel' = [tunnel EXCEPT ![x] = "piped"]
            /\ peer' = [peer EXCEPT ![u] = {x}]
        BY <1>4, <2>1, <2>4 DEF WaiterReceives
      <3>2. u \in claim[x] /\ tunnel[x] = "sent"
        BY <2>1, <2>4 DEF PairingInv
      <3>3. claim[x] = {u}
        BY <2>4, <3>2 DEF PairingInv
      <3>4. PairingTypeOK'
        BY <1>0, <2>2, <2>4, <3>1 DEF PairingTypeOK
      <3>5. SendNeverBlocks'
        BY <1>0, <2>2, <2>4, <3>1 DEF PairingInv, PairingTypeOK, SendNeverBlocks, Sending
      <3>6. TokenUsedOnce'
        BY <1>0, <2>2, <3>1, <3>3 DEF PairingInv, PairingTypeOK, TokenUsedOnce
      <3>7. \A v \in Tokens : \A t \in Tunnels :
              ch'[v] = <<t>> => v \in claim'[t] /\ tunnel'[t] = "sent"
        <4> SUFFICES ASSUME NEW v \in Tokens, NEW t \in Tunnels, ch'[v] = <<t>>
                     PROVE  v \in claim[t] /\ tunnel'[t] = "sent"
          BY <2>2
        <4>1. v # u /\ ch[v] = <<t>>
          BY <1>0, <2>2 DEF PairingTypeOK
        <4>2. v \in claim[t] /\ tunnel[t] = "sent"
          BY <4>1 DEF PairingInv
        <4>3. t # x
          BY <3>3, <4>1, <4>2
        <4> QED
          BY <1>0, <3>1, <4>2, <4>3 DEF PairingTypeOK
      <3>8. \A v \in Tokens : \A t \in peer'[v] : tunnel'[t] \in {"piped", "closed"}
        BY <1>0, <2>4, <3>1 DEF PairingInv, PairingTypeOK
      <3>9. /\ ch'[u] = <<>> /\ \A v \in Tokens : v # u => ch'[v] = ch[v]
            /\ user'[u] # "none" /\ \A v \in Tokens : v # u => user'[v] = user[v]
            /\ \A t \in Tunnels : tunnel'[t] \in {"none", "accepted", "open"}
                                 => tunnel[t] = tunnel'[t]
        BY <1>0, <2>2, <2>4, <3>1 DEF PairingTypeOK
      <3> QED
        BY <2>2, <3>4, <3>5, <3>6, <3>7, <3>8, <3>9 DEF PairingInv
    <2> QED
      BY <2>3, <2>4
  <1>5. ASSUME NEW u \in Tokens, WaiterGivesUp(u) PROVE PairingInv'
    BY <1>0, <1>5 DEF WaiterGivesUp, PairingInv, PairingTypeOK, SendNeverBlocks,
       TokenUsedOnce, Sending
  <1>6. ASSUME NEW u \in Tokens, NEW t \in Tunnels, PipeEnds(u, t)
        PROVE  PairingInv'
    BY <1>0, <1>6 DEF PipeEnds, PairingInv, PairingTypeOK, SendNeverBlocks,
       TokenUsedOnce, Sending
  <1>7. ASSUME NEW t \in Tunnels, NEW u \in Tokens, AcceptTunnel(t, u)
        PROVE  PairingInv'
    <2>1. CASE u \notin pendingMap
      <3>1. /\ tunnel' = [tunnel EXCEPT ![t] = "closed"]
            /\ tunnel[t] = "open"
            /\ UNCHANGED <<claim, pendingMap, user, age, ch, peer, known, stopCh>>
        BY <1>7, <2>1 DEF AcceptTunnel
      <3>2. PairingTypeOK'
        BY <1>0, <3>1 DEF PairingTypeOK
      <3>3. SendNeverBlocks' /\ TokenUsedOnce'
        BY <1>0, <3>1 DEF PairingInv, PairingTypeOK, SendNeverBlocks, TokenUsedOnce, Sending
      <3> QED
        BY <1>0, <3>1, <3>2, <3>3 DEF PairingInv, PairingTypeOK
    <2>2. CASE u \in pendingMap
      <3>1. /\ tunnel[t] = "open" /\ u \in known
            /\ tunnel' = [tunnel EXCEPT ![t] = "claimed"]
            /\ claim' = [claim EXCEPT ![t] = {u}]
            /\ pendingMap' = pendingMap \ {u}
            /\ UNCHANGED <<user, age, ch, peer, known, stopCh>>
        BY <1>7, <2>2 DEF AcceptTunnel, EntriesAfterClaim
      <3>2. /\ claim[t] = {} /\ ch[u] = <<>> /\ user[u] # "none"
            /\ \A s \in Tunnels : u \notin claim[s]
            /\ \A v \in Tokens : t \notin peer[v] /\ ch[v] # <<t>>
        BY <2>2, <3>1 DEF PairingInv, SendNeverBlocks
      <3>3. /\ claim'[t] = {u} /\ tunnel'[t] = "claimed"
            /\ \A s \in Tunnels : s # t => claim'[s] = claim[s] /\ tunnel'[s] = tunnel[s]
        BY <1>0, <3>1 DEF PairingTypeOK
      <3>4. PairingTypeOK'
        BY <1>0, <3>1 DEF PairingTypeOK
      <3>5. SendNeverBlocks'
        BY <3>1, <3>2, <3>3 DEF PairingInv, SendNeverBlocks, Sending
      <3>6. TokenUsedOnce'
        <4>1. \A r, s \in Tunnels : claim'[r] \cap claim'[s] # {} => r = s
          BY <3>2, <3>3 DEF PairingInv, TokenUsedOnce
        <4>2. \A v \in Tokens : \A s \in peer[v] : claim'[s] = {v}
          BY <1>0, <3>2, <3>3 DEF PairingInv, PairingTypeOK, TokenUsedOnce
        <4> QED
          BY <3>1, <4>1, <4>2 DEF TokenUsedOnce
      <3>7. \A v \in pendingMap' : \A s \in Tunnels : v \notin claim'[s]
        BY <3>1, <3>3 DEF PairingInv
      <3>8. \A v \in Tokens : user'[v] = "none" =>
              /\ ch'[v] = <<>> /\ v \notin known' /\ v \notin pendingMap'
              /\ \A s \in Tunnels : v \notin claim'[s]
        BY <3>1, <3>2, <3>3 DEF PairingInv
      <3>9. /\ \A s \in Tunnels :
                 tunnel'[s] \in {"none", "accepted", "open"} => claim'[s] = {}
            /\ \A s \in Tunnels : \A v, w \in claim'[s] : v = w
        BY <3>3 DEF PairingInv
      <3>10. \A v \in Tokens : \A s \in Tunnels :
               ch'[v] = <<s>> => v \in claim'[s] /\ tunnel'[s] = "sent"
        BY <3>1, <3>2, <3>3 DEF PairingInv
      <3>11. \A v \in Tokens : \A s \in peer'[v] : tunnel'[s] \in {"piped", "closed"}
        BY <1>0, <3>1, <3>2, <3>3 DEF PairingInv, PairingTypeOK
      <3> QED
        BY <3>4, <3>5, <3>6, <3>7, <3>8, <3>9, <3>10, <3>11 DEF PairingInv
    <2> QED
      BY <2>1, <2>2
  <1>8. ASSUME NEW t \in Tunnels, WriteAck(t) PROVE PairingInv'
    <2>1. /\ tunnel[t] = "claimed"
          /\ UNCHANGED <<user, pendingMap, age, ch, claim, peer, known, stopCh>>
      BY <1>8 DEF WriteAck
    <2>2. /\ tunnel'[t] \in {"acked", "closed"}
          /\ \A s \in Tunnels : s # t => tunnel'[s] = tunnel[s]
          /\ tunnel' \in [Tunnels -> {"none", "accepted", "open", "claimed",
                                     "acked", "sent", "piped", "closed"}]
      BY <1>0, <1>8 DEF WriteAck, PairingTypeOK
    <2>3. PairingTypeOK'
      BY <1>0, <2>1, <2>2 DEF PairingTypeOK
    <2>4. SendNeverBlocks' /\ TokenUsedOnce'
      BY <2>1, <2>2 DEF PairingInv, SendNeverBlocks, TokenUsedOnce, Sending
    <2>5. /\ \A s \in Tunnels : tunnel'[s] \in {"none", "accepted", "open"}
                              => tunnel[s] \in {"none", "accepted", "open"}
          /\ \A s \in Tunnels : tunnel[s] = "sent" => tunnel'[s] = "sent"
          /\ \A s \in Tunnels : tunnel[s] \in {"piped", "closed"}
                              => tunnel'[s] \in {"piped", "closed"}
      BY <2>1, <2>2
    <2>6. \A v \in Tokens : \A s \in peer'[v] : tunnel'[s] \in {"piped", "closed"}
      BY <1>0, <2>1, <2>5 DEF PairingInv, PairingTypeOK
    <2> QED
      BY <2>1, <2>3, <2>4, <2>5, <2>6 DEF PairingInv
  <1>9. ASSUME NEW t \in Tunnels, NEW u \in Tokens, SendTunnel(t, u)
        PROVE  PairingInv'
    <2>1. /\ tunnel[t] = "acked" /\ u \in claim[t] /\ ch[u] = <<>>
          /\ ch' = [ch EXCEPT ![u] = <<t>>]
          /\ tunnel' = [tunnel EXCEPT ![t] = "sent"]
          /\ UNCHANGED <<user, pendingMap, age, claim, peer, known, stopCh>>
      BY <1>9 DEF SendTunnel
    <2>2. /\ ch'[u] = <<t>> /\ \A v \in Tokens : v # u => ch'[v] = ch[v]
          /\ tunnel'[t] = "sent"
          /\ \A s \in Tunnels : s # t => tunnel'[s] = tunnel[s]
      BY <1>0, <2>1 DEF PairingTypeOK
    <2>3. /\ u \notin pendingMap /\ user[u] # "none"
          /\ \A s \in Tunnels : u \in claim[s] => s = t
          /\ \A v \in Tokens : t \notin peer[v] /\ ch[v] # <<t>>
      BY <2>1 DEF PairingInv, TokenUsedOnce
    <2>4. PairingTypeOK'
      BY <1>0, <2>1 DEF PairingTypeOK
    <2>5. SendNeverBlocks' /\ TokenUsedOnce'
      BY <1>0, <2>1, <2>2, <2>3
      DEF PairingInv, PairingTypeOK, SendNeverBlocks, TokenUsedOnce, Sending
    <2>6. \A v \in Tokens : \A s \in Tunnels :
            ch'[v] = <<s>> => v \in claim'[s] /\ tunnel'[s] = "sent"
      BY <2>1, <2>2, <2>3 DEF PairingInv
    <2>7. \A v \in Tokens : \A s \in peer'[v] : tunnel'[s] \in {"piped", "closed"}
      BY <1>0, <2>1, <2>2, <2>3 DEF PairingInv, PairingTypeOK
    <2> QED
      BY <2>1, <2>2, <2>3, <2>4, <2>5, <2>6, <2>7 DEF PairingInv
  <1>10. CASE Tick
    <2>1. /\ age' \in [Tokens -> 0..MaxAge]
          /\ UNCHANGED <<user, pendingMap, ch, tunnel, claim, peer, known, stopCh>>
      BY <1>0, <1>10 DEF Tick, PairingTypeOK
    <2>2. PairingTypeOK'
      BY <1>0, <2>1 DEF PairingTypeOK
    <2> QED
      BY <2>1, <2>2 DEF PairingInv, SendNeverBlocks, TokenUsedOnce, Sending
  <1>11. CASE CleanupExpired
    <2>1. /\ Expired \subseteq pendingMap
          /\ ch' = [u \in Tokens |-> IF u \in Expired THEN <<Nil>> ELSE ch[u]]
          /\ pendingMap' = pendingMap \ Expired
          /\ UNCHANGED <<user, age, tunnel, claim, peer, known, stopCh>>
      BY <1>11 DEF CleanupExpired, Expired, EntriesAfterCleanup
    <2>2. \A u \in Tokens : ch'[u] = ch[u] \/ (u \in Expired /\ ch'[u] = <<Nil>>)
      BY <2>1
    <2>3. PairingTypeOK'
      <3>1. ch' \in [Tokens -> {<<>>} \cup {<<x>> : x \in Tunnels \cup {Nil}}]
        BY <1>0, <2>1 DEF PairingTypeOK
      <3> QED
        BY <1>0, <2>1, <3>1 DEF PairingTypeOK
    <2>4. SendNeverBlocks' /\ TokenUsedOnce'
      BY <1>0, <2>1, <2>2
      DEF PairingInv, PairingTypeOK, SendNeverBlocks, TokenUsedOnce, Sending
    <2>5. \A u \in Tokens : \A t \in Tunnels :
            ch'[u] = <<t>> => u \in claim'[t] /\ tunnel'[t] = "sent"
      BY <2>1, <2>2 DEF PairingInv
    <2> QED
      BY <2>1, <2>2, <2>3, <2>4, <2>5 DEF PairingInv
  <1>12. CASE CloseStopCh
    BY <1>0, <1>12 DEF CloseStopCh, PairingInv, PairingTypeOK, SendNeverBlocks,
       TokenUsedOnce, Sending
  <1>14. ASSUME NEW t \in Tunnels,
                tunnel[t] \in {"none", "accepted"},
                tunnel' \in {[tunnel EXCEPT ![t] = x] : x \in {"accepted", "open", "closed"}},
                UNCHANGED <<user, pendingMap, age, ch, claim, peer, known, stopCh>>
         PROVE  PairingInv'
    <2>1. /\ tunnel'[t] \in {"accepted", "open", "closed"} /\ claim[t] = {}
          /\ \A s \in Tunnels : s # t => tunnel'[s] = tunnel[s]
      BY <1>0, <1>14 DEF PairingInv, PairingTypeOK
    <2>2. PairingTypeOK'
      BY <1>0, <1>14, SMTT(30) DEF PairingTypeOK
    <2>3. SendNeverBlocks' /\ TokenUsedOnce'
      BY <1>14, <2>1 DEF PairingInv, SendNeverBlocks, TokenUsedOnce, Sending
    <2>4. \A v \in Tokens : t \notin peer[v] /\ ch[v] # <<t>>
      BY <1>14, <2>1 DEF PairingInv
    <2> QED
      BY <1>0, <1>14, <2>1, <2>2, <2>3, <2>4, SMTT(30) DEF PairingInv, PairingTypeOK
  <1>15. ASSUME NEW t \in Tunnels,
                RunAccepts(t) \/ HandleTunnelConn(t) \/ HandleTunnel(t)
         PROVE  PairingInv'
    BY <1>14, <1>15 DEF RunAccepts, HandleTunnelConn, HandleTunnel, ReadToken
  <1>13. CASE UNCHANGED pairingVars
    BY <1>0, <1>13 DEF pairingVars, PairingInv, PairingTypeOK, SendNeverBlocks,
       TokenUsedOnce, Sending
  <1> QED
    BY <1>1, <1>2, <1>3, <1>4, <1>5, <1>6, <1>7, <1>8, <1>9, <1>10, <1>11,
       <1>12, <1>13, <1>15
    DEF PairingNext, Waiter, Handler

(* The inductive invariant holds in every state of every behaviour.        *)
THEOREM PairingInvariant == PairingSpec => []PairingInv
  BY PairingInvInit, PairingInvNext, PTL DEF PairingSpec

(* cleanupExpired never blocks while it holds pendingMu and AcceptTunnel   *)
(* never blocks on an entry's channel (server.go:826-874).                 *)
THEOREM SendsNeverBlock == PairingSpec => []SendNeverBlocks
  <1>1. PairingInv => SendNeverBlocks
    BY DEF PairingInv
  <1> QED
    BY <1>1, PairingInvariant, PTL

(* A token pairs one tunnel with one user connection (server.go:826-844).  *)
THEOREM TokensAreUsedOnce == PairingSpec => []TokenUsedOnce
  <1>1. PairingInv => TokenUsedOnce
    BY DEF PairingInv
  <1> QED
    BY <1>1, PairingInvariant, PTL
=============================================================================

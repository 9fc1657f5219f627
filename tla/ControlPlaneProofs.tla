------------------------- MODULE ControlPlaneProofs -------------------------
(* The three invariants of the control plane that do not depend on timing, *)
(* for any clients, ports, queue capacity and snapshot interval, and any   *)
(* number of requests, crashes and restarts; and that a recovery nobody    *)
(* disturbs brings everything back.                                        *)
EXTENDS ControlPlane, SequenceTheorems, FiniteSets, FiniteSetTheorems, TLAPS

(* The events of a key are events.                                         *)
LEMMA EventsOfKeys ==
  \A k \in Keys : Added(k) \in Event /\ Deleted(k) \in Event
  BY DEF Added, Deleted, Event

(* A Publish keeps the channel within its capacity.                        *)
LEMMA EnqueueType ==
  ASSUME TypeOK, NEW e \in Event, Enqueue(e)
  PROVE  queue' \in Seq(Event) /\ Len(queue') <= QueueCap
  <1>1. CASE boot # "closing" /\ Len(queue) < QueueCap
    <2>1. queue' = Append(queue, e)
      BY <1>1 DEF Enqueue
    <2>2. queue' \in Seq(Event) /\ Len(queue') = Len(queue) + 1
      BY <2>1, AppendProperties DEF TypeOK
    <2> QED
      BY <1>1, <2>2, LenProperties, ControlAssumption DEF TypeOK
  <1>2. CASE ~(boot # "closing" /\ Len(queue) < QueueCap)
    BY <1>2 DEF Enqueue, TypeOK
  <1> QED
    BY <1>1, <1>2

(* A process that is not running has well-typed memory.                    *)
LEMMA EmptyMemoryType ==
  ASSUME MemoryLost, meta' \subseteq Keys, snapshot' \subseteq SUBSET Keys,
         boot' = "down", requests' \in 0..MaxRequests, stops' \in 0..MaxStops,
         handled' \subseteq Keys, wanted' \subseteq Keys
  PROVE  TypeOK'
  <1>1. /\ restoring' \in BOOLEAN /\ wplugin' \in BOOLEAN
        /\ recovered' \in BOOLEAN /\ trigger' \in BOOLEAN
    BY DEF MemoryLost
  <1>2. queue' \in Seq(Event) /\ Len(queue') <= QueueCap
    BY ControlAssumption, EmptySeq DEF MemoryLost
  <1>3. eventCount' \in 0..(SnapshotInterval - 1)
    BY ControlAssumption DEF MemoryLost
  <1>4. /\ proxies' \subseteq Keys /\ desiredProxies' \subseteq Keys
        /\ portIndex' \subseteq Keys /\ listeners' \subseteq Keys
        /\ wev' \subseteq Event /\ rleft' \subseteq Keys
        /\ edesired' \subseteq Keys /\ etodo' \subseteq Event
        /\ wpc' = "receive" /\ rpc' = "off" /\ epc' = "off"
    BY DEF MemoryLost
  <1> QED
    BY <1>1, <1>2, <1>3, <1>4, Zenon DEF TypeOK

(* Before the first start there is nothing in memory.                      *)
LEMMA ControlInvInit == Init => ControlInv
  <1> SUFFICES ASSUME Init PROVE ControlInv
    OBVIOUS
  <1> USE ControlAssumption
  <1>1. TypeOK
    <2>1. /\ restoring \in BOOLEAN /\ wplugin \in BOOLEAN
          /\ recovered \in BOOLEAN /\ trigger \in BOOLEAN
      BY DEF Init, MemoryEmpty
    <2>2. queue \in Seq(Event) /\ Len(queue) <= QueueCap
      BY EmptySeq DEF Init, MemoryEmpty
    <2>3. /\ eventCount \in 0..(SnapshotInterval - 1)
          /\ requests \in 0..MaxRequests /\ stops \in 0..MaxStops
      BY DEF Init, MemoryEmpty
    <2>4. /\ proxies \subseteq Keys /\ desiredProxies \subseteq Keys
          /\ portIndex \subseteq Keys /\ listeners \subseteq Keys
          /\ wev \subseteq Event /\ rleft \subseteq Keys
          /\ edesired \subseteq Keys /\ etodo \subseteq Event
          /\ wpc = "receive" /\ rpc = "off" /\ epc = "off" /\ boot = "down"
          /\ meta \subseteq Keys /\ snapshot \subseteq SUBSET Keys
          /\ handled \subseteq Keys /\ wanted \subseteq Keys
      BY DEF Init, MemoryEmpty
    <2> QED
      BY <2>1, <2>2, <2>3, <2>4, Zenon DEF TypeOK
  <1> QED
    BY <1>1 DEF Init, MemoryEmpty, ControlInv, DesiredIsActual,
       PortIndexSound, ListenersAccounted

(* Every step keeps the types.                                             *)
LEMMA TypeOKNext == ASSUME TypeOK, [Next]_vars PROVE TypeOK'
  <1> USE ControlAssumption
  <1>0. TypeOK
    OBVIOUS
  <1>1. CASE BootPersist
    BY <1>0, <1>1 DEF BootPersist, TypeOK, disk, state, worker, engine, bounds
  <1>2. CASE BootReady
    BY <1>0, <1>2 DEF BootReady, TypeOK, disk, state, restore, worker, bounds
  <1>3. CASE RestoreStart
    BY <1>0, <1>3 DEF RestoreStart, TypeOK, disk, state, worker, engine, bounds
  <1>4. CASE RestoreMeta
    <2>1. queue' \in Seq(Event) /\ Len(queue') <= QueueCap
      BY <1>0, <1>4, EventsOfKeys, EnqueueType DEF RestoreMeta, TypeOK
    <2>2. rleft' \subseteq Keys /\ rpc' \in {"meta", "snapshot"}
      BY <1>0, <1>4 DEF RestoreMeta, TypeOK
    <2> QED
      BY <1>0, <1>4, <2>1, <2>2 DEF RestoreMeta, TypeOK, disk, state, worker,
         engine, bounds
  <1>5. CASE RestoreSnapshot
    BY <1>0, <1>5 DEF RestoreSnapshot, TypeOK, disk, worker, engine, bounds
  <1>6. CASE RestoreEnd
    BY <1>0, <1>6 DEF RestoreEnd, TypeOK, disk, state, worker, engine, bounds
  <1>7. ASSUME NEW k \in Keys, CreateProxy(k) PROVE TypeOK'
    <2>1. queue' \in Seq(Event) /\ Len(queue') <= QueueCap
      BY <1>0, <1>7, EventsOfKeys, EnqueueType DEF CreateProxy
    <2> QED
      BY <1>0, <1>7, <2>1 DEF CreateProxy, Serving, TypeOK, disk, state, restore,
         worker, engine
  <1>8. ASSUME NEW k \in Keys, DeleteProxy(k) PROVE TypeOK'
    <2>1. queue' \in Seq(Event) /\ Len(queue') <= QueueCap
      BY <1>0, <1>8, EventsOfKeys, EnqueueType DEF DeleteProxy
    <2> QED
      BY <1>0, <1>8, <2>1 DEF DeleteProxy, Serving, TypeOK, disk, state, restore,
         worker, engine
  <1>9. ASSUME NEW c \in Clients, ApplyClientDeleted(c) PROVE TypeOK'
    BY <1>0, <1>9 DEF ApplyClientDeleted, TypeOK, disk, restore, worker, engine
  <1>10. CASE WorkerReceive
    <2>1. wplugin' \in BOOLEAN
      BY <1>10 DEF WorkerReceive
    <2>2. Head(queue) \in Event /\ queue' \in Seq(Event) /\ Len(queue') <= QueueCap
      <3>1. queue \in Seq(Event) /\ queue # <<>> /\ queue' = Tail(queue)
        BY <1>0, <1>10 DEF WorkerReceive, TypeOK
      <3>2. /\ Head(queue) \in Event /\ Tail(queue) \in Seq(Event)
            /\ Len(Tail(queue)) = Len(queue) - 1 /\ Len(queue) \in Nat
        BY <3>1, HeadTailProperties, LenProperties
      <3> QED
        BY <1>0, <3>1, <3>2 DEF TypeOK
    <2>3. wev' \subseteq Event /\ wpc' = "apply"
      BY <1>10, <2>2 DEF WorkerReceive
    <2> QED
      BY <1>0, <1>10, <2>1, <2>2, <2>3, Zenon DEF WorkerReceive, TypeOK, disk, state,
         restore, engine, bounds
  <1>11. CASE CoreApply
    BY <1>0, <1>11 DEF CoreApply, AppliedDesired, SetPort, DropPort, Event, TypeOK,
                       disk, restore, engine, bounds
  <1>12. CASE CoreCheck
    <2>1. trigger' \in BOOLEAN
      BY <1>0, <1>12, Zenon DEF CoreCheck, TypeOK
    <2>2. handled' \subseteq Keys /\ wpc' \in {"plugin", "log", "remove"}
      BY <1>0, <1>12 DEF CoreCheck, Handled, TypeOK, Event
    <2> QED
      BY <1>0, <1>12, <2>1, <2>2 DEF CoreCheck, TypeOK, disk, state, restore, engine,
         bounds
  <1>13. CASE CoreLog
    <2>1. trigger' \in BOOLEAN
      BY <1>0, <1>13, Zenon DEF CoreLog, TypeOK
    <2>2. /\ eventCount' \in 0..(SnapshotInterval - 1)
          /\ snapshot' \subseteq SUBSET Keys
      BY <1>0, <1>13 DEF CoreLog, LogEvent, TypeOK
    <2>3. wpc' \in {"put", "plugin"}
      BY <1>13 DEF CoreLog
    <2> QED
      BY <1>0, <1>13, <2>1, <2>2, <2>3 DEF CoreLog, TypeOK, state, restore, engine,
         bounds
  <1>14. CASE CorePut
    BY <1>0, <1>14 DEF CorePut, MetaPut, Handled, Event, TypeOK, state, restore, engine, bounds
  <1>15. CASE CoreRemove
    BY <1>0, <1>15 DEF CoreRemove, Handled, Event, TypeOK, state, restore, engine, bounds
  <1>16. CASE PluginHandle
    <2>1. recovered' \in BOOLEAN /\ wplugin' \in BOOLEAN
      BY <1>0, <1>16, Zenon DEF PluginHandle, TypeOK
    <2>2. listeners' \subseteq Keys
      BY <1>0, <1>16 DEF PluginHandle, ClosedListeners, ListenOutcomes, TypeOK,
         Event
    <2>3. wpc' = "receive" /\ wev' = {}
      BY <1>16 DEF PluginHandle
    <2> QED
      BY <1>0, <1>16, <2>1, <2>2, <2>3 DEF PluginHandle, TypeOK, disk, state, engine,
         bounds
  <1>17. CASE ReconcileReadDesired
    <2>1. trigger' \in BOOLEAN
      BY <1>0, <1>17, Zenon DEF ReconcileReadDesired, TypeOK
    <2> QED
      BY <1>0, <1>17, <2>1 DEF ReconcileReadDesired, TypeOK, disk, state, restore,
         worker, bounds
  <1>18. CASE ReconcileReadActual
    BY <1>0, <1>18 DEF ReconcileReadActual, Differences, Added, Deleted, Event, TypeOK,
                       disk, state, restore, worker, bounds
  <1>19. CASE ReconcilePublish
    <2>1. queue' \in Seq(Event) /\ Len(queue') <= QueueCap
      BY <1>0, <1>19, EnqueueType DEF ReconcilePublish, ProviderPublish, TypeOK
    <2>2. etodo' \subseteq Event /\ epc' \in {"publish", "idle"}
      BY <1>0, <1>19 DEF ReconcilePublish, TypeOK
    <2> QED
      BY <1>0, <1>19, <2>1, <2>2 DEF ReconcilePublish, TypeOK, disk, state, restore,
         worker, bounds
  <1>20. CASE Crash
    BY <1>0, <1>20, EmptyMemoryType DEF Crash, TypeOK, disk
  <1>21. CASE ShutdownBegin
    BY <1>0, <1>21 DEF ShutdownBegin, TypeOK, disk, state, restore, worker, engine
  <1>22. CASE ShutdownEnd
    BY <1>0, <1>22, EmptyMemoryType DEF ShutdownEnd, TypeOK, bounds
  <1>23. CASE UNCHANGED vars
    BY <1>0, <1>23 DEF TypeOK, vars, disk, state, restore, worker, engine, bounds
  <1> QED
    BY <1>1, <1>2, <1>3, <1>4, <1>5, <1>6, <1>7, <1>8, <1>9, <1>10, <1>11,
       <1>12, <1>13, <1>14, <1>15, <1>16, <1>17, <1>18, <1>19, <1>20, <1>21,
       <1>22, <1>23
    DEF Next, Boot, Restore, User, Worker, Reconcile, Stop

(* Steps that do not touch the state store keep its two invariants.        *)
LEMMA SameState ==
  ASSUME DesiredIsActual, PortIndexSound, UNCHANGED state
  PROVE  DesiredIsActual' /\ PortIndexSound'
  BY DEF DesiredIsActual, PortIndexSound, state

(* Every step keeps the desired state equal to the actual state and the    *)
(* port index sound.                                                       *)
LEMMA StateNext ==
  ASSUME TypeOK, DesiredIsActual, PortIndexSound, [Next]_vars
  PROVE  DesiredIsActual' /\ PortIndexSound'
  <1>1. CASE CoreApply
    <2>1. PICK e \in wev :
            /\ proxies' = IF e.op = "ADDED" THEN proxies \cup {e.key}
                          ELSE proxies \ {e.key}
            /\ portIndex' = IF e.op = "ADDED" THEN SetPort(portIndex, e.key)
                            ELSE IF e.key \in proxies
                                 THEN DropPort(portIndex, e.key) ELSE portIndex
            /\ desiredProxies' = AppliedDesired(e)
      BY <1>1 DEF CoreApply
    <2>2. DesiredIsActual'
      BY <2>1 DEF DesiredIsActual, AppliedDesired
    <2>3. CASE e.op = "ADDED"
      <3>1. /\ proxies' = proxies \cup {e.key}
            /\ portIndex' = {l \in portIndex : l[2] # e.key[2]} \cup {e.key}
        BY <2>1, <2>3 DEF SetPort
      <3>2. portIndex' \subseteq proxies'
        BY <3>1 DEF PortIndexSound
      <3>3. \A k, l \in portIndex' : k[2] = l[2] => k = l
        BY <3>1 DEF PortIndexSound
      <3> QED
        BY <2>2, <3>2, <3>3 DEF PortIndexSound
    <2>4. CASE e.op # "ADDED"
      <3>1. /\ proxies' = proxies \ {e.key}
            /\ portIndex' \subseteq portIndex
            /\ e.key \in proxies => \A l \in portIndex' : l[2] # e.key[2]
        BY <2>1, <2>4 DEF DropPort
      <3>2. portIndex' \subseteq proxies'
        BY <3>1 DEF PortIndexSound
      <3>3. \A k, l \in portIndex' : k[2] = l[2] => k = l
        BY <3>1 DEF PortIndexSound
      <3> QED
        BY <2>2, <3>2, <3>3 DEF PortIndexSound
    <2> QED
      BY <2>2, <2>3, <2>4
  <1>2. CASE RestoreSnapshot
    <2>1. PICK index \in SUBSET (portIndex \cup UNION snapshot) :
            /\ \A k, l \in index : k[2] = l[2] => k = l
            /\ portIndex' = index
      BY <1>2 DEF RestoreSnapshot
    <2>2. /\ proxies' = proxies \cup UNION snapshot
          /\ desiredProxies' = desiredProxies \cup UNION snapshot
      BY <1>2 DEF RestoreSnapshot
    <2> QED
      BY <2>1, <2>2 DEF DesiredIsActual, PortIndexSound
  <1>3. ASSUME NEW c \in Clients, ApplyClientDeleted(c)
        PROVE  DesiredIsActual' /\ PortIndexSound'
    BY <1>3 DEF ApplyClientDeleted, DesiredIsActual, PortIndexSound
  <1>4. CASE Crash \/ ShutdownEnd
    BY <1>4 DEF Crash, ShutdownEnd, MemoryLost, DesiredIsActual, PortIndexSound
  <1>5. CASE Boot \/ RestoreStart \/ RestoreMeta \/ RestoreEnd
    BY <1>5, SameState DEF Boot, BootPersist, BootReady, RestoreStart,
       RestoreMeta, RestoreEnd
  <1>6. ASSUME NEW k \in Keys, CreateProxy(k) \/ DeleteProxy(k)
        PROVE  DesiredIsActual' /\ PortIndexSound'
    BY <1>6, SameState DEF CreateProxy, DeleteProxy
  <1>7. CASE WorkerReceive \/ CoreCheck \/ CoreLog \/ CorePut \/ CoreRemove
             \/ PluginHandle
    BY <1>7, SameState DEF WorkerReceive, CoreCheck, CoreLog, CorePut,
       CoreRemove, PluginHandle
  <1>8. CASE Reconcile \/ ShutdownBegin \/ UNCHANGED vars
    BY <1>8, SameState DEF Reconcile, ReconcileReadDesired,
       ReconcileReadActual, ReconcilePublish, ShutdownBegin, vars
  <1> QED
    BY <1>1, <1>2, <1>3, <1>4, <1>5, <1>6, <1>7, <1>8
    DEF Next, Boot, Restore, User, Worker, Reconcile, Stop

(* Steps of others than the worker keep the account of the listeners, if   *)
(* they delete no proxy.                                                   *)
LEMMA OthersKeepListeners ==
  ASSUME ListenersAccounted, UNCHANGED <<listeners, worker>>,
         proxies \subseteq proxies',
         boot' \in {"down", "persist"} => boot \in {"down", "persist"},
         boot \in {"ready", "closing"} => boot' \in {"ready", "closing"}
  PROVE  ListenersAccounted'
  BY DEF ListenersAccounted, worker

(* Every step keeps the account of the listeners.                          *)
LEMMA ListenersNext ==
  ASSUME TypeOK, ListenersAccounted, [Next]_vars
  PROVE  ListenersAccounted'
  <1>1. CASE WorkerReceive
    <2>1. /\ wpc = "receive" /\ wpc' = "apply" /\ UNCHANGED <<listeners, proxies, boot>>
          /\ wev' = {Head(queue)}
      BY <1>1 DEF WorkerReceive, state
    <2>2. wplugin' => boot \in {"ready", "closing"}
      BY <1>1 DEF WorkerReceive
    <2>3. ~wplugin' => boot \in {"down", "persist"}
      BY <1>1 DEF WorkerReceive, TypeOK
    <2> QED
      BY <2>1, <2>2, <2>3 DEF ListenersAccounted
  <1>2. CASE CoreApply
    <2>1. PICK e \in wev :
            proxies' = IF e.op = "ADDED" THEN proxies \cup {e.key}
                       ELSE proxies \ {e.key}
      BY <1>2 DEF CoreApply
    <2>2. e \in Event
      BY DEF TypeOK
    <2>3. e.op # "ADDED" => Deleted(e.key) = e
      BY <2>2 DEF Event, Deleted
    <2>4. \A k \in listeners : k \in proxies' \/ Deleted(k) \in wev
      BY <1>2, <2>1, <2>3 DEF CoreApply, ListenersAccounted
    <2>5. \A f \in wev : f.op = "ADDED" => f.key \in proxies'
      BY <2>1 DEF ListenersAccounted
    <2> QED
      BY <1>2, <2>4, <2>5 DEF CoreApply, ListenersAccounted
  <1>3. CASE CoreCheck \/ CoreLog \/ CorePut \/ CoreRemove
    <2>1. /\ wpc \notin {"receive", "apply"} /\ wpc' \notin {"receive", "apply"}
          /\ UNCHANGED <<wev, wplugin, boot, listeners, proxies>>
      BY <1>3 DEF CoreCheck, CoreLog, CorePut, CoreRemove, state
    <2> QED
      BY <2>1 DEF ListenersAccounted
  <1>4. CASE PluginHandle
    <2>1. PICK e \in wev :
            listeners' \in IF ~wplugin THEN {listeners}
                           ELSE IF e.op = "DELETED"
                                THEN {ClosedListeners(e.key)}
                                ELSE ListenOutcomes(e.key)
      BY <1>4 DEF PluginHandle
    <2>2. UNCHANGED <<proxies, boot>> /\ wpc = "plugin" /\ wpc' = "receive" /\ wev' = {}
      BY <1>4 DEF PluginHandle, state
    <2>3. CASE ~wplugin
      BY <2>1, <2>2, <2>3 DEF ListenersAccounted
    <2>4. CASE wplugin
      <3>1. boot' \in {"ready", "closing"}
        BY <2>2, <2>4 DEF ListenersAccounted
      <3>2. CASE e.op = "DELETED"
        <4>1. listeners' = listeners \ {e.key}
          BY <2>1, <2>4, <3>2 DEF ClosedListeners
        <4>2. \A k \in listeners : k \in proxies \/ Deleted(k) = e
          BY <2>2 DEF ListenersAccounted
        <4>3. listeners' \subseteq proxies
          BY <4>1, <4>2 DEF Deleted
        <4> QED
          BY <2>2, <3>1, <4>3 DEF ListenersAccounted
      <3>3. CASE e.op # "DELETED"
        <4>1. e.op = "ADDED" /\ e.key \in proxies
          BY <2>2, <3>3 DEF ListenersAccounted, TypeOK, Event
        <4>2. listeners' \subseteq listeners \cup {e.key}
          BY <2>1, <2>4, <3>3 DEF ListenOutcomes
        <4>3. \A k \in listeners : k \in proxies
          BY <2>2, <4>1 DEF ListenersAccounted, Deleted
        <4>4. listeners' \subseteq proxies
          BY <4>1, <4>2, <4>3
        <4> QED
          BY <2>2, <3>1, <4>4 DEF ListenersAccounted
      <3> QED
        BY <3>2, <3>3
    <2> QED
      BY <2>3, <2>4
  <1>5. CASE RestoreSnapshot
    BY <1>5, OthersKeepListeners DEF RestoreSnapshot
  <1>6. ASSUME NEW c \in Clients, ApplyClientDeleted(c) PROVE ListenersAccounted'
    BY <1>6, OthersKeepListeners DEF ApplyClientDeleted
  <1>7. CASE Crash \/ ShutdownEnd
    BY <1>7 DEF Crash, ShutdownEnd, MemoryLost, ListenersAccounted
  <1>8. CASE Boot \/ RestoreStart \/ RestoreMeta \/ RestoreEnd
    BY <1>8, OthersKeepListeners DEF Boot, BootPersist, BootReady, RestoreStart,
       RestoreMeta, RestoreEnd, state
  <1>9. ASSUME NEW k \in Keys, CreateProxy(k) \/ DeleteProxy(k)
        PROVE  ListenersAccounted'
    BY <1>9, OthersKeepListeners DEF CreateProxy, DeleteProxy, state
  <1>10. CASE Reconcile \/ ShutdownBegin \/ UNCHANGED vars
    BY <1>10, OthersKeepListeners DEF Reconcile, ReconcileReadDesired,
       ReconcileReadActual, ReconcilePublish, ShutdownBegin, vars, state
  <1> QED
    BY <1>1, <1>2, <1>3, <1>4, <1>5, <1>6, <1>7, <1>8, <1>9, <1>10
    DEF Next, Boot, Restore, User, Worker, Reconcile, Stop

(* The inductive invariant holds in every state of every behaviour.        *)
THEOREM ControlInvariant == Spec => []ControlInv
  <1>1. ControlInv /\ [Next]_vars => ControlInv'
    BY TypeOKNext, StateNext, ListenersNext DEF ControlInv
  <1> QED
    BY <1>1, ControlInvInit, PTL DEF Spec

(* Queue, event counter and tables stay within their types: the channel    *)
(* never holds more than its capacity and the event counter is reset at    *)
(* the snapshot interval (eventbus.go:88-96, manager.go:106-122).          *)
THEOREM ControlTypes == Spec => []TypeOK
  <1>1. ControlInv => TypeOK
    BY DEF ControlInv
  <1> QED
    BY <1>1, ControlInvariant, PTL

(* The desired state never differs from the actual state                   *)
(* (statestore.go:365-402, 454-497).                                       *)
THEOREM DesiredEqualsActual == Spec => []DesiredIsActual
  <1>1. ControlInv => DesiredIsActual
    BY DEF ControlInv
  <1> QED
    BY <1>1, ControlInvariant, PTL

(* The port index is a partial map into existing proxies                   *)
(* (statestore.go:347-353, 376-398).                                       *)
THEOREM PortIndexIsSound == Spec => []PortIndexSound
  <1>1. ControlInv => PortIndexSound
    BY DEF ControlInv
  <1> QED
    BY <1>1, ControlInvariant, PTL

(* Between two events every open listener belongs to a proxy               *)
(* (proxy.go:84-129, 196-230).                                             *)
THEOREM NoListenerIsOrphaned == Spec => []NoOrphanListener
  <1>1. ControlInv => NoOrphanListener
    BY DEF ControlInv, ListenersAccounted, NoOrphanListener
  <1> QED
    BY <1>1, ControlInvariant, PTL

-----------------------------------------------------------------------------
(* A recovery that nobody disturbs and whose events fit into the channel.  *)
QuietRecovery ==
  /\ Early = {}
  /\ IsFiniteSet(Keys) /\ Cardinality(Keys) <= QueueCap

(* The events that persist.Run still has to publish find room.             *)
RestoreFits == rpc = "meta" => Len(queue) + Cardinality(rleft) <= Cardinality(Keys)

RecoveryInv == RecoveryPhases /\ DiskIsHandled /\ DiskInMemory /\ RestoreFits

(* What an Append adds to the channel and what a receive takes out.        *)
LEMMA QueuedAppend ==
  ASSUME TypeOK, NEW e \in Event, queue' = Append(queue, e)
  PROVE  Queued' = Queued \cup {e} /\ Len(queue') = Len(queue) + 1
  <1>1. queue \in Seq(Event) /\ Len(queue) \in Nat /\ DOMAIN queue = 1..Len(queue)
    BY LenProperties DEF TypeOK
  <1>2. /\ queue' \in Seq(Event) /\ Len(queue') = Len(queue) + 1
        /\ \A i \in 1..Len(queue) : queue'[i] = queue[i]
        /\ queue'[Len(queue) + 1] = e
    BY <1>1, AppendProperties
  <1>3. DOMAIN queue' = 1..(Len(queue) + 1)
    BY <1>2, LenProperties
  <1>4. Queued' \subseteq Queued \cup {e}
    <2> SUFFICES ASSUME NEW i \in 1..(Len(queue) + 1)
                 PROVE  queue'[i] \in Queued \cup {e}
      BY <1>3 DEF Queued
    <2>1. i \in 1..Len(queue) \/ i = Len(queue) + 1
      BY <1>1
    <2> QED
      BY <1>1, <1>2, <2>1 DEF Queued
  <1>5. Queued \cup {e} \subseteq Queued'
    <2>1. ASSUME NEW i \in 1..Len(queue) PROVE queue[i] \in Queued'
      <3>1. i \in DOMAIN queue' /\ queue'[i] = queue[i]
        BY <1>1, <1>2, <1>3
      <3> QED
        BY <3>1 DEF Queued
    <2>2. e \in Queued'
      <3>1. Len(queue) + 1 \in DOMAIN queue'
        BY <1>1, <1>3
      <3> QED
        BY <1>2, <3>1 DEF Queued
    <2> QED
      BY <1>1, <2>1, <2>2 DEF Queued
  <1> QED
    BY <1>2, <1>4, <1>5

LEMMA QueuedTail ==
  ASSUME TypeOK, queue # <<>>, queue' = Tail(queue)
  PROVE  /\ Head(queue) \in Queued /\ Queued' \subseteq Queued
         /\ Queued \subseteq Queued' \cup {Head(queue)}
         /\ Len(queue') <= Len(queue)
  <1>1. /\ queue \in Seq(Event) /\ Len(queue) \in Nat \ {0}
        /\ DOMAIN queue = 1..Len(queue) /\ Head(queue) = queue[1]
    BY EmptySeq, LenProperties DEF TypeOK
  <1>2. /\ queue' \in Seq(Event) /\ Len(queue') = Len(queue) - 1
        /\ \A i \in 1..Len(queue') : queue'[i] = queue[i + 1]
    BY <1>1, HeadTailProperties
  <1>3. DOMAIN queue' = 1..(Len(queue) - 1)
    BY <1>2, LenProperties
  <1>4. Head(queue) \in Queued
    BY <1>1 DEF Queued
  <1>5. Queued' \subseteq Queued
    <2> SUFFICES ASSUME NEW i \in 1..(Len(queue) - 1) PROVE queue'[i] \in Queued
      BY <1>3 DEF Queued
    <2>1. i + 1 \in DOMAIN queue /\ queue'[i] = queue[i + 1]
      BY <1>1, <1>2
    <2> QED
      BY <2>1 DEF Queued
  <1>6. Queued \subseteq Queued' \cup {Head(queue)}
    <2> SUFFICES ASSUME NEW i \in 1..Len(queue)
                 PROVE  queue[i] \in Queued' \cup {queue[1]}
      BY <1>1 DEF Queued
    <2>1. CASE i = 1
      BY <2>1
    <2>2. CASE i # 1
      <3>1. i - 1 \in 1..(Len(queue) - 1) /\ (i - 1) + 1 = i
        BY <1>1, <2>2
      <3>2. queue'[i - 1] = queue[i]
        BY <1>2, <3>1
      <3> QED
        BY <1>3, <3>1, <3>2 DEF Queued
    <2> QED
      BY <2>1, <2>2
  <1> QED
    BY <1>1, <1>2, <1>4, <1>5, <1>6

(* The channel and the disk are untouched and so is the recovery.          *)
LEMMA RecoveryKept ==
  ASSUME RecoveryInv,
         UNCHANGED <<meta, handled, queue, wev, wpc, proxies, rleft, rpc,
                     restoring, recovered>>,
         epc' = epc \/ recovered \/ epc' \in {"off", "idle"},
         boot' \in {"closing", boot} \/ (boot' = "ready" /\ boot # "closing")
  PROVE  RecoveryInv'
  <1>1. Queued' = Queued
    BY DEF Queued
  <1>2. RecoveryPhases'
    BY DEF RecoveryInv, RecoveryPhases
  <1>3. DiskIsHandled'
    BY <1>1 DEF RecoveryInv, DiskIsHandled
  <1>4. DiskInMemory'
    BY <1>1 DEF RecoveryInv, DiskInMemory, Added, Deleted
  <1>5. RestoreFits'
    BY DEF RecoveryInv, RestoreFits
  <1> QED
    BY <1>2, <1>3, <1>4, <1>5 DEF RecoveryInv

(* Nothing is in memory and nothing was handled.                           *)
LEMMA RecoveryInit == Init => RecoveryInv
  <1> SUFFICES ASSUME Init PROVE RecoveryInv
    OBVIOUS
  <1>1. Queued = {}
    BY EmptySeq DEF Init, MemoryEmpty, Queued
  <1>2. RecoveryPhases
    BY DEF Init, MemoryEmpty, RecoveryPhases
  <1> QED
    BY <1>1, <1>2 DEF Init, MemoryEmpty, RecoveryInv, DiskIsHandled,
       DiskInMemory, RestoreFits

(* Requests and reconcile passes only begin when the recovery is over.     *)
LEMMA PublishAfterRecovery ==
  ASSUME ControlInv, RecoveryInv, recovered, NEW e \in Event, Enqueue(e),
         UNCHANGED <<meta, handled, wev, wpc, proxies, rleft, rpc,
                     restoring, recovered, boot>>
  PROVE  RecoveryInv'
  <1>1. rpc = "done"
    BY DEF RecoveryInv, RecoveryPhases
  <1>2. RecoveryPhases' /\ RestoreFits'
    BY <1>1 DEF RecoveryInv, RecoveryPhases, RestoreFits
  <1>3. DiskIsHandled' /\ DiskInMemory'
    BY DEF RecoveryInv, DiskIsHandled, DiskInMemory, Deleted
  <1> QED
    BY <1>2, <1>3 DEF RecoveryInv

(* The restore of a quiet recovery: every key of the meta store is         *)
(* published and none of the events is dropped.                            *)
LEMMA RestoreNext ==
  ASSUME QuietRecovery, ControlInv, RecoveryInv, Restore
  PROVE  RecoveryInv'
  <1>0. TypeOK
    BY DEF ControlInv
  <1>q. IsFiniteSet(Keys) /\ Cardinality(Keys) \in Nat /\ Cardinality(Keys) <= QueueCap
    BY FS_CardinalityType DEF QuietRecovery
  <1>1. CASE RestoreStart
    <2>1. /\ rpc = "start" /\ rpc' = "meta" /\ restoring' = TRUE /\ rleft' = meta
          /\ UNCHANGED <<meta, handled, queue, wev, wpc, proxies, recovered, epc, boot>>
      BY <1>1 DEF RestoreStart, disk, state, worker, engine
    <2>2. queue = <<>> /\ wpc = "receive" /\ ~recovered
      BY <2>1 DEF RecoveryInv, RecoveryPhases
    <2>3. Queued' = Queued
      BY <2>1 DEF Queued
    <2>4. RecoveryPhases'
      BY <2>1, <2>2 DEF RecoveryInv, RecoveryPhases
    <2>5. DiskIsHandled'
      BY <2>1, <2>3 DEF RecoveryInv, DiskIsHandled
    <2>6. DiskInMemory'
      BY <2>1, <2>2 DEF DiskInMemory
    <2>7. RestoreFits'
      <3>1. Cardinality(meta) <= Cardinality(Keys) /\ Cardinality(meta) \in Nat
        BY <1>0, <1>q, FS_Subset, FS_CardinalityType DEF TypeOK
      <3> QED
        BY <2>1, <2>2, <3>1, EmptySeq DEF RestoreFits
    <2> QED
      BY <2>4, <2>5, <2>6, <2>7 DEF RecoveryInv
  <1>2. CASE RestoreMeta
    <2>1. /\ rpc = "meta" /\ restoring /\ ~recovered
          /\ UNCHANGED <<meta, handled, wev, wpc, proxies, recovered, restoring, epc, boot>>
      BY <1>2 DEF RestoreMeta, disk, state, worker, engine, RecoveryInv, RecoveryPhases
    <2>2. ASSUME NEW k \in rleft, Enqueue(Added(k)), rleft' = rleft \ {k}, rpc' = rpc
          PROVE  RecoveryInv'
      <3>1. /\ k \in meta /\ k \in Keys /\ Added(k) \in Event
            /\ Added(k).op = "ADDED" /\ Added(k).key = k
        BY <1>0, EventsOfKeys DEF RecoveryInv, RecoveryPhases, TypeOK, Added
      <3>2. /\ Len(queue) \in Nat /\ Cardinality(rleft) \in Nat
            /\ Cardinality(rleft') = Cardinality(rleft) - 1
            /\ Len(queue) + Cardinality(rleft) <= Cardinality(Keys)
        <4>1. IsFiniteSet(rleft)
          BY <1>0, <1>q, FS_Subset DEF TypeOK
        <4>2. Len(queue) + Cardinality(rleft) <= Cardinality(Keys)
          BY <2>1 DEF RecoveryInv, RestoreFits
        <4> QED
          BY <1>0, <2>2, <4>1, <4>2, FS_CardinalityType, FS_RemoveElement, LenProperties
          DEF TypeOK
      <3>3. Cardinality(rleft) # 0
        <4>1. IsFiniteSet(rleft)
          BY <1>0, <1>q, FS_Subset DEF TypeOK
        <4> QED
          BY <2>2, <4>1, FS_EmptySet
      <3>4. Len(queue) < QueueCap /\ QueueCap \in Nat
        BY <1>q, <3>2, <3>3, ControlAssumption
      <3>5. CASE boot = "closing"
        <4>1. UNCHANGED queue
          BY <2>2, <3>5 DEF Enqueue
        <4>2. Queued' = Queued
          BY <4>1 DEF Queued
        <4>3. RecoveryPhases'
          BY <2>1, <2>2, <4>1 DEF RecoveryInv, RecoveryPhases
        <4>4. DiskIsHandled'
          BY <2>1, <4>2 DEF RecoveryInv, DiskIsHandled
        <4>5. DiskInMemory' /\ RestoreFits'
          BY <2>1, <2>2, <3>2, <3>5, <1>q, <4>1 DEF DiskInMemory, RestoreFits
        <4> QED
          BY <4>3, <4>4, <4>5 DEF RecoveryInv
      <3>6. CASE boot # "closing"
        <4>1. queue' = Append(queue, Added(k))
          BY <2>2, <3>4, <3>6 DEF Enqueue
        <4>2. Queued' = Queued \cup {Added(k)} /\ Len(queue') = Len(queue) + 1
          BY <1>0, <3>1, <4>1, QueuedAppend
        <4>3. RecoveryPhases'
          BY <2>1, <2>2 DEF RecoveryInv, RecoveryPhases
        <4>4. DiskIsHandled'
          BY <2>1, <3>1, <4>2 DEF RecoveryInv, DiskIsHandled
        <4>5. DiskInMemory'
          BY <2>1, <2>2, <4>2 DEF RecoveryInv, DiskInMemory, Added
        <4>6. RestoreFits'
          BY <2>2, <3>2, <4>2 DEF RestoreFits
        <4> QED
          BY <4>3, <4>4, <4>5, <4>6 DEF RecoveryInv
      <3> QED
        BY <3>5, <3>6
    <2>3. ASSUME rleft = {}, rpc' = "snapshot", UNCHANGED <<queue, rleft>>
          PROVE  RecoveryInv'
      <3>1. Queued' = Queued
        BY <2>3 DEF Queued
      <3>2. RecoveryPhases'
        BY <2>1, <2>3 DEF RecoveryInv, RecoveryPhases
      <3>3. DiskIsHandled' /\ RestoreFits'
        BY <2>1, <2>3, <3>1 DEF RecoveryInv, DiskIsHandled, RestoreFits
      <3>4. DiskInMemory'
        BY <2>1, <2>3, <3>1 DEF RecoveryInv, DiskInMemory, Added
      <3> QED
        BY <3>2, <3>3, <3>4 DEF RecoveryInv
    <2> QED
      BY <1>2, <2>2, <2>3 DEF RestoreMeta
  <1>3. CASE RestoreSnapshot
    <2>1. /\ rpc = "snapshot" /\ rpc' = "end" /\ proxies \subseteq proxies'
          /\ UNCHANGED <<meta, handled, queue, wev, wpc, rleft, recovered, restoring, epc, boot>>
      BY <1>3 DEF RestoreSnapshot, disk, worker, engine
    <2>2. Queued' = Queued /\ ~recovered
      BY <2>1 DEF Queued, RecoveryInv, RecoveryPhases
    <2>3. RecoveryPhases'
      BY <2>1 DEF RecoveryInv, RecoveryPhases
    <2>4. DiskIsHandled' /\ RestoreFits'
      BY <2>1, <2>2 DEF RecoveryInv, DiskIsHandled, RestoreFits
    <2>5. DiskInMemory'
      BY <2>1, <2>2 DEF RecoveryInv, DiskInMemory, Added
    <2> QED
      BY <2>3, <2>4, <2>5 DEF RecoveryInv
  <1>4. CASE RestoreEnd
    <2>1. /\ rpc = "end" /\ rpc' = "done" /\ restoring' = FALSE
          /\ recovered' = (queue = <<>> /\ wpc = "receive")
          /\ UNCHANGED <<meta, handled, queue, wev, wpc, rleft, proxies, epc, boot>>
      BY <1>4 DEF RestoreEnd, disk, state, worker, engine
    <2>2. Queued' = Queued /\ ~recovered /\ rleft = {}
      BY <2>1 DEF Queued, RecoveryInv, RecoveryPhases
    <2>3. RecoveryPhases'
      BY <2>1, <2>2 DEF RecoveryInv, RecoveryPhases
    <2>4. DiskIsHandled' /\ RestoreFits'
      BY <2>1, <2>2 DEF RecoveryInv, DiskIsHandled, RestoreFits
    <2>5. DiskInMemory'
      <3>1. CASE recovered'
        <4>1. Queued = {} /\ wpc = "receive"
          <5>1. queue = <<>> /\ wpc = "receive"
            BY <2>1, <3>1, Zenon
          <5> QED
            BY <5>1, EmptySeq DEF Queued
        <4> QED
          BY <2>1, <2>2, <3>1, <4>1 DEF RecoveryInv, DiskInMemory
      <3>2. CASE ~recovered'
        BY <2>1, <2>2, <3>2 DEF RecoveryInv, DiskInMemory, Added
      <3> QED
        BY <3>1, <3>2
    <2> QED
      BY <2>3, <2>4, <2>5 DEF RecoveryInv
  <1> QED
    BY <1>1, <1>2, <1>3, <1>4 DEF Restore

(* The worker brings what it takes out of the channel into memory, and     *)
(* once the recovery is over keeps memory and disk together.               *)
LEMMA WorkerKeepsRecovery ==
  ASSUME QuietRecovery, ControlInv, RecoveryInv, Worker
  PROVE  RecoveryInv'
  <1>0. /\ TypeOK /\ ListenersAccounted /\ \A e, f \in wev : e = f
        /\ \A e \in wev : e \in Event
    BY DEF ControlInv, ListenersAccounted, TypeOK
  <1>a. \A e \in Event : (e.op = "ADDED" /\ e = Added(e.key))
                            \/ (e.op = "DELETED" /\ e = Deleted(e.key))
    BY DEF Event, Added, Deleted
  <1>b. /\ \A k : Added(k).op = "ADDED" /\ Added(k).key = k
        /\ \A k : Deleted(k).op = "DELETED" /\ Deleted(k).key = k
    BY DEF Added, Deleted
  <1>1. CASE WorkerReceive
    <2>1. /\ wpc = "receive" /\ queue # <<>> /\ wev' = {Head(queue)}
          /\ queue' = Tail(queue) /\ wpc' = "apply"
          /\ UNCHANGED <<meta, handled, proxies, rleft, rpc, restoring,
                         recovered, epc, boot>>
      BY <1>1 DEF WorkerReceive, disk, state, restore, engine
    <2>2. /\ Head(queue) \in Queued /\ Queued' \subseteq Queued
          /\ Queued \subseteq Queued' \cup {Head(queue)}
          /\ Len(queue') <= Len(queue)
      BY <1>0, <2>1, QueuedTail
    <2>3. RecoveryPhases'
      BY <2>1 DEF RecoveryInv, RecoveryPhases
    <2>4. DiskIsHandled'
      BY <2>1, <2>2 DEF RecoveryInv, DiskIsHandled
    <2>5. DiskInMemory'
      <3>1. ASSUME boot # "closing", ~recovered, rpc \notin {"off", "start"}, NEW k \in meta
            PROVE  \/ k \in proxies \cup rleft
                   \/ Added(k) \in Queued' \cup {Head(queue)}
        BY <2>1, <2>2, <3>1 DEF RecoveryInv, DiskInMemory
      <3>2. ASSUME boot # "closing", recovered, NEW k \in meta
            PROVE  k \in proxies
        BY <2>1, <3>2 DEF RecoveryInv, DiskInMemory
      <3> QED
        BY <2>1, <3>1, <3>2 DEF DiskInMemory, Added, Deleted
    <2>6. RestoreFits'
      <3>1. /\ Len(queue) \in Nat /\ Len(queue') \in Nat
        BY <1>0, <2>1, HeadTailProperties, LenProperties DEF TypeOK
      <3>2. CASE rpc = "meta"
        <4>1. Len(queue) + Cardinality(rleft) <= Cardinality(Keys)
          BY <3>2 DEF RecoveryInv, RestoreFits
        <4>2. Cardinality(rleft) \in Nat /\ Cardinality(Keys) \in Nat
          BY <1>0, FS_Subset, FS_CardinalityType DEF TypeOK, QuietRecovery
        <4> QED
          BY <2>1, <2>2, <3>1, <4>1, <4>2 DEF RestoreFits
      <3>3. CASE rpc # "meta"
        BY <2>1, <3>3 DEF RestoreFits
      <3> QED
        BY <3>2, <3>3
    <2> QED
      BY <2>3, <2>4, <2>5, <2>6 DEF RecoveryInv
  <1>2. ASSUME UNCHANGED <<queue, rpc, rleft>> PROVE Queued' = Queued /\ RestoreFits'
    BY <1>2 DEF Queued, RestoreFits, RecoveryInv
  <1>3. CASE CoreApply
    <2>1. PICK e \in wev :
            proxies' = IF e.op = "ADDED" THEN proxies \cup {e.key}
                       ELSE proxies \ {e.key}
      BY <1>3 DEF CoreApply
    <2>2. /\ wpc = "apply" /\ wpc' = "check"
          /\ UNCHANGED <<meta, handled, queue, wev, rleft, rpc, restoring,
                         recovered, epc, boot>>
      BY <1>3 DEF CoreApply, disk, restore, engine
    <2>3. Queued' = Queued /\ RestoreFits'
      BY <1>2, <2>2
    <2>4. RecoveryPhases' /\ DiskIsHandled'
      BY <2>2, <2>3 DEF RecoveryInv, RecoveryPhases, DiskIsHandled
    <2>5. DiskInMemory'
      <3>1. ASSUME boot # "closing", ~recovered, rpc \notin {"off", "start"}, NEW k \in meta
            PROVE  k \in proxies' \cup rleft \/ Added(k) \in Queued
        <4>1. e.op = "ADDED" /\ proxies' = proxies \cup {e.key}
          BY <2>1, <3>1 DEF RecoveryInv, DiskIsHandled
        <4>2. Added(k) \in wev => k = e.key
          BY <1>0, <1>b, <2>1
        <4> QED
          BY <3>1, <4>1, <4>2 DEF RecoveryInv, DiskInMemory
      <3>2. ASSUME boot # "closing", recovered, NEW k \in meta
            PROVE  k \in proxies' \/ Deleted(k) \in wev
        <4>1. k \in proxies
          BY <2>2, <3>2 DEF RecoveryInv, DiskInMemory
        <4>2. CASE e.op = "ADDED"
          BY <2>1, <4>1, <4>2
        <4>3. CASE e.op # "ADDED"
          <5>1. e = Deleted(e.key) /\ proxies' = proxies \ {e.key}
            BY <1>0, <1>a, <2>1, <4>3
          <5> QED
            BY <4>1, <5>1
        <4> QED
          BY <4>2, <4>3
      <3> QED
        BY <2>2, <2>3, <3>1, <3>2 DEF DiskInMemory, Added, Deleted
    <2> QED
      BY <2>3, <2>4, <2>5 DEF RecoveryInv
  <1>4. CASE CoreCheck
    <2>1. PICK e \in wev :
            IF restoring
            THEN wpc' = "plugin" /\ Handled(e)
            ELSE wpc' = (IF e.op = "ADDED" THEN "log" ELSE "remove") /\ UNCHANGED handled
      BY <1>4 DEF CoreCheck
    <2>2. /\ wpc = "check"
          /\ UNCHANGED <<meta, proxies, queue, wev, rleft, rpc, restoring,
                         recovered, epc, boot>>
      BY <1>4 DEF CoreCheck, disk, state, restore, engine
    <2>3. Queued' = Queued /\ RestoreFits'
      BY <1>2, <2>2
    <2>4. handled' = handled
      <3>1. CASE restoring
        <4>1. ~recovered
          BY <3>1 DEF RecoveryInv, RecoveryPhases
        <4>2. e.op = "ADDED" /\ e.key \in handled
          BY <4>1 DEF RecoveryInv, DiskIsHandled
        <4> QED
          BY <2>1, <3>1, <4>2 DEF Handled
      <3>2. CASE ~restoring
        BY <2>1, <3>2
      <3> QED
        BY <3>1, <3>2
    <2>5. wpc' \in {"plugin", "log", "remove"} /\ (wpc' = "remove" => e.op = "DELETED")
      BY <1>0, <1>a, <2>1
    <2>6. RecoveryPhases'
      BY <1>0, <2>2, <2>5 DEF RecoveryInv, RecoveryPhases
    <2>7. DiskIsHandled'
      BY <2>2, <2>3, <2>4 DEF RecoveryInv, DiskIsHandled
    <2>8. DiskInMemory'
      <3>1. ASSUME boot # "closing", ~recovered, rpc \notin {"off", "start"}, NEW k \in meta
            PROVE  k \in proxies \cup rleft \/ Added(k) \in Queued
        BY <2>2, <3>1 DEF RecoveryInv, DiskInMemory
      <3>2. ASSUME boot # "closing", recovered, NEW k \in meta
            PROVE  k \in proxies \/ (wpc' = "remove" /\ Deleted(k) \in wev)
        <4>1. k \in proxies \/ Deleted(k) \in wev
          BY <3>2 DEF RecoveryInv, DiskInMemory
        <4>2. ASSUME Deleted(k) \in wev PROVE wpc' = "remove"
          <5>1. e.op = "DELETED" /\ ~restoring
            BY <1>0, <1>b, <2>1, <3>2, <4>2 DEF RecoveryInv, RecoveryPhases
          <5> QED
            BY <2>1, <5>1
        <4> QED
          BY <4>1, <4>2
      <3> QED
        BY <2>2, <2>3, <3>1, <3>2 DEF DiskInMemory, Added, Deleted
    <2> QED
      BY <2>3, <2>6, <2>7, <2>8 DEF RecoveryInv
  <1>5. CASE CoreLog
    <2>1. /\ wpc = "log" /\ wpc' \in {"put", "plugin"}
          /\ wpc' = "put" => \E e \in wev : e.op = "ADDED"
          /\ UNCHANGED <<meta, handled, proxies, queue, wev, rleft, rpc,
                         restoring, recovered, epc, boot>>
      BY <1>5 DEF CoreLog, state, restore, engine
    <2>2. Queued' = Queued /\ RestoreFits'
      BY <1>2, <2>1
    <2>3. RecoveryPhases' /\ DiskIsHandled'
      BY <1>0, <2>1, <2>2 DEF RecoveryInv, RecoveryPhases, DiskIsHandled
    <2>4. DiskInMemory'
      BY <2>1, <2>2 DEF RecoveryInv, DiskInMemory, Added, Deleted
    <2> QED
      BY <2>2, <2>3, <2>4 DEF RecoveryInv
  <1>6. CASE CorePut
    <2>1. PICK e \in wev : meta' = MetaPut(e.key) /\ Handled(e)
      BY <1>6 DEF CorePut
    <2>2. /\ wpc = "put" /\ wpc' = "plugin"
          /\ UNCHANGED <<proxies, queue, wev, rleft, rpc, restoring, recovered,
                         epc, boot>>
      BY <1>6 DEF CorePut, state, restore, engine
    <2>3. Queued' = Queued /\ RestoreFits'
      BY <1>2, <2>2
    <2>4. e.op = "ADDED" /\ e.key \in proxies
      BY <1>0, <2>2 DEF RecoveryInv, RecoveryPhases, ListenersAccounted
    <2>5. meta' = meta \cup {e.key} /\ handled' = handled \cup {e.key}
      BY <2>1, <2>4 DEF MetaPut, Handled
    <2>6. RecoveryPhases' /\ DiskIsHandled'
      BY <2>2, <2>3, <2>5 DEF RecoveryInv, RecoveryPhases, DiskIsHandled
    <2>7. DiskInMemory'
      BY <2>2, <2>3, <2>4, <2>5 DEF RecoveryInv, DiskInMemory, Added, Deleted
    <2> QED
      BY <2>3, <2>6, <2>7 DEF RecoveryInv
  <1>7. CASE CoreRemove
    <2>1. PICK e \in wev : meta' = meta \ {e.key} /\ Handled(e)
      BY <1>7 DEF CoreRemove
    <2>2. /\ wpc = "remove" /\ wpc' = "log"
          /\ UNCHANGED <<proxies, queue, wev, rleft, rpc, restoring, recovered,
                         epc, boot>>
      BY <1>7 DEF CoreRemove, state, restore, engine
    <2>3. Queued' = Queued /\ RestoreFits'
      BY <1>2, <2>2
    <2>4. e.op = "DELETED"
      BY <2>2 DEF RecoveryInv, RecoveryPhases
    <2>5. recovered /\ rleft = {}
      BY <2>4 DEF RecoveryInv, DiskIsHandled, RecoveryPhases
    <2>6. handled' = handled \ {e.key}
      BY <2>1, <2>4 DEF Handled
    <2>7. RecoveryPhases' /\ DiskIsHandled'
      BY <2>1, <2>2, <2>3, <2>5, <2>6 DEF RecoveryInv, RecoveryPhases, DiskIsHandled
    <2>8. DiskInMemory'
      <3>1. ASSUME boot # "closing", NEW k \in meta' PROVE k \in proxies
        <4>1. k \in meta /\ k # e.key
          BY <2>1, <3>1
        <4>2. Deleted(k) \notin wev
          BY <1>0, <1>b, <2>1, <4>1
        <4> QED
          BY <2>5, <3>1, <4>1, <4>2 DEF RecoveryInv, DiskInMemory
      <3> QED
        BY <2>2, <2>5, <3>1 DEF DiskInMemory
    <2> QED
      BY <2>3, <2>7, <2>8 DEF RecoveryInv
  <1>8. CASE PluginHandle
    <2>1. /\ wpc = "plugin" /\ wpc' = "receive" /\ wev' = {}
          /\ recovered' = (recovered \/ (rpc = "done" /\ queue = <<>>))
          /\ UNCHANGED <<meta, handled, proxies, queue, rleft, rpc, restoring,
                         epc, boot>>
      BY <1>8 DEF PluginHandle, disk, state, engine
    <2>2. Queued' = Queued /\ RestoreFits'
      BY <1>2, <2>1
    <2>3. recovered => recovered'
      BY <2>1
    <2>4. RecoveryPhases'
      BY <2>1 DEF RecoveryInv, RecoveryPhases
    <2>5. DiskIsHandled'
      BY <2>1, <2>2, <2>3 DEF RecoveryInv, DiskIsHandled
    <2>6. DiskInMemory'
      <3>1. ASSUME boot # "closing", ~recovered', rpc \notin {"off", "start"}, NEW k \in meta
            PROVE  k \in proxies \cup rleft \/ Added(k) \in Queued
        BY <2>1, <2>3, <3>1 DEF RecoveryInv, DiskInMemory
      <3>2. ASSUME boot # "closing", recovered', NEW k \in meta PROVE k \in proxies
        <4>1. CASE recovered
          BY <2>1, <3>2, <4>1 DEF RecoveryInv, DiskInMemory
        <4>2. CASE ~recovered
          <5>1. rpc = "done" /\ Queued = {} /\ rleft = {}
            <6>1. rpc = "done" /\ queue = <<>>
              BY <2>1, <3>2, <4>2, Zenon
            <6> QED
              BY <6>1, EmptySeq DEF Queued, RecoveryInv, RecoveryPhases
          <5> QED
            BY <2>1, <3>2, <4>2, <5>1 DEF RecoveryInv, DiskInMemory
        <4> QED
          BY <4>1, <4>2
      <3> QED
        BY <2>1, <2>2, <3>1, <3>2 DEF DiskInMemory, Added
    <2> QED
      BY <2>2, <2>4, <2>5, <2>6 DEF RecoveryInv
  <1> QED
    BY <1>1, <1>3, <1>4, <1>5, <1>6, <1>7, <1>8 DEF Worker

(* A quiet recovery keeps every step in its account.                       *)
LEMMA RecoveryNext ==
  ASSUME QuietRecovery, ControlInv, RecoveryInv, [Next]_vars
  PROVE  RecoveryInv'
  <1>0. TypeOK
    BY DEF ControlInv
  <1>1. CASE BootPersist
    <2>1. /\ rpc' = "start" /\ boot = "down" /\ boot' = "persist" /\ rpc = "off"
          /\ UNCHANGED <<meta, handled, queue, wev, wpc, proxies, rleft,
                         restoring, recovered, epc>>
      BY <1>1 DEF BootPersist, disk, state, worker, engine, RecoveryInv, RecoveryPhases
    <2>2. Queued' = Queued
      BY <2>1 DEF Queued
    <2>3. RecoveryPhases' /\ DiskIsHandled' /\ DiskInMemory' /\ RestoreFits'
      BY <2>1, <2>2 DEF RecoveryInv, RecoveryPhases, DiskIsHandled, DiskInMemory, RestoreFits
    <2> QED
      BY <2>3 DEF RecoveryInv
  <1>2. CASE BootReady
    BY <1>2, RecoveryKept DEF BootReady, disk, state, worker, restore
  <1>3. CASE Restore
    BY <1>3, RestoreNext
  <1>4. CASE Worker
    BY <1>4, WorkerKeepsRecovery
  <1>5. ASSUME NEW k \in Keys, CreateProxy(k) \/ DeleteProxy(k) PROVE RecoveryInv'
    <2>1. recovered
      BY <1>5 DEF CreateProxy, DeleteProxy, Serving, NotTooEarly, QuietRecovery
    <2> QED
      BY <1>5, <2>1, EventsOfKeys, PublishAfterRecovery
      DEF CreateProxy, DeleteProxy, disk, state, worker, restore, engine
  <1>6. ASSUME NEW c \in Clients, ApplyClientDeleted(c) PROVE RecoveryInv'
    BY <1>6, RecoveryKept DEF ApplyClientDeleted, disk, worker, restore, engine
  <1>7. CASE ReconcileReadDesired
    <2>1. recovered
      BY <1>7 DEF ReconcileReadDesired, NotTooEarly, QuietRecovery
    <2> QED
      BY <1>7, <2>1, RecoveryKept DEF ReconcileReadDesired, disk, state, worker, restore
  <1>8. CASE ReconcileReadActual
    <2>1. recovered
      BY <1>8 DEF ReconcileReadActual, RecoveryInv, RecoveryPhases
    <2> QED
      BY <1>8, <2>1, RecoveryKept DEF ReconcileReadActual, disk, state, worker, restore
  <1>9. CASE ReconcilePublish
    <2>1. recovered
      BY <1>9 DEF ReconcilePublish, RecoveryInv, RecoveryPhases
    <2>2. UNCHANGED <<meta, handled, wev, wpc, proxies, rleft, rpc, restoring,
                      recovered, boot>>
      BY <1>9 DEF ReconcilePublish, disk, state, worker, restore
    <2>3. ASSUME NEW e \in etodo, ProviderPublish(e) PROVE RecoveryInv'
      <3>1. e \in Event
        BY <1>0 DEF TypeOK
      <3> QED
        BY <2>1, <2>2, <2>3, <3>1, PublishAfterRecovery DEF ProviderPublish
    <2>4. CASE UNCHANGED queue
      BY <2>1, <2>2, <2>4, RecoveryKept
    <2> QED
      BY <1>9, <2>3, <2>4 DEF ReconcilePublish
  <1>10. CASE Crash \/ ShutdownEnd
    <2>1. MemoryLost /\ boot' = "down" /\ UNCHANGED <<meta, handled>>
      BY <1>10 DEF Crash, ShutdownEnd, disk
    <2>2. Queued' = {}
      BY <2>1, EmptySeq DEF MemoryLost, Queued
    <2>3. RecoveryPhases'
      BY <2>1 DEF MemoryLost, RecoveryPhases
    <2>4. DiskIsHandled' /\ DiskInMemory' /\ RestoreFits'
      BY <2>1, <2>2 DEF MemoryLost, RecoveryInv, DiskIsHandled, DiskInMemory, RestoreFits
    <2> QED
      BY <2>3, <2>4 DEF RecoveryInv
  <1>11. CASE ShutdownBegin
    BY <1>11, RecoveryKept DEF ShutdownBegin, disk, state, worker, restore, engine
  <1>12. CASE UNCHANGED vars
    BY <1>12, RecoveryKept DEF vars, disk, state, worker, restore, engine
  <1> QED
    BY <1>1, <1>2, <1>3, <1>4, <1>5, <1>6, <1>7, <1>8, <1>9, <1>10, <1>11, <1>12
    DEF Next, Boot, User, Reconcile, Stop

(* Crashes and shutdowns lose no handled proxy: after any number of them,  *)
(* at any moment of a write, the proxies whose addition was handled last   *)
(* are back once the restore's events are handled, provided no request and *)
(* no reconcile pass overtakes the restore and its events fit into the     *)
(* channel (persist.go:75-123, core.go:66-84, manager.go:79-122).          *)
THEOREM RecoveryIsComplete ==
  ASSUME QuietRecovery
  PROVE  Spec => []RecoveryComplete
  <1>1. ControlInv /\ RecoveryInv => RecoveryComplete
    <2> SUFFICES ASSUME ControlInv, RecoveryInv, Idle PROVE handled \subseteq proxies
      BY DEF RecoveryComplete
    <2>1. /\ boot # "closing" /\ rpc = "done" /\ wpc = "receive" /\ rleft = {}
          /\ handled = meta
      BY DEF Idle, RecoveryInv, RecoveryPhases, DiskIsHandled
    <2>2. Queued = {}
      BY EmptySeq DEF Idle, Queued
    <2> QED
      BY <2>1, <2>2 DEF RecoveryInv, DiskInMemory
  <1>2. ControlInv /\ RecoveryInv /\ [Next]_vars => RecoveryInv'
    BY RecoveryNext
  <1> QED
    BY <1>1, <1>2, RecoveryInit, ControlInvariant, PTL DEF Spec
=============================================================================

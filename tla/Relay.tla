------------------------------- MODULE Relay -------------------------------
(***************************************************************************)
(* One relay session: the relay managers of its two nodes                  *)
(* (BBgrid_Client/handler/relay.go), which on every relay signal start an  *)
(* attempt that dials the server's /relay, and HandleRelay with            *)
(* relayWSPipe (BBgrid_Server/session/server.go), which joins the          *)
(* connections of the session two by two.                                  *)
(*                                                                         *)
(* An attempt and the connection it makes have one number.  The messages a *)
(* node sends back (relay_established, relay_closed) are ignored by        *)
(* Session.handleMessage and left out; no server sends relay_closed to a   *)
(* node, because handleRelayDeleted of the relay plugin looks the session  *)
(* up after the core has removed it: Delete shows that step, and           *)
(* handleRelayClosed of the node is left out.                              *)
(***************************************************************************)
EXTENDS Naturals, Sequences, FiniteSets

CONSTANTS
    MaxAttempts,    \* bound: relay signals
    MaxSignals,     \* [Roles -> Nat], bound: signals to a node that has not
                    \* lost the connection of the one before
    MaxFaults       \* bound: lost control connections and relay connections

Roles == {"source", "target"}

ASSUME RelayAssumption ==
    /\ MaxAttempts \in Nat /\ MaxFaults \in Nat
    /\ MaxSignals \in [Roles -> Nat]

Attempts == 1..MaxAttempts

VARIABLES
    record,     \* the session in the state store: "none", "live", "deleted"
    linked,     \* the nodes whose control connection is up
    faults,     \* faults that happened
    att,        \* the attempts, in the order of their signals: role, live (its
                \* context is not cancelled), old (its Handler was stopped), pc
    sessions,   \* relayManager.sessions of the node: 0 for no entry
    port,       \* the attempt that listens on the source port, or 0
    conn,       \* the server's side of an attempt's connection
    dead,       \* the connections that the network or the node has closed and
                \* the server has not
    relayPending, \* Server.relayPending: the waiting attempt, or 0
    handed,     \* [Attempts -> 0 or attempt]: what the channel of a waiter holds
    copying,    \* the connections that relayWSPipe reads from
    peer,       \* the other connection of the pipe, or 0
    stolen      \* history: the connections whose entry a timeout deleted that
                \* was not theirs

relayPipeVars == <<conn, relayPending, handed, copying, peer, stolen>>
attemptVars == <<att, sessions, port>>
envVars == <<record, linked, faults>>
relayVars == <<envVars, attemptVars, dead, relayPipeVars>>

ConnStates == {"none", "wait", "timeout", "handed", "piped",
               "closed"}

RelayTypeOK ==
    /\ record \in {"none", "live", "deleted"}
    /\ linked \subseteq Roles /\ faults \in 0..MaxFaults
    /\ att \in Seq([role : Roles, live : BOOLEAN, old : BOOLEAN,
                    pc : {"dial", "up", "exit", "ended"}])
    /\ Len(att) <= MaxAttempts
    /\ sessions \in [Roles -> 0..MaxAttempts] /\ port \in 0..MaxAttempts
    /\ conn \in [Attempts -> ConnStates] /\ dead \subseteq Attempts
    /\ relayPending \in 0..MaxAttempts
    /\ handed \in [Attempts -> 0..MaxAttempts]
    /\ copying \subseteq Attempts /\ peer \in [Attempts -> 0..MaxAttempts]
    /\ stolen \subseteq Attempts

RelayInit ==
    /\ record = "none" /\ linked = Roles /\ faults = 0
    /\ att = <<>> /\ sessions = [r \in Roles |-> 0] /\ port = 0
    /\ conn = [a \in Attempts |-> "none"] /\ dead = {}
    /\ relayPending = 0 /\ handed = [a \in Attempts |-> 0]
    /\ copying = {} /\ peer = [a \in Attempts |-> 0] /\ stolen = {}

-----------------------------------------------------------------------------
(* The session and the control connections.                                *)

\* Create: the event, which the state store applies
Create ==
    /\ record = "none" /\ record' = "live"
    /\ UNCHANGED <<linked, faults, attemptVars, dead, relayPipeVars>>

\* Delete: the worker of relay events has the state store apply the event and
\* then calls handleRelayDeleted, which finds no session and tells no node
Delete ==
    /\ record = "live" /\ record' = "deleted"
    /\ UNCHANGED <<linked, faults, attemptVars, dead, relayPipeVars>>

\* handleRelaySignal: notifyRelayClients at the creation, syncClientRelays
\* after every registration.  An entry under the ID is overwritten.
Signal(r) ==
    /\ r \in linked /\ record = "live" /\ Len(att) < MaxAttempts
    /\ Cardinality({a \in DOMAIN att : att[a].role = r /\ ~att[a].old})
         < MaxSignals[r]
    /\ att' = Append(att, [role |-> r, live |-> TRUE, old |-> FALSE,
                           pc |-> "dial"])
    /\ sessions' = [sessions EXCEPT ![r] = Len(att) + 1]
    /\ UNCHANGED <<envVars, port, dead, relayPipeVars>>

\* the node loses its control connection: Handler.Stop cancels baseCtx and
\* empties the relay manager; the next connection has a new one
LoseControl(r) ==
    /\ r \in linked /\ faults < MaxFaults
    /\ faults' = faults + 1 /\ linked' = linked \ {r}
    /\ att' = [a \in DOMAIN att |->
                 IF att[a].role = r
                 THEN [att[a] EXCEPT !.live = FALSE, !.old = TRUE] ELSE att[a]]
    /\ sessions' = [sessions EXCEPT ![r] = 0]
    /\ UNCHANGED <<record, port, dead, relayPipeVars>>

Reconnect(r) ==
    /\ r \notin linked /\ linked' = linked \cup {r}
    /\ UNCHANGED <<record, faults, attemptVars, dead, relayPipeVars>>

\* the network closes a relay connection
ConnectionDies(a) ==
    /\ conn[a] \notin {"none", "closed"} /\ a \notin dead /\ faults < MaxFaults
    /\ faults' = faults + 1 /\ dead' = dead \cup {a}
    /\ UNCHANGED <<record, linked, attemptVars, relayPipeVars>>

-----------------------------------------------------------------------------
(* An attempt of a node: runSource and runTarget.                          *)

AttemptAt(a, pc) == a \in DOMAIN att /\ att[a].pc = pc
Moved(a, pc) == [att EXCEPT ![a].pc = pc]

\* Mutated form of SomeoneWaits: the waiting end is not found.
NobodyFound == FALSE
SomeoneWaits == relayPending # 0
\* Mutated form of EntryAfter: the entry of the end that was met stays.
EntryKept == relayPending
EntryAfter == 0

\* HandleRelay: the first connection waits under the session's ID, and the
\* second, of whatever role, is put in the channel of the first
HandleRelay(a) ==
    IF ~SomeoneWaits
    THEN /\ relayPending' = a /\ conn' = [conn EXCEPT ![a] = "wait"]
         /\ UNCHANGED handed
    ELSE /\ relayPending' = EntryAfter /\ conn' = [conn EXCEPT ![a] = "handed"]
         /\ handed' = [handed EXCEPT ![relayPending] = a]

\* connectRelay does not look at the context; HandleRelay refuses a session
\* that is not there.  The multiplexer is put on the connection, and the
\* source listens; when its port is taken it closes the connection, and the
\* attempt is not repeated.
RelayDialled(a) ==
    /\ AttemptAt(a, "dial") /\ record = "live"
    /\ HandleRelay(a)
    /\ IF att[a].role = "source" /\ port # 0
       THEN /\ att' = Moved(a, "exit") /\ dead' = dead \cup {a}
            /\ UNCHANGED port
       ELSE /\ att' = Moved(a, "up")
            /\ port' = IF att[a].role = "source" THEN a ELSE port
            /\ UNCHANGED dead
    /\ UNCHANGED <<envVars, sessions, copying, peer, stolen>>

RelayDialFails(a) ==
    /\ AttemptAt(a, "dial")
    /\ att' = Moved(a, "exit")
    /\ UNCHANGED <<envVars, sessions, port, dead, relayPipeVars>>

\* the watcher of the context closes the listener and the multiplexer; the
\* websocket stays open
ContextDone(a) ==
    /\ AttemptAt(a, "up") /\ ~att[a].live
    /\ att' = Moved(a, "exit")
    /\ UNCHANGED <<envVars, sessions, port, dead, relayPipeVars>>

Broken(a) == a \in dead \/ conn[a] = "closed"

\* runTarget returns when the multiplexer is done, runSource when a local
\* connection finds it closed
MuxDone(a) ==
    /\ AttemptAt(a, "up") /\ Broken(a)
    /\ att' = Moved(a, "exit")
    /\ UNCHANGED <<envVars, sessions, port, dead, relayPipeVars>>

\* Mutated form of PortAfter: the listener is not closed.
PortKept(a) == port
PortAfter(a) == IF port = a THEN 0 ELSE port

\* the deferred calls: the listener is closed, and cleanupSession removes and
\* cancels whatever session has the ID in the attempt's manager
CleanupSession(a) ==
    /\ AttemptAt(a, "exit")
    /\ LET r == att[a].role
           hit == IF att[a].old THEN 0 ELSE sessions[r]
       IN /\ att' = [b \in DOMAIN att |->
                        IF b = a THEN [att[a] EXCEPT !.pc = "ended", !.live = FALSE,
                                                     !.old = TRUE]
                        ELSE IF b = hit THEN [att[b] EXCEPT !.live = FALSE]
                        ELSE att[b]]
          /\ sessions' = IF hit = 0 THEN sessions
                         ELSE [sessions EXCEPT ![r] = 0]
    /\ port' = PortAfter(a)
    /\ UNCHANGED <<envVars, dead, relayPipeVars>>

-----------------------------------------------------------------------------
(* The rest of HandleRelay, and relayWSPipe.                               *)

\* relayWSPipe starts: one goroutine reads from each connection
RelayPipeStarts(a) ==
    /\ conn[a] = "wait" /\ handed[a] # 0
    /\ LET b == handed[a]
       IN /\ conn' = [conn EXCEPT ![a] = "piped", ![b] = "piped"]
          /\ copying' = copying \cup {a, b}
          /\ peer' = [peer EXCEPT ![a] = b, ![b] = a]
          /\ handed' = [handed EXCEPT ![a] = 0]
    /\ UNCHANGED <<envVars, attemptVars, dead, relayPending, stolen>>

\* the 60 seconds are over: select may take this case though a connection is
\* in the channel
WaitTimesOut(a) ==
    /\ conn[a] = "wait"
    /\ conn' = [conn EXCEPT ![a] = "timeout"]
    /\ UNCHANGED <<envVars, attemptVars, dead, relayPending, handed, copying, peer,
                   stolen>>

\* the entry under the ID is deleted, whoever waits there now
TimeoutDeletes(a) ==
    /\ conn[a] = "timeout"
    /\ relayPending' = 0
    /\ stolen' = stolen \cup ({relayPending} \ {0, a})
    /\ conn' = [conn EXCEPT ![a] = "closed"] /\ dead' = dead \ {a}
    /\ UNCHANGED <<envVars, attemptVars, handed, copying, peer>>

\* a copying goroutine ends: it cannot read from a, or data of a cannot be
\* written to its peer
CopyEnds(a) ==
    /\ a \in copying
    /\ \/ a \in dead
       \/ peer[a] \in dead /\ AttemptAt(a, "up")
    /\ copying' = copying \ {a}
    /\ UNCHANGED <<envVars, attemptVars, dead, conn, relayPending, handed, peer,
                   stolen>>

\* after both have ended relayWSPipe closes both connections
RelayPipeEnds(a) ==
    /\ conn[a] = "piped" /\ copying \cap {a, peer[a]} = {}
    /\ conn' = [conn EXCEPT ![a] = "closed", ![peer[a]] = "closed"]
    /\ peer' = [peer EXCEPT ![a] = 0, ![peer[a]] = 0]
    /\ dead' = dead \ {a, peer[a]}
    /\ UNCHANGED <<envVars, attemptVars, relayPending, handed, copying, stolen>>

-----------------------------------------------------------------------------

AttemptStep(a) ==
    \/ RelayDialled(a)
    \/ RelayDialFails(a)
    \/ ContextDone(a)
    \/ CleanupSession(a)

ServerStep(a) ==
    \/ RelayPipeStarts(a)
    \/ TimeoutDeletes(a)
    \/ RelayPipeEnds(a)

RelayNext ==
    \/ Create
    \/ Delete
    \/ \E r \in Roles : Signal(r) \/ LoseControl(r) \/ Reconnect(r)
    \/ \E a \in Attempts : AttemptStep(a) \/ MuxDone(a)
    \/ \E a \in Attempts : ServerStep(a) \/ WaitTimesOut(a) \/ CopyEnds(a)
    \/ \E a \in Attempts : ConnectionDies(a)

RelaySpec == RelayInit /\ [][RelayNext]_relayVars

\* Every goroutine that can run runs, every dial and every wait has a time
\* limit, and a reader notices a closed connection.  No user need ever come,
\* so MuxDone of a source and a write to a dead peer need not happen.
RelayFairSpec ==
    /\ RelaySpec
    /\ \A a \in Attempts :
        /\ WF_relayVars(AttemptStep(a)) /\ WF_relayVars(ServerStep(a))
        /\ WF_relayVars(WaitTimesOut(a))
        /\ WF_relayVars(a \in dead /\ CopyEnds(a))
        /\ WF_relayVars(a \in DOMAIN att /\ att[a].role = "target" /\ MuxDone(a))

-----------------------------------------------------------------------------
(* Properties.                                                             *)

Waiting == {a \in Attempts : conn[a] = "wait" /\ handed[a] = 0}

\* The books of HandleRelay: a pipe joins two connections and each with the
\* other only; a connection is put in one channel at most; the entry names a
\* connection that still waits or is about to delete it.
PairingSound ==
    /\ \A a \in Attempts : peer[a] # 0 => peer[peer[a]] = a /\ peer[a] # a
    /\ \A a, b \in Attempts :
        a # b /\ handed[a] # 0 => handed[a] # handed[b] /\ peer[handed[a]] = 0
    /\ relayPending # 0 => /\ conn[relayPending] \in {"wait", "timeout"}
                           /\ handed[relayPending] = 0

\* A connection that waits is the one the next arrival meets, unless its
\* entry was deleted by the timeout of an earlier wait (HandleRelay deletes
\* the entry of the session, not its own): two ends never wait side by side
\* for any other reason.
NoMissedMeeting == Waiting \subseteq {relayPending} \cup stolen

\* A session has one attempt in charge: an attempt that listens or dials is
\* the one in the manager's map, or a later signal has replaced it there, or
\* its context is cancelled.
InCharge ==
    \A a \in DOMAIN att :
        (att[a].live /\ att[a].pc # "ended")
          => \/ sessions[att[a].role] = a
             \/ \E b \in DOMAIN att : b > a /\ att[b].role = att[a].role

\* What the other variables say of a connection in each state of the server's
\* side: nothing before the dial, a channel only while it waits or has waited,
\* in a channel only until the pipe starts, a partner exactly in a pipe.
PipesInStep ==
    \A a \in Attempts :
        /\ a \notin DOMAIN att \/ AttemptAt(a, "dial") => conn[a] = "none"
        /\ handed[a] # 0 => /\ conn[a] \in {"wait", "timeout", "closed"}
                            /\ conn[handed[a]] = "handed"
        /\ peer[a] # 0 <=> conn[a] = "piped"

\* The types, the books of HandleRelay (session/server.go:961) and one attempt
\* in charge of a session at each node (handler/relay.go), across signals that
\* repeat, lost control connections and deferred clean-ups.
RelayInv == RelayTypeOK /\ PairingSound /\ InCharge /\ PipesInStep

\* A node that lost its control connection gives the source port back, so
\* that the attempt after the reconnection can have it; and a connection that
\* HandleRelay accepted is piped, closed or lies in the channel of a wait that
\* timed out.
Settled(a) ==
    \/ conn[a] \in {"piped", "closed"}
    \/ \E w \in Attempts : handed[w] = a /\ conn[w] \in {"timeout", "closed"}

RelaySettles ==
    \A a \in Attempts :
        /\ (a \in DOMAIN att /\ ~att[a].live) ~> (AttemptAt(a, "ended") /\ port # a)
        /\ (conn[a] # "none") ~> Settled(a)

\* What the comment of HandleRelay says: the source end and the target end
\* are paired.
BothRolesPaired ==
    \A a \in DOMAIN att :
        conn[a] = "piped" => att[a].role # att[peer[a]].role
=============================================================================

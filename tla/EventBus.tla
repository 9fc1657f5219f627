------------------------------ MODULE EventBus ------------------------------
(***************************************************************************)
(* The event bus of the server (BBgrid_Server/runtime/eventbus.go).        *)
(*                                                                         *)
(* Publish is not one atomic step: it takes b.mu to draw a sequence number *)
(* and look at the subscribers, releases it, takes b.queueMu to find or    *)
(* make the channel of the resource type, releases it, and then does a     *)
(* non-blocking send.  One worker goroutine per channel calls the handlers *)
(* of its type one after the other.  Close runs concurrently with all of   *)
(* them.  Every lock-protected section is one action.                      *)
(*                                                                         *)
(* An event is identified by its sequence number, a channel by the         *)
(* sequence number of the event whose Publish made it.  Handlers are       *)
(* identified by their code pointer, which is what Unsubscribe compares.   *)
(***************************************************************************)
EXTENDS Naturals, Sequences

CONSTANTS
    Publishers,     \* goroutines that call Publish
    Types,          \* resource types
    Handlers,       \* event handlers
    InitialSubs,    \* [Types -> Seq(Handlers)]: subscribed before the start
    LateSubs,       \* <<type, handler>>: come and go while the bus runs
    QueueCap,       \* capacity of a channel: 256 in the code
    MaxSeq          \* bound: number of sequence numbers drawn

ASSUME BusAssumption ==
    /\ Types # {}
    /\ InitialSubs \in [Types -> Seq(Handlers)]
    /\ LateSubs \subseteq Types \X Handlers
    /\ QueueCap \in Nat \ {0}
    /\ MaxSeq \in Nat

(* A handler stands for one subscription: the core, the session layer and  *)
(* the plugins each subscribe a function of their own, the persist plugin  *)
(* one closure per type.                                                   *)
ASSUME SubsAssumption ==
    /\ \A t, u \in Types :
         \A i \in DOMAIN InitialSubs[t], j \in DOMAIN InitialSubs[u] :
             InitialSubs[t][i] = InitialSubs[u][j] => t = u /\ i = j
    /\ \A t, u \in Types : \A i \in DOMAIN InitialSubs[t], h \in Handlers :
         <<u, h>> \in LateSubs => h # InitialSubs[t][i]

VARIABLES
    closed,     \* b.closed
    stopped,    \* b.stopped
    seq,        \* b.seq
    typeSubs,   \* b.typeSubs: the handlers of a type, in subscription order
    hasKey,     \* the types that are keys of the map b.typeSubs
    queues,     \* b.queues: the channel of a type, 0 when there is none
    buf,        \* the contents of a channel
    chClosed,   \* the channels that are closed
    made,       \* the channels ever made for a type, each with its worker
    wpc,        \* where the worker of a channel is
    wev,        \* the event it holds
    wtodo,      \* the handlers it has still to call for that event
    pub,        \* the local state of a Publish call
    closer,     \* where Close is
    accepted,   \* history: the events that entered the channels of a type
    received,   \* history: the events the workers of a type took out
    delivered   \* history: the events each handler was called with

busVars == <<closed, stopped, seq, typeSubs, hasKey, queues>>
chanVars == <<buf, chClosed, made>>
workerVars == <<wpc, wev, wtodo>>
history == <<accepted, received, delivered>>
vars == <<busVars, chanVars, workerVars, pub, closer, history>>

Seqs == 1..MaxSeq
AnyType == CHOOSE t \in Types : TRUE
PubState == [pc : {"idle", "lookup", "send"}, type : Types,
             ev : 0..MaxSeq, ch : 0..MaxSeq]
NotPublishing == [pc |-> "idle", type |-> AnyType, ev |-> 0, ch |-> 0]

TypeOK ==
    /\ closed \in BOOLEAN
    /\ stopped \in BOOLEAN
    /\ seq \in 0..MaxSeq
    /\ typeSubs \in [Types -> Seq(Handlers)]
    /\ hasKey \subseteq Types
    /\ queues \in [Types -> 0..MaxSeq]
    /\ buf \in [Seqs -> Seq(Seqs)]
    /\ \A c \in Seqs : Len(buf[c]) <= QueueCap
    /\ chClosed \subseteq Seqs
    /\ made \in [Types -> SUBSET Seqs]
    /\ wpc \in [Seqs -> {"none", "receive", "copy", "call", "exit"}]
    /\ wev \in [Seqs -> 0..MaxSeq]
    /\ wtodo \in [Seqs -> Seq(Handlers)]
    /\ pub \in [Publishers -> PubState]
    /\ closer \in {"open", "stop", "queues", "wait", "done"}
    /\ accepted \in [Types -> Seq(Seqs)]
    /\ received \in [Types -> Seq(Seqs)]
    /\ delivered \in [Handlers -> Seq(Seqs)]

Init ==
    /\ closed = FALSE
    /\ stopped = FALSE
    /\ seq = 0
    /\ typeSubs = InitialSubs
    /\ hasKey = {t \in Types : InitialSubs[t] # <<>>}
    /\ queues = [t \in Types |-> 0]
    /\ buf = [i \in Seqs |-> <<>>]
    /\ chClosed = {}
    /\ made = [t \in Types |-> {}]
    /\ wpc = [i \in Seqs |-> "none"]
    /\ wev = [i \in Seqs |-> 0]
    /\ wtodo = [i \in Seqs |-> <<>>]
    /\ pub = [p \in Publishers |-> NotPublishing]
    /\ closer = "open"
    /\ accepted = [t \in Types |-> <<>>]
    /\ received = [t \in Types |-> <<>>]
    /\ delivered = [h \in Handlers |-> <<>>]
-----------------------------------------------------------------------------
(* Publish, first critical section (b.mu): nothing once the bus is closed; *)
(* else a sequence number, and the event is dropped if its type is no key  *)
(* of typeSubs.                                                            *)
PublishBegin(p, t) ==
    /\ pub[p].pc = "idle"
    /\ ~closed
    /\ seq < MaxSeq
    /\ seq' = seq + 1
    /\ pub' = IF t \in hasKey
              THEN [pub EXCEPT ![p] = [pc |-> "lookup", type |-> t,
                                       ev |-> seq + 1, ch |-> 0]]
              ELSE pub
    /\ UNCHANGED <<closed, stopped, typeSubs, hasKey, queues, chanVars,
                   workerVars, closer, history>>

(* Mutated forms of MakesChannel: the check of b.stopped is missing, or    *)
(* the check that the type has a channel already.                          *)
MakesChannelAfterStop(t) == queues[t] = 0
MakesSecondChannel(t) == ~stopped

(* Does a Publish in its second critical section make a channel?  Not when *)
(* the type has one, and not after Close has set b.stopped.                *)
MakesChannel(t) == queues[t] = 0 /\ ~stopped

(* Publish, second critical section (b.queueMu): find the channel of the   *)
(* type or make it and start its worker; give up if there is none and the  *)
(* bus is stopped.                                                         *)
PublishLookup(p) ==
    LET t == pub[p].type
        e == pub[p].ev
    IN  /\ pub[p].pc = "lookup"
        /\ IF MakesChannel(t)
           THEN /\ queues' = [queues EXCEPT ![t] = e]
                /\ made' = [made EXCEPT ![t] = @ \cup {e}]
                /\ wpc' = [wpc EXCEPT ![e] = "receive"]
                /\ pub' = [pub EXCEPT ![p] = [@ EXCEPT !.pc = "send", !.ch = e]]
           ELSE /\ pub' = [pub EXCEPT ![p] =
                             IF queues[t] = 0 THEN NotPublishing
                             ELSE [@ EXCEPT !.pc = "send", !.ch = queues[t]]]
                /\ UNCHANGED <<queues, made, wpc>>
        /\ UNCHANGED <<closed, stopped, seq, typeSubs, hasKey, buf, chClosed,
                       wev, wtodo, closer, history>>

(* Mutated form of SendSucceeds: the queue has no bound.                   *)
SendIgnoresFull(c) == c \notin chClosed

(* Does a non-blocking send on channel c succeed?  On a closed channel it  *)
(* panics and the panic is recovered; on a full one it takes the default.  *)
SendSucceeds(c) == c \notin chClosed /\ Len(buf[c]) < QueueCap

(* Publish, the send: the event enters the channel or is dropped.          *)
PublishSend(p) ==
    LET t == pub[p].type
        c == pub[p].ch
    IN  /\ pub[p].pc = "send"
        /\ IF SendSucceeds(c)
           THEN /\ buf' = [buf EXCEPT ![c] = Append(@, pub[p].ev)]
                /\ accepted' = [accepted EXCEPT ![t] = Append(@, pub[p].ev)]
           ELSE UNCHANGED <<buf, accepted>>
        /\ pub' = [pub EXCEPT ![p] = NotPublishing]
        /\ UNCHANGED <<busVars, chClosed, made, workerVars, closer, received,
                       delivered>>
-----------------------------------------------------------------------------
(* Subscribe appends.  A late handler subscribes once at a time and only   *)
(* while the bus is open, as the callers do.                               *)
Subscribe(t, h) ==
    /\ <<t, h>> \in LateSubs
    /\ \A i \in DOMAIN typeSubs[t] : typeSubs[t][i] # h
    /\ closer = "open"
    /\ typeSubs' = [typeSubs EXCEPT ![t] = Append(@, h)]
    /\ hasKey' = hasKey \cup {t}
    /\ UNCHANGED <<closed, stopped, seq, queues, chanVars, workerVars, pub,
                   closer, history>>

(* Unsubscribe removes the first handler with the same code pointer.  The  *)
(* type stays a key of the map even when its last handler is gone.         *)
Unsubscribe(t, h) ==
    /\ <<t, h>> \in LateSubs
    /\ closer = "open"
    /\ \E i \in DOMAIN typeSubs[t] :
         /\ typeSubs[t][i] = h
         /\ \A j \in 1..(i - 1) : typeSubs[t][j] # h
         /\ typeSubs' = [typeSubs EXCEPT ![t] =
                           SubSeq(@, 1, i - 1) \o SubSeq(@, i + 1, Len(@))]
    /\ UNCHANGED <<closed, stopped, seq, hasKey, queues, chanVars, workerVars,
                   pub, closer, history>>
-----------------------------------------------------------------------------
(* The worker of channel c, made for type t: range over the channel.  The  *)
(* loop ends when the channel is closed and empty.                         *)
WorkerReceive(t, c) ==
    /\ c \in made[t]
    /\ wpc[c] = "receive"
    /\ buf[c] # <<>>
    /\ wev' = [wev EXCEPT ![c] = Head(buf[c])]
    /\ buf' = [buf EXCEPT ![c] = Tail(@)]
    /\ wpc' = [wpc EXCEPT ![c] = "copy"]
    /\ received' = [received EXCEPT ![t] = Append(@, Head(buf[c]))]
    /\ UNCHANGED <<busVars, chClosed, made, wtodo, pub, closer, accepted,
                   delivered>>

(* Mutated form of Drained: the worker returns without draining.           *)
DrainedOnClose(c) == c \in chClosed

(* The range loop of a worker ends when its channel is closed and empty.   *)
Drained(c) == c \in chClosed /\ buf[c] = <<>>

(* The worker returns; its deferred wg.Done is part of the step.           *)
WorkerExit(c) ==
    /\ wpc[c] = "receive"
    /\ Drained(c)
    /\ wpc' = [wpc EXCEPT ![c] = "exit"]
    /\ UNCHANGED <<busVars, chanVars, wev, wtodo, pub, closer, history>>

(* The handlers are copied under b.mu once per event.                      *)
WorkerCopy(t, c) ==
    /\ c \in made[t]
    /\ wpc[c] = "copy"
    /\ wtodo' = [wtodo EXCEPT ![c] = typeSubs[t]]
    /\ wpc' = [wpc EXCEPT ![c] = "call"]
    /\ UNCHANGED <<busVars, chanVars, wev, pub, closer, history>>

(* One handler call; a panic in it is recovered and the loop goes on.      *)
WorkerCall(c) ==
    /\ wpc[c] = "call"
    /\ IF wtodo[c] = <<>>
       THEN /\ wpc' = [wpc EXCEPT ![c] = "receive"]
            /\ wev' = [wev EXCEPT ![c] = 0]
            /\ UNCHANGED <<wtodo, delivered>>
       ELSE /\ delivered' = [delivered EXCEPT ![Head(wtodo[c])] =
                               Append(@, wev[c])]
            /\ wtodo' = [wtodo EXCEPT ![c] = Tail(@)]
            /\ UNCHANGED <<wpc, wev>>
    /\ UNCHANGED <<busVars, chanVars, pub, closer, accepted, received>>
-----------------------------------------------------------------------------
(* Close, one action per critical section: b.closed is set under b.mu ...  *)
CloseMark ==
    /\ closer = "open"
    /\ closed' = TRUE
    /\ closer' = "stop"
    /\ UNCHANGED <<stopped, seq, typeSubs, hasKey, queues, chanVars,
                   workerVars, pub, history>>

(* ... b.stopped is set ...                                                *)
CloseStop ==
    /\ closer = "stop"
    /\ stopped' = TRUE
    /\ closer' = "queues"
    /\ UNCHANGED <<closed, seq, typeSubs, hasKey, queues, chanVars,
                   workerVars, pub, history>>

(* The open channels: the ones the map holds.                              *)
OpenChannels == {queues[t] : t \in Types} \ {0}

(* Close closes every channel and forgets them, under b.queueMu.           *)
CloseQueues ==
    /\ closer = "queues"
    /\ chClosed' = chClosed \cup OpenChannels
    /\ queues' = [t \in Types |-> 0]
    /\ closer' = "wait"
    /\ UNCHANGED <<closed, stopped, seq, typeSubs, hasKey, buf, made,
                   workerVars, pub, history>>

(* Mutated form of WorkersDone: Close does not wait for the workers.       *)
NoWait == TRUE

(* b.wg: every worker ever started has returned.                           *)
WorkersDone == \A c \in Seqs : wpc[c] \in {"none", "exit"}

(* wg.Wait, then the subscriptions are cleared.                            *)
CloseClear ==
    /\ closer = "wait"
    /\ WorkersDone
    /\ typeSubs' = [t \in Types |-> <<>>]
    /\ hasKey' = {}
    /\ closer' = "done"
    /\ UNCHANGED <<closed, stopped, seq, queues, chanVars, workerVars, pub,
                   history>>
-----------------------------------------------------------------------------
Publish(p) ==
    \/ \E t \in Types : PublishBegin(p, t)
    \/ PublishLookup(p)
    \/ PublishSend(p)

Worker(c) ==
    \/ \E t \in Types : WorkerReceive(t, c) \/ WorkerCopy(t, c)
    \/ WorkerCall(c)
    \/ WorkerExit(c)

Close == CloseMark \/ CloseStop \/ CloseQueues \/ CloseClear

Next ==
    \/ \E p \in Publishers : Publish(p)
    \/ \E t \in Types, h \in Handlers : Subscribe(t, h) \/ Unsubscribe(t, h)
    \/ \E c \in Seqs : Worker(c)
    \/ Close

(* The Go scheduler runs every goroutine that can run: a worker with work, *)
(* a Publish that has begun, a Close that has begun.  Nothing forces a     *)
(* Publish or a Close to begin.                                            *)
Fairness ==
    /\ \A c \in Seqs : WF_vars(Worker(c))
    /\ \A p \in Publishers : WF_vars(PublishLookup(p) \/ PublishSend(p))
    /\ WF_vars(CloseStop \/ CloseQueues \/ CloseClear)

Spec == Init /\ [][Next]_vars
FairSpec == Spec /\ Fairness
-----------------------------------------------------------------------------
(* Handlers of one resource type never run concurrently: a type has at     *)
(* most one worker, whatever publishers race in the find-or-make section   *)
(* (eventbus.go:64-77).  StateStore.Apply and the plugins rely on it.      *)
OneWorkerPerType ==
    \A t \in Types : \A c, d \in made[t] : c = d

(* A channel loses, duplicates and reorders nothing: what the worker of a  *)
(* type has taken, followed by what is left in the channel, is what was    *)
(* accepted, across a concurrent Close too (eventbus.go:154-167).          *)
NothingLost ==
    \A t \in Types : \A c \in made[t] :
        received[t] \o buf[c] = accepted[t]

(* When Close has cleared the subscriptions, no worker is left, none can   *)
(* be started by a Publish still in flight, and every accepted event has   *)
(* been taken and its handlers called (eventbus.go:169-174).               *)
ClosedIsDrained ==
    closer = "done" =>
        /\ \A t \in Types : queues[t] = 0 /\ received[t] = accepted[t]
        /\ \A c \in Seqs : wpc[c] \in {"none", "exit"}

(* Handlers see an event in subscription order, and a handler is never     *)
(* more than the current event behind one subscribed before it: the core   *)
(* has applied an event before the session layer acts on it.               *)
SubscriptionOrder ==
    \A t \in Types :
        \A i, j \in DOMAIN InitialSubs[t] :
            LET a == delivered[InitialSubs[t][i]]
                b == delivered[InitialSubs[t][j]]
            IN  i < j => /\ Len(b) <= Len(a)
                         /\ Len(a) <= Len(b) + 1
                         /\ b = SubSeq(a, 1, Len(b))

(* Close sets b.closed, then b.stopped, and then takes the channels out.   *)
ClosePhases ==
    /\ closed <=> closer # "open"
    /\ stopped <=> closer \in {"queues", "wait", "done"}
    /\ closer \in {"wait", "done"} => \A t \in Types : queues[t] = 0

(* Sequence numbers in flight are distinct, and no channel is named by the *)
(* number of a Publish that has yet to look the channel up.                *)
PublishesDistinct ==
    /\ \A p \in Publishers : pub[p].pc # "idle" => pub[p].ev \in 1..seq
    /\ \A p, q \in Publishers :
         pub[p].pc # "idle" /\ pub[q].pc # "idle" /\ pub[p].ev = pub[q].ev => p = q
    /\ \A t \in Types : \A c \in made[t] :
         c <= seq /\ \A p \in Publishers : pub[p].pc = "lookup" => pub[p].ev # c

(* A channel belongs to one type and stays in the map until Close; a       *)
(* Publish sends on a channel of its type.                                 *)
ChannelsInMap ==
    /\ \A t \in Types : queues[t] # 0 => queues[t] \in made[t]
    /\ \A t \in Types : queues[t] = 0 =>
         made[t] = {} \/ closer \in {"wait", "done"}
    /\ \A t, u \in Types : \A c \in made[t] : c \in made[u] => t = u
    /\ \A p \in Publishers : pub[p].pc = "send" => pub[p].ch \in made[pub[p].type]

(* A channel has a worker from its making on, which returns only when the  *)
(* channel is closed and empty; what was never made holds nothing.         *)
WorkersInStep ==
    /\ \A c \in Seqs : wpc[c] = "none" <=> \A t \in Types : c \notin made[t]
    /\ \A c \in Seqs : wpc[c] = "none" => buf[c] = <<>>
    /\ \A c \in Seqs : wpc[c] = "exit" => c \in chClosed /\ buf[c] = <<>>
    /\ \A c \in Seqs : wpc[c] \in {"copy", "call"} => wev[c] \in Seqs
    /\ \A t \in Types : made[t] = {} => accepted[t] = <<>> /\ received[t] = <<>>
    /\ closer = "done" => \A c \in Seqs : wpc[c] \in {"none", "exit"}

(* Is h a handler that is subscribed from the start?                       *)
IsInitial(h) ==
    \E t \in Types : \E i \in DOMAIN InitialSubs[t] : h = InitialSubs[t][i]

(* s holds the handlers of type t subscribed from the start but the first  *)
(* k of them, in order, and then only later ones.                          *)
InitialsFirst(t, s, k) ==
    /\ Len(InitialSubs[t]) - k <= Len(s)
    /\ \A i \in 1..(Len(InitialSubs[t]) - k) : s[i] = InitialSubs[t][k + i]
    /\ \A i \in DOMAIN s : i > Len(InitialSubs[t]) - k => ~IsInitial(s[i])

(* The first k handlers of type t were called with everything its worker   *)
(* took out of the channel, the others with all but the event e.           *)
CalledUpTo(t, k, e) ==
    \A i \in DOMAIN InitialSubs[t] :
        IF i <= k THEN delivered[InitialSubs[t][i]] = received[t]
        ELSE received[t] = Append(delivered[InitialSubs[t][i]], e)

(* Why SubscriptionOrder holds: Subscribe appends and Unsubscribe takes    *)
(* away only what came late, so every copy of the handlers a worker goes   *)
(* through begins with the ones subscribed from the start, and the worker  *)
(* has called the first k of those with its event (eventbus.go:123-147).   *)
DeliveryInStep ==
    /\ closer # "done" => \A t \in Types : InitialsFirst(t, typeSubs[t], 0)
    /\ \A t \in Types : made[t] = {} =>
         \A i \in DOMAIN InitialSubs[t] : delivered[InitialSubs[t][i]] = <<>>
    /\ \A t \in Types : \A c \in made[t] :
         /\ wpc[c] \in {"receive", "exit"} =>
              \A i \in DOMAIN InitialSubs[t] : delivered[InitialSubs[t][i]] = received[t]
         /\ wpc[c] = "copy" => CalledUpTo(t, 0, wev[c])
         /\ wpc[c] = "call" =>
              \E k \in 0..Len(InitialSubs[t]) :
                 InitialsFirst(t, wtodo[c], k) /\ CalledUpTo(t, k, wev[c])

(* Why OneWorkerPerType, NothingLost, ClosedIsDrained and                  *)
(* SubscriptionOrder hold at every step, whatever Publish, the workers and *)
(* Close interleave (eventbus.go:41-174).                                  *)
BusInv ==
    /\ TypeOK
    /\ ClosePhases
    /\ PublishesDistinct
    /\ ChannelsInMap
    /\ OneWorkerPerType
    /\ WorkersInStep
    /\ NothingLost
    /\ DeliveryInStep

(* Every accepted event reaches every handler subscribed from the start,   *)
(* even if Close begins in between: Close drains (eventbus.go:168).        *)
AcceptedIsDelivered ==
    \A t \in Types : \A e \in Seqs : \A i \in DOMAIN InitialSubs[t] :
        (\E k \in DOMAIN accepted[t] : accepted[t][k] = e)
            ~> (\E k \in DOMAIN delivered[InitialSubs[t][i]] :
                    delivered[InitialSubs[t][i]][k] = e)

(* Close returns: no lock is held and no worker waits for ever.            *)
CloseReturns == (closer = "stop") ~> (closer = "done")

(* The comment of Publish (eventbus.go:40): events of one resource type    *)
(* are handled in the order of their sequence numbers.                     *)
SequenceOrder ==
    \A t \in Types : \A i, j \in DOMAIN received[t] :
        i < j => received[t][i] < received[t][j]
=============================================================================

-------------------------------- MODULE Mux --------------------------------
(***************************************************************************)
(* The multiplexer of src/common/mux/mux.go: two multiplexers at the ends  *)
(* of one connection, each with a write loop, a read loop and a pool of    *)
(* workers, and the goroutines that send on and read from their channels.  *)
(* A frame carries a message, whose content is left out and whose length   *)
(* is Size[m], or an amount of window.                                     *)
(***************************************************************************)
EXTENDS Integers, Sequences, FiniteSets, FiniteSetsExt

CONSTANTS
    Ends,         \* the two ends of the connection
    Creators,     \* ends whose OnNewChannel is set
    Ports,        \* channel numbers
    Senders,      \* goroutines that call Send
    At,           \* the end of a sender
    PortOf,       \* the port a sender writes to
    WorkerCount,  \* WorkerCount[e]: worker goroutines of an end (workerCount)
    Size,         \* the length of message m \in 1..MaxMessages
    Window,       \* windowSize
    Threshold,    \* windowThreshold
    QueueCap,     \* capacity of sendQueue
    InboxCap,     \* capacity of DataChan
    CtrlCap,      \* capacity of ctrlChan
    MaxMessages,  \* bound: messages offered to Send
    MaxChannels,  \* bound: channels ever created
    Closers,      \* ends whose user closes a channel or the multiplexer
    MaxCloses     \* bound: calls of CloseChannel and Close

\* A window that is never refilled below the threshold must still hold the
\* largest message, or its sender waits for an update that is not sent.
ASSUME WindowAssumption ==
    /\ Window \in Nat /\ Threshold \in Nat \ {0}
    /\ Size \in [1..MaxMessages -> 1..Window]
    /\ \A m \in 1..MaxMessages : Threshold - 1 + Size[m] <= Window
\* In src/ one end opens the channels and the other one has OnNewChannel.
ASSUME EndsAssumption ==
    /\ IsFiniteSet(Ends) /\ Cardinality(Ends) = 2
    /\ Creators \subseteq Ends /\ Creators # {} /\ Closers \subseteq Ends
    /\ IsFiniteSet(Senders)
    /\ At \in [Senders -> Ends] /\ PortOf \in [Senders -> Ports]
    /\ MaxMessages \in Nat \ {0} /\ MaxChannels \in Nat /\ MaxCloses \in Nat

Messages == 1..MaxMessages
Frames == Messages \cup 1..MaxCloses  \* numbers of data and of close frames
Peer(e) == CHOOSE f \in Ends : f # e
Idle == [pc |-> "idle", ch |-> 0, msg |-> 0]

VARIABLES
    up,       \* up[e]: Close was not called (closed, closeChan)
    reading,  \* reading[e]: the read loop runs
    table,    \* table[e][p]: the channel under port p, or 0 (channels)
    chan,     \* the channels created so far
    ctrl,     \* ctrl[e]: queue of control frames (ctrlChan)
    notify,   \* notify[e]: a wake-up is pending (writeNotify)
    writer,   \* writer[e]: where the write loop is
    wire,     \* wire[e]: frames on their way to the workers of e (workChan)
    held,     \* held[e]: frames the workers have taken, with their channels
    sender,   \* where each call of Send is
    sent,     \* messages that Send accepted
    got,      \* messages in the order readers took them
    offered,  \* messages handed to Send
    closes,   \* calls of CloseChannel and Close
    ended     \* a channel or the connection was closed

vars == <<up, reading, table, chan, ctrl, notify, writer, wire, held,
          sender, sent, got, offered, closes, ended>>
senderVars == <<sender, sent, offered>>
historyVars == <<got, closes, ended>>

Data(p, m) == [port |-> p, type |-> "data", n |-> m]
CloseFrame(p, k) == [port |-> p, type |-> "close", n |-> k]
Update(p, n) == [port |-> p, type |-> "window", n |-> n]

NewChannel(e, p) ==
    [at |-> e, port |-> p, queue |-> <<>>, window |-> Window, inbox |-> <<>>,
     shut |-> FALSE, pending |-> 0, read |-> 0]
Created == Len(chan)
Started == [pc |-> "empty", todo |-> {}, progress |-> FALSE]

Init ==
    /\ up = [e \in Ends |-> TRUE]
    /\ reading = [e \in Ends |-> TRUE]
    /\ table = [e \in Ends |-> [p \in Ports |-> 0]]
    /\ chan = <<>>
    /\ ctrl = [e \in Ends |-> <<>>]
    /\ notify = [e \in Ends |-> FALSE]
    /\ writer = [e \in Ends |-> Started]
    /\ wire = [e \in Ends |-> <<>>]
    /\ held = [e \in Ends |-> {}]
    /\ sender = [s \in Senders |-> Idle]
    /\ sent = {}
    /\ got = <<>>
    /\ offered = 0
    /\ closes = 0
    /\ ended = FALSE

-----------------------------------------------------------------------------
(* Channels *)

\* The connection takes a frame; if the other end has closed it, the frame
\* goes nowhere.
Written(e, f) == [wire EXCEPT ![Peer(e)] = IF up[Peer(e)] THEN Append(@, f) ELSE @]

\* enqueueCtrl: after the frame is queued the write loop is notified.
EnqueueCtrl(e, f) ==
    /\ Len(ctrl[e]) < CtrlCap
    /\ ctrl' = [ctrl EXCEPT ![e] = Append(@, f)]
    /\ notify' = [notify EXCEPT ![e] = TRUE]

\* The OPEN frame is left out: no receiver does anything with it.
OpenChannel(e, p) ==
    /\ up[e] /\ table[e][p] = 0
    /\ Created < MaxChannels
    /\ chan' = Append(chan, NewChannel(e, p))
    /\ table' = [table EXCEPT ![e][p] = Created + 1]
    /\ UNCHANGED <<up, reading, ctrl, notify, writer, wire, held, senderVars, historyVars>>

\* CloseChannel only queues the frame; HandleChannel calls it twice, so it
\* may find the channel gone.
CloseChannel(e, p) ==
    /\ up[e] /\ closes < MaxCloses
    /\ \E c \in 1..Created : chan[c].at = e /\ chan[c].port = p
    /\ EnqueueCtrl(e, CloseFrame(p, closes + 1))
    /\ closes' = closes + 1
    /\ ended' = TRUE
    /\ UNCHANGED <<up, reading, table, chan, writer, wire, held,
                   senderVars, got>>

\* closeChannelLocal: the channel leaves the table, its queued frames are
\* thrown away and its CloseChan is closed.
CloseLocal(e, p) ==
    LET c == table[e][p] IN
    /\ table' = [table EXCEPT ![e][p] = 0]
    /\ chan' = IF c = 0 THEN chan
               ELSE [chan EXCEPT ![c].queue = <<>>, ![c].shut = TRUE]

\* Close, called by the owner or after a failed read or write: what is on its
\* way to this end is not read any more.
Close(e) ==
    /\ up[e] /\ closes < MaxCloses
    /\ up' = [up EXCEPT ![e] = FALSE]
    /\ closes' = closes + 1
    /\ ended' = TRUE
    /\ wire' = [wire EXCEPT ![e] = <<>>]
    /\ UNCHANGED <<reading, table, chan, ctrl, notify, writer, held,
                   senderVars, got>>

-----------------------------------------------------------------------------
(* Send *)

Send(s) ==
    LET e == At[s]  c == table[e][PortOf[s]]  m == offered + 1 IN
    /\ sender[s].pc = "idle" /\ up[e] /\ c # 0
    /\ m <= MaxMessages
    /\ offered' = m
    /\ sender' = [sender EXCEPT ![s] = [pc |-> "window", ch |-> c, msg |-> m]]
    /\ UNCHANGED <<up, reading, table, chan, ctrl, notify, writer, wire,
                   held, sent, historyVars>>

\* The loop that waits for window only compares: the subtraction is a second
\* atomic operation.
SendSeesWindow(s) ==
    /\ sender[s].pc = "window"
    /\ chan[sender[s].ch].window >= Size[sender[s].msg]
    /\ sender' = [sender EXCEPT ![s].pc = "take"]
    /\ UNCHANGED <<up, reading, table, chan, ctrl, notify, writer, wire,
                   held, sent, offered, historyVars>>

SendTakesWindow(s) ==
    /\ sender[s].pc = "take"
    /\ chan' = [chan EXCEPT ![sender[s].ch].window = @ - Size[sender[s].msg]]
    /\ sender' = [sender EXCEPT ![s].pc = "enqueue"]
    /\ UNCHANGED <<up, reading, table, ctrl, notify, writer, wire,
                   held, sent, offered, historyVars>>

SendEnqueues(s) ==
    LET c == sender[s].ch  m == sender[s].msg IN
    /\ sender[s].pc = "enqueue"
    /\ Len(chan[c].queue) < QueueCap
    /\ chan' = [chan EXCEPT ![c].queue = Append(@, m)]
    /\ sent' = sent \cup {m}
    /\ sender' = [sender EXCEPT ![s].pc = "notify"]
    /\ UNCHANGED <<up, reading, table, ctrl, notify, writer, wire,
                   held, offered, historyVars>>

\* Mutated form of Woken: the token is not put into writeNotify.
NotWoken(e) == notify
\* The single token of writeNotify; a second one is dropped.
Woken(e) == [notify EXCEPT ![e] = TRUE]

SendNotifies(s) ==
    /\ sender[s].pc = "notify"
    /\ notify' = Woken(At[s])
    /\ sender' = [sender EXCEPT ![s] = Idle]
    /\ UNCHANGED <<up, reading, table, chan, ctrl, writer, wire,
                   held, sent, offered, historyVars>>

\* Send gives up when the channel or the multiplexer closes while it waits
\* for window or for room in the queue.
SendFails(s) ==
    /\ sender[s].pc \in {"window", "enqueue"}
    /\ chan[sender[s].ch].shut \/ ~up[At[s]]
    /\ sender' = [sender EXCEPT ![s] = Idle]
    /\ UNCHANGED <<up, reading, table, chan, ctrl, notify, writer, wire,
                   held, sent, offered, historyVars>>

-----------------------------------------------------------------------------
(* writeLoop *)

\* What the control queue still holds is never written.
WriterStops(e) ==
    /\ writer[e].pc \in {"round", "wait", "empty"} /\ ~up[e]
    /\ writer' = [writer EXCEPT ![e] = [pc |-> "stopped", todo |-> {}, progress |-> FALSE]]
    /\ ctrl' = [ctrl EXCEPT ![e] = <<>>]
    /\ UNCHANGED <<up, reading, table, chan, notify, wire, held,
                   senderVars, historyVars>>

\* One control frame, if there is one, goes before the data; after a close
\* frame the channel is cleaned up.  Then the loop copies the table.  Without
\* a channel and a frame it waits with a timer, so a round may follow at any
\* time.
WriterRound(e) ==
    LET open == {table'[e][p] : p \in Ports} \ {0} IN
    /\ writer[e].pc \in {"round", "empty"} /\ up[e]
    /\ IF ctrl[e] = <<>>
       THEN UNCHANGED <<ctrl, wire, table, chan>>
       ELSE LET f == Head(ctrl[e]) IN
            /\ ctrl' = [ctrl EXCEPT ![e] = Tail(@)]
            /\ wire' = Written(e, f)
            /\ CloseLocal(e, f.port)
    /\ writer' = [writer EXCEPT ![e] =
                    [pc |-> IF open # {} THEN "data"
                            ELSE IF ctrl[e] # <<>> THEN "round" ELSE "empty",
                     todo |-> open, progress |-> ctrl[e] # <<>>]]
    /\ UNCHANGED <<up, reading, notify, held, senderVars, historyVars>>

\* At most one frame of every channel in a round; a round without any frame
\* is followed by a wait.
WriterData(e, c) ==
    LET todo == writer[e].todo \ {c}
        progress == writer[e].progress \/ chan[c].queue # <<>> IN
    /\ writer[e].pc = "data" /\ c \in writer[e].todo
    /\ writer' = [writer EXCEPT ![e] =
                    [pc |-> IF todo # {} THEN "data" ELSE IF progress THEN "round" ELSE "wait",
                     todo |-> todo, progress |-> progress]]
    /\ IF chan[c].queue = <<>>
       THEN UNCHANGED <<chan, wire>>
       ELSE /\ chan' = [chan EXCEPT ![c].queue = Tail(@)]
            /\ wire' = Written(e, Data(chan[c].port, Head(chan[c].queue)))
    /\ UNCHANGED <<up, reading, table, ctrl, notify, held, senderVars, historyVars>>

WriterWakes(e) ==
    /\ writer[e].pc \in {"wait", "empty"} /\ notify[e]
    /\ notify' = [notify EXCEPT ![e] = FALSE]
    /\ writer' = [writer EXCEPT ![e].pc = "round"]
    /\ UNCHANGED <<up, reading, table, chan, ctrl, wire, held,
                   senderVars, historyVars>>

\* A control frame that arrives while the loop waits is written, but a close
\* frame does not clean up its channel here.
WriterWaitCtrl(e) ==
    /\ writer[e].pc \in {"wait", "empty"} /\ ctrl[e] # <<>>
    /\ ctrl' = [ctrl EXCEPT ![e] = Tail(@)]
    /\ wire' = Written(e, Head(ctrl[e]))
    /\ writer' = [writer EXCEPT ![e].pc = "round"]
    /\ UNCHANGED <<up, reading, table, chan, notify, held,
                   senderVars, historyVars>>

Writer(e) ==
    \/ WriterStops(e) \/ WriterRound(e)
    \/ (\E c \in 1..Created : WriterData(e, c))
    \/ WriterWakes(e) \/ WriterWaitCtrl(e)

-----------------------------------------------------------------------------
(* readLoop and its workers *)

\* The read loop ends with the connection: it closes every channel and then
\* the multiplexer.  The frames in the queues stay where they are.
ReadEnds(e) ==
    LET open == {table[e][p] : p \in Ports} \ {0} IN
    /\ reading[e]
    /\ ~up[e] \/ (~up[Peer(e)] /\ wire[e] = <<>>)
    /\ reading' = [reading EXCEPT ![e] = FALSE]
    /\ chan' = [c \in DOMAIN chan |->
                   IF c \in open THEN [chan[c] EXCEPT !.shut = TRUE] ELSE chan[c]]
    /\ table' = [table EXCEPT ![e] = [p \in Ports |-> 0]]
    /\ up' = [up EXCEPT ![e] = FALSE]
    /\ UNCHANGED <<ctrl, notify, writer, wire, held, senderVars, historyVars>>

\* The read loop passes the frames on and a free worker takes the oldest; with
\* several workers the frames are then handled in any order.
WorkerTakes(e) ==
    /\ up[e] /\ wire[e] # <<>> /\ Head(wire[e]).type # "window"
    /\ Cardinality(held[e]) < WorkerCount[e]
    /\ held' = [held EXCEPT ![e] = @ \cup {[frame |-> Head(wire[e]), ch |-> 0, fresh |-> FALSE]}]
    /\ wire' = [wire EXCEPT ![e] = Tail(@)]
    /\ UNCHANGED <<up, reading, table, chan, ctrl, notify, writer,
                   senderVars, historyVars>>

HandleWindowUpdate(e) ==
    /\ up[e] /\ wire[e] # <<>> /\ Head(wire[e]).type = "window"
    /\ Cardinality(held[e]) < WorkerCount[e]
    /\ LET c == table[e][Head(wire[e]).port] IN
       chan' = IF c = 0 THEN chan
               ELSE [chan EXCEPT ![c].window = @ + Head(wire[e]).n]
    /\ wire' = [wire EXCEPT ![e] = Tail(@)]
    /\ UNCHANGED <<up, reading, table, ctrl, notify, writer, held,
                   senderVars, historyVars>>

Replaced(e, j, k) == [held EXCEPT ![e] = (@ \ {j}) \cup {k}]
Released(e, j) == [held EXCEPT ![e] = @ \ {j}]

\* dispatchData: the channel is looked up, created where OnNewChannel is set;
\* elsewhere a frame for a closed port is thrown away.
DispatchData(e, j) ==
    LET p == j.frame.port  c == table[e][p] IN
    /\ j.frame.type = "data" /\ j.ch = 0
    /\ \/ /\ c # 0
          /\ held' = Replaced(e, j, [j EXCEPT !.ch = c])
          /\ UNCHANGED <<table, chan>>
       \/ /\ c = 0 /\ e \notin Creators
          /\ held' = Released(e, j)
          /\ UNCHANGED <<table, chan>>
       \/ /\ c = 0 /\ e \in Creators /\ Created < MaxChannels
          /\ chan' = Append(chan, NewChannel(e, p))
          /\ table' = [table EXCEPT ![e][p] = Created + 1]
          /\ held' = Replaced(e, j, [j EXCEPT !.ch = Created + 1, !.fresh = TRUE])
    /\ UNCHANGED <<up, reading, ctrl, notify, writer, wire, senderVars, historyVars>>

\* Mutated form of GivesUp: a full DataChan drops the message.
DropsWhenFull(e, j) == ~up[e] \/ Len(chan[j.ch].inbox) = InboxCap
GivesUp(e, j) == ~up[e] \/ (j.fresh /\ chan[j.ch].shut)

\* The worker blocks while DataChan is full.  Only the worker that created
\* the channel also gives up when the channel closes.
DispatchDelivers(e, j) ==
    /\ j.ch # 0
    /\ \/ /\ Len(chan[j.ch].inbox) < InboxCap
          /\ chan' = [chan EXCEPT ![j.ch].inbox = Append(@, j.frame.n)]
       \/ /\ GivesUp(e, j)
          /\ UNCHANGED chan
    /\ held' = Released(e, j)
    /\ UNCHANGED <<up, reading, table, ctrl, notify, writer, wire,
                   senderVars, historyVars>>

DispatchClose(e, j) ==
    /\ j.frame.type = "close"
    /\ CloseLocal(e, j.frame.port)
    /\ held' = Released(e, j)
    /\ UNCHANGED <<up, reading, ctrl, notify, writer, wire, senderVars, historyVars>>

Dispatch(e, n) ==
    \E j \in held[e] : /\ j.frame.n = n
                       /\ DispatchData(e, j) \/ DispatchDelivers(e, j) \/ DispatchClose(e, j)

-----------------------------------------------------------------------------
(* The reader of a channel: the goroutine of HandleChannel or bridgeChannel *)

\* ReceiveBlocking hands out what is in DataChan even after the close.  The
\* message fits the buffer: both ends copy with buffers of the same length.
ChannelRead(c) ==
    /\ chan[c].read = 0 /\ chan[c].inbox # <<>>
    /\ chan' = [chan EXCEPT ![c].inbox = Tail(@), ![c].read = Size[Head(chan[c].inbox)]]
    /\ got' = Append(got, Head(chan[c].inbox))
    /\ UNCHANGED <<up, reading, table, ctrl, notify, writer, wire, held,
                   senderVars, closes, ended>>

\* Mutated form of HeldBack: off by one at the threshold.
HeldBackAtThreshold(n) == n <= Threshold
HeldBack(n) == n < Threshold
\* Mutated form of PendingAfter: what was sent is counted again.
PendingNotReset(n) == n
PendingAfter(n) == 0

\* SendWindowUpdate: the amount is added to the channel that has the port by
\* now, and sent once it reaches the threshold or the interval has passed.
SendWindowUpdate(c) ==
    LET e == chan[c].at  p == chan[c].port
        d == table[e][p]
        n == IF d = 0 THEN 0 ELSE chan[d].pending + chan[c].read
        cleared == [chan EXCEPT ![c].read = 0] IN
    /\ chan[c].read > 0
    /\ \/ /\ d = 0 \/ ~up[e]
          /\ chan' = cleared
          /\ UNCHANGED wire
       \/ /\ d # 0 /\ up[e] /\ HeldBack(n)
          /\ chan' = [cleared EXCEPT ![d].pending = n]
          /\ UNCHANGED wire
       \/ /\ d # 0 /\ up[e]
          /\ chan' = [cleared EXCEPT ![d].pending = PendingAfter(n)]
          /\ wire' = Written(e, Update(p, n))
    /\ UNCHANGED <<up, reading, table, ctrl, notify, writer, held,
                   senderVars, historyVars>>

ReceiveStep(c) == ChannelRead(c) \/ SendWindowUpdate(c)

-----------------------------------------------------------------------------
SendStep(s) == \/ SendSeesWindow(s) \/ SendTakesWindow(s) \/ SendEnqueues(s)
               \/ SendNotifies(s) \/ SendFails(s)

Next ==
    \/ \E e \in Ends \ Creators, p \in Ports : OpenChannel(e, p)
    \/ \E e \in Closers, p \in Ports : CloseChannel(e, p)
    \/ \E e \in Closers : Close(e)
    \/ \E e \in Ends : Writer(e) \/ ReadEnds(e)
    \/ \E e \in Ends : WorkerTakes(e) \/ HandleWindowUpdate(e)
    \/ \E e \in Ends, n \in Frames : Dispatch(e, n)
    \/ \E s \in Senders : Send(s) \/ SendStep(s)
    \/ \E c \in 1..Created : ReceiveStep(c)

Spec == Init /\ [][Next]_vars

\* Every goroutine of a multiplexer keeps running, the timer fires, and the
\* readers of the channels go on reading; nobody has to call Send or a close.
Fairness ==
    /\ \A e \in Ends : WF_vars(Writer(e)) /\ WF_vars(ReadEnds(e))
    /\ \A e \in Ends : WF_vars(WorkerTakes(e)) /\ WF_vars(HandleWindowUpdate(e))
    /\ \A e \in Ends, n \in Frames : WF_vars(Dispatch(e, n))
    /\ \A s \in Senders : WF_vars(SendStep(s))
    /\ \A c \in 1..MaxChannels : WF_vars(c <= Created /\ ReceiveStep(c))

FairSpec == Spec /\ Fairness

-----------------------------------------------------------------------------
(* Properties *)

\* The type of the state.
Channels == [at : Ends, port : Ports, queue : Seq(Messages), window : Int,
             inbox : Seq(Messages), shut : BOOLEAN, pending : Nat, read : Nat]
DataFrames == [port : Ports, type : {"data"}, n : Messages]
CloseFrames == [port : Ports, type : {"close"}, n : Nat]
Updates == [port : Ports, type : {"window"}, n : Nat]
Held == [frame : DataFrames, ch : 0..Created, fresh : BOOLEAN]
        \cup [frame : CloseFrames, ch : {0}, fresh : {FALSE}]

TypeOK ==
    /\ up \in [Ends -> BOOLEAN] /\ reading \in [Ends -> BOOLEAN]
    /\ notify \in [Ends -> BOOLEAN]
    /\ chan \in Seq(Channels) /\ Created <= MaxChannels
    /\ table \in [Ends -> [Ports -> 0..Created]]
    /\ ctrl \in [Ends -> Seq(CloseFrames)]
    /\ wire \in [Ends -> Seq(DataFrames \cup CloseFrames \cup Updates)]
    /\ held \in [Ends -> SUBSET Held]
    /\ writer \in [Ends -> [pc : {"round", "data", "wait", "empty", "stopped"},
                            todo : SUBSET (1..Created), progress : BOOLEAN]]
    /\ sender \in [Senders -> [pc : {"idle", "window", "take", "enqueue", "notify"},
                               ch : 0..Created, msg : 0..MaxMessages]]
    /\ sent \subseteq Messages /\ got \in Seq(Messages)
    /\ offered \in 0..MaxMessages /\ closes \in 0..MaxCloses
    /\ ended \in BOOLEAN

\* A channel that is not closed is the one its end has under its port.
OpenIsListed ==
    /\ \A c \in 1..Created : ~chan[c].shut => table[chan[c].at][chan[c].port] = c
    /\ \A e \in Ends, p \in Ports : table[e][p] # 0 =>
          LET c == chan[table[e][p]] IN c.at = e /\ c.port = p /\ ~c.shut

\* No wake-up is lost: a frame in the queue of an open channel is still to be
\* seen in this round of the write loop, or the loop will go round again, or
\* its wake-up is pending or about to be given.  Send queues the frame and
\* notifies in two steps, writeNotify holds a single token, and the loop of a
\* multiplexer with a channel waits without a timer.
NoLostWakeup ==
    \A c \in 1..Created :
        LET e == chan[c].at IN
        ~chan[c].shut /\ chan[c].queue # <<>> =>
            \/ notify[e]
            \/ \E s \in Senders : sender[s].pc = "notify" /\ At[s] = e
            \/ writer[e].pc \in {"round", "stopped"}
            \/ writer[e].pc = "data" /\ (c \in writer[e].todo \/ writer[e].progress)

\* The check and the subtraction of Send are two steps, so the senders of a
\* channel can overdraw its window, by no more than one message for every
\* sender but the last.
Largest == Max({Size[m] : m \in Messages})
OverdraftBounded ==
    \A c \in 1..Created :
        chan[c].window + Largest * (Cardinality(Senders) - 1) >= 0

\* The messages of the frames of a sequence.
MessagesIn(q) == {f.n : f \in {q[i] : i \in {j \in DOMAIN q : q[j].type = "data"}}}
Elements(q) == {q[i] : i \in DOMAIN q}
HeldMessages(e) == {j.frame.n : j \in {k \in held[e] : k.frame.type = "data"}}

\* Messages that were accepted and are somewhere between Send and Read.
UnderWay ==
    UNION ({Elements(chan[c].queue) \cup Elements(chan[c].inbox) : c \in 1..Created}
           \cup {MessagesIn(wire[e]) \cup HeldMessages(e) : e \in Ends})

\* A sender under way has a message of its own, not accepted before, and a
\* channel of its end; the write loop copies channels of its end.
GoroutinesInStep ==
    /\ \A s \in Senders : sender[s].pc # "idle" =>
         /\ sender[s].ch # 0 /\ chan[sender[s].ch].at = At[s]
         /\ sender[s].msg \in 1..offered
         /\ sender[s].pc # "notify" => sender[s].msg \notin sent
         /\ \A t \in Senders \ {s} : sender[t].pc # "idle" => sender[t].msg # sender[s].msg
    /\ sent \subseteq 1..offered
    /\ \A e \in Ends : \A c \in writer[e].todo : chan[c].at = e

\* How far the senders that have seen the window and not yet taken from it
\* can overdraw it.
Takers(c) == {s \in Senders : sender[s].pc = "take" /\ sender[s].ch = c}
WindowInStep ==
    \A c \in 1..Created :
        LET others == Cardinality(Senders) - Cardinality(Takers(c)) IN
        \/ chan[c].window + Largest * (others - 1) >= 0
        \/ \E s \in Takers(c) : chan[c].window + Largest * others >= Size[sender[s].msg]

\* A worker that has looked up the channel of its frame has one of its end,
\* under the port of the frame.
WorkersInStep ==
    \A e \in Ends : \A j \in held[e] : j.ch # 0 =>
        chan[j.ch].at = e /\ chan[j.ch].port = j.frame.port

\* What follows a close comes after it.
CloseIsEnd ==
    ~ended =>
        /\ \A e \in Ends :
             /\ up[e] /\ ctrl[e] = <<>>
             /\ \A i \in DOMAIN wire[e] : wire[e][i].type # "close"
             /\ \A j \in held[e] : j.frame.type # "close"
        /\ \A c \in 1..Created : ~chan[c].shut

\* Until its channel is opened there is nothing on a port: no channel at
\* either end and no message that would be thrown away.
Silent(p) ==
    /\ \A c \in 1..Created : chan[c].port # p
    /\ \A e \in Ends :
         /\ \A i \in DOMAIN wire[e] : wire[e][i].type = "data" => wire[e][i].port # p
         /\ \A j \in held[e] : j.frame.port # p
PortsInStep ==
    ~ended => \A e \in Ends \ Creators, p \in Ports : table[e][p] = 0 => Silent(p)

\* The messages of the queues and inboxes, on the wires, with the workers and
\* with the readers.
Places == {"queue", "inbox", "wire", "held", "got"}
Slots == (0..MaxChannels) \cup Ends
MessagesAt(k, x) ==
    CASE k = "queue" -> IF x \in 1..Created THEN Elements(chan[x].queue) ELSE {}
      [] k = "inbox" -> IF x \in 1..Created THEN Elements(chan[x].inbox) ELSE {}
      [] k = "wire" -> IF x \in Ends THEN MessagesIn(wire[x]) ELSE {}
      [] k = "held" -> IF x \in Ends THEN HeldMessages(x) ELSE {}
      [] OTHER -> IF x = 0 THEN Elements(got) ELSE {}

\* A message that was accepted is in one place, once.
Distinct(q) == \A i, j \in DOMAIN q : q[i] = q[j] => i = j
OnePlace ==
    /\ \A k \in Places, x \in Slots : \A m \in MessagesAt(k, x) :
         \A l \in Places, y \in Slots : m \in MessagesAt(l, y) => k = l /\ x = y
    /\ \A k \in Places, x \in Slots : MessagesAt(k, x) \subseteq sent
    /\ \A c \in 1..Created : Distinct(chan[c].queue) /\ Distinct(chan[c].inbox)
    /\ Distinct(got)
    /\ \A e \in Ends :
         /\ \A i, j \in DOMAIN wire[e] :
              /\ wire[e][i].type = "data" /\ wire[e][j].type = "data"
              /\ wire[e][i].n = wire[e][j].n
              => i = j
         /\ \A j, k \in held[e] :
              /\ j.frame.type = "data" /\ k.frame.type = "data"
              /\ j.frame.n = k.frame.n
              => j = k

\* The invariant of the multiplexer: an open channel is the listed one, no
\* queued frame waits for a wake-up nobody gives (mux.go:137, :233), the
\* window is never overdrawn further than concurrent senders can (:522), and
\* a message is in one place only.
MuxInv ==
    /\ TypeOK /\ OpenIsListed /\ NoLostWakeup /\ OverdraftBounded
    /\ GoroutinesInStep /\ WorkersInStep /\ WindowInStep /\ CloseIsEnd
    /\ PortsInStep /\ OnePlace

\* The messages from end e to the other one that the window of port p was
\* charged for and that have not been read.
BelongsTo(c, e, p) == chan[c].at = e /\ chan[c].port = p
InFlight(e, p) ==
    {m \in Messages :
        \/ \E s \in Senders :
              sender[s].pc = "enqueue" /\ sender[s].msg = m /\ BelongsTo(sender[s].ch, e, p)
        \/ \E c \in 1..Created :
              \/ BelongsTo(c, e, p) /\ m \in Elements(chan[c].queue)
              \/ BelongsTo(c, Peer(e), p) /\ m \in Elements(chan[c].inbox)
        \/ Data(p, m) \in Elements(wire[Peer(e)])
        \/ \E j \in held[Peer(e)] : j.frame = Data(p, m)}

\* The updates on the wire to end e that are for port p.
UpdatesFor(e, p) == {i \in DOMAIN wire[e] : wire[e][i].type = "window" /\ wire[e][i].port = p}

\* The sum of the natural numbers f[x], as the number of units they stand for.
Units(f) == UNION {{x} \X (1..f[x]) : x \in DOMAIN f}
Total(f) == Cardinality(Units(f))

\* What the senders of end e may still send on port p, what they have sent and
\* the reader has not read, what the other end has given back on the wire, and
\* what it has read and not given back.
Left(e, p) == IF table[e][p] = 0 THEN Window ELSE chan[table[e][p]].window
Unread(e, p) == Total([m \in InFlight(e, p) |-> Size[m]])
GivenBack(e, p) == Total([i \in UpdatesFor(e, p) |-> wire[e][i].n])
Owed(e, p) ==
    LET d == table[Peer(e)][p] IN IF d = 0 THEN 0 ELSE chan[d].read + chan[d].pending

\* Window is neither lost nor made, in either direction of any port: until
\* something is closed these amounts add up to windowSize (Send, Channel.Read,
\* SendWindowUpdate and the handling of an update at the other end).
WindowConserved ==
    ~ended => \A e \in Ends, p \in Ports :
        Left(e, p) + Unread(e, p) + GivenBack(e, p) + Owed(e, p) = Window

\* A pair of multiplexers keeps the promise of the abstract channel.
Promise == INSTANCE Stream WITH
    got <- Elements(got), lost <- sent \ (Elements(got) \cup UnderWay)
PromiseKept == Promise!Spec

\* Everything that Send has accepted is received at some time, unless something
\* is closed: the write loop wakes up, no worker waits for ever and nothing is
\* dropped (writeLoop, dispatchData, Channel.Read).
SentIsReceived == sent # Elements(got) ~> (sent = Elements(got) \/ ended)

\* A call of Send that waits for window or for room in the queue goes on,
\* unless something is closed: updates held back below the threshold never
\* keep the largest message waiting.
SendReturns ==
    \A s \in Senders : sender[s].pc # "idle" ~> (sender[s].pc = "idle" \/ ended)

\* The messages are received in the order in which they were written.
StreamOrder == \A i, j \in DOMAIN got : i < j => got[i] < got[j]
=============================================================================

----------------------------- MODULE PluginHost -----------------------------
(***************************************************************************)
(* External plugins: PluginGRPCServer of the server                        *)
(* (common/plugin/grpc_server.go) and one plugin written with the SDK      *)
(* (common/sdk/plugin.go).  The plugin registers, opens a stream with      *)
(* Subscribe, receives events and execute requests on it and publishes the *)
(* results; after a lost stream it may be started again.                   *)
(*                                                                         *)
(* An answer carries the name of the action and nothing that tells one     *)
(* call from another.  A panic of a goroutine of the server (a channel     *)
(* closed twice, a send on a closed channel) ends the process.             *)
(***************************************************************************)
EXTENDS Naturals, Sequences

CONSTANTS
    MaxStreams,     \* bound: calls of Subscribe
    MaxStates,      \* bound: calls of Register
    MaxCalls,       \* bound: calls of ExecuteAction
    MaxEvents,      \* bound: events broadcast
    QueueCap        \* capacity of the channel of a subscriber

ASSUME PluginHostAssumption ==
    /\ {MaxStreams, MaxStates, MaxCalls, MaxEvents} \subseteq Nat
    /\ QueueCap \in Nat \ {0}

Streams == 1..MaxStreams
Calls == 1..MaxCalls
Event == 0      \* a batch is an event or the request of a call

VARIABLES
    states,     \* calls of Register: the pluginState in the map is the last
    resultCh,   \* [states -> call or 0]: pluginState.resultCh
    subscriber, \* PluginGRPCServer.subscribers: the stream, or 0
    stream,     \* where the goroutine of a Subscribe is
    open,       \* the streams whose channel is not closed
    queue,      \* what the channel of a stream holds
    cut,        \* the streams whose plugin is gone
    call,       \* where a call of ExecuteAction is, with the stream and the
                \* pluginState it found, and the call whose result it got
    running,    \* the execute requests whose handler runs in the plugin
    events,     \* events broadcast
    crash,      \* the panic that ended the server: "none", "close", "send"
    replaced,   \* history: a Subscribe found a stream of the plugin
    mixed       \* history: calls during which another was open, or which
                \* began when the plugin still ran a request

hostVars == <<states, resultCh, subscriber, stream, open, queue, cut, call, running,
          events, crash, replaced, mixed>>

NoCall == [pc |-> "none", stream |-> 0, state |-> 0, got |-> 0]

HostTypeOK ==
    /\ states \in 0..MaxStates
    /\ resultCh \in [1..MaxStates -> 0..MaxCalls]
    /\ subscriber \in 0..MaxStreams
    /\ stream \in [Streams -> {"none", "loop", "exit", "close", "over"}]
    /\ open \subseteq Streams /\ cut \subseteq Streams
    /\ queue \in [Streams -> Seq(0..MaxCalls)]
    /\ \A s \in Streams : Len(queue[s]) <= QueueCap
    /\ call \in [Calls -> [pc : {"none", "found", "set", "wait", "clear", "over"},
                           stream : 0..MaxStreams, state : 0..MaxStates,
                           got : 0..MaxCalls]]
    /\ running \subseteq Calls /\ mixed \subseteq Calls
    /\ events \in 0..MaxEvents
    /\ crash \in {"none", "close", "send"} /\ replaced \in BOOLEAN

HostInit ==
    /\ states = 0 /\ resultCh = [r \in 1..MaxStates |-> 0]
    /\ subscriber = 0 /\ stream = [s \in Streams |-> "none"]
    /\ open = {} /\ queue = [s \in Streams |-> <<>>] /\ cut = {}
    /\ call = [c \in Calls |-> NoCall]
    /\ running = {} /\ events = 0 /\ crash = "none"
    /\ replaced = FALSE /\ mixed = {}

-----------------------------------------------------------------------------
(* The streams.                                                            *)

\* Register: a new pluginState replaces the old one and its resultCh
Register ==
    /\ states < MaxStates
    /\ states' = states + 1
    /\ UNCHANGED <<resultCh, subscriber, stream, open, queue, cut, call, running,
                   events, crash, replaced, mixed>>

\* Subscribe, up to the loop: the channel of a stream that is still there is
\* closed; subscribe of the SDK follows register
Subscribe(s) ==
    /\ stream[s] = "none" /\ states > 0
    /\ \A r \in Streams : r < s => stream[r] # "none"
    /\ stream' = [stream EXCEPT ![s] = "loop"]
    /\ open' = (open \ {subscriber}) \cup {s}
    /\ replaced' = (replaced \/ subscriber # 0)
    /\ subscriber' = s
    /\ UNCHANGED <<states, resultCh, queue, cut, call, running, events, crash, mixed>>

\* the plugin stops or its connection is lost
Cut(s) ==
    /\ stream[s] # "none" /\ s \notin cut
    /\ cut' = cut \cup {s}
    /\ UNCHANGED <<states, resultCh, subscriber, stream, open, queue, call, running,
                   events, crash, replaced, mixed>>

\* the loop takes a batch and sends it; receiveLoop of the plugin starts the
\* handler of an execute request in a goroutine of its own.  A stream that is
\* cut is noticed here and nowhere else.
StreamSends(s) ==
    /\ stream[s] = "loop" /\ queue[s] # <<>>
    /\ queue' = [queue EXCEPT ![s] = Tail(@)]
    /\ IF s \in cut
       THEN stream' = [stream EXCEPT ![s] = "exit"] /\ UNCHANGED running
       ELSE /\ UNCHANGED stream
            /\ running' = running \cup ({Head(queue[s])} \ {Event})
    /\ UNCHANGED <<states, resultCh, subscriber, open, cut, call, events, crash,
                   replaced, mixed>>

\* a closed channel that is empty ends the loop
StreamDrained(s) ==
    /\ stream[s] = "loop" /\ s \notin open /\ queue[s] = <<>>
    /\ stream' = [stream EXCEPT ![s] = "exit"]
    /\ UNCHANGED <<states, resultCh, subscriber, open, queue, cut, call, running,
                   events, crash, replaced, mixed>>

\* Mutated form of SubscriberAfter: the stream stays in the map.
SubscriberKept(s) == subscriber
SubscriberAfter(s) == IF subscriber = s THEN 0 ELSE subscriber

\* the deferred function: out of the map, if still there ...
StreamLeaves(s) ==
    /\ stream[s] = "exit"
    /\ subscriber' = SubscriberAfter(s)
    /\ stream' = [stream EXCEPT ![s] = "close"]
    /\ UNCHANGED <<states, resultCh, open, queue, cut, call, running, events, crash,
                   replaced, mixed>>

\* ... and the channel is closed, though Subscribe may have closed it
StreamCloses(s) ==
    /\ stream[s] = "close"
    /\ open' = open \ {s}
    /\ crash' = IF s \in open THEN crash ELSE "close"
    /\ stream' = [stream EXCEPT ![s] = "over"]
    /\ UNCHANGED <<states, resultCh, subscriber, queue, cut, call, running, events,
                   replaced, mixed>>

\* BroadcastEvent: under the lock; a full channel drops the event
BroadcastEvent ==
    /\ events < MaxEvents /\ events' = events + 1
    /\ queue' = IF subscriber # 0 /\ Len(queue[subscriber]) < QueueCap
                THEN [queue EXCEPT ![subscriber] = Append(@, Event)] ELSE queue
    /\ crash' = IF subscriber # 0 /\ subscriber \notin open THEN "send" ELSE crash
    /\ UNCHANGED <<states, resultCh, subscriber, stream, open, cut, call, running,
                   replaced, mixed>>

-----------------------------------------------------------------------------
(* ExecuteAction.                                                          *)

Busy == {c \in Calls : call[c].pc \notin {"none", "over"}}

\* the lookup, under the read lock
ExecuteFinds(c) ==
    /\ call[c].pc = "none" /\ subscriber # 0 /\ states # 0
    /\ \A d \in Calls : d < c => call[d].pc # "none"
    /\ call' = [call EXCEPT ![c] = [pc |-> "found", stream |-> subscriber,
                                    state |-> states, got |-> 0]]
    /\ mixed' = IF Busy # {} THEN mixed \cup Busy \cup {c}
                ELSE IF running # {} \/ \E s \in Streams : \E i \in DOMAIN queue[s] :
                                           queue[s][i] # Event
                THEN mixed \cup {c} ELSE mixed
    /\ UNCHANGED <<states, resultCh, subscriber, stream, open, queue, cut, running,
                   events, crash, replaced>>

\* the result channel of the call becomes the one of the plugin
ExecuteSets(c) ==
    /\ call[c].pc = "found"
    /\ resultCh' = [resultCh EXCEPT ![call[c].state] = c]
    /\ call' = [call EXCEPT ![c].pc = "set"]
    /\ UNCHANGED <<states, subscriber, stream, open, queue, cut, running, events,
                   crash, replaced, mixed>>

\* the request is put in the channel found above: closed by now it panics,
\* full it is an error
ExecuteSends(c) ==
    /\ call[c].pc = "set"
    /\ LET s == call[c].stream
           room == s \in open /\ Len(queue[s]) < QueueCap
       IN /\ queue' = IF room THEN [queue EXCEPT ![s] = Append(@, c)] ELSE queue
          /\ crash' = IF s \in open THEN crash ELSE "send"
          /\ call' = [call EXCEPT ![c].pc = IF room THEN "wait" ELSE "clear"]
    /\ UNCHANGED <<states, resultCh, subscriber, stream, open, cut, running, events,
                   replaced, mixed>>

\* the handler returns, the plugin publishes the result and handleActionResult
\* gives it to whatever call has its channel there and has no result yet; a
\* handler that fails publishes nothing
ActionResult(c) ==
    /\ c \in running
    /\ running' = running \ {c}
    /\ LET to == IF states = 0 THEN 0 ELSE resultCh[states]
       IN call' = IF to # 0 /\ call[to].got = 0
                  THEN [call EXCEPT ![to].got = c] ELSE call
    /\ UNCHANGED <<states, resultCh, subscriber, stream, open, queue, cut, events,
                   crash, replaced, mixed>>

ActionFails(c) ==
    /\ c \in running
    /\ running' = running \ {c}
    /\ UNCHANGED <<states, resultCh, subscriber, stream, open, queue, cut, call,
                   events, crash, replaced, mixed>>

\* the result, or the 30 seconds are over
ExecuteGets(c) ==
    /\ call[c].pc = "wait" /\ call[c].got # 0
    /\ call' = [call EXCEPT ![c].pc = "clear"]
    /\ UNCHANGED <<states, resultCh, subscriber, stream, open, queue, cut, running,
                   events, crash, replaced, mixed>>

\* Mutated form of TimeIsUp: the wait for a result has no limit.
NoTimeLimit(c) == FALSE
TimeIsUp(c) == call[c].pc = "wait"

ExecuteTimesOut(c) ==
    /\ TimeIsUp(c)
    /\ call' = [call EXCEPT ![c] = [@ EXCEPT !.pc = "clear", !.got = 0]]
    /\ UNCHANGED <<states, resultCh, subscriber, stream, open, queue, cut, running,
                   events, crash, replaced, mixed>>

\* the deferred function takes away the result channel, whosever it is
ExecuteReturns(c) ==
    /\ call[c].pc = "clear"
    /\ resultCh' = [resultCh EXCEPT ![call[c].state] = 0]
    /\ call' = [call EXCEPT ![c].pc = "over"]
    /\ UNCHANGED <<states, subscriber, stream, open, queue, cut, running, events,
                   crash, replaced, mixed>>

-----------------------------------------------------------------------------

StreamStep(s) ==
    \/ StreamSends(s)
    \/ StreamDrained(s)
    \/ StreamLeaves(s)
    \/ StreamCloses(s)

CallStep(c) ==
    \/ ExecuteSets(c)
    \/ ExecuteSends(c)
    \/ ExecuteGets(c)
    \/ ExecuteTimesOut(c)
    \/ ExecuteReturns(c)

HostNext ==
    /\ crash = "none"
    /\ \/ Register
       \/ BroadcastEvent
       \/ \E s \in Streams : Subscribe(s) \/ Cut(s) \/ StreamStep(s)
       \/ \E c \in Calls : ExecuteFinds(c) \/ CallStep(c)
       \/ \E c \in Calls : ActionResult(c) \/ ActionFails(c)

HostSpec == HostInit /\ [][HostNext]_hostVars

\* goroutines run and the wait for a result is limited
HostFairSpec ==
    /\ HostSpec
    /\ \A s \in Streams : WF_hostVars(crash = "none" /\ StreamStep(s))
    /\ \A c \in Calls : WF_hostVars(crash = "none" /\ CallStep(c))

-----------------------------------------------------------------------------
(* Properties.                                                             *)

\* The channel in the map is open, so BroadcastEvent, which sends under the
\* lock, never sends on a closed one; and a server goes down only after a
\* plugin subscribed twice or lost its stream.
BroadcastIsSafe ==
    /\ subscriber # 0 /\ crash = "none" => subscriber \in open
    /\ crash # "none" => replaced \/ cut # {}

\* A call gets the result of its own request, unless another call of the same
\* plugin was open or a request of an earlier one was still under way: results
\* are matched by nothing but the order of events (resultCh of pluginState).
OwnResult ==
    \A c \in Calls :
        call[c].got # 0 /\ call[c].got # c => c \in mixed

\* The map names a stream whose loop has not been left; a stream is not open
\* before its end only if another replaced it, and it ends only when it was
\* replaced or cut.
StreamsInStep ==
    /\ subscriber # 0 => stream[subscriber] \in {"loop", "exit"}
    /\ \A s \in Streams :
        /\ stream[s] \in {"loop", "exit", "close"} /\ s \notin open => replaced
        /\ stream[s] \in {"exit", "close", "over"} => replaced \/ s \in cut

\* the requests that the plugin runs or finds in a channel
Requests ==
    running \cup {c \in Calls : \E s \in Streams : \E i \in DOMAIN queue[s] :
                                  queue[s][i] = c}

\* An open call has a stream and a pluginState; the result channel of a
\* pluginState is that of an open call; and a call that is not mixed is alone:
\* no other is open and no other request is under way.
CallsInStep ==
    /\ \A c \in Busy : /\ call[c].stream # 0 /\ stream[call[c].stream] # "none"
                       /\ call[c].state # 0
    /\ \A r \in 1..MaxStates : resultCh[r] # 0 =>
         /\ resultCh[r] \in Busy /\ call[resultCh[r]].pc # "found"
         /\ call[resultCh[r]].state = r
    /\ \A c \in Busy \ mixed : Busy = {c} /\ Requests \subseteq {c}

\* The types, what makes BroadcastEvent safe (grpc_server.go:201) and what
\* result a call of ExecuteAction can get (:243), for streams that replace each
\* other, break off and register again while calls are open.
PluginInv ==
    /\ HostTypeOK /\ BroadcastIsSafe /\ OwnResult
    /\ StreamsInStep /\ CallsInStep

\* Every call of ExecuteAction returns, whatever the plugin does, unless the
\* process ends.
CallReturns ==
    \A c \in Calls :
        (call[c].pc # "none") ~> (call[c].pc = "over" \/ crash # "none")
=============================================================================

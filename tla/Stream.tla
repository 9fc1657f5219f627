------------------------------- MODULE Stream -------------------------------
(***************************************************************************)
(* What a channel of the multiplexer (src/common/mux/mux.go) promises to   *)
(* the two programs that use its ends, whatever happens inside: a message  *)
(* is received at most once and only if it was accepted by Send, and until *)
(* somebody closes the channel or the connection nothing is lost.  Nothing *)
(* is promised about the order of the messages.                            *)
(***************************************************************************)
CONSTANT Messages

VARIABLES
    sent,   \* messages that Send accepted
    got,    \* messages a reader took
    lost,   \* accepted messages that no reader will ever take
    ended   \* the channel or the connection was closed, by either end

vars == <<sent, got, lost, ended>>

Init == /\ sent = {}
        /\ got = {}
        /\ lost = {}
        /\ ended = FALSE

\* Send returns without an error.  After the end it may accept a message
\* into the queue of a channel that nobody serves any more.
Accept(m) == /\ m \notin sent
             /\ sent' = sent \cup {m}
             /\ lost' \in {lost} \cup (IF ended THEN {lost \cup {m}} ELSE {})
             /\ UNCHANGED <<got, ended>>

Deliver(m) == /\ m \in sent \ (got \cup lost)
              /\ got' = got \cup {m}
              /\ UNCHANGED <<sent, lost, ended>>

\* Closing may cost every message that is still under way, at once or later.
End == /\ ended' = TRUE
       /\ \E S \in SUBSET (sent \ (got \cup lost)) : lost' = lost \cup S
       /\ UNCHANGED <<sent, got>>

Next == \/ \E m \in Messages : Accept(m) \/ Deliver(m)
        \/ End

Spec == Init /\ [][Next]_vars
=============================================================================

------------------------------- MODULE MCMux -------------------------------
(* Small instances of the multiplexer for TLC: the source of a relay, which *)
(* opens one channel and sends on it, and the target, which creates its     *)
(* channel when the first frame arrives.                                    *)
EXTENDS Mux

CONSTANTS source, target, port, s1

MCAt == [s \in Senders |-> source]
MCPortOf == [s \in Senders |-> port]
MCSize == <<1, 1, 1>>
MCWorkers == [e \in Ends |-> IF e = source THEN 1 ELSE 2]
=============================================================================

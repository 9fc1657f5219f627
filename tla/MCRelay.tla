------------------------------- MODULE MCRelay -------------------------------
(* One relay; the source may get a second signal over one connection (the   *)
(* creation of the relay and the sync after a registration both send one).  *)
EXTENDS Relay

MCSignals == [r \in Roles |-> IF r = "source" THEN 2 ELSE 1]
=============================================================================

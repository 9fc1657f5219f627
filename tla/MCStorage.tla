------------------------------ MODULE MCStorage ------------------------------
(* Two proxies, whose records share a meta file, and a snapshot after every *)
(* second event.                                                            *)
EXTENDS Storage

CONSTANTS p, q

MCTypeOf == [k \in Keys |-> "proxy"]
=============================================================================

------------------------------ MODULE MCWorkers ------------------------------
(* One node with one proxy and one relay, to itself: both ends of a relay   *)
(* are then asked of the same connections.                                  *)
EXTENDS Workers

CONSTANT a

MCKeys == {<<a, 1>>}
MCPairs == {<<a, a>>}
=============================================================================

---------------------------- MODULE MCClientNode ----------------------------
(* A node with one TCP proxy, one websocket proxy and an outbound tunnel.  *)
EXTENDS ClientNode, TLC

CONSTANTS tcp, ws, outbound

MCKind == tcp :> "tcp" @@ ws :> "loop" @@ outbound :> "outbound"
=============================================================================

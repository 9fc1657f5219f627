-------------------------- MODULE MCTunnelPairing --------------------------
(* Small instances of the tunnel pairing for TLC.                          *)
EXTENDS TunnelPairing

CONSTANTS u1, u2, t1, t2
=============================================================================

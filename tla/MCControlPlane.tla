--------------------------- MODULE MCControlPlane ---------------------------
(* Small instances of the control plane for TLC.                           *)
EXTENDS ControlPlane, TLC

CONSTANTS c1, c2

ClientSymmetry == Permutations(Clients)
=============================================================================

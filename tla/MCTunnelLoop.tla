---------------------------- MODULE MCTunnelLoop ----------------------------
(* Small instances of the accept loops for TLC.                            *)
EXTENDS TunnelLoop, TLC

CONSTANTS k1, k2, s1, s2

SyncSymmetry == Permutations(Syncs)
KeyAndSyncSymmetry == Permutations(Syncs) \cup Permutations(Keys)
=============================================================================

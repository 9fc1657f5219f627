----------------------------- MODULE MCEventBus -----------------------------
(* Small instances of the event bus for TLC.                               *)
EXTENDS EventBus, TLC

CONSTANTS p1, p2, proxy, client, core, plugin, late

MCTypes == {proxy, client}
MCOneType == {proxy}
MCHandlers == {core, plugin, late}
MCTwoHandlers == {core, plugin}
MCLateSubs == {<<client, late>>}
(* core and plugin are subscribed to proxy events in that order; nobody is *)
(* subscribed to client events at first.                                   *)
MCInitialSubs ==
    [t \in MCTypes |-> IF t = proxy THEN <<core, plugin>> ELSE <<>>]
MCOneTypeSubs == [t \in MCOneType |-> <<core, plugin>>]

PublisherSymmetry == Permutations(Publishers)
=============================================================================

----------------------------- MODULE MCSessions -----------------------------
(* Small instances of the sessions for TLC: a client with two connections, *)
(* of which one shows a certificate, a proxy of its own and a relay to a   *)
(* second client.                                                          *)
EXTENDS Sessions, TLC

CONSTANTS s1, s2, c1, c2, p, r

MCWho == s1 :> c1 @@ s2 :> c1
MCCert == s1 :> c1 @@ s2 :> None
MCParties == p :> <<c1>> @@ r :> <<c2, c1>>
MCOneParty == p :> <<c1>>
=============================================================================

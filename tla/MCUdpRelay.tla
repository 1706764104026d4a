---------------------------- MODULE MCUdpRelay -----------------------------
(* UdpRelay on instances for TLC.                                          *)
EXTENDS UdpRelay

CONSTANTS tun, in, c1, c2

(* One client behind the TUN, one that also uses the other ingress.        *)
BothWays == [i \in Ingress |-> IF i = tun THEN {c1, c2} ELSE {c2}]

(* Every ingress reads every client.                                       *)
AllServe == [i \in Ingress |-> Client]
=============================================================================

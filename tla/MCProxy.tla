------------------------------- MODULE MCProxy ------------------------------
(* A stream, or the datagrams of a socket, for TLC.                        *)
EXTENDS ProxyStream, ShadowPacket

vars == <<streamVars, packetVars>>

(* Either kind of traffic, the other one resting.  Nothing is claimed of a *)
(* stream whose handshake was torn: it is followed no further.             *)
Init ==
  /\ StreamInit /\ PacketInit
  /\ kind = "packets" => want = CHOOSE d \in Dests : TRUE

Next ==
  \/ kind # "packets" /\ ~torn /\ StreamNext /\ UNCHANGED packetVars
  \/ kind = "packets" /\ PacketNext /\ UNCHANGED streamVars

Spec == Init /\ [][Next]_vars /\ StreamFairness

SomeDests ==
  {[type |-> t, addr |-> <<10, 0, 0, 7>>, port |-> <<31, 144>>] : t \in {"ip4", "ip4in6"}}
  \cup {[type |-> "ip6", addr |-> [i \in 1 .. 16 |-> i + 30], port |-> <<1, 187>>],
        [type |-> "domain", addr |-> <<97, 46, 98>>, port |-> <<0, 80>>]}
=============================================================================

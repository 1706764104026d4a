----------------------------- MODULE MCShutdown -----------------------------
(* Shutdown on instances for TLC.                                          *)
EXTENDS Shutdown

CONSTANTS eth, wlan

(* The first of two interfaces, or the second while the first has lost its *)
(* IPv4 address, or no way to list them for a while.                       *)
SomeNets == {[i \in IfName |-> IF i = eth THEN {4} ELSE {}],
             [i \in IfName |-> IF i = wlan THEN {4, 6} ELSE {6}],
             Nil}

MayGoDown == {[i \in IfName |-> {4}], [i \in IfName |-> {}]}
=============================================================================

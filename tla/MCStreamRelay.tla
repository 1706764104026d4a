--------------------------- MODULE MCStreamRelay ----------------------------
(* StreamRelay on instances for TLC.                                       *)
EXTENDS StreamRelay

CONSTANTS c1, c2

MCRoute == [i \in Conn |-> IF i = c1 THEN {"general", "direct"} ELSE {"reject"}]
=============================================================================

----------------------------- MODULE MCTunNat ------------------------------
(* The translation for TLC: its tables on small instances, or the sums of  *)
(* one packet that it rewrites.                                            *)
EXTENDS TunNat, Checksum, TLC

CONSTANTS d1, d2, h2

VARIABLE part

(* Either one, the other resting.                                          *)
MCInit ==
  /\ Init
  /\ \/ part = "sums" /\ SumsInit
     \/ part = "tables" /\ proto = Blank /\ head = Blank /\ body = Blank /\ written = Blank

MCNext ==
  \/ part = "sums" /\ SumsNext /\ UNCHANGED <<poolVars, natVars, cur, part>>
  \/ part = "tables" /\ Next /\ UNCHANGED <<checksumVars, part>>

MCSpec == MCInit /\ [][MCNext]_<<vars, part, checksumVars>>

(* The machine's own applications, which send from the TUN's address.      *)
OneHost == {<<Iface, 1>>, <<Iface, 2>>, <<Iface, 3>>}

(* Sums without a carry, with one, and with one out of a carry.            *)
Ips == {<<0, 0, 0, 0>>, <<10, 0, 0, 7>>, <<255, 255, 255, 255>>}
Tails == {<<0>>, <<1, 255>>, <<255, 255, 255>>}
Bodies ==
  "tcp" :> {[i \in 1 .. 18 |-> 0] \o b : b \in Tails}
  @@ "udp" :> {[i \in 1 .. 8 |-> i] \o b : b \in Tails}
  @@ "icmp" :> {<<8, 0, 0, 0, 0, 1, 0, 1>> \o b : b \in Tails}
=============================================================================

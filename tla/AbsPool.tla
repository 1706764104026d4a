------------------------------ MODULE AbsPool ------------------------------
(***************************************************************************)
(* What the fake address pool promises to the queries of one client that   *)
(* waits for each answer: a bounded table from domains to addresses, kept  *)
(* in the order of last use, no address given twice, and the least         *)
(* recently used domain the one that loses its address when all are given. *)
(***************************************************************************)
EXTENDS Integers, Sequences

CONSTANTS Domain, Address, Room

VARIABLE table      \* the entries [domain, ip], the last used one first

Front(s, i) ==
  [j \in DOMAIN s |-> IF j = 1 THEN s[i] ELSE IF j <= i THEN s[j - 1] ELSE s[j]]

Known(d) == \E i \in DOMAIN table : table[i].domain = d
Given(a) == \E i \in DOMAIN table : table[i].ip = a

Init == table = << >>

(* A domain is asked for again, or its address is looked up.               *)
Use == \E i \in DOMAIN table : table' = Front(table, i)

(* A new domain takes an address nobody has.                               *)
Allot(d, a) ==
  /\ ~Known(d) /\ ~Given(a) /\ Len(table) < Room
  /\ table' = <<[domain |-> d, ip |-> a]>> \o table

(* All addresses are given: a new domain takes the least recently used.    *)
Recycle(d) ==
  /\ ~Known(d) /\ Len(table) = Room
  /\ table' = <<[domain |-> d, ip |-> table[Room].ip]>>
              \o SubSeq(table, 1, Room - 1)

Next == \/ Use
        \/ \E d \in Domain : Recycle(d) \/ \E a \in Address : Allot(d, a)

Spec == Init /\ [][Next]_table
=============================================================================

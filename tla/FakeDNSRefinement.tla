------------------------- MODULE FakeDNSRefinement -------------------------
(***************************************************************************)
(* The pool as its clients see it: the list of the LRU with the address    *)
(* each domain has now.  Some promises hold only while calls do not        *)
(* overlap, so a behaviour either has such calls or has none (`serial').   *)
(***************************************************************************)
EXTENDS FakeDNS

VARIABLE serial   \* one query at a time, and no lookup by the packet loop

serialVars == <<poolVars, serial>>

SerialInit == Init /\ serial \in BOOLEAN

OthersIdle(c) == \A o \in Caller \ {c} : pc[o] = "idle"

SerialNext ==
  /\ \/ \E c \in Caller : \/ \E d \in Key : (serial => OthersIdle(c)) /\ Query(c, d)
                          \/ PutLock(c) \/ PutStep(c) \/ Answer(c)
     \/ ~serial /\ \E v \in LookupAddr : Lookup(v)
  /\ UNCHANGED serial

SerialSpec == SerialInit /\ [][SerialNext]_serialVars /\ Fairness

-----------------------------------------------------------------------------
Table == [i \in DOMAIN order |->
            [domain |-> order[i].key, ip |-> val[order[i].key]]]

Pool == INSTANCE AbsPool
        WITH Domain <- Key, Address <- Usable, Room <- Capacity,
             table <- IF serial THEN Table ELSE << >>

(* Every step of the pool is a use, an allotment or a recycling of the     *)
(* abstract table, or leaves it as it is, when queries come one at a time. *)
RefinesPool == Pool!Spec

(* With one query at a time no two domains have one address.               *)
SerialOneDomain == serial => OneDomainPerAddress

(* With one query at a time an address leads back to a domain that has it. *)
SerialReverseSound == serial => ReverseSound

(* With one query at a time, and until the pool is full, the address of    *)
(* every domain of the table leads back to it.                             *)
SerialReverse == serial => ReverseWhileRoom

=============================================================================

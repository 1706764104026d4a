------------------------------ MODULE FakeDNS ------------------------------
(***************************************************************************)
(* dns/fakeip.go: the DNS server that answers from the pool.  The server   *)
(* runs ServeDNS in a goroutine of its own for every query, so the callers *)
(* of the pool are its handlers; at any moment the TUN's packet loop may   *)
(* ask which domain an address stands for (dns.GetDomainByIP), which is    *)
(* Lookup.  A query for the name of a PTR record takes an address as any   *)
(* other does, then looks up the address the name is the reverse of.       *)
(***************************************************************************)
EXTENDS FakeIP

CONSTANTS
  PtrName,      \* the names that are asked for with type PTR
  PtrTarget,    \* the pool address such a name stands for; Nil if outside
  LookupAddr    \* the addresses the packet loop asks about

ASSUME FakeDNSAssumption ==
  /\ PtrName \subseteq Key
  /\ PtrTarget \in [PtrName -> Value \cup {Nil}]
  /\ LookupAddr \subseteq Value
  /\ Nil \notin Key

Init == PoolInit

Query_alwaysPut(c, d) ==
  /\ pc[c] = "idle"
  /\ asked' = [asked EXCEPT ![c] = d]
  /\ Goto(c, "lock")
  /\ UNCHANGED <<lruVars, nextIP, holder, ip>>

(* A query arrives; GetIPByDomain knows the domain, or does not.           *)
Query(c, d) ==
  /\ pc[c] = "idle"
  /\ asked' = [asked EXCEPT ![c] = d]
  /\ Pick(c, ValueOf(d))
  /\ Goto(c, IF ValueOf(d) = Nil THEN "lock" ELSE "answer")
  /\ Get(d)
  /\ UNCHANGED <<nextIP, holder>>

(* The handler ends.  For a PTR record there is the lookup first.  What    *)
(* w.WriteMsg sends is left out: the record of type A, AAAA or PTR, or,    *)
(* for a query of any other type, nothing, since the appended record is    *)
(* nil, the message cannot be packed and the error is discarded.           *)
Answer(c) ==
  /\ pc[c] = "answer"
  /\ IF asked[c] \in PtrName /\ PtrTarget[asked[c]] # Nil
     THEN GetKeyFromValue(PtrTarget[asked[c]])
     ELSE UNCHANGED lruVars
  /\ Goto(c, "idle")
  /\ asked' = [asked EXCEPT ![c] = Nil]
  /\ Pick(c, Nil)
  /\ UNCHANGED <<nextIP, holder>>

Lookup(v) ==
  /\ GetKeyFromValue(v)
  /\ UNCHANGED <<nextIP, holder, pc, asked, ip>>

Next ==
  \/ \E c \in Caller : \/ \E d \in Key : Query(c, d)
                       \/ PutLock(c)
                       \/ PutStep(c)
                       \/ Answer(c)
  \/ \E v \in LookupAddr : Lookup(v)

Spec == Init /\ [][Next]_poolVars

(* A handler that can go on does; sync.Mutex hands itself to a waiter that *)
(* has been starved for a millisecond, so no handler waits for ever while  *)
(* others pass.                                                            *)
Fairness == \A c \in Caller : /\ WF_poolVars(PutStep(c))
                              /\ WF_poolVars(Answer(c))
                              /\ SF_poolVars(PutLock(c))

FairSpec == Spec /\ Fairness

-----------------------------------------------------------------------------
TypeOK ==
  /\ LRUTypeOK
  /\ nextIP \in Value
  /\ holder \in Caller \cup {Nil}
  /\ pc \in [Caller -> {"idle", "lock", "full", "probe", "store", "answer"}]
  /\ asked \in [Caller -> Key \cup {Nil}]
  /\ ip \in [Caller -> Value \cup {Nil}]

(* The handler of every query gets to its WriteMsg and ends, whatever the  *)
(* other handlers and the packet loop do meanwhile: a query of type A,     *)
(* AAAA or PTR is answered (one of another type never is, see Answer).     *)
QueriesAnswered ==
  \A c \in Caller : pc[c] # "idle" ~> pc[c] = "idle"

=============================================================================

------------------------------- MODULE FakeIP -------------------------------
(***************************************************************************)
(* component/fakeip: the pool that gives a fake address to every domain.   *)
(* An address is its offset in the CIDR: 0 is the network address,         *)
(* Size - 1 the broadcast address, Iface the TUN interface's own.          *)
(*                                                                         *)
(* f.m (`holder') is held throughout Put, but neither GetIPByDomain nor    *)
(* GetDomainByIP takes it, so the calls Put makes to the LRU are separate  *)
(* steps.  IsFull and GetLastValue are one: only Put changes the length of *)
(* the list, so IsFull keeps its answer while f.m is held.  nextIP is read *)
(* and written under f.m alone, so one turn of the search is one step.     *)
(***************************************************************************)
EXTENDS LRU, FiniteSets

CONSTANTS Caller, Size, Iface

ASSUME FakeIPAssumption ==
  /\ Size \in Nat /\ Size >= 4
  /\ Value = 0 .. Size - 1
  /\ Capacity = Size - 3
  /\ Iface \in Value
  /\ Nil \notin Caller

Network   == 0
Broadcast == Size - 1

(* The addresses the search may give away.                                 *)
Usable == 1 .. Size - 2 \ {Iface}

VARIABLES
  nextIP,   \* where the search last stood
  holder,   \* who holds f.m, or Nil
  pc,       \* where each caller is
  asked,    \* the domain each caller works for
  ip        \* the address each caller has picked or was given

poolVars == <<lruVars, nextIP, holder, pc, asked, ip>>

PoolInit ==
  /\ LRUInit
  /\ nextIP = Network
  /\ holder = Nil
  /\ pc = [c \in Caller |-> "idle"]
  /\ asked = [c \in Caller |-> Nil]
  /\ ip = [c \in Caller |-> Nil]

Goto(c, l) == pc' = [pc EXCEPT ![c] = l]
Pick(c, a) == ip' = [ip EXCEPT ![c] = a]

-----------------------------------------------------------------------------
(* f.m.Lock() *)
PutLock(c) ==
  /\ pc[c] = "lock" /\ holder = Nil
  /\ holder' = c
  /\ Goto(c, "full")
  /\ UNCHANGED <<lruVars, nextIP, asked, ip>>

(* The pool is full: the address of the least recently used domain is to   *)
(* be given away; the domain still has it, and may yet be used.            *)
PutRecycle(c) ==
  /\ pc[c] = "full" /\ IsFull
  /\ Pick(c, GetLastValue)
  /\ Goto(c, "store")
  /\ UNCHANGED <<lruVars, nextIP, holder, asked>>

PutSearch(c) ==
  /\ pc[c] = "full" /\ ~IsFull
  /\ Goto(c, "probe")
  /\ UNCHANGED <<lruVars, nextIP, holder, asked, ip>>

ProbeWrap_past(c) ==
  /\ pc[c] = "probe" /\ nextIP + 1 \notin Value
  /\ nextIP' = nextIP + 1
  /\ UNCHANGED <<lruVars, holder, pc, asked, ip>>

(* Beyond the last address: start again behind the network address.        *)
ProbeWrap(c) ==
  /\ pc[c] = "probe" /\ nextIP + 1 \notin Value
  /\ nextIP' = Network
  /\ UNCHANGED <<lruVars, holder, pc, asked, ip>>

ProbeSkip(c) ==
  /\ pc[c] = "probe" /\ nextIP + 1 \in {Iface, Broadcast}
  /\ nextIP' = nextIP + 1
  /\ UNCHANGED <<lruVars, holder, pc, asked, ip>>

(* Whether the value index has an entry for the address.                   *)
Occupied(a) == KeyOf(a) # Nil

(* Asking whether an address is taken counts as a use of its domain.       *)
ProbeTaken(c) ==
  /\ pc[c] = "probe" /\ nextIP + 1 \in Usable
  /\ Occupied(nextIP + 1)
  /\ nextIP' = nextIP + 1
  /\ GetKeyFromValue(nextIP + 1)
  /\ UNCHANGED <<holder, pc, asked, ip>>

ProbeFree(c) ==
  /\ pc[c] = "probe" /\ nextIP + 1 \in Usable
  /\ ~Occupied(nextIP + 1)
  /\ nextIP' = nextIP + 1
  /\ Pick(c, nextIP + 1)
  /\ Goto(c, "store")
  /\ UNCHANGED <<lruVars, holder, asked>>

(* f.lru.Put(domain, ip), then f.m.Unlock() by the defer.                  *)
PutStore(c) ==
  /\ pc[c] = "store"
  /\ Put(asked[c], ip[c])
  /\ holder' = Nil
  /\ Goto(c, "answer")
  /\ UNCHANGED <<nextIP, asked, ip>>

PutStep(c) ==
  \/ PutRecycle(c) \/ PutSearch(c)
  \/ ProbeWrap(c) \/ ProbeSkip(c) \/ ProbeTaken(c) \/ ProbeFree(c)
  \/ PutStore(c)

-----------------------------------------------------------------------------
InPut(c) == pc[c] \in {"full", "probe", "store"}

(* The addresses the search would step over, because the value index has   *)
(* an entry for them.                                                      *)
Taken == {v \in Value : v2e[v] # Nil}

(* As long as the table has room, the search of Put meets a free address:  *)
(* fakeip.go's `for' loop, which runs with f.m held, comes to an end.      *)
FreeAddressExists == ~IsFull => \E v \in Usable : v2e[v] = Nil

(* The pool never holds more domains than it has addresses for.            *)
BoundedPool == Len(order) <= Capacity

(* Exactly the caller inside Put holds f.m.                                *)
Exclusive == \A c \in Caller : InPut(c) <=> holder = c

(* No two domains of the table have the same address.                      *)
OneDomainPerAddress ==
  \A j, k \in Key : val[j] # Nil /\ val[j] = val[k] => j = k

(* An address of the pool leads back to a domain that has that address.    *)
ReverseSound == \A v \in Value : KeyOf(v) # Nil => val[KeyOf(v)] = v

(* Until the pool is full for the first time (it stays full) the address   *)
(* of every domain of the table leads back to it.                          *)
ReverseWhileRoom ==
  ~IsFull => \A k \in Key : val[k] # Nil => KeyOf(val[k]) = k

(* Two overlapping queries for the new domain k have both put it: its      *)
(* address is the second one, of which the value index knows nothing.      *)
PutTwice(k) == k2e[k] # Nil /\ val[k] # k2e[k].made

(* While the table has room no other domain is given the address that a    *)
(* domain was answered, and a domain's own address changes only by another *)
(* query for it that was already inside Put.  Excepted are the domains of  *)
(* PutTwice: their address may go to another domain at once.               *)
NoStealWhileRoom ==
  [][Len(order) < Capacity =>
       \A k \in Key : val[k] # Nil =>
         /\ \A j \in Key \ {k} :
              val'[j] = val[k] /\ val[j] # val[k] => PutTwice(k)
         /\ val'[k] # val[k] =>
              \E c \in Caller : pc[c] = "store" /\ asked[c] = k]_poolVars

=============================================================================

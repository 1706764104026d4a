------------------------------- MODULE TunNat -------------------------------
(***************************************************************************)
(* ingress/tun: the address translation between the applications behind    *)
(* the TUN device and the relay sockets of the proxy.  An application's    *)
(* packet gets a source address out of ipPool, a FakeIP of its own, and    *)
(* the relay as its destination; what the relay sends to that address is   *)
(* translated back.  One table for each protocol holds both directions:    *)
(* source -> mapped address and mapped address -> source, each with the    *)
(* destination the source first asked for.                                 *)
(*                                                                         *)
(* The packet loop (Run) is the only caller of ipPool.  A packet that the  *)
(* loop writes is at the relay when it is in `wire'; the relay's           *)
(* goroutines read the tables whenever they come to it.  The relay's       *)
(* listeners have an ordinary address, the TUN interface's own, so others  *)
(* can reach them without the loop (StrangerComes).  The machine's own     *)
(* applications send from that address too: Iface may be in Host.          *)
(***************************************************************************)
EXTENDS FakeIP

CONSTANTS
  Loop,     \* the packet loop: the one caller of the pool
  Proto,    \* "tcp", "udp"
  Host,     \* addresses of the machines that reach the device or the relay
  Port,     \* the ports they send from
  Source    \* the pairs of these whose packets the device gives the loop

Dest   == Key                           \* destinations, as dstAddr.String()
Addr   == (Host \cup Value) \X Port     \* keys of the tables
Entry  == [from : Dest, to : Addr, wide : BOOLEAN]
Packet == [proto : Proto, src : Source, dst : Dest, at : Addr]

ASSUME TunNatAssumption ==
  /\ Caller = {Loop}
  /\ Source \subseteq Host \X Port
  /\ Host \cap Usable = {}
  /\ Nil \notin Entry

VARIABLES
  nat,        \* t.tcpNat and t.udpNat
  cur,        \* the packet whose source the loop is mapping, or Nil
  wire,       \* packets the relay has yet to read
  links,      \* whom the relay may send to, and for whom it does
  dialed,     \* each destination asked for and the one the relay went to
  lost,       \* sources whose packets the kernel dropped on the way
  delivered,  \* what applications were sent, and for which flow
  crashed     \* whose missing entry made a type assertion panic

natVars == <<nat, wire, links, dialed, lost, delivered, crashed>>
vars    == <<poolVars, natVars, cur>>

Init ==
  /\ PoolInit
  /\ nat = [p \in Proto |-> [a \in Addr |-> Nil]]
  /\ cur = Nil
  /\ wire = {} /\ links = {} /\ dialed = {} /\ lost = {} /\ delivered = {}
  /\ crashed = "no"

Idle == pc[Loop] = "idle" /\ crashed = "no"

-----------------------------------------------------------------------------
(* The first four bytes of the mapped address go into the packet.  An      *)
(* address out of a full pool is in the 16-byte form, so these are zeros,  *)
(* and the kernel takes no packet from 0.0.0.0.                            *)
Forward(p, s, d, m, wide) ==
  IF wide
  THEN lost' = lost \cup {s} /\ UNCHANGED wire
  ELSE /\ wire' = wire \cup {[proto |-> p, src |-> s, dst |-> d, at |-> m]}
       /\ UNCHANGED lost

Mapped_never(p, s) == FALSE

(* Whether the source is in the table already, for whatever destination.   *)
Mapped(p, s) == nat[p][s] # Nil

(* A packet of a source the table knows.                                   *)
FromKnown(p, s, d) ==
  /\ Idle /\ Mapped(p, s)
  /\ Forward(p, s, d, nat[p][s].to, nat[p][s].wide)
  /\ UNCHANGED <<poolVars, nat, cur, links, dialed, delivered, crashed>>

(* A packet of a new source: ask the pool for an address.  ipPool.Put does *)
(* not look whether the destination has one.                               *)
FromNew(p, s, d) ==
  /\ Idle /\ ~Mapped(p, s)
  /\ cur' = [proto |-> p, src |-> s, wide |-> FALSE]
  /\ asked' = [asked EXCEPT ![Loop] = d]
  /\ Goto(Loop, "lock")
  /\ UNCHANGED <<lruVars, nextIP, holder, ip, natVars>>

PoolLock == PutLock(Loop) /\ UNCHANGED <<natVars, cur>>

(* Put goes on.  If the pool is full the address comes out of ParseIP.     *)
PoolPut ==
  /\ PutStep(Loop)
  /\ cur' = [cur EXCEPT !.wide = @ \/ (pc[Loop] = "full" /\ IsFull)]
  /\ UNCHANGED natVars

Bind_oneWay(tab, s, m, d, wide) ==
  [tab EXCEPT ![s] = [from |-> d, to |-> m, wide |-> wide]]
Bind_swapped(tab, s, m, d, wide) ==
  [tab EXCEPT ![s] = [from |-> d, to |-> m, wide |-> wide],
              ![m] = [from |-> d, to |-> m, wide |-> wide]]

(* Both directions are stored.                                             *)
Bind(tab, s, m, d, wide) ==
  [tab EXCEPT ![s] = [from |-> d, to |-> m, wide |-> wide],
              ![m] = [from |-> d, to |-> s, wide |-> FALSE]]

(* The address is there: store the entries and write the packet.           *)
MapSource ==
  LET p == cur.proto
      s == cur.src
      d == asked[Loop]
      m == <<ip[Loop], s[2]>>
  IN  /\ pc[Loop] = "answer"
      /\ nat' = [nat EXCEPT ![p] = Bind(nat[p], s, m, d, cur.wide)]
      /\ Forward(p, s, d, m, cur.wide)
      /\ cur' = Nil
      /\ asked' = [asked EXCEPT ![Loop] = Nil]
      /\ Pick(Loop, Nil)
      /\ Goto(Loop, "idle")
      /\ UNCHANGED <<lruVars, nextIP, holder, links, dialed, delivered, crashed>>

(* The relay takes a connection or a datagram, looks its sender up and     *)
(* goes to the destination it finds.  With no entry the type assertion     *)
(* panics.                                                                 *)
RelayTakes(q) ==
  LET e == nat[q.proto][q.at]
  IN  /\ crashed = "no" /\ q \in wire
      /\ wire' = wire \ {q}
      /\ IF e = Nil
         THEN crashed' = "flow" /\ UNCHANGED <<links, dialed>>
         ELSE /\ dialed' = dialed \cup
                   {[src |-> q.src, asked |-> q.dst, got |-> e.from]}
              /\ links' = links \cup
                   {[proto |-> q.proto, src |-> q.src, at |-> q.at, dst |-> e.from]}
              /\ UNCHANGED crashed
      /\ UNCHANGED <<poolVars, nat, cur, lost, delivered>>

(* Someone reaches the relay's listener or socket without the loop.  An    *)
(* address that has no entry makes the same type assertion panic.  One     *)
(* that has an entry, of a flow from there, is relayed to that flow's      *)
(* destination and answered without the loop, which changes nothing here.  *)
StrangerComes(p, a) ==
  /\ crashed = "no" /\ nat[p][a] = Nil
  /\ crashed' = "stranger"
  /\ UNCHANGED <<poolVars, nat, cur, wire, links, dialed, lost, delivered>>

(* The relay sends something for the flow, and the loop translates it      *)
(* back.  Without an entry a segment is ignored and a datagram panics.     *)
FromRelay(l) ==
  LET e == nat[l.proto][l.at]
  IN  /\ Idle /\ l \in links
      /\ IF e # Nil
         THEN /\ delivered' = delivered \cup
                   {[src |-> l.src, dst |-> l.dst, to |-> e.to, from |-> e.from]}
              /\ UNCHANGED crashed
         ELSE /\ crashed' = IF l.proto = "udp" THEN "flow" ELSE crashed
              /\ UNCHANGED delivered
      /\ UNCHANGED <<poolVars, nat, cur, wire, links, dialed, lost>>

Next ==
  \/ \E p \in Proto, s \in Source, d \in Dest : FromKnown(p, s, d) \/ FromNew(p, s, d)
  \/ PoolLock \/ PoolPut \/ MapSource
  \/ \E q \in wire : RelayTakes(q)
  \/ \E p \in Proto, a \in Host \X Port : StrangerComes(p, a)
  \/ \E l \in links : FromRelay(l)

Spec == Init /\ [][Next]_vars

-----------------------------------------------------------------------------
(* Whatever packet the loop has written, the relay finds its sender's      *)
(* entry when it reads it, and whatever the relay sends for it the loop    *)
(* finds the entry of: no flow's lookup fails.  It does not say that the   *)
(* program goes on: a stranger who reaches the relay without the loop has  *)
(* no entry, and ends it.                                                  *)
NoMissingEntry == crashed # "flow"

(* What the relay sends for a flow reaches the application that started    *)
(* it, and seems to come from where the relay went for it.                 *)
RepliesReachAsker ==
  \A r \in delivered : r.to = r.src /\ r.from = r.dst

(* A flow keeps its translation for as long as the program runs.           *)
StickyFlow ==
  [][\A p \in Proto, a \in Addr :
       nat[p][a] # Nil => nat'[p][a] = nat[p][a]]_vars

=============================================================================

------------------------------ MODULE Shutdown ------------------------------
(***************************************************************************)
(* How the program ends: the main goroutine gets a signal and closes the   *)
(* DNS server, which waits for the queries it is handling, then the        *)
(* ingresses, then the egresses.  A query is forwarded from a local        *)
(* address, so that its handler is a reader of package iface, as are the   *)
(* dialers of the egresses; the ingress is a general one with a UDP        *)
(* transport.                                                              *)
(***************************************************************************)
EXTENDS Naturals, FiniteSets

CONSTANTS
  Query,              \* the queries that come; a bound of the model
  Upstreams,          \* how many upstreams a query is forwarded to
  Dialer,             \* other goroutines that ask for an address
  IfName, Nets, Nil   \* of Iface

VARIABLES
  net, known, held, upd, pc, wants, got,   \* of Iface
  query,    \* where the handler of each query is
  lookups,  \* how many addresses each has asked for, one per upstream
  main,     \* where the main goroutine is
  late,     \* the five seconds are over
  status,   \* the ingress's status
  sock,     \* the ingress's UDP socket
  loop,     \* handlePacket
  crashed   \* the process panicked

iface == <<net, known, held, upd, pc, wants, got>>
exit  == <<query, lookups, main, late, status, sock, loop, crashed>>
vars  == <<net, known, held, upd, pc, wants, got,
           query, lookups, main, late, status, sock, loop, crashed>>

ASSUME ShutdownAssumption ==
  /\ Upstreams \in Nat \ {0}
  /\ Nets \subseteq [IfName -> SUBSET {4, 6}] \cup {Nil}
  /\ Nil \notin [IfName -> SUBSET {4, 6}] /\ Nil \notin {4, 6}

I == INSTANCE Iface WITH Reader <- Query \cup Dialer

Init ==
  /\ I!Init
  /\ query = [q \in Query |-> "none"] /\ lookups = [q \in Query |-> 0]
  /\ main = "serve" /\ late = FALSE
  /\ status = "Running" /\ sock = "open" /\ loop = "check"
  /\ crashed = FALSE

Alive == ~crashed /\ main # "exit"

-----------------------------------------------------------------------------
(* A query and its handler, which needs an address for each upstream it is *)
(* going to ask, and then waits for them, at most for a second.            *)
Looks(q) ==
  /\ I!Ask(q, 4)
  /\ query' = [query EXCEPT ![q] = "address"]
  /\ lookups' = [lookups EXCEPT ![q] = @ + 1]

QueryComes(q) ==
  /\ Alive /\ main = "serve" /\ query[q] = "none"
  /\ Looks(q)
  /\ UNCHANGED <<main, late, status, sock, loop, crashed>>

HasAddress(q) == query[q] = "address" /\ pc[q] = "idle"

QueryAsksNext(q) ==
  /\ Alive /\ HasAddress(q) /\ lookups[q] < Upstreams
  /\ Looks(q)
  /\ UNCHANGED <<main, late, status, sock, loop, crashed>>

QueryAsks(q) ==
  /\ Alive /\ HasAddress(q) /\ lookups[q] = Upstreams
  /\ query' = [query EXCEPT ![q] = "upstream"]
  /\ UNCHANGED <<iface, lookups, main, late, status, sock, loop, crashed>>

QueryEnds(q) ==
  /\ Alive /\ query[q] = "upstream"
  /\ query' = [query EXCEPT ![q] = "done"]
  /\ UNCHANGED <<iface, lookups, main, late, status, sock, loop, crashed>>

(* No upstream has answered, or there was no address to ask from (an       *)
(* update may bring one before GetIP has tried IPv6 as well): the handler  *)
(* writes a message that is nil.                                           *)
QueryPanics(q) ==
  /\ Alive
  /\ query[q] = "upstream" \/ (HasAddress(q) /\ got[q] = "error")
  /\ crashed' = TRUE
  /\ UNCHANGED <<iface, query, lookups, main, late, status, sock, loop>>

IfaceStep ==
  /\ I!Step \/ \E r \in Dialer, f \in I!Family : I!Ask(r, f)
  /\ UNCHANGED exit

-----------------------------------------------------------------------------
(* handlePacket.                                                           *)
LoopChecks ==
  /\ Alive /\ loop = "check"
  /\ IF status = "Closed"
     THEN loop' = "gone" /\ sock' = "closed"
     ELSE loop' = "recv" /\ UNCHANGED sock
  /\ UNCHANGED <<iface, query, lookups, main, late, status, crashed>>

LoopReads ==
  /\ Alive /\ loop = "recv" /\ sock = "open"
  /\ loop' = "check"
  /\ UNCHANGED <<iface, query, lookups, main, late, status, sock, crashed>>

(* The read failed and there is no address to log: a nil dereference.      *)
LoopReadFails ==
  /\ Alive /\ loop = "recv" /\ sock = "closed"
  /\ crashed' = TRUE
  /\ UNCHANGED <<iface, query, lookups, main, late, status, sock, loop>>

-----------------------------------------------------------------------------
(* main.Run from the signal on.  The timer starts, then select evaluates   *)
(* closeall() before it waits for either channel.                          *)
Signal ==
  /\ Alive /\ main = "serve"
  /\ main' = "dns"
  /\ UNCHANGED <<iface, query, lookups, late, status, sock, loop, crashed>>

FiveSeconds ==
  /\ Alive /\ main # "serve" /\ ~late
  /\ late' = TRUE
  /\ UNCHANGED <<iface, query, lookups, main, status, sock, loop, crashed>>

(* Shutdown returns when every handler has.                                *)
DnsDown ==
  /\ Alive /\ main = "dns"
  /\ \A q \in Query : query[q] \in {"none", "done"}
  /\ main' = "conns"
  /\ UNCHANGED <<iface, query, lookups, late, status, sock, loop, crashed>>

(* General.Close: close the connections, then set the status.              *)
IngressConns ==
  /\ Alive /\ main = "conns"
  /\ sock' = "closed" /\ main' = "mark"
  /\ UNCHANGED <<iface, query, lookups, late, status, loop, crashed>>

IngressMark_unbuffered ==
  /\ Alive /\ main = "mark"
  /\ status' = "Closed"
  /\ UNCHANGED <<iface, query, lookups, main, late, sock, loop, crashed>>

IngressMark ==
  /\ Alive /\ main = "mark"
  /\ status' = "Closed" /\ main' = "egress"
  /\ UNCHANGED <<iface, query, lookups, late, sock, loop, crashed>>

EgressClose ==
  /\ Alive /\ main = "egress"
  /\ main' = "exit"
  /\ UNCHANGED <<iface, query, lookups, late, status, sock, loop, crashed>>

MainStep == DnsDown \/ IngressConns \/ IngressMark \/ EgressClose
LoopStep == LoopChecks \/ LoopReadFails
QueryStep(q) ==
  QueryAsksNext(q) \/ QueryAsks(q) \/ QueryEnds(q) \/ QueryPanics(q)

Next ==
  \/ IfaceStep
  \/ \E q \in Query : QueryComes(q) \/ QueryStep(q)
  \/ LoopStep \/ LoopReads
  \/ Signal \/ FiveSeconds \/ MainStep

Fairness ==
  /\ I!Fairness
  /\ \A q \in Query : WF_vars(QueryStep(q))
  /\ WF_vars(LoopStep) /\ WF_vars(MainStep) /\ WF_vars(FiveSeconds)

Spec == Init /\ [][Next]_vars /\ Fairness

-----------------------------------------------------------------------------
(* Whoever asks for an address is answered, and what is answered becomes   *)
(* and stays true once the network is still (see Iface).                   *)
ReadersServed == I!ReadersServed
CatchesUp == I!CatchesUp

(* After the signal the process ends, if only by a panic, unless an update *)
(* of the addresses has failed: handlers may then wait for ever.           *)
Ends == []I!NetUp => (main # "serve" ~> ~Alive)

(* Five seconds after the signal the process ends, whatever still runs.    *)
EndsInTime == late ~> ~Alive

=============================================================================

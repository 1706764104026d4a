----------------------------- MODULE TunHijack ------------------------------
(***************************************************************************)
(* DNS queries that a TUN takes for itself: the UDP loop of the relay puts *)
(* them into the channel t.dnsQuery, one worker takes them out, asks the   *)
(* DNS server over the one socket it has, waits at most a second for       *)
(* whatever arrives there and writes it to the client.                     *)
(*                                                                         *)
(* Queries are numbered as the loop reads them.  A client is known by its  *)
(* query, an answer by the query it is an answer to.                       *)
(***************************************************************************)
EXTENDS Integers, Sequences, FiniteSets

CONSTANTS
  N,        \* how many queries are read; a bound of the model
  Room      \* what the channel holds, 200 in the code

ASSUME TunHijackAssumption == N \in Nat /\ Room \in Nat \ {0}

None  == 0
Query == 1 .. N

VARIABLES
  next,     \* the query the loop reads next
  loop,     \* the query the loop wants to put into the channel
  queue,    \* t.dnsQuery
  works,    \* whether the worker has its socket
  asking,   \* the query the worker waits for an answer to
  server,   \* the queries the server has
  inbox,    \* the answers that wait at the worker's socket
  told,     \* what the clients were written
  late      \* the queries the worker gave up waiting for

hijackVars == <<next, loop, queue, works, asking, server, inbox, told, late>>

(* Without a socket the worker never starts; relay reports that to Run,    *)
(* but the loop goes on.                                                   *)
HijackInit ==
  /\ next = 1 /\ loop = None /\ queue = << >>
  /\ works \in BOOLEAN
  /\ asking = None /\ server = {} /\ inbox = << >>
  /\ told = {} /\ late = {}

-----------------------------------------------------------------------------
(* The UDP loop: a datagram that NeedHijack says is a query; other         *)
(* datagrams it only handles while it does not wait for the channel.       *)
ReadQuery ==
  /\ loop = None /\ next \in Query
  /\ loop' = next /\ next' = next + 1
  /\ UNCHANGED <<queue, works, asking, server, inbox, told, late>>

PutQuery ==
  /\ loop # None /\ Len(queue) < Room
  /\ queue' = Append(queue, loop)
  /\ loop' = None
  /\ UNCHANGED <<next, works, asking, server, inbox, told, late>>

-----------------------------------------------------------------------------
(* The worker takes a query and writes it to the server,                   *)
Ask ==
  /\ works /\ asking = None /\ queue # << >>
  /\ asking' = Head(queue) /\ queue' = Tail(queue)
  /\ server' = server \cup {Head(queue)}
  /\ UNCHANGED <<next, loop, works, inbox, told, late>>

AskFails_sent ==
  /\ works /\ asking = None /\ queue # << >>
  /\ queue' = Tail(queue)
  /\ server' = server \cup {Head(queue)}
  /\ UNCHANGED <<next, loop, works, asking, inbox, told, late>>

(* or fails to and forgets it.                                             *)
AskFails ==
  /\ works /\ asking = None /\ queue # << >>
  /\ queue' = Tail(queue)
  /\ UNCHANGED <<next, loop, works, asking, server, inbox, told, late>>

(* What it reads next goes to the client it asks for.                      *)
ReadAnswer ==
  /\ asking # None /\ inbox # << >>
  /\ told' = told \cup {[to |-> asking, answer |-> Head(inbox)]}
  /\ inbox' = Tail(inbox)
  /\ asking' = None
  /\ UNCHANGED <<next, loop, queue, works, server, late>>

TimesOut_never == FALSE /\ UNCHANGED hijackVars

(* The deadline comes, maybe at the moment an answer does.                 *)
TimesOut ==
  /\ asking # None
  /\ late' = late \cup {asking}
  /\ asking' = None
  /\ UNCHANGED <<next, loop, queue, works, server, inbox, told>>

-----------------------------------------------------------------------------
(* The server has a goroutine for each query, so answers come in any       *)
(* order, or not at all.                                                   *)
Answer(q) ==
  /\ q \in server
  /\ server' = server \ {q}
  /\ inbox' = Append(inbox, q)
  /\ UNCHANGED <<next, loop, queue, works, asking, told, late>>

AnswerLost(q) ==
  /\ q \in server
  /\ server' = server \ {q}
  /\ UNCHANGED <<next, loop, queue, works, asking, inbox, told, late>>

HijackNext ==
  \/ ReadQuery \/ PutQuery
  \/ Ask \/ AskFails \/ ReadAnswer \/ TimesOut
  \/ \E q \in Query : Answer(q) \/ AnswerLost(q)

(* Both goroutines go on when they can; a second is over some time.        *)
HijackFairness ==
  WF_hijackVars(PutQuery) /\ WF_hijackVars(Ask \/ AskFails) /\ WF_hijackVars(ReadAnswer \/ TimesOut)

HijackSpec == HijackInit /\ [][HijackNext]_hijackVars /\ HijackFairness

-----------------------------------------------------------------------------
(* The first query the worker has not taken yet.                           *)
First == next - Len(queue) - (IF loop = None THEN 0 ELSE 1)

(* Every variable has its type; the queries that wait are those read last, *)
(* in the order they were read, and the one asked for was taken last.      *)
HijackTypeOK ==
  /\ next \in 1 .. N + 1 /\ loop \in {None, next - 1}
  /\ queue \in Seq(Query) /\ Len(queue) <= Room
  /\ \A i \in DOMAIN queue : queue[i] = First + i - 1
  /\ works \in BOOLEAN
  /\ asking \in {None, First - 1}
  /\ server \subseteq 1 .. First - 1
  /\ inbox \in Seq(Query) /\ \A i \in DOMAIN inbox : inbox[i] < First
  /\ told \subseteq [to : Query, answer : Query]
  /\ late \subseteq Query

(* A client is sent the answer to its own query, or to an earlier one, and *)
(* that only after the worker once gave up: the answer it did not wait for *)
(* then comes to the next client, that client's to the one after, and so   *)
(* on.                                                                     *)
RightOrLate ==
  \A x \in told :
    \/ x.answer = x.to
    \/ x.answer < x.to /\ \E g \in late : g <= x.answer

Over(q) == /\ q < next /\ q \notin {loop, asking}
           /\ \A i \in DOMAIN queue : queue[i] # q

(* Every query that is read is done with some time, however full the       *)
(* channel is and whatever the server does, so the loop is never stopped   *)
(* for good by a full channel, if the worker has started.                  *)
QueriesEnd == \A q \in Query : q < next /\ works ~> Over(q)

=============================================================================

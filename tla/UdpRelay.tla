------------------------------ MODULE UdpRelay ------------------------------
(***************************************************************************)
(* How datagrams of clients reach remotes and back: component/nat, one     *)
(* table for the whole process from a client's address to a socket; the    *)
(* loops of the ingresses that read datagrams and consult it               *)
(* (handlePacket, and the UDP loop of the TUN's relay); and ProcessPacket  *)
(* of the egresses, which opens the socket, enters it in the table and     *)
(* starts the goroutine that reads from it.                                *)
(*                                                                         *)
(* A link of the table holds the socket and the address later datagrams    *)
(* are written to, and that is the socket's own local address: what is     *)
(* written through a link arrives at the socket itself.                    *)
(***************************************************************************)
EXTENDS Integers, Sequences, FiniteSets

CONSTANTS
  Ingress,      \* the ingresses that read datagrams
  Tun,          \* those of them that are TUN devices
  Client,       \* client addresses, the keys of the table
  Serves,       \* whose datagrams each ingress reads
  Dest,         \* destinations
  Direct,       \* those the router sends to the egress DIRECT
  MaxSock,      \* how many sockets a run opens; a bound of the model
  Nil

ASSUME UdpRelayAssumption ==
  /\ Tun \subseteq Ingress /\ Direct \subseteq Dest
  /\ Serves \in [Ingress -> SUBSET Client]
  /\ MaxSock \in Nat
  /\ Nil \notin Client \X Dest

NoLink   == 0
Sock     == 1 .. MaxSock
Datagram == {"remote", "self"}      \* where a datagram at a socket came from

VARIABLES
  table,    \* nat.table: the socket of each client
  loop,     \* the datagram an ingress loop is dispatching, or Nil
  hand,     \* the socket of the link an ingress loop is about to write to
  socks,    \* the sockets, in the order they were opened
  inbox,    \* what waits at each socket
  lost,     \* what each loop wrote to a socket with no goroutine and no link
  echoed,   \* the clients that were sent their own datagrams
  crashed   \* a type assertion failed

vars == <<table, loop, hand, socks, inbox, lost, echoed, crashed>>

Init ==
  /\ table = [c \in Client |-> NoLink]
  /\ loop = [i \in Ingress |-> Nil]
  /\ hand = [i \in Ingress |-> NoLink]
  /\ socks = << >>
  /\ inbox = [s \in Sock |-> {}]
  /\ lost = [k \in Ingress \X Sock |-> 0]
  /\ echoed = {}
  /\ crashed = FALSE

Opened == DOMAIN socks

-----------------------------------------------------------------------------
Idle(i) == ~crashed /\ loop[i] = Nil /\ hand[i] = NoLink

ReadNew_unasked(i, c, d) ==
  /\ Idle(i)
  /\ loop' = [loop EXCEPT ![i] = <<c, d>>]
  /\ UNCHANGED <<table, hand, socks, inbox, lost, echoed, crashed>>

(* A datagram of a client that has no link: go to the router.              *)
ReadNew(i, c, d) ==
  /\ Idle(i) /\ table[c] = NoLink
  /\ loop' = [loop EXCEPT ![i] = <<c, d>>]
  /\ UNCHANGED <<table, hand, socks, inbox, lost, echoed, crashed>>

(* A datagram of a client that has a link, to a socket that speaks the     *)
(* proxy's protocol: the loop has the socket now, whatever becomes of the  *)
(* link,                                                                   *)
ReadLinked(i, c) ==
  /\ Idle(i) /\ table[c] # NoLink
  /\ socks[table[c]].dst \notin Direct \/ i \in Tun
  /\ hand' = [hand EXCEPT ![i] = table[c]]
  /\ UNCHANGED <<table, loop, socks, inbox, lost, echoed, crashed>>

(* and writes the datagram to it, for the address of the link.  Nobody     *)
(* closes the socket when its goroutine ends, so the write succeeds then.  *)
(* `lost' counts up to two.                                                *)
WriteLinked(i) ==
  LET s == hand[i]
  IN  /\ ~crashed /\ s # NoLink
      /\ inbox' = [inbox EXCEPT ![s] = @ \cup {"self"}]
      /\ lost' = IF socks[s].reader = "done" /\ lost[<<i, s>>] < 2
                 THEN [lost EXCEPT ![<<i, s>>] = @ + 1] ELSE lost
      /\ hand' = [hand EXCEPT ![i] = NoLink]
      /\ UNCHANGED <<table, loop, socks, echoed, crashed>>

(* A link to a bare socket of DIRECT: only the TUN's loop can write to it, *)
(* handlePacket asserts the other type and panics.                         *)
ReadDirect(i, c) ==
  /\ Idle(i) /\ table[c] # NoLink
  /\ socks[table[c]].dst \in Direct /\ i \notin Tun
  /\ crashed' = TRUE
  /\ UNCHANGED <<table, loop, hand, socks, inbox, lost, echoed>>

(* ProcessPacket: no address to bind to, or no socket to be had.           *)
OpenFails(i) ==
  /\ ~crashed /\ loop[i] # Nil
  /\ loop' = [loop EXCEPT ![i] = Nil]
  /\ UNCHANGED <<table, hand, socks, inbox, lost, echoed, crashed>>

(* ProcessPacket: a new socket takes the client's place in the table,      *)
(* whatever has been there since the loop looked.                          *)
Open(i) ==
  LET c == loop[i][1]
      d == loop[i][2]
  IN  /\ ~crashed /\ loop[i] # Nil
      /\ Len(socks) < MaxSock
      /\ socks' = Append(socks, [client |-> c, dst |-> d, reader |-> "send"])
      /\ table' = [table EXCEPT ![c] = Len(socks) + 1]
      /\ loop' = [loop EXCEPT ![i] = Nil]
      /\ UNCHANGED <<hand, inbox, lost, echoed, crashed>>

(* The goroutine of the socket sends the first datagram to the remote,     *)
SendFirst(s) ==
  /\ ~crashed /\ socks[s].reader = "send"
  /\ socks' = [socks EXCEPT ![s].reader = "read"]
  /\ UNCHANGED <<table, loop, hand, inbox, lost, echoed, crashed>>

(* the remote, which has the first datagram, sends something,              *)
RemoteSends(s) ==
  /\ ~crashed /\ socks[s].reader = "read"
  /\ inbox' = [inbox EXCEPT ![s] = @ \cup {"remote"}]
  /\ UNCHANGED <<table, loop, hand, socks, lost, echoed, crashed>>

(* and what arrives at the socket is written to the client (through the    *)
(* ingress its first datagram came by, which no property is about).        *)
Deliver(s, x) ==
  /\ ~crashed /\ socks[s].reader = "read" /\ x \in inbox[s]
  /\ inbox' = [inbox EXCEPT ![s] = @ \ {x}]
  /\ echoed' = IF x = "self" THEN echoed \cup {socks[s].client} ELSE echoed
  /\ UNCHANGED <<table, loop, hand, socks, lost, crashed>>

(* An error of a read or write, or five minutes without a datagram: the    *)
(* goroutine reads no more.  Its link is still there,                      *)
ReaderStops(s) ==
  /\ ~crashed /\ socks[s].reader \in {"send", "read"}
  /\ socks' = [socks EXCEPT ![s].reader = "stop"]
  /\ UNCHANGED <<table, loop, hand, inbox, lost, echoed, crashed>>

LinkDeleted_keepsLink(s) ==
  /\ ~crashed /\ socks[s].reader = "stop"
  /\ socks' = [socks EXCEPT ![s].reader = "done"]
  /\ UNCHANGED <<table, loop, hand, inbox, lost, echoed, crashed>>

(* until what it has deferred deletes its client from the table, whoever's *)
(* link that is.                                                           *)
LinkDeleted(s) ==
  /\ ~crashed /\ socks[s].reader = "stop"
  /\ socks' = [socks EXCEPT ![s].reader = "done"]
  /\ table' = [table EXCEPT ![socks[s].client] = NoLink]
  /\ UNCHANGED <<loop, hand, inbox, lost, echoed, crashed>>

Next ==
  \/ \E i \in Ingress :
       \/ \E c \in Serves[i] :
            \/ \E d \in Dest : ReadNew(i, c, d)
            \/ ReadLinked(i, c) \/ ReadDirect(i, c)
       \/ WriteLinked(i) \/ OpenFails(i) \/ Open(i)
  \/ \E s \in Opened :
       \/ SendFirst(s) \/ RemoteSends(s) \/ ReaderStops(s) \/ LinkDeleted(s)
       \/ \E x \in Datagram : Deliver(s, x)

Spec == Init /\ [][Next]_vars

-----------------------------------------------------------------------------
Reader    == {"send", "read", "stop", "done"}
SockState == [client : Client, dst : Dest, reader : Reader]

TypeOK ==
  /\ table \in [Client -> Sock \cup {NoLink}]
  /\ loop \in [Ingress -> (Client \X Dest) \cup {Nil}]
  /\ \A i \in Ingress : loop[i] # Nil => loop[i][1] \in Serves[i]
  /\ \A c \in Client : table[c] # NoLink => table[c] \in Opened
  /\ hand \in [Ingress -> Sock \cup {NoLink}]
  /\ \A i \in Ingress : hand[i] # NoLink => hand[i] \in Opened
  /\ socks \in Seq(SockState) /\ Len(socks) <= MaxSock
  /\ inbox \in [Sock -> SUBSET Datagram]
  /\ lost \in [Ingress \X Sock -> 0 .. 2]
  /\ echoed \subseteq Client
  /\ crashed \in BOOLEAN

(* Once the goroutine of a socket is over and has deleted the link, an     *)
(* ingress writes at most the one datagram to it of which the loop had     *)
(* looked the link up before: the table never leads there again, whichever *)
(* goroutines delete and replace links of the same client meanwhile.       *)
LosesOneAtMost == \A i \in Ingress, s \in Sock : lost[<<i, s>>] <= 1

(* The clients of which all datagrams come by the same ingress.            *)
OneWay == {c \in Client : \A i, j \in Ingress :
                            c \in Serves[i] /\ c \in Serves[j] => i = j}

(* As long as a socket of a client is read, it is the client's link, so a  *)
(* client keeps the address its remotes know it by.  Two ingresses may ask *)
(* for a link of the same client at once, and one replaces the other's.    *)
LiveLinkKept ==
  \A s \in Opened :
    socks[s].client \in OneWay /\ socks[s].reader # "done"
      => table[socks[s].client] = s

(* A link is not replaced by another one without having been deleted.      *)
LinksNotReplaced ==
  [][\A c \in OneWay :
       table[c] # NoLink /\ table'[c] # NoLink => table'[c] = table[c]]_vars

(* Clients are sent what remotes sent, never their own datagrams.          *)
NoEcho == echoed = {}

=============================================================================

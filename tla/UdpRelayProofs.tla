--------------------------- MODULE UdpRelayProofs ---------------------------
(***************************************************************************)
(* Proofs about UdpRelay, for any ingresses, clients, destinations and     *)
(* number of sockets, and at the end about ShadowPacket, which writes what *)
(* the relay has for a client of a Shadowsocks ingress.                    *)
(***************************************************************************)
EXTENDS UdpRelay, ShadowPacket, SequenceTheorems, TLAPS

USE UdpRelayAssumption DEF UdpRelayAssumption, NoLink, Sock

(* What is known of a socket that was opened, and of the sockets when the  *)
(* goroutine of one of them moves on.                                      *)
LEMMA SockOpened ==
  ASSUME TypeOK, NEW s \in Opened
  PROVE  /\ s \in 1 .. Len(socks) /\ s \in Sock
         /\ socks[s] \in SockState
         /\ socks[s].client \in Client
<1>1. socks \in Seq(SockState) /\ Len(socks) <= MaxSock
  BY DEF TypeOK
<1>2. s \in 1 .. Len(socks) /\ s \in Sock
  BY <1>1 DEF Opened
<1>3. socks[s] \in SockState
  BY <1>1, <1>2, ElementOfSeq
<1> QED
  BY <1>2, <1>3 DEF SockState

LEMMA ReaderMoves ==
  ASSUME TypeOK, NEW s \in Opened, NEW r \in Reader,
         socks' = [socks EXCEPT ![s].reader = r]
  PROVE  /\ socks' \in Seq(SockState) /\ Len(socks') = Len(socks)
         /\ DOMAIN socks' = DOMAIN socks
         /\ socks'[s].client = socks[s].client /\ socks'[s].reader = r
         /\ \A t \in Opened : t # s => socks'[t] = socks[t]
<1> DEFINE e == [socks[s] EXCEPT !.reader = r]
<1>1. socks \in Seq(SockState) /\ s \in 1 .. Len(socks) /\ socks[s] \in SockState
  BY SockOpened DEF TypeOK
<1>2. e \in SockState /\ e.client = socks[s].client /\ e.reader = r
  BY <1>1 DEF SockState, Reader
<1>3. socks' = [socks EXCEPT ![s] = e]
  OBVIOUS
<1> HIDE DEF e
<1>4. socks' \in Seq(SockState) /\ Len(socks') = Len(socks)
  <2>1. /\ [socks EXCEPT ![s] = e] \in Seq(SockState)
        /\ Len([socks EXCEPT ![s] = e]) = Len(socks)
    BY <1>1, <1>2, ExceptSeq, SMTT(30)
  <2> QED
    BY <2>1, <1>3
<1>5. DOMAIN socks' = DOMAIN socks /\ s \in DOMAIN socks
  BY <1>1, <1>3
<1> QED
  BY <1>2, <1>3, <1>4, <1>5 DEF Opened

(* Every variable keeps its type, and links and hands hold sockets that    *)
(* were opened.                                                            *)
THEOREM TypeCorrect == Spec => []TypeOK
<1>1. Init => TypeOK
  <2> SUFFICES ASSUME Init PROVE TypeOK
    OBVIOUS
  <2>1. socks \in Seq(SockState) /\ Len(socks) <= MaxSock
    BY DEF Init
  <2>2. /\ table \in [Client -> Sock \cup {NoLink}] /\ inbox \in [Sock -> SUBSET Datagram]
        /\ hand \in [Ingress -> Sock \cup {NoLink}]
        /\ lost \in [Ingress \X Sock -> 0 .. 2]
    BY DEF Init
  <2>3. loop \in [Ingress -> (Client \X Dest) \cup {Nil}]
    BY DEF Init
  <2> QED
    BY <2>1, <2>2, <2>3 DEF Init, TypeOK
<1>2. TypeOK /\ [Next]_vars => TypeOK'
  <2> SUFFICES ASSUME TypeOK, [Next]_vars PROVE TypeOK'
    OBVIOUS
  <2> USE DEF Opened
  <2>1. CASE UNCHANGED vars
    BY <2>1 DEF TypeOK, vars
  <2>2. ASSUME NEW i \in Ingress, NEW c \in Serves[i], NEW d \in Dest, ReadNew(i, c, d)
        PROVE  TypeOK'
    BY <2>2 DEF TypeOK, ReadNew
  <2>3. ASSUME NEW i \in Ingress, NEW c \in Serves[i], ReadLinked(i, c)
        PROVE  TypeOK'
    BY <2>3 DEF TypeOK, ReadLinked
  <2>4. ASSUME NEW i \in Ingress, NEW c \in Serves[i], ReadDirect(i, c)
        PROVE  TypeOK'
    BY <2>4 DEF TypeOK, ReadDirect
  <2>5. ASSUME NEW i \in Ingress, WriteLinked(i)
        PROVE  TypeOK'
    <3>1. lost' \in [Ingress \X Sock -> 0 .. 2]
      <4>1. CASE lost' = lost
        BY <4>1 DEF TypeOK
      <4>2. CASE lost' # lost
        <5> DEFINE k == <<i, hand[i]>>
        <5>1. k \in Ingress \X Sock /\ lost[k] < 2
          BY <2>5, <4>2 DEF TypeOK, WriteLinked
        <5>2. lost \in [Ingress \X Sock -> 0 .. 2] /\ lost' = [lost EXCEPT ![k] = @ + 1]
          BY <2>5, <4>2 DEF TypeOK, WriteLinked
        <5> HIDE DEF k
        <5> QED BY <5>1, <5>2
      <4> QED BY <4>1, <4>2
    <3>2. inbox' \in [Sock -> SUBSET Datagram]
      BY <2>5 DEF TypeOK, WriteLinked, Datagram
    <3> QED
      BY <2>5, <3>1, <3>2 DEF TypeOK, WriteLinked
  <2>6. ASSUME NEW i \in Ingress, OpenFails(i)
        PROVE  TypeOK'
    BY <2>6 DEF TypeOK, OpenFails
  <2>7. ASSUME NEW i \in Ingress, Open(i)
        PROVE  TypeOK'
    <3> DEFINE c == loop[i][1]
               d == loop[i][2]
               rec == [client |-> c, dst |-> d, reader |-> "send"]
    <3>1. loop[i] \in Client \X Dest
      BY <2>7 DEF TypeOK, Open
    <3>2. c \in Client /\ d \in Dest
      BY <3>1
    <3>3. rec \in SockState
      BY <3>2 DEF SockState, Reader
    <3>4. socks' = Append(socks, rec) /\ Len(socks) < MaxSock
      BY <2>7 DEF Open
    <3> HIDE DEF rec
    <3>5. /\ socks' \in Seq(SockState) /\ Len(socks') <= MaxSock
          /\ Len(socks') = Len(socks) + 1 /\ Len(socks) \in Nat
          /\ Opened = 1 .. Len(socks) /\ Opened' = 1 .. Len(socks')
      BY <3>3, <3>4 DEF TypeOK
    <3>6. /\ table' \in [Client -> Sock \cup {NoLink}]
          /\ \A k \in Client : table'[k] # NoLink => table'[k] \in Opened'
      BY <2>7, <3>2, <3>4, <3>5 DEF TypeOK, Open
    <3>7. /\ loop' \in [Ingress -> (Client \X Dest) \cup {Nil}]
          /\ \A j \in Ingress : loop'[j] # Nil => loop'[j][1] \in Serves[j]
      BY <2>7 DEF TypeOK, Open
    <3>8. \A j \in Ingress : hand'[j] # NoLink => hand'[j] \in Opened'
      BY <2>7, <3>5 DEF TypeOK, Open
    <3> QED
      BY <2>7, <3>5, <3>6, <3>7, <3>8 DEF TypeOK, Open
  <2>8. ASSUME NEW s \in Opened, SendFirst(s)
        PROVE  TypeOK'
    BY <2>8, ReaderMoves DEF TypeOK, SendFirst, Reader
  <2>9. ASSUME NEW s \in Opened, RemoteSends(s)
        PROVE  TypeOK'
    BY <2>9 DEF TypeOK, RemoteSends, Datagram
  <2>10. ASSUME NEW s \in Opened, ReaderStops(s)
         PROVE  TypeOK'
    BY <2>10, ReaderMoves DEF TypeOK, ReaderStops, Reader
  <2>11. ASSUME NEW s \in Opened, LinkDeleted(s)
         PROVE  TypeOK'
    BY <2>11, ReaderMoves, SockOpened DEF TypeOK, LinkDeleted, Reader
  <2>12. ASSUME NEW s \in Opened, NEW x \in Datagram, Deliver(s, x)
         PROVE  TypeOK'
    BY <2>12, SockOpened DEF TypeOK, Deliver
  <2> QED
    BY <2>1, <2>2, <2>3, <2>4, <2>5, <2>6, <2>7, <2>8, <2>9, <2>10, <2>11, <2>12 DEF Next
<1> QED
  BY <1>1, <1>2, PTL DEF Spec

(* No link leads to a socket whose goroutine has deleted its client's      *)
(* link, be it this one or not; and a loop that has written to such a      *)
(* socket does not have it in hand again.                                  *)
NoDeadLink ==
  \A c \in Client :
    table[c] # NoLink => /\ socks[table[c]].client = c
                         /\ socks[table[c]].reader # "done"

LostOnce ==
  \A i \in Ingress, s \in Sock :
    lost[<<i, s>>] # 0 => /\ lost[<<i, s>>] = 1
                          /\ s \in Opened /\ socks[s].reader = "done"
                          /\ hand[i] # s

(* What the sockets do to the two: a step that opens no socket, ends no    *)
(* goroutine and leaves links, hands and losses alone.                     *)
LEMMA DeadStay ==
  ASSUME TypeOK, NoDeadLink, LostOnce, NEW s \in Opened, NEW r \in Reader,
         socks[s].reader # "done", r # "done" \/ table[socks[s].client] # s,
         socks' = [socks EXCEPT ![s].reader = r], UNCHANGED <<table, hand, lost>>
  PROVE  NoDeadLink' /\ LostOnce'
<1>1. /\ DOMAIN socks' = DOMAIN socks
      /\ socks'[s].client = socks[s].client /\ socks'[s].reader = r
      /\ \A t \in Opened : t # s => socks'[t] = socks[t]
  BY ReaderMoves
<1>2. NoDeadLink'
  BY <1>1 DEF TypeOK, NoDeadLink, Opened
<1>3. LostOnce'
  BY <1>1 DEF LostOnce, Opened
<1> QED BY <1>2, <1>3

(* Two ingresses may replace and delete each other's links of one client:  *)
(* still each writes at most one datagram to a socket whose goroutine has  *)
(* deleted the link, the one it had looked the link up for before.         *)
THEOREM AtMostOneLost == Spec => []LosesOneAtMost
<1>1. Init => NoDeadLink /\ LostOnce
  BY DEF Init, NoDeadLink, LostOnce
<1>2. TypeOK /\ NoDeadLink /\ LostOnce /\ [Next]_vars => NoDeadLink' /\ LostOnce'
  <2> SUFFICES ASSUME TypeOK, NoDeadLink, LostOnce, [Next]_vars
               PROVE  NoDeadLink' /\ LostOnce'
    OBVIOUS
  <2>1. CASE UNCHANGED <<table, hand, socks, lost>>
    BY <2>1 DEF NoDeadLink, LostOnce, Opened
  <2>2. ASSUME NEW i \in Ingress, NEW c \in Serves[i], ReadLinked(i, c)
        PROVE  NoDeadLink' /\ LostOnce'
    <3>1. c \in Client /\ table[c] # NoLink
      BY <2>2 DEF ReadLinked
    <3>2. table[c] \in Sock /\ socks[table[c]].reader # "done"
      BY <3>1 DEF TypeOK, NoDeadLink
    <3>3. /\ hand' = [hand EXCEPT ![i] = table[c]]
          /\ UNCHANGED <<table, socks, lost>>
      BY <2>2 DEF ReadLinked
    <3>4. NoDeadLink'
      BY <3>3 DEF NoDeadLink
    <3>5. LostOnce'
      BY <3>2, <3>3 DEF LostOnce, Opened, TypeOK
    <3> QED BY <3>4, <3>5
  <2>3. ASSUME NEW i \in Ingress, WriteLinked(i)
        PROVE  NoDeadLink' /\ LostOnce'
    <3> DEFINE h == hand[i]
               k == <<i, h>>
    <3>1. /\ h \in Sock /\ h \in Opened /\ k \in Ingress \X Sock
          /\ hand' = [hand EXCEPT ![i] = NoLink] /\ UNCHANGED <<table, socks>>
          /\ lost[k] = 0
      BY <2>3 DEF TypeOK, WriteLinked, LostOnce
    <3>2. \/ lost' = lost
          \/ socks[h].reader = "done" /\ lost' = [lost EXCEPT ![k] = @ + 1]
      BY <2>3 DEF WriteLinked
    <3>3. NoDeadLink'
      BY <3>1 DEF NoDeadLink
    <3>4. lost \in [Ingress \X Sock -> 0 .. 2] /\ hand \in [Ingress -> Sock \cup {NoLink}]
      BY DEF TypeOK
    <3>5. ASSUME NEW j \in Ingress, NEW s \in Sock, lost'[<<j, s>>] # 0
          PROVE  /\ lost'[<<j, s>>] = 1 /\ s \in Opened' /\ socks'[s].reader = "done"
                 /\ hand'[j] # s
      <4>0. <<j, s>> \in Ingress \X Sock
        OBVIOUS
      <4>1. CASE j = i /\ s = h
        <5>1. lost'[k] # 0 /\ <<j, s>> = k
          BY <3>5, <4>1
        <5>2. socks[h].reader = "done" /\ lost'[k] = 1
          BY <3>1, <3>2, <3>4, <5>1
        <5> QED BY <3>1, <3>4, <4>1, <5>1, <5>2 DEF Opened
      <4>2. CASE ~(j = i /\ s = h)
        <5>1. <<j, s>> # k
          BY <4>2
        <5>2. lost'[<<j, s>>] = lost[<<j, s>>]
          BY <3>1, <3>2, <3>4, <4>0, <5>1
        <5>3. /\ lost[<<j, s>>] = 1 /\ s \in Opened /\ socks[s].reader = "done"
              /\ hand[j] # s
          BY <3>5, <5>2 DEF LostOnce
        <5> QED BY <3>1, <3>4, <5>2, <5>3 DEF Opened
      <4> QED BY <4>1, <4>2
    <3> QED BY <3>3, <3>5 DEF LostOnce
  <2>4. ASSUME NEW i \in Ingress, Open(i)
        PROVE  NoDeadLink' /\ LostOnce'
    <3> DEFINE k == loop[i][1]
               new == Len(socks) + 1
    <3>1. /\ Opened' = 1 .. new /\ Opened = 1 .. Len(socks) /\ Len(socks) \in Nat
          /\ k \in Client /\ UNCHANGED <<hand, lost>>
      BY <2>4 DEF TypeOK, Open, Opened
    <3>2. \A s \in Opened : socks'[s] = socks[s]
      BY <2>4, <3>1 DEF TypeOK, Open
    <3>3. socks'[new].client = k /\ socks'[new].reader = "send"
      BY <2>4 DEF TypeOK, Open
    <3>4. table' = [table EXCEPT ![k] = new]
      BY <2>4 DEF Open
    <3>5. NoDeadLink'
      <4> SUFFICES ASSUME NEW c \in Client, table'[c] # NoLink
                   PROVE  /\ socks'[table'[c]].client = c
                          /\ socks'[table'[c]].reader # "done"
        BY DEF NoDeadLink
      <4>1. CASE c = k
        BY <3>1, <3>3, <3>4, <4>1 DEF TypeOK
      <4>2. CASE c # k
        <5>1. table'[c] = table[c] /\ table[c] \in Opened
          BY <3>1, <3>4, <4>2 DEF TypeOK
        <5> QED BY <3>2, <5>1 DEF NoDeadLink
      <4> QED BY <4>1, <4>2
    <3>6. LostOnce'
      BY <3>1, <3>2 DEF LostOnce
    <3> QED BY <3>5, <3>6
  <2>5. ASSUME NEW s \in Opened, SendFirst(s) \/ ReaderStops(s)
        PROVE  NoDeadLink' /\ LostOnce'
    <3>1. /\ socks[s].reader # "done" /\ UNCHANGED <<table, hand, lost>>
          /\ \E r \in Reader \ {"done"} : socks' = [socks EXCEPT ![s].reader = r]
      BY <2>5 DEF SendFirst, ReaderStops, Reader
    <3> QED BY <3>1, DeadStay
  <2>6. ASSUME NEW s \in Opened, LinkDeleted(s)
        PROVE  NoDeadLink' /\ LostOnce'
    <3>1. socks[s].client \in Client
      BY SockOpened
    <3>2. /\ DOMAIN socks' = DOMAIN socks
          /\ socks'[s].client = socks[s].client /\ socks'[s].reader = "done"
          /\ \A t \in Opened : t # s => socks'[t] = socks[t]
      BY <2>6, ReaderMoves DEF LinkDeleted, Reader
    <3>3. /\ table' = [table EXCEPT ![socks[s].client] = NoLink]
          /\ UNCHANGED <<hand, lost>> /\ socks[s].reader = "stop"
      BY <2>6 DEF LinkDeleted
    <3>4. NoDeadLink'
      <4> SUFFICES ASSUME NEW c \in Client, table'[c] # NoLink
                   PROVE  /\ socks'[table'[c]].client = c
                          /\ socks'[table'[c]].reader # "done"
        BY DEF NoDeadLink
      <4>1. c # socks[s].client /\ table'[c] = table[c] /\ table[c] \in Opened
        BY <3>1, <3>3 DEF TypeOK
      <4>2. socks[table[c]].client = c /\ socks[table[c]].reader # "done"
        BY <4>1 DEF NoDeadLink
      <4>3. table[c] # s
        BY <4>1, <4>2
      <4> QED BY <3>2, <4>1, <4>2, <4>3
    <3>5. LostOnce'
      BY <3>2, <3>3 DEF LostOnce, Opened
    <3> QED BY <3>4, <3>5
  <2> QED
    BY <2>1, <2>2, <2>3, <2>4, <2>5, <2>6
       DEF Next, vars, ReadNew, ReadDirect, OpenFails, RemoteSends, Deliver
<1>3. TypeOK /\ LostOnce => LosesOneAtMost
  <2> SUFFICES ASSUME LostOnce, NEW i \in Ingress, NEW s \in Sock
               PROVE  lost[<<i, s>>] <= 1
    BY DEF LosesOneAtMost
  <2>1. lost[<<i, s>>] = 0 \/ lost[<<i, s>>] = 1
    BY DEF LostOnce
  <2> QED BY <2>1
<1> QED
  BY <1>1, <1>2, <1>3, TypeCorrect, PTL DEF Spec

-----------------------------------------------------------------------------
(* What an ingress looked up in the table is still so when it opens the    *)
(* socket, for a client that only this ingress serves.                     *)
AsksUnlinked ==
  \A i \in Ingress :
    loop[i] # Nil /\ loop[i][1] \in OneWay => table[loop[i][1]] = NoLink

LEMMA OneAsks ==
  ASSUME TypeOK, NEW i \in Ingress, NEW j \in Ingress,
         loop[i] # Nil, loop[j] # Nil, loop[i][1] = loop[j][1],
         loop[i][1] \in OneWay
  PROVE  i = j
BY DEF TypeOK, OneWay

LEMMA SoleInvariant == Spec => [](LiveLinkKept /\ AsksUnlinked)
<1>1. Init => LiveLinkKept /\ AsksUnlinked
  BY DEF Init, LiveLinkKept, AsksUnlinked, Opened
<1>2. TypeOK /\ LiveLinkKept /\ AsksUnlinked /\ [Next]_vars
        => LiveLinkKept' /\ AsksUnlinked'
  <2> SUFFICES ASSUME TypeOK, LiveLinkKept, AsksUnlinked, [Next]_vars
               PROVE  LiveLinkKept' /\ AsksUnlinked'
    OBVIOUS
  <2>1. CASE UNCHANGED <<table, socks, loop>>
    BY <2>1 DEF LiveLinkKept, AsksUnlinked, Opened
  <2>2. ASSUME NEW i \in Ingress, NEW c \in Serves[i], NEW d \in Dest, ReadNew(i, c, d)
        PROVE  LiveLinkKept' /\ AsksUnlinked'
    <3>1. /\ loop'[i] = <<c, d>> /\ table'[c] = NoLink
          /\ \A j \in Ingress : j # i => loop'[j] = loop[j]
      BY <2>2 DEF TypeOK, ReadNew
    <3>2. AsksUnlinked'
      BY <2>2, <3>1 DEF AsksUnlinked, ReadNew
    <3> QED
      BY <2>2, <3>2 DEF LiveLinkKept, ReadNew, Opened
  <2>3. ASSUME NEW i \in Ingress, OpenFails(i)
        PROVE  LiveLinkKept' /\ AsksUnlinked'
    BY <2>3 DEF TypeOK, LiveLinkKept, AsksUnlinked, OpenFails, Opened
  <2>4. ASSUME NEW i \in Ingress, Open(i)
        PROVE  LiveLinkKept' /\ AsksUnlinked'
    <3> DEFINE k == loop[i][1]
               new == Len(socks) + 1
    <3>1. /\ Opened' = 1 .. new /\ Opened = 1 .. Len(socks) /\ new \in Sock
          /\ socks'[new].client = k
          /\ \A s \in Opened : socks'[s] = socks[s]
      BY <2>4 DEF TypeOK, Open, Opened
    <3>2. k \in Client
      BY <2>4 DEF TypeOK, Open
    <3>3. /\ table'[k] = new
          /\ \A c \in Client : c # k => table'[c] = table[c]
      BY <2>4, <3>2 DEF TypeOK, Open
    <3>4. k \in OneWay => table[k] = NoLink
      BY <2>4 DEF AsksUnlinked, Open
    <3>5. ASSUME NEW s \in Opened', socks'[s].client \in OneWay, socks'[s].reader # "done"
          PROVE  table'[socks'[s].client] = s
      <4>1. CASE s = new
        BY <4>1, <3>1, <3>3
      <4>2. CASE s # new
        <5>1. s \in Opened /\ s \in Sock /\ socks'[s] = socks[s]
          BY <4>2, <3>1 DEF TypeOK
        <5>2. table[socks[s].client] = s /\ socks[s].client \in Client
          BY <5>1, <3>5, SockOpened DEF LiveLinkKept
        <5>3. socks[s].client # k
          BY <5>1, <5>2, <3>4, <3>5
        <5> QED
          BY <5>1, <5>2, <5>3, <3>3
      <4> QED
        BY <4>1, <4>2
    <3>6. AsksUnlinked'
      <4> SUFFICES ASSUME NEW j \in Ingress, loop'[j] # Nil, loop'[j][1] \in OneWay
                   PROVE  table'[loop'[j][1]] = NoLink
        BY DEF AsksUnlinked
      <4>1. j # i /\ loop'[j] = loop[j]
        BY <2>4 DEF TypeOK, Open
      <4>2. loop[j][1] \in Client /\ table[loop[j][1]] = NoLink
        BY <4>1 DEF TypeOK, AsksUnlinked
      <4>3. loop[i] # Nil
        BY <2>4 DEF Open
      <4>4. loop[j][1] # k
        BY <4>1, <4>3, OneAsks
      <4> QED
        BY <4>1, <4>2, <4>4, <3>3
    <3> QED
      BY <3>5, <3>6 DEF LiveLinkKept
  <2>5. ASSUME NEW s \in Opened, SendFirst(s) \/ ReaderStops(s)
        PROVE  LiveLinkKept' /\ AsksUnlinked'
    <3>1. /\ socks[s].reader # "done" /\ UNCHANGED <<table, loop>>
          /\ \E r \in Reader : socks' = [socks EXCEPT ![s].reader = r]
      BY <2>5 DEF SendFirst, ReaderStops, Reader
    <3>2. DOMAIN socks' = DOMAIN socks /\ socks'[s].client = socks[s].client
          /\ \A t \in Opened : t # s => socks'[t] = socks[t]
      BY <3>1, ReaderMoves
    <3> QED
      BY <3>1, <3>2 DEF LiveLinkKept, AsksUnlinked, Opened
  <2>6. ASSUME NEW s \in Opened, LinkDeleted(s)
        PROVE  LiveLinkKept' /\ AsksUnlinked'
    <3> DEFINE k == socks[s].client
    <3>1. /\ DOMAIN socks' = DOMAIN socks /\ socks'[s].reader = "done"
          /\ \A t \in Opened : t # s => socks'[t] = socks[t]
      BY <2>6, ReaderMoves DEF LinkDeleted, Reader
    <3>2. k \in Client /\ (k \in OneWay => table[k] = s)
      BY <2>6, SockOpened DEF LiveLinkKept, LinkDeleted
    <3>3. table'[k] = NoLink /\ \A c \in Client : c # k => table'[c] = table[c]
      BY <2>6, <3>2 DEF TypeOK, LinkDeleted
    <3>4. ASSUME NEW t \in Opened', socks'[t].client \in OneWay, socks'[t].reader # "done"
          PROVE  table'[socks'[t].client] = t
      <4>1. t \in Opened /\ t # s /\ socks'[t] = socks[t]
        BY <3>1, <3>4 DEF Opened
      <4>2. table[socks[t].client] = t /\ socks[t].client \in Client
        BY <4>1, <3>4, SockOpened DEF LiveLinkKept
      <4>3. socks[t].client # k
        BY <4>1, <4>2, <3>2, <3>4
      <4> QED
        BY <4>1, <4>2, <4>3, <3>3
    <3>5. AsksUnlinked'
      <4> SUFFICES ASSUME NEW i \in Ingress, loop[i] # Nil, loop[i][1] \in OneWay
                   PROVE  table'[loop[i][1]] = NoLink
        BY <2>6 DEF AsksUnlinked, LinkDeleted
      <4>1. loop[i][1] \in Client /\ table[loop[i][1]] = NoLink
        BY DEF TypeOK, AsksUnlinked
      <4> QED
        BY <4>1, <3>3
    <3> QED
      BY <3>4, <3>5 DEF LiveLinkKept
  <2> QED
    BY <2>1, <2>2, <2>3, <2>4, <2>5, <2>6
       DEF Next, vars, ReadLinked, WriteLinked, ReadDirect, RemoteSends, Deliver
<1> QED
  BY <1>1, <1>2, TypeCorrect, PTL DEF Spec

(* A socket that is read is its client's link, so the client keeps the     *)
(* address its remotes know it by, if one ingress reads all its datagrams, *)
(* whatever other ingresses do for other clients.                          *)
THEOREM OneIngressKeepsLinks == Spec => []LiveLinkKept
BY SoleInvariant, PTL

(* No link of such a client is replaced by another one that was not        *)
(* deleted before.                                                         *)
THEOREM OneIngressReplacesNoLink == Spec => LinksNotReplaced
<1>1. TypeOK /\ AsksUnlinked /\ [Next]_vars
        => [\A c \in OneWay : table[c] # NoLink /\ table'[c] # NoLink
                                => table'[c] = table[c]]_vars
  <2> SUFFICES ASSUME TypeOK, AsksUnlinked, [Next]_vars, NEW c \in OneWay,
                      table[c] # NoLink, table'[c] # NoLink
               PROVE  table'[c] = table[c]
    OBVIOUS
  <2>1. ASSUME NEW i \in Ingress, Open(i)
        PROVE  table'[c] = table[c]
    <3>1. loop[i][1] \in Client /\ loop[i][1] # c
      BY <2>1 DEF TypeOK, Open, AsksUnlinked
    <3> QED
      BY <2>1, <3>1 DEF TypeOK, Open
  <2>2. ASSUME NEW s \in Opened, LinkDeleted(s)
        PROVE  table'[c] = table[c]
    <3>1. socks[s].client \in Client
      BY SockOpened
    <3> QED
      BY <2>2, <3>1 DEF TypeOK, LinkDeleted
  <2> QED
    BY <2>1, <2>2 DEF Next, vars, ReadNew, ReadLinked, WriteLinked, ReadDirect,
                      OpenFails, SendFirst, RemoteSends, ReaderStops, Deliver
<1> QED
  BY <1>1, TypeCorrect, SoleInvariant, PTL DEF Spec, LinksNotReplaced

-----------------------------------------------------------------------------
(***************************************************************************)
(* The shared buffer, for any number of writers and datagrams.  A write    *)
(* that no other one overlapped is the only one there is (`shared' is of   *)
(* both when there are two), so what it finds in the buffer is its own,    *)
(* sealed under its own salt.                                              *)
(***************************************************************************)
Salt == (Writer \X Nat) \cup {None}
Part == [by : Salt, key : Salt]

PacketTypes ==
  /\ buffer \in [salt : Salt, head : Part, body : Part]
  /\ key \in [Writer -> Salt]
  /\ at \in [Writer -> {"idle", "salted", "keyed", "headed", "whole", "sealed"}]
  /\ count \in [Writer -> Nat]
  /\ shared \in [Writer -> BOOLEAN]
  /\ datagram \in [Writer -> [salt : Salt, head : Part, body : Part]]

Mine(w) ==
  /\ \A o \in Writer : o # w => at[o] = "idle"
  /\ buffer.salt = This(w)
  /\ at[w] # "salted" => key[w] = This(w)
  /\ at[w] \in {"headed", "whole"} => buffer.head = [by |-> This(w), key |-> None]
  /\ at[w] = "whole" => buffer.body = [by |-> This(w), key |-> None]
  /\ at[w] = "sealed" => /\ buffer.head = [by |-> This(w), key |-> This(w)]
                         /\ buffer.body = [by |-> This(w), key |-> This(w)]

PacketInv ==
  PacketTypes /\ \A w \in Writer : at[w] # "idle" /\ ~shared[w] => Mine(w)

LEMMA InitPacket == PacketInit => PacketInv
BY DEF PacketInit, PacketInv, PacketTypes, Salt, Part

(* A step of one writer concerns an unshared write only if it is its own.  *)
LEMMA PacketKeeps == PacketInv /\ [PacketNext]_packetVars => PacketInv'
<1> SUFFICES ASSUME PacketInv, [PacketNext]_packetVars PROVE PacketInv'
  OBVIOUS
<1>1. CASE UNCHANGED packetVars
  BY <1>1 DEF packetVars, PacketInv, PacketTypes, Mine, This
<1>2. ASSUME NEW w \in Writer, WriteSalt(w) PROVE PacketInv'
  <2>1. This(w)' = <<w, count'[w]>> /\ count'[w] = count[w] + 1 /\ count[w] \in Nat
    BY <1>2 DEF WriteSalt, This, PacketInv, PacketTypes
  <2>2. PacketTypes'
    <3>1. shared' \in [Writer -> BOOLEAN]
      BY <1>2, Zenon DEF WriteSalt
    <3>2. This(w)' \in Salt
      BY <2>1 DEF Salt
    <3>3. buffer' \in [salt : Salt, head : Part, body : Part]
      BY <1>2, <3>2 DEF WriteSalt, PacketInv, PacketTypes
    <3>4. /\ UNCHANGED <<key, datagram>> /\ at' = [at EXCEPT ![w] = "salted"]
          /\ count' = [count EXCEPT ![w] = @ + 1]
      BY <1>2 DEF WriteSalt, Goes
    <3> QED BY <3>1, <3>3, <3>4 DEF PacketInv, PacketTypes
  <2>3. ASSUME NEW o \in Writer, at'[o] # "idle", ~shared'[o] PROVE Mine(o)'
    <3>1. o = w
      <4>1. o # w => at[o] # "idle" /\ o \in Busy /\ shared'[o]
        BY <1>2, <2>3 DEF WriteSalt, Goes, PacketInv, PacketTypes, Busy
      <4> QED BY <2>3, <4>1
    <3>2. \A x \in Writer : at[x] = "idle"
      BY <1>2, <2>3, <3>1 DEF WriteSalt, Busy
    <3>3. at'[w] = "salted" /\ \A x \in Writer : x # w => at'[x] = "idle"
      BY <1>2, <3>2 DEF WriteSalt, Goes, PacketInv, PacketTypes
    <3>4. buffer'.salt = This(w)'
      BY <1>2 DEF WriteSalt, PacketInv, PacketTypes
    <3> QED BY <3>1, <3>3, <3>4 DEF Mine
  <2> QED BY <2>2, <2>3 DEF PacketInv
<1>3. ASSUME NEW w \in Writer,
             DeriveKey(w) \/ WriteHead(w) \/ WriteBody(w) \/ Encrypt(w) \/ WriteTo(w)
      PROVE  PacketInv'
  <2>1. /\ shared' = shared /\ count' = count /\ at[w] # "idle"
        /\ This(w) \in Salt /\ This(w)' = This(w) /\ None \in Salt
    BY <1>3 DEF DeriveKey, WriteHead, WriteBody, Encrypt, WriteTo, Goes, This, Salt,
       PacketInv, PacketTypes
  <2>2. PacketTypes'
    <3>1. CASE DeriveKey(w)
      BY <3>1 DEF DeriveKey, Goes, PacketInv, PacketTypes
    <3>2. CASE WriteHead(w) \/ WriteBody(w)
      <4> DEFINE part == [by |-> This(w), key |-> None]
      <4>1. part \in Part
        BY <2>1 DEF Part
      <4>2. /\ \/ buffer' = [buffer EXCEPT !.head = part]
               \/ buffer' = [buffer EXCEPT !.body = part]
            /\ UNCHANGED <<key, count, shared, datagram>>
            /\ \E l \in {"headed", "whole"} : at' = [at EXCEPT ![w] = l]
        BY <3>2 DEF WriteHead, WriteBody, Goes
      <4> HIDE DEF part
      <4> QED BY <4>1, <4>2 DEF PacketInv, PacketTypes
    <3>3. CASE Encrypt(w)
      BY <2>1, <3>3 DEF Encrypt, Sealed, Goes, PacketInv, PacketTypes, Part
    <3>4. CASE WriteTo(w)
      BY <3>4 DEF WriteTo, Goes, PacketInv, PacketTypes
    <3> QED BY <1>3, <3>1, <3>2, <3>3, <3>4
  <2>3. ASSUME NEW o \in Writer, at'[o] # "idle", ~shared'[o] PROVE Mine(o)'
    <3>1. o = w
      <4>1. o # w => at'[o] = at[o]
        BY <1>3 DEF DeriveKey, WriteHead, WriteBody, Encrypt, WriteTo, Goes,
           PacketInv, PacketTypes
      <4>2. o # w => Mine(o)
        BY <2>1, <2>3, <4>1 DEF PacketInv
      <4> QED BY <2>1, <4>2 DEF Mine
    <3>2. Mine(w)
      BY <2>1, <2>3, <3>1 DEF PacketInv
    <3>3. \A x \in Writer : x # w => at'[x] = "idle"
      BY <1>3, <3>2 DEF DeriveKey, WriteHead, WriteBody, Encrypt, WriteTo, Goes, Mine,
         PacketInv, PacketTypes
    <3>4. CASE DeriveKey(w)
      BY <2>1, <3>1, <3>2, <3>3, <3>4
      DEF DeriveKey, Goes, Mine, PacketInv, PacketTypes
    <3>5. CASE WriteHead(w)
      BY <2>1, <3>1, <3>2, <3>3, <3>5
      DEF WriteHead, Goes, Mine, PacketInv, PacketTypes
    <3>6. CASE WriteBody(w)
      BY <2>1, <3>1, <3>2, <3>3, <3>6
      DEF WriteBody, Goes, Mine, PacketInv, PacketTypes
    <3>7. CASE Encrypt(w)
      BY <2>1, <3>1, <3>2, <3>3, <3>7
      DEF Encrypt, Sealed, Goes, Mine, PacketInv, PacketTypes
    <3>8. CASE WriteTo(w)
      BY <2>3, <3>1, <3>8 DEF WriteTo, Goes, PacketInv, PacketTypes
    <3> QED BY <1>3, <3>4, <3>5, <3>6, <3>7, <3>8
  <2> QED BY <2>2, <2>3 DEF PacketInv
<1> QED BY <1>1, <1>2, <1>3 DEF PacketNext

(* However many goroutines write to clients of one socket, and however     *)
(* their steps interleave, a client is sent its own datagram, which it can *)
(* open, by every write that no other one overlapped.                      *)
THEOREM UnsharedIsOwn == PacketSpec => OwnDatagram
<1>1. PacketInv /\ [PacketNext]_packetVars =>
        [\A w \in Writer :
           datagram'[w] # datagram[w] /\ ~shared[w] =>
             /\ Readable(datagram'[w])
             /\ datagram'[w].head.by = This(w) /\ datagram'[w].body.by = This(w)
        ]_packetVars
  <2> SUFFICES ASSUME PacketInv, PacketNext, NEW w \in Writer,
                      datagram'[w] # datagram[w], ~shared[w]
               PROVE  /\ Readable(datagram'[w])
                      /\ datagram'[w].head.by = This(w)
                      /\ datagram'[w].body.by = This(w)
    OBVIOUS
  <2>1. WriteTo(w)
    BY DEF PacketNext, WriteSalt, DeriveKey, WriteHead, WriteBody, Encrypt, WriteTo,
       PacketInv, PacketTypes
  <2>2. Mine(w) /\ at[w] = "sealed" /\ datagram'[w] = buffer
    BY <2>1 DEF WriteTo, Goes, PacketInv, PacketTypes
  <2>3. This(w) # None
    BY PacketAssumption DEF This, PacketInv, PacketTypes
  <2> QED BY <2>2, <2>3 DEF Mine, Readable
<1> QED BY <1>1, InitPacket, PacketKeeps, PTL DEF PacketSpec, OwnDatagram

=============================================================================

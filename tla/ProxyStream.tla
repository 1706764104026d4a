----------------------------- MODULE ProxyStream ----------------------------
(***************************************************************************)
(* component/proxy: a stream between the client end of a proxy, as an      *)
(* egress makes it, and its server end, as an ingress does, over one TCP   *)
(* connection.  The client end is given a destination, tells the server    *)
(* end, and both then carry bytes both ways.  Bytes are those of the       *)
(* protocols; what Shadowsocks encrypts is one item of the connection.     *)
(*                                                                         *)
(* A Read of TCP gives any part of what has come, and the handshakes do    *)
(* not read again for the rest; `torn' remembers that one got too little.  *)
(* Once the stream is up io.Copy reads with 32 KB, more than a chunk of    *)
(* Shadowsocks holds, so that no read leaves part of a chunk behind.       *)
(***************************************************************************)
EXTENDS Integers, Sequences, SequencesExt

CONSTANTS
  Kinds,       \* the proxies, of "none", "socks" and "shadowsocks"
  Dests,       \* what the client end may be given
  KeySize,     \* the length of a Shadowsocks salt
  MaxPayload,  \* the payload of a Shadowsocks chunk
  Blocks,      \* the lengths of what is written at once
  MaxBytes,    \* a bound of the model: what one end writes altogether
  Absent

ASSUME ProxyStreamAssumption ==
  /\ Kinds \subseteq {"none", "socks", "shadowsocks", "packets"}
  /\ KeySize \in Nat \ {0} /\ MaxPayload \in Nat \ {0}
  /\ Blocks \subseteq Nat \ {0} /\ MaxBytes \in Nat \ {0}

ASSUME AbsentAssumption ==
  /\ Absent \notin [type : {"ip4", "ip6", "domain"}, addr : Seq(Nat), port : Seq(Nat)]
  /\ Absent \notin [salt : {"client", "server", Absent}, nonce : Nat]

(* An address has the length of its form.  A domain of more than 256 bytes *)
(* does not fit the buffer of the Shadowsocks client, which panics.        *)
ASSUME DestsAssumption ==
  \A d \in Dests :
    /\ d = [type |-> d.type, addr |-> d.addr, port |-> d.port]
    /\ d.addr \in Seq(Nat) /\ d.port \in Seq(Nat) /\ Len(d.port) = 2
    /\ \/ d.type \in {"ip4", "ip4in6"} /\ Len(d.addr) = 4
       \/ d.type = "ip6" /\ Len(d.addr) = 16
       \/ d.type = "domain" /\ Len(d.addr) <= 256

Ver == 5
CmdConnect == 1
CmdUdpAssociate == 3
AtypIPv4 == 1
AtypDomain == 3
AtypIPv6 == 4
ReplySucceeded == 0
ReplyCmdNotSupported == 7

VARIABLES
  kind,
  want,     \* the client end's metadata
  wire,     \* what is on its way from each end to the other
  cpc, spc, \* where the handshakes are
  cbuf,     \* their buffers, which keep what a short read does not fill
  sbuf,
  dest,     \* the server end's metadata
  enc,      \* the nonce each end encrypts with next
  dec,      \* the salt and the nonce each end decrypts with; Absent before
  sent,     \* what each end has written, and read, of the stream itself
  got,
  torn      \* some read of a handshake got less than it asked for

streamVars == <<kind, want, wire, cpc, spc, cbuf, sbuf, dest, enc, dec, sent, got, torn>>

End == {"client", "server"}
Peer(e) == CHOOSE o \in End : o # e

StreamInit ==
  /\ kind \in Kinds /\ want \in Dests
  /\ wire = [e \in End |-> << >>]
  /\ cpc = IF kind = "none" THEN "up" ELSE "start"
  /\ spc = CASE kind = "none" -> "up" [] kind = "socks" -> "greeting" [] OTHER -> "salt"
  /\ cbuf = [i \in 1 .. 20 |-> 0] /\ sbuf = cbuf
  /\ dest = Absent
  /\ enc = [e \in End |-> 0] /\ dec = [e \in End |-> Absent]
  /\ sent = [e \in End |-> << >>] /\ got = sent
  /\ torn = FALSE

(* What a Read into k bytes may give.                                      *)
Reads(e, k) ==
  IF k = 0 THEN {<< >>}
  ELSE {SubSeq(wire[Peer(e)], 1, n) : n \in 1 .. Min({k, Len(wire[Peer(e)])})}

Fill(buf, b) == [i \in DOMAIN buf |-> IF i \in DOMAIN b THEN b[i] ELSE buf[i]]

(* Of the connection at end e: b is read from it, then w is written.       *)
Carries(e, b, w) ==
  wire' = [wire EXCEPT ![Peer(e)] = SubSeq(@, Len(b) + 1, Len(@)), ![e] = @ \o w]

(* One step of a handshake: b is what a Read into k bytes gave.            *)
Exchange(e, k, b, w) ==
  /\ Carries(e, b, w)
  /\ torn' = (torn \/ Len(b) < k)

-----------------------------------------------------------------------------
(* The destination in the bytes of each protocol.  An IPv4 address is held *)
(* in 4 bytes or in 16 (`ip4in6'), which is how net.IPv4 makes it.         *)
In16(a) == [i \in 1 .. 10 |-> 0] \o <<255, 255>> \o a

SocksRequest_portSwapped(d) ==
  <<Ver, CmdConnect, 0>> \o
  (CASE d.type = "ip4"    -> <<AtypIPv4>> \o d.addr
     [] d.type = "ip4in6" -> <<AtypIPv4>> \o In16(d.addr)
     [] d.type = "ip6"    -> <<AtypIPv6>> \o d.addr
     [] d.type = "domain" -> <<AtypDomain>> \o d.addr) \o <<d.port[2], d.port[1]>>

(* The client leaves out a domain's length and sends an IPv4 address in    *)
(* the form it has.                                                        *)
SocksRequest(d) ==
  <<Ver, CmdConnect, 0>> \o
  (CASE d.type = "ip4"    -> <<AtypIPv4>> \o d.addr
     [] d.type = "ip4in6" -> <<AtypIPv4>> \o In16(d.addr)
     [] d.type = "ip6"    -> <<AtypIPv6>> \o d.addr
     [] d.type = "domain" -> <<AtypDomain>> \o d.addr) \o d.port

(* One byte for the length: a domain of 256 bytes is sent with 0.          *)
SsRequest(d) ==
  (CASE d.type \in {"ip4", "ip4in6"} -> <<AtypIPv4>> \o d.addr
     [] d.type = "ip6"               -> <<AtypIPv6>> \o d.addr
     [] d.type = "domain"            -> <<AtypDomain, Len(d.addr) % 256>> \o d.addr) \o d.port

SocksReply(code) == <<Ver, code, 0, AtypIPv4, 0, 0, 0, 0, 0, 0>>

-----------------------------------------------------------------------------
(* Socks, client end.                                                      *)
SocksGreets ==
  /\ kind = "socks" /\ cpc = "start"
  /\ Carries("client", << >>, <<Ver, 1, 0>>)
  /\ cpc' = "method"
  /\ UNCHANGED <<kind, want, spc, cbuf, sbuf, dest, enc, dec, sent, got, torn>>

SocksRequests ==
  /\ cpc = "method"
  /\ \E b \in Reads("client", 2) : Exchange("client", 2, b, SocksRequest(want))
                                   /\ cbuf' = Fill(cbuf, b)
  /\ cpc' = "reply"
  /\ UNCHANGED <<kind, want, spc, sbuf, dest, enc, dec, sent, got>>

SocksReplied ==
  /\ cpc = "reply"
  /\ \E b \in Reads("client", 4) : Exchange("client", 4, b, << >>) /\ cbuf' = Fill(cbuf, b)
  /\ cpc' = CASE cbuf'[2] # ReplySucceeded -> "failed"
              [] cbuf'[4] = AtypIPv4       -> "bound"
              [] OTHER                     -> "up"
  /\ UNCHANGED <<kind, want, spc, sbuf, dest, enc, dec, sent, got>>

SocksConsumes ==
  /\ cpc = "bound"
  /\ \E b \in Reads("client", 6) : Exchange("client", 6, b, << >>) /\ cbuf' = Fill(cbuf, b)
  /\ cpc' = "up"
  /\ UNCHANGED <<kind, want, spc, sbuf, dest, enc, dec, sent, got>>

(* Socks, server end.                                                      *)
SocksGreeted ==
  /\ spc = "greeting"
  /\ \E b \in Reads("server", 2) : Exchange("server", 2, b, << >>) /\ sbuf' = Fill(sbuf, b)
  /\ spc' = IF sbuf'[1] # Ver THEN "failed" ELSE "methods"
  /\ UNCHANGED <<kind, want, cpc, cbuf, dest, enc, dec, sent, got>>

SocksMethods ==
  /\ spc = "methods"
  /\ \E b \in Reads("server", sbuf[2]) :
       Exchange("server", sbuf[2], b, <<Ver, 0>>) /\ sbuf' = Fill(sbuf, b)
  /\ spc' = "request"
  /\ UNCHANGED <<kind, want, cpc, cbuf, dest, enc, dec, sent, got>>

(* The reply is sent before the address is read.                           *)
SocksServes ==
  /\ spc = "request"
  /\ \E b \in Reads("server", 4) :
       /\ sbuf' = Fill(sbuf, b)
       /\ Exchange("server", 4, b,
            SocksReply(IF sbuf'[2] = CmdConnect THEN ReplySucceeded ELSE ReplyCmdNotSupported))
  /\ spc' = CASE sbuf'[2] = CmdUdpAssociate -> "associate"
              [] sbuf'[2] # CmdConnect      -> "failed"
              [] sbuf'[4] = AtypDomain      -> "length"
              [] sbuf'[4] = AtypIPv4        -> "ip4"
              [] sbuf'[4] = AtypIPv6        -> "ip6"
              [] OTHER                      -> "port"
  /\ UNCHANGED <<kind, want, cpc, cbuf, dest, enc, dec, sent, got>>

SocksLength ==
  /\ spc = "length"
  /\ \E b \in Reads("server", 1) : Exchange("server", 1, b, << >>) /\ sbuf' = Fill(sbuf, b)
  /\ spc' = "domain"
  /\ UNCHANGED <<kind, want, cpc, cbuf, dest, enc, dec, sent, got>>

SocksDomain ==
  /\ spc = "domain"
  /\ \E b \in Reads("server", sbuf[1]) :
       /\ Exchange("server", sbuf[1], b, << >>)
       /\ sbuf' = Fill(sbuf, b)
       /\ dest' = [type |-> "domain", addr |-> b, port |-> <<0, 0>>]
  /\ spc' = "port"
  /\ UNCHANGED <<kind, want, cpc, cbuf, enc, dec, sent, got>>

AddrSize == [ip4 |-> 4, ip6 |-> 16]

SocksAddr ==
  /\ spc \in DOMAIN AddrSize
  /\ \E b \in Reads("server", AddrSize[spc]) :
       /\ Exchange("server", AddrSize[spc], b, << >>)
       /\ sbuf' = Fill(sbuf, b)
       /\ dest' = [type |-> spc, addr |-> SubSeq(sbuf', 1, AddrSize[spc]), port |-> <<0, 0>>]
  /\ spc' = "port"
  /\ UNCHANGED <<kind, want, cpc, cbuf, enc, dec, sent, got>>

SocksPort ==
  /\ spc = "port"
  /\ \E b \in Reads("server", 2) : Exchange("server", 2, b, << >>) /\ sbuf' = Fill(sbuf, b)
  /\ dest' = IF dest = Absent THEN Absent ELSE [dest EXCEPT !.port = <<sbuf'[1], sbuf'[2]>>]
  /\ spc' = "up"
  /\ UNCHANGED <<kind, want, cpc, cbuf, enc, dec, sent, got>>

-----------------------------------------------------------------------------
(* Shadowsocks: a salt, then chunks of a length and a payload, each sealed *)
(* under the salt with the next nonce.                                     *)
Salt(e) == [i \in 1 .. KeySize |-> [salt |-> e, nonce |-> Absent, data |-> << >>]]

Seal(e, n, d) == [salt |-> e, nonce |-> n, data |-> d]

(* The length of each part and the part, in turn.                          *)
Chunks(e, d) ==
  LET part(j) == SubSeq(d, (j - 1) * MaxPayload + 1, Min({j * MaxPayload, Len(d)}))
  IN  [i \in 1 .. 2 * ((Len(d) + MaxPayload - 1) \div MaxPayload) |->
        Seal(e, enc[e] + i - 1,
             IF i % 2 = 1 THEN <<Len(part((i + 1) \div 2))>> ELSE part(i \div 2))]

Encrypts(e, n) == enc' = [enc EXCEPT ![e] = @ + n]

(* The first chunk that has come, and whether it can be opened.            *)
NextChunk(e) == SubSeq(wire[Peer(e)], 1, 2)

Opens(e) == \A i \in 1 .. 2 : /\ NextChunk(e)[i].salt = dec[e].salt
                              /\ NextChunk(e)[i].nonce = dec[e].nonce + i - 1

Decrypts(e) == dec' = [dec EXCEPT ![e].nonce = @ + 2]

(* A destination, of at most 259 bytes, is one chunk.                      *)
SsGreets ==
  /\ kind = "shadowsocks" /\ cpc = "start"
  /\ Carries("client", << >>, Salt("client") \o
       <<Seal("client", 0, <<Len(SsRequest(want))>>), Seal("client", 1, SsRequest(want))>>)
  /\ Encrypts("client", 2)
  /\ cpc' = "up"
  /\ UNCHANGED <<kind, want, spc, cbuf, sbuf, dest, dec, sent, got, torn>>

(* A salt that was not read as a whole decrypts nothing.                   *)
ReadSalt(e) ==
  /\ \E b \in Reads(e, KeySize) :
       /\ Exchange(e, KeySize, b, << >>)
       /\ dec' = [dec EXCEPT ![e] =
                    [salt |-> IF Len(b) = KeySize THEN b[1].salt ELSE Absent, nonce |-> 0]]
  /\ UNCHANGED <<kind, want, cpc, cbuf, sbuf, dest, enc, sent, got>>

SsSalt == spc = "salt" /\ ReadSalt("server") /\ spc' = "meta"

SsDest(b) ==
  [type |-> CASE b[1] = AtypDomain -> "domain" [] b[1] = AtypIPv4 -> "ip4"
              [] b[1] = AtypIPv6 -> "ip6",
   addr |-> CASE b[1] = AtypDomain -> SubSeq(b, 3, b[2] + 2)
              [] b[1] = AtypIPv4   -> SubSeq(b, 2, 5)
              [] b[1] = AtypIPv6   -> SubSeq(b, 2, 17),
   port |-> SubSeq(b, Len(b) - 1, Len(b))]

SsServes ==
  /\ spc = "meta" /\ Len(wire["client"]) >= 2
  /\ IF Opens("server")
     THEN /\ dest' = SsDest(NextChunk("server")[2].data)
          /\ Carries("server", NextChunk("server"), Salt("server"))
          /\ Decrypts("server")
          /\ spc' = "up"
     ELSE spc' = "failed" /\ UNCHANGED <<dest, wire, dec>>
  /\ UNCHANGED <<kind, want, cpc, cbuf, sbuf, enc, sent, got, torn>>

-----------------------------------------------------------------------------
Up(e) == IF e = "client" THEN cpc = "up" ELSE spc = "up"

Write(e) ==
  /\ Up(e)
  /\ \E n \in Blocks :
       LET d == [i \in 1 .. n |-> (IF e = "client" THEN 100 ELSE 200) + Len(sent[e]) + i]
       IN  /\ Len(sent[e]) + n <= MaxBytes
           /\ sent' = [sent EXCEPT ![e] = @ \o d]
           /\ IF kind = "shadowsocks"
              THEN Carries(e, << >>, Chunks(e, d)) /\ Encrypts(e, Len(Chunks(e, d)))
              ELSE Carries(e, << >>, d) /\ UNCHANGED enc
  /\ UNCHANGED <<kind, want, cpc, spc, cbuf, sbuf, dest, dec, got, torn>>

ReadPlain(e) ==
  /\ Up(e) /\ kind # "shadowsocks"
  /\ \E b \in Reads(e, MaxBytes) : Carries(e, b, << >>) /\ got' = [got EXCEPT ![e] = @ \o b]
  /\ UNCHANGED <<kind, want, cpc, spc, cbuf, sbuf, dest, enc, dec, sent, torn>>

(* The client end reads the server end's salt when it first reads.         *)
LateSalt ==
  /\ cpc = "up" /\ kind = "shadowsocks" /\ dec["client"] = Absent
  /\ ReadSalt("client") /\ UNCHANGED spc

ReadChunk_oneNonce(e) ==
  /\ Up(e) /\ kind = "shadowsocks" /\ dec[e] # Absent
  /\ Len(wire[Peer(e)]) >= 2 /\ Opens(e)
  /\ Carries(e, NextChunk(e), << >>)
  /\ dec' = [dec EXCEPT ![e].nonce = @ + 1]
  /\ got' = [got EXCEPT ![e] = @ \o NextChunk(e)[2].data]
  /\ UNCHANGED <<kind, want, cpc, spc, cbuf, sbuf, dest, enc, sent, torn>>

ReadChunk(e) ==
  /\ Up(e) /\ kind = "shadowsocks" /\ dec[e] # Absent
  /\ Len(wire[Peer(e)]) >= 2 /\ Opens(e)
  /\ Carries(e, NextChunk(e), << >>)
  /\ Decrypts(e)
  /\ got' = [got EXCEPT ![e] = @ \o NextChunk(e)[2].data]
  /\ UNCHANGED <<kind, want, cpc, spc, cbuf, sbuf, dest, enc, sent, torn>>

ClientStep == SocksGreets \/ SocksRequests \/ SocksReplied \/ SocksConsumes \/ SsGreets
ServerStep == \/ SocksGreeted \/ SocksMethods \/ SocksServes
              \/ SocksLength \/ SocksDomain \/ SocksAddr \/ SocksPort
              \/ SsSalt \/ SsServes
Read(e) == ReadPlain(e) \/ ReadChunk(e) \/ (e = "client" /\ LateSalt)

StreamNext == ClientStep \/ ServerStep \/ \E e \in End : Write(e) \/ Read(e)

StreamSpec == StreamInit /\ [][StreamNext]_streamVars

(* Both ends go on when they can: a read returns when something has come.  *)
StreamFairness ==
  /\ WF_streamVars(ClientStep) /\ WF_streamVars(ServerStep)
  /\ \A e \in End : WF_streamVars(Read(e))

-----------------------------------------------------------------------------
Plain(d) == IF d.type = "ip4in6" THEN [d EXCEPT !.type = "ip4"] ELSE d

(* The streams whose destination the client end sends as the server end    *)
(* reads it.                                                               *)
Carried ==
  \/ kind = "none"
  \/ kind = "shadowsocks" /\ (want.type = "domain" => Len(want.addr) < 256)
  \/ kind = "socks" /\ want.type \in {"ip4", "ip6"}

(* The server end takes the stream where the client end was told to, and   *)
(* each end reads what the other wrote, from its first byte on: nothing of *)
(* the handshake is left in the stream, and nothing of the stream was      *)
(* taken for a part of it.  Not so once a read was torn, nor for Socks     *)
(* with a domain or an IPv4 address in 16 bytes, nor for Shadowsocks with  *)
(* a domain of 256 bytes.                                                  *)
TunnelRight ==
  ~torn /\ Carried =>
    /\ spc = "up" /\ kind # "none" => dest = Plain(want)
    /\ \A e \in End : IsPrefix(got[e], sent[Peer(e)])

(* Under the same conditions the handshakes come to their end and all that *)
(* is written is read.                                                     *)
AllArrives ==
  []~torn /\ Carried =>
    /\ <>(cpc = "up" /\ spc = "up")
    /\ \A e \in End, n \in {1, MaxBytes} : Len(sent[e]) >= n ~> Len(got[Peer(e)]) >= n
=============================================================================

------------------------------ MODULE Checksum ------------------------------
(***************************************************************************)
(* ingress/tun: the checksums of a packet that is translated, or answered  *)
(* if it is an echo request, and written back to the device.  A header is  *)
(* the addresses and the sum in it, with `rest' for the sum of its other   *)
(* words; what follows it is bytes, of which an odd number may come.       *)
(***************************************************************************)
EXTENDS Integers, Sequences

CONSTANTS
  Ip,       \* addresses, as sequences of four bytes
  Ports,    \* ports
  Rest,     \* what the other words of a header add up to
  Body,     \* of each protocol, what may come behind the header
  Old,      \* sums a packet may come with
  Blank     \* where no packet is

Word == 65536
Number == [tcp |-> 6, udp |-> 17]           \* of a protocol, in the pseudo header
SumAt  == [tcp |-> 17, udp |-> 7, icmp |-> 3]

Byte == 0 .. 255

(* A header is 60 bytes at the most, which are 25 words beside the sum and *)
(* the addresses; the length of a packet is in one word.                   *)
ASSUME ChecksumAssumption ==
  /\ \A a \in Ip : a \in Seq(Byte) /\ Len(a) = 4
  /\ Rest \subseteq 0 .. 25 * (Word - 1)
  /\ Ports \cup Old \subseteq 0 .. Word - 1
  /\ \A p \in DOMAIN SumAt : \A b \in Body[p] :
       b \in Seq(Byte) /\ SumAt[p] < Len(b) /\ Len(b) < Word

VARIABLES
  proto, head, body,   \* the packet that was read
  written              \* the one that is written: its header and the rest

checksumVars == <<proto, head, body, written>>

(* The words of b, the last one filled up with a zero.                     *)
Sum(b) ==
  LET upTo[i \in 0 .. Len(b)] ==
        IF i = 0 THEN 0
        ELSE upTo[i - 1] + (IF i % 2 = 1 THEN b[i] * 256 ELSE b[i])
  IN  upTo[Len(b)]

Carry(n) == (n \div Word) + (n % Word)

Folded_once(n) == IF n < Word THEN n ELSE Carry(n)

(* The carries are added until none is left: a sum of 32 bits leaves none  *)
(* after two rounds.                                                       *)
Folded(n) ==
  IF n < Word THEN n ELSE IF Carry(n) < Word THEN Carry(n) ELSE Carry(Carry(n))

Complement(n) == (Word - 1 - Folded(n)) % Word

PutWord(b, i, w) == [b EXCEPT ![i] = w \div 256, ![i + 1] = w % 256]

HeadSum(h) == Sum(h.src) + Sum(h.dst) + h.rest

PseudoSum(p, h, b) ==
  IF p = "icmp" THEN 0 ELSE Sum(h.src) + Sum(h.dst) + Number[p] + Len(b)

UpdateHead(h) == [h EXCEPT !.sum = Complement(HeadSum(h))]

UpdateBody(p, h, b) ==
  PutWord(b, SumAt[p], Complement(PseudoSum(p, h, b) + Sum(PutWord(b, SumAt[p], 0))))

-----------------------------------------------------------------------------
(* A receiver adds the words up as ones' complements, the sum among them:  *)
(* it must get the zero that is all ones.                                  *)
Verifies(n) == n > 0 /\ n % (Word - 1) = 0
HeadGood(h) == Verifies(HeadSum(h) + h.sum)
BodyGood(p, h, b) == Verifies(PseudoSum(p, h, b) + Sum(b))

(* A packet has whatever sums the kernel left to the device to fill in,    *)
(* but for the header's, which is right.                                   *)
SumsInit ==
  /\ proto \in {"tcp", "udp", "icmp"}
  /\ \E s \in Ip, d \in Ip, r \in Rest :
       head = UpdateHead([src |-> s, dst |-> d, rest |-> r, sum |-> 0])
  /\ \E b \in Body[proto], o \in Old : body = PutWord(b, SumAt[proto], o)
  /\ written = Blank

(* From an application: the mapped address as its source, the relay as its *)
(* destination.  From the relay: the other way, with both ports.           *)
Translate(s, d, b) ==
  /\ proto # "icmp" /\ written = Blank
  /\ LET h == [head EXCEPT !.src = s, !.dst = d]
     IN  written' = [head |-> UpdateHead(h), body |-> UpdateBody(proto, h, b)]
  /\ UNCHANGED <<proto, head, body>>

ToRelay(s, d, port) == Translate(s, d, PutWord(body, 3, port))

ToApp(s, d, from, to) == Translate(s, d, PutWord(PutWord(body, 1, from), 3, to))

(* An echo request is answered, for whatever address and whatever ICMP     *)
(* packet it is.  The sum of the header is left as it is.                  *)
Echo ==
  /\ proto = "icmp" /\ written = Blank
  /\ LET h == [head EXCEPT !.src = head.dst, !.dst = head.src]
     IN  written' = [head |-> h, body |-> UpdateBody(proto, h, [body EXCEPT ![1] = 0])]
  /\ UNCHANGED <<proto, head, body>>

(* The device may be given the same packet again.                          *)
Again ==
  /\ written # Blank /\ written' = Blank
  /\ UNCHANGED <<proto, head, body>>

SumsNext ==
  \/ \E s \in Ip, d \in Ip, port \in Ports :
       ToRelay(s, d, port) \/ \E to \in Ports : ToApp(s, d, port, to)
  \/ Echo \/ Again

SumsSpec == SumsInit /\ [][SumsNext]_checksumVars

-----------------------------------------------------------------------------
(* Whoever gets a packet that was written back finds both of its sums      *)
(* right: they were taken over the addresses and ports it has now.         *)
SumsVerify ==
  written # Blank => HeadGood(written.head) /\ BodyGood(proto, written.head, written.body)
=============================================================================

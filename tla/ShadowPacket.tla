---------------------------- MODULE ShadowPacket ----------------------------
(***************************************************************************)
(* component/proxy/shadowsocks/packetConn.go: the datagrams that are       *)
(* written to the clients of a UDP ingress.  Each client has a goroutine   *)
(* of an egress that writes to it, and all of them build what they send in *)
(* the wBuffer of the one socket, without a lock: the salt, the remote's   *)
(* address (`head') and the payload (`body'), both then sealed in place.   *)
(* A datagram stands for its writer; a part of the buffer is who wrote it  *)
(* and the salt it is sealed under.                                        *)
(***************************************************************************)
EXTENDS Naturals, Sequences

CONSTANTS
  Writer,        \* the goroutines that write
  MaxDatagrams,  \* a bound of the model: what each of them writes
  None           \* not sealed, nobody

ASSUME PacketAssumption == None \notin Writer \X Nat

VARIABLES
  buffer,    \* salt, head and body
  key,       \* the salt each writer derived its key from
  at,        \* where each writer is in WriteMsgTo
  count,     \* the datagrams each has begun
  shared,    \* whether another write overlapped the one a writer is at
  datagram   \* what each client was sent last

packetVars == <<buffer, key, at, count, shared, datagram>>

PacketInit ==
  /\ buffer = [salt |-> None, head |-> [by |-> None, key |-> None],
               body |-> [by |-> None, key |-> None]]
  /\ key = [w \in Writer |-> None]
  /\ at = [w \in Writer |-> "idle"]
  /\ count = [w \in Writer |-> 0]
  /\ shared = [w \in Writer |-> FALSE]
  /\ datagram = [w \in Writer |-> buffer]

Goes(w, from, to) == at[w] = from /\ at' = [at EXCEPT ![w] = to]

Busy == {w \in Writer : at[w] # "idle"}

(* The datagram a writer is at.  Its salt is like no other.                *)
This(w) == <<w, count[w]>>

WriteSalt(w) ==
  /\ Goes(w, "idle", "salted") /\ count[w] < MaxDatagrams
  /\ count' = [count EXCEPT ![w] = @ + 1]
  /\ buffer' = [buffer EXCEPT !.salt = This(w)']
  /\ shared' = [o \in Writer |-> IF o = w THEN Busy # {}
                                 ELSE shared[o] \/ o \in Busy]
  /\ UNCHANGED <<key, datagram>>

DeriveKey(w) ==
  /\ Goes(w, "salted", "keyed")
  /\ key' = [key EXCEPT ![w] = buffer.salt]
  /\ UNCHANGED <<buffer, count, shared, datagram>>

WriteHead(w) ==
  /\ Goes(w, "keyed", "headed")
  /\ buffer' = [buffer EXCEPT !.head = [by |-> This(w), key |-> None]]
  /\ UNCHANGED <<key, count, shared, datagram>>

WriteBody(w) ==
  /\ Goes(w, "headed", "whole")
  /\ buffer' = [buffer EXCEPT !.body = [by |-> This(w), key |-> None]]
  /\ UNCHANGED <<key, count, shared, datagram>>

(* What is sealed already becomes nothing that can be opened.              *)
Sealed(part, k) == [by |-> IF part.key = None THEN part.by ELSE None, key |-> k]

Encrypt_headOnly(w) ==
  /\ Goes(w, "whole", "sealed")
  /\ buffer' = [buffer EXCEPT !.head = Sealed(@, key[w])]
  /\ UNCHANGED <<key, count, shared, datagram>>

Encrypt(w) ==
  /\ Goes(w, "whole", "sealed")
  /\ buffer' = [buffer EXCEPT !.head = Sealed(@, key[w]), !.body = Sealed(@, key[w])]
  /\ UNCHANGED <<key, count, shared, datagram>>

WriteTo(w) ==
  /\ Goes(w, "sealed", "idle")
  /\ datagram' = [datagram EXCEPT ![w] = buffer]
  /\ UNCHANGED <<buffer, key, count, shared>>

PacketNext ==
  \E w \in Writer : \/ WriteSalt(w) \/ DeriveKey(w) \/ WriteHead(w)
                    \/ WriteBody(w) \/ Encrypt(w) \/ WriteTo(w)

PacketSpec == PacketInit /\ [][PacketNext]_packetVars

-----------------------------------------------------------------------------
(* ReadMsgFrom at the client: the payload, if the datagram can be opened.  *)
Readable(d) == d.salt # None /\ d.head.key = d.salt /\ d.body.key = d.salt

(* A client is sent what is its own, whole, by every write that no other   *)
(* write to any client of the socket overlapped.                           *)
OwnDatagram ==
  [][\A w \in Writer :
       datagram'[w] # datagram[w] /\ ~shared[w] =>
         /\ Readable(datagram'[w])
         /\ datagram'[w].head.by = This(w) /\ datagram'[w].body.by = This(w)
    ]_packetVars
=============================================================================

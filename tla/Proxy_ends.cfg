\* Every proxy with every form of destination, and two writers of datagrams.
SPECIFICATION Spec
CONSTANTS
  Kinds = {"none", "socks", "shadowsocks", "packets"}
  Dests <- SomeDests
  KeySize = 2
  MaxPayload = 2
  Blocks = {1, 3}
  MaxBytes = 4
  Absent = Absent
  Writer = {w1, w2}
  MaxDatagrams = 2
  None = None
INVARIANTS
  TunnelRight
PROPERTIES
  AllArrives
  OwnDatagram
\* What is written is bounded, and a torn handshake waits for ever.
CHECK_DEADLOCK FALSE

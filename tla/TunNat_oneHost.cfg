\* The machine's own applications on three ports, another machine that reaches
\* the relay, a pool of two addresses; packets of each protocol.
SPECIFICATION MCSpec
CONSTANTS
  d1 = d1
  d2 = d2
  h2 = h2
  Loop = Loop
  Caller = {Loop}
  Nil = Nil
  Blank = Blank
  Iface = 1
  Key = {d1, d2}
  Value = {0, 1, 2, 3, 4}
  Size = 5
  Capacity = 2
  Proto = {"udp"}
  Host = {1, h2}
  Port = {1, 2, 3}
  Source <- OneHost
  Ip <- Ips
  Ports = {0, 53, 65535}
  Rest = {17920, 131071}
  Body <- Bodies
  Old = {0, 65535}
INVARIANTS
  NoMissingEntry
  RepliesReachAsker
  SumsVerify
PROPERTIES
  StickyFlow
\* A missing entry is a panic, after which nothing runs.
CHECK_DEADLOCK FALSE

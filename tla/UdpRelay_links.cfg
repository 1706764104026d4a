\* Two ingresses, a client of both, one of the TUN alone, both egresses.
\* The second datagram for DIRECT ends the program.
SPECIFICATION Spec
CONSTANTS
  tun = tun
  in = in
  c1 = c1
  c2 = c2
  Ingress = {tun, in}
  Tun = {tun}
  Client = {c1, c2}
  Serves <- BothWays
  Dest = {d1, d2}
  Direct = {d2}
  MaxSock = 2
  Nil = Nil
INVARIANTS
  LosesOneAtMost
  LiveLinkKept
CHECK_DEADLOCK FALSE

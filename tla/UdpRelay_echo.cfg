\* The second datagram of a client.
SPECIFICATION Spec
CONSTANTS
  tun = tun
  in = in
  c1 = c1
  c2 = c2
  Ingress = {in}
  Tun = {}
  Client = {c1}
  Serves <- AllServe
  Dest = {d1}
  Direct = {}
  MaxSock = 2
  Nil = Nil
INVARIANTS
  NoEcho

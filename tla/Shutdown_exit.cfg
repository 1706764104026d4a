\* A query and a dialer; interfaces may be out of reach for a while.
SPECIFICATION Spec
CONSTANTS
  eth = eth
  wlan = wlan
  Query = {q1}
  Upstreams = 2
  Dialer = {d}
  IfName = {eth, wlan}
  Nets <- SomeNets
  Nil = Nil
PROPERTIES
  Ends
  ReadersServed
  CatchesUp

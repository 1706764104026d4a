\* The network was down for a moment before the signal.
SPECIFICATION Spec
CONSTANTS
  eth = eth
  wlan = wlan
  Query = {q1}
  Upstreams = 2
  Dialer = {}
  IfName = {eth}
  Nets <- MayGoDown
  Nil = Nil
PROPERTIES
  EndsInTime

\* Whatever depends on the outside may fail; Close at any moment.
SPECIFICATION Spec
CONSTANTS
  DevCmds = 2
  Rules = 3
  MaxStreams = 2
  Faults = {"open", "cmd", "tcp", "udp", "dns"}
INVARIANTS
  RulesRemoved
  SetupUndone
PROPERTIES
  ReadLoopEnds
  UdpLoopEnds
  RelayStarts
\* A TUN that was closed has stopped.
CHECK_DEADLOCK FALSE

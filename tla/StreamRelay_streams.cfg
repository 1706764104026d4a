\* Two connections, one for a real egress, whose peers send, and one rejected.
SPECIFICATION Spec
CONSTANTS
  c1 = c1
  c2 = c2
  Conn = {c1, c2}
  Route <- MCRoute
  Talker = {c1}
  Nil = Nil
INVARIANTS
  TypeOK
  NothingCut
  NothingLeaks
PROPERTIES
  StreamsEnd
  ClosedStreamsEnd
\* Everything that was started has ended.
CHECK_DEADLOCK FALSE

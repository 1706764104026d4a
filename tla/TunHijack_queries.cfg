\* Six queries, a channel for two.  The queries come to an end.
SPECIFICATION HijackSpec
CONSTANTS
  N = 6
  Room = 2
INVARIANTS
  RightOrLate
PROPERTIES
  QueriesEnd
CHECK_DEADLOCK FALSE

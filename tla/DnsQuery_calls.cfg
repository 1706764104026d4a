\* Three upstreams, each of which may fail.
SPECIFICATION CallSpec
CONSTANTS
  N = 3
  Callers = {"resolver", "handler"}
INVARIANTS
  FailsOnlyIfAllFail
PROPERTIES
  CallReturns
  LeftoversEnd
\* The call is over.
CHECK_DEADLOCK FALSE

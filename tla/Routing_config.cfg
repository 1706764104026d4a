\* Four rule lines of ten kinds, names that clash or do not.
SPECIFICATION Spec
CONSTANTS
  Nil = Nil
  EgressNames <- Egresses
  GroupNames <- Groups
  IngressNames <- Ingresses
  Line <- SomeLines
  Flow <- SomeFlows
  MaxLines = 4
INVARIANTS
  DispatchRight
  FlowsHaveEgress
  NamesApart
\* The configuration is read.
CHECK_DEADLOCK FALSE

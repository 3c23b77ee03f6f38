CONSTANTS
  n1 = n1
  n2 = n2
  n3 = n3
  NoNode = NoNode
  Node <- MCNode
  K = 2
  Builders <- MCBuilders
  Allowed <- MCFaults
  MaxFaults = 1
  MaxThreads = 2
SPECIFICATION Spec
CHECK_DEADLOCK FALSE
INVARIANTS
  TypeOK
  RecordsAreTrue
  OffersAreBacked
  TargetingIsServed
  CancelIsServed
SYMMETRY MCSymmetry

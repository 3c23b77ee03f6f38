CONSTANTS
  n1 = n1
  n2 = n2
  n3 = n3
  NoNode = NoNode
  Node <- MCNode
  K = 2
  Builders <- MCBuilders
  Allowed <- MCTimer
  MaxFaults = 1
  MaxThreads = 1
SPECIFICATION Spec
CHECK_DEADLOCK FALSE
INVARIANTS
  SlotsAreTimed
  
PROPERTY OffersFillTheGap
SYMMETRY MCSymmetry

SPECIFICATION Spec
CONSTANTS
  Node = {n1, n2}
  NoNode = NoNode
  MaxBoot = 1
  MaxPoll = 1
  MaxGlitch = 1
  Hosts <- TwoHosts
  PlacementOn = {n2}
  Writable = {n1}
  Brittle = {"push"}
  Builders = {n1}
INVARIANTS TypeOK KeyAgreement PushIsNotLost 
PROPERTIES RefinesClusterKey Federated
CHECK_DEADLOCK FALSE

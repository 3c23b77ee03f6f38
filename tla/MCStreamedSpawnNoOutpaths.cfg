CONSTANTS
  PlanSize <- MCPlanSize
  CommonDeps <- MCCommonDeps
  Needs <- MCNeeds
  GateOf <- MCGateOf
  GateIds <- MCGateIds
  Config <- NoOutpathsConfig
  InOrder = TRUE
  EarlyEnd = FALSE
  Repack = FALSE
  MaxRuns = 1
  Budget <- NoFaultBudget
SPECIFICATION Spec
INVARIANTS
  PassedMeansSpawned
CHECK_DEADLOCK FALSE

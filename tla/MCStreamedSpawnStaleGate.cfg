CONSTANTS
  PlanSize <- MCPlanSize
  CommonDeps <- MCCommonDeps
  Needs <- MCNeeds
  GateOf <- MCGateOf
  GateIds <- MCGateIds
  Config <- DefaultConfig
  InOrder = TRUE
  EarlyEnd = FALSE
  Repack = FALSE
  MaxRuns = 1
  Budget <- RetryAndRaiseBudget
SPECIFICATION Spec
INVARIANTS
  PassedMeansSpawned
CHECK_DEADLOCK FALSE

CONSTANTS
  PlanSize <- MCPlanSize
  CommonDeps <- MCCommonDeps
  Needs <- MCNeeds
  GateOf <- MCGateOf
  GateIds <- MCGateIds
  Config <- DefaultConfig
  InOrder = TRUE
  EarlyEnd = FALSE
  Repack = FALSE
  MaxRuns = 1
  Budget <- RetryAndLossBudget
SPECIFICATION Spec
INVARIANTS
  PassedMeansHandled
CHECK_DEADLOCK FALSE

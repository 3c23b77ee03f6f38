CONSTANTS
  PlanSize <- MCPlanSize
  CommonDeps <- MCCommonDeps
  Needs <- MCNeeds
  GateOf <- MCGateOf
  GateIds <- MCGateIds
  Config <- DefaultConfig
  InOrder = FALSE
  EarlyEnd = TRUE
  Repack = FALSE
  MaxRuns = 2
  Budget <- NoRetryBudget
SPECIFICATION Spec
INVARIANTS
  TypeOK
  Accounting
  PassedMeansHandled
  NoFalseAlarm
CHECK_DEADLOCK FALSE

CONSTANTS
  PlanSize <- MCPlanSize
  CommonDeps <- MCCommonDeps
  Needs <- MCNeeds
  GateOf <- MCGateOf
  GateIds <- MCGateIds
  Config <- DefaultConfig
  InOrder = TRUE
  EarlyEnd = TRUE
  Repack = TRUE
  MaxRuns = 2
  Budget <- NoLossBudget
SPECIFICATION FairSpec
INVARIANTS
  PassedMeansSpawned
  HandledIsSpawned
  GateNeverForgotten
PROPERTIES
  RefinesHandoff
  EveryRunConcludes
CHECK_DEADLOCK FALSE

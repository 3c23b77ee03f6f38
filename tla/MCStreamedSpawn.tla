--------------------------- MODULE MCStreamedSpawn ---------------------------
(* Small instances of StreamedSpawn for TLC.  The plan has three shared      *)
(* dependencies and one variant that needs two of them; the first two are    *)
(* the same store path under two task ids (a per-cell and a cross-arch one), *)
(* so they share an import gate.                                             *)
EXTENDS StreamedSpawn, TLC

MCPlanSize == 4
MCCommonDeps == 1..3
MCNeeds == 1 :> {} @@ 2 :> {} @@ 3 :> {} @@ 4 :> {2, 3}
MCGateOf == 1 :> "g1" @@ 2 :> "g1" @@ 3 :> "g2"
MCGateIds == {"g1", "g2"}

DefaultConfig ==
  [toolchain_outpaths |-> TRUE, build_deps_local |-> TRUE,
   common_deps_affine |-> TRUE, disable_task_deps |-> FALSE]

\* What cli.cmd_run builds when no toolchain outpath could be evaluated.
NoOutpathsConfig == [DefaultConfig EXCEPT !.toolchain_outpaths = FALSE]

BudgetOf(kinds) == [f \in FaultKinds |-> IF f \in kinds THEN 1 ELSE 0]

NoFaultBudget == BudgetOf({})
NoRetryBudget == BudgetOf(FaultKinds \ {"died"})
NoLossBudget == BudgetOf(FaultKinds \ {"lost", "raised"})
RetryAndLossBudget == BudgetOf({"died", "lost"})
RetryAndRaiseBudget == BudgetOf({"died", "raised"})
==============================================================================

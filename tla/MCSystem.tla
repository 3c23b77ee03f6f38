-------------------------------- MODULE MCSystem --------------------------------
(***************************************************************************)
(* Instances for TLC of the components that do not share state while they  *)
(* run: the pipeline, the submissions, the merging of templates into       *)
(* tasks, the streaming planner, the broadcast flood, the settle timer and *)
(* the cache uploader.  A behaviour is one of one component, part; the     *)
(* others rest in an initial state.  Nothing is lost: their specifications *)
(* are independent of each other.                                          *)
(***************************************************************************)
EXTENDS BuildPipeline, Submit, DependencyPlan, TemplateGraph, BroadcastFlood,
        SettleTimer, CachixUploader, TLC

CONSTANTS n1, n2, n3, b1, b2, t1, t2, v1, v2, x, y, x86, i686, arm,
  zlib, curl, patch, gold,
  Parts  \* the components to run

VARIABLE part

-------------------------------------------------------------------------------
\* Two binaries with a variant each, of toolchains that share a path.
MCPkg == v1 :> b1 @@ v2 :> b2
MCTc == v1 :> t1 @@ v2 :> t2
MCClosure == t1 :> {"glibc", "gcc"} @@ t2 :> {"glibc", "clang"}
Mode(p, b, n) == [prestaged |-> p, buildDepsLocal |-> b, noSubstituters |-> n]
MCModes == {Mode(FALSE, FALSE, FALSE), Mode(TRUE, TRUE, TRUE)}

-------------------------------------------------------------------------------
\* Command lines that differ in what the results depend on.
Request(archs, sample, cache) ==
  [archs |-> archs, sample |-> sample, build |-> TRUE, cache |-> cache, dedup |-> TRUE]
MCRequests == {Request({x}, 0, TRUE), Request({x, y}, 1, TRUE),
  [Request({y}, 0, TRUE) EXCEPT !.build = FALSE, !.dedup = FALSE]}

-------------------------------------------------------------------------------
\* Three architectures of two families, two roles.
MCFamily == x86 :> "x86" @@ i686 :> "x86" @@ arm :> "arm"
SomeNodes(r) == IF r = 1 THEN {"variant_specific", zlib, curl} ELSE {"absent", zlib, gold}
PlanInit ==
  /\ node \in [TargetArch -> {f \in [Role -> Nodes] : \A r \in Role : f[r] \in SomeNodes(r)}]
  /\ indep \in {{}, {zlib, patch}}

-------------------------------------------------------------------------------
\* The variants are 1, 2 and 3; below them are two derivations each of three roles,
\* the standard environments 8 and 13 with derivations of their own, and one of the
\* toolchain.
MCDrvRole == [d \in Drv |->
  CASE d <= 3 -> 0 [] d \in {4, 5} -> 1 [] d \in {6, 7} -> 2 [] d = 8 -> 3 [] d = 9 -> 4
    [] d = 12 -> 6 [] d = 13 -> 3 [] OTHER -> 5]
MCDrvReferences ==
  {<<a, b, c, d, e, <<8>>, <<8>>, <<9>>, <<>>, <<4>>, <<5>>, <<>>, <<11>>>> :
     a \in {<<4>>, <<4, 5>>, <<4, 6>>, <<4, 10>>},
     b \in {<<4, 10>>, <<5>>, <<5, 4>>, <<5, 6>>, <<4, 10, 5>>},
     c \in {<<4, 11>>, <<5>>, <<6>>, <<4, 7>>},
     d \in {<<>>, <<7, 6>>, <<9, 12>>, <<13>>}, e \in {<<>>, <<6, 7>>, <<8>>}}
MCPrintings == {<<1>>, <<1, 2, 3>>}
MCCleanSplit == {<<4, 5>>}

-------------------------------------------------------------------------------
\* Without loss of generality n1 announces, and knows n2 if it knows n3.
SomeFlood == FloodInit /\ outbox[n1] # {} /\ (n3 \in knows[n1] => n2 \in knows[n1])

-------------------------------------------------------------------------------
Init ==
  /\ part \in Parts
  /\ EarlyInit /\ (part = "pipeline" \/ mode = Mode(FALSE, FALSE, FALSE))
  /\ SubmitInit
  /\ PlanInit /\ (part = "plan" \/ (indep = {} /\ \A a \in TargetArch : node[a] = [r \in Role |-> IF r = 1 THEN "variant_specific" ELSE "absent"]))
  /\ TemplateInit /\ (part = "template" \/ (roots = <<1>> /\ refs = CHOOSE r \in MCDrvReferences : TRUE))
  /\ SomeFlood /\ (part = "flood" \/ (holds = {n1} /\ \A n \in Peer : knows[n] = Peer \ {n}))
  /\ SettleInit /\ (part = "settle" \/ hashKnown)
  /\ UploaderInit /\ (part = "uploader" \/ valid = {})

PipelineTurn == part = "pipeline" /\ PipelineNext
  /\ UNCHANGED <<part, planVars, submitVars, templateVars, floodVars, settleVars, uploaderVars>>

SubmitTurn == part = "submit" /\ SubmitNext
  /\ UNCHANGED <<part, planVars, pipelineVars, templateVars, floodVars, settleVars, uploaderVars>>

TemplateTurn == part = "template" /\ TemplateNext
  /\ UNCHANGED <<part, planVars, pipelineVars, submitVars, floodVars, settleVars, uploaderVars>>

FloodTurn == part = "flood" /\ FloodNext
  /\ UNCHANGED <<part, planVars, pipelineVars, submitVars, templateVars, settleVars, uploaderVars>>

SettleTurn == part = "settle" /\ SettleNext
  /\ UNCHANGED <<part, planVars, pipelineVars, submitVars, templateVars, floodVars, uploaderVars>>

UploaderTurn == part = "uploader" /\ UploaderNext
  /\ UNCHANGED <<part, planVars, pipelineVars, submitVars, templateVars, floodVars, settleVars>>

\* planVars are an input: DependencyPlan has no step.
Next ==
  PipelineTurn \/ SubmitTurn \/ TemplateTurn \/ FloodTurn \/ SettleTurn \/ UploaderTurn

\* The fairness of the components.
Fairness ==
  /\ \A n \in Node :
       /\ WF_pipelineVars(part = "pipeline" /\ (EarlyStep(n) \/ BuildStep(n)))
       /\ WF_pipelineVars(part = "pipeline" /\ \E k \in Task : Assign(n, k) /\ UNCHANGED evalVars)
  /\ WF_floodVars(part = "flood" /\ FloodStep)

vars == <<part, pipelineVars, submitVars, planVars, templateVars, floodVars, settleVars, uploaderVars>>

Spec == Init /\ [][Next]_vars /\ Fairness

-------------------------------------------------------------------------------
\* The properties of the components, each of its own behaviours.

TypeOK ==
  /\ PipelineTypeOK /\ SubmitTypeOK /\ PlanTypeOK /\ TemplateTypeOK
  /\ FloodTypeOK /\ SettleTypeOK /\ UploaderTypeOK

\* EveryVariantIsBuilt, of the behaviours in which the pipeline runs.
PipelineConcludes == part = "pipeline" => EveryVariantIsBuilt

\* FloodReaches, of the behaviours in which a broadcast runs.
FloodSpreads == part = "flood" => FloodReaches
=============================================================================

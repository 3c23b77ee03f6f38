--------------------------- MODULE BuildPipelineProofs ---------------------------
(***************************************************************************)
(* Proofs about BuildPipeline, for every set of nodes, binaries,           *)
(* toolchains and variants and every number of faults: builds see their    *)
(* derivations, without faults only the excepted gates break, no binary    *)
(* drops out of the plan, and a pipeline at rest has left nothing undone.  *)
(***************************************************************************)
EXTENDS BuildPipeline, TLAPS

USE DEF pipelineVars, storeVars, poolVars, gateVars, evalVars
USE StoreAssumption, VariantAssumption

\* One step of node n, whatever its kind.
NodeStep(n) ==
  \/ \E t \in Task : Assign(n, t) /\ UNCHANGED evalVars
  \/ EarlyStep(n)
  \/ BuildStep(n)
  \/ PipelineFault(n)

LEMMA SplitIsToolchain == SplitArchives(Toolchain) \subseteq {"common"} \cup Toolchain
  BY DEF SplitArchives, Answered

-------------------------------------------------------------------------------
\* Type correctness.

LEMMA InitialType == EarlyInit => PipelineTypeOK
<1> SUFFICES ASSUME EarlyInit PROVE PipelineTypeOK
  OBVIOUS
<1>1. StoreTypeOK
  BY SplitIsToolchain DEF EarlyInit, StoreTypeOK, Archive
<1>2. PoolTypeOK
  BY DEF EarlyInit, PoolTypeOK, Task, Steps
<1>3. EvalTypeOK
  BY DEF EarlyInit, EvalTypeOK, VariantsOf
<1> QED BY <1>1, <1>2, <1>3 DEF PipelineTypeOK

\* A task that waits or runs is of the sets its phase names.
LEMMA EarlyType ==
  ASSUME PipelineTypeOK, NEW n \in Node, EarlyStep(n)
  PROVE  PipelineTypeOK'
<1> USE DEF PipelineTypeOK, StoreTypeOK, PoolTypeOK, EvalTypeOK, NoFault
<1>1. CASE SkipCompiler(n)
  BY <1>1 DEF SkipCompiler, At, Finish, Task
<1>2. CASE RealiseToolchain(n)
  BY <1>2 DEF RealiseToolchain, At, GoTo, Gain, Archive, Steps
<1>3. CASE ExportToolchain(n)
  BY <1>3 DEF ExportToolchain, At, Finish, Task
<1>4. CASE Evaluate(n)
  BY <1>4 DEF Evaluate, At, GoTo, Sampled, VariantsOf, Steps
<1>5. CASE BuildAggregate(n)
  <2>1. store' \in [Node -> SUBSET Archive]
    <3>1. store \in [Node -> SUBSET Archive] /\ {"drvs"} \cup Aggregate(job[n]) \subseteq Archive
      BY <1>5 DEF BuildAggregate, At, Aggregate, Archive
    <3>2. store' = store \/ store' = [store EXCEPT ![n] = @ \cup ({"drvs"} \cup Aggregate(job[n]))]
      BY <1>5 DEF BuildAggregate, Gain
    <3> QED BY ONLY <3>1, <3>2
  <2>2. /\ step' \in [Node -> Steps] /\ job' \in [Node -> Task \cup {"idle"}]
        /\ status' \in [Task -> {"absent", "waiting", "running", "done", "failed"}]
    <3>1. job[n] \in Task
      BY <1>5 DEF BuildAggregate, At, Task
    <3>2. \/ GoTo(n, "export")
          \/ Finish(n, "failed")
      BY <1>5 DEF BuildAggregate
    <3> QED BY <3>1, <3>2 DEF GoTo, Finish, Steps
  <2>3. mode' = mode
    BY <1>5 DEF BuildAggregate, GoTo, Finish
  <2> QED BY <1>5, <2>1, <2>2, <2>3 DEF BuildAggregate
<1>6. CASE PublishMatrix(n)
  <2>1. job[n] \in Binary
    BY <1>6 DEF PublishMatrix, At
  <2>2. file' \in [Archive -> {"absent", "empty", "whole"}] /\ published' \subseteq Binary
    <3>1. file' = [file EXCEPT ![job[n]] = "empty"] \/ file' = [file EXCEPT ![job[n]] = "whole"]
      BY <1>6 DEF PublishMatrix, Export
    <3>2. published' \subseteq published \cup {job[n]}
      BY <1>6 DEF PublishMatrix
    <3>3. file' \in [Archive -> {"absent", "empty", "whole"}]
      BY <2>1, <3>1, ZenonT(60) DEF Archive
    <3> QED BY <2>1, <3>2, <3>3
  <2>3. step' \in [Node -> Steps]
    BY <1>6 DEF PublishMatrix, GoTo, Steps
  <2> QED BY <1>6, <2>2, <2>3 DEF PublishMatrix, GoTo
<1>7. CASE RecordSidecar(n)
  BY <1>7 DEF RecordSidecar, At, Finish, Fault, Task
<1>8. CASE CheckInputs(n)
  BY <1>8 DEF CheckInputs, At, GoTo, Finish, Steps, Task
<1>9. CASE ImportArchives(n)
  <2> DEFINE found == {"drvs"} \cup {b \in Wanted : Whole(b)}
  <2>1. store' \in [Node -> SUBSET Archive]
    <3>1. store \in [Node -> SUBSET Archive] /\ found \subseteq Archive
      BY DEF Wanted, Archive
    <3>2. store' = store \/ store' = [store EXCEPT ![n] = @ \cup found]
      BY <1>9 DEF ImportArchives, Gain
    <3> QED BY ONLY <3>1, <3>2
  <2>2. /\ step' \in [Node -> Steps] /\ job' \in [Node -> Task \cup {"idle"}]
        /\ status' \in [Task -> {"absent", "waiting", "running", "done", "failed"}]
    <3>1. job[n] \in Task
      BY <1>9 DEF ImportArchives, At, Task
    <3>2. \/ GoTo(n, "plan")
          \/ Finish(n, "failed")
      BY <1>9 DEF ImportArchives
    <3> QED BY <3>1, <3>2 DEF GoTo, Finish, Steps
  <2>3. mode' = mode
    BY <1>9 DEF ImportArchives, GoTo, Finish
  <2> QED BY <1>9, <2>1, <2>2, <2>3 DEF ImportArchives
<1>10. CASE StreamPlan(n)
  BY <1>10 DEF StreamPlan, At, Steps
<1>11. CASE ProduceBuildDeps(n)
  BY <1>11 DEF ProduceBuildDeps, At, GoTo, Gain, Export, BuildInputs, Archive, Steps
<1>12. CASE WriteOutputs(n)
  BY <1>12 DEF WriteOutputs, At, Finish, Task
<1> QED
  BY <1>1, <1>2, <1>3, <1>4, <1>5, <1>6, <1>7, <1>8, <1>9, <1>10, <1>11, <1>12 DEF EarlyStep

LEMMA BuildType ==
  ASSUME PipelineTypeOK, NEW n \in Node, BuildStep(n)
  PROVE  PipelineTypeOK'
<1> USE DEF PipelineTypeOK, StoreTypeOK, PoolTypeOK, EvalTypeOK, NoFault
<1>1. ASSUME NEW a \in Archive, PassGate(n, a) PROVE PipelineTypeOK'
  BY <1>1 DEF PassGate, NextGate, Open, Flag
<1>2. ASSUME NEW a \in Archive, ImportGate(n, a) PROVE PipelineTypeOK'
  BY <1>2 DEF ImportGate, NextGate, Open, Flag, Gain
<1>3. ASSUME NEW a \in Archive, GateFails(n, a) PROVE PipelineTypeOK'
  BY <1>3 DEF GateFails, NextGate, Finish, Fault, Task
<1>4. CASE GiveUpGates(n)
  BY <1>4 DEF GiveUpGates, Finish, Task
<1>5. CASE GatesPassed(n)
  BY <1>5 DEF GatesPassed, At, GoTo, Steps
<1>6. CASE AssertNoSubstitute(n)
  BY <1>6 DEF AssertNoSubstitute, At, GoTo, Finish, Steps, Task
<1>7. CASE NixBuild(n)
  BY <1>7 DEF NixBuild, At, GoTo, Gain, Prefetched, Inputs, Gates, Archive, Steps
<1>8. CASE PublishBuild(n)
  <2>1. file' \in [Archive -> {"absent", "empty", "whole"}]
    <3>1. file \in [Archive -> {"absent", "empty", "whole"}] /\ "common_dep" \in Archive
      BY DEF Archive
    <3>2. file' \in {file, [file EXCEPT !["common_dep"] = "whole"]}
      BY <1>8 DEF PublishBuild, PublishCommonDep, Export
    <3> QED BY ONLY <3>1, <3>2
  <2>2. status' \in [Task -> {"absent", "waiting", "running", "done", "failed"}]
        /\ job' \in [Node -> Task \cup {"idle"}]
    BY <1>8, SMTT(30) DEF PublishBuild, At, Finish, Task
  <2>3. faults' \in 0..MaxFault
    BY <1>8 DEF PublishBuild, Fault
  <2> QED BY <1>8, <2>1, <2>2, <2>3 DEF PublishBuild, Finish
<1> QED
  BY <1>1, <1>2, <1>3, <1>4, <1>5, <1>6, <1>7, <1>8 DEF BuildStep

LEMMA FaultType ==
  ASSUME PipelineTypeOK, NEW n \in Node, PipelineFault(n)
  PROVE  PipelineTypeOK'
<1> USE DEF PipelineTypeOK, StoreTypeOK, PoolTypeOK, EvalTypeOK, Fault
<1>1. CASE StepFails(n)
  BY <1>1 DEF StepFails, Finish, Task
<1>2. CASE BuildFails(n)
  BY <1>2 DEF BuildFails, At, Finish, Task
<1>3. ASSUME NEW a \in Archive, GateRetried(n, a) PROVE PipelineTypeOK'
  BY <1>3 DEF GateRetried, NextGate, Open, Flag
<1>4. CASE NodeDies(n) /\ UNCHANGED evalVars
  BY <1>4 DEF NodeDies
<1> QED BY <1>1, <1>2, <1>3, <1>4 DEF PipelineFault

LEMMA TypeStep ==
  ASSUME PipelineTypeOK, [PipelineNext]_pipelineVars
  PROVE  PipelineTypeOK'
<1>1. CASE UNCHANGED pipelineVars
  BY <1>1 DEF PipelineTypeOK, StoreTypeOK, PoolTypeOK, EvalTypeOK
<1>2. ASSUME NEW n \in Node, NEW t \in Task, Assign(n, t), UNCHANGED evalVars
      PROVE  PipelineTypeOK'
  BY <1>2 DEF Assign, Steps, PipelineTypeOK, StoreTypeOK, PoolTypeOK, EvalTypeOK
<1> QED BY <1>1, <1>2, EarlyType, BuildType, FaultType DEF PipelineNext

\* The pipeline's variables keep their types.
THEOREM PipelineTypeCorrect == PipelineSpec => []PipelineTypeOK
  BY InitialType, TypeStep, PTL DEF PipelineSpec

-------------------------------------------------------------------------------
\* What a step of a worker leaves alone.

\* An early step runs no gate; what it adds to a store is closed.
LEMMA EarlyFrame ==
  ASSUME PipelineTypeOK, NEW n \in Node, EarlyStep(n)
  PROVE  /\ UNCHANGED <<mode, flagged, opened, broken>>
         /\ faults' \in {faults, faults + 1}
         /\ job[n] \in Toolchain \cup Binary \cup {"graph"} /\ job'[n] \in {job[n], "idle"}
         /\ \A m \in Node \ {n} : store'[m] = store[m] /\ job'[m] = job[m] /\ step'[m] = step[m]
         /\ store[n] \subseteq store'[n]
         /\ \A b \in Binary : b \in store'[n] => b \in store[n] \/ "drvs" \in store'[n]
         /\ \A a \in Archive \ (Binary \cup {"build_deps"}) : file'[a] = file[a]
<1> USE DEF PipelineTypeOK, StoreTypeOK, PoolTypeOK, NoFault
<1>1. CASE SkipCompiler(n)
  BY <1>1 DEF SkipCompiler, At, Finish, EvalTypeOK
<1>2. CASE RealiseToolchain(n)
  BY <1>2 DEF RealiseToolchain, At, GoTo, Gain
<1>3. CASE ExportToolchain(n)
  BY <1>3 DEF ExportToolchain, At, Finish
<1>4. CASE Evaluate(n)
  BY <1>4 DEF Evaluate, At, GoTo
<1>5. CASE BuildAggregate(n)
  BY <1>5 DEF BuildAggregate, At, GoTo, Gain, Finish
<1>6. CASE PublishMatrix(n)
  BY <1>6 DEF PublishMatrix, At, GoTo, Export
<1>7. CASE RecordSidecar(n)
  BY <1>7 DEF RecordSidecar, At, Finish, Fault
<1>8. CASE CheckInputs(n)
  BY <1>8 DEF CheckInputs, At, GoTo, Finish
<1>9. CASE ImportArchives(n)
  BY <1>9 DEF ImportArchives, At, GoTo, Gain, Finish
<1>10. CASE StreamPlan(n)
  BY <1>10 DEF StreamPlan, At
<1>11. CASE ProduceBuildDeps(n)
  BY <1>11 DEF ProduceBuildDeps, At, GoTo, Gain, Export, BuildInputs
<1>12. CASE WriteOutputs(n)
  BY <1>12 DEF WriteOutputs, At, Finish
<1> QED
  BY <1>1, <1>2, <1>3, <1>4, <1>5, <1>6, <1>7, <1>8, <1>9, <1>10, <1>11, <1>12 DEF EarlyStep

-------------------------------------------------------------------------------
\* Stores, flags and gates.

\* The submitter staged these before the run, and no task replaces them.
Staged == \A a \in {"drvs"} \cup SplitArchives(Toolchain) : Whole(a)

\* A flag without an import is one of those set first, and something went wrong.
FlagsAreHonest == \A n \in Node : \A a \in flagged[n] \ store[n] :
  FlaggedFirst(a) /\ (faults > 0 \/ a \in broken)

GatesAreHonest == \A n \in Node : \A a \in opened[n] \ store[n] : FlaggedFirst(a) /\ faults > 0

StoresAreClosed == \A n \in Node : \A b \in Binary : b \in store[n] => "drvs" \in store[n]

BuildersPassed == \A n \in Node :
  job[n] \in Variant \cup {"dep"} /\ step[n] \in {"assert", "build", "publish"} =>
    Gates(job[n]) \subseteq opened[n]

StoreInv == Staged /\ FlagsAreHonest /\ GatesAreHonest /\ StoresAreClosed /\ BuildersPassed

LEMMA InitialStores == EarlyInit => StoreInv
  BY SplitIsToolchain DEF EarlyInit, StoreInv, Staged, FlagsAreHonest, GatesAreHonest,
     StoresAreClosed, BuildersPassed, Archive, Whole

LEMMA EarlyStores ==
  ASSUME PipelineTypeOK, StoreInv, NEW n \in Node, EarlyStep(n)
  PROVE  StoreInv'
<1> USE EarlyFrame
<1>1. Staged'
  BY SplitIsToolchain DEF StoreInv, Staged, Whole, Archive
<1>2. FlagsAreHonest'
  BY DEF StoreInv, FlagsAreHonest, PipelineTypeOK, StoreTypeOK, FlaggedFirst
<1>3. GatesAreHonest'
  BY DEF StoreInv, GatesAreHonest, PipelineTypeOK, StoreTypeOK, FlaggedFirst
<1>4. StoresAreClosed'
  BY DEF StoreInv, StoresAreClosed
<1>5. BuildersPassed'
  BY DEF StoreInv, BuildersPassed, Gates
<1> QED BY <1>1, <1>2, <1>3, <1>4, <1>5 DEF StoreInv

LEMMA BuildStores ==
  ASSUME PipelineTypeOK, StoreInv, NEW n \in Node, BuildStep(n)
  PROVE  StoreInv'
<1> USE DEF PipelineTypeOK, StoreTypeOK, PoolTypeOK, StoreInv, NoFault
<1>1. Staged'
  <2>1. \A a \in Archive \ {"common_dep"} : file'[a] = file[a]
    BY ZenonT(60) DEF BuildStep, PassGate, ImportGate, GateFails, GiveUpGates, GatesPassed,
       AssertNoSubstitute, NixBuild, PublishBuild, PublishCommonDep, Export
  <2> QED BY <2>1, SplitIsToolchain DEF Staged, Whole, Archive
<1>2. ASSUME NEW a \in Archive, PassGate(n, a)
      PROVE  FlagsAreHonest' /\ GatesAreHonest' /\ StoresAreClosed' /\ BuildersPassed'
  <2>1. a \in flagged[n] /\ a \notin broken
    BY <1>2 DEF PassGate, NextGate, Staged
  <2>2. a \in store[n] \/ (FlaggedFirst(a) /\ faults > 0)
    BY <2>1 DEF FlagsAreHonest
  <2> QED BY <1>2, <2>1, <2>2 DEF PassGate, Open, Flag, FlagsAreHonest, GatesAreHonest,
          StoresAreClosed, BuildersPassed, FlaggedFirst, Gates
<1>3. ASSUME NEW a \in Archive, ImportGate(n, a)
      PROVE  FlagsAreHonest' /\ GatesAreHonest' /\ StoresAreClosed' /\ BuildersPassed'
  <2>1. a \in Binary => "drvs" \in store[n]
    BY <1>3 DEF ImportGate, Importable, References
  <2> QED BY <1>3, <2>1 DEF ImportGate, Open, Flag, Gain, FlagsAreHonest, GatesAreHonest,
          StoresAreClosed, BuildersPassed, FlaggedFirst, Gates
<1>4. ASSUME NEW a \in Archive, GateFails(n, a)
      PROVE  FlagsAreHonest' /\ GatesAreHonest' /\ StoresAreClosed' /\ BuildersPassed'
  BY <1>4 DEF GateFails, Finish, Fault, FlagsAreHonest, GatesAreHonest, StoresAreClosed,
     BuildersPassed, FlaggedFirst, Gates
<1>5. CASE GiveUpGates(n)
  BY <1>1, <1>5 DEF GiveUpGates, Finish, FlagsAreHonest, GatesAreHonest, StoresAreClosed,
     BuildersPassed, FlaggedFirst, Gates
<1>6. CASE GatesPassed(n)
  BY <1>1, <1>6 DEF GatesPassed, GoTo, FlagsAreHonest, GatesAreHonest, StoresAreClosed,
     BuildersPassed, FlaggedFirst, Gates
<1>7. CASE AssertNoSubstitute(n)
  BY <1>1, <1>7 DEF AssertNoSubstitute, At, GoTo, Finish, FlagsAreHonest, GatesAreHonest,
     StoresAreClosed, BuildersPassed, FlaggedFirst, Gates
<1>8. CASE NixBuild(n)
  <2>1. "drvs" \in Gates(job[n])
    BY <1>8 DEF NixBuild, At, Gates
  <2>2. store[n] \subseteq store'[n] /\ "drvs" \in store'[n] /\ \A m \in Node \ {n} : store'[m] = store[m]
    BY <1>8, <2>1 DEF NixBuild, Gain, Prefetched, Inputs
  <2>3. UNCHANGED <<flagged, opened, broken, faults, job>> /\ mode' = mode
    BY <1>8 DEF NixBuild, GoTo
  <2>4. FlagsAreHonest' /\ GatesAreHonest' /\ StoresAreClosed'
    BY <2>2, <2>3 DEF FlagsAreHonest, GatesAreHonest, StoresAreClosed, FlaggedFirst
  <2>5. BuildersPassed'
    BY <1>8, <2>3 DEF NixBuild, At, GoTo, BuildersPassed, Gates
  <2> QED BY <1>1, <2>4, <2>5
<1>9. CASE PublishBuild(n)
  BY <1>1, <1>9 DEF PublishBuild, Finish, Fault, FlagsAreHonest, GatesAreHonest, StoresAreClosed,
     BuildersPassed, FlaggedFirst, Gates
<1> QED
  BY <1>1, <1>2, <1>3, <1>4, <1>5, <1>6, <1>7, <1>8, <1>9 DEF BuildStep

LEMMA FaultStores ==
  ASSUME PipelineTypeOK, StoreInv, NEW n \in Node, PipelineFault(n)
  PROVE  StoreInv'
<1> USE DEF PipelineTypeOK, StoreTypeOK, PoolTypeOK, StoreInv, Fault
<1>1. Staged'
  BY DEF PipelineFault, StepFails, BuildFails, GateRetried, NodeDies, Staged, Whole
<1>2. CASE StepFails(n) \/ BuildFails(n)
  BY <1>1, <1>2 DEF StepFails, BuildFails, Finish, FlagsAreHonest, GatesAreHonest,
     StoresAreClosed, BuildersPassed, FlaggedFirst, Gates
<1>3. ASSUME NEW a \in Archive, GateRetried(n, a)
      PROVE  FlagsAreHonest' /\ GatesAreHonest' /\ StoresAreClosed' /\ BuildersPassed'
  BY <1>3, SMTT(30) DEF GateRetried, Open, Flag, FlagsAreHonest, GatesAreHonest,
     StoresAreClosed, BuildersPassed, FlaggedFirst, Gates
<1>4. CASE NodeDies(n) /\ UNCHANGED evalVars
  BY <1>1, <1>4 DEF NodeDies, FlagsAreHonest, GatesAreHonest,
     StoresAreClosed, BuildersPassed, FlaggedFirst, Gates
<1> QED BY <1>1, <1>2, <1>3, <1>4 DEF PipelineFault

LEMMA StoreStep ==
  ASSUME PipelineTypeOK, StoreInv, [PipelineNext]_pipelineVars
  PROVE  StoreInv'
<1> USE DEF StoreInv, Staged, FlagsAreHonest, GatesAreHonest, StoresAreClosed, BuildersPassed,
            Whole, FlaggedFirst, Gates
<1>1. CASE UNCHANGED pipelineVars
  BY <1>1
<1>2. ASSUME NEW n \in Node, NEW t \in Task, Assign(n, t), UNCHANGED evalVars
      PROVE  StoreInv'
  BY <1>2 DEF Assign, PipelineTypeOK, PoolTypeOK
<1> QED BY <1>1, <1>2, EarlyStores, BuildStores, FaultStores DEF PipelineNext

LEMMA StoresHold == PipelineSpec => [](PipelineTypeOK /\ StoreInv)
  BY InitialType, TypeStep, InitialStores, StoreStep, PTL DEF PipelineSpec

(* The derivations a variant is built from are in the node's store when    *)
(* its build starts, whatever gates failed, were retried or were cut short *)
(* by a node's death before.                                               *)
THEOREM BuildsSeeTheirDerivations == PipelineSpec => []BuildsSeeTheirGraph
<1>1. PipelineTypeOK /\ StoreInv => BuildsSeeTheirGraph
  <2> SUFFICES ASSUME PipelineTypeOK, StoreInv, NEW n \in Node
               PROVE  /\ BuildingVariant(n) => {"drvs", Pkg[job[n]]} \subseteq store[n]
                      /\ \A a \in opened[n] \ store[n] : FlaggedFirst(a) /\ faults > 0
    BY DEF BuildsSeeTheirGraph
  <2>1. \A a \in opened[n] \ store[n] : FlaggedFirst(a) /\ faults > 0
    BY DEF StoreInv, GatesAreHonest
  <2>2. ASSUME BuildingVariant(n) PROVE {"drvs", Pkg[job[n]]} \subseteq store[n]
    <3>1. Pkg[job[n]] \in Binary /\ Pkg[job[n]] \in opened[n]
      BY <2>2 DEF BuildingVariant, StoreInv, BuildersPassed, Gates
    <3> QED BY <2>1, <3>1 DEF FlaggedFirst, StoreInv, StoresAreClosed
  <2> QED BY <2>1, <2>2
<1> QED BY <1>1, StoresHold, PTL

-------------------------------------------------------------------------------
\* Jobs.

\* A task that runs, runs on one node, and the primary knows.
JobsRun == \A n \in Node : job[n] # "idle" => status[job[n]] = "running"
JobsApart == \A n, m \in Node : job[n] = job[m] /\ job[n] # "idle" => n = m

\* The variants' binaries were evaluated before any variant or the graph.
EvaluationEnds ==
  (\E n \in Node : job[n] = "graph") \/ (\E v \in Variant : status[v] # "absent")
  => Ended(Binary)

DependencyEnds == \A n \in Node : job[n] \in Variant => status["dep"] = "done"

JobInv == JobsRun /\ JobsApart /\ EvaluationEnds /\ DependencyEnds

LEMMA InitialJobs == EarlyInit => JobInv
  BY DEF EarlyInit, SpawnedAtStart, Task, JobInv, JobsRun, JobsApart, EvaluationEnds, DependencyEnds

LEMMA AssignedJobs ==
  ASSUME PipelineTypeOK, JobInv, NEW n \in Node, NEW t \in Task, Assign(n, t)
  PROVE  JobInv'
<1> USE DEF PipelineTypeOK, PoolTypeOK, JobInv, Assign
<1>1. t # "idle" /\ status[t] = "waiting"
  BY DEF Ready, Task
<1>2. JobsRun'
  BY <1>1 DEF JobsRun
<1>3. JobsApart'
  BY <1>1 DEF JobsRun, JobsApart
<1>4. EvaluationEnds'
  <2>1. t = "graph" => Ended(Binary)
    BY DEF Ready, PhaseOpen, Ended
  <2>2. Ended(Binary) => t \notin Binary
    BY <1>1 DEF Ended
  <2>3. Ended(Binary) => Ended(Binary)'
    BY <2>2 DEF Ended, Task
  <2> QED BY <1>1, <2>1, <2>3 DEF EvaluationEnds, Task
<1>5. DependencyEnds'
  <2>1. t \in Variant => status["dep"] = "done"
    BY DEF Ready, Succeeded, Predecessors
  <2> QED BY <1>1, <2>1 DEF DependencyEnds, Task
<1> QED BY <1>2, <1>3, <1>4, <1>5

\* A worker that ends its task, or goes on with it, while the others do the same.
LEMMA EndedJobs ==
  ASSUME PipelineTypeOK, JobInv, NEW n \in Node, job[n] # "idle",
         PoolTypeOK',
         \/ job' = job /\ status' = status
         \/ \E how \in {"waiting", "done", "failed"} :
              /\ job' = [job EXCEPT ![n] = "idle"]
              /\ status' = [status EXCEPT ![job[n]] = how]
  PROVE  JobInv'
<1> USE DEF PipelineTypeOK, PoolTypeOK, JobInv
<1>1. CASE job' = job /\ status' = status
  BY <1>1 DEF JobsRun, JobsApart, EvaluationEnds, DependencyEnds, Ended
<1>2. ASSUME NEW how \in {"waiting", "done", "failed"},
             job' = [job EXCEPT ![n] = "idle"], status' = [status EXCEPT ![job[n]] = how]
      PROVE  JobInv'
  <2> DEFINE t == job[n]
  <2>1. t \in Task /\ status[t] = "running"
    BY DEF JobsRun
  <2>2. JobsRun'
    BY <1>2, <2>1 DEF JobsRun, JobsApart
  <2>3. JobsApart'
    BY <1>2 DEF JobsApart
  <2>4. Ended(Binary) => Ended(Binary)'
    BY <1>2, <2>1 DEF Ended, Task
  <2>5. EvaluationEnds'
    BY <1>2, <2>1, <2>4 DEF EvaluationEnds, Task
  <2>6. DependencyEnds'
    BY <1>2, <2>1 DEF DependencyEnds, Task
  <2> QED BY <2>2, <2>3, <2>5, <2>6
<1> QED BY <1>1, <1>2

LEMMA StreamedJobs ==
  ASSUME PipelineTypeOK, JobInv, NEW n \in Node, StreamPlan(n)
  PROVE  JobInv'
<1> USE DEF PipelineTypeOK, PoolTypeOK, JobInv, StreamPlan, At
<1>1. Planned \subseteq Variant
  BY DEF Planned, VariantLookup, EvalTypeOK, Wanted
<1>2. \A t \in Task : status[t] # "absent" => status'[t] = status[t]
  OBVIOUS
<1>3. \A b \in Binary : status'[b] = status[b]
  BY <1>1 DEF Task
<1>4. Ended(Binary)'
  BY <1>3 DEF Ended, EvaluationEnds
<1>5. JobsRun' /\ JobsApart' /\ DependencyEnds'
  BY <1>2 DEF JobsRun, JobsApart, DependencyEnds, Task
<1> QED BY <1>4, <1>5 DEF EvaluationEnds

LEMMA EarlyJobs ==
  ASSUME PipelineTypeOK, JobInv, NEW n \in Node, EarlyStep(n)
  PROVE  JobInv'
<1>1. CASE StreamPlan(n)
  BY <1>1, StreamedJobs
<1>2. CASE ~StreamPlan(n)
  <2>1. job[n] # "idle"
    BY EarlyFrame
  <2>2. PoolTypeOK'
    BY EarlyType DEF PipelineTypeOK
  <2>3. \/ job' = job /\ status' = status
        \/ \E how \in {"waiting", "done", "failed"} :
             /\ job' = [job EXCEPT ![n] = "idle"]
             /\ status' = [status EXCEPT ![job[n]] = how]
    BY <1>2 DEF EarlyStep, SkipCompiler, RealiseToolchain, ExportToolchain, Evaluate, BuildAggregate,
       PublishMatrix, RecordSidecar, CheckInputs, ImportArchives, ProduceBuildDeps, WriteOutputs, GoTo, Finish
  <2> QED BY <2>1, <2>2, <2>3, EndedJobs
<1> QED BY <1>1, <1>2

LEMMA BuildJobs ==
  ASSUME PipelineTypeOK, JobInv, NEW n \in Node, BuildStep(n)
  PROVE  JobInv'
<1>1. job[n] # "idle"
  BY DEF BuildStep, PassGate, ImportGate, GateFails, NextGate, GiveUpGates, GatesPassed,
     AssertNoSubstitute, NixBuild, PublishBuild, At
<1>2. PoolTypeOK'
  BY BuildType DEF PipelineTypeOK
<1>3. \/ job' = job /\ status' = status
      \/ \E how \in {"waiting", "done", "failed"} :
           /\ job' = [job EXCEPT ![n] = "idle"]
           /\ status' = [status EXCEPT ![job[n]] = how]
  BY DEF BuildStep, PassGate, ImportGate, GateFails, GiveUpGates, GatesPassed,
     AssertNoSubstitute, NixBuild, PublishBuild, GoTo, Finish
<1> QED BY <1>1, <1>2, <1>3, EndedJobs

LEMMA FaultJobs ==
  ASSUME PipelineTypeOK, JobInv, NEW n \in Node, PipelineFault(n)
  PROVE  JobInv'
<1>1. CASE job[n] # "idle"
  <2>1. PoolTypeOK'
    BY FaultType DEF PipelineTypeOK
  <2>2. CASE NodeDies(n)
    <3>1. status' = [status EXCEPT ![job[n]] = "waiting"]
      BY <2>2 DEF NodeDies, PipelineTypeOK, PoolTypeOK
    <3> QED BY <1>1, <2>1, <2>2, <3>1, EndedJobs DEF NodeDies
  <2>3. CASE ~NodeDies(n)
    <3>1. \/ job' = job /\ status' = status
          \/ \E how \in {"waiting", "done", "failed"} :
               /\ job' = [job EXCEPT ![n] = "idle"]
               /\ status' = [status EXCEPT ![job[n]] = how]
      BY <2>3 DEF PipelineFault, StepFails, BuildFails, GateRetried, Finish
    <3> QED BY <1>1, <2>1, <3>1, EndedJobs
  <2> QED BY <2>2, <2>3
<1>2. CASE job[n] = "idle"
  <2>1. NodeDies(n)
    BY <1>2 DEF PipelineFault, StepFails, BuildFails, At, GateRetried, NextGate
  <2>2. job' = job /\ status' = status
    BY <1>2, <2>1 DEF NodeDies, PipelineTypeOK, PoolTypeOK, Task
  <2> QED BY <2>2 DEF JobInv, JobsRun, JobsApart, EvaluationEnds, DependencyEnds, Ended
<1> QED BY <1>1, <1>2

LEMMA JobStep ==
  ASSUME PipelineTypeOK, JobInv, [PipelineNext]_pipelineVars
  PROVE  JobInv'
<1>1. CASE UNCHANGED pipelineVars
  BY <1>1 DEF JobInv, JobsRun, JobsApart, EvaluationEnds, DependencyEnds, Ended
<1> QED BY <1>1, AssignedJobs, EarlyJobs, BuildJobs, FaultJobs DEF PipelineNext

-------------------------------------------------------------------------------
\* The plan.

KeptAreOwn == \A b \in Binary : kept[b] \subseteq VariantsOf(b)

Skipped == mode.prestaged => \A b \in Binary : status[b] = "absent"

\* When the evaluation of a binary ends, its archive and its aggregate are those of
\* the variants it kept, also when an earlier attempt kept others.
RecordsAgree == \A b \in Binary :
  status[b] = "done" \/ (\E n \in Node : job[n] = b /\ step[n] = "record") =>
    (kept[b] # {} => Whole(b)) /\ (b \in published => kept[b] # {})

SpawnedAreWhole == \A v \in Variant : status[v] # "absent" => Whole(Pkg[v])

Spawned == \A b \in Binary : \A v \in kept[b] : status[v] # "absent"

GraphSawAll == \A n \in Node : job[n] = "graph" /\ ~mode.prestaged =>
  /\ Succeeded(Binary)
  /\ step[n] \in {"import", "plan", "inputs", "record"} => \A b \in Binary : kept[b] # {}
  /\ step[n] \in {"inputs", "record"} => Spawned

GraphEnded == status["graph"] = "done" /\ ~mode.prestaged =>
  Succeeded(Binary) /\ (\A b \in Binary : kept[b] # {}) /\ Spawned

PlanInv ==
  KeptAreOwn /\ Skipped /\ RecordsAgree /\ SpawnedAreWhole /\ GraphSawAll /\ GraphEnded

LEMMA InitialPlan == EarlyInit => PlanInv
  BY DEF EarlyInit, SpawnedAtStart, Task, PlanInv, KeptAreOwn, Skipped, RecordsAgree,
     SpawnedAreWhole, GraphSawAll, GraphEnded

\* Steps that neither evaluate nor plan.
LEMMA QuietPlan ==
  ASSUME PipelineTypeOK, PlanInv,
         UNCHANGED <<mode, kept, published>>,
         \A b \in Binary : file'[b] = file[b],
         \A t \in Binary \cup {"graph"} \cup Variant :
           /\ status'[t] = "done" /\ t \notin Variant => status[t] = "done"
           /\ status[t] = "done" => status'[t] = "done"
           /\ status'[t] = "absent" <=> status[t] = "absent",
         \A m \in Node : job'[m] \in Binary \cup {"graph"} =>
           \/ job'[m] = job[m] /\ step'[m] = step[m]
           \/ step'[m] = "start" /\ (job'[m] = "graph" /\ ~mode.prestaged => Succeeded(Binary))
  PROVE  PlanInv'
<1> USE DEF PlanInv
<1>1. KeptAreOwn' /\ Skipped'
  BY DEF KeptAreOwn, Skipped, VariantsOf
<1>2. RecordsAgree'
  BY DEF RecordsAgree, Whole
<1>3. SpawnedAreWhole'
  BY DEF SpawnedAreWhole, Whole
<1>4. Spawned => Spawned'
  BY DEF Spawned, PipelineTypeOK, EvalTypeOK
<1>5. Succeeded(Binary) => Succeeded(Binary)'
  BY DEF Succeeded
<1>6. GraphSawAll'
  BY <1>4, <1>5 DEF GraphSawAll
<1>7. GraphEnded'
  BY <1>4, <1>5 DEF GraphEnded
<1> QED BY <1>1, <1>2, <1>3, <1>6, <1>7

LEMMA AssignedPlan ==
  ASSUME PipelineTypeOK, JobInv, PlanInv, NEW n \in Node, NEW t \in Task, Assign(n, t), UNCHANGED evalVars
  PROVE  PlanInv'
<1> USE DEF PipelineTypeOK, PoolTypeOK, Assign
<1>1. status[t] = "waiting"
  BY DEF Ready
<1>2. t = "graph" /\ ~mode.prestaged => Succeeded(Binary)
  BY DEF Ready, Predecessors
<1>3. \A m \in Node : job'[m] \in Binary \cup {"graph"} =>
        \/ job'[m] = job[m] /\ step'[m] = step[m]
        \/ step'[m] = "start" /\ (job'[m] = "graph" /\ ~mode.prestaged => Succeeded(Binary))
  BY <1>2
<1>4. \A u \in Binary \cup {"graph"} \cup Variant :
        /\ status'[u] = "done" /\ u \notin Variant => status[u] = "done"
        /\ status[u] = "done" => status'[u] = "done"
        /\ status'[u] = "absent" <=> status[u] = "absent"
  BY <1>1 DEF Task
<1> QED BY <1>3, <1>4, QuietPlan

\* A task other than an evaluation or the graph ends or goes on, or any task fails.
LEMMA EndedPlan ==
  ASSUME PipelineTypeOK, JobInv, PlanInv, NEW n \in Node, job[n] # "idle",
         UNCHANGED <<mode, kept, published>>,
         \A b \in Binary : file'[b] = file[b],
         \/ /\ UNCHANGED <<job, status>>
            /\ \A m \in Node : step'[m] = step[m] \/ m = n
            /\ job[n] \notin Binary \cup {"graph"}
         \/ \E how \in {"waiting", "done", "failed"} :
              /\ how = "done" => job[n] \notin Binary \cup {"graph"}
              /\ UNCHANGED step
              /\ job' = [job EXCEPT ![n] = "idle"]
              /\ status' = [status EXCEPT ![job[n]] = how]
  PROVE  PlanInv'
<1> USE DEF PipelineTypeOK, PoolTypeOK
<1>1. status[job[n]] = "running" /\ job[n] \in Task
  BY DEF JobInv, JobsRun
<1>2. \A m \in Node : job'[m] \in Binary \cup {"graph"} => job'[m] = job[m] /\ step'[m] = step[m]
  OBVIOUS
<1>3. \A u \in Binary \cup {"graph"} \cup Variant :
        /\ status'[u] = "done" /\ u \notin Variant => status[u] = "done"
        /\ status[u] = "done" => status'[u] = "done"
        /\ status'[u] = "absent" <=> status[u] = "absent"
  BY <1>1 DEF Task
<1> QED BY <1>2, <1>3, QuietPlan

LEMMA BuildPlan ==
  ASSUME PipelineTypeOK, JobInv, PlanInv, NEW n \in Node, BuildStep(n)
  PROVE  PlanInv'
<1> USE DEF PipelineTypeOK, PoolTypeOK, StoreTypeOK
<1>1. job[n] \in Variant \cup {"dep"}
  BY DEF BuildStep, PassGate, ImportGate, GateFails, NextGate, GiveUpGates, GatesPassed,
     AssertNoSubstitute, NixBuild, PublishBuild, At
<1>2. UNCHANGED <<mode, kept, published>>
  BY DEF BuildStep, PassGate, ImportGate, GateFails, GiveUpGates, GatesPassed,
     AssertNoSubstitute, NixBuild, PublishBuild, GoTo, Finish
<1>3. \A b \in Binary : file'[b] = file[b]
  BY ZenonT(60) DEF BuildStep, PassGate, ImportGate, GateFails, GiveUpGates, GatesPassed,
     AssertNoSubstitute, NixBuild, PublishBuild, PublishCommonDep, Export, Archive
<1>4. \/ /\ UNCHANGED <<job, status>>
         /\ \A m \in Node : step'[m] = step[m] \/ m = n
      \/ \E how \in {"waiting", "done", "failed"} :
           /\ UNCHANGED step
           /\ job' = [job EXCEPT ![n] = "idle"]
           /\ status' = [status EXCEPT ![job[n]] = how]
  BY ZenonT(60) DEF BuildStep, PassGate, ImportGate, GateFails, GiveUpGates, GatesPassed,
     AssertNoSubstitute, NixBuild, PublishBuild, GoTo, Finish
<1>5. job[n] # "idle" /\ job[n] \notin Binary \cup {"graph"}
  BY <1>1
<1> QED BY <1>2, <1>3, <1>4, <1>5, EndedPlan

LEMMA FaultPlan ==
  ASSUME PipelineTypeOK, JobInv, PlanInv, NEW n \in Node, PipelineFault(n)
  PROVE  PlanInv'
<1> USE DEF PipelineTypeOK, PoolTypeOK, StoreTypeOK
<1>1. CASE StepFails(n) \/ BuildFails(n)
  BY <1>1, EndedPlan DEF StepFails, BuildFails, At, Finish
<1>2. ASSUME NEW a \in Archive, GateRetried(n, a) PROVE PlanInv'
  BY <1>2, QuietPlan DEF GateRetried
<1>3. CASE NodeDies(n) /\ UNCHANGED evalVars
  <2>1. CASE job[n] = "idle"
    BY <1>3, <2>1, QuietPlan DEF NodeDies, Task
  <2>2. CASE job[n] # "idle"
    <3>1. status' = [status EXCEPT ![job[n]] = "waiting"]
      BY <1>3, <2>2 DEF NodeDies
    <3> QED BY <1>3, <2>2, <3>1, EndedPlan DEF NodeDies
  <2> QED BY <2>1, <2>2
<1> QED BY <1>1, <1>2, <1>3 DEF PipelineFault

\* While a binary is evaluated, nothing is planned and nothing was spawned.
LEMMA EvaluationIsFirst ==
  ASSUME PipelineTypeOK, JobInv, PlanInv, NEW n \in Node, job[n] \in Binary
  PROVE  /\ status[job[n]] = "running" /\ ~mode.prestaged
         /\ \A v \in Variant : status[v] = "absent"
         /\ \A m \in Node : job[m] # "graph" /\ (job[m] = job[n] => m = n)
         /\ status["graph"] # "done"
<1> USE DEF PipelineTypeOK, PoolTypeOK, JobInv
<1>1. status[job[n]] = "running" /\ job[n] # "idle"
  BY DEF JobsRun
<1>2. ~Ended(Binary) /\ ~Succeeded(Binary)
  BY <1>1 DEF Ended, Succeeded
<1>3. ~mode.prestaged
  BY <1>1 DEF PlanInv, Skipped
<1>4. status["graph"] # "done"
  BY <1>2, <1>3 DEF PlanInv, GraphEnded
<1>5. \A m \in Node : job[m] # "graph" /\ (job[m] = job[n] => m = n)
  BY <1>1, <1>2 DEF EvaluationEnds, JobsApart
<1> QED BY <1>1, <1>2, <1>3, <1>4, <1>5 DEF EvaluationEnds

LEMMA EvaluationPlan ==
  ASSUME PipelineTypeOK, JobInv, PlanInv, NEW n \in Node,
         Evaluate(n) \/ BuildAggregate(n) \/ PublishMatrix(n) \/ RecordSidecar(n)
  PROVE  PlanInv'
<1> USE DEF PipelineTypeOK, PoolTypeOK, StoreTypeOK, EvalTypeOK
<1> DEFINE b == job[n]
<1>1. b \in Binary
  BY DEF Evaluate, BuildAggregate, PublishMatrix, RecordSidecar, At
<1> HIDE DEF b
<1>2. /\ status[b] = "running" /\ ~mode.prestaged
      /\ \A v \in Variant : status[v] = "absent"
      /\ \A m \in Node : job[m] # "graph" /\ (job[m] = b => m = n)
      /\ status["graph"] # "done"
  BY <1>1, EvaluationIsFirst DEF b
<1>3. /\ mode' = mode
      /\ \A t \in Task \ {b} : status'[t] = status[t]
      /\ \A m \in Node \ {n} : job'[m] = job[m] /\ step'[m] = step[m]
      /\ job'[n] \in {b, "idle"}
      /\ \A c \in Binary \ {b} : kept'[c] = kept[c] /\ file'[c] = file[c] /\ (c \in published' <=> c \in published)
  <2>1. CASE Evaluate(n)
    BY <1>1, <2>1 DEF Evaluate, GoTo, b
  <2>2. CASE BuildAggregate(n)
    BY <1>1, <2>2 DEF BuildAggregate, GoTo, Finish, b
  <2>3. CASE PublishMatrix(n)
    <3>1. UNCHANGED <<mode, status, job, kept>> /\ step' = [step EXCEPT ![n] = "record"]
      BY <2>3 DEF PublishMatrix, GoTo
    <3>2. file' \in {[file EXCEPT ![b] = "empty"], [file EXCEPT ![b] = "whole"]}
      BY <2>3 DEF PublishMatrix, Export, b
    <3>3. published' \in {published \ {b}, published \cup {b}}
      BY <2>3 DEF PublishMatrix, b
    <3>4. \A c \in Binary \ {b} : file'[c] = file[c]
      <4>1. file \in [Archive -> {"absent", "empty", "whole"}] /\ Binary \subseteq Archive
        BY DEF Archive
      <4> QED BY ONLY <3>2, <4>1
    <3>5. \A c \in Binary \ {b} : c \in published' <=> c \in published
      BY ONLY <3>3
    <3>6. \A m \in Node \ {n} : step'[m] = step[m]
      BY <3>1
    <3> QED BY ONLY <3>1, <3>4, <3>5, <3>6 DEF b
  <2>4. CASE RecordSidecar(n)
    BY <1>1, <2>4 DEF RecordSidecar, Finish, b
  <2> QED BY <2>1, <2>2, <2>3, <2>4
<1>4. KeptAreOwn'
  BY <1>1, <1>3 DEF PlanInv, KeptAreOwn, Evaluate, BuildAggregate, PublishMatrix, RecordSidecar,
     Sampled, VariantsOf, b
<1>5. Skipped'
  BY <1>2, <1>3 DEF Skipped
<1>6. RecordsAgree'
  <2>1. \A c \in Binary \ {b} : RecordsAgree!(c)'
    <3> SUFFICES ASSUME NEW c \in Binary \ {b} PROVE RecordsAgree!(c)'
      OBVIOUS
    <3>1. /\ kept'[c] = kept[c] /\ file'[c] = file[c] /\ (c \in published' <=> c \in published)
          /\ status'[c] = status[c]
      BY <1>3 DEF Task
    <3>2. (\E m \in Node : job'[m] = c /\ step'[m] = "record") =>
            \E m \in Node : job[m] = c /\ step[m] = "record"
      BY <1>1, <1>3
    <3>3. RecordsAgree!(c)
      BY DEF PlanInv, RecordsAgree
    <3> QED BY ONLY <3>1, <3>2, <3>3 DEF Whole
  <2>2. CASE Evaluate(n) \/ BuildAggregate(n)
    <3>1. status'[b] # "done" /\ \A m \in Node : job'[m] = b => step'[m] # "record"
      BY <1>1, <1>2, <1>3, <2>2 DEF Evaluate, BuildAggregate, GoTo, Finish, b, Task
    <3> QED BY <2>1, <3>1 DEF RecordsAgree
  <2>3. CASE PublishMatrix(n)
    BY <1>1, <2>1, <2>3 DEF PublishMatrix, Aggregate, Export, RecordsAgree, Whole, Archive, b
  <2>4. CASE RecordSidecar(n)
    BY <1>1, <2>1, <2>4 DEF RecordSidecar, At, PlanInv, RecordsAgree, Whole, b
  <2> QED BY <2>2, <2>3, <2>4
<1>7. SpawnedAreWhole'
  BY <1>1, <1>2, <1>3 DEF SpawnedAreWhole, Task
<1>8. GraphSawAll' /\ GraphEnded'
  BY <1>1, <1>2, <1>3 DEF GraphSawAll, GraphEnded, Task
<1> QED BY <1>4, <1>5, <1>6, <1>7, <1>8 DEF PlanInv

LEMMA GraphPlan ==
  ASSUME PipelineTypeOK, JobInv, PlanInv, NEW n \in Node,
         CheckInputs(n) \/ ImportArchives(n) \/ StreamPlan(n) \/ ProduceBuildDeps(n) \/ WriteOutputs(n)
  PROVE  PlanInv'
<1> USE DEF PipelineTypeOK, PoolTypeOK, StoreTypeOK, EvalTypeOK
<1>1. job[n] = "graph" /\ status["graph"] = "running" /\ \A m \in Node : job[m] = "graph" => m = n
  BY DEF CheckInputs, ImportArchives, StreamPlan, ProduceBuildDeps, WriteOutputs, At,
     JobInv, JobsRun, JobsApart
<1>2. /\ UNCHANGED <<mode, kept, published>>
      /\ \A b \in Binary : file'[b] = file[b] /\ status'[b] = status[b]
      /\ \A m \in Node \ {n} : job'[m] = job[m] /\ step'[m] = step[m]
      /\ job'[n] \in {"graph", "idle"}
      /\ \A v \in Variant : status[v] # "absent" => status'[v] # "absent"
  <2>1. Planned \cap Binary = {}
    BY DEF Planned, VariantLookup, Wanted
  <2>2. CASE StreamPlan(n)
    BY <1>1, <2>1, <2>2 DEF StreamPlan, Task
  <2>3. CASE ProduceBuildDeps(n)
    BY <1>1, <2>3 DEF ProduceBuildDeps, GoTo, Export, Archive
  <2>4. CASE CheckInputs(n) \/ ImportArchives(n)
    BY <1>1, <2>4 DEF CheckInputs, ImportArchives, GoTo, Finish, Task
  <2>5. CASE WriteOutputs(n)
    BY <1>1, <2>5 DEF WriteOutputs, Finish, Task
  <2> QED BY <2>2, <2>3, <2>4, <2>5
<1>3. KeptAreOwn' /\ Skipped' /\ RecordsAgree'
  BY <1>1, <1>2 DEF PlanInv, KeptAreOwn, VariantsOf, Skipped, RecordsAgree, Whole
<1>4. Spawned => Spawned'
  BY <1>2 DEF Spawned
<1>5. SpawnedAreWhole'
  <2>1. CASE ~StreamPlan(n)
    <3>1. \A v \in Variant : status'[v] = status[v]
      BY <1>1, <2>1 DEF CheckInputs, ImportArchives, ProduceBuildDeps, WriteOutputs, GoTo, Finish, Task
    <3> QED BY <1>2, <3>1 DEF PlanInv, SpawnedAreWhole, Whole
  <2>2. ASSUME StreamPlan(n), NEW v \in Planned PROVE Whole(Pkg[v])
    <3>1. PICK b \in Binary : b \in Wanted /\ v \in kept[b]
      BY DEF Planned, VariantLookup, Wanted
    <3>2. Pkg[v] = b
      BY <3>1 DEF PlanInv, KeptAreOwn, VariantsOf
    <3> QED BY <3>1, <3>2 DEF Wanted, PlanInv, RecordsAgree
  <2>3. ASSUME StreamPlan(n), NEW v \in Variant, status'[v] # "absent" PROVE Whole(Pkg[v])
    BY <2>2, <2>3 DEF StreamPlan, Task, PlanInv, SpawnedAreWhole
  <2> QED BY <1>2, <2>1, <2>3 DEF SpawnedAreWhole, Whole
<1>6. ~mode.prestaged => Wanted = Binary
  BY <1>1 DEF PlanInv, GraphSawAll, Wanted, Succeeded
<1>7. GraphSawAll'
  <2> SUFFICES ASSUME job'[n] = "graph", ~mode.prestaged
               PROVE  /\ Succeeded(Binary)'
                      /\ step'[n] \in {"import", "plan", "inputs", "record"} => \A b \in Binary : kept[b] # {}
                      /\ step'[n] \in {"inputs", "record"} => Spawned'
    BY <1>1, <1>2 DEF GraphSawAll
  <2>1. Succeeded(Binary)' /\ Succeeded(Binary)
    BY <1>1, <1>2 DEF PlanInv, GraphSawAll, Succeeded
  <2>2. CASE CheckInputs(n)
    BY <1>1, <1>6, <2>1, <2>2 DEF CheckInputs, GoTo, Finish, InputsNamed, Named, PlanInv, RecordsAgree, Succeeded
  <2>3. CASE ImportArchives(n)
    BY <1>1, <2>1, <2>3 DEF ImportArchives, At, GoTo, Finish, PlanInv, GraphSawAll
  <2>4. CASE StreamPlan(n)
    <3>1. \A b \in Binary : kept[b] # {} /\ kept[b] \subseteq Planned
      BY <1>1, <1>6, <2>4 DEF StreamPlan, At, PlanInv, GraphSawAll, Planned, VariantLookup
    <3>2. Spawned'
      BY <3>1, <2>4, <1>2 DEF StreamPlan, Spawned, Task
    <3> QED BY <2>1, <3>1, <3>2
  <2>5. CASE ProduceBuildDeps(n)
    BY <1>1, <1>4, <2>1, <2>5 DEF ProduceBuildDeps, At, GoTo, PlanInv, GraphSawAll
  <2>6. CASE WriteOutputs(n)
    BY <2>6 DEF WriteOutputs, Finish
  <2> QED BY <2>2, <2>3, <2>4, <2>5, <2>6
<1>8. GraphEnded'
  <2>1. CASE WriteOutputs(n)
    BY <1>1, <1>2, <1>4, <2>1 DEF WriteOutputs, At, PlanInv, GraphSawAll, GraphEnded, Succeeded
  <2>2. CASE ~WriteOutputs(n)
    BY <1>1, <2>2 DEF CheckInputs, ImportArchives, StreamPlan, ProduceBuildDeps, GoTo, Finish,
       GraphEnded, Task
  <2> QED BY <2>1, <2>2
<1> QED BY <1>3, <1>5, <1>7, <1>8 DEF PlanInv

LEMMA EarlyPlan ==
  ASSUME PipelineTypeOK, JobInv, PlanInv, NEW n \in Node, EarlyStep(n)
  PROVE  PlanInv'
<1> USE DEF PipelineTypeOK, PoolTypeOK, EvalTypeOK
<1>1. CASE SkipCompiler(n) \/ ExportToolchain(n)
  BY <1>1, EndedPlan DEF SkipCompiler, ExportToolchain, At, Finish
<1>2. CASE RealiseToolchain(n)
  BY <1>2, EndedPlan DEF RealiseToolchain, At, GoTo
<1> QED BY <1>1, <1>2, EvaluationPlan, GraphPlan DEF EarlyStep

LEMMA PlanStep ==
  ASSUME PipelineTypeOK, JobInv, PlanInv, [PipelineNext]_pipelineVars
  PROVE  PlanInv'
<1>1. CASE UNCHANGED pipelineVars
  BY <1>1 DEF PlanInv, KeptAreOwn, VariantsOf, Skipped, RecordsAgree, SpawnedAreWhole, GraphSawAll,
     GraphEnded, Spawned, Succeeded, Whole
<1> QED BY <1>1, AssignedPlan, EarlyPlan, BuildPlan, FaultPlan DEF PipelineNext

LEMMA PlansHold == PipelineSpec => [](PipelineTypeOK /\ JobInv /\ PlanInv)
  BY InitialType, TypeStep, InitialJobs, JobStep, InitialPlan, PlanStep, PTL DEF PipelineSpec

(* No binary drops out of the plan unnoticed: a dependency graph that      *)
(* succeeds in a run that evaluates has spawned every variant that was     *)
(* kept, of every configured binary, whatever was retried or died before.  *)
THEOREM EveryBinaryIsPlanned == PipelineSpec => []PlanCoversEveryBinary
<1>1. PlanInv => PlanCoversEveryBinary
  BY DEF PlanInv, GraphEnded, Spawned, PlanCoversEveryBinary
<1> QED BY <1>1, PlansHold, PTL

-------------------------------------------------------------------------------
\* The gates.

\* Without faults the shared dependency is archived before a variant waits for it.
DependencyArchived == faults = 0 /\ status["dep"] = "done" => Whole("common_dep")

GateInv == HealthyGatesOpen /\ DependencyArchived

LEMMA InitialGates == EarlyInit => GateInv
  BY DEF EarlyInit, SpawnedAtStart, Task, GateInv, HealthyGatesOpen, DependencyArchived

\* Steps that break no gate and do not end the shared dependency.
LEMMA QuietGates ==
  ASSUME PipelineTypeOK, GateInv, broken' = broken, faults' \in {faults, faults + 1},
         status'["dep"] = "done" => status["dep"] = "done",
         file'["common_dep"] = file["common_dep"]
  PROVE  GateInv'
  BY DEF PipelineTypeOK, StoreTypeOK, GateInv, HealthyGatesOpen, DependencyArchived, Whole

\* Without faults, a gate that breaks is one of the excepted ones.
LEMMA BrokenGate ==
  ASSUME PipelineTypeOK, StoreInv, JobInv, PlanInv, GateInv,
         NEW n \in Node, NEW a \in Archive, GateFails(n, a), faults' = 0
  PROVE  a \in {"build_deps"} \cup (Toolchain \ SplitArchives(Toolchain))
<1> USE DEF PipelineTypeOK, StoreTypeOK, PoolTypeOK
<1>1. faults = 0 /\ ~Importable(n, a) /\ (a = "drvs" => Whole(a))
  BY DEF GateFails, Fault, NoFault
<1>2. job[n] \in Variant \cup {"dep"} /\ a \in Gates(job[n]) /\ ListedBefore(job[n], a) \subseteq opened[n]
  BY DEF GateFails, NextGate
<1>3. opened[n] \subseteq store[n]
  BY <1>1 DEF StoreInv, GatesAreHonest
<1>4. "drvs" \in Gates(job[n]) /\ "common" \in Gates(job[n])
  BY <1>2 DEF Gates
<1>5. a # "common" /\ a # "drvs"
  BY <1>1 DEF StoreInv, Staged, SplitArchives, Importable, References
<1>6. a # "common_dep"
  <2>1. a = "common_dep" => job[n] \in Variant
    BY <1>2 DEF Gates
  <2>2. a = "common_dep" => Whole(a)
    BY <1>1, <2>1 DEF JobInv, DependencyEnds, GateInv, DependencyArchived
  <2> QED BY <1>1, <2>2 DEF Importable, References
<1>7. a \in Toolchain => a \notin SplitArchives(Toolchain)
  <2>1. a \in Toolchain => "common" \in ListedBefore(job[n], a)
    BY <1>4 DEF ListedBefore
  <2>2. a \in Toolchain /\ a \in SplitArchives(Toolchain) => Whole(a)
    BY DEF StoreInv, Staged
  <2>3. a \in Toolchain => References(a) = {"common"}
    BY DEF References
  <2> QED BY <1>1, <1>2, <1>3, <2>1, <2>2, <2>3 DEF Importable
<1>8. a \notin Binary
  <2> SUFFICES ASSUME a \in Binary PROVE FALSE
    OBVIOUS
  <2>1. job[n] \in Variant /\ a = Pkg[job[n]]
    BY <1>2 DEF Gates
  <2>2. Whole(a)
    BY <2>1 DEF JobInv, JobsRun, PlanInv, SpawnedAreWhole
  <2>3. "drvs" \in ListedBefore(job[n], a)
    BY <1>4 DEF ListedBefore
  <2> QED BY <1>1, <1>2, <1>3, <2>2, <2>3 DEF Importable, References
<1> QED BY <1>5, <1>6, <1>7, <1>8 DEF Archive

LEMMA BuildGates ==
  ASSUME PipelineTypeOK, StoreInv, JobInv, PlanInv, GateInv, NEW n \in Node, BuildStep(n)
  PROVE  GateInv'
<1> USE DEF PipelineTypeOK, StoreTypeOK, PoolTypeOK, NoFault, Fault
<1>1. ASSUME NEW a \in Archive, GateFails(n, a) PROVE GateInv'
  <2>1. status'["dep"] = "done" => status["dep"] = "done"
    BY <1>1 DEF GateFails, Finish
  <2>2. DependencyArchived'
    BY <1>1, <2>1 DEF GateFails, GateInv, DependencyArchived, Whole
  <2>3. HealthyGatesOpen'
    <3> SUFFICES ASSUME faults' = 0
                 PROVE  broken' \subseteq {"build_deps"} \cup (Toolchain \ SplitArchives(Toolchain))
      BY DEF HealthyGatesOpen
    <3>1. faults = 0 /\ broken' = broken \cup {a}
      BY <1>1 DEF GateFails
    <3> QED BY <1>1, <3>1, BrokenGate DEF GateInv, HealthyGatesOpen
  <2> QED BY <2>2, <2>3 DEF GateInv
<1>2. CASE PublishBuild(n)
  <2>1. HealthyGatesOpen'
    BY <1>2 DEF PublishBuild, GateInv, HealthyGatesOpen
  <2>2. DependencyArchived'
    <3> SUFFICES ASSUME faults' = 0, status'["dep"] = "done" PROVE file'["common_dep"] = "whole"
      BY DEF DependencyArchived, Whole
    <3>1. /\ faults = 0 /\ Finish(n, "done")
          /\ IF job[n] = "dep" THEN PublishCommonDep ELSE UNCHANGED file
      BY <1>2 DEF PublishBuild
    <3>2. CASE job[n] = "dep"
      BY <3>1, <3>2 DEF PublishCommonDep, Export, Archive
    <3>3. CASE job[n] # "dep"
      <4>1. status["dep"] = "done"
        BY <3>1, <3>3 DEF Finish
      <4> QED BY <3>1, <3>3, <4>1 DEF GateInv, DependencyArchived, Whole
    <3> QED BY <3>2, <3>3
  <2> QED BY <2>1, <2>2 DEF GateInv
<1>3. CASE ~PublishBuild(n) /\ ~\E a \in Archive : GateFails(n, a)
  <2>1. broken' = broken /\ faults' = faults /\ file' = file
    BY <1>3 DEF BuildStep, PassGate, ImportGate, GiveUpGates, GatesPassed, AssertNoSubstitute, NixBuild
  <2>2. status'["dep"] = "done" => status["dep"] = "done"
    <3>1. CASE \E a \in Archive : PassGate(n, a) \/ ImportGate(n, a)
      BY <3>1 DEF PassGate, ImportGate
    <3>2. CASE GiveUpGates(n)
      BY <3>2 DEF GiveUpGates, Finish
    <3>3. CASE GatesPassed(n) \/ NixBuild(n)
      BY <3>3 DEF GatesPassed, NixBuild, GoTo
    <3>4. CASE AssertNoSubstitute(n)
      <4>1. status' = status \/ status' = [status EXCEPT ![job[n]] = "waiting"]
        BY <3>4 DEF AssertNoSubstitute, GoTo, Finish
      <4> QED BY <4>1 DEF Task
    <3> QED BY <1>3, <3>1, <3>2, <3>3, <3>4 DEF BuildStep
  <2> QED BY <2>1, <2>2, QuietGates
<1> QED BY <1>1, <1>2, <1>3

LEMMA GateStep ==
  ASSUME PipelineTypeOK, StoreInv, JobInv, PlanInv, GateInv, [PipelineNext]_pipelineVars
  PROVE  GateInv'
<1> USE DEF PipelineTypeOK, StoreTypeOK, PoolTypeOK
<1>1. CASE UNCHANGED pipelineVars
  BY <1>1, QuietGates
<1>2. ASSUME NEW n \in Node, NEW t \in Task, Assign(n, t), UNCHANGED evalVars PROVE GateInv'
  BY <1>2, QuietGates DEF Assign
<1>3. ASSUME NEW n \in Node, EarlyStep(n) PROVE GateInv'
  <2>1. broken' = broken /\ faults' \in {faults, faults + 1} /\ job[n] \in Toolchain \cup Binary \cup {"graph"}
    BY <1>3, EarlyFrame
  <2>2. file'["common_dep"] = file["common_dep"]
    BY <1>3, EarlyFrame DEF Archive
  <2>3. status'["dep"] = "done" => status["dep"] = "done"
    BY <1>3, <2>1 DEF EarlyStep, SkipCompiler, RealiseToolchain, ExportToolchain, Evaluate, BuildAggregate,
       PublishMatrix, RecordSidecar, CheckInputs, ImportArchives, StreamPlan, ProduceBuildDeps,
       WriteOutputs, GoTo, Finish, Task
  <2> QED BY <2>1, <2>2, <2>3, QuietGates
<1>4. ASSUME NEW n \in Node, PipelineFault(n) PROVE GateInv'
  <2>1. broken' = broken /\ faults' = faults + 1 /\ file' = file
    BY <1>4 DEF PipelineFault, StepFails, BuildFails, GateRetried, NodeDies, Fault
  <2>2. status'["dep"] = "done" => status["dep"] = "done"
    BY <1>4 DEF PipelineFault, StepFails, BuildFails, GateRetried, NodeDies, Finish, Task
  <2> QED BY <2>1, <2>2, QuietGates
<1> QED BY <1>1, <1>2, <1>3, <1>4, BuildGates DEF PipelineNext

(* Without faults no import gate breaks, except the race with the archive  *)
(* of build inputs and toolchains whose rest was empty: whatever a gate    *)
(* imports was archived, and what it refers to imported, before.           *)
THEOREM GatesOpenInHealth == PipelineSpec => []HealthyGatesOpen
<1>1. GateInv => HealthyGatesOpen
  BY DEF GateInv
<1>2. EarlyInit => PipelineTypeOK /\ StoreInv /\ JobInv /\ PlanInv /\ GateInv
  BY InitialType, InitialStores, InitialJobs, InitialPlan, InitialGates
<1>3. PipelineTypeOK /\ StoreInv /\ JobInv /\ PlanInv /\ GateInv /\ [PipelineNext]_pipelineVars
      => (PipelineTypeOK /\ StoreInv /\ JobInv /\ PlanInv /\ GateInv)'
  BY TypeStep, StoreStep, JobStep, PlanStep, GateStep
<1> QED BY <1>1, <1>2, <1>3, PTL DEF PipelineSpec

-------------------------------------------------------------------------------
\* A pipeline at rest.

BuildTask == Variant \cup {"dep"}

\* A worker at the gates of its task has one to pass next, or passed them all, or one
\* of them is broken.
GatesOn(n) ==
  \/ Gates(job[n]) \cap broken # {}
  \/ Gates(job[n]) \subseteq opened[n]
  \/ \E a \in Archive : NextGate(n, a)

\* The steps of each task, and the workers that go on: the guards of EarlyStep and BuildStep.
HasStep(t, s) ==
  \/ t \in Toolchain /\ s \in {"start", "export"}
  \/ t \in Binary /\ s \in {"start", "import", "export", "record"}
  \/ t = "graph" /\ s \in {"start", "import", "plan", "inputs", "record"}
  \/ t \in BuildTask /\ s \in {"gates", "assert", "build", "publish"}
GoesOn(n) == HasStep(job[n], step[n]) /\ (step[n] = "gates" => GatesOn(n))

\* No worker goes on and none is given a task.
AtRest == \A n \in Node : ~GoesOn(n) /\ ~(job[n] = "idle" /\ \E t \in Task : Ready(t))

\* Why a task waits for ever: what it depends on failed.
WaitsForFailure(t) ==
  \/ t = "graph" /\ \E b \in Binary : status[b] = "failed"
  \/ Gates(t) \cap broken # {}
  \/ t \in Variant /\ status["dep"] = "failed"

\* No task is stranded: when all is at rest, no task runs, and one that waits waits
\* for something that failed.
NoneStranded == AtRest => \A t \in Task : status[t] # "running" /\ (status[t] = "waiting" => WaitsForFailure(t))

\* Without faults and broken gates, the graph then refused inputs that nobody could
\* plan from, or everything planned was built.
RestIsConclusion ==
  AtRest /\ faults = 0 /\ broken = {} =>
    \/ status["graph"] = "failed" /\ ~InputsNamed
    \/ status["graph"] = "done" /\ Succeeded(Planned \cup {"dep"})

RunningHasWorker == \A t \in Task : status[t] = "running" => \E n \in Node : job[n] = t

StepsFit == \A n \in Node : job[n] # "idle" => HasStep(job[n], step[n])

SpawnedTogether ==
  /\ \A t \in Toolchain \cup {"graph"} : status[t] # "absent"
  /\ ~mode.prestaged => \A b \in Binary : status[b] # "absent"
  /\ (\E v \in Variant : status[v] # "absent") => status["dep"] # "absent"

NoneFails ==
  /\ faults = 0 => \A t \in Toolchain \cup Binary : status[t] # "failed"
  /\ faults = 0 /\ broken = {} => \A t \in BuildTask : status[t] # "failed"

\* The graph ends after the evaluations, without faults fails for its inputs only, and
\* when it has streamed its plan all of the plan is spawned.
GraphAfter == status["graph"] \in {"done", "failed"} => Ended(Binary)
GraphRejects == faults = 0 /\ status["graph"] = "failed" => ~InputsNamed
PlanSpawned ==
  status["graph"] = "done" \/ (\E n \in Node : job[n] = "graph" /\ step[n] \in {"inputs", "record"}) =>
    status["dep"] # "absent" /\ \A v \in Planned : status[v] # "absent"

RestInv ==
  /\ RunningHasWorker /\ StepsFit /\ SpawnedTogether /\ NoneFails
  /\ GraphAfter /\ GraphRejects /\ PlanSpawned

\* A worker at its gates is never stuck: they are listed in an order they can be passed in.
LEMMA GatesGoOn ==
  ASSUME PipelineTypeOK, NEW n \in Node, job[n] \in BuildTask, step[n] = "gates"
  PROVE  GatesOn(n)
<1> DEFINE closed == Gates(job[n]) \ opened[n]
<1>1. SUFFICES ASSUME Gates(job[n]) \cap broken = {}, closed # {} PROVE \E a \in Archive : NextGate(n, a)
  BY DEF GatesOn
<1>2. Gates(job[n]) \subseteq Archive
  <2>1. CASE job[n] = "dep"
    BY <2>1 DEF Gates, Archive
  <2>2. CASE job[n] \in Variant
    <3>1. Tc[job[n]] \in Toolchain /\ Pkg[job[n]] \in Binary
      BY <2>2
    <3> QED BY <2>2, <3>1 DEF Gates, Archive
  <2> QED BY <2>1, <2>2 DEF BuildTask
<1>3. \A a \in closed : ListedBefore(job[n], a) \cap closed = {} => NextGate(n, a)
  <2> SUFFICES ASSUME NEW a \in closed, ListedBefore(job[n], a) \cap closed = {} PROVE NextGate(n, a)
    OBVIOUS
  <2>1. ListedBefore(job[n], a) \subseteq Gates(job[n])
    BY DEF ListedBefore
  <2> QED BY <1>1, <2>1 DEF NextGate, BuildTask
<1>4. \E a \in closed : ListedBefore(job[n], a) \cap closed = {}
  <2> DEFINE early == {"common", "build_deps", "drvs", "common_dep"}
  <2>1. /\ ListedBefore(job[n], "common") = {}
        /\ ListedBefore(job[n], "build_deps") \subseteq {"common"}
        /\ ListedBefore(job[n], "drvs") \subseteq {"common", "build_deps"}
        /\ ListedBefore(job[n], "common_dep") \subseteq {"common", "build_deps", "drvs"}
    <3>1. \A a \in early : a \notin Toolchain
      OBVIOUS
    <3>2. ListedBefore(job[n], "common") = {}
      BY <3>1 DEF ListedBefore
    <3>3. ListedBefore(job[n], "build_deps") \subseteq {"common"}
      BY <3>1 DEF ListedBefore
    <3>4. ListedBefore(job[n], "drvs") \subseteq {"common", "build_deps"}
      BY <3>1 DEF ListedBefore
    <3>5. ListedBefore(job[n], "common_dep") \subseteq {"common", "build_deps", "drvs"}
      BY <3>1 DEF ListedBefore
    <3> QED BY <3>2, <3>3, <3>4, <3>5
  <2>2. \A a \in Toolchain : ListedBefore(job[n], a) \subseteq early
    BY DEF ListedBefore
  <2>3. \A a \in Archive \ (early \cup Toolchain) : ListedBefore(job[n], a) \subseteq early \cup Toolchain
    BY DEF ListedBefore
  <2> HIDE DEF closed
  <2>4. CASE closed \cap early # {}
    BY <2>1, <2>4
  <2>5. CASE closed \cap early = {} /\ closed \cap Toolchain # {}
    BY <2>2, <2>5
  <2>6. CASE closed \cap (early \cup Toolchain) = {}
    <3>1. closed \subseteq Archive
      BY <1>2 DEF closed
    <3> QED BY <1>1, <2>3, <2>6, <3>1
  <2> QED BY <2>4, <2>5, <2>6
<1> QED BY <1>2, <1>3, <1>4

\* At first the early tasks wait and nothing else is there.
LEMMA InitialRest == EarlyInit => RestInv
<1> SUFFICES ASSUME EarlyInit PROVE RestInv
  OBVIOUS
<1>1. /\ status = [t \in Task |-> IF t \in SpawnedAtStart THEN "waiting" ELSE "absent"]
      /\ job = [n \in Node |-> "idle"]
  BY DEF EarlyInit
<1>2. \A t \in Task : status[t] = IF t \in SpawnedAtStart THEN "waiting" ELSE "absent"
  BY <1>1
<1>3. RunningHasWorker /\ StepsFit /\ NoneFails
  BY <1>1, <1>2 DEF RunningHasWorker, StepsFit, NoneFails, Task, BuildTask
<1>4. SpawnedTogether
  <2>1. \A v \in Variant : v \in Task /\ v \notin SpawnedAtStart
    BY DEF SpawnedAtStart, Task
  <2>2. Toolchain \cup {"graph"} \subseteq Task \cap SpawnedAtStart
    BY DEF SpawnedAtStart, Task
  <2>3. ~mode.prestaged => Binary \subseteq Task \cap SpawnedAtStart
    BY DEF SpawnedAtStart, Task
  <2>4. \A v \in Variant : status[v] = "absent"
    BY <1>2, <2>1
  <2> QED BY <1>2, <2>2, <2>3, <2>4 DEF SpawnedTogether
<1>5. GraphAfter /\ GraphRejects /\ PlanSpawned
  BY <1>1, <1>2 DEF GraphAfter, GraphRejects, PlanSpawned, Task
<1> QED BY <1>3, <1>4, <1>5 DEF RestInv

\* The kinds of step a worker takes: it is given a task, goes on with it, ends it, or
\* streams the plan.
Takes(n, t) ==
  /\ job[n] = "idle" /\ status[t] = "waiting"
  /\ job' = [job EXCEPT ![n] = t] /\ status' = [status EXCEPT ![t] = "running"]
  /\ HasStep(t, step'[n]) /\ step'[n] \in {"start", "gates"}

Moves(n) ==
  /\ UNCHANGED <<job, status>>
  /\ step'[n] # step[n] => HasStep(job[n], step'[n])
  /\ job[n] = "graph" /\ step'[n] \in {"inputs", "record"} => step[n] \in {"inputs", "record"}

\* What a failure is due to: a fault, a broken gate, or the inputs of the graph.
Ends(n, how) ==
  /\ job[n] # "idle"
  /\ job' = [job EXCEPT ![n] = "idle"] /\ status' = [status EXCEPT ![job[n]] = how]
  /\ step' = step
  /\ how = "failed" =>
       \/ faults' > 0
       \/ job[n] \in BuildTask /\ broken' # {}
       \/ job[n] = "graph" /\ ~InputsNamed
  /\ how = "done" /\ job[n] = "graph" => step[n] = "record"

StepKind(n) ==
  /\ mode' = mode /\ broken \subseteq broken' /\ (faults' = 0 => faults = 0)
  /\ \A m \in Node \ {n} : step'[m] = step[m]
  /\ \/ \E t \in Task : Takes(n, t)
     \/ Moves(n)
     \/ \E how \in {"waiting", "done", "failed"} : Ends(n, how)
     \/ StreamPlan(n)

LEMMA EarlyKind ==
  ASSUME PipelineTypeOK, StoreInv, NEW n \in Node, EarlyStep(n)
  PROVE  StepKind(n)
<1> USE DEF PipelineTypeOK, StoreTypeOK, PoolTypeOK
<1>1. /\ mode' = mode /\ broken \subseteq broken' /\ (faults' = 0 => faults = 0)
      /\ \A m \in Node \ {n} : step'[m] = step[m]
  <2>1. UNCHANGED <<mode, broken>> /\ faults' \in {faults, faults + 1}
        /\ \A m \in Node \ {n} : step'[m] = step[m]
    BY EarlyFrame
  <2>2. faults \in Nat
    OBVIOUS
  <2> QED BY <2>1, <2>2
<1> SUFFICES ASSUME ~StreamPlan(n) PROVE Moves(n) \/ \E how \in {"waiting", "done", "failed"} : Ends(n, how)
  BY <1>1 DEF StepKind
<1>2. CASE SkipCompiler(n) \/ ExportToolchain(n)
  <2>1. job[n] \in Toolchain
    BY <1>2 DEF SkipCompiler, ExportToolchain, At, EvalTypeOK
  <2>2. Ends(n, "done")
    BY <1>2, <2>1 DEF SkipCompiler, ExportToolchain, Finish, Ends
  <2> QED BY <2>2
<1>3. CASE RealiseToolchain(n)
  BY <1>3 DEF RealiseToolchain, At, GoTo, Moves, HasStep
<1>4. CASE Evaluate(n)
  BY <1>4 DEF Evaluate, At, GoTo, Moves, HasStep
<1>5. CASE BuildAggregate(n)
  <2>1. Importable(n, "drvs")
    <3>1. References("drvs") = {}
      BY DEF References
    <3> QED BY <3>1 DEF StoreInv, Staged, Importable
  <2> QED BY <1>5, <2>1 DEF BuildAggregate, At, GoTo, Moves, HasStep
<1>6. CASE PublishMatrix(n)
  BY <1>6 DEF PublishMatrix, At, GoTo, Moves, HasStep
<1>7. CASE RecordSidecar(n)
  <2>1. job[n] \in Binary
    BY <1>7 DEF RecordSidecar, At
  <2>2. Ends(n, "done")
    BY <1>7, <2>1 DEF RecordSidecar, Finish, Ends
  <2> QED BY <2>2
<1>8. CASE CheckInputs(n)
  <2>1. CASE InputsNamed
    BY <1>8, <2>1 DEF CheckInputs, At, GoTo, Moves, HasStep
  <2>2. CASE ~InputsNamed
    <3>1. Ends(n, "failed")
      BY <1>8, <2>2 DEF CheckInputs, At, Finish, Ends
    <3> QED BY <3>1
  <2> QED BY <2>1, <2>2
<1>9. CASE ImportArchives(n)
  <2>1. Whole("drvs")
    BY DEF StoreInv, Staged
  <2> QED BY <1>9, <2>1 DEF ImportArchives, At, GoTo, Moves, HasStep
<1>10. CASE ProduceBuildDeps(n)
  BY <1>10 DEF ProduceBuildDeps, At, GoTo, Moves, HasStep
<1>11. CASE WriteOutputs(n)
  <2>1. Ends(n, "done")
    BY <1>11 DEF WriteOutputs, At, Finish, Ends
  <2> QED BY <2>1
<1> QED BY <1>2, <1>3, <1>4, <1>5, <1>6, <1>7, <1>8, <1>9, <1>10, <1>11 DEF EarlyStep

LEMMA BuildKind ==
  ASSUME PipelineTypeOK, NEW n \in Node, BuildStep(n)
  PROVE  StepKind(n)
<1> USE DEF PipelineTypeOK, StoreTypeOK, PoolTypeOK, NoFault
<1> DEFINE Frame == /\ job[n] \in BuildTask /\ mode' = mode /\ broken \subseteq broken'
                    /\ (faults' = 0 => faults = 0) /\ \A m \in Node \ {n} : step'[m] = step[m]
<1>1. Frame
  <2>1. faults \in Nat
    OBVIOUS
  <2>2. ASSUME NEW a \in Archive, PassGate(n, a) \/ ImportGate(n, a) \/ GateFails(n, a) PROVE Frame
    BY <2>1, <2>2 DEF PassGate, ImportGate, GateFails, NextGate, Fault, Finish, BuildTask
  <2>3. CASE GiveUpGates(n) \/ GatesPassed(n) \/ AssertNoSubstitute(n) \/ NixBuild(n) \/ PublishBuild(n)
    BY <2>1, <2>3 DEF GiveUpGates, GatesPassed, AssertNoSubstitute, NixBuild, PublishBuild, At, Fault, Finish,
       GoTo, BuildTask
  <2> QED BY <2>2, <2>3 DEF BuildStep
<1>2. job[n] # "idle" /\ job[n] # "graph"
  BY <1>1 DEF BuildTask
<1> SUFFICES Moves(n) \/ \E how \in {"waiting", "done", "failed"} : Ends(n, how)
  BY <1>1 DEF StepKind
<1>3. ASSUME NEW a \in Archive, PassGate(n, a) \/ ImportGate(n, a) PROVE Moves(n)
  BY <1>2, <1>3 DEF PassGate, ImportGate, Moves
<1>4. ASSUME NEW a \in Archive, GateFails(n, a) PROVE Ends(n, "failed")
  BY <1>1, <1>2, <1>4 DEF GateFails, Finish, Ends
<1>5. CASE GiveUpGates(n)
  <2>1. Ends(n, "failed")
    BY <1>1, <1>2, <1>5 DEF GiveUpGates, Finish, Ends
  <2> QED BY <2>1
<1>6. CASE GatesPassed(n) \/ NixBuild(n)
  BY <1>1, <1>2, <1>6 DEF GatesPassed, NixBuild, GoTo, Moves, HasStep
<1>7. CASE AssertNoSubstitute(n)
  <2>1. Moves(n) \/ Ends(n, "waiting")
    BY <1>1, <1>2, <1>7 DEF AssertNoSubstitute, GoTo, Finish, Moves, Ends, HasStep
  <2> QED BY <2>1
<1>8. CASE PublishBuild(n)
  <2>1. \/ faults' = faults /\ Finish(n, "done")
        \/ faults' = faults + 1 /\ (Finish(n, "done") \/ Finish(n, "failed"))
    BY <1>8 DEF PublishBuild, Fault
  <2>2. faults' = faults + 1 => faults' > 0
    OBVIOUS
  <2>3. Ends(n, "done") \/ Ends(n, "failed")
    BY <1>1, <1>2, <2>1, <2>2 DEF Finish, Ends
  <2> QED BY <2>3
<1> QED BY <1>3, <1>4, <1>5, <1>6, <1>7, <1>8 DEF BuildStep

LEMMA FaultKind ==
  ASSUME PipelineTypeOK, NEW n \in Node, PipelineFault(n)
  PROVE  StepKind(n)
<1> USE DEF PipelineTypeOK, StoreTypeOK, PoolTypeOK
<1>1. faults' = faults + 1 /\ faults' > 0
  BY DEF PipelineFault, StepFails, BuildFails, GateRetried, NodeDies, Fault
<1>2. CASE StepFails(n)
  <2>1. job[n] # "idle" /\ Ends(n, "failed")
    BY <1>1, <1>2 DEF StepFails, Finish, Ends
  <2> QED BY <1>1, <1>2, <2>1 DEF StepKind, StepFails, Finish
<1>3. CASE BuildFails(n)
  <2>1. job[n] # "idle" /\ Ends(n, "failed")
    BY <1>1, <1>3 DEF BuildFails, At, Finish, Ends
  <2> QED BY <1>1, <1>3, <2>1 DEF StepKind, BuildFails, Finish
<1>4. ASSUME NEW a \in Archive, GateRetried(n, a) PROVE StepKind(n)
  BY <1>1, <1>4 DEF GateRetried, Moves, StepKind
<1>5. CASE NodeDies(n)
  <2>1. CASE job[n] # "idle"
    <3>1. status' = [status EXCEPT ![job[n]] = "waiting"]
      BY <1>5, <2>1 DEF NodeDies
    <3>2. Ends(n, "waiting")
      BY <1>5, <2>1, <3>1 DEF NodeDies, Ends
    <3> QED BY <1>1, <1>5, <3>2 DEF StepKind, NodeDies
  <2>2. CASE job[n] = "idle"
    <3>1. job' = job /\ status' = status
      BY <1>5, <2>2 DEF NodeDies, Task
    <3> QED BY <1>1, <1>5, <3>1 DEF StepKind, NodeDies, Moves
  <2> QED BY <2>1, <2>2
<1> QED BY <1>2, <1>3, <1>4, <1>5 DEF PipelineFault

LEMMA AnyKind ==
  ASSUME PipelineTypeOK, StoreInv, NEW n \in Node, NodeStep(n)
  PROVE  StepKind(n)
<1>1. ASSUME NEW t \in Task, Assign(n, t) PROVE StepKind(n)
  <2>1. t \in BuildTask \/ t \in Toolchain \cup Binary \cup {"graph"}
    BY DEF Task, BuildTask
  <2>2. Takes(n, t)
    BY <1>1, <2>1 DEF Assign, Ready, Takes, HasStep, PipelineTypeOK, PoolTypeOK, BuildTask
  <2> QED BY <1>1, <2>2 DEF Assign, StepKind, PipelineTypeOK, PoolTypeOK
<1> QED BY <1>1, EarlyKind, BuildKind, FaultKind DEF NodeStep

\* When the evaluations have ended, what the graph reads of them stays: no step but
\* those of an evaluation changes it.
Records == <<mode, kept, published, sidecar>>

LEMMA EarlyRecords ==
  ASSUME PipelineTypeOK, NEW n \in Node, EarlyStep(n), job[n] \notin Binary
  PROVE  UNCHANGED Records /\ \A b \in Binary : file'[b] = file[b]
<1> USE DEF Records, At
<1>1. CASE SkipCompiler(n) \/ RealiseToolchain(n) \/ ExportToolchain(n)
  BY <1>1 DEF SkipCompiler, RealiseToolchain, ExportToolchain, Finish, GoTo
<1>2. CASE CheckInputs(n) \/ ImportArchives(n) \/ StreamPlan(n) \/ WriteOutputs(n)
  BY <1>2 DEF CheckInputs, ImportArchives, StreamPlan, WriteOutputs, Finish, GoTo
<1>3. CASE ProduceBuildDeps(n)
  BY <1>3 DEF ProduceBuildDeps, Export, GoTo, PipelineTypeOK, StoreTypeOK, Archive
<1>4. ~(Evaluate(n) \/ BuildAggregate(n) \/ PublishMatrix(n) \/ RecordSidecar(n))
  BY DEF Evaluate, BuildAggregate, PublishMatrix, RecordSidecar
<1> QED BY <1>1, <1>2, <1>3, <1>4 DEF EarlyStep

LEMMA OtherRecords ==
  ASSUME PipelineTypeOK, NEW n \in Node,
         BuildStep(n) \/ PipelineFault(n) \/ \E t \in Task : Assign(n, t) /\ UNCHANGED evalVars
  PROVE  UNCHANGED Records /\ \A b \in Binary : file'[b] = file[b]
<1> USE DEF Records
<1>1. CASE BuildStep(n)
  <2>1. UNCHANGED <<mode, kept, published, sidecar>>
    BY <1>1 DEF BuildStep, PassGate, ImportGate, GateFails, GiveUpGates, GatesPassed, AssertNoSubstitute,
       NixBuild, PublishBuild, Finish, GoTo
  <2>2. file' = file \/ Export("common_dep")
    BY <1>1 DEF BuildStep, PassGate, ImportGate, GateFails, GiveUpGates, GatesPassed, AssertNoSubstitute,
       NixBuild, PublishBuild, PublishCommonDep
  <2> QED BY <2>1, <2>2 DEF Export, PipelineTypeOK, StoreTypeOK, Archive
<1>2. CASE PipelineFault(n)
  BY <1>2 DEF PipelineFault, StepFails, BuildFails, GateRetried, NodeDies, Finish
<1>3. ASSUME NEW t \in Task, Assign(n, t), UNCHANGED evalVars PROVE UNCHANGED Records /\ file' = file
  BY <1>3 DEF Assign
<1> QED BY <1>1, <1>2, <1>3

\* A step of one kind leaves the evaluations ended, and what they recorded.
LEMMA RecordsRest ==
  ASSUME PipelineTypeOK, PipelineTypeOK', JobInv, StoreInv, NEW n \in Node, NodeStep(n), Ended(Binary)
  PROVE  Ended(Binary)' /\ (InputsNamed' <=> InputsNamed) /\ Planned' = Planned
<1> USE DEF PipelineTypeOK, PoolTypeOK
<1>1. \A m \in Node : job[m] \notin Binary
  <2> SUFFICES ASSUME NEW m \in Node, job[m] \in Binary PROVE FALSE
    OBVIOUS
  <2>1. status[job[m]] = "running"
    BY DEF JobInv, JobsRun
  <2> QED BY <2>1 DEF Ended
<1>2. UNCHANGED Records /\ \A b \in Binary : file'[b] = file[b]
  BY <1>1, EarlyRecords, OtherRecords DEF NodeStep
<1>3. \A b \in Binary : status'[b] = status[b]
  <2>1. StepKind(n)
    BY AnyKind
  <2>2. ASSUME NEW t \in Task, Takes(n, t), NEW b \in Binary PROVE status'[b] = status[b]
    <3>1. status[b] # "waiting"
      BY DEF Ended
    <3> QED BY <2>2, <3>1 DEF Takes
  <2>3. ASSUME NEW how, Ends(n, how), NEW b \in Binary PROVE status'[b] = status[b]
    BY <1>1, <2>3 DEF Ends
  <2>4. ASSUME StreamPlan(n), NEW b \in Binary PROVE status'[b] = status[b]
    <3>1. Planned \subseteq Variant
      BY DEF Planned, VariantLookup, EvalTypeOK, Wanted
    <3> QED BY <2>4, <3>1 DEF StreamPlan, Task
  <2> QED BY <2>1, <2>2, <2>3, <2>4 DEF StepKind, Moves
<1>4. Wanted' = Wanted
  <2>1. \A b : b \in Wanted' <=> b \in Wanted
    <3>1. CASE mode.prestaged
      BY <1>2, <3>1 DEF Wanted, Whole, Records
    <3>2. CASE ~mode.prestaged
      BY <1>2, <1>3, <3>2 DEF Wanted, Records
    <3> QED BY <3>1, <3>2
  <2> QED BY <2>1
<1>5. \A b \in Binary : Named(b)' <=> Named(b)
  BY <1>2 DEF Named, Records
<1>6. InputsNamed' <=> InputsNamed
  <2>1. Wanted \subseteq Binary
    BY DEF Wanted
  <2> QED BY <1>4, <1>5, <2>1 DEF InputsNamed
<1>7. Planned' = Planned
  BY <1>2, <1>4 DEF Planned, VariantLookup, Records
<1>8. Ended(Binary)'
  BY <1>3 DEF Ended
<1> QED BY <1>6, <1>7, <1>8

LEMMA WorkersRest ==
  ASSUME PipelineTypeOK, PipelineTypeOK', JobInv, StoreInv, RestInv, NEW n \in Node, NodeStep(n)
  PROVE  RunningHasWorker' /\ StepsFit'
<1> USE DEF PipelineTypeOK, PoolTypeOK
<1>1. StepKind(n)
  BY AnyKind
<1>2. RunningHasWorker /\ StepsFit
  BY DEF RestInv
<1>3. ASSUME NEW t \in Task, Takes(n, t) PROVE RunningHasWorker' /\ StepsFit'
  <2>1. ASSUME NEW s \in Task, status'[s] = "running" PROVE \E m \in Node : job'[m] = s
    <3>1. CASE s = t
      BY <1>3, <3>1 DEF Takes
    <3>2. CASE s # t
      <4>1. PICK m \in Node : job[m] = s
        BY <1>2, <1>3, <2>1, <3>2 DEF Takes, RunningHasWorker
      <4>2. m # n
        BY <1>3, <4>1 DEF Takes, Task
      <4> QED BY <1>3, <4>1, <4>2 DEF Takes
    <3> QED BY <3>1, <3>2
  <2>2. StepsFit'
    BY <1>1, <1>2, <1>3 DEF StepKind, Takes, StepsFit, HasStep
  <2> QED BY <2>1, <2>2 DEF RunningHasWorker
<1>4. CASE Moves(n)
  <2>1. RunningHasWorker'
    BY <1>2, <1>4 DEF Moves, RunningHasWorker
  <2>2. ASSUME NEW m \in Node, job[m] # "idle" PROVE HasStep(job[m], step'[m])
    BY <1>1, <1>2, <1>4, <2>2 DEF StepKind, Moves, StepsFit
  <2>3. \A m \in Node : job'[m] = job[m]
    BY <1>4 DEF Moves
  <2>4. StepsFit'
    BY <2>2, <2>3 DEF StepsFit, HasStep
  <2> QED BY <2>1, <2>4
<1>5. ASSUME NEW how \in {"waiting", "done", "failed"}, Ends(n, how) PROVE RunningHasWorker' /\ StepsFit'
  <2>1. ASSUME NEW s \in Task, status'[s] = "running" PROVE \E m \in Node : job'[m] = s
    <3>1. s # job[n] /\ status[s] = "running"
      BY <1>5, <2>1 DEF Ends
    <3>2. PICK m \in Node : job[m] = s
      BY <1>2, <3>1 DEF RunningHasWorker
    <3> QED BY <1>5, <3>1, <3>2 DEF Ends
  <2>2. StepsFit'
    BY <1>2, <1>5 DEF Ends, StepsFit, HasStep
  <2> QED BY <2>1, <2>2 DEF RunningHasWorker
<1>6. CASE StreamPlan(n)
  <2>1. /\ job' = job /\ \A t \in Task : status'[t] = "running" => status[t] = "running"
        /\ job[n] = "graph" /\ step'[n] \in {"inputs", "record"}
        /\ \A m \in Node \ {n} : step'[m] = step[m]
    BY <1>6 DEF StreamPlan, At
  <2>2. RunningHasWorker'
    BY <1>2, <2>1 DEF RunningHasWorker
  <2>3. StepsFit'
    BY <1>2, <2>1 DEF StepsFit, HasStep
  <2> QED BY <2>2, <2>3
<1> QED BY <1>1, <1>3, <1>4, <1>5, <1>6 DEF StepKind

\* What a step does to the tasks that are there already.
LEMMA TasksStay ==
  ASSUME PipelineTypeOK, PipelineTypeOK', JobInv, NEW n \in Node, StepKind(n), NEW t \in Task
  PROVE  /\ status[t] # "absent" => status'[t] # "absent"
         /\ status'[t] # "absent" /\ status[t] = "absent" => StreamPlan(n)
         /\ status'[t] # status[t] /\ status'[t] \in {"done", "failed"} => t = job[n] /\ Ends(n, status'[t])
<1> USE DEF PipelineTypeOK, PoolTypeOK
<1>1. ASSUME NEW s \in Task, Takes(n, s) PROVE status'[t] = IF t = s THEN "running" ELSE status[t]
  BY <1>1 DEF Takes
<1>2. ASSUME NEW s \in Task, Takes(n, s) PROVE status[s] = "waiting"
  BY <1>2 DEF Takes
<1>3. CASE Moves(n)
  BY <1>3 DEF Moves
<1>4. ASSUME NEW how \in {"waiting", "done", "failed"}, Ends(n, how)
      PROVE  status'[t] = (IF t = job[n] THEN how ELSE status[t]) /\ status[job[n]] = "running"
  BY <1>4 DEF Ends, JobInv, JobsRun
<1>5. CASE StreamPlan(n)
  BY <1>5 DEF StreamPlan
<1>6. CASE \E s \in Task : Takes(n, s)
  BY <1>1, <1>2, <1>6
<1>7. CASE \E how \in {"waiting", "done", "failed"} : Ends(n, how)
  BY <1>4, <1>7
<1> QED BY <1>3, <1>5, <1>6, <1>7 DEF StepKind

LEMMA TasksRest ==
  ASSUME PipelineTypeOK, PipelineTypeOK', JobInv, StoreInv, RestInv, NEW n \in Node, NodeStep(n)
  PROVE  SpawnedTogether' /\ NoneFails'
<1> USE DEF PipelineTypeOK, PoolTypeOK
<1>1. StepKind(n)
  BY AnyKind
<1>2. SpawnedTogether /\ NoneFails
  BY DEF RestInv
<1>3. SpawnedTogether'
  <2>1. mode' = mode
    BY <1>1 DEF StepKind
  <2>2. \A t \in Task : status[t] # "absent" => status'[t] # "absent"
    BY <1>1, TasksStay
  <2>3. ASSUME NEW v \in Variant, status'[v] # "absent" PROVE status'["dep"] # "absent"
    <3>1. CASE status[v] # "absent"
      BY <1>2, <2>2, <3>1 DEF SpawnedTogether, Task
    <3>2. CASE status[v] = "absent"
      <4>1. StreamPlan(n)
        BY <1>1, <2>3, <3>2, TasksStay DEF Task
      <4> QED BY <4>1 DEF StreamPlan, Task
    <3> QED BY <3>1, <3>2
  <2>4. Toolchain \cup {"graph"} \cup Binary \subseteq Task
    BY DEF Task
  <2> QED BY <1>2, <2>1, <2>2, <2>3, <2>4 DEF SpawnedTogether
<1>4. NoneFails'
  <2>1. (faults' = 0 => faults = 0) /\ (broken' = {} => broken = {})
    BY <1>1 DEF StepKind
  <2>2. ASSUME NEW t \in Task, status'[t] = "failed", status[t] # "failed"
        PROVE  \/ faults' > 0
               \/ t \in BuildTask /\ broken' # {}
               \/ t = "graph"
    BY <1>1, <2>2, TasksStay DEF Ends
  <2>3. ASSUME NEW t \in Toolchain \cup Binary, faults' = 0 PROVE status'[t] # "failed"
    <3>1. t \in Task /\ t \notin BuildTask /\ t # "graph"
      BY DEF Task, BuildTask
    <3> QED BY <1>2, <2>1, <2>2, <2>3, <3>1 DEF NoneFails
  <2>4. ASSUME NEW t \in BuildTask, faults' = 0, broken' = {} PROVE status'[t] # "failed"
    <3>1. t \in Task /\ t # "graph"
      BY DEF Task, BuildTask
    <3> QED BY <1>2, <2>1, <2>2, <2>4, <3>1 DEF NoneFails
  <2> QED BY <2>3, <2>4 DEF NoneFails
<1> QED BY <1>3, <1>4

LEMMA GraphRest ==
  ASSUME PipelineTypeOK, PipelineTypeOK', JobInv, StoreInv, RestInv, NEW n \in Node, NodeStep(n)
  PROVE  GraphAfter' /\ GraphRejects' /\ PlanSpawned'
<1> USE DEF PipelineTypeOK, PoolTypeOK
<1>1. StepKind(n)
  BY AnyKind
<1>2. GraphAfter /\ GraphRejects /\ PlanSpawned
  BY DEF RestInv
<1>3. "graph" \in Task /\ "dep" \in Task /\ Planned \subseteq Task
  BY DEF Task, Planned, VariantLookup, EvalTypeOK, Wanted
<1>4. \A m \in Node : job[m] = "graph" => Ended(Binary)
  BY DEF JobInv, EvaluationEnds
<1>5. status["graph"] \in {"done", "failed"} => Ended(Binary)
  BY <1>2 DEF GraphAfter
<1>6. status'["graph"] \in {"done", "failed"} => Ended(Binary)
  BY <1>1, <1>3, <1>4, <1>5, TasksStay
<1>7. Ended(Binary) => Ended(Binary)' /\ (InputsNamed' <=> InputsNamed) /\ Planned' = Planned
  BY RecordsRest
<1>8. GraphAfter'
  BY <1>6, <1>7 DEF GraphAfter
<1>9. GraphRejects'
  <2> SUFFICES ASSUME faults' = 0, status'["graph"] = "failed" PROVE ~InputsNamed
    BY <1>6, <1>7 DEF GraphRejects
  <2>1. CASE status["graph"] = "failed"
    BY <1>1, <1>2, <2>1 DEF GraphRejects, StepKind
  <2>2. CASE status["graph"] # "failed"
    <3>1. job[n] = "graph" /\ Ends(n, "failed")
      BY <1>1, <1>3, <2>2, TasksStay
    <3> QED BY <3>1 DEF Ends, BuildTask
  <2> QED BY <2>1, <2>2
<1>10. PlanSpawned'
  <2> DEFINE streamed == status["graph"] = "done" \/ \E m \in Node : job[m] = "graph" /\ step[m] \in {"inputs", "record"}
  <2>1. \A t \in Task : status[t] # "absent" => status'[t] # "absent"
    BY <1>1, TasksStay
  <2>2. CASE streamed
    <3>1. status["dep"] # "absent" /\ \A v \in Planned : status[v] # "absent"
      BY <1>2, <2>2 DEF PlanSpawned
    <3>2. Planned' = Planned
      BY <1>4, <1>5, <1>7, <2>2
    <3>3. status'["dep"] # "absent" /\ \A v \in Planned : status'[v] # "absent"
      BY <1>3, <2>1, <3>1
    <3> QED BY <3>2, <3>3 DEF PlanSpawned
  <2>3. CASE StreamPlan(n)
    <3>1. Planned' = Planned
      BY <1>4, <1>7, <2>3 DEF StreamPlan, At
    <3>2. status'["dep"] # "absent" /\ \A v \in Planned : status'[v] # "absent"
      BY <1>3, <2>3 DEF StreamPlan
    <3> QED BY <3>1, <3>2 DEF PlanSpawned
  <2>4. CASE ~StreamPlan(n) /\ ~streamed
    <3>1. status'["graph"] # "done"
      <4> SUFFICES ASSUME status'["graph"] = "done" PROVE FALSE
        OBVIOUS
      <4>1. job[n] = "graph" /\ Ends(n, "done")
        BY <1>1, <1>3, <2>4, TasksStay
      <4> QED BY <2>4, <4>1 DEF Ends
    <3>2. ASSUME NEW m \in Node, job'[m] = "graph", step'[m] \in {"inputs", "record"} PROVE FALSE
      <4>1. ASSUME NEW t \in Task, Takes(n, t) PROVE FALSE
        BY <1>1, <2>4, <3>2, <4>1 DEF Takes, StepKind
      <4>2. CASE Moves(n)
        BY <1>1, <2>4, <3>2, <4>2 DEF Moves, StepKind
      <4>3. ASSUME NEW how, Ends(n, how) PROVE FALSE
        BY <2>4, <3>2, <4>3 DEF Ends
      <4> QED BY <1>1, <2>4, <4>1, <4>2, <4>3 DEF StepKind
    <3> QED BY <3>1, <3>2 DEF PlanSpawned
  <2> QED BY <2>2, <2>3, <2>4
<1> QED BY <1>8, <1>9, <1>10

LEMMA RestStep ==
  ASSUME PipelineTypeOK, JobInv, StoreInv, RestInv, [PipelineNext]_pipelineVars
  PROVE  RestInv'
<1>1. CASE UNCHANGED pipelineVars
  BY <1>1 DEF RestInv, RunningHasWorker, StepsFit, HasStep, SpawnedTogether, NoneFails, GraphAfter,
     GraphRejects, PlanSpawned, Ended, InputsNamed, Wanted, Named, Whole, Planned, VariantLookup
<1>2. ASSUME NEW n \in Node, NodeStep(n) PROVE RestInv'
  <2>1. PipelineTypeOK'
    BY TypeStep, <1>2 DEF PipelineNext, NodeStep
  <2> QED BY <1>2, <2>1, WorkersRest, TasksRest, GraphRest DEF RestInv
<1> QED BY <1>1, <1>2 DEF PipelineNext, NodeStep

\* At rest no worker has a task, and a task that waits is held back.
LEMMA IdleAtRest ==
  ASSUME PipelineTypeOK, RestInv, Node # {}, AtRest
  PROVE  \A t \in Task : status[t] # "running" /\ ~Ready(t)
<1>1. ASSUME NEW n \in Node, job[n] # "idle" PROVE FALSE
  <2>1. HasStep(job[n], step[n])
    BY <1>1 DEF RestInv, StepsFit
  <2>2. step[n] = "gates" => job[n] \in BuildTask
    BY <2>1 DEF HasStep
  <2>3. GoesOn(n)
    BY <2>1, <2>2, GatesGoOn DEF GoesOn
  <2> QED BY <2>3 DEF AtRest
<1>2. \A t \in Task : status[t] # "running"
  BY <1>1 DEF RestInv, RunningHasWorker, Task
<1>3. PICK n \in Node : TRUE
  OBVIOUS
<1>4. \A t \in Task : ~Ready(t)
  BY <1>1, <1>3 DEF AtRest
<1> QED BY <1>2, <1>4

\* The gates of a build task are emitted when the shared dependency is there.
LEMMA GatesEmitted ==
  ASSUME PipelineTypeOK, NEW t \in BuildTask, t \in Variant => status["dep"] # "absent"
  PROVE  \A a \in Gates(t) : GateEmitted(a)
<1> SUFFICES ASSUME NEW a \in Gates(t) PROVE GateEmitted(a)
  OBVIOUS
<1>1. a = "build_deps" => mode.buildDepsLocal
  <2> SUFFICES ASSUME a = "build_deps" PROVE mode.buildDepsLocal
    OBVIOUS
  <2>1. t \in Variant => Tc[t] # "build_deps" /\ Pkg[t] # "build_deps"
    <3>1. t \in Variant => Tc[t] \in Toolchain /\ Pkg[t] \in Binary
      OBVIOUS
    <3> QED BY <3>1
  <2> QED BY <2>1 DEF Gates, BuildTask
<1>2. a = "common_dep" => t \in Variant
  BY DEF Gates, BuildTask
<1>3. CASE a = "build_deps"
  BY <1>1, <1>3 DEF GateEmitted
<1>4. CASE a = "common_dep"
  BY <1>2, <1>4 DEF GateEmitted
<1>5. CASE a \notin {"build_deps", "common_dep"}
  BY <1>5 DEF GateEmitted
<1> QED BY <1>3, <1>4, <1>5

LEMMA StrandedAtRest ==
  ASSUME PipelineTypeOK, RestInv, Node # {}, AtRest, NEW t \in Task, status[t] = "waiting"
  PROVE  WaitsForFailure(t)
<1> USE DEF PipelineTypeOK, PoolTypeOK
<1>1. \A s \in Task : status[s] # "running" /\ ~Ready(s)
  BY IdleAtRest
<1>2. \A s \in Toolchain \cup Binary \cup {"graph"} : s \in Task /\ Gates(s) = {}
  BY DEF Gates, Task
<1>3. Ended(Toolchain)
  <2> SUFFICES ASSUME NEW s \in Toolchain, status[s] = "waiting" PROVE FALSE
    BY <1>1, <1>2 DEF Ended
  <2>1. PhaseOpen(s) /\ Predecessors(s) = {}
    BY DEF PhaseOpen, Predecessors
  <2> QED BY <1>1, <1>2, <2>1 DEF Ready, Succeeded
<1>4. Ended(Binary)
  <2> SUFFICES ASSUME NEW s \in Binary, status[s] = "waiting" PROVE FALSE
    BY <1>1, <1>2 DEF Ended
  <2>1. PhaseOpen(s) /\ Predecessors(s) = {}
    BY <1>3 DEF PhaseOpen, Predecessors
  <2> QED BY <1>1, <1>2, <2>1 DEF Ready, Succeeded
<1>5. CASE t = "graph"
  <2>1. PhaseOpen("graph")
    BY <1>3, <1>4 DEF PhaseOpen, Ended
  <2>2. ~Succeeded(Predecessors("graph"))
    BY <1>1, <1>2, <1>5, <2>1 DEF Ready
  <2>3. PICK b \in Binary : ~mode.prestaged /\ status[b] # "done"
    BY <2>2 DEF Predecessors, Succeeded
  <2>4. status[b] = "failed"
    BY <1>4, <2>3 DEF Ended, RestInv, SpawnedTogether
  <2> QED BY <1>5, <2>4 DEF WaitsForFailure
<1>6. ASSUME NEW s \in BuildTask, status[s] = "waiting", s \in Variant => status["dep"] = "done"
      PROVE  Gates(s) \cap broken # {}
  <2>1. s \in Task /\ PhaseOpen(s)
    BY DEF BuildTask, PhaseOpen, Task
  <2>2. Succeeded(Predecessors(s))
    BY <1>6 DEF BuildTask, Predecessors, Succeeded
  <2>3. \A a \in Gates(s) : GateEmitted(a)
    BY <1>6, GatesEmitted
  <2> QED BY <1>1, <1>6, <2>1, <2>2, <2>3 DEF Ready
<1>7. CASE t = "dep"
  BY <1>6, <1>7 DEF WaitsForFailure, BuildTask
<1>8. CASE t \in Variant
  <2>1. status["dep"] \in {"waiting", "done", "failed"}
    BY <1>1, <1>8 DEF RestInv, SpawnedTogether, Task
  <2>2. CASE status["dep"] = "waiting"
    <3>1. Gates("dep") \cap broken # {}
      BY <1>6, <2>2 DEF BuildTask
    <3>2. Gates("dep") \subseteq Gates(t)
      BY <1>8 DEF Gates
    <3> QED BY <3>1, <3>2 DEF WaitsForFailure
  <2>3. CASE status["dep"] = "done"
    BY <1>6, <1>8, <2>3 DEF WaitsForFailure, BuildTask
  <2>4. CASE status["dep"] = "failed"
    BY <1>8, <2>4 DEF WaitsForFailure
  <2> QED BY <2>1, <2>2, <2>3, <2>4
<1>9. CASE t \in Toolchain \cup Binary
  BY <1>3, <1>4, <1>9 DEF Ended
<1> QED BY <1>5, <1>7, <1>8, <1>9 DEF Task

LEMMA ConclusionAtRest ==
  ASSUME PipelineTypeOK, RestInv, Node # {}, AtRest, faults = 0, broken = {}
  PROVE  \/ status["graph"] = "failed" /\ ~InputsNamed
         \/ status["graph"] = "done" /\ Succeeded(Planned \cup {"dep"})
<1> USE DEF PipelineTypeOK, PoolTypeOK
<1>1. /\ \A t \in Toolchain \cup Binary \cup BuildTask : status[t] # "failed"
      /\ "graph" \in Task /\ BuildTask \subseteq Task /\ Toolchain \cup Binary \subseteq Task
  BY DEF RestInv, NoneFails, BuildTask, Task
<1>2. \A t \in Task : ~WaitsForFailure(t)
  BY <1>1 DEF WaitsForFailure, BuildTask
<1>3. \A t \in Task : status[t] \in {"absent", "done", "failed"}
  BY <1>2, IdleAtRest, StrandedAtRest
<1>4. status["graph"] \in {"done", "failed"}
  BY <1>1, <1>3 DEF RestInv, SpawnedTogether
<1>5. CASE status["graph"] = "failed"
  BY <1>5 DEF RestInv, GraphRejects
<1>6. CASE status["graph"] = "done"
  <2>1. Planned \cup {"dep"} \subseteq BuildTask
    BY DEF Planned, VariantLookup, EvalTypeOK, Wanted, BuildTask
  <2>2. \A t \in Planned \cup {"dep"} : status[t] # "absent"
    BY <1>6 DEF RestInv, PlanSpawned
  <2> QED BY <1>1, <1>3, <1>6, <2>1, <2>2 DEF Succeeded
<1> QED BY <1>4, <1>5, <1>6

(* A pipeline that comes to rest has a reason for every task it left: no   *)
(* task is running any more, and one that still waits depends on a task or *)
(* an import gate that failed for good.  When no fault happened and no gate*)
(* broke, rest means that the dependency graph refused its inputs, or that *)
(* the shared dependency and everything planned was built.  No order of    *)
(* gates, phases and node losses leaves work behind that nobody will do.   *)
THEOREM PipelineRestsConcluded ==
  ASSUME Node # {}
  PROVE  PipelineSpec => [](NoneStranded /\ RestIsConclusion)
<1>1. EarlyInit => PipelineTypeOK /\ StoreInv /\ JobInv /\ RestInv
  BY InitialType, InitialStores, InitialJobs, InitialRest
<1>2. PipelineTypeOK /\ StoreInv /\ JobInv /\ RestInv /\ [PipelineNext]_pipelineVars
      => (PipelineTypeOK /\ StoreInv /\ JobInv /\ RestInv)'
  BY TypeStep, StoreStep, JobStep, RestStep
<1>3. PipelineTypeOK /\ RestInv => NoneStranded /\ RestIsConclusion
  BY IdleAtRest, StrandedAtRest, ConclusionAtRest DEF NoneStranded, RestIsConclusion
<1> QED BY <1>1, <1>2, <1>3, PTL DEF PipelineSpec
=============================================================================

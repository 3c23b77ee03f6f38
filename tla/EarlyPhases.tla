------------------------------- MODULE EarlyPhases -------------------------------
(***************************************************************************)
(* What the worker of a node does for the tasks of the first three phases: *)
(*   build_compilers   realise one toolchain and export its closure,       *)
(*   matrix_eval       choose and evaluate the variants of one binary and  *)
(*                     publish their derivations as an archive,            *)
(*   dependency_graph  import every archive, plan, stream the build tasks  *)
(*                     and, when asked to, archive the build inputs.       *)
(* Every failure of these tasks reaches the framework as NonRecoverable.   *)
(***************************************************************************)
EXTENDS TaskPool

VARIABLES
  compiled,  \* the toolchains with a closure archive of their own
  kept,      \* kept[b]: the variants of b that were sampled and evaluated
  published  \* the binaries whose aggregate derivation is a task output

evalVars == <<compiled, kept, published>>

EvalTypeOK ==
  /\ compiled \subseteq Toolchain
  /\ kept \in [Binary -> SUBSET Variant]
  /\ published \subseteq Binary

VariantsOf(b) == {v \in Variant : Pkg[v] = b}

\* A run that reuses the archives of an earlier one finds any of them, with or
\* without the sidecar, and spawns no evaluation task.  The submitter uploaded
\* the toolchain archives before it dispatched the run.
StagedBefore(b) == mode.prestaged /\ file[b] = "whole"

SpawnedAtStart == Toolchain \cup {"graph"} \cup (IF mode.prestaged THEN {} ELSE Binary)

EarlyInit ==
  /\ mode \in Modes
  /\ \E staged \in SUBSET (IF mode.prestaged THEN Binary ELSE {}) :
       /\ sidecar \in SUBSET staged
       /\ file = [a \in Archive |->
            IF a \in {"drvs"} \cup SplitArchives(Toolchain) \cup staged THEN "whole" ELSE "absent"]
  /\ kept = [b \in Binary |-> IF StagedBefore(b) THEN VariantsOf(b) ELSE {}]
  /\ status = [t \in Task |-> IF t \in SpawnedAtStart THEN "waiting" ELSE "absent"]
  /\ store = [n \in Node |-> {}]
  /\ faults = 0
  /\ job = [n \in Node |-> "idle"]
  /\ step = [n \in Node |-> "start"]
  /\ flagged = [n \in Node |-> {}]
  /\ opened = [n \in Node |-> {}]
  /\ broken = {}
  /\ compiled = {}
  /\ published = {}

\* A subprocess or file access of the current step fails.
StepFails(n) ==
  /\ job[n] \in Toolchain \cup Binary \cup {"graph"}
  /\ Fault /\ Finish(n, "failed")
  /\ UNCHANGED <<file, sidecar, store, gateVars, evalVars>>

-------------------------------------------------------------------------------
\* run_build_compilers_task.

\* An archive of that label is taken for the result.
SkipCompiler(n) ==
  /\ At(n, compiled, "start")
  /\ Finish(n, "done") /\ NoFault
  /\ UNCHANGED <<file, sidecar, store, gateVars, evalVars>>

RealiseToolchain(n) ==
  /\ At(n, Toolchain \ compiled, "start")
  /\ Gain(n, {job[n], "common"})
  /\ GoTo(n, "export") /\ NoFault
  /\ UNCHANGED <<file, sidecar, gateVars, evalVars>>

ExportToolchain(n) ==
  /\ At(n, Toolchain, "export")
  /\ compiled' = compiled \cup {job[n]}
  /\ Finish(n, "done") /\ NoFault
  /\ UNCHANGED <<file, sidecar, store, gateVars, kept, published>>

-------------------------------------------------------------------------------
\* run_eval_task.

\* Sampling leaves out the combinations known to be bad or unsupported.
Sampled(b) == SUBSET VariantsOf(b)

\* nix-eval-jobs: a variant whose evaluation fails is dropped.
Evaluate(n) ==
  /\ At(n, Binary, "start")
  /\ \E sampled \in Sampled(job[n]) : \E some \in SUBSET sampled :
       kept' = [kept EXCEPT ![job[n]] = some]
  /\ GoTo(n, "import") /\ NoFault
  /\ UNCHANGED <<file, sidecar, store, gateVars, compiled, published>>

Aggregate(b) == IF kept[b] = {} THEN {} ELSE {b}

\* The toolchain derivations are needed to subtract them, then the aggregate
\* derivation of the binary is written over what was kept.
BuildAggregate(n) ==
  /\ At(n, Binary, "import")
  /\ NoFault
  /\ IF Importable(n, "drvs")
     THEN /\ Gain(n, {"drvs"} \cup Aggregate(job[n]))
          /\ GoTo(n, "export")
     ELSE Finish(n, "failed") /\ UNCHANGED store
  /\ UNCHANGED <<file, sidecar, gateVars, evalVars>>

\* A binary without variants has an empty archive and no aggregate to publish.
PublishMatrix(n) ==
  /\ At(n, Binary, "export")
  /\ LET b == job[n] IN
     IF Aggregate(b) = {}
     THEN file' = [file EXCEPT ![b] = "empty"] /\ published' = published \ {b}
     ELSE Export(b) /\ published' = published \cup {b}
  /\ GoTo(n, "record") /\ NoFault
  /\ UNCHANGED <<sidecar, store, gateVars, compiled, kept>>

\* The sidecar for a later prestaged run is best effort.
RecordSidecar(n) ==
  /\ At(n, Binary, "record")
  /\ \/ /\ sidecar' = IF kept[job[n]] = {} THEN sidecar \ {job[n]} ELSE sidecar \cup {job[n]}
        /\ NoFault
     \/ Fault /\ UNCHANGED sidecar
  /\ Finish(n, "done")
  /\ UNCHANGED <<file, store, gateVars, evalVars>>

-------------------------------------------------------------------------------
\* handle on a dependency_graph task and run_dependency_graph_task.

\* The binaries to plan: those that published, or the archives found on disk.
Wanted == IF mode.prestaged THEN {b \in Binary : Whole(b)} ELSE {b \in Binary : status[b] = "done"}
Named(b) == IF mode.prestaged THEN b \in sidecar ELSE b \in published

\* A mutant: binaries without an output are left out.
SomeInputNamed == \E b \in Wanted : Named(b)

InputsNamed == Wanted # {} /\ \A b \in Wanted : Named(b)

CheckInputs(n) ==
  /\ At(n, {"graph"}, "start")
  /\ IF InputsNamed THEN GoTo(n, "import") ELSE Finish(n, "failed")
  /\ NoFault
  /\ UNCHANGED <<file, sidecar, store, gateVars, evalVars>>

ImportArchives(n) ==
  /\ At(n, {"graph"}, "import")
  /\ NoFault
  /\ IF Whole("drvs")
     THEN GoTo(n, "plan") /\ Gain(n, {"drvs"} \cup {b \in Wanted : Whole(b)})
     ELSE Finish(n, "failed") /\ UNCHANGED store
  /\ UNCHANGED <<file, sidecar, gateVars, evalVars>>

\* The variants of a binary, read back from its aggregate derivation.
VariantLookup(b) == kept[b]

Planned == UNION {VariantLookup(b) : b \in Wanted}

\* A mutant: only the variants are spawned.
StreamVariantsOnly(n) ==
  /\ At(n, {"graph"}, "plan")
  /\ status' = [t \in Task |->
       IF status[t] = "absent" /\ t \in Planned THEN "waiting" ELSE status[t]]
  /\ step' = [step EXCEPT ![n] = IF mode.buildDepsLocal THEN "inputs" ELSE "record"]
  /\ NoFault
  /\ UNCHANGED <<file, sidecar, store, mode, job, gateVars, evalVars>>

\* The plan is streamed; a task the primary has already stays as it is.
StreamPlan(n) ==
  /\ At(n, {"graph"}, "plan")
  /\ status' = [t \in Task |->
       IF status[t] = "absent" /\ t \in Planned \cup {"dep"} THEN "waiting" ELSE status[t]]
  /\ step' = [step EXCEPT ![n] = IF mode.buildDepsLocal THEN "inputs" ELSE "record"]
  /\ NoFault
  /\ UNCHANGED <<file, sidecar, store, mode, job, gateVars, evalVars>>

\* The realised inputs of all variants, without what the toolchain archives hold.
BuildInputs == {"common", "build_deps"}

\* _produce_build_deps_archive, after the stream.
ProduceBuildDeps(n) ==
  /\ At(n, {"graph"}, "inputs")
  /\ Gain(n, BuildInputs)
  /\ Export("build_deps")
  /\ GoTo(n, "record") /\ NoFault
  /\ UNCHANGED <<sidecar, gateVars, evalVars>>

WriteOutputs(n) ==
  /\ At(n, {"graph"}, "record")
  /\ Finish(n, "done") /\ NoFault
  /\ UNCHANGED <<file, sidecar, store, gateVars, evalVars>>

EarlyStep(n) ==
  \/ SkipCompiler(n)
  \/ RealiseToolchain(n)
  \/ ExportToolchain(n)
  \/ Evaluate(n)
  \/ BuildAggregate(n)
  \/ PublishMatrix(n)
  \/ RecordSidecar(n)
  \/ CheckInputs(n)
  \/ ImportArchives(n)
  \/ StreamPlan(n)
  \/ ProduceBuildDeps(n)
  \/ WriteOutputs(n)
=============================================================================

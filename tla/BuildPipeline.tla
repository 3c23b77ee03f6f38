------------------------------ MODULE BuildPipeline ------------------------------
(***************************************************************************)
(* A run of the pipeline on a cluster: the early phases, the import gates  *)
(* that SuitTask.import_action runs once per node, and the builds of the   *)
(* shared dependency and of the variants (build_worker).                   *)
(***************************************************************************)
EXTENDS EarlyPhases

pipelineVars == <<storeVars, poolVars, evalVars>>

PipelineTypeOK == StoreTypeOK /\ PoolTypeOK /\ EvalTypeOK

-------------------------------------------------------------------------------
\* The import gates.  Most set the flag of their archive before they import it.

FlaggedFirst(a) == a \notin Binary

NextGate(n, a) ==
  /\ job[n] \in Variant \cup {"dep"} /\ step[n] = "gates"
  /\ a \in Gates(job[n]) \ (opened[n] \cup broken)
  /\ ListedBefore(job[n], a) \subseteq opened[n]

Open(n, a) == opened' = [opened EXCEPT ![n] = @ \cup {a}]
Flag(n, a) == flagged' = [flagged EXCEPT ![n] = @ \cup {a}]

\* The process has the archive for imported already, or there are no toolchain
\* derivations to import.
PassGate(n, a) ==
  /\ NextGate(n, a)
  /\ a \in flagged[n] \/ (a = "drvs" /\ ~Whole(a))
  /\ Open(n, a) /\ Flag(n, a) /\ NoFault
  /\ UNCHANGED <<file, sidecar, store, mode, status, job, step, broken, evalVars>>

ImportGate(n, a) ==
  /\ NextGate(n, a)
  /\ a \notin flagged[n] /\ Importable(n, a)
  /\ Gain(n, {a}) /\ Open(n, a) /\ Flag(n, a) /\ NoFault
  /\ UNCHANGED <<file, sidecar, mode, status, job, step, broken, evalVars>>

\* RuntimeError: the gate and every task that depends on it fail for good.
GateFails(n, a) ==
  /\ NextGate(n, a)
  /\ a \notin flagged[n]
  /\ IF ~Importable(n, a) /\ ~(a = "drvs" /\ ~Whole(a)) THEN NoFault ELSE Fault
  /\ broken' = broken \cup {a}
  /\ flagged' = [flagged EXCEPT ![n] = IF a \in Binary \cup {"drvs"} THEN @ ELSE @ \cup {a}]
  /\ Finish(n, "failed")
  /\ UNCHANGED <<file, sidecar, store, opened, evalVars>>

\* A mutant: the binary's flag is set before the import, as for the others.
GateRetriedFlagged(n, a) ==
  /\ NextGate(n, a)
  /\ a \notin flagged[n]
  /\ Fault
  /\ Flag(n, a)
  /\ IF a = "drvs" THEN Open(n, a) ELSE UNCHANGED opened
  /\ UNCHANGED <<file, sidecar, store, mode, status, job, step, broken, evalVars>>

\* OSError: the framework calls the action again.  The gate of the toolchain
\* derivations takes an unreadable file for an absent one.
GateRetried(n, a) ==
  /\ NextGate(n, a)
  /\ a \notin flagged[n]
  /\ Fault
  /\ IF a = "drvs" THEN Open(n, a) ELSE UNCHANGED opened
  /\ IF FlaggedFirst(a) THEN Flag(n, a) ELSE UNCHANGED flagged
  /\ UNCHANGED <<file, sidecar, store, mode, status, job, step, broken, evalVars>>

\* Another node broke a gate this task waits for.
GiveUpGates(n) ==
  /\ job[n] \in Variant \cup {"dep"} /\ step[n] = "gates"
  /\ Gates(job[n]) \cap broken # {}
  /\ Finish(n, "failed") /\ NoFault
  /\ UNCHANGED <<file, sidecar, store, gateVars, evalVars>>

GatesPassed(n) ==
  /\ At(n, Variant \cup {"dep"}, "gates")
  /\ Gates(job[n]) \subseteq opened[n] /\ Gates(job[n]) \cap broken = {}
  /\ GoTo(n, IF mode.noSubstituters THEN "assert" ELSE "build") /\ NoFault
  /\ UNCHANGED <<file, sidecar, store, gateVars, evalVars>>

-------------------------------------------------------------------------------
\* build_worker.

\* The closures a build reads: what its gates import and its derivation.
Inputs(t) == Gates(t) \cup (IF t = "dep" THEN {DepBinary} ELSE {})

\* What a dry run would fetch or rebuild.
Offenders(n) == Inputs(job[n]) \ store[n]

AssertNoSubstitute(n) ==
  /\ At(n, Variant \cup {"dep"}, "assert")
  /\ IF Offenders(n) = {} THEN GoTo(n, "build") ELSE Finish(n, "waiting")
  /\ NoFault
  /\ UNCHANGED <<file, sidecar, store, gateVars, evalVars>>

\* What is missing comes from the peers, before the build or by nix itself.
Prefetched(n) == Inputs(job[n])

NixBuild(n) ==
  /\ At(n, Variant \cup {"dep"}, "build")
  /\ Gain(n, Prefetched(n) \cup (IF job[n] = "dep" THEN {"common_dep"} ELSE {}))
  /\ GoTo(n, "publish") /\ NoFault
  /\ UNCHANGED <<file, sidecar, gateVars, evalVars>>

\* The retries inside build_attr are exhausted, or the error is another one.
BuildFails(n) ==
  /\ At(n, Variant \cup {"dep"}, "build")
  /\ Fault /\ Finish(n, "failed")
  /\ UNCHANGED <<file, sidecar, store, gateVars, evalVars>>

\* An archive that is there already is kept.
PublishCommonDep == Export("common_dep")

\* A variant stages its output; the shared dependency is archived for the others.
\* Only the former is an error when it fails.
PublishBuild(n) ==
  /\ At(n, Variant \cup {"dep"}, "publish")
  /\ \/ /\ NoFault /\ Finish(n, "done")
        /\ IF job[n] = "dep" THEN PublishCommonDep ELSE UNCHANGED file
     \/ /\ Fault /\ Finish(n, IF job[n] = "dep" THEN "done" ELSE "failed")
        /\ UNCHANGED file
  /\ UNCHANGED <<sidecar, store, gateVars, evalVars>>

BuildStep(n) ==
  \/ \E a \in Archive : PassGate(n, a) \/ ImportGate(n, a) \/ GateFails(n, a)
  \/ GiveUpGates(n)
  \/ GatesPassed(n)
  \/ AssertNoSubstitute(n)
  \/ NixBuild(n)
  \/ PublishBuild(n)

PipelineFault(n) ==
  \/ StepFails(n)
  \/ BuildFails(n)
  \/ \E a \in Archive : GateRetried(n, a)
  \/ NodeDies(n) /\ UNCHANGED evalVars

PipelineNext == \E n \in Node :
  \/ \E t \in Task : Assign(n, t) /\ UNCHANGED evalVars
  \/ EarlyStep(n)
  \/ BuildStep(n)
  \/ PipelineFault(n)

\* A worker that has a task goes on with it, and waiting tasks are assigned.
PipelineFairness == \A n \in Node :
  /\ WF_pipelineVars(EarlyStep(n) \/ BuildStep(n))
  /\ WF_pipelineVars(\E t \in Task : Assign(n, t) /\ UNCHANGED evalVars)

PipelineSpec == EarlyInit /\ [][PipelineNext]_pipelineVars /\ PipelineFairness

-------------------------------------------------------------------------------
\* What must hold.

BuildingVariant(n) == job[n] \in Variant /\ step[n] \in {"assert", "build", "publish"}

(* The derivations a variant is built from are in the node's store when it *)
(* starts, whatever failed before: the gate of its binary is flagged only  *)
(* after an import, which in turn needs the toolchain derivations.  The    *)
(* other gates may open without an import, but only after an OSError (or   *)
(* for an archive of toolchain derivations that is not there).             *)
BuildsSeeTheirGraph == \A n \in Node :
  /\ BuildingVariant(n) => {"drvs", Pkg[job[n]]} \subseteq store[n]
  /\ \A a \in opened[n] \ store[n] : FlaggedFirst(a) /\ (faults > 0 \/ ~Whole(a))

(* Gates are served in an order their archives can be imported in, and     *)
(* after these were uploaded: only faults break a gate, or the race of the *)
(* build tasks with the archive of build inputs that follows their stream, *)
(* or a toolchain whose rest was empty.                                    *)
HealthyGatesOpen ==
  faults = 0 => broken \subseteq {"build_deps"} \cup (Toolchain \ SplitArchives(Toolchain))

(* "Archives are pre-staged on the shared FS before dispatch" (suit_task): *)
(* without faults no import gate breaks in a run that does not archive the *)
(* build inputs, whatever the number of toolchains.  It is not so with one.*)
GatesAreStaged == faults = 0 /\ ~mode.buildDepsLocal => broken = {}

(* No binary drops out of the plan unnoticed: when the dependency graph    *)
(* succeeds in a run that evaluates, every configured binary was evaluated,*)
(* has variants, and all of them were spawned.                             *)
PlanCoversEveryBinary ==
  status["graph"] = "done" /\ ~mode.prestaged =>
    \A b \in Binary : kept[b] # {} /\ \A v \in kept[b] : status[v] # "absent"

(* In a run without faults and races every variant that was kept is built, *)
(* unless the dependency graph rejects its inputs.                         *)
EveryVariantIsBuilt ==
  <>(\/ faults > 0 \/ broken # {} \/ status["graph"] = "failed"
     \/ mode.noSubstituters
     \/ status["graph"] = "done" /\ Succeeded(Planned))
=============================================================================

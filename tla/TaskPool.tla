-------------------------------- MODULE TaskPool --------------------------------
(***************************************************************************)
(* The framework that runs the tasks, modelled from how this code uses it. *)
(* Every node has one worker.  A task that raises NonRecoverableError has  *)
(* failed for good, one that raises RecoverableError or whose node dies    *)
(* waits again.  Before a build task starts on a node, the import gates it *)
(* depends on run there, once per node, in the order they are listed.      *)
(***************************************************************************)
EXTENDS ArchiveStore

CONSTANTS
  Variant,     \* the variants that may be built
  Pkg, Tc,     \* the binary and the toolchain of each variant
  DepBinary,   \* the binary whose derivations contain the shared dependency
  Modes        \* the configurations of a run

ASSUME VariantAssumption ==
  /\ Pkg \in [Variant -> Binary] /\ Tc \in [Variant -> Toolchain]
  /\ DepBinary \in Binary
  /\ Variant \cap (Binary \cup Toolchain) = {}
  /\ (Variant \cup Binary \cup Toolchain) \cap {"graph", "dep", "idle"} = {}
  /\ Modes \subseteq [prestaged : BOOLEAN, buildDepsLocal : BOOLEAN, noSubstituters : BOOLEAN]

VARIABLES
  mode,    \* the configuration of this run
  status,  \* status[t]: what the primary knows of task t
  job,     \* job[n]: the task the worker of n runs, or "idle"
  step,    \* step[n]: the step of that task that comes next
  flagged, \* flagged[n]: the archives n's process holds for imported
  opened,  \* opened[n]: the gates the framework has passed on n
  broken   \* the gates that failed, for every node

poolVars == <<mode, status, job, step, flagged, opened, broken>>
gateVars == <<flagged, opened, broken>>

Task == Toolchain \cup Binary \cup {"graph", "dep"} \cup Variant
Steps == {"start", "realise", "import", "export", "record", "plan", "inputs",
          "gates", "assert", "build", "publish"}

PoolTypeOK ==
  /\ mode \in Modes
  /\ status \in [Task -> {"absent", "waiting", "running", "done", "failed"}]
  /\ job \in [Node -> Task \cup {"idle"}]
  /\ step \in [Node -> Steps]
  /\ flagged \in [Node -> SUBSET Archive]
  /\ opened \in [Node -> SUBSET Archive]
  /\ broken \subseteq Archive

Ended(tasks) == \A t \in tasks : status[t] \in {"absent", "done", "failed"}
Succeeded(tasks) == \A t \in tasks : status[t] = "done"

\* The phases BUILD_COMPILERS, MATRIX_EVAL and DEPENDENCY_GRAPH follow each other;
\* BUILD has no barrier and its tasks wait for what they depend on only.
PhaseOpen(t) ==
  CASE t \in Binary -> Ended(Toolchain)
    [] t = "graph" -> Ended(Toolchain \cup Binary)
    [] OTHER -> TRUE

Predecessors(t) ==
  CASE t = "graph" /\ ~mode.prestaged -> Binary
    [] t \in Variant -> {"dep"}
    [] OTHER -> {}

\* The import gates of a build task.
Gates(t) ==
  IF t \in Variant \cup {"dep"}
  THEN {"common", "drvs"} \cup (IF mode.buildDepsLocal THEN {"build_deps"} ELSE {})
       \cup (IF t = "dep" THEN {} ELSE {"common_dep", Tc[t], Pkg[t]})
  ELSE {}

\* The gates of the archives known at the start, and one with each shared dependency.
GateEmitted(a) ==
  CASE a = "build_deps" -> mode.buildDepsLocal
    [] a = "common_dep" -> status["dep"] # "absent"
    [] OTHER -> TRUE

\* A mutant: the toolchain's delta is listed in front of the common closure.
ListedDeltaFirst(t, a) == IF a \in Toolchain THEN {} ELSE Gates(t) \cap ({"build_deps", "drvs"} \ {a})

\* _header_depends_on lists the gates in this order.
ListedBefore(t, a) ==
  Gates(t) \cap
  CASE a = "common" -> {}
    [] a = "build_deps" -> {"common"}
    [] a = "drvs" -> {"common", "build_deps"}
    [] a = "common_dep" -> {"common", "build_deps", "drvs"}
    [] a \in Toolchain -> {"common", "build_deps", "drvs", "common_dep"}
    [] OTHER -> {"common", "build_deps", "drvs", "common_dep"} \cup Toolchain

Ready(t) ==
  /\ status[t] = "waiting"
  /\ PhaseOpen(t) /\ Succeeded(Predecessors(t))
  /\ \A a \in Gates(t) : GateEmitted(a) /\ a \notin broken

Assign(n, t) ==
  /\ job[n] = "idle" /\ Ready(t)
  /\ job' = [job EXCEPT ![n] = t]
  /\ step' = [step EXCEPT ![n] = IF t \in Variant \cup {"dep"} THEN "gates" ELSE "start"]
  /\ status' = [status EXCEPT ![t] = "running"]
  /\ UNCHANGED <<storeVars, mode, gateVars>>

At(n, tasks, s) == job[n] \in tasks /\ step[n] = s

GoTo(n, s) ==
  /\ step' = [step EXCEPT ![n] = s]
  /\ UNCHANGED <<mode, status, job>>

Finish(n, how) ==
  /\ status' = [status EXCEPT ![job[n]] = how]
  /\ job' = [job EXCEPT ![n] = "idle"]
  /\ UNCHANGED <<mode, step>>

\* The node is lost with its store and processes and replaced by a fresh one.
NodeDies(n) ==
  /\ Fault
  /\ store[n] # {} \/ job[n] # "idle"
  /\ status' = [t \in Task |-> IF t = job[n] THEN "waiting" ELSE status[t]]
  /\ job' = [job EXCEPT ![n] = "idle"]
  /\ store' = [store EXCEPT ![n] = {}]
  /\ flagged' = [flagged EXCEPT ![n] = {}]
  /\ opened' = [opened EXCEPT ![n] = {}]
  /\ UNCHANGED <<file, sidecar, mode, step, broken>>
=============================================================================

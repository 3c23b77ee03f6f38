----------------------------- MODULE StreamedSpawn -----------------------------
(***************************************************************************)
(* The hand-off from the dependency_graph phase to the build phase.        *)
(*                                                                         *)
(* One dependency_graph worker plans the run and streams its descriptors   *)
(* to the primary as batch messages closed by a summary; the secondary's   *)
(* worker_message_listener relays them; on the primary                     *)
(* custom_message_handler spawns a build task per descriptor, plus one     *)
(* import gate per shared dependency, and on_phase_end compares what was   *)
(* counted with what the summary announces.                                *)
(*                                                                         *)
(* Descriptors are numbered 1..PlanSize in stream order: the planner emits *)
(* every common_dep before the first variant (plan_phase4_from_graph).     *)
(* The framework (task table, message transport, phases, promotion) is not *)
(* part of the repository; it is modelled from how the code uses it.       *)
(***************************************************************************)
EXTENDS Integers, FiniteSets

CONSTANTS
  PlanSize,    \* descriptors in the plan
  CommonDeps,  \* the descriptors that are common_deps, an initial segment
  Needs,       \* Needs[d]: the common_deps descriptor d lists in depends_on
  GateIds,     \* ids of import_common_dep gates
  GateOf,      \* GateOf[c]: the gate id derived from c's store hash
  Config,      \* the SuitTaskConfig flags that shape the build tasks
  InOrder,     \* whether the transport keeps the order of one run's messages
  EarlyEnd,    \* whether the phase may end with messages still unhandled
  Repack,      \* whether a retried worker may cut the plan into other batches
  MaxRuns,     \* bound: runs served by one SuitTask instance
  Budget       \* Budget[f]: bound on the faults of kind f in one run

Plan == 1..PlanSize

FaultKinds ==
  {"lost",      \* a message never reaches the primary
   "raised",    \* a handler raises: the message is terminally Failed
   "died",      \* the worker process dies and the task is dispatched again
   "failed",    \* the dependency_graph task fails for good
   "promoted",  \* the primary dies and another secondary takes over
   "early"}     \* the phase ends with messages still unhandled

ASSUME PlanAssumption ==
  /\ PlanSize \in Nat
  /\ \E k \in 0..PlanSize : CommonDeps = 1..k
  /\ Needs \in [Plan -> SUBSET CommonDeps]
  /\ \A c \in CommonDeps : Needs[c] = {}
  /\ GateOf \in [CommonDeps -> GateIds]

ASSUME ConfigAssumption ==
  Config \in [toolchain_outpaths : BOOLEAN, build_deps_local : BOOLEAN,
              common_deps_affine : BOOLEAN, disable_task_deps : BOOLEAN]

ASSUME BoundAssumption ==
  /\ InOrder \in BOOLEAN /\ EarlyEnd \in BOOLEAN /\ Repack \in BOOLEAN
  /\ MaxRuns \in Nat \ {0}
  /\ Budget \in [FaultKinds -> Nat]

VARIABLES
  phase,     \* the dependency_graph phase: "idle", "running", "ended"
  worker,    \* the task's worker: stage, descriptors and batches sent
  cuts,      \* last descriptor of each batch
  inflight,  \* messages relayed and not handled
  sends,     \* number of messages sent in this run; gives each an identity
  spawned,   \* descriptors the framework holds a build task for
  gates,     \* import_common_dep gates the framework holds a task for
  primary,   \* the SuitTask attributes on the current primary
  verdict,   \* outcome of on_phase_end
  counted,   \* history: descriptors in batches this primary has handled
  faults,    \* faults[f]: faults of kind f in this run
  run

vars == <<phase, worker, cuts, inflight, sends, spawned, gates, primary, verdict,
          counted, faults, run>>

NoFaults == [f \in FaultKinds |-> 0]
MayFail(f) == faults[f] < Budget[f]
Record(f) == faults' = [faults EXCEPT ![f] = @ + 1]

-------------------------------------------------------------------------------
\* The tasks the primary makes of descriptors.

\* A mutant: the build-deps gate is left to the legacy flow without archives.
DiscoveredNoBuildDeps ==
  {"import_toolchain_drv"}
    \cup (IF Config.toolchain_outpaths THEN {"import_common"} ELSE {})

\* Import gates emitted at discovery time, whatever is streamed later.
Discovered ==
  {"import_toolchain_drv"}
    \cup (IF Config.toolchain_outpaths THEN {"import_common"} ELSE {})
    \cup (IF Config.toolchain_outpaths /\ Config.build_deps_local
            THEN {"import_build_deps"} ELSE {})

\* Discovery-time gates that every streamed build task names.
NamedImports ==
  IF Config.disable_task_deps THEN {}
  ELSE {"import_toolchain_drv", "import_common"}
         \cup (IF Config.build_deps_local THEN {"import_build_deps"} ELSE {})

GatesEnabled == Config.common_deps_affine /\ ~Config.disable_task_deps

NamedDeps(d) == IF Config.disable_task_deps THEN {} ELSE Needs[d]
NamedGates(d) == IF GatesEnabled THEN {GateOf[c] : c \in Needs[d]} ELSE {}

\* A mutant: one gate already noted suppresses all the gates of the batch.
NewGatesAllOrNone(batch) ==
  IF GatesEnabled /\ {GateOf[c] : c \in batch \cap CommonDeps} \cap primary.gateIds = {}
    THEN {GateOf[c] : c \in batch \cap CommonDeps}
    ELSE {}

\* Gates a batch adds: one per shared dependency not yet gated by this primary.
NewGates(batch) ==
  IF GatesEnabled
    THEN {GateOf[c] : c \in batch \cap CommonDeps} \ primary.gateIds
    ELSE {}

\* The framework rejects a task that names a task it does not know (reported as
\* unknown_dependency, logged by _log_spawn_errors) and keeps the others.
AcceptedDeps(batch) ==
  {c \in batch \cap CommonDeps : NamedImports \subseteq Discovered}

AcceptedGates(batch) ==
  {g \in NewGates(batch) :
     \E c \in batch \cap CommonDeps : GateOf[c] = g /\ c \in spawned \cup AcceptedDeps(batch)}

AcceptedVariants(batch) ==
  {d \in batch \ CommonDeps :
     /\ NamedImports \subseteq Discovered
     /\ NamedDeps(d) \subseteq spawned \cup AcceptedDeps(batch)
     /\ NamedGates(d) \subseteq gates \cup AcceptedGates(batch)}

-------------------------------------------------------------------------------
\* Messages.

BatchMessage(id, first, last) ==
  [id |-> id, kind |-> "batch", first |-> first, last |-> last]
SummaryMessage(id, total, batches) ==
  [id |-> id, kind |-> "summary", total |-> total, batches |-> batches]

Batches == {m \in inflight : m.kind = "batch"}
Summaries == {m \in inflight : m.kind = "summary"}

Deliverable(m) == InOrder => \A other \in inflight : m.id <= other.id

-------------------------------------------------------------------------------
IdleWorker == [stage |-> "waiting", sent |-> 0, batches |-> 0]

\* A SuitTask as its constructor leaves it; the handle comes with on_run_start.
FreshPrimary(handle) ==
  [count |-> 0, summary |-> {}, gateIds |-> {}, handle |-> handle]

Cuts == {S \in SUBSET Plan : PlanSize > 0 => PlanSize \in S}

Init ==
  /\ phase = "idle"
  /\ worker = IdleWorker
  /\ cuts \in Cuts
  /\ inflight = {}
  /\ sends = 0
  /\ spawned = {}
  /\ gates = {}
  /\ \E handle \in BOOLEAN : primary = FreshPrimary(handle)
  /\ verdict = "open"
  /\ counted = {}
  /\ faults = NoFaults
  /\ run = 1

\* Mutants: a phase start that resets nothing, and one that forgets the gate ids.
PhaseStartKeepsAll ==
  /\ phase = "idle"
  /\ phase' = "running"
  /\ UNCHANGED <<worker, cuts, inflight, sends, spawned, gates, primary, verdict, counted,
                 faults, run>>

PhaseStartKeepsGates ==
  /\ phase = "idle"
  /\ phase' = "running"
  /\ primary' = [FreshPrimary(primary.handle) EXCEPT !.gateIds = primary.gateIds]
  /\ UNCHANGED <<worker, cuts, inflight, sends, spawned, gates, verdict, counted,
                 faults, run>>

\* on_phase_start("dependency_graph"): every run starts its stream from zero.
PhaseStart ==
  /\ phase = "idle"
  /\ phase' = "running"
  /\ primary' = FreshPrimary(primary.handle)
  /\ UNCHANGED <<worker, cuts, inflight, sends, spawned, gates, verdict, counted,
                 faults, run>>

-------------------------------------------------------------------------------
\* The worker.

StartStream ==
  /\ phase = "running"
  /\ worker.stage = "waiting"
  /\ worker' = [worker EXCEPT !.stage = "streaming"]
  /\ UNCHANGED <<phase, cuts, inflight, sends, spawned, gates, primary, verdict,
                 counted, faults, run>>

NextCut(last) ==
  /\ last > worker.sent
  /\ \A other \in cuts : other > worker.sent => last <= other

\* A mutant: batches of a fixed size, the last one not clipped to the plan.
SendBatchUnclipped ==
  /\ worker.stage = "streaming"
  /\ worker.sent < PlanSize
  /\ LET last == worker.sent + 3
     IN  /\ inflight' = inflight \cup {BatchMessage(sends, worker.sent + 1, last)}
         /\ worker' = [worker EXCEPT !.sent = last, !.batches = @ + 1]
  /\ sends' = sends + 1
  /\ UNCHANGED <<phase, cuts, spawned, gates, primary, verdict, counted, faults, run>>

\* One batch of _stream_descriptors, relayed by the secondary's listener.
SendBatch ==
  /\ worker.stage = "streaming"
  /\ worker.sent < PlanSize
  /\ \E last \in cuts :
       /\ NextCut(last)
       /\ inflight' = inflight \cup {BatchMessage(sends, worker.sent + 1, last)}
       /\ worker' = [worker EXCEPT !.sent = last, !.batches = @ + 1]
  /\ sends' = sends + 1
  /\ UNCHANGED <<phase, cuts, spawned, gates, primary, verdict, counted, faults, run>>

SendSummary ==
  /\ worker.stage = "streaming"
  /\ worker.sent = PlanSize
  /\ inflight' = inflight \cup {SummaryMessage(sends, worker.sent, worker.batches)}
  /\ worker' = [worker EXCEPT !.stage = "summarised"]
  /\ sends' = sends + 1
  /\ UNCHANGED <<phase, cuts, spawned, gates, primary, verdict, counted, faults, run>>

\* The build-deps archive and the output files follow the stream.
WorkerDone ==
  /\ worker.stage = "summarised"
  /\ worker' = [worker EXCEPT !.stage = "done"]
  /\ UNCHANGED <<phase, cuts, inflight, sends, spawned, gates, primary, verdict,
                 counted, faults, run>>

WorkerActive == phase = "running" /\ worker.stage \in {"waiting", "streaming", "summarised"}

\* An exception in the task: run_dependency_graph_task fails it for good.
WorkerFails ==
  /\ WorkerActive
  /\ MayFail("failed")
  /\ Record("failed")
  /\ worker' = [worker EXCEPT !.stage = "failed"]
  /\ UNCHANGED <<phase, cuts, inflight, sends, spawned, gates, primary, verdict,
                 counted, run>>

\* The process dies; the framework runs the task again, from the beginning of
\* the plan and with nothing reset on the primary.
WorkerDies ==
  /\ WorkerActive
  /\ MayFail("died")
  /\ Record("died")
  /\ worker' = IdleWorker
  /\ cuts' \in IF Repack THEN Cuts ELSE {cuts}
  /\ UNCHANGED <<phase, inflight, sends, spawned, gates, primary, verdict, counted, run>>

-------------------------------------------------------------------------------
\* The transport and the primary.

LoseMessage ==
  /\ MayFail("lost")
  /\ Record("lost")
  /\ \E m \in inflight : inflight' = inflight \ {m}
  /\ UNCHANGED <<phase, worker, cuts, sends, spawned, gates, primary, verdict, counted, run>>

\* A mutant: import gates are counted as if the worker had streamed them.
HandleBatchCountsGates ==
  \E m \in Batches :
    /\ Deliverable(m)
    /\ LET batch == m.first..m.last
       IN  /\ spawned' = spawned \cup AcceptedDeps(batch) \cup AcceptedVariants(batch)
           /\ gates' = gates \cup AcceptedGates(batch)
           /\ primary' = [primary EXCEPT
                 !.count = @ + (m.last - m.first + 1) + Cardinality(NewGates(batch)),
                 !.gateIds = @ \cup NewGates(batch)]
           /\ counted' = counted \cup batch
    /\ inflight' = inflight \ {m}
    /\ UNCHANGED <<phase, worker, cuts, sends, verdict, faults, run>>

\* custom_message_handler on a spawn_batch.  The count is of the tasks handed to
\* spawn_tasks, accepted or not.
HandleBatch ==
  \E m \in Batches :
    /\ Deliverable(m)
    /\ LET batch == m.first..m.last
       IN  /\ spawned' = spawned \cup AcceptedDeps(batch) \cup AcceptedVariants(batch)
           /\ gates' = gates \cup AcceptedGates(batch)
           /\ primary' = [primary EXCEPT !.count = @ + (m.last - m.first + 1),
                                         !.gateIds = @ \cup NewGates(batch)]
           /\ counted' = counted \cup batch
    /\ inflight' = inflight \ {m}
    /\ UNCHANGED <<phase, worker, cuts, sends, verdict, faults, run>>

\* A handler that raises: on an undecodable payload or without a usable handle,
\* or in spawn_tasks, when the ids of the batch's new gates are already noted.
\* The framework discards the handler's effects and never retries the message.
HandlerRaises ==
  /\ MayFail("raised")
  /\ Record("raised")
  /\ \E m \in inflight :
       /\ Deliverable(m)
       /\ inflight' = inflight \ {m}
       /\ \/ UNCHANGED primary
          \/ /\ m.kind = "batch"
             /\ primary' = [primary EXCEPT !.gateIds = @ \cup NewGates(m.first..m.last)]
  /\ UNCHANGED <<phase, worker, cuts, sends, spawned, gates, verdict, counted, run>>

SummaryOf(m) == [total |-> m.total, batches |-> m.batches]

\* custom_message_handler on the summary: the first one is recorded, an identical
\* one is ignored.
HandleSummary ==
  \E m \in Summaries :
    /\ Deliverable(m)
    /\ primary.summary \subseteq {SummaryOf(m)}
    /\ primary' = [primary EXCEPT !.summary = {SummaryOf(m)}]
    /\ inflight' = inflight \ {m}
    /\ UNCHANGED <<phase, worker, cuts, sends, spawned, gates, verdict, counted, faults, run>>

\* A mutant: the contradicting summary stays unhandled and is offered again.
ConflictingSummaryKept ==
  \E m \in Summaries :
    /\ Deliverable(m)
    /\ ~(primary.summary \subseteq {SummaryOf(m)})
    /\ UNCHANGED vars

\* A summary that contradicts the recorded one raises.
ConflictingSummary ==
  \E m \in Summaries :
    /\ Deliverable(m)
    /\ ~(primary.summary \subseteq {SummaryOf(m)})
    /\ inflight' = inflight \ {m}
    /\ UNCHANGED <<phase, worker, cuts, sends, spawned, gates, primary, verdict,
                   counted, faults, run>>

\* Another node becomes primary: a SuitTask of its own, the framework's tasks and
\* the unhandled messages.  It may or may not be given a primary handle.
PromotePrimary ==
  /\ phase = "running"
  /\ MayFail("promoted")
  /\ Record("promoted")
  /\ \E handle \in BOOLEAN : primary' = FreshPrimary(handle)
  /\ counted' = {}
  /\ UNCHANGED <<phase, worker, cuts, inflight, sends, spawned, gates, verdict, run>>

-------------------------------------------------------------------------------
\* on_phase_end("dependency_graph"): the reconciliation barrier.

\* A mutant: no summary, no objection.
ReconciledWithoutSummary == \A s \in primary.summary : primary.count = s.total

Reconciled == \E s \in primary.summary : primary.count = s.total

\* A mutant: without a handle the barrier reports success.
PhaseEndPassesUnbound ==
  /\ phase = "running"
  /\ worker.stage \in {"done", "failed"}
  /\ phase' = "ended"
  /\ IF inflight = {} THEN UNCHANGED faults
     ELSE EarlyEnd /\ MayFail("early") /\ Record("early")
  /\ verdict' = IF ~primary.handle \/ Reconciled THEN "passed" ELSE "raised"
  /\ UNCHANGED <<worker, cuts, inflight, sends, spawned, gates, primary, counted, run>>

PhaseEnd ==
  /\ phase = "running"
  /\ worker.stage \in {"done", "failed"}
  /\ phase' = "ended"
  /\ IF inflight = {} THEN UNCHANGED faults
     ELSE EarlyEnd /\ MayFail("early") /\ Record("early")
  /\ verdict' = IF ~primary.handle THEN "skipped"
                ELSE IF Reconciled THEN "passed" ELSE "raised"
  /\ UNCHANGED <<worker, cuts, inflight, sends, spawned, gates, primary, counted, run>>

\* The same SuitTask instance serves another run.
RunRestart ==
  /\ phase = "ended"
  /\ run < MaxRuns
  /\ run' = run + 1
  /\ phase' = "idle"
  /\ worker' = IdleWorker
  /\ cuts' \in Cuts
  /\ inflight' = {}
  /\ sends' = 0
  /\ spawned' = {}
  /\ gates' = {}
  /\ verdict' = "open"
  /\ counted' = {}
  /\ faults' = NoFaults
  /\ UNCHANGED primary

-------------------------------------------------------------------------------
WorkerNext == StartStream \/ SendBatch \/ SendSummary \/ WorkerDone
PrimaryNext == HandleBatch \/ HandleSummary \/ ConflictingSummary
PhaseNext == PhaseStart \/ PhaseEnd
FaultNext == WorkerFails \/ WorkerDies \/ LoseMessage \/ HandlerRaises \/ PromotePrimary

Next == WorkerNext \/ PrimaryNext \/ PhaseNext \/ FaultNext \/ RunRestart

Spec == Init /\ [][Next]_vars

\* The worker is a running process, the framework keeps delivering what it holds
\* and opens and closes phases; no fault is ever obliged to happen, a phase that
\* ends with messages unhandled included.
Fairness ==
  /\ WF_vars(WorkerNext)
  /\ WF_vars(PrimaryNext)
  /\ WF_vars(PhaseStart)
  /\ WF_vars(inflight = {} /\ PhaseEnd)

FairSpec == Spec /\ Fairness
-------------------------------------------------------------------------------
\* Properties.

Ids == 0..(sends - 1)

Messages ==
  [id : Ids, kind : {"batch"}, first : Plan, last : Plan]
    \cup [id : Ids, kind : {"summary"}, total : Nat, batches : Nat]

TypeOK ==
  /\ phase \in {"idle", "running", "ended"}
  /\ worker \in [stage : {"waiting", "streaming", "summarised", "done", "failed"},
                 sent : 0..PlanSize, batches : Nat]
  /\ cuts \in Cuts
  /\ inflight \subseteq Messages
  /\ sends \in Nat
  /\ spawned \subseteq Plan
  /\ gates \subseteq GateIds
  /\ primary \in [count : Nat, summary : SUBSET [total : Nat, batches : Nat],
                  gateIds : SUBSET GateIds, handle : BOOLEAN]
  /\ verdict \in {"open", "passed", "raised", "skipped"}
  /\ counted \subseteq Plan
  /\ faults \in [FaultKinds -> Nat]
  /\ run \in 1..MaxRuns

\* Batches under way are disjoint pieces of what was sent, none of them counted.
PiecesUnderWay ==
  \A m \in Batches :
    /\ m.last <= worker.sent
    /\ (m.first..m.last) \cap counted = {}
    /\ \A n \in Batches : m # n => (m.first..m.last) \cap (n.first..n.last) = {}

\* The count is the number of descriptors counted, not of times they were.
CountIsExact ==
  /\ counted \subseteq 1..worker.sent
  /\ phase # "idle" => primary.count = Cardinality(counted)

\* Every summary announces the whole plan.
SummariesTruthful ==
  /\ \A m \in Summaries : m.total = PlanSize
  /\ phase # "idle" => \A s \in primary.summary : s.total = PlanSize

\* Nothing of a run happens before its phase starts; its end gives the verdict.
PhasesSeparate ==
  /\ phase = "idle" => worker = IdleWorker /\ inflight = {} /\ counted = {}
  /\ (phase = "ended") = (verdict # "open")

\* What the barrier's arithmetic rests on as long as the worker is not restarted
\* within the run (on_phase_start: a retry "restreams without a reset").
Accounting == PiecesUnderWay /\ CountIsExact /\ SummariesTruthful /\ PhasesSeparate

\* on_phase_end lets the build phase start only if this primary has handled every
\* descriptor of the plan: "a lost batch (or a missing summary) fails loudly
\* instead of silently under-spawning".
PassedMeansHandled == verdict = "passed" => counted = Plan

\* ... and then the framework holds a task for each of them, and an import gate
\* for each shared dependency they name.
PassedMeansSpawned ==
  verdict = "passed" =>
    /\ spawned = Plan
    /\ GatesEnabled => gates = {GateOf[c] : c \in CommonDeps}

\* The barrier raises only when something went wrong in this run: whatever an
\* earlier run left in the SuitTask instance does not disturb the next one.
NoFalseAlarm == verdict = "raised" => faults # NoFaults

\* No build task is ever turned away for naming a task the framework does not
\* know: a handled descriptor is a spawned one ("no dangling dependency").
HandledIsSpawned == counted \subseteq spawned

\* A gate noted as spawned, and therefore never emitted again in this run, is a
\* gate the framework holds.
GateNeverForgotten == phase # "idle" => primary.gateIds \subseteq gates

\* Every started phase is concluded, and a run without faults by a barrier that
\* passes (or is not there): streaming never blocks or fails the run by itself.
EveryRunConcludes ==
  phase = "running" ~>
    /\ phase = "ended"
    /\ verdict = "raised" => faults # NoFaults

Contract == INSTANCE Handoff WITH tasks <- spawned, outcome <- verdict

RefinesHandoff == Contract!Spec
===============================================================================

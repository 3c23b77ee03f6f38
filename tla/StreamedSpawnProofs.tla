-------------------------- MODULE StreamedSpawnProofs --------------------------
(***************************************************************************)
(* Proofs about StreamedSpawn, for every plan, every batching and every    *)
(* budget of faults: type correctness; when the worker is never restarted  *)
(* within a run, that the barrier only passes when every descriptor has    *)
(* been handled; when no message is lost and no handler raises, that the   *)
(* framework holds whatever was handled, that all of the plan is spawned   *)
(* when the barrier passes, restarts included, and that the hand-off       *)
(* implements Handoff; and that the barrier never raises in a run without  *)
(* faults.                                                                 *)
(***************************************************************************)
EXTENDS StreamedSpawn, FiniteSetTheorems, TLAPS

\* Batches are never empty; without this the count would not even be a number.
BatchesNonEmpty == \A m \in Batches : m.first <= m.last

TypeInv == TypeOK /\ BatchesNonEmpty

\* The plan, and the shared dependencies in it.
LEMMA PlanFacts ==
  /\ CommonDeps \subseteq Plan
  /\ PlanSize \in Nat
  /\ \A c \in CommonDeps : GateOf[c] \in GateIds
BY PlanAssumption DEF Plan

\* What the type invariant says of the messages under way.
LEMMA MessageFacts ==
  ASSUME TypeInv
  PROVE  /\ \A m \in Batches : /\ m \in inflight /\ m.kind = "batch"
                               /\ m.first \in Plan /\ m.last \in Plan /\ m.first <= m.last
                               /\ m.first..m.last \subseteq Plan
         /\ \A m \in Summaries : /\ m \in inflight /\ m.kind = "summary"
                                 /\ m.total \in Nat /\ m.batches \in Nat
<1>1. ASSUME NEW m \in Batches
      PROVE  /\ m \in inflight /\ m.kind = "batch"
             /\ m.first \in Plan /\ m.last \in Plan /\ m.first <= m.last
             /\ m.first..m.last \subseteq Plan
  <2>1. m \in inflight /\ m.kind = "batch"
    BY DEF Batches
  <2>2. m \in Messages
    BY <2>1 DEF TypeInv, TypeOK
  <2>3. m.first \in Plan /\ m.last \in Plan
    BY <2>1, <2>2 DEF Messages
  <2>4. m.first..m.last \subseteq Plan
    BY <2>3, PlanFacts DEF Plan
  <2> QED BY <2>1, <2>3, <2>4 DEF TypeInv, BatchesNonEmpty
<1>2. ASSUME NEW m \in Summaries
      PROVE  /\ m \in inflight /\ m.kind = "summary"
             /\ m.total \in Nat /\ m.batches \in Nat
  <2>1. m \in inflight /\ m.kind = "summary"
    BY DEF Summaries
  <2>2. m \in Messages
    BY <2>1 DEF TypeInv, TypeOK
  <2> QED BY <2>1, <2>2 DEF Messages
<1> QED BY <1>1, <1>2

\* A batch adds tasks of the plan and gates of its shared dependencies.
LEMMA AcceptedFacts ==
  ASSUME NEW batch, batch \subseteq Plan
  PROVE  /\ AcceptedDeps(batch) \subseteq batch
         /\ AcceptedVariants(batch) \subseteq batch
         /\ NewGates(batch) \subseteq GateIds
         /\ AcceptedGates(batch) \subseteq NewGates(batch)
<1>1. \A c \in batch \cap CommonDeps : GateOf[c] \in GateIds
  BY PlanFacts
<1>2. NewGates(batch) \subseteq GateIds
  BY <1>1 DEF NewGates
<1> QED BY <1>2 DEF AcceptedDeps, AcceptedVariants, AcceptedGates

\* A primary that starts from zero.
LEMMA FreshFacts ==
  ASSUME NEW handle \in BOOLEAN
  PROVE  FreshPrimary(handle) \in [count : Nat, summary : SUBSET [total : Nat, batches : Nat],
                                   gateIds : SUBSET GateIds, handle : BOOLEAN]
BY DEF FreshPrimary

\* The initial states are well typed.
LEMMA InitType == Init => TypeInv
<1> SUFFICES ASSUME Init PROVE TypeInv
  OBVIOUS
<1>1. primary \in [count : Nat, summary : SUBSET [total : Nat, batches : Nat],
                   gateIds : SUBSET GateIds, handle : BOOLEAN]
  BY FreshFacts DEF Init
<1>2. worker \in [stage : {"waiting", "streaming", "summarised", "done", "failed"},
                  sent : 0..PlanSize, batches : Nat]
  BY PlanFacts DEF Init, IdleWorker
<1>3. inflight \subseteq Messages /\ BatchesNonEmpty
  BY DEF Init, BatchesNonEmpty, Batches
<1>4. faults \in [FaultKinds -> Nat]
  BY DEF Init, NoFaults
<1>5. run \in 1..MaxRuns
  BY BoundAssumption DEF Init
<1> QED BY <1>1, <1>2, <1>3, <1>4, <1>5 DEF TypeInv, TypeOK, Init

\* Counting a fault keeps the counters numbers.
LEMMA RecordFacts ==
  ASSUME TypeOK, NEW f \in FaultKinds, Record(f)
  PROVE  faults' \in [FaultKinds -> Nat]
BY DEF TypeOK, Record

\* Messages sent earlier remain messages, and batches remain non-empty, when
\* messages are only taken away.
LEMMA FewerMessages ==
  ASSUME TypeInv, inflight' \subseteq inflight, sends' = sends
  PROVE  inflight' \subseteq Messages' /\ BatchesNonEmpty'
BY DEF TypeInv, TypeOK, Messages, Ids, BatchesNonEmpty, Batches

\* A message is added under the next identity.
LEMMA OneMoreMessage ==
  ASSUME TypeInv, NEW m, inflight' = inflight \cup {m}, sends' = sends + 1,
         m \in [id : {sends}, kind : {"batch"}, first : Plan, last : Plan]
                 \cup [id : {sends}, kind : {"summary"}, total : Nat, batches : Nat],
         m.kind = "batch" => m.first <= m.last
  PROVE  inflight' \subseteq Messages' /\ BatchesNonEmpty'
<1>1. sends \in Nat /\ Ids \subseteq Ids' /\ sends \in Ids'
  BY DEF TypeInv, TypeOK, Ids
<1>2. Messages \subseteq Messages' /\ m \in Messages'
  BY <1>1 DEF Messages
<1>3. inflight' \subseteq Messages'
  BY <1>2 DEF TypeInv, TypeOK
<1>4. BatchesNonEmpty'
  BY DEF TypeInv, BatchesNonEmpty, Batches
<1> QED BY <1>3, <1>4

\* Type correctness of the worker's and the phase's steps.
LEMMA WorkerType ==
  TypeInv /\ (StartStream \/ SendBatch \/ SendSummary \/ WorkerDone \/ WorkerFails \/ WorkerDies)
    => TypeInv'
<1> SUFFICES ASSUME TypeInv,
                    StartStream \/ SendBatch \/ SendSummary \/ WorkerDone \/ WorkerFails \/ WorkerDies
             PROVE  TypeInv'
  OBVIOUS
<1>a. TypeOK
  BY DEF TypeInv
<1>b. PlanSize \in Nat /\ worker.sent \in 0..PlanSize /\ worker.batches \in Nat
  BY <1>a, PlanFacts DEF TypeOK
<1>1. CASE StartStream \/ WorkerDone \/ WorkerFails
  <2>1. inflight' = inflight /\ sends' = sends
    BY <1>1 DEF StartStream, WorkerDone, WorkerFails
  <2>2. inflight' \subseteq Messages' /\ BatchesNonEmpty'
    BY <2>1, FewerMessages
  <2>3. faults' \in [FaultKinds -> Nat]
    BY <1>1, <1>a, RecordFacts DEF StartStream, WorkerDone, WorkerFails, TypeOK, FaultKinds
  <2> QED BY <1>1, <1>a, <2>2, <2>3
          DEF TypeInv, TypeOK, StartStream, WorkerDone, WorkerFails
<1>2. CASE SendBatch
  <2> PICK last \in cuts :
        /\ NextCut(last)
        /\ inflight' = inflight \cup {BatchMessage(sends, worker.sent + 1, last)}
        /\ worker' = [worker EXCEPT !.sent = last, !.batches = @ + 1]
    BY <1>2 DEF SendBatch
  <2>1. last \in Plan /\ last > worker.sent
    BY <1>a DEF TypeOK, Cuts, NextCut
  <2>2. worker.sent + 1 \in Plan /\ worker.sent + 1 <= last /\ last \in 0..PlanSize
    BY <1>b, <2>1 DEF Plan
  <2>3. inflight' \subseteq Messages' /\ BatchesNonEmpty'
    BY <1>2, <2>1, <2>2, OneMoreMessage DEF SendBatch, BatchMessage
  <2>4. worker' \in [stage : {"waiting", "streaming", "summarised", "done", "failed"},
                     sent : 0..PlanSize, batches : Nat]
    <3>1. worker \in [stage : {"waiting", "streaming", "summarised", "done", "failed"},
                      sent : 0..PlanSize, batches : Nat]
      BY <1>a DEF TypeOK
    <3>2. worker.batches + 1 \in Nat
      BY <1>b
    <3> QED BY <2>2, <3>1, <3>2
  <2>5. sends' \in Nat
    <3>1. sends' = sends + 1
      BY <1>2 DEF SendBatch
    <3>2. sends \in Nat
      BY <1>a DEF TypeOK
    <3> QED BY <3>1, <3>2
  <2>6. /\ phase' = phase /\ cuts' = cuts /\ spawned' = spawned /\ gates' = gates
        /\ primary' = primary /\ verdict' = verdict /\ counted' = counted
        /\ faults' = faults /\ run' = run
    BY <1>2 DEF SendBatch
  <2>7. cuts' \in Cuts
    BY <1>a, <2>6 DEF TypeOK, Cuts
  <2> HIDE DEF NextCut
  <2> QED BY <1>a, <2>3, <2>4, <2>5, <2>6, <2>7 DEF TypeInv, TypeOK
<1>3. CASE SendSummary
  <2>1. inflight' \subseteq Messages' /\ BatchesNonEmpty'
    <3> DEFINE m == SummaryMessage(sends, worker.sent, worker.batches)
    <3>1. worker.sent \in Nat
      BY <1>b
    <3>2. m \in [id : {sends}, kind : {"summary"}, total : Nat, batches : Nat] /\ m.kind # "batch"
      BY <1>b, <3>1 DEF SummaryMessage
    <3>3. inflight' = inflight \cup {m} /\ sends' = sends + 1
      BY <1>3 DEF SendSummary
    <3> HIDE DEF m
    <3> QED BY <3>2, <3>3, OneMoreMessage
  <2>2. worker' \in [stage : {"waiting", "streaming", "summarised", "done", "failed"},
                     sent : 0..PlanSize, batches : Nat]
    BY <1>3, <1>a DEF TypeOK, SendSummary
  <2> QED BY <1>3, <1>a, <2>1, <2>2 DEF TypeInv, TypeOK, SendSummary
<1>4. CASE WorkerDies
  <2>1. inflight' \subseteq Messages' /\ BatchesNonEmpty'
    BY <1>4, FewerMessages DEF WorkerDies
  <2>2. faults' \in [FaultKinds -> Nat]
    BY <1>4, <1>a, RecordFacts DEF WorkerDies, FaultKinds
  <2>3. worker' \in [stage : {"waiting", "streaming", "summarised", "done", "failed"},
                     sent : 0..PlanSize, batches : Nat]
    BY <1>4, <1>b DEF WorkerDies, IdleWorker
  <2>4. cuts' \in Cuts
    BY <1>4, <1>a DEF WorkerDies, TypeOK, Cuts
  <2> QED BY <1>4, <1>a, <2>1, <2>2, <2>3, <2>4 DEF TypeInv, TypeOK, WorkerDies
<1> QED BY <1>1, <1>2, <1>3, <1>4

\* Type correctness of the transport's and the primary's steps.
LEMMA HandleBatchType == TypeInv /\ HandleBatch => TypeInv'
<1> SUFFICES ASSUME TypeInv, HandleBatch PROVE TypeInv'
  OBVIOUS
<1> PICK m \in Batches :
      LET batch == m.first..m.last
      IN  /\ spawned' = spawned \cup AcceptedDeps(batch) \cup AcceptedVariants(batch)
          /\ gates' = gates \cup AcceptedGates(batch)
          /\ primary' = [primary EXCEPT !.count = @ + (m.last - m.first + 1),
                                        !.gateIds = @ \cup NewGates(batch)]
          /\ counted' = counted \cup batch
          /\ inflight' = inflight \ {m}
  BY DEF HandleBatch
<1> DEFINE batch == m.first..m.last
<1>1. m.first \in Plan /\ m.last \in Plan /\ m.first <= m.last /\ batch \subseteq Plan
  BY MessageFacts
<1>2. /\ AcceptedDeps(batch) \subseteq Plan /\ AcceptedVariants(batch) \subseteq Plan
      /\ NewGates(batch) \subseteq GateIds /\ AcceptedGates(batch) \subseteq GateIds
  BY <1>1, AcceptedFacts
<1>3. m.last - m.first + 1 \in Nat
  BY <1>1 DEF Plan
<1>4. inflight' \subseteq Messages' /\ BatchesNonEmpty'
  BY FewerMessages DEF HandleBatch
<1> HIDE DEF batch
<1>5. /\ spawned' \subseteq Plan /\ gates' \subseteq GateIds /\ counted' \subseteq Plan
  BY <1>1, <1>2 DEF TypeInv, TypeOK, batch
<1>6. primary' \in [count : Nat, summary : SUBSET [total : Nat, batches : Nat],
                    gateIds : SUBSET GateIds, handle : BOOLEAN]
  <2>1. primary.count + (m.last - m.first + 1) \in Nat
    BY <1>3 DEF TypeInv, TypeOK
  <2>2. primary.gateIds \cup NewGates(batch) \subseteq GateIds
    BY <1>2 DEF TypeInv, TypeOK
  <2> QED BY <2>1, <2>2 DEF TypeInv, TypeOK, batch
<1> QED BY <1>4, <1>5, <1>6 DEF TypeInv, TypeOK, HandleBatch

LEMMA PrimaryType ==
  TypeInv /\ (LoseMessage \/ HandlerRaises \/ HandleSummary \/ ConflictingSummary \/ PromotePrimary)
    => TypeInv'
<1> SUFFICES ASSUME TypeInv,
                    LoseMessage \/ HandlerRaises \/ HandleSummary \/ ConflictingSummary \/ PromotePrimary
             PROVE  TypeInv'
  OBVIOUS
<1>a. TypeOK
  BY DEF TypeInv
<1>b. inflight' \subseteq Messages' /\ BatchesNonEmpty'
  BY FewerMessages DEF LoseMessage, HandlerRaises, HandleSummary, ConflictingSummary, PromotePrimary
<1>c. faults' \in [FaultKinds -> Nat]
  BY <1>a, RecordFacts
     DEF LoseMessage, HandlerRaises, HandleSummary, ConflictingSummary, PromotePrimary, TypeOK, FaultKinds
<1>1. CASE LoseMessage
  BY <1>1, <1>a, <1>b, <1>c DEF TypeInv, TypeOK, LoseMessage
<1>2. CASE HandlerRaises
  <2> PICK m \in inflight :
        \/ UNCHANGED primary
        \/ /\ m.kind = "batch"
           /\ primary' = [primary EXCEPT !.gateIds = @ \cup NewGates(m.first..m.last)]
    BY <1>2 DEF HandlerRaises
  <2>1. CASE UNCHANGED primary
    BY <1>2, <1>a, <1>b, <1>c, <2>1 DEF TypeInv, TypeOK, HandlerRaises
  <2>2. CASE /\ m.kind = "batch"
             /\ primary' = [primary EXCEPT !.gateIds = @ \cup NewGates(m.first..m.last)]
    <3>1. m \in Batches
      BY <2>2 DEF Batches
    <3>2. NewGates(m.first..m.last) \subseteq GateIds
      BY <3>1, MessageFacts, AcceptedFacts
    <3>3. primary' \in [count : Nat, summary : SUBSET [total : Nat, batches : Nat],
                        gateIds : SUBSET GateIds, handle : BOOLEAN]
      BY <1>a, <2>2, <3>2 DEF TypeOK
    <3> QED BY <1>2, <1>a, <1>b, <1>c, <3>3 DEF TypeInv, TypeOK, HandlerRaises
  <2> QED BY <2>1, <2>2
<1>3. CASE HandleSummary
  <2> PICK m \in Summaries : primary' = [primary EXCEPT !.summary = {SummaryOf(m)}]
    BY <1>3 DEF HandleSummary
  <2>1. SummaryOf(m) \in [total : Nat, batches : Nat]
    BY MessageFacts DEF SummaryOf
  <2>2. primary' \in [count : Nat, summary : SUBSET [total : Nat, batches : Nat],
                      gateIds : SUBSET GateIds, handle : BOOLEAN]
    BY <1>a, <2>1 DEF TypeOK
  <2> QED BY <1>3, <1>a, <1>b, <1>c, <2>2 DEF TypeInv, TypeOK, HandleSummary
<1>4. CASE ConflictingSummary
  BY <1>4, <1>a, <1>b, <1>c DEF TypeInv, TypeOK, ConflictingSummary
<1>5. CASE PromotePrimary
  <2>1. primary' \in [count : Nat, summary : SUBSET [total : Nat, batches : Nat],
                      gateIds : SUBSET GateIds, handle : BOOLEAN]
    BY <1>5, FreshFacts DEF PromotePrimary
  <2> QED BY <1>5, <1>a, <1>b, <1>c, <2>1 DEF TypeInv, TypeOK, PromotePrimary
<1> QED BY <1>1, <1>2, <1>3, <1>4, <1>5

\* Type correctness of the steps that open, close and repeat a run.
LEMMA PhaseType == TypeInv /\ (PhaseStart \/ PhaseEnd \/ RunRestart) => TypeInv'
<1> SUFFICES ASSUME TypeInv, PhaseStart \/ PhaseEnd \/ RunRestart PROVE TypeInv'
  OBVIOUS
<1>a. TypeOK
  BY DEF TypeInv
<1>1. CASE PhaseStart
  <2>1. inflight' \subseteq Messages' /\ BatchesNonEmpty'
    BY <1>1, FewerMessages DEF PhaseStart
  <2>2. primary' \in [count : Nat, summary : SUBSET [total : Nat, batches : Nat],
                      gateIds : SUBSET GateIds, handle : BOOLEAN]
    BY <1>1, <1>a, FreshFacts DEF PhaseStart, TypeOK
  <2> QED BY <1>1, <1>a, <2>1, <2>2 DEF TypeInv, TypeOK, PhaseStart
<1>2. CASE PhaseEnd
  <2>1. inflight' \subseteq Messages' /\ BatchesNonEmpty'
    BY <1>2, FewerMessages DEF PhaseEnd
  <2>2. faults' \in [FaultKinds -> Nat]
    BY <1>2, <1>a, RecordFacts DEF PhaseEnd, TypeOK, FaultKinds
  <2>3. verdict' \in {"passed", "raised", "skipped"}
    BY <1>2 DEF PhaseEnd
  <2> QED BY <1>2, <1>a, <2>1, <2>2, <2>3 DEF TypeInv, TypeOK, PhaseEnd
<1>3. CASE RunRestart
  <2>1. inflight' \subseteq Messages' /\ BatchesNonEmpty'
    BY <1>3 DEF RunRestart, BatchesNonEmpty, Batches
  <2>2. worker' \in [stage : {"waiting", "streaming", "summarised", "done", "failed"},
                     sent : 0..PlanSize, batches : Nat]
    BY <1>3, PlanFacts DEF RunRestart, IdleWorker
  <2>3. faults' \in [FaultKinds -> Nat] /\ run' \in 1..MaxRuns
    BY <1>3, <1>a, BoundAssumption DEF RunRestart, NoFaults, TypeOK
  <2>4. cuts' \in Cuts
    BY <1>3 DEF RunRestart, Cuts
  <2> QED BY <1>3, <1>a, <2>1, <2>2, <2>3, <2>4 DEF TypeInv, TypeOK, RunRestart
<1> QED BY <1>1, <1>2, <1>3

LEMMA TypeStep ==
  ASSUME TypeInv, [Next]_vars
  PROVE  TypeInv'
<1>1. CASE UNCHANGED vars
  BY <1>1 DEF TypeInv, TypeOK, vars, Messages, Ids, BatchesNonEmpty, Batches, Cuts
<1> QED BY <1>1, WorkerType, HandleBatchType, PrimaryType, PhaseType
        DEF Next, WorkerNext, PrimaryNext, PhaseNext, FaultNext

\* Every reachable state is well typed, and batches under way are never empty.
THEOREM TypeCorrect == Spec => []TypeOK
<1>1. TypeInv /\ [Next]_vars => TypeInv'
  BY TypeStep
<1>2. TypeInv => TypeOK
  BY DEF TypeInv
<1> QED BY InitType, <1>1, <1>2, PTL DEF Spec

-------------------------------------------------------------------------------
\* The barrier, when the worker is not restarted within a run.

BarrierInv == TypeInv /\ Accounting /\ PassedMeansHandled

\* Nothing has been sent or counted initially.
LEMMA InitBarrier == Init => BarrierInv
<1> SUFFICES ASSUME Init PROVE BarrierInv
  OBVIOUS
<1>1. PiecesUnderWay
  BY DEF Init, PiecesUnderWay, Batches
<1>2. CountIsExact
  BY FS_EmptySet DEF Init, CountIsExact, FreshPrimary
<1>3. SummariesTruthful
  BY DEF Init, SummariesTruthful, Summaries
<1>4. PhasesSeparate /\ PassedMeansHandled
  BY DEF Init, PhasesSeparate, PassedMeansHandled
<1> QED BY InitType, <1>1, <1>2, <1>3, <1>4 DEF BarrierInv, Accounting

\* Taking messages away, without touching what was sent or counted, keeps the
\* accounting.
LEMMA FewerPieces ==
  ASSUME BarrierInv, inflight' \subseteq inflight,
         worker'.sent = worker.sent, counted' = counted
  PROVE  /\ PiecesUnderWay'
         /\ \A m \in Summaries' : m.total = PlanSize
         /\ counted' \subseteq 1..worker'.sent
<1>1. Batches' \subseteq Batches /\ Summaries' \subseteq Summaries
  BY DEF Batches, Summaries
<1>2. PiecesUnderWay'
  BY <1>1 DEF BarrierInv, Accounting, PiecesUnderWay
<1> QED BY <1>1, <1>2 DEF BarrierInv, Accounting, SummariesTruthful, CountIsExact

\* The steps of the worker that send nothing.
LEMMA QuietWorkerBarrier ==
  BarrierInv /\ (StartStream \/ WorkerDone \/ WorkerFails) => BarrierInv'
<1> SUFFICES ASSUME BarrierInv, StartStream \/ WorkerDone \/ WorkerFails PROVE BarrierInv'
  OBVIOUS
<1>1. TypeInv'
  BY WorkerType DEF BarrierInv
<1>2. /\ inflight' = inflight /\ counted' = counted /\ primary' = primary
      /\ phase' = phase /\ verdict' = verdict /\ phase # "idle"
      /\ worker'.sent = worker.sent
  <2>1. worker.stage # "waiting" => phase # "idle"
    BY DEF BarrierInv, Accounting, PhasesSeparate, IdleWorker
  <2>2. \A stage : [worker EXCEPT !.stage = stage].sent = worker.sent
    BY DEF BarrierInv, TypeInv, TypeOK
  <2> QED BY <2>1, <2>2 DEF StartStream, WorkerDone, WorkerFails, WorkerActive
<1>3. PiecesUnderWay' /\ CountIsExact' /\ SummariesTruthful'
  BY <1>2, FewerPieces DEF BarrierInv, Accounting, CountIsExact, SummariesTruthful
<1>4. PhasesSeparate' /\ PassedMeansHandled'
  BY <1>2 DEF BarrierInv, Accounting, PhasesSeparate, PassedMeansHandled
<1> QED BY <1>1, <1>3, <1>4 DEF BarrierInv, Accounting

\* A batch is sent: it lies beyond everything sent before.
LEMMA SendBatchBarrier == BarrierInv /\ SendBatch => BarrierInv'
<1> SUFFICES ASSUME BarrierInv, SendBatch PROVE BarrierInv'
  OBVIOUS
<1>1. TypeInv'
  BY WorkerType DEF BarrierInv
<1> PICK last \in cuts :
      /\ NextCut(last)
      /\ inflight' = inflight \cup {BatchMessage(sends, worker.sent + 1, last)}
      /\ worker' = [worker EXCEPT !.sent = last, !.batches = @ + 1]
  BY DEF SendBatch
<1> DEFINE b == BatchMessage(sends, worker.sent + 1, last)
<1>2. /\ last \in Nat /\ worker.sent \in Nat /\ last > worker.sent /\ worker'.sent = last
      /\ inflight' = inflight \cup {b}
      /\ b.kind = "batch" /\ b.first = worker.sent + 1 /\ b.last = last
  <2>1. last \in Plan /\ last > worker.sent
    BY DEF BarrierInv, TypeInv, TypeOK, Cuts, NextCut
  <2>2. worker \in [stage : {"waiting", "streaming", "summarised", "done", "failed"},
                    sent : 0..PlanSize, batches : Nat]
    BY DEF BarrierInv, TypeInv, TypeOK
  <2> QED BY <2>1, <2>2, PlanFacts DEF Plan, BatchMessage
<1>3. /\ counted' = counted /\ primary' = primary /\ phase' = phase /\ verdict' = verdict
      /\ worker.stage = "streaming"
  BY DEF SendBatch
<1>4. phase # "idle"
  BY <1>3 DEF BarrierInv, Accounting, PhasesSeparate, IdleWorker
<1>5. counted \subseteq 1..worker.sent
  BY DEF BarrierInv, Accounting, CountIsExact
<1> HIDE DEF b
<1>6. Batches' = Batches \cup {b} /\ Summaries' = Summaries
  BY <1>2 DEF Batches, Summaries
<1>7. \A m \in Batches : m.first \in Nat /\ m.last \in Nat /\ m.last <= worker.sent
  BY MessageFacts DEF BarrierInv, Accounting, PiecesUnderWay, Plan
<1>8. PiecesUnderWay'
  <2>1. (b.first..b.last) \cap counted = {}
    BY <1>2, <1>5
  <2>2. \A m \in Batches : (m.first..m.last) \cap (b.first..b.last) = {}
    BY <1>2, <1>7
  <2>3. \A m \in Batches : m.last <= last
    BY <1>2, <1>7
  <2>4. \A m, n \in Batches : m # n => (m.first..m.last) \cap (n.first..n.last) = {}
    BY DEF BarrierInv, Accounting, PiecesUnderWay
  <2>5. \A m \in Batches : (m.first..m.last) \cap counted = {}
    BY DEF BarrierInv, Accounting, PiecesUnderWay
  <2>6. \A m, n \in Batches' : m # n => (m.first..m.last) \cap (n.first..n.last) = {}
    BY <1>6, <2>2, <2>4
  <2>7. \A m \in Batches' : m.last <= worker'.sent
    BY <1>2, <1>6, <2>3
  <2>8. \A m \in Batches' : (m.first..m.last) \cap counted' = {}
    BY <1>3, <1>6, <2>1, <2>5
  <2> QED BY <2>6, <2>7, <2>8 DEF PiecesUnderWay
<1>9. CountIsExact'
  <2>1. 1..worker.sent \subseteq 1..last
    BY <1>2
  <2> QED BY <1>2, <1>3, <1>5, <2>1 DEF BarrierInv, Accounting, CountIsExact
<1>10. SummariesTruthful'
  BY <1>3, <1>6 DEF BarrierInv, Accounting, SummariesTruthful
<1>11. PhasesSeparate' /\ PassedMeansHandled'
  BY <1>3, <1>4 DEF BarrierInv, Accounting, PhasesSeparate, PassedMeansHandled
<1> QED BY <1>1, <1>8, <1>9, <1>10, <1>11 DEF BarrierInv, Accounting

\* The summary is sent when everything has been.
LEMMA SendSummaryBarrier == BarrierInv /\ SendSummary => BarrierInv'
<1> SUFFICES ASSUME BarrierInv, SendSummary PROVE BarrierInv'
  OBVIOUS
<1>1. TypeInv'
  BY WorkerType DEF BarrierInv
<1> DEFINE m == SummaryMessage(sends, worker.sent, worker.batches)
<1>2. /\ inflight' = inflight \cup {m} /\ worker.sent = PlanSize /\ worker.stage = "streaming"
      /\ counted' = counted /\ primary' = primary /\ phase' = phase /\ verdict' = verdict
      /\ worker' = [worker EXCEPT !.stage = "summarised"]
  BY DEF SendSummary
<1>3. m.kind = "summary" /\ m.total = PlanSize
  BY <1>2 DEF SummaryMessage
<1>4. worker'.sent = worker.sent
  BY <1>2 DEF BarrierInv, TypeInv, TypeOK
<1>5. phase # "idle"
  BY <1>2 DEF BarrierInv, Accounting, PhasesSeparate, IdleWorker
<1> HIDE DEF m
<1>6. Batches' = Batches /\ Summaries' = Summaries \cup {m}
  BY <1>2, <1>3 DEF Batches, Summaries
<1>7. PiecesUnderWay'
  BY <1>2, <1>4, <1>6 DEF BarrierInv, Accounting, PiecesUnderWay
<1>8. CountIsExact' /\ SummariesTruthful'
  BY <1>2, <1>3, <1>4, <1>6 DEF BarrierInv, Accounting, CountIsExact, SummariesTruthful
<1>9. PhasesSeparate' /\ PassedMeansHandled'
  BY <1>2, <1>5 DEF BarrierInv, Accounting, PhasesSeparate, PassedMeansHandled
<1> QED BY <1>1, <1>7, <1>8, <1>9 DEF BarrierInv, Accounting

\* A batch is counted: its descriptors are new, so the count grows by their number.
LEMMA HandleBatchBarrier == BarrierInv /\ HandleBatch => BarrierInv'
<1> SUFFICES ASSUME BarrierInv, HandleBatch PROVE BarrierInv'
  OBVIOUS
<1>1. TypeInv'
  BY HandleBatchType DEF BarrierInv
<1> PICK m \in Batches :
      /\ primary' = [primary EXCEPT !.count = @ + (m.last - m.first + 1),
                                    !.gateIds = @ \cup NewGates(m.first..m.last)]
      /\ counted' = counted \cup (m.first..m.last)
      /\ inflight' = inflight \ {m}
  BY DEF HandleBatch
<1>2. phase' = phase /\ verdict' = verdict /\ worker' = worker
  BY DEF HandleBatch
<1>3. /\ m \in inflight /\ m.kind = "batch"
      /\ m.first \in Nat /\ m.last \in Nat /\ 1 <= m.first /\ m.first <= m.last
      /\ m.first..m.last \subseteq Plan
  BY MessageFacts, PlanFacts DEF BarrierInv, Plan
<1>4. phase # "idle"
  BY <1>3 DEF BarrierInv, Accounting, PhasesSeparate
<1>5. /\ primary'.count = primary.count + (m.last - m.first + 1)
      /\ primary'.summary = primary.summary
  BY DEF BarrierInv, TypeInv, TypeOK
<1>6. /\ m.last <= worker.sent /\ (m.first..m.last) \cap counted = {}
      /\ \A n \in Batches : m # n => (m.first..m.last) \cap (n.first..n.last) = {}
  BY DEF BarrierInv, Accounting, PiecesUnderWay
<1>7. Batches' = Batches \ {m} /\ Summaries' = Summaries
  BY <1>3 DEF Batches, Summaries
<1>8. PiecesUnderWay'
  <2>1. \A n \in Batches' : (n.first..n.last) \cap counted' = {}
    <3>1. \A n \in Batches' : (n.first..n.last) \cap counted = {}
      BY <1>7 DEF BarrierInv, Accounting, PiecesUnderWay
    <3>2. \A n \in Batches' : (n.first..n.last) \cap (m.first..m.last) = {}
      BY <1>6, <1>7
    <3> QED BY <3>1, <3>2
  <2>2. \A n \in Batches' : n.last <= worker'.sent
    BY <1>2, <1>7 DEF BarrierInv, Accounting, PiecesUnderWay
  <2>3. \A n, o \in Batches' : n # o => (n.first..n.last) \cap (o.first..o.last) = {}
    BY <1>7 DEF BarrierInv, Accounting, PiecesUnderWay
  <2> QED BY <2>1, <2>2, <2>3 DEF PiecesUnderWay
<1>9. CountIsExact'
  <2>1. counted \subseteq 1..worker.sent /\ worker.sent \in Nat /\ counted \subseteq Plan
    BY PlanFacts DEF BarrierInv, Accounting, CountIsExact, TypeInv, TypeOK
  <2>2. IsFiniteSet(counted)
    BY <2>1, FS_Interval, FS_Subset
  <2>3. /\ IsFiniteSet(m.first..m.last)
        /\ Cardinality(m.first..m.last) = m.last - m.first + 1
    BY <1>3, FS_Interval
  <2>4. Cardinality(counted \cup (m.first..m.last))
          = Cardinality(counted) + Cardinality(m.first..m.last)
              - Cardinality(counted \cap (m.first..m.last))
    BY <2>2, <2>3, FS_Union
  <2>5. Cardinality(counted \cap (m.first..m.last)) = 0
    BY <1>6, FS_EmptySet
  <2>6. Cardinality(counted) \in Nat
    BY <2>2, FS_CardinalityType
  <2>7. primary.count = Cardinality(counted)
    BY <1>4 DEF BarrierInv, Accounting, CountIsExact
  <2>8. primary'.count = Cardinality(counted')
    BY <1>3, <1>5, <2>3, <2>4, <2>5, <2>6, <2>7
  <2>9. counted' \subseteq 1..worker'.sent
    BY <1>2, <1>3, <1>6, <2>1
  <2> QED BY <2>8, <2>9 DEF CountIsExact
<1>10. SummariesTruthful'
  BY <1>2, <1>5, <1>7 DEF BarrierInv, Accounting, SummariesTruthful
<1>11. PhasesSeparate'
  BY <1>2, <1>4 DEF BarrierInv, Accounting, PhasesSeparate
<1>12. PassedMeansHandled'
  BY <1>2, <1>3 DEF BarrierInv, PassedMeansHandled
<1> QED BY <1>1, <1>8, <1>9, <1>10, <1>11, <1>12 DEF BarrierInv, Accounting

\* Messages that are lost, fail or only carry the summary leave the count alone.
LEMMA PrimaryBarrier ==
  BarrierInv /\ (LoseMessage \/ HandlerRaises \/ HandleSummary \/ ConflictingSummary)
    => BarrierInv'
<1> SUFFICES ASSUME BarrierInv,
                    LoseMessage \/ HandlerRaises \/ HandleSummary \/ ConflictingSummary
             PROVE  BarrierInv'
  OBVIOUS
<1>1. TypeInv'
  BY PrimaryType DEF BarrierInv
<1>2. /\ inflight' \subseteq inflight /\ inflight # {}
      /\ worker' = worker /\ counted' = counted /\ phase' = phase /\ verdict' = verdict
  BY DEF LoseMessage, HandlerRaises, HandleSummary, ConflictingSummary, Summaries
<1>3. phase # "idle"
  BY <1>2 DEF BarrierInv, Accounting, PhasesSeparate
<1>4. /\ PiecesUnderWay'
      /\ \A m \in Summaries' : m.total = PlanSize
      /\ counted' \subseteq 1..worker'.sent
  BY <1>2, FewerPieces
<1>5. primary'.count = primary.count
  BY DEF LoseMessage, HandlerRaises, HandleSummary, ConflictingSummary,
         BarrierInv, TypeInv, TypeOK
<1>6. \A s \in primary'.summary : s.total = PlanSize
  <2>1. \A s \in primary.summary : s.total = PlanSize
    BY <1>3 DEF BarrierInv, Accounting, SummariesTruthful
  <2>2. CASE HandleSummary
    <3> PICK m \in Summaries : primary' = [primary EXCEPT !.summary = {SummaryOf(m)}]
      BY <2>2 DEF HandleSummary
    <3>1. primary'.summary = {SummaryOf(m)}
      BY DEF BarrierInv, TypeInv, TypeOK
    <3>2. m.total = PlanSize
      BY DEF BarrierInv, Accounting, SummariesTruthful
    <3> QED BY <3>1, <3>2 DEF SummaryOf
  <2>3. CASE LoseMessage \/ HandlerRaises \/ ConflictingSummary
    <3>1. primary'.summary = primary.summary
      BY <2>3 DEF LoseMessage, HandlerRaises, ConflictingSummary, BarrierInv, TypeInv, TypeOK
    <3> QED BY <2>1, <3>1
  <2> QED BY <2>2, <2>3
<1>7. CountIsExact' /\ SummariesTruthful'
  BY <1>2, <1>3, <1>4, <1>5, <1>6 DEF BarrierInv, Accounting, CountIsExact, SummariesTruthful
<1>8. PhasesSeparate' /\ PassedMeansHandled'
  BY <1>2, <1>3 DEF BarrierInv, Accounting, PhasesSeparate, PassedMeansHandled
<1> QED BY <1>1, <1>4, <1>7, <1>8 DEF BarrierInv, Accounting

\* A new primary has counted nothing and knows no summary.
LEMMA PromotionBarrier == BarrierInv /\ PromotePrimary => BarrierInv'
<1> SUFFICES ASSUME BarrierInv, PromotePrimary PROVE BarrierInv'
  OBVIOUS
<1>1. TypeInv'
  BY PrimaryType DEF BarrierInv
<1>2. /\ inflight' = inflight /\ worker' = worker /\ counted' = {} /\ phase' = phase
      /\ verdict' = verdict /\ phase = "running" /\ verdict = "open"
  BY DEF PromotePrimary, BarrierInv, Accounting, PhasesSeparate
<1>3. primary'.count = 0 /\ primary'.summary = {}
  BY DEF PromotePrimary, FreshPrimary
<1>4. PiecesUnderWay' /\ SummariesTruthful'
  BY <1>2, <1>3 DEF BarrierInv, Accounting, PiecesUnderWay, SummariesTruthful, Batches, Summaries
<1>5. CountIsExact'
  BY <1>2, <1>3, FS_EmptySet DEF CountIsExact
<1>6. PhasesSeparate' /\ PassedMeansHandled'
  BY <1>2 DEF PhasesSeparate, PassedMeansHandled
<1> QED BY <1>1, <1>4, <1>5, <1>6 DEF BarrierInv, Accounting

\* The steps that open and repeat a run start from zero.
LEMMA OpeningBarrier == BarrierInv /\ (PhaseStart \/ RunRestart) => BarrierInv'
<1> SUFFICES ASSUME BarrierInv, PhaseStart \/ RunRestart PROVE BarrierInv'
  OBVIOUS
<1>1. TypeInv'
  BY PhaseType DEF BarrierInv
<1>2. inflight' = {} /\ counted' = {} /\ verdict' = "open" /\ phase' # "ended"
  BY DEF PhaseStart, RunRestart, BarrierInv, Accounting, PhasesSeparate
<1>3. phase' # "idle" => primary'.count = 0 /\ primary'.summary = {}
  BY DEF PhaseStart, RunRestart, FreshPrimary
<1>4. phase' = "idle" => worker' = IdleWorker
  BY DEF PhaseStart, RunRestart, IdleWorker
<1>5. PiecesUnderWay' /\ SummariesTruthful'
  BY <1>2, <1>3 DEF PiecesUnderWay, SummariesTruthful, Batches, Summaries
<1>6. CountIsExact'
  BY <1>2, <1>3, FS_EmptySet DEF CountIsExact
<1>7. PhasesSeparate' /\ PassedMeansHandled'
  BY <1>2, <1>4 DEF PhasesSeparate, PassedMeansHandled, IdleWorker
<1> QED BY <1>1, <1>5, <1>6, <1>7 DEF BarrierInv, Accounting

\* The barrier passes on equal numbers; exact counting makes them equal sets.
LEMMA ClosingBarrier == BarrierInv /\ PhaseEnd => BarrierInv'
<1> SUFFICES ASSUME BarrierInv, PhaseEnd PROVE BarrierInv'
  OBVIOUS
<1>1. TypeInv'
  BY PhaseType DEF BarrierInv
<1>2. /\ inflight' = inflight /\ worker' = worker /\ counted' = counted /\ primary' = primary
      /\ phase = "running" /\ phase' = "ended" /\ verdict' # "open"
  BY DEF PhaseEnd
<1>3. PiecesUnderWay' /\ SummariesTruthful' /\ CountIsExact'
  BY <1>2 DEF BarrierInv, Accounting, PiecesUnderWay, SummariesTruthful, CountIsExact,
              Batches, Summaries
<1>4. PhasesSeparate'
  BY <1>2 DEF PhasesSeparate
<1>5. PassedMeansHandled'
  <2> SUFFICES ASSUME verdict' = "passed" PROVE counted = Plan
    BY <1>2 DEF PassedMeansHandled
  <2>1. PICK s \in primary.summary : primary.count = s.total
    BY DEF PhaseEnd, Reconciled
  <2>2. primary.count = PlanSize
    BY <1>2, <2>1 DEF BarrierInv, Accounting, SummariesTruthful
  <2>3. Cardinality(counted) = PlanSize
    BY <1>2, <2>2 DEF BarrierInv, Accounting, CountIsExact
  <2>4. counted \subseteq Plan
    BY DEF BarrierInv, TypeInv, TypeOK
  <2>5. IsFiniteSet(Plan) /\ Cardinality(Plan) = PlanSize
    BY PlanFacts, FS_Interval DEF Plan
  <2> QED BY <2>3, <2>4, <2>5, FS_Subset
<1> QED BY <1>1, <1>3, <1>4, <1>5 DEF BarrierInv, Accounting

\* The accounting is kept by every step but a restart of the worker.
LEMMA HealthyBarrier ==
  ASSUME BarrierInv, [Next]_vars, ~WorkerDies
  PROVE  BarrierInv'
<1>1. CASE UNCHANGED vars
  <2>1. TypeInv'
    BY <1>1 DEF BarrierInv, TypeInv, TypeOK, vars, Messages, Ids, BatchesNonEmpty, Batches, Cuts
  <2>2. Accounting'
    BY <1>1 DEF BarrierInv, Accounting, PiecesUnderWay, CountIsExact, SummariesTruthful,
                PhasesSeparate, vars, Batches, Summaries
  <2>3. PassedMeansHandled'
    BY <1>1 DEF BarrierInv, PassedMeansHandled, vars
  <2> QED BY <2>1, <2>2, <2>3 DEF BarrierInv
<1> QED
  BY <1>1, QuietWorkerBarrier, SendBatchBarrier, SendSummaryBarrier, HandleBatchBarrier,
     PrimaryBarrier, PromotionBarrier, OpeningBarrier, ClosingBarrier
     DEF Next, WorkerNext, PrimaryNext, PhaseNext, FaultNext

\* With no restart of the worker in the budget, it is inductive.
LEMMA BarrierInductive ==
  ASSUME Budget["died"] = 0
  PROVE  BarrierInv /\ [Next]_vars => BarrierInv'
<1> SUFFICES ASSUME BarrierInv, [Next]_vars PROVE BarrierInv'
  OBVIOUS
<1>1. faults["died"] \in Nat
  BY DEF BarrierInv, TypeInv, TypeOK, FaultKinds
<1>2. ~WorkerDies
  BY <1>1 DEF MayFail, WorkerDies
<1> QED BY <1>2, HealthyBarrier

\* As long as the worker is not restarted within a run, whatever is lost, raised,
\* reordered, promoted or cut short: on_phase_end passes only if every descriptor
\* of the plan has been handled, because no descriptor is ever counted twice.
THEOREM BarrierSound ==
  ASSUME Budget["died"] = 0
  PROVE  Spec => [](Accounting /\ PassedMeansHandled)
<1>1. BarrierInv => Accounting /\ PassedMeansHandled
  BY DEF BarrierInv
<1> QED BY InitBarrier, BarrierInductive, <1>1, PTL DEF Spec

\* The bookkeeping on which that rests.
THEOREM AccountingHolds ==
  ASSUME Budget["died"] = 0
  PROVE  Spec => []Accounting
<1>1. BarrierInv => Accounting
  BY DEF BarrierInv
<1> QED BY InitBarrier, BarrierInductive, <1>1, PTL DEF Spec

-------------------------------------------------------------------------------
\* Spawning: restarts, promotions and late messages included, with a transport that
\* keeps the order, loses nothing and whose handler does not raise.

\* What the build tasks name of the discovery is there.
ImportsKnown == NamedImports \subseteq Discovered

LEMMA KnownImports ==
  ASSUME Config.toolchain_outpaths \/ Config.disable_task_deps
  PROVE  ImportsKnown
BY DEF ImportsKnown, NamedImports, Discovered

\* Then every new gate of a batch is accepted.
LEMMA AllGatesAccepted ==
  ASSUME ImportsKnown, NEW batch
  PROVE  /\ AcceptedDeps(batch) = batch \cap CommonDeps
         /\ AcceptedGates(batch) = NewGates(batch)
<1>1. AcceptedDeps(batch) = batch \cap CommonDeps
  BY DEF AcceptedDeps, ImportsKnown
<1>2. NewGates(batch) \subseteq AcceptedGates(batch)
  BY <1>1 DEF AcceptedGates, NewGates
<1> QED BY <1>1, <1>2 DEF AcceptedGates

LEMMA NothingRaised ==
  ASSUME TypeOK, NEW f \in FaultKinds, Budget[f] = 0
  PROVE  ~MayFail(f)
BY DEF TypeOK, MayFail

LEMMA GatesStep ==
  ASSUME TypeOK, GateNeverForgotten, ImportsKnown, Budget["raised"] = 0, [Next]_vars
  PROVE  GateNeverForgotten'
<1> USE DEF GateNeverForgotten
<1>1. CASE HandleBatch
  <2>1. PICK m \in Batches :
          /\ gates' = gates \cup AcceptedGates(m.first..m.last)
          /\ primary' = [primary EXCEPT !.count = @ + (m.last - m.first + 1),
                                        !.gateIds = @ \cup NewGates(m.first..m.last)]
    BY <1>1 DEF HandleBatch
  <2>2. primary'.gateIds = primary.gateIds \cup NewGates(m.first..m.last)
    BY <2>1 DEF TypeOK
  <2> QED BY <1>1, <2>1, <2>2, AllGatesAccepted DEF HandleBatch
<1>2. CASE HandlerRaises
  BY <1>2, NothingRaised DEF HandlerRaises, FaultKinds
<1>3. CASE HandleSummary
  BY <1>3 DEF HandleSummary, TypeOK
<1>4. CASE PhaseStart \/ PromotePrimary
  BY <1>4 DEF PhaseStart, PromotePrimary, FreshPrimary
<1>5. CASE RunRestart
  BY <1>5 DEF RunRestart
<1>6. CASE PhaseEnd
  BY <1>6 DEF PhaseEnd
<1>7. CASE WorkerNext \/ WorkerFails \/ WorkerDies \/ LoseMessage \/ ConflictingSummary \/ UNCHANGED vars
  BY <1>7 DEF WorkerNext, StartStream, SendBatch, SendSummary, WorkerDone, WorkerFails, WorkerDies,
     LoseMessage, ConflictingSummary, vars
<1> QED BY <1>1, <1>2, <1>3, <1>4, <1>5, <1>6, <1>7 DEF Next, PrimaryNext, PhaseNext, FaultNext

\* A gate the primary has noted is one the framework holds, as long as no handler
\* raises between the two and the gates of the discovery are known.
THEOREM GatesKept ==
  ASSUME Budget["raised"] = 0, Config.toolchain_outpaths \/ Config.disable_task_deps
  PROVE  Spec => []GateNeverForgotten
<1>1. Init => GateNeverForgotten
  BY DEF Init, GateNeverForgotten
<1>2. ImportsKnown
  BY KnownImports
<1>3. TypeOK /\ GateNeverForgotten /\ [Next]_vars => GateNeverForgotten'
  BY <1>2, GatesStep
<1> QED BY <1>1, <1>3, TypeCorrect, PTL DEF Spec

\* Descriptor d has a task, or a batch with it precedes message id.
Held(d, id) == d \in spawned \/ \E n \in Batches : n.id < id /\ d \in n.first..n.last

\* What is in front of a batch, or of the worker's position, is held.
PrefixHeld ==
  /\ \A m \in Batches : \A d \in 1..(m.first - 1) : Held(d, m.id)
  /\ \A d \in 1..worker.sent : Held(d, sends)

IdleIsQuiet == phase = "idle" => inflight = {} /\ worker = IdleWorker

SpawnedAreGated ==
  GatesEnabled => \A c \in spawned \cap CommonDeps : GateOf[c] \in gates

SpawnInv ==
  TypeInv /\ GateNeverForgotten /\ IdleIsQuiet /\ PrefixHeld /\ SpawnedAreGated /\ HandledIsSpawned

\* A batch at the head of the queue is accepted as a whole.
LEMMA BatchAccepted ==
  ASSUME SpawnInv, ImportsKnown, NEW m \in Batches, \A n \in inflight : m.id <= n.id
  PROVE  /\ m.first..m.last \subseteq AcceptedDeps(m.first..m.last) \cup AcceptedVariants(m.first..m.last)
         /\ GatesEnabled => \A c \in (m.first..m.last) \cap CommonDeps :
                              GateOf[c] \in gates \cup AcceptedGates(m.first..m.last)
<1> DEFINE batch == m.first..m.last
<1>1. /\ m.first \in Plan /\ m.last \in Plan /\ batch \subseteq Plan /\ m.id \in Int /\ m \in inflight
      /\ \A n \in Batches : n.id \in Int /\ n \in inflight
  BY MessageFacts DEF SpawnInv, TypeInv, TypeOK, Messages, Ids
<1>2. \A d \in 1..(m.first - 1) : d \in spawned
  BY <1>1 DEF SpawnInv, PrefixHeld, Held
<1>3. phase # "idle"
  BY <1>1 DEF SpawnInv, IdleIsQuiet
<1>4. AcceptedDeps(batch) = batch \cap CommonDeps /\ AcceptedGates(batch) = NewGates(batch)
  BY AllGatesAccepted
<1>5. GatesEnabled => \A c \in batch \cap CommonDeps : GateOf[c] \in gates \cup AcceptedGates(batch)
  BY <1>3, <1>4 DEF SpawnInv, GateNeverForgotten, NewGates
<1>6. ASSUME NEW d \in batch \ CommonDeps PROVE d \in AcceptedVariants(batch)
  <2>1. PICK k \in 0..PlanSize : CommonDeps = 1..k
    BY PlanAssumption
  <2>2. d \in Plan /\ Needs[d] \subseteq CommonDeps
    BY <1>1, PlanAssumption
  <2>3. \A c \in Needs[d] : c \in spawned \/ c \in batch
    <3> SUFFICES ASSUME NEW c \in Needs[d] PROVE c \in spawned \/ c \in batch
      OBVIOUS
    <3>1. c \in Int /\ 1 <= c /\ c <= k /\ k < d /\ d <= m.last /\ m.first \in Int /\ m.last \in Int
      BY <1>1, <2>1, <2>2, PlanFacts DEF Plan
    <3> QED BY <1>2, <3>1
  <2>4. NamedDeps(d) \subseteq spawned \cup AcceptedDeps(batch)
    BY <1>4, <2>2, <2>3 DEF NamedDeps
  <2>5. NamedGates(d) \subseteq gates \cup AcceptedGates(batch)
    BY <1>5, <2>2, <2>3 DEF NamedGates, SpawnInv, SpawnedAreGated
  <2> QED BY <2>4, <2>5 DEF AcceptedVariants, ImportsKnown
<1> QED BY <1>4, <1>5, <1>6

\* Handling the head of the queue.
LEMMA SpawnBatch ==
  ASSUME SpawnInv, ImportsKnown, InOrder, HandleBatch
  PROVE  /\ IdleIsQuiet' /\ PrefixHeld' /\ SpawnedAreGated' /\ HandledIsSpawned'
         /\ \A d, id : Held(d, id) => Held(d, id)'
<1>1. PICK m \in Batches :
        /\ Deliverable(m)
        /\ spawned' = spawned \cup AcceptedDeps(m.first..m.last) \cup AcceptedVariants(m.first..m.last)
        /\ gates' = gates \cup AcceptedGates(m.first..m.last)
        /\ counted' = counted \cup (m.first..m.last)
        /\ inflight' = inflight \ {m}
  BY DEF HandleBatch
<1> DEFINE batch == m.first..m.last
<1>2. UNCHANGED <<phase, worker, sends>>
  BY DEF HandleBatch
<1>3. /\ m.first..m.last \subseteq AcceptedDeps(m.first..m.last) \cup AcceptedVariants(m.first..m.last)
      /\ GatesEnabled => \A c \in batch \cap CommonDeps : GateOf[c] \in gates \cup AcceptedGates(batch)
  BY <1>1, BatchAccepted DEF Deliverable
<1>4. spawned' = spawned \cup batch
  <2>1. batch \subseteq Plan
    BY MessageFacts DEF SpawnInv
  <2> QED BY <1>1, <1>3, <2>1, AcceptedFacts
<1>5. Batches' = Batches \ {m}
  BY <1>1 DEF Batches
<1>6. \A d, id : Held(d, id) => Held(d, id)'
  BY <1>4, <1>5 DEF Held
<1>7. PrefixHeld'
  BY <1>2, <1>5, <1>6 DEF SpawnInv, PrefixHeld
<1>8. HandledIsSpawned'
  BY <1>1, <1>4 DEF SpawnInv, HandledIsSpawned
<1>9. SpawnedAreGated'
  BY <1>1, <1>3, <1>4 DEF SpawnInv, SpawnedAreGated
<1>10. IdleIsQuiet'
  BY <1>1, <1>2 DEF SpawnInv, IdleIsQuiet
<1> QED BY <1>6, <1>7, <1>8, <1>9, <1>10

LEMMA SpawnStep ==
  ASSUME SpawnInv, ImportsKnown, InOrder, Budget["raised"] = 0, Budget["lost"] = 0, [Next]_vars
  PROVE  IdleIsQuiet' /\ PrefixHeld' /\ SpawnedAreGated' /\ HandledIsSpawned'
<1> USE DEF IdleIsQuiet, PrefixHeld, SpawnedAreGated, HandledIsSpawned
<1>t. TypeOK
  BY DEF SpawnInv, TypeInv
<1>1. CASE HandleBatch
  BY <1>1, SpawnBatch
<1>2. CASE HandlerRaises \/ LoseMessage
  BY <1>2, <1>t, NothingRaised DEF HandlerRaises, LoseMessage, FaultKinds
<1>3. CASE HandleSummary \/ ConflictingSummary
  <2>1. UNCHANGED <<phase, worker, sends, spawned, gates, counted>> /\ inflight' \subseteq inflight
    BY <1>3 DEF HandleSummary, ConflictingSummary
  <2>2. Batches' = Batches
    BY <1>3 DEF HandleSummary, ConflictingSummary, Batches, Summaries
  <2> QED BY <2>1, <2>2 DEF SpawnInv, Held
<1>4. CASE PhaseStart \/ PromotePrimary \/ PhaseEnd \/ StartStream \/ WorkerDone \/ WorkerFails \/ UNCHANGED vars
  <2>1. /\ UNCHANGED <<sends, spawned, gates, inflight>> /\ worker'.sent = worker.sent
        /\ counted' \subseteq counted /\ (phase' = "idle" => phase = "idle" /\ worker' = worker)
    BY <1>4, <1>t DEF PhaseStart, PromotePrimary, PhaseEnd, StartStream, WorkerDone, WorkerFails,
       WorkerActive, vars, TypeOK, SpawnInv, IdleWorker
  <2>2. Batches' = Batches
    BY <2>1 DEF Batches
  <2> QED BY <2>1, <2>2 DEF SpawnInv, Held
<1>5. CASE SendBatch
  <2>1. PICK last \in cuts :
          /\ inflight' = inflight \cup {BatchMessage(sends, worker.sent + 1, last)}
          /\ worker' = [worker EXCEPT !.sent = last, !.batches = @ + 1]
    BY <1>5 DEF SendBatch
  <2> DEFINE m == BatchMessage(sends, worker.sent + 1, last)
  <2>2. /\ UNCHANGED <<phase, spawned, gates, counted>> /\ sends' = sends + 1 /\ phase # "idle"
        /\ worker.sent \in Nat /\ worker'.sent = last /\ last \in Int /\ sends \in Nat
    <3>1. last \in Int /\ sends \in Nat
      BY <1>t, PlanFacts DEF TypeOK, Cuts, Plan
    <3>2. worker.sent \in Nat /\ worker'.sent = last
      BY <1>t, <2>1, PlanFacts DEF TypeOK
    <3>3. phase # "idle"
      BY <1>5 DEF SendBatch, SpawnInv, IdleWorker
    <3> QED BY <1>5, <3>1, <3>2, <3>3 DEF SendBatch
  <2>3. Batches' = Batches \cup {m} /\ m.id = sends /\ m.first = worker.sent + 1 /\ m.last = last
    BY <2>1 DEF Batches, BatchMessage
  <2>4. \A n \in Batches : n.id \in Int
    BY <1>t DEF TypeOK, Batches, Messages, Ids
  <2> HIDE DEF m
  <2>5. \A d, id : Held(d, id) => Held(d, id)'
    BY <2>2, <2>3 DEF Held
  <2>6. \A n \in Batches' : \A d \in 1..(n.first - 1) : Held(d, n.id)'
    BY <2>2, <2>3, <2>5 DEF SpawnInv
  <2>7. \A d \in 1..worker'.sent : Held(d, sends)'
    <3> SUFFICES ASSUME NEW d \in 1..last
                 PROVE  d \in spawned' \/ \E n \in Batches' : n.id < sends' /\ d \in n.first..n.last
      BY <2>2 DEF Held
    <3>0. d \in Int /\ 1 <= d /\ d <= last
      BY <2>2
    <3>1. CASE d <= worker.sent
      <4>1. d \in spawned \/ \E n \in Batches : n.id < sends /\ d \in n.first..n.last
        BY <2>2, <3>0, <3>1 DEF SpawnInv, Held
      <4> QED BY <2>2, <2>3, <2>4, <4>1
    <3>2. CASE d > worker.sent
      <4>1. d \in m.first..m.last /\ m.id < sends'
        BY <2>2, <2>3, <3>0, <3>2
      <4> QED BY <2>3, <4>1
    <3> QED BY <2>2, <3>0, <3>1, <3>2
  <2> QED BY <2>2, <2>6, <2>7 DEF SpawnInv
<1>6. CASE SendSummary
  <2>1. /\ UNCHANGED <<phase, spawned, gates, counted>> /\ sends' = sends + 1 /\ phase # "idle"
        /\ worker'.sent = worker.sent
    BY <1>6, <1>t DEF SendSummary, SpawnInv, IdleWorker, TypeOK
  <2>2. Batches' = Batches
    BY <1>6 DEF SendSummary, Batches, SummaryMessage
  <2>3. sends \in Nat /\ \A n \in Batches : n.id \in Int
    BY <1>t DEF TypeOK, Batches, Messages, Ids
  <2> QED BY <2>1, <2>2, <2>3 DEF SpawnInv, Held
<1>7. CASE WorkerDies
  <2>1. UNCHANGED <<phase, spawned, gates, counted, inflight, sends>> /\ worker'.sent = 0 /\ phase # "idle"
    BY <1>7 DEF WorkerDies, WorkerActive, IdleWorker
  <2>2. Batches' = Batches
    BY <2>1 DEF Batches
  <2> QED BY <2>1, <2>2 DEF SpawnInv, Held
<1>8. CASE RunRestart
  BY <1>8 DEF RunRestart, IdleWorker, Batches
<1> QED
  BY <1>1, <1>2, <1>3, <1>4, <1>5, <1>6, <1>7, <1>8 DEF Next, WorkerNext, PrimaryNext, PhaseNext, FaultNext

LEMMA InitSpawn == Init => SpawnInv
<1>1. Init => IdleIsQuiet /\ PrefixHeld /\ SpawnedAreGated /\ HandledIsSpawned /\ GateNeverForgotten
  BY DEF Init, IdleIsQuiet, PrefixHeld, SpawnedAreGated, HandledIsSpawned, GateNeverForgotten,
     IdleWorker, Batches
<1> QED BY <1>1, InitType DEF SpawnInv

LEMMA SpawnKept ==
  ASSUME SpawnInv, ImportsKnown, InOrder, Budget["raised"] = 0, Budget["lost"] = 0, [Next]_vars
  PROVE  SpawnInv'
BY TypeStep, GatesStep, SpawnStep DEF SpawnInv, TypeInv

\* No build task is turned away for naming a task the framework does not know: all
\* that is handled is spawned, also when the worker is restarted or the primary lost.
THEOREM HandledAreSpawned ==
  ASSUME InOrder, Budget["raised"] = 0, Budget["lost"] = 0,
         Config.toolchain_outpaths \/ Config.disable_task_deps
  PROVE  Spec => []HandledIsSpawned
<1>1. SpawnInv /\ [Next]_vars => SpawnInv'
  BY KnownImports, SpawnKept
<1>2. SpawnInv => HandledIsSpawned
  BY DEF SpawnInv
<1> QED BY InitSpawn, <1>1, <1>2, PTL DEF Spec

-------------------------------------------------------------------------------
\* A passed barrier means that the tasks are there, under the same conditions: whoever
\* handles a summary does so when all the batches in front of it have been handled,
\* by this primary or by an earlier one.

SummaryFollows ==
  /\ \A m \in Summaries : \A d \in Plan : Held(d, m.id)
  /\ phase # "idle" /\ primary.summary # {} => spawned = Plan

VerdictIsFinal == (phase = "ended") = (verdict # "open")

GatesArePlanned == gates \subseteq {GateOf[c] : c \in CommonDeps}

PassInv == SpawnInv /\ SummaryFollows /\ VerdictIsFinal /\ GatesArePlanned /\ PassedMeansSpawned

\* What is held remains so until the next run.
LEMMA HeldRemains ==
  ASSUME SpawnInv, ImportsKnown, InOrder, Budget["raised"] = 0, Budget["lost"] = 0,
         [Next]_vars, ~RunRestart
  PROVE  \A d, id : Held(d, id) => Held(d, id)'
<1>t. TypeOK
  BY DEF SpawnInv, TypeInv
<1>1. CASE HandleBatch
  BY <1>1, SpawnBatch
<1>2. CASE HandlerRaises \/ LoseMessage
  BY <1>2, <1>t, NothingRaised DEF HandlerRaises, LoseMessage, FaultKinds
<1>3. CASE HandleSummary \/ ConflictingSummary
  <2>1. Batches' = Batches /\ spawned' = spawned
    BY <1>3 DEF HandleSummary, ConflictingSummary, Batches, Summaries
  <2> QED BY <2>1 DEF Held
<1>4. CASE WorkerNext \/ PhaseNext \/ WorkerFails \/ WorkerDies \/ PromotePrimary \/ UNCHANGED vars
  <2>1. inflight \subseteq inflight' /\ spawned' = spawned
    BY <1>4 DEF WorkerNext, StartStream, SendBatch, SendSummary, WorkerDone, PhaseNext, PhaseStart,
       PhaseEnd, WorkerFails, WorkerDies, PromotePrimary, vars
  <2>2. Batches \subseteq Batches'
    BY <2>1 DEF Batches
  <2> QED BY <2>1, <2>2 DEF Held
<1> QED BY <1>1, <1>2, <1>3, <1>4 DEF Next, PrimaryNext, FaultNext

LEMMA SummaryStep ==
  ASSUME PassInv, ImportsKnown, InOrder, Budget["raised"] = 0, Budget["lost"] = 0, [Next]_vars
  PROVE  SummaryFollows'
<1> USE DEF SummaryFollows
<1>t. TypeInv /\ TypeOK /\ TypeInv'
  BY TypeStep DEF PassInv, SpawnInv, TypeInv
<1>g. spawned' \subseteq Plan
  BY <1>t DEF TypeInv, TypeOK
<1>1. CASE RunRestart
  BY <1>1 DEF RunRestart, Summaries
<1>2. CASE HandleSummary
  <2>1. PICK m \in Summaries :
          /\ Deliverable(m)
          /\ primary' = [primary EXCEPT !.summary = {SummaryOf(m)}]
          /\ inflight' = inflight \ {m}
    BY <1>2 DEF HandleSummary
  <2>2. /\ Summaries' \subseteq Summaries
        /\ UNCHANGED <<phase, spawned>>
    BY <1>2, <2>1 DEF HandleSummary, Summaries
  <2>3. \A n \in Batches : ~(n.id < m.id)
    BY <1>t, <2>1 DEF Deliverable, Batches, Summaries, TypeOK, Messages, Ids
  <2>4. spawned = Plan
    BY <1>g, <2>1, <2>2, <2>3 DEF PassInv, Held
  <2>5. \A d, id : Held(d, id) => Held(d, id)'
    <3>1. ~RunRestart
      BY <1>2 DEF HandleSummary, RunRestart, PassInv, SpawnInv, IdleIsQuiet
    <3> QED BY <3>1, HeldRemains DEF PassInv
  <2> QED BY <2>2, <2>4, <2>5 DEF PassInv
<1>3. CASE SendSummary
  <2>1. /\ UNCHANGED <<phase, spawned, primary>> /\ worker.sent = PlanSize
        /\ inflight' = inflight \cup {SummaryMessage(sends, worker.sent, worker.batches)}
    BY <1>3 DEF SendSummary
  <2>2. Summaries' = Summaries \cup {SummaryMessage(sends, worker.sent, worker.batches)}
    BY <2>1 DEF Summaries, SummaryMessage
  <2>3. SummaryMessage(sends, worker.sent, worker.batches).id = sends
    BY DEF SummaryMessage
  <2>4. \A d \in Plan : Held(d, sends)
    BY <2>1 DEF PassInv, SpawnInv, PrefixHeld, Plan
  <2>5. \A d, id : Held(d, id) => Held(d, id)'
    <3>1. Batches' = Batches
      BY <2>1 DEF Batches, SummaryMessage
    <3> QED BY <2>1, <3>1 DEF Held
  <2> QED BY <2>1, <2>2, <2>3, <2>4, <2>5 DEF PassInv
<1>4. CASE PhaseStart \/ PromotePrimary
  <2>1. primary'.summary = {} /\ UNCHANGED <<spawned, inflight>>
    BY <1>4 DEF PhaseStart, PromotePrimary, FreshPrimary
  <2>2. Summaries' = Summaries /\ Batches' = Batches
    BY <2>1 DEF Summaries, Batches
  <2> QED BY <2>1, <2>2 DEF PassInv, Held
<1>5. CASE HandleBatch
  <2>1. PICK m \in Batches : /\ primary' = [primary EXCEPT !.count = @ + (m.last - m.first + 1),
                                              !.gateIds = @ \cup NewGates(m.first..m.last)]
                             /\ inflight' = inflight \ {m}
    BY <1>5 DEF HandleBatch
  <2>2. primary'.summary = primary.summary /\ UNCHANGED phase /\ spawned \subseteq spawned'
    BY <1>5, <1>t, <2>1 DEF HandleBatch, TypeOK
  <2>3. Summaries' \subseteq Summaries
    BY <2>1 DEF Summaries
  <2>4. \A d, id : Held(d, id) => Held(d, id)'
    BY <1>5, SpawnBatch DEF PassInv
  <2> QED BY <1>g, <2>2, <2>3, <2>4 DEF PassInv
<1>6. CASE HandlerRaises \/ LoseMessage
  BY <1>6, <1>t, NothingRaised DEF HandlerRaises, LoseMessage, FaultKinds
<1>7. CASE \/ StartStream \/ SendBatch \/ WorkerDone \/ WorkerFails \/ WorkerDies \/ PhaseEnd
           \/ ConflictingSummary \/ UNCHANGED vars
  <2>1. /\ UNCHANGED <<spawned, primary>>
        /\ phase' # "idle" => phase # "idle"
    BY <1>7 DEF StartStream, SendBatch, WorkerDone, WorkerFails, WorkerDies, PhaseEnd,
       ConflictingSummary, vars
  <2>2. Summaries' \subseteq Summaries
    <3>1. CASE SendBatch
      BY <3>1 DEF SendBatch, Summaries, BatchMessage
    <3>2. CASE ~SendBatch
      <4>1. inflight' \subseteq inflight
        BY <1>7, <3>2 DEF StartStream, WorkerDone, WorkerFails, WorkerDies, PhaseEnd,
           ConflictingSummary, vars
      <4> QED BY <4>1 DEF Summaries
    <3> QED BY <3>1, <3>2
  <2>3. Batches \subseteq Batches'
    <3>1. CASE ConflictingSummary
      BY <3>1 DEF ConflictingSummary, Batches, Summaries
    <3>2. CASE ~ConflictingSummary
      <4>1. inflight \subseteq inflight'
        BY <1>7, <3>2 DEF StartStream, SendBatch, WorkerDone, WorkerFails, WorkerDies, PhaseEnd, vars
      <4> QED BY <4>1 DEF Batches
    <3> QED BY <3>1, <3>2
  <2> QED BY <2>1, <2>2, <2>3 DEF PassInv, Held
<1> QED
  BY <1>1, <1>2, <1>3, <1>4, <1>5, <1>6, <1>7 DEF Next, WorkerNext, PrimaryNext, PhaseNext, FaultNext

LEMMA GatesPlannedStep ==
  ASSUME GatesArePlanned, [Next]_vars
  PROVE  GatesArePlanned'
<1>1. CASE HandleBatch
  <2>1. PICK m \in Batches : gates' = gates \cup AcceptedGates(m.first..m.last)
    BY <1>1 DEF HandleBatch
  <2>2. AcceptedGates(m.first..m.last) \subseteq {GateOf[c] : c \in CommonDeps}
    BY DEF AcceptedGates
  <2> QED BY <2>1, <2>2 DEF GatesArePlanned
<1>2. CASE ~HandleBatch
  <2>1. gates' \subseteq gates
    BY <1>2 DEF Next, WorkerNext, StartStream, SendBatch, SendSummary, WorkerDone, PrimaryNext,
       HandleSummary, ConflictingSummary, PhaseNext, PhaseStart, PhaseEnd, FaultNext, WorkerFails,
       WorkerDies, LoseMessage, HandlerRaises, PromotePrimary, RunRestart, vars
  <2> QED BY <2>1 DEF GatesArePlanned
<1> QED BY <1>1, <1>2

LEMMA VerdictStep ==
  ASSUME VerdictIsFinal, [Next]_vars
  PROVE  VerdictIsFinal'
<1>1. CASE PhaseEnd
  BY <1>1 DEF PhaseEnd, VerdictIsFinal
<1>2. CASE PhaseStart \/ RunRestart
  BY <1>2 DEF PhaseStart, RunRestart, VerdictIsFinal
<1>3. CASE WorkerNext \/ PrimaryNext \/ FaultNext \/ UNCHANGED vars
  BY <1>3 DEF WorkerNext, StartStream, SendBatch, SendSummary, WorkerDone, PrimaryNext, HandleBatch,
     HandleSummary, ConflictingSummary, FaultNext, WorkerFails, WorkerDies, LoseMessage,
     HandlerRaises, PromotePrimary, vars, VerdictIsFinal
<1> QED BY <1>1, <1>2, <1>3 DEF Next, PhaseNext

\* What the framework holds is kept until the next run.
LEMMA SpawnedRemain ==
  ASSUME [Next]_vars, ~RunRestart
  PROVE  spawned \subseteq spawned' /\ gates \subseteq gates'
BY DEF Next, WorkerNext, StartStream, SendBatch, SendSummary, WorkerDone, PrimaryNext, HandleBatch,
   HandleSummary, ConflictingSummary, PhaseNext, PhaseStart, PhaseEnd, FaultNext, WorkerFails,
   WorkerDies, LoseMessage, HandlerRaises, PromotePrimary, vars

\* Only the barrier and the next run decide about the verdict.
LEMMA VerdictRemains ==
  ASSUME [Next]_vars, ~PhaseEnd, ~RunRestart
  PROVE  verdict' = verdict
BY DEF Next, WorkerNext, StartStream, SendBatch, SendSummary, WorkerDone, PrimaryNext, HandleBatch,
   HandleSummary, ConflictingSummary, PhaseNext, PhaseStart, FaultNext, WorkerFails, WorkerDies,
   LoseMessage, HandlerRaises, PromotePrimary, vars

LEMMA PassedStep ==
  ASSUME PassInv, SpawnInv', GatesArePlanned', [Next]_vars
  PROVE  PassedMeansSpawned'
<1> USE DEF PassedMeansSpawned
<1>t. spawned' \subseteq Plan
  BY DEF SpawnInv, TypeInv, TypeOK
<1>1. CASE PhaseEnd
  <2> SUFFICES ASSUME verdict' = "passed"
               PROVE  spawned' = Plan /\ (GatesEnabled => gates' = {GateOf[c] : c \in CommonDeps})
    OBVIOUS
  <2>1. primary.summary # {} /\ phase = "running" /\ UNCHANGED <<spawned, gates>>
    BY <1>1 DEF PhaseEnd, Reconciled
  <2>2. spawned = Plan
    BY <2>1 DEF PassInv, SummaryFollows
  <2>3. GatesEnabled => \A c \in CommonDeps : GateOf[c] \in gates
    BY <2>2, PlanFacts DEF PassInv, SpawnInv, SpawnedAreGated
  <2> QED BY <2>1, <2>2, <2>3 DEF PassInv, GatesArePlanned
<1>2. CASE RunRestart
  BY <1>2 DEF RunRestart
<1>3. CASE ~PhaseEnd /\ ~RunRestart
  <2>1. verdict' = verdict
    BY <1>3, VerdictRemains
  <2> QED BY <1>t, <1>3, <2>1, SpawnedRemain DEF PassInv, GatesArePlanned
<1> QED BY <1>1, <1>2, <1>3

LEMMA InitPass == Init => PassInv
<1>1. Init => SummaryFollows /\ VerdictIsFinal /\ GatesArePlanned /\ PassedMeansSpawned
  BY DEF Init, SummaryFollows, Summaries, VerdictIsFinal, GatesArePlanned, PassedMeansSpawned
<1> QED BY <1>1, InitSpawn DEF PassInv

LEMMA PassKept ==
  ASSUME PassInv, ImportsKnown, InOrder, Budget["raised"] = 0, Budget["lost"] = 0, [Next]_vars
  PROVE  PassInv'
BY SpawnKept, SummaryStep, VerdictStep, GatesPlannedStep, PassedStep DEF PassInv

\* When the barrier passes the framework holds a build task for every descriptor of
\* the plan and a gate for every shared dependency, restarts with other batches,
\* promotions and an early end of the phase included.
THEOREM PassedAreSpawned ==
  ASSUME InOrder, Budget["raised"] = 0, Budget["lost"] = 0,
         Config.toolchain_outpaths \/ Config.disable_task_deps
  PROVE  Spec => []PassedMeansSpawned
<1>1. PassInv /\ [Next]_vars => PassInv'
  BY KnownImports, PassKept
<1>2. PassInv => PassedMeansSpawned
  BY DEF PassInv
<1> QED BY InitPass, <1>1, <1>2, PTL DEF Spec

\* Each step of the hand-off spawns tasks of the plan, concludes, starts another run,
\* or changes nothing the abstract hand-off speaks of.
LEMMA HandoffStep ==
  ASSUME PassInv, PassInv', [Next]_vars
  PROVE  [Contract!Next]_(Contract!handoffVars)
<1> USE DEF Contract!Next, Contract!handoffVars
<1>1. CASE RunRestart
  BY <1>1 DEF RunRestart, Contract!Restart, PassInv, VerdictIsFinal
<1>2. CASE PhaseEnd
  <2>1. verdict = "open" /\ verdict' \in {"passed", "raised", "skipped"} /\ UNCHANGED spawned
    BY <1>2 DEF PhaseEnd, PassInv, VerdictIsFinal
  <2>2. verdict' = "passed" => spawned = Plan
    BY <2>1 DEF PassInv, PassedMeansSpawned
  <2> QED BY <2>1, <2>2 DEF Contract!Conclude
<1>3. CASE ~PhaseEnd /\ ~RunRestart
  <2>1. verdict' = verdict
    BY <1>3, VerdictRemains
  <2>2. spawned' \in SUBSET Plan /\ spawned' = spawned \cup spawned'
    BY <1>3, SpawnedRemain DEF PassInv, SpawnInv, TypeInv, TypeOK
  <2> QED BY <2>1, <2>2 DEF Contract!Spawn
<1> QED BY <1>1, <1>2, <1>3

\* The streamed hand-off implements the abstract one: tasks of the plan appear, and
\* the phase is reconciled only when all of them are there.
THEOREM ImplementsHandoff ==
  ASSUME InOrder, Budget["raised"] = 0, Budget["lost"] = 0,
         Config.toolchain_outpaths \/ Config.disable_task_deps
  PROVE  Spec => RefinesHandoff
<1>1. Init => Contract!Init
  BY DEF Init, Contract!Init
<1>2. PassInv /\ [Next]_vars => PassInv'
  BY KnownImports, PassKept
<1>3. PassInv /\ PassInv' /\ [Next]_vars => [Contract!Next]_(Contract!handoffVars)
  BY HandoffStep
<1> QED BY InitPass, <1>1, <1>2, <1>3, PTL DEF Spec, RefinesHandoff, Contract!Spec

-------------------------------------------------------------------------------
\* A run without faults: the accounting then also works the other way, nothing that
\* was sent can be missing, and there is one summary.

SentIsKnown ==
  \A d \in 1..worker.sent : d \in counted \/ \E m \in Batches : d \in m.first..m.last

OneSummary ==
  /\ worker.stage # "failed"
  /\ phase # "idle" /\ worker.stage \in {"waiting", "streaming"} =>
       Summaries = {} /\ primary.summary = {}
  /\ worker.stage \in {"summarised", "done"} =>
       /\ worker.sent = PlanSize
       /\ \A m, n \in Summaries : m = n
       /\ Summaries = {} <=> primary.summary # {}

HealthInv ==
  /\ TypeInv
  /\ faults = NoFaults => BarrierInv /\ SentIsKnown /\ OneSummary
  /\ phase = "idle" => faults = NoFaults
  /\ NoFalseAlarm

LEMMA RecordedFault ==
  ASSUME TypeOK, NEW f \in FaultKinds, Record(f)
  PROVE  faults' # NoFaults
<1>1. faults[f] \in Nat /\ faults'[f] = faults[f] + 1
  BY DEF TypeOK, Record
<1> QED BY <1>1 DEF NoFaults

\* Faults of a run are not forgotten before the next one.
LEMMA FaultsRemain ==
  ASSUME TypeOK, [Next]_vars, ~RunRestart, faults' = NoFaults
  PROVE  /\ faults = NoFaults
         /\ ~FaultNext
         /\ PhaseEnd => inflight = {}
<1>1. ASSUME NEW f \in FaultKinds PROVE ~Record(f)
  BY <1>1, RecordedFault
<1>2. ~FaultNext
  BY <1>1 DEF FaultNext, WorkerFails, WorkerDies, LoseMessage, HandlerRaises, PromotePrimary, FaultKinds
<1>3. CASE PhaseEnd
  BY <1>1, <1>2, <1>3 DEF PhaseEnd, FaultKinds
<1>4. CASE ~PhaseEnd
  BY <1>2, <1>4 DEF Next, WorkerNext, StartStream, SendBatch, SendSummary, WorkerDone, PrimaryNext,
     HandleBatch, HandleSummary, ConflictingSummary, PhaseNext, PhaseStart, vars
<1> QED BY <1>2, <1>3, <1>4

LEMMA SentStep ==
  ASSUME TypeInv, SentIsKnown, IdleIsQuiet, [Next]_vars, ~RunRestart, ~FaultNext
  PROVE  SentIsKnown'
<1>t. worker.sent \in Nat
  BY PlanFacts DEF TypeInv, TypeOK
<1>1. CASE SendBatch
  <2>1. PICK last \in cuts :
          /\ inflight' = inflight \cup {BatchMessage(sends, worker.sent + 1, last)}
          /\ worker' = [worker EXCEPT !.sent = last, !.batches = @ + 1]
    BY <1>1 DEF SendBatch
  <2> DEFINE m == BatchMessage(sends, worker.sent + 1, last)
  <2>2. last \in Int /\ worker'.sent = last /\ counted' = counted
    <3>1. last \in Plan
      BY DEF TypeInv, TypeOK, Cuts
    <3>2. worker \in [stage : {"waiting", "streaming", "summarised", "done", "failed"},
                     sent : 0..PlanSize, batches : Nat]
      BY DEF TypeInv, TypeOK
    <3>3. worker'.sent = last
      BY <2>1, <3>2
    <3>4. counted' = counted
      BY <1>1 DEF SendBatch
    <3> QED BY <3>1, <3>3, <3>4, PlanFacts DEF Plan
  <2>3. Batches' = Batches \cup {m} /\ m.first = worker.sent + 1 /\ m.last = last
    BY <2>1 DEF Batches, BatchMessage
  <2> HIDE DEF m
  <2> SUFFICES ASSUME NEW d \in 1..last
               PROVE  d \in counted \/ \E n \in Batches' : d \in n.first..n.last
    BY <2>2 DEF SentIsKnown
  <2>4. CASE d <= worker.sent
    BY <1>t, <2>2, <2>3, <2>4 DEF SentIsKnown
  <2>5. CASE d > worker.sent
    <3>1. d \in m.first..m.last
      BY <1>t, <2>2, <2>3, <2>5
    <3> QED BY <2>3, <3>1
  <2> QED BY <1>t, <2>2, <2>4, <2>5
<1>2. CASE HandleBatch
  <2>1. PICK m \in Batches : counted' = counted \cup (m.first..m.last) /\ inflight' = inflight \ {m}
    BY <1>2 DEF HandleBatch
  <2>2. Batches' = Batches \ {m} /\ worker' = worker
    BY <1>2, <2>1 DEF Batches, HandleBatch
  <2> QED BY <2>1, <2>2 DEF SentIsKnown
<1>3. CASE HandleSummary \/ ConflictingSummary
  <2>1. Batches' = Batches /\ UNCHANGED <<worker, counted>>
    BY <1>3 DEF HandleSummary, ConflictingSummary, Batches, Summaries
  <2> QED BY <2>1 DEF SentIsKnown
<1>4. CASE StartStream \/ SendSummary \/ WorkerDone \/ PhaseNext \/ UNCHANGED vars
  <2>1. inflight \subseteq inflight' /\ counted' = counted /\ worker'.sent = worker.sent
    BY <1>4 DEF StartStream, SendSummary, WorkerDone, PhaseNext, PhaseStart, PhaseEnd, vars, TypeInv, TypeOK
  <2>2. Batches \subseteq Batches'
    BY <2>1 DEF Batches
  <2> QED BY <2>1, <2>2 DEF SentIsKnown
<1> QED BY <1>1, <1>2, <1>3, <1>4 DEF Next, WorkerNext, PrimaryNext

LEMMA SummaryOnce ==
  ASSUME TypeInv, OneSummary, IdleIsQuiet, [Next]_vars, ~RunRestart, ~FaultNext
  PROVE  OneSummary'
<1>t. /\ worker \in [stage : {"waiting", "streaming", "summarised", "done", "failed"},
                     sent : 0..PlanSize, batches : Nat]
      /\ primary \in [count : Nat, summary : SUBSET [total : Nat, batches : Nat],
                      gateIds : SUBSET GateIds, handle : BOOLEAN]
  BY DEF TypeInv, TypeOK
<1>1. CASE StartStream
  <2>1. /\ worker.stage = "waiting" /\ worker'.stage = "streaming" /\ phase = "running"
        /\ UNCHANGED <<primary, inflight>>
    BY <1>1, <1>t DEF StartStream
  <2>2. Summaries' = Summaries
    BY <2>1 DEF Summaries
  <2> QED BY <2>1, <2>2 DEF OneSummary
<1>2. CASE SendBatch
  <2>1. PICK last \in cuts :
          /\ inflight' = inflight \cup {BatchMessage(sends, worker.sent + 1, last)}
          /\ worker' = [worker EXCEPT !.sent = last, !.batches = @ + 1]
    BY <1>2 DEF SendBatch
  <2>2. worker'.stage = worker.stage /\ worker.stage = "streaming" /\ UNCHANGED <<primary, phase>>
    BY <1>2, <1>t, <2>1 DEF SendBatch
  <2>3. Summaries' = Summaries
    BY <2>1 DEF Summaries, BatchMessage
  <2> QED BY <2>2, <2>3 DEF OneSummary
<1>3. CASE SendSummary
  <2> DEFINE m == SummaryMessage(sends, worker.sent, worker.batches)
  <2>1. /\ worker.stage = "streaming" /\ worker'.stage = "summarised" /\ UNCHANGED primary
        /\ inflight' = inflight \cup {m} /\ worker'.sent = PlanSize
    BY <1>3, <1>t DEF SendSummary
  <2>2. phase # "idle"
    BY <2>1 DEF IdleIsQuiet, IdleWorker
  <2>3. Summaries' = Summaries \cup {m}
    BY <2>1 DEF Summaries, SummaryMessage
  <2>4. Summaries' = {m} /\ primary'.summary = {}
    BY <2>1, <2>2, <2>3 DEF OneSummary
  <2> QED BY <2>1, <2>4 DEF OneSummary
<1>4. CASE WorkerDone
  <2>1. /\ worker.stage = "summarised" /\ worker'.stage = "done" /\ UNCHANGED <<primary, inflight>>
        /\ worker'.sent = worker.sent
    BY <1>4, <1>t DEF WorkerDone
  <2>2. Summaries' = Summaries
    BY <2>1 DEF Summaries
  <2> QED BY <2>1, <2>2 DEF OneSummary
<1>5. CASE HandleBatch
  <2>1. PICK m \in Batches : /\ primary' = [primary EXCEPT !.count = @ + (m.last - m.first + 1),
                                              !.gateIds = @ \cup NewGates(m.first..m.last)]
                             /\ inflight' = inflight \ {m}
    BY <1>5 DEF HandleBatch
  <2>2. primary'.summary = primary.summary /\ UNCHANGED <<phase, worker>>
    BY <1>5, <1>t, <2>1 DEF HandleBatch
  <2>3. Summaries' = Summaries
    BY <2>1 DEF Summaries, Batches
  <2> QED BY <2>2, <2>3 DEF OneSummary
<1>6. CASE HandleSummary \/ ConflictingSummary
  <2>1. PICK m \in Summaries :
          /\ inflight' = inflight \ {m}
          /\ UNCHANGED <<phase, worker>>
          /\ \/ HandleSummary /\ primary' = [primary EXCEPT !.summary = {SummaryOf(m)}]
             \/ ~(primary.summary \subseteq {SummaryOf(m)}) /\ UNCHANGED primary
    BY <1>6 DEF HandleSummary, ConflictingSummary
  <2>2. Summaries' = Summaries \ {m}
    BY <2>1 DEF Summaries
  <2>3. phase # "idle"
    BY <2>1 DEF IdleIsQuiet, Summaries
  <2>4. worker.stage \in {"summarised", "done"} /\ primary.summary = {}
    BY <1>t, <2>1, <2>3 DEF OneSummary
  <2>5. Summaries' = {} /\ primary'.summary = {SummaryOf(m)}
    BY <1>t, <2>1, <2>2, <2>4 DEF OneSummary
  <2> QED BY <2>1, <2>4, <2>5 DEF OneSummary
<1>7. CASE PhaseStart
  <2>1. UNCHANGED <<worker, inflight>> /\ worker.stage = "waiting" /\ inflight = {} /\ primary'.summary = {}
    BY <1>7 DEF PhaseStart, IdleIsQuiet, IdleWorker, FreshPrimary
  <2>2. Summaries' = {}
    BY <2>1 DEF Summaries
  <2> QED BY <2>1, <2>2 DEF OneSummary
<1>8. CASE PhaseEnd \/ UNCHANGED vars
  <2>1. UNCHANGED <<worker, inflight, primary>> /\ (phase' # "idle" => phase # "idle")
    BY <1>8 DEF PhaseEnd, vars
  <2>2. Summaries' = Summaries
    BY <2>1 DEF Summaries
  <2> QED BY <2>1, <2>2 DEF OneSummary
<1> QED BY <1>1, <1>2, <1>3, <1>4, <1>5, <1>6, <1>7, <1>8 DEF Next, WorkerNext, PrimaryNext, PhaseNext

\* A phase that ends without faults finds the numbers equal.
LEMMA HealthyPhaseEnds ==
  ASSUME BarrierInv, SentIsKnown, OneSummary, PhaseEnd, inflight = {}
  PROVE  Reconciled
<1>1. Batches = {} /\ Summaries = {}
  BY DEF Batches, Summaries
<1>2. worker.stage = "done" /\ phase # "idle"
  BY DEF PhaseEnd, OneSummary
<1>3. worker.sent = PlanSize
  BY <1>2 DEF OneSummary
<1>4. PICK s \in primary.summary : s.total = PlanSize
  BY <1>1, <1>2 DEF OneSummary, BarrierInv, Accounting, SummariesTruthful
<1>5. counted = Plan
  BY <1>1, <1>3 DEF SentIsKnown, Plan, BarrierInv, TypeInv, TypeOK
<1>6. Cardinality(counted) = PlanSize
  BY <1>5, PlanFacts, FS_Interval DEF Plan
<1>7. primary.count = PlanSize
  BY <1>2, <1>6 DEF BarrierInv, Accounting, CountIsExact
<1> QED BY <1>4, <1>7 DEF Reconciled

LEMMA IdleIsHealthy ==
  ASSUME [Next]_vars, ~RunRestart, phase = "idle" => faults = NoFaults, phase' = "idle", IdleIsQuiet
  PROVE  faults' = NoFaults
<1>1. phase = "idle"
  <2>1. CASE PhaseNext
    BY <2>1 DEF PhaseNext, PhaseStart, PhaseEnd
  <2>2. CASE WorkerNext \/ PrimaryNext \/ UNCHANGED vars
    BY <2>2 DEF WorkerNext, StartStream, SendBatch, SendSummary, WorkerDone, PrimaryNext, HandleBatch,
       HandleSummary, ConflictingSummary, vars
  <2>3. CASE FaultNext
    BY <2>3 DEF FaultNext, WorkerFails, WorkerDies, LoseMessage, HandlerRaises, PromotePrimary
  <2> QED BY <2>1, <2>2, <2>3 DEF Next
<1>2. inflight = {} /\ faults = NoFaults
  BY <1>1 DEF IdleIsQuiet
<1>3. ~FaultNext
  BY <1>1, <1>2 DEF FaultNext, WorkerFails, WorkerDies, LoseMessage, HandlerRaises, PromotePrimary, WorkerActive
<1>4. ~PhaseNext
  BY <1>1 DEF PhaseNext, PhaseStart, PhaseEnd
<1>5. CASE WorkerNext \/ UNCHANGED vars
  BY <1>2, <1>5 DEF WorkerNext, StartStream, SendBatch, SendSummary, WorkerDone, vars
<1>6. CASE PrimaryNext
  BY <1>2, <1>6 DEF PrimaryNext, HandleBatch, HandleSummary, ConflictingSummary
<1> QED BY <1>3, <1>4, <1>5, <1>6 DEF Next

LEMMA HealthStep ==
  ASSUME HealthInv, [Next]_vars
  PROVE  HealthInv'
<1>t. TypeOK /\ TypeInv /\ TypeInv'
  BY TypeStep DEF HealthInv, TypeInv
<1>1. CASE RunRestart
  <2>1. /\ phase' = "idle" /\ worker' = IdleWorker /\ inflight' = {} /\ counted' = {} /\ verdict' = "open"
        /\ faults' = NoFaults
    BY <1>1 DEF RunRestart
  <2>2. Batches' = {} /\ Summaries' = {}
    BY <2>1 DEF Batches, Summaries
  <2>3. PiecesUnderWay' /\ SummariesTruthful' /\ PhasesSeparate' /\ PassedMeansHandled' /\ NoFalseAlarm'
    BY <2>1, <2>2 DEF PiecesUnderWay, SummariesTruthful, PhasesSeparate, PassedMeansHandled, NoFalseAlarm,
       IdleWorker
  <2>4. CountIsExact' /\ SentIsKnown' /\ OneSummary'
    BY <2>1, <2>2 DEF CountIsExact, SentIsKnown, OneSummary, IdleWorker
  <2> QED BY <1>t, <2>1, <2>3, <2>4 DEF HealthInv, BarrierInv, Accounting
<1>2. CASE ~RunRestart /\ faults' = NoFaults
  <2>1. faults = NoFaults /\ ~FaultNext /\ (PhaseEnd => inflight = {})
    BY <1>t, <1>2, FaultsRemain
  <2>2. BarrierInv /\ SentIsKnown /\ OneSummary /\ NoFalseAlarm
    BY <2>1 DEF HealthInv
  <2>3. IdleIsQuiet
    BY <2>2 DEF IdleIsQuiet, BarrierInv, Accounting, PhasesSeparate
  <2>4. BarrierInv'
    BY <1>2, <2>1, <2>2, HealthyBarrier DEF FaultNext
  <2>5. SentIsKnown' /\ OneSummary'
    BY <1>t, <1>2, <2>1, <2>2, <2>3, SentStep, SummaryOnce
  <2>6. verdict' # "raised"
    <3>1. CASE PhaseEnd
      BY <2>1, <2>2, <3>1, HealthyPhaseEnds DEF PhaseEnd
    <3>2. CASE ~PhaseEnd
      BY <1>2, <2>1, <2>2, <3>2, VerdictRemains DEF NoFalseAlarm
    <3> QED BY <3>1, <3>2
  <2> QED BY <1>t, <1>2, <2>4, <2>5, <2>6 DEF HealthInv, NoFalseAlarm
<1>3. CASE ~RunRestart /\ faults' # NoFaults
  <2>1. phase' # "idle"
    <3>1. IdleIsQuiet
      BY DEF HealthInv, BarrierInv, Accounting, PhasesSeparate, IdleIsQuiet
    <3> QED BY <1>3, <3>1, IdleIsHealthy DEF HealthInv
  <2> QED BY <1>t, <1>3, <2>1 DEF HealthInv, NoFalseAlarm
<1> QED BY <1>1, <1>2, <1>3

\* In a run without faults the barrier does not raise, in whatever order the messages
\* are handled and whatever earlier runs left in the primary.
THEOREM NoneRaised == Spec => []NoFalseAlarm
<1>1. Init => HealthInv
  <2>1. Init => SentIsKnown /\ OneSummary /\ NoFalseAlarm /\ faults = NoFaults
    BY DEF Init, SentIsKnown, OneSummary, NoFalseAlarm, IdleWorker
  <2> QED BY <2>1, InitType, InitBarrier DEF HealthInv
<1>2. HealthInv /\ [Next]_vars => HealthInv'
  BY HealthStep
<1>3. HealthInv => NoFalseAlarm
  BY DEF HealthInv
<1> QED BY <1>1, <1>2, <1>3, PTL DEF Spec

===============================================================================

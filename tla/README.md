# A TLA+ verification of asm-dataset-nix

The repository builds a corpus of assembler listings: packages times compilers
times flags, evaluated and built with nix on a SLURM cluster. The part with
logic of its own is `src/python/compiler_suit_runner`, a task definition
(`SuitTask`) that runs inside an external framework (`dynrunner`, not in the
repository): the framework owns the task table, the phases, the transport of
messages and the promotion of a new primary; this code supplies handlers,
workers and a set of peer-to-peer services. `src/template_graph` is the
library that turns derivation graphs into templates; `src/lib` and `src/nix`
are declarative nix expressions.

## Inventory

| component | source | state | operations | talks to |
|---|---|---|---|---|
| streamed spawn encoder | `streamed_spawn.py` | pending descriptors, their byte account, sequence number, totals | `add`, `flush`, `encode_summary` | called by the dependency_graph worker |
| streamed hand-off | `workers/dependency_graph_worker/run.py`, `suit_task.py` (handlers, phase hooks) | worker position; on the primary: count, summary, noted gate ids, primary handle | stream, relay, handle batch, handle summary, phase start, phase end | worker -> secondary -> primary messages; `spawn_tasks` |
| build tasks and import gates | `workers/build_worker.py`, `dependency_graph_worker/archive.py`, `suit_task.py` (`import_action`, descriptors, gates) | once-per-process flags, archives on the shared file system, local nix stores | `ensure_*`, import, build, publish | task table, shared file system |
| signing key | `peer_cache.py` 170-316 | two files on the shared file system | `generate_signing_key` | every node, same directory |
| peer list, placements, nix.conf | `peer_cache.py`, `peer_paths.py` | one announcement file and one placement file per peer, snapshots in watchers | announce, withdraw, prune, poll, diff | files; callbacks into replication |
| toolchain replication | `peer_replication.py`, `peer_push.py`, `peer_paths_fetch.py` | sender slots and timers, receiver targeting and cancellations, repair worker | offer, accept, reject, cancel, have, timeout, settle, repair | HTTP between nodes, placement files |
| broadcast flood | `BroadcastSender`, `BroadcastReceiver` | ids seen, outpaths announced | fan out, receive, fetch, cascade | HTTP between nodes |
| run lifecycle | `suit_task.py` `on_run_start`, `on_run_end` | handles of the services | start and stop in order | all peer services |
| planner | `dependency_graph_planner` | none (pure) | plan from the template graph | called by the dependency_graph worker |
| template graph | `src/template_graph` | parser state | stream, co-walk, merge | called by eval and dependency_graph workers |
| eval and compiler phases | `eval_worker.py`, `build_compilers_worker.py`, `partition.py`, `manifest_gen.py` | archives and sidecars they publish | realise, evaluate, export | nix subprocesses, shared file system |
| incremental cache, cachix | `incremental_cache.py`, `cachix_uploader.py` | entries on disk; `seen` set, stop event | look up, store, discard; list, push | checkout, nix store, cachix |
| command line, preflight, reports | `cli.py`, `preflight.py`, ... | archives and checksum sidecars on the gateway | enumerate, realise, upload, dispatch | nix and ssh subprocesses |
| prebuild, holding matcher | `prebuild.py`, `holding_matcher.py` | none | build, match | nix subprocesses |
| ssh debugging | `ssh_debug.py`, `ssh_debug_runner` | none shared | start sshd, tmux | operator |

What is hard here: the hand-off counts messages across a process that may be
restarted and a primary that may be replaced; the peer services are threads
that call each other over HTTP while holding locks, with timers that race with
answers; everything the nodes share are files that are created, polled and
deleted without a lock. `PROJECT.json` lists each hazard at its line with the
properties that cover it, or says why none does.

What makes each component correct:

- encoder: no message exceeds the byte cap or the count cap; nothing accepted
  is lost, duplicated or reordered; the summary counts what was emitted.
- hand-off: the barrier in `on_phase_end` passes only if every planned build
  task, and every import gate it names, exists; it never raises in a healthy
  run; every started phase concludes.
- gates: a build task starts only when the archives it imports are there and
  imported; without faults every kept variant of every binary is built.
- submission: what a dispatched run works with belongs to its own checkout and
  arguments, whatever the caches and earlier submissions left behind.
- signing key: all nodes end with one and the same pair, or with an error.
- watchers: the last snapshot converges to the files; no change is lost.
- replication: every built outpath reaches K holders while peers are left; a
  node recorded as holder holds a valid path; slots are released exactly once.
- flood: every reachable node gets an announcement at least once and handles
  it at most once; the number of messages is bounded.
- planner: a descriptor's dependencies come before it; a gate is planned for
  every dependency a build task waits for.
- template graph: every derivation printed has its place in the template.
- uploader: what it counts as seen was pushed or given up.

## What is modelled

| module | models | extends / instances |
|---|---|---|
| `PlanStream` | abstract: descriptors leave in order, in messages of 1 to `MaxBatchDescriptors`, and a summary only when all have left | |
| `SpawnBatchEncoder` | `SpawnBatchEncoder` of `streamed_spawn.py` | `INSTANCE PlanStream` |
| `Handoff` | abstract: tasks of the plan appear in any grouping; "passed" only when all are there | |
| `StreamedSpawn` | worker stream, relay, primary handlers, phase hooks, import gates | `INSTANCE Handoff` |
| `PeersDirectory` | the files of the shared directory of peers: the key's, the announcements, the placements | |
| `ClusterKey` | abstract: one key pair is chosen, once, and whoever holds a key holds that one | |
| `SigningKey` | `generate_signing_key` | `PeersDirectory`, `INSTANCE ClusterKey` |
| `PeerWatch` | peer and placement files, `PeerListWatcher`, `PathPlacementWatcher`, `PeerNixConfWatcher`, the pushes that wake them | `PeersDirectory` |
| `RunLifecycle` | `on_run_start` and `on_run_end` of every secondary, with the two modules above | `SigningKey`, `PeerWatch` |
| `Replication` | `ReplicationSender`, `ReplicationReceiver`, `ReplicationRepairWorker`, one outpath | |
| `SettleTimer` | the settle timer of `ReplicationSender` | |
| `BroadcastFlood` | `BroadcastSender`, `BroadcastReceiver`, `/push/broadcast` | |
| `ToolchainSplit` | `compute_toolchain_split`, `export_toolchain_split` | |
| `ArchiveStore` | archives on the shared file system, the nodes' nix stores | `ToolchainSplit` |
| `TaskPool` | the framework's task table, workers and gates, as this code uses them | `ArchiveStore` |
| `EarlyPhases` | tasks of the first three phases: `build_compilers`, `matrix_eval`, `dependency_graph` | `TaskPool` |
| `BuildPipeline` | `import_action`, `ensure_*`, `build_common_dep`, `build_variant` | `EarlyPhases` |
| `Submit` | `cmd_submit`: cache, enumeration, realisation, uploads, dispatch | |
| `CachixUploader` | the uploader thread | |
| `DependencyPlan` | merging the templates of the architectures, meta and cell tasks, what a variant depends on | |
| `TemplateGraph` | the streaming reader, template building, co-walk, classification | |
| `*Proofs` | proofs: `SpawnBatchEncoderProofs`, `StreamedSpawnProofs`, `ReplicationProofs`, `BuildPipelineProofs` about the module named, `RunLifecycleProofs` about `SigningKey`, `PeerWatch` and `RunLifecycle`, `SubmitterProofs` about `Submit` and `CachixUploader`, `PlannerProofs` about `TemplateGraph` and `DependencyPlan`, `PeerThreadsProofs` about `SettleTimer` and `BroadcastFlood` | the modules they are about, TLAPS |
| `MCSystem` | one instance for the components that share no state while they run: pipeline, submission, plan, template, flood, settle timer, uploader | these modules |
| other `MC*` | small instances | the module of the same name; `MCSingleToolchain` of `BuildPipeline` |

An operator whose comment begins "A mutant" or "Mutants" is not part of any
specification: it is a variant of a definition below it, with a mistake the
code could contain. `PROJECT.json` pairs each with the property that detects
it.

### SpawnBatchEncoder

One object, one caller, so the actions are its three public methods; a method
that returns several messages or raises is one step with `returned` as its
outcome. Descriptors are represented by the length of their JSON text
(`offsets` are the prefix sums of these lengths, so the length of any run of
descriptors is a difference), which is all the size account depends on. The
envelope is `EnvelopeBase` bytes plus the digits of the sequence number in base
`Radix`: the one place where a message grows without a descriptor being added.

### StreamedSpawn

| state | code |
|---|---|
| `worker` | position of `run_dependency_graph_task` in the stream |
| `cuts` | where the encoder cuts the plan; a restarted worker may cut elsewhere if `Repack` |
| `inflight`, `sends` | custom messages relayed but not handled, numbered in order of sending |
| `primary` | `_streamed_spawn_count`, `_streamed_spawn_summary`, `_spawned_common_dep_gate_ids` and whether a primary handle is bound |
| `spawned`, `gates` | build tasks and gate tasks in the framework's task table |
| `verdict` | how `on_phase_end` ended: passed, raised, or skipped without a handle |
| `counted` | history: the descriptors handled since the count was last reset |
| `faults` | faults of the current run, by kind |

A handler runs to completion in the framework's callback thread, so a handler
is one action. `spawn_tasks` accepts a task only if every dependency it names
exists (external, from the way the code reads its result). A raising handler
loses its effects on the framework but not on the Python object: that is
`HandlerRaises`, with or without the gate ids noted.

### Replication

The code keeps its state per outpath, in dictionaries, and no decision for one
outpath reads another's entry: the module follows one outpath.

| state | code |
|---|---|
| `status` | the node's run: up, stopping (`sender.stop`, `receiver.stop` done), gone (withdrawn), dead |
| `valid` | `is_path_locally_valid` |
| `records` | the outpath's entries in the placement files |
| `snap` | `PathPlacementWatcher`'s snapshot, behind `get_placements` |
| `told` | deaths the framework reported through `on_peer_removed` |
| `slots`, `armed` | `_in_flight[outpath]` and the timers that run |
| `push` | a loop of `_push_attempt_locked` in progress, and so the lock |
| `todo` | calls that wait for that lock: push, reject, timeout, path-have |
| `targeting`, `cancelled` | the receiver's dictionaries |
| `fetches` | `_do_fetch` threads by offerer; the same offer may be accepted twice |
| `recording` | threads past the locked section of `_do_fetch`, before `record_self_has` |

Two facts about the code shape the steps. The sender's lock is held through the
whole loop of offers, each of which is a synchronous POST: everything that
needs the lock waits, timers included, so a loop interleaves with the other
nodes but with nothing on its own sender. And the receiver answers *before* it
replies to the offer: a reject needs the lock its offer holds, so the offer of
a rejected path always runs into its deadline, counts as failed, and the
reject is handled when the loop is over (`OfferRejected`). A reject therefore
releases a slot only if the reject and the slot meet by another route.

### SigningKey, PeerWatch, RunLifecycle

The three compose: `RunLifecycle` extends the other two and drives both.

| state | code |
|---|---|
| `secretFile`, `publicFile` | `__signing-key` and `__public-key`; the secret is `Torn` between its exclusive creation and the end of its writing |
| `keyStage`, `keyPolls`, `keyHeld` | position inside `generate_signing_key`, reads of the losers' poll, the pair returned |
| `boot` | the incarnation of a node; each call generates a pair of its own |
| `announced`, `recorded` | `peers/<id>.json`, and `_paths_<id>.jsonl` naming the one path followed |
| `watch`, `wake` | the threads of the two watchers and their wake events |
| `peers`, `placed` | the watchers' snapshots |
| `conf` | what `PeerNixConfWatcher` last wrote and last saw |
| `heard` | history: peers whose push reached the node while their file was there |
| `stage`, `service` | the step of `on_run_start` or `on_run_end` that comes next; what was brought up |
| `store` | the nix store behind the node's daemon |
| `glitches` | failed calls and crashes so far |

A service that does not start is logged and the run goes on without it, so each
step of `on_run_start` has an outcome of success and one of failure. The
exception is a store registration that does not load: `on_run_start` raises,
half way through, and the caller logs that and runs tasks all the same
(`cli.py` 1828-1837). A watcher's loop is two steps, the wait that clears its
event and the refresh, because a push may fall between them. `withdraw_self`
unlinks two files: a failure of the first leaves both, one of the second the
placement file, and either ends the run "abandoned" instead of "ended".

### ArchiveStore, TaskPool, EarlyPhases, BuildPipeline

| state | code |
|---|---|
| `file` | each archive on the shared file system: absent, empty (a binary without variants) or whole |
| `sidecar`, `published` | the sidecar file and the task output that name a binary's aggregate derivation |
| `store` | the closures valid in a node's nix store |
| `status` | the framework's task table |
| `job`, `step` | the task of a node's worker and the step of it that comes next |
| `flagged` | the once-per-process flags of `build_worker.py` |
| `opened`, `broken` | import gates the framework has passed on a node, and those that failed for every node |
| `compiled`, `kept` | closure archives written by `build_compilers`; the variants kept of each binary |
| `mode` | prestaged, build inputs archived, `no_substituters` |

A closure is named by the archive that carries it, and `References` says which
closure an archive needs in the store before it can be imported: that relation
is what makes the order of the gates matter. How the framework treats tasks and
gates is external: a gate's action is called once per node, an `OSError` makes
it be called again, any other exception fails the gate and what depends on it;
gates are served in the order `_header_depends_on` lists them.

### Submit, CachixUploader

A result is represented by what it was computed from, the state of the checkout
and the arguments it depends on; the question of every cache is then whether an
entry is what its key says. `stage` follows `cmd_submit`; `remote` and
`checksum` are the archives on the gateway and the sidecars that let a later
submission skip an upload. `meddled` notes an edit of the checkout between the
making of the keys and the end of the enumeration, `mishaps` counts failing
tools, broken transfers, crashes and garbage collections. In the uploader,
`noticed` is `_seen`, `queue` the rest of `newly_added`, `inHand` the path being
pushed.

### DependencyPlan, TemplateGraph

`DependencyPlan` has no steps: its state is the input, a class or a derivation
for every role on every architecture, and the definitions are the planner's
pure functions. All variants of an architecture are treated alike. Its property
compares two things the code computes separately, the tasks that are planned
and the tasks a variant names.

`TemplateGraph` follows the text `nix-store --query --tree` prints for one
binary on one architecture. Derivations are numbers with a role; `refs` is the
dependency graph, `roots` the order of printing, `expanded` which derivations
were printed with their references; `nodes` and `rows` are the template and the
columns of the walked variants, `records` the inconsistencies recorded in lax
mode. The recursive walks are work lists, in the order of the recursion.

### BroadcastFlood, SettleTimer

`outbox` holds the jobs of a node's sender and receiver threads, `offers` the
requests under way with the position of their handler, `seenIds` the ids the
push server has seen. In `SettleTimer`, `armed` is the pending timer, `waiting`
the timers that have expired and wait for the lock, where nobody can cancel
them any more, `fired` the mark and `firing` the firings that have left the
lock.

## Runs

| run | cfg | bounds | shows |
|---|---|---|---|
| batch_encoder | `MCSpawnBatchEncoder` | byte cap 10, count cap 3, radix 2, up to 6 descriptors of 5 lengths | caps, account, refinement of `PlanStream` |
| handoff_barrier | `MCStreamedSpawnBarrier` | 4 descriptors, 3 of them shared dependencies over 2 gates, 2 runs, one fault of every kind but a restart, unordered delivery | the barrier never passes with a descriptor unhandled; never raises in a healthy run |
| handoff_ordered | `MCStreamedSpawnOrdered` | the same plan, 2 runs, ordered delivery, restart with another packing, promotion, failed task, early end | gates and variants exist when the barrier passes; refinement of `Handoff`; every phase concludes |
| handoff_without_outpaths | violation | no toolchain outpaths | tasks that name `import_common` are rejected and counted |
| handoff_retry_and_loss | violation | a restart and a loss | the restreamed prefix makes up for the lost batch |
| handoff_stale_gate | violation | a restart and a raising handler | noted gates that were never emitted |
| peer_services | `MCRunLifecycle` | 2 nodes, one boot and one poll each, one failure or crash, placement watcher on one node and nix.conf writable on the other, two kinds of host | one key; no push lost; a node that ended its run has left no file; every announced peer reaches nix.conf; refinement of `ClusterKey` |
| replication_faults | `MCReplicationFaults` | 3 nodes, K = 2, one builder, one fault of any kind but a timer, 2 fetches per pair | records, offers, targets and cancellations stay consistent |
| replication_timers | `MCReplicationTimers` | 3 nodes, K = 2, one builder, one timer that fires | no slot without a timer; no offer above K; rest means replicated |
| replication_unreachable | violation | one crash | a failed offer is never made again |
| components | `MCSystem` | see below | what each of seven components promises |
| single_toolchain | violation | one toolchain, one variant, no fault needed | the gate of a toolchain whose rest is empty fails |

The violation runs are disagreements between the code and what its comments
say; `PROJECT.json` "findings" quotes both sides.

The run components explores each component in behaviours of its own: the
variable `part`, chosen initially, says which component moves, and the others
rest in one fixed initial state. Their specifications share no variable, so
nothing is lost. The instances are

| part | instance | property |
|---|---|---|
| pipeline | 2 nodes, 2 binaries with a variant each, 2 toolchains that share a path, one fault anywhere, a run that evaluates and one that is prestaged, archives its build inputs and uses no substituters | `BuildsSeeTheirGraph`, `HealthyGatesOpen`, `PlanCoversEveryBinary`, `PipelineConcludes` |
| submit | 2 architectures, 3 command lines, 2 submissions, one edit, one mishap | `DispatchIsFresh` |
| plan | every plan of 3 architectures in 2 families with 2 roles | `SharedDependenciesAreAwaited` |
| template | 1920 pairs of a dependency graph over 13 derivations and an order of printing | `NothingLeftOver`, `CalibrationRetraces` |
| flood | 3 peers, one hop after the first, one disturbance, any peer lists (n1 announces, and knows n2 if it knows n3, without loss of generality) | `FloodSpreads` |
| settle | 2 holders, K = 2, 3 pushes, 2 expired timers | `PreferredToldOnce` |
| uploader | 3 paths, 2 attempts, 3 failures | `SeenIsUploaded` |

Why the bounds are enough. In the encoder, radix 2 makes the sequence number
grow a digit at the second and fourth message and cap 10 is hit exactly and
overshot by one with the lengths given, so both boundary cases occur within six
descriptors. In the hand-off, a batch boundary may fall before, between and
after the shared dependencies; two dependencies with one gate exercise the
deduplication; two runs exercise the reset. In replication three nodes with
K = 2 is the smallest instance with a choice of target and a second candidate
after a reject; the one builder makes the other two nodes interchangeable,
which is the symmetry used. A receiver runs at most `MaxThreads` fetches for one
sender, further ones being merged: two in the run about faults, where a fetch
may outlive its target and its cancellation, one in the run about timers, whose
properties do not look at fetches other than at rest. One fault at a time keeps
the instance within reach; the theorems hold for any number.

The key race needs a winner and a loser, and the poll's length only decides
when the loser gives up, so one poll is the shortest race with both outcomes;
restarts under an old name are beyond the run and covered by the proof. In the
pipeline the second node is what makes a gate of one node meet an archive or a
failure of the other; the second binary is the one whose derivations do not
contain the shared dependency; two toolchains are the fewest with a common part
that is not everything. Two submissions are the fewest with a cache that
outlives its run. In the flood three peers is the smallest network with a node
that is reached only over another, or over two at once. Two expired timers can
race for the lock, and the third push re-arms one after a firing was rolled
back.

`CHECK_DEADLOCK FALSE` is given where the system comes to an end: after the
last run of the hand-off, when the replication of the path is done, when all
nodes have ended their runs, and when the component of the behaviour is done.

### Fairness

- handoff_ordered, `EveryRunConcludes`: weak fairness of the worker (a running
  process), of the delivery of what the framework holds, of the start of a
  phase and of its end once nothing is in flight. No fault is obliged to happen
  or to stop happening, each is bounded by its budget.
- peer_services, `Federated`: the threads of a live node run, that is the next
  step of its start, the refresh and the wait of its list watcher, whose wait
  has a timeout, and the follower that copies the list to nix.conf. Nothing
  makes a node build, end or crash, and the property asks nothing of a node
  whose followers did not come up or one of whose writes failed.
- components, `PipelineConcludes`: a worker with a task goes on with it, and
  the framework assigns waiting tasks to idle workers. The property excuses
  runs in which a fault occurred, a gate broke, the dependency graph refused
  its inputs, or substituters are off (see below); in the others every planned
  task succeeds.
- components, `FloodSpreads`: threads with something to do go on. The property
  states its conditions (`FloodIsIdeal`): mutual peer lists, a connected
  network, enough hops, one announcer, no disturbance.

Replication has no fairness: instead of "eventually K holders", which an
unlucky sample can postpone, `RestMeansReplicated` says what must hold when
nothing is left to do. The settle timer has none either, because the code does
not promise that the primary is told (see below).

## Proofs

Everything below holds for every value of the constants that satisfies the
named assumptions of the modules (caps and lengths, the shape of a plan, finite
sets of nodes, K positive, names of archives that do not collide).

- **Encoder** (`SpawnBatchEncoderProofs`). `EncoderInv`, the conjunction of the
  invariants checked, is inductive: `MessageFits` for an emitted message follows
  from `PendingIsFlushable` before the call, which needs `AccountIsExact`, which
  needs that the pending descriptors are consecutive
  (`PendingIsTheRemainder`). The refinement to `PlanStream` maps each call to
  `Hold`, `Send` or `Close`.
- **Hand-off** (`StreamedSpawnProofs`). `BarrierSound`: if the worker is not
  restarted within a run (`Budget["died"] = 0`), a passed barrier means that
  every descriptor was handled. The barrier compares numbers, the property is
  about sets; `Accounting` is the bridge: batches under way are disjoint from
  each other and from what was counted, the count is the cardinality of the set
  counted, and every summary names the size of the plan. A subset of the plan
  with the plan's cardinality is the plan. The assumption is needed: the run
  handoff_retry_and_loss is the counterexample without it. The theorems about
  what is *spawned* allow restarts and promotions instead, and assume that no
  handler raises and that the gates of the discovery are known (outpaths given
  or dependencies disabled); again two violation runs show why. `GatesKept`: a
  gate the primary noted is one the framework holds, under loss and reordering
  too. `HandledAreSpawned`: with an ordered transport that loses nothing, a
  handled descriptor is a spawned task. Its invariant `SpawnInv` adds that
  whatever precedes a batch, or the worker's position, is spawned or in an
  earlier batch (`PrefixHeld`: a restarted worker streams from the start, behind
  what is still on its way), that a spawned shared dependency has its gate, and
  that nothing is under way between two runs. `PassedAreSpawned` and the
  refinement of the abstract hand-off (`ImplementsHandoff`) need one more idea,
  `SummaryFollows`: whatever a summary stands behind is spawned or in a batch
  before it, so that when the primary handles it the plan is spawned, and stays
  spawned when the surplus of a restart is counted. `NoneRaised` assumes
  nothing: as long as no fault occurred (`HealthInv`) what was streamed is known
  from the worker's position, there is one summary, and the count reaches its
  total before the phase may end.
- **Replication** (`ReplicationProofs`). `IInv` has six parts, each inductive
  with the ones before: types; records, snapshots and threads about to record
  are of nodes that have the path (`HoldersAreTrue`); a slot has a timer or its
  callback, and a node that is not up holds none (`TimersAreLive`); only a node
  with the path offers it; a target or a cancellation has its fetch
  (`ReceiversServe`); pushes only discount nodes reported dead
  (`ExclusionsAreDeaths`). `OffersFillTheGap`, an action property, follows from
  the last one and a cardinality argument about the targets of a push.
  `RestIsReplicated` is about runs whose only faults are timers. Its invariant
  says why the protocol cannot rest too early: as long as there is a holder at
  all, some holder is *responsible*. It waits for no node that holds the path by
  now, and either its snapshot does not yet show itself, or a push of its own is
  due, or the nodes it knows of and waits for are K, or all. The newest holder
  takes over: its own record is a change of its snapshot and so a push to come.
  At rest a responsible node waits for nobody, so the holders are K, or all.

- **Peer services** (`RunLifecycleProofs`). The core of the key race is
  `KeyWinnerIsAlone`: from the exclusive create to the publication one node is
  past it, the secret file is its own and there is no public half.
  `KeyAgreement` and the refinement of `ClusterKey` follow: `chosen` is the
  public file, and the one step that writes it is the winner's. Any crashes, any
  number of restarts under an old name. `RunFollowsRace` shows that a run drives
  the race as it is specified, so that both hold of whole runs as well.
  `PushIsNotLost` needs that a push counts only while the file it tells of is
  there (`FilesBehindPushes`), that nobody pushes to itself, and, for each
  watcher, that a peer which was heard of is in the snapshot unless the event is
  set or the refresh is still to come (`PeersUpToDate`, `PlacedUpToDate`).
  `DepartedLeavesNothing` is inductive with the types: a file is there only
  between the step that makes it and the step that takes it away.
- **Pipeline** (`BuildPipelineProofs`). Five invariants beside the types.
  `StoreInv`: the submitter's archives stay whole; a flag or an open gate
  without an import is of a kind set first, after a fault; a store with a
  binary's derivations has the toolchain's; a build that is past its gates has
  them open. It gives `BuildsSeeTheirGraph`. `JobInv`: a task runs on one node,
  and a phase's tasks have ended when the next phase's run. `PlanInv`: a
  binary's archive and aggregate are those of the variants kept, also when an
  earlier attempt kept others, and the dependency graph saw all of them. It
  gives `PlanCoversEveryBinary`. `GateInv`: without faults the shared
  dependency's archive is whole when its task is done. With `StoreInv` it gives
  `HealthyGatesOpen`. `RestInv` says what holds a task up: a running task has a
  worker, a worker's step is one of its task (`StepsFit`), tasks are spawned
  together with what they wait for (`SpawnedTogether`), without faults and broken
  gates nothing fails but a graph whose inputs are refused, and a graph past its
  stream has spawned all it planned, which no later step changes because the
  evaluations have ended. It gives `PipelineRestsConcluded`: on at least one
  node, when no worker goes on and no idle worker is given a task, no task runs
  and every task that waits depends on one that failed or on a broken gate
  (`NoneStranded`); without faults and broken gates the graph then refused its
  inputs, or the shared dependency and all of the plan were built
  (`RestIsConclusion`). Its core is `GatesGoOn`: the order `_header_depends_on`
  lists the gates in has no cycle, so a worker at its gates always has one to
  pass, whatever was opened or broken before. `AtRest` spells out the guards of
  `EarlyStep`, `BuildStep` and `Assign`, because the prover has no ENABLED; TLC
  found the two equal, and the invariant and both conclusions to hold, on the
  instance of `MCSystem` with every mode and one fault. They are proved only,
  and checked in no run of their own: the run's `PipelineConcludes` adds that a
  pipeline with fair workers does conclude.
- **Submission and uploader** (`SubmitterProofs`). `DispatchIsFresh` rests on
  `HonestCache` (entries were computed from what their key says, or, after a
  mishap, from fewer architectures), on the keys being those of the checkout
  while it is enumerated, and on an account of what has been sent:
  `SidecarsAgree` is what lets a later submission trust a sidecar.
  `SeenIsUploaded` needs only that, during a round, what is seen and not pushed
  is still queued (`SeenIsPending`). The types of both (`SubmitTypeCorrect`,
  `UploaderTypeCorrect`) come first; the uploader's need that a push in hand has
  an attempt left.
- **Planner** (`PlannerProofs`). `SharedDependenciesAreAwaited` by cases on where
  the merged template puts a shared dependency: gated for all, for a family, or
  at the cell. `NothingLeftOver` is about every graph of references, every order
  of printing and any number of variants. `GapInv` says where a derivation that
  is left over can be: in a variant that is yet to be walked, or in the one being
  walked. Of the current walk it says that there is a set S of derivations done
  with, none of which is left over (`Covers`). S has the root once it was
  visited; what a member of S refers to is in S or on the work list (`Spreads`);
  S has the derivation in the row of every visited node (`SeenCovered`), so that
  a revisit with the same derivation loses nothing; at a visited node where
  walks end it has all derivations met with the node's role (`StopsCovered`, by
  the condition `OneStopEach`); and while an extension goes on it has the
  derivations of the nodes that the extension may share (`SharedCovered`). When
  the work list is empty S is closed under references and has the root; from the
  root all that was printed for the variant is reached (`AllReached`, a fact
  about the reader), so nothing of the variant is left over. The types
  (`TemplateTypeCorrect`) come first. The fixpoint that collects a subtree is
  computed in as many rounds as there are derivations; that this is enough, and
  that it gives the least closed set, is proved from the cardinality of the sets
  of the rounds, as are the facts about sorted sequences and flattened ones.
  `CalibrationRetraces` compares two walks over the same graph: the builder's,
  which pairs the children of two derivations, and the co-walk's, which pairs the
  children of one with the nodes. It holds in every state, whatever else was
  recorded (`PairsAreRetraced`); `RetraceInv` says why. A node made from two
  different derivations below a role that both have references of is one of the
  pairs of that role, and the children of the role are in the order of the
  identities (`PairsAt`). While the builder works, each such pair is a child or
  on the work list, behind the smaller ones (`BuildPairs`); when it is done all
  of them are children (`AllPaired`). So the i-th child of the role in the
  template and the i-th reference of the variant are the same pair: two
  increasing sequences with the same members are equal (`SameIncreasing`). Of
  the walks of the first two variants it says that a pair on the work list
  carries the variant's own derivation (`ItemRetraces`), and that no node is
  walked twice below one parent (`Apart`), which is what lets a revisit that
  clones a node replace it among its siblings without disturbing their order. An
  extension goes below a role without pairs, and the nodes it makes stand for one
  derivation. Later variants append columns only. `InOrder` fixes the order of
  all this: the first two variants are read, built from and walked as the first
  two columns. TLC checked `RetraceInv` before it was proved.
- **Threads of a secondary** (`PeerThreadsProofs`). `PreferredToldOnce` from "the
  path is marked while a firing is under way and once the primary was told";
  `OneHandlerPerBroadcast` from "an id being handled, or passed on, is in the
  seen set". `FloodRestsLast`: under the conditions of `FloodReaches`, and while
  nothing disturbs it, the flood rests only when every peer has the path, for
  every connected network. Its invariant says that an offer of some hops has
  passed that many holders (`HopsAreHolders`), so that a node out of hops is one
  of the last two, and that an offer is owed on every link from a node with the
  path to one without (`OffersAreOwed`). At rest nothing is owed, so no link
  leaves the set of the holders, and the network is connected. The last two are
  proved only, and checked in no run of their own: the run's `FloodSpreads` adds
  that a flood with fair threads does come to rest.

Only model-checked: the liveness properties (`EveryRunConcludes`, `Federated`,
`PipelineConcludes`, `FloodSpreads`), for which the prover has no rules, and
`TypeOK` of `MCSystem` as one formula: its parts are proved component by
component. The plan has no steps, and so no types to keep.

## What the models brought up

Beside the findings:

- A reject always costs the offerer its HTTP deadline (see above). A node that
  has the path without a record (its `record_self_has` failed) is offered again
  after every reject: reject and retry may go on for ever.
- `on_accept` changes nothing, so a slot's timer fires during a fetch that
  takes longer than the timeout; the path is then offered to a further peer,
  or to the same one, which starts a second fetch. The path may so get more
  than K holders: `OffersFillTheGap` bounds what one sender knows of, not the
  number of holders.
- The exclusion of a reported death is not remembered: the retry after a reject
  counts the dead node as a holder again.
- A fetch that ends just before the stop may write its record after the
  withdrawal, and leave the placement file of a departed node.
- After a settle firing that was rolled back no timer runs until another node
  announces the path: that the primary is told is not promised.

Peer services:

- The withdrawal is pushed before `withdraw_self` unlinks the file: peers it
  wakes still read the node, and drop it at their next 60 s tick. `prune_stale`
  has no caller.
- When the second unlink of `withdraw_self` fails the placement file of a node
  outlives its peer file, and a peer's snapshot goes on to count the node as a
  holder (the failure is logged and the run ends, see "abandoned" above).
- A failed write of nix.conf is not repeated until the list changes.
- If the winner of the key race dies before it has published, nobody else gets
  a key, and a node without a key starts neither the nix daemon, with its store
  registration, nor harmonia.
- Diffs seen between the start of the placement watcher and
  `register_diff_callback` reach no callback.
- `cli.py` 1821-1827 calls the hook idempotent; after it raised it is not, and a
  failed registration, "LOUD by design" in `suit_task.py` 2404-2412, is logged
  by the caller (`cli.py` 1828-1837), which goes on to run tasks on that store.
- The flood: a node that cannot name the sender, or whose fetch fails, has used
  up the id and is not reached over another neighbour; a node that has the path
  passes nothing on. No code in the repository announces a broadcast: only the
  receiver is started.

Pipeline:

- With build inputs archived, the build tasks are streamed before the archive
  is written, and BUILD has no phase barrier: a gate may run before its
  archive is there, and then fails for good. The archive may also be skipped
  altogether. It leaves out all toolchain closures, while a node imports only
  those its tasks name.
- An `OSError` in a gate makes it be called again. All kinds but the binary's
  set their flag before importing, so the second call opens the gate without an
  import; with substituters off the dry-run assertion then fails on that node
  for ever, recoverably. `ensure_toolchain_archive_imported` takes an `OSError`
  of `stat` for an absent file.
- Gates carry no dependencies among themselves although their archives need an
  order: the model assumes the order in which they are listed.
- `build_common_dep` has no gate on the binary's archive that contains its
  derivation. `import_action` passes no expected outpath. A publication that
  fails, which is best effort, breaks the gate on the producer's node as well.
- Failures of `build_compilers` are "retry-eligible" in its docstring and
  raise `NonRecoverableError` (`build_worker.py` 2319-2344); the skip goes by
  architecture and label, not by derivation.
- Exporters of one archive share the name of the temporary file: two that
  overlap can publish a partial one.
- A binary without variants is a "valid outcome" of its evaluation, and makes
  the dependency graph fail (`build_worker.py` 2497-2502). Error lines of
  nix-eval-jobs drop variants and toolchains silently, and the incremental
  cache keeps what was left.
- A prestaged run plans whatever archives it finds: one without a sidecar (a
  crash between the two) is a `FileNotFoundError`, a left-over one is a binary
  without gates.
- A toolchain whose requisites query fails is left out of the split while its
  gate is emitted all the same.

Submission:

- The cache key uses `git diff`, so staged edits do not change it; an edit
  between key and enumeration is stored under the old key; an enumeration that
  lost a toolchain is kept as the result.
- A concurrent submission may remove an entry just stored, and two may leave
  a sidecar that does not belong to its archive: submissions are modelled one
  after the other.

Planner and template graph:

- One derivation may have several tasks, one per binary and scope, although
  `plan_phase4_from_graph` says ids are keyed on the identity only; their gates
  share one id.
- A derivation gated for one family is skipped at the cell on other
  architectures, without a dependency: the exception `OtherFamilyOnly`.
- Only the first two variants classify the nodes, although `classify_pair` and
  `plan_cell.py` speak of all.
- Children of a derivation that both calibration variants have, or that only one
  of them has, are put into the template in the order of printing, one by one
  (`_walk_pair_node`); the co-walk pairs the children of a role in the order of
  their identities. Two of one role may so change places between template and
  walk, unrecorded when what is below them has the same roles.
  `CalibrationRetraces` therefore speaks of nodes made from two different
  derivations; said of all nodes it fails in the run's instance.
- A node at which walks end (a standard environment, a compiler wrapper, a
  source) takes what is below the first derivation it is visited with off the
  list of derivations to be classified, and a revisit with another derivation
  does nothing (`cowalk_variant.py` 249-252). A variant with two derivations of
  such a role, as the two compiler wrappers that share one role on purpose
  (`role.py`), so ends with derivations left over that no other record
  explains: the "algorithm gap" of `finalize.py` 170-184, recorded in lax mode
  and raised in strict mode. Hence the condition `OneStopEach` of
  `NothingLeftOver`; the run's instance contains such variants, and without the
  condition the property fails in it.

## Not modelled

- HTTP, JSON, authentication headers and logging; the wire format is its
  outcome. A reply that is neither a success nor late counts as a failed POST.
- `_maybe_mark_unfulfillable`: it reads placements and tells the framework, and
  changes nothing here.
- `partition.py`, `manifest_gen.py`: sizing of partitions and rendering of nix
  text, sequential and without shared state.
- The processes of nix-eval-jobs, nix-store and harmonia, and the retries inside
  `build_attr`: each is the outcome of its step.
- In the planner, the contents of descriptors, the cycle check and the counters;
  in the template graph, the sharing of a template between architectures, the
  sum derivation and the dot output. The template of each architecture is the
  input of `DependencyPlan`.
- Argument parsing, the compiler flag and support tables, reports.
- `prebuild.py` and `holding_matcher.py`: a thin driver of nix build and a pure
  text matcher.
- The ssh tools: they start sshd and tmux for an operator and keep no state the
  other components read.
- The nix expressions: declarative.

Parts of a component that are left out are named in its note in `PROJECT.json`.

## Plan

Done: the hand-off and its encoder, replication with its settle timer, the key
and the peer services through a run's start and end, the pipeline from the
archives to the builds, the submission, the planner, the template graph on one
architecture, the flood and the uploader.

What could follow, in this order:

1. The template of a binary over several architectures
   (`find_or_register_template`), between `TemplateGraph` and `DependencyPlan`.
2. `partition.py` as operators, against a reference definition.
3. A larger pipeline: two shared dependencies of different binaries, and
   prestaged runs with an archive of build inputs switched separately.

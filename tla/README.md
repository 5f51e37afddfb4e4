# A TLA+ verification project for PhyAI

PhyAI is an inference engine for physical-AI policies. Most of its lines are
numerical (models, layers, kernels); what can go wrong in an *order* of events
is concentrated in a few places, which this project models: the process server
that spreads an engine over GPU worker processes (`phyai/src/phyai/server`,
with the parallel layout it starts from), the engine itself, whose weights can
be replaced while it serves (`phyai/src/phyai/engine.py`), the choice of kernels
with its caches (`phyai/src/phyai/kernel`), the C++ prefix cache
(`phyai-ext/csrc/radix_cache`), and the gateway between robots and model servers
(`phyai-gateway`). Of the numerical code it models the index arithmetic that
spreads weights over ranks.

## Inventory

| Component | State it keeps | Operations | Hard behaviour | What makes it correct |
|---|---|---|---|---|
| Worker supervisor (`server/worker_supervisor.py`) | lifecycle state, request table, in-flight counters, locks, one-shot shutdown | `submit`, `_monitor_loop`, `_record_result`, `_mark_failed`, `close`, `_shutdown_workers` | monitor, submitters and closers interleave; processes crash, hang, block in pipes | one outcome per request, exact counters, agreement of ranks, nothing left running |
| Worker process (`_worker_main`) | command being executed | HELLO, READY, execute loop, shutdown | dies anywhere, also mid-write | answers come from every rank |
| Startup handshake (`start`, `_wait_until_ready`) | per-worker startup state | spawn, hello, ready, timeout | partial spawn, early exit, READY of a dead worker | RUNNING only with all workers ready; a failed start leaves no process |
| Deployment plan and parallel layout (`server/deployment.py`, `parallel/config.py`, `parallel/layout.py`) | - (pure) | `infer_replica_world_size`, `resolve`, `build_rank_layout`, `build`, `workers_for_node` | sizes given and omitted in every combination, replicas across nodes | the smallest world, thirteen families that partition it, one slot per rank |
| Request dispatcher (`server/dispatcher.py`) | executors, cursor, setup flag | `setup`, `submit`, `close` | health and load are read twice without a lock | fewest in flight, fair ties, unavailable only when it is |
| Executors (`server/executor.py`) | FIFO of work, shared supervisor | `submit`, `step`, `close` | worker thread against synchronous callers, exceptions in a wait | each item runs once, in order; close cancels the queue |
| Engine (`engine.py`, hot updates of `models/pi05/main_pi05.py`) | model lock, update state, version, plugin session | `step`, `rollout_step`, `begin`/`update`/`finish`/`abort_weight_update`, `close` | a lock taken by one call and released by another; updates that fail half-way; close during either | steps run on whole weights of one version; the lock is never lost |
| Radix prefix cache (`phyai-ext/csrc/radix_cache`) | tree of pages, units per tier, locks, transfers in flight | `match`, `insert`, `lock`, `ensure_capacity`, `evict_by_predicate`, `start_demote`, `start_promote`, `complete_op`, `fail_all_inflight` | splits under locks and under transfers, every order of eviction | the right units for a prefix, none lost, pinned ones stay |
| Gateway registry, health monitor, client (`services`, `clients`) | server records, leases, heartbeats, probes, channels | `Register`, `Heartbeat`, `add_backend`, `remove_backend`, `check_once`, `infer`, `close` | calls in flight across expiry, removal and re-registration | leases match calls, one record per backend, no channel closed under a call |
| LeRobot adapter (`adapters/lerobot.py`) | session: setup, pending observation, closed | `Ready`, `SendPolicyInstructions`, `SendObservations`, `GetActions` | decoding and inference outside the lock, waits, cancellation | an observation is used once and only under its setup |
| Kernel selection (`kernel/`) | catalog, policy, cache and measurements of a selector, memo and frozen choices of each call site | `select`, `explain`, `freeze_kernel_choices`, `unfreeze_kernel_choices`, `initialize_kernel_system`, `reset_kernel_selector`, `configure_humanwam_goal_kernels` | three layers of caches over a catalog, a policy and a selector that are replaced | a remembered choice is the one that would be made now; graphs hold only kernels that can be captured |
| Weight shards (`weights/shards.py`, `layers/linear`, `layers/transformer_block.py`, `layers/vocab_embedding`) | - (pure) | `sharded`, `packed_sharded`, `fused`, `vocab`, and the sizes layers give them | sizes that divide evenly in one way and not in another, more ranks than heads, padding | each head, feature and token is on one rank and meets its partners there |
| KV pools, IPC buffers, CUDA graphs, vGPU, collectives, and the rest of models, layers and kernels | | | numerical, driver or application | not modelled, see the end |

The parts meet like this: `Engine` builds a `RequestDispatcher` over one
executor per replica. An inline executor owns an `EngineCore`; managed executors
share one `WorkerSupervisor`, which starts one process per rank of the
`DeploymentPlan` and talks to each over a duplex pipe with the messages of
`process_protocol.py`. The gateway treats a whole engine as one backend.

PROJECT.json lists, under "hazards", where each of these is hard to test.

## Plan

1. `WorkerSupervisor` with its abstract specification `FailFastService`, and
   theorems about its types, futures and accounting (done).
2. `WorkerStartup` and `DeploymentPlan`: what is started, and how (done).
3. `RequestDispatcher`, `InlineExecutor`, `EngineCore` and their composition
   `InlineEngine` (done).
4. `PrefixCache` (done, but for the mamba slots of the hybrid cache).
5. `Gateway` and `LeRobotSession` (done).
6. `WeightShards` and `KernelSelection`, the parts of layers and kernels that are
   not numerical (done).
7. Theorems: the supervisor with its refinement of `FailFastService`, the
   startup, the dispatcher, the executor with the engine core, the gateway, the
   LeRobot session, the weight shards, the deployment plan, the kernel selection
   and the prefix cache (done: every safety property that a passing run checks
   is proved; what is left to TLC is named at the end of Proofs).

## Modules

### WorkerSupervisor

Models `worker_supervisor.py` from the return of `start()` on. Threads of the
parent are the monitor, the callers of `submit()` (`Client`) and the callers of
`close()` (`Closer`). Each has a program counter `pc`; a critical section of
`_state_lock` is one action, as are the steps between two of them:

| Code | Actions |
|---|---|
| `submit` | `Submit` (the locked part), `SendLock`, `SendPut`, `SendReturn` (per rank), `SendBroken`, `SendUnpicklable` |
| `_mark_failed` | `MarkFailed` (locked part), `Resolve` (futures, monitor stop, entry of `_shutdown_workers`) |
| `close` | `CloseBegin`, `Resolve`, `CloseFinal` |
| `_shutdown_workers` | `ShutdownWait` (not the owner), `ShutdownSend`, `Reap` (join, terminate, kill, close, release waiters) |
| `_monitor_loop` | `MonitorWait`, `MonitorEof`, `MonitorRecv`, `MonitorSweep`, `MonitorExit` |
| `_record_result` | `RecordReject`, `RecordResult` (locked), `Complete` (set_result, unlocked) |
| `_worker_main` | `WorkerRecv`, `WorkerResult`, `WorkerSent`, `WorkerStop`, `WorkerRaises` |

The environment adds `WorkersCrash` (one process, or all of them when the thread
that started them ends: PR_SET_PDEATHSIG is a matter of threads), `WorkerHang`
and `Expire` (the clock passes a deadline).

Data is abstracted: a payload is its request id, an error is the word "error",
a plan is the two functions `ReplicaOf` and `OutputOf`. Pipes are sequences of
messages. A send returns once at most `PipeSlots` payload messages are unread:
`PipeSlots = 0` is a payload larger than the kernel buffer (lists, bytes and
arrays are pickled into the pipe; tensors travel as handles and fit). Ranks of
a replica meet in collectives, so a rank finishes a request only when all ranks
of its replica have taken it. A process that dies while a payload is half
written leaves a truncated message, which the parent never sees as one.

Simplifications. After `_mark_failed` the monitor goes to the top of its
loop instead of finishing its iteration: in FAILED and STOPPED the rest of the
iteration changes nothing. The `except BaseException` of a receive
(worker_supervisor.py:672-682) does what the branch for a closed pipe does, and
is not a step of its own. The wait of a non-owner in `_shutdown_workers` is
longer than every bounded step of the owner, so it times out only while the
owner waits for the send lock, which has no bound; the model leaves out that it
might expire earlier. A process that was killed is dead: the entry "survived
termination" of the shutdown failures (931-934), for a process that the kernel
does not end within a second, is not modelled. That a rank finishes only what
all ranks have taken is an assumption on the collectives, and the part of
`ResultFromAllRanks` that every rank took the request leans on it; that every
rank finished it does not.

### FailFastService

What the callers are promised: a request is accepted only while the group
serves, gets one outcome, and the step that ends service fails everything that
waits. `WorkerSupervisor` implements it under `StatusOf`: the outcome of a
request is decided in the critical section that takes it from `_pending`, before
its Future is touched. `ImplementsService` states the refinement.

### WorkerStartup

Models `start()` and `_wait_until_ready` with the part of `_worker_main` before
the command loop. `start()` runs in one thread and never overlaps with `close()`,
so `pc` is a single program counter: `_SharedManager` calls `start()` under its
lock and only while `_closed` is not set; `release()` sets `_closed` under that
lock before it calls `close()` outside of it. A `start()` has then returned, and
none begins.

| Code | Actions |
|---|---|
| `start` | `Start`, `Spawn`, `SpawnFails`, `Spawned`, `Launch`, `Abort` (forced shutdown of what was started, FAILED) |
| `_wait_until_ready` | `Await` (what `wait()` reports is a snapshot), `AwaitExpired`, `Read`, `CheckSentinels` |
| `_handle_startup_message` | `Handshake`: the pairs of startup state and message it accepts |
| `_worker_main` | `WorkerHello`, `WorkerReady`, `WorkerRaises` |

`WorkerCrashes` and `Expire` are the environment. A worker that hangs is one
that takes no step: nothing is assumed of workers.

### RequestDispatcher

Models `RequestDispatcher` over the `MultiprocessExecutor`s of one managed
deployment and their `_SharedManager`. The supervisor behind them is reduced to
what they see: a lifecycle state `mgr` and a load per replica (`WorkerStartup`
and `WorkerSupervisor` model the inside).

| Code | Actions |
|---|---|
| `submit`/`step`, `_select` | `SubmitBegin`, `ReadHealth`, `ReadMinimum`, `ReadEligible` (one executor each: nothing is locked), `Pick`, `PickAsserts`, `AssertReturns` |
| `setup` | `SetupBegin`, `SetupDone`, `SetupFailed` |
| `close` | `CloseBegin`, `CloseExecutor`, `Release`, `ManagerClose` |
| `MultiprocessExecutor.submit`, `.start` | `ExecutorSubmit`, `ExecutorStart`, `ManagerSubmit` |
| `_SharedManager.start` | `SharedStart`, `StartSucceeds`, `StartFails` |

`ManagerCompletes` and `ManagerFails` stand for the supervisor. `skipped` is
history: how many selections in a row passed over a replica that was eligible
in each.

### InlineExecutor

Models the executor that runs in the calling process. Everything it shares is
guarded by one condition variable, so an action is a section between two points
where a thread releases it; `waiting` is the set of threads in `wait()` and
`notify_all` empties it. Items are numbered in the order in which the queue
accepted them; the future of an item is "sync" when it belongs to a `step()`.

| Code | Actions |
|---|---|
| `step` | `StepCall`, `StepTurn`, `StepDone`; `StepInterrupt` (an exception in `wait()`) |
| `submit` | `Submit` (starts the worker thread), `Cancel` (the caller's) |
| `_worker_loop` | `WorkerLoop`, `WorkerClaim`, `WorkerResult`, `WorkerRelease` |
| `close` | `CloseCall`, `CloseDrain`, `CloseCancel`, `CloseJoin`, `CloseDone` |

An interrupted `step()` leaves its item in the queue: nobody takes it, and
nobody overtakes it. Done callbacks, which run in the worker thread between
`WorkerResult` and `WorkerRelease`, are not modelled.

### EngineCore

Models the calls of `EngineCore` that share its two locks, over the plugin of
PI0.5. `_weight_update_lock` is held within one call, so program points tell
whether it is free; `_model_lock` is a variable, because `begin` leaves it held.

| Code | Actions |
|---|---|
| `step`, `rollout_step` | `CoreEnter`, `CoreLeave` |
| `begin_weight_update` | `BeginLock`, `BeginModel`, `BeginEntry` |
| `update_weights` | `UpdateLock` (dirty), `Load` (`WeightLoadSession.load`: no tensor matches, the batch is written, or it raises half-way) |
| `finish_weight_update` | `FinishLock`, `Finish` |
| `abort_weight_update` | `Abort` |
| `close` | `CoreClose` (aborts an update), `CloseModel`, `CloseEntry` |

`weights` is the version in memory, or `Partial` once a tensor of another one
has been written: abort does not undo that, so the core is poisoned. It is
`Torn` once a batch has raised after some of its tensors were written. The state
of the engine is "dirty" in both cases, and `finish` does not tell them apart:
after a torn batch it commits a version all the same, whose weights are `Mixed`
(finding 6). `WholeWeights` excepts `Mixed` and nothing else, so it still says
that a failed finish, an abort and a close() let no step run on what was written.

### InlineEngine

Composes the two behind the facade `Engine`. Executor threads at "exec" and
"core" call `core.step()` and `core.close()` (`Enter`, `Return`); trainers call
the facade (`TrainerCall`), which lets rollouts and updates past the executor
and refuses everything once `close()` was called. `RequestsEnd`, `CloseReturns`
and `TrainersReturn` are about the composition, and name two exceptions:
`AbandonedAhead` (behind the item of an interrupted `step()`) and `Stuck`
(finding 5). `RequestsEnd` is about each item by itself: `Unanswered(i)` is an
open future or a `step()` that has not returned.

### DeploymentPlan

Pure functions: `Infer` and `Resolve` (`ParallelConfig`), `Layout`
(`build_rank_layout`), `Build` (`DeploymentPlan.build`). What a user may write
down is a pair of variables that never change, so that TLC visits every one of
them. A domain is the sequence of its sizes; devices are numbered in the order
they are listed, whatever their indices. `MaxNodes`, `MaxDevices` and the sets of
sizes only bound what TLC visits: the functions have no bounds, and the theorems
are about them. The loops over sizes are recursive functions (`ProductTo`,
`Local`), and the slots of `build()` are numbered by how many devices come
before (`Before`), so that they can be reasoned about.

### WeightShards

Pure functions as well: the loaders of `shards.py` (`Sharded`, `PackedSharded`,
`Fused`, `Vocab`) and the sizes and offsets the layers configure them with
(`QkvLegs`, `MergedLegs`, `PadVocab`, `Bounds`). A tensor is the sequence of its
rows, and a row is the tensor's name and a number, so that a property can say
which rows of the checkpoint meet on a rank. `BlockAccepted` is the conjunction
of the errors that the constructors and loaders raise: `HeadsMeet` shows that
what they let through is right.

### KernelSelection

Models how a call finds its kernel. Three memories are consulted in turn: the
frozen choices of the call site, its memo, and the cache of the selector.

| Code | Actions and operators |
|---|---|
| `Policy.decide`, `Selector.assess`, `order` | `Decide`, `Eligible`, `Order` |
| `Selector.select`, `_prepare_first`, `_tune`, `_save_autotune` | `Selected`, `Prepared`, `Tuned`, `Remember` |
| `Selector.explain` | `Explained` |
| `CallSite.select`, `key_paths`, `_memo_key` | `Select`; `Memo`, `MemoKey`, `Served` |
| `freeze_kernel_choices`, `unfreeze_kernel_choices` | `FreezeKernelChoices`, `UnfreezeKernelChoices` |
| `configure_humanwam_goal_kernels` (registers a kernel, replaces the policy, clears the cache) | `Configure` |
| `initialize_kernel_system`, `reset_kernel_selector`, `set_kernel_selector` | `Initialize`, `ResetKernelSelector`, `SetKernelSelector` |

A capability or a rule is the set of values it accepts for each fact it reads.
REPLAY needs the same kernels as CAPTURE (selector.py:191), so the model has one
graph mode for both. A measurement may favour any kernel that can be measured.
The version of a catalog or a policy is a hash of its content in the code, and
its identity here.
That frozen choices survive the selector they were made with is how the code
works: `NeverStale` speaks of calls that no frozen choice answers, and
`GraphSafe` of all.

### PrefixCache

Models the C++ library, one action per call of its interface; it is called by
one thread, and what interleaves are the callers' sequences of calls and the
transfers they start. A node is named by its path. A unit is what it holds: the
prefix whose last page was written to it, so that `ContentCorrect` can say
whether a match returns the right ones. The order of eviction is left open,
which covers every policy of `eviction.h`.

The library only registers a transfer; the caller copies, at any time until it
calls `complete_op()`. What the source holds at the start is kept with the
operation (`data`), and `stray` are the operations whose source units have gone
back to the free list since, by a demoting eviction, which frees them on return,
or by any later eviction or replacement, for nothing locks the source of a
transfer. Once units of that tier have been handed out again (`reused`), the
copy may be `late`: what it wrote is `Lost`. Which units were handed out is not
followed, so some copies count as possibly late that are not.

| Code | Actions and operators |
|---|---|
| `radix_tree::walk`, `split_self`, `split_first` | `Walk`, `Split`, `Cut` |
| `match`, `insert`, `allocate`, `~owned_units` | `Match`, `Insert`, `Allocate`, `Discard` |
| `lock`, `~node_ref` | `Lock`, `Release` |
| `ensure_capacity`, `evict_by_predicate` | `EnsureCapacity`, `EvictBy` over `Candidates`, `Evict`, `Prune` |
| `start_demote`, `start_promote` | `StartTransfer` |
| `complete_op`, `fail_all_inflight` | `CompleteOp` and `FailAllInflight` over `Forget`, `Copied`, `Complete` |

Three calls lead to states about which the code promises nothing; the model
records them as `fault` and stops there: "collision" (insert for a tier on a
node of the path that is not ready there), "overwrite" (a second transfer to a
tier drops a reservation or a locked copy), "unpinned" (a demotion completes
and gives up a source that is locked, or that another transfer has reserved in
the meantime, which takes three tiers; `InUse` is the two together). They are
listed as a hazard in PROJECT.json. `ContentCorrect` and the other invariants
speak of states without a fault. `PinsStay` is about steps, also those that end
in a fault, so that a step which breaks a pin is not excused by the fault it
sets: it names the transfers that may take a pinned page. Units are counted as pairs of a holder and
an index (`Slots`, `CountUnits`), so that a sum is the cardinality of a set.

### Gateway

Models the registry, the monitor and the client, with the locks they take.

| Code | Actions |
|---|---|
| `_register` (`Register`, `add_backend`) | `Register` |
| `Heartbeat`, `remove_backend`, `list_backends` | `Heartbeat`, `RemoveBackend`, `Query` |
| `_remove_expired` | `Sweep`, part of each of the above and of `Acquire`, `Connect`, `Finish` |
| `check_once`, `record_health`, `BackendHealthMonitor.close` | `StartCheck`, `RecordHealth`, `StopMonitor` |
| `infer` | `Acquire`, `Connect` (under `_stubs_lock`), `Finish` |
| `ModelInferenceClient.close` | `Close` |

`Tick` and `Flip` are the environment: time, and backends that stop or start
answering. A probe that is awaited when `close()` sets `_stop` may still be
recorded (`StopMonitor` leaves it or not). An endpoint is the string a server is
registered with: `add_backend()` strips "grpc://" and `Register()` does not, so a
server that registers itself with the scheme is another backend to the registry,
and `BackendsUnique` is about equal strings.

### LeRobotSession

Models the four calls on the session of one client. Objects the code compares by
identity are numbers. Decoding and inference happen between two actions.

| Code | Actions |
|---|---|
| `Ready` | `Ready` |
| `SendPolicyInstructions` | `BeginSetup`, `InstallSetup`, `AbortSetup` |
| `SendObservations` | `BeginObservation`, `PublishObservation`, `AbortObservation` |
| `GetActions` | `BeginGet`, `Leave`, `Sleep`, `Timeout`, `Answer`, `AbortAnswer`; `Cancel` and `RunCallback` for the client |

### MC modules

`MCWorkerSupervisor` holds the plans TLC uses (one rank, one replica of two
ranks), `MCPrefixCache` the tiers and their sizes. They and
`MCRequestDispatcher` declare threads, pages or pins interchangeable; no
liveness run uses that symmetry. `MCWorkerStartup` composes `WorkerStartup` with
`DeploymentPlan` and `WeightShards`: the workers that are started are those the
plan gives to one node. Plans, layouts and shapes of layers are visited beside a
handshake that has not begun. `MCCaches` holds the kernels, policies and calls
of `KernelSelection`, and explores it and `PrefixCache` in one run; they share
nothing, so a behaviour uses one of them (`part`).

### Proof modules

`WorkerSupervisorProofs` (types, table, counters, futures, the refinement,
order and completeness, shutdown), `WorkerStartupProofs` (with the deployment
plan and the shards of weights), `RequestDispatcherProofs`,
`InlineEngineProofs` (executor and core in their composition), `GatewayProofs`,
`LeRobotSessionProofs`, `KernelSelectionProofs` and `PrefixCacheProofs` hold the theorems; see Proofs.

## Runs

| Run | Instance | Checks |
|---|---|---|
| `ws_faults` | 2 ranks, 2 submitters, 1 close, 2 requests, 1 fault, deadlines, a pipe holds one unread payload | no future lost or resolved twice; results need all ranks; a returned close() leaves no process; ranks take requests in the same order; in-flight counters; refinement of `FailFastService` |
| `ws_live` | 2 ranks, 1 request, every send may block, 1 fault, deadlines | types; every request is answered; close() returns; a failure reaps the workers |
| `ws_close_hang` | 1 rank, every send may block, no fault | violation: close() may wait forever |
| `ws_close_failure` | 1 rank, no fault | violation: close() during a request can be reported as a worker failure |
| `startup` | 3 workers of a plan on 2 nodes, 2 faults; all configurations of the sizes below | types; RUNNING starts with empty pipes and workers in their command loop; a failed start leaves no process; a death during the handshake is noticed; start() returns; inferred worlds are the smallest; layouts are accepted, coordinates unique, placements correct; heads, features and tokens meet their partners |
| `dispatch` | 3 replicas, 2 callers, 2 setup(), 2 close(), 4 requests, 3 completions, 1 fault | types; ties rotate; loads stay balanced; a closed deployment stays closed; references are counted |
| `dispatch_assertion` | 1 replica, 2 callers | violation: the AssertionError of `_select` is reachable |
| `engine` | 2 step() threads, the worker, 1 closer, 3 items, 1 interrupt, a trainer with 2 calls | types; one thread in the core; FIFO; no use after close; no future left behind; the model lock has one owner; steps see whole weights, or what a trainer finished after a torn batch; the plugin is open when called; every request, trainer's call and close() ends |
| `caches` | pages a and b, queries of 2 pages, tiers of 2 usable units each, 1 pin; 2 call sites, 3 calls, 4 kernels, 4 policies, 2 selectors, 2 selections held | types and the transfer budget; right content or Lost; units conserved; a radix tree; pins hold; reservations hold; no stale choice of a kernel; graphs are safe; `explain()` agrees with `select()`; freezing changes no answer |
| `prefix_pins` | the prefix cache of `caches`, 2 pins | violation: a lock outlives its `node_ref` |
| `gateway` | 2 endpoints, 2 clients, 2 server records, 3 changes of one backend between up and down, threshold 2 | types; leases counted; removed records go with their last call; one record per backend; no channel closed under a call; trust only after a probe that succeeded; removed servers are dropped; recovered ones are used again |
| `lerobot` | 1 setter, 2 senders, 2 getters, 2 sessions, setups and observations each | types; pending matches setup; observations used once; no wakeup lost; answers are current; waiters are released |

Most invariants are conjunctions of named parts, each stated in its module:
`StartIsClean` (`RunningIsClean`, `FailedStartIsClean`), `LayoutCorrect`
(`LayoutsAccepted`, `CoordinatesUnique`), `ShardsMeet` (`HeadsMeet`,
`FeaturesMeet`, `TokensOnce`), `LifecycleCorrect` (`ClosedStaysClosed`,
`ReferencesCounted`), `TurnsCorrect` (`OneAtATime`, `FifoOrder`), `CloseCorrect`
(`NoUseAfterClose`, `ClosedSettlesFutures`), `LockCorrect` (`ModelLockOwned`),
`PluginReady` (`WholeWeights`, `EntryOpen`), `CallsReturn` (`RequestsEnd`,
`TrainersReturn`, `CloseReturns`), `TreeCorrect` (`RadixTree`,
`ContentCorrect`), `UnitsCorrect` (`UnitsConserved`), `HeldUnitsStay`
(`PinsStay`, `TransfersKeepReservation`), `ChoicesCorrect` (`NeverStale`,
`ExplainAgrees`), `RecordsCorrect` (`LeasesCounted`, `RemovedOnlyWhileLeased`,
`BackendsUnique`), `RecordsSettle` (`RemovedIsDropped`, `Recovers`),
`ObservationsCorrect` (`PendingMatchesSetup`, `ObservationUsedOnce`). The type
invariant of a module is part of the first of its conjunctions.

Bounds. Two requests and two submitters are what it takes for two threads to
race for the send lock, for one request to be queued behind another and for one
to complete while another fails. Two ranks make agreement and partial sends
possible; what concerns several replicas, the routing of counters, is proved for
any number of them. One fault reaches every failure path; the shutdown it
triggers then races with everything else. `PipeSlots = 1` is full when both
requests wait in one pipe, `PipeSlots = 0` always.

Three workers let one die while a second is read and a third still starts, and
two faults let the failure path meet another failure. Sizes 1 and 3 (MoE),
1 and 2 (CFG, dense, attention, decode) and 2 (pipeline) mix factors that do and
do not divide each other; placements range over two nodes of up to three devices
with and without addresses. Groups of up to six ranks, eight heads of sizes one
and two, and widths and vocabularies of up to nine contain heads that are split,
replicated or refused, and vocabularies that leave a rank partly or wholly
without tokens. Three replicas and four requests take the cursor
once around, with two callers whose loads are out of date.

In `engine`, three items are one in the core and one of a `step()` and one of a
`submit()` behind it, which is the least in which a wrong one can be taken; two
calls of the trainer are a begin and a batch (or a rollout, or a second begin),
and the calls that end an open update do not count. In `caches`, two
pages are enough for every split, two units for a page that is cached beside
one that is being inserted, and two tiers for transfers both ways; the device
accepts one unit in transfer, so that the budget runs out. One pin is enough for
a pinned page to be evicted, split and transferred; two whose paths overlap are
left to the theorem. Of
the kernels, one fails to prepare, one cannot be captured, and one comes with a
plugin and reads a fact the others do not; two selectors of which each is
configured once, and two selections held anywhere at a time, are what it takes
for one to outlive what it was made from. In `gateway` two
records let one backend be registered, removed under a call and registered
again; the heartbeat expires after one tick. One of the two backends goes down,
comes up and goes down again (`Flaky`, `MaxFlips`), so that two failures reach
the threshold and a success follows; the other one is there to be chosen. In `lerobot` the second session,
setup or observation is the one that invalidates what was begun under the first.

Deadlock checking is on except where a deadlock is the finding
(`ws_close_hang`) and in `engine`, where an engine that is stuck, or an
abandoned item, stops everybody: there a thread that waits for anything else
violates `RequestsEnd`, `TrainersReturn` or `CloseReturns`. `Terminated` lets a
finished deployment stutter.

Fairness: weak fairness for each thread of the parent and each healthy worker
process, because the operating system schedules them (a thread that waits for a
lock or a pipe is not enabled until it can go on), and for clocks. Nobody must
call `submit()` or `close()`; faults need not happen; a hung worker never
proceeds. `WorkerStartup` assumes only that the starting thread runs and that
time passes. `InlineEngine` assumes of each thread by itself that it runs,
wherever it is, in the executor or in the core (`Moves`), that what the plugin
executes ends, and that a trainer finishes or aborts the update it began, as
`docs/models/pi05/ws1.mdx:137` asks ("The controller owns the update
transaction"); there are finitely many calls, so weak fairness is enough for
the locks. `Gateway`: the monitor's thread loops, probes end at their timeout
and calls at INFERENCE_TIMEOUT_SECONDS. `LeRobotSession`: awake threads run,
`infer` ends at its deadline and gRPC runs its callbacks; that the timeout of
the wait comes is *not* assumed, so `WaitersReleased` shows that nobody depends
on it.

## Findings

1. `close()` of the supervisor can hang (`ws_close_hang`). It stops the
   monitor, then takes `_send_lock` with no timeout. A worker that is writing a
   large result is no longer read, so it reads no commands; a `submit()` writing
   a large command to it keeps the lock.
2. `close()` during a request can end in FAILED (`ws_close_failure`): the
   monitor checks the state, then takes the lock again in `_record_result` and
   finds the request gone.
3. `_select` can raise its AssertionError (`dispatch_assertion`): it reads the
   loads once for the minimum and once for the replicas that have it. When a
   load changes in between no replica has it, though all are healthy.
4. A `match()` that splits a locked node leaves a lock on the lower half that no
   release undoes (`prefix_pins`): its units are never evicted again.
5. `Engine.close()` during a weight update can hang. The facade refuses `finish`
   and `abort` from then on; the executor waits for the request it is running;
   that waits for the model lock, which the update holds; and
   `EngineCore.close()`, which would abort the update, is called last. This is
   the state `Stuck`, which the properties of `engine` except: without the
   exception TLC reaches it in ten steps.
6. `finish_weight_update()` after a batch that raised half-way commits a mixture
   of two versions. `WeightLoadSession.load` (loader.py:313-332) writes tensor
   after tensor and raises at a duplicate key or in a loader; nothing remembers
   it, and `PI05Entry.finish_weight_update` (main_pi05.py:292-296) asks only that
   some tensor was loaded and passes `strict=False, require_all=False`. The engine
   (engine.py:551-555) then counts a new version and is usable again, while
   `docs/models/pi05/ws1.mdx:157` says "`Engine` marks that instance unavailable
   because its parameters may contain a mixture of versions". `WholeWeights`
   excepts it as `Mixed`; without the exception TLC violates `PluginReady`.
7. A demotion can copy what is no longer there. `evict_node_resource`
   (prefix_cache.cpp:212-241) returns the source units to the free list when it
   returns, and the demotion is "asynchronous" (prefix_cache.h:122-124): the
   caller, who evicted because it needs the units, may write to them before the
   copy is made, and `complete_op()` then declares the copy ready, "data is valid"
   (op_handle.h:13). Likewise the source of a started transfer can be evicted.
   `ContentCorrect` excepts such a unit as `Lost`; without the exception TLC
   violates `TreeCorrect`.
8. A failed transfer reads a node that may be freed: `complete_op` prunes `p.node`
   and then calls `p.node->atom_count()` for the event (prefix_cache.cpp:395-397).
   A demoting eviction whose transfer fails is enough, since the eviction has
   left the node nothing else. The value goes into the event alone, and events
   are not modelled: no property covers it.

Findings 5 to 8 have no run of their own. Three more are hazards without a run: `close()` of an inline executor from a done
callback waits for itself; a second `close()` of the supervisor behind finding 1
returns while workers run; and with three tiers a demotion drops the reservation
that another transfer has made in its source, which then completes on a node
that may be gone. The last one was met by the proof of `HeldUnitsStay`: the runs
have two tiers.

## Proofs

A theorem holds for every value of the constants: any plan, any number of
threads, replicas, requests, records and faults. Each one rests on an inductive
invariant with one lemma per action, which TLC checked on the instance of the
run before it was proved.

`WorkerSupervisor`:

- `TypeCorrect`: `Spec => []TypeOK`. TypeOK alone is not inductive: a program
  point says what a thread carries (a submitter past `Submit` has a request, the
  monitor in `_record_result` has a message, an executing worker has taken a
  request, only `close()` can shut down without force). `LocalInv` adds that, and
  `Typed` is the inductive invariant. One lemma per action shows that it is
  preserved; the Boolean flags are proved apart.
- `PendingCorrect`: `Spec => []PendingOnlyWhileRunning`. The last step of
  `close()` sets the state once more, so `ClosingInv` is needed as well: after
  a close() has begun the state is not RUNNING.
- `InflightCorrect`: `Spec => []InflightAccounting`. `CountInv` adds that ids in
  the table have been handed out, so that `submit()` adds a new element; the
  counting itself rests on the cardinality theorems of FiniteSetTheorems.
- `FuturesKept`: `Spec => []NoLostFuture`, and `FuturesResolvedOnce`:
  `Spec => ResolvedOnce`. `FutureInv` adds that futures of ids to come are
  untouched (`Fresh`) and that whoever took futures out of the table is about to
  resolve them (`HeldToResolve`): otherwise a second `TakePending` of the same
  thread would drop them. Two facts then carry the argument: an action that
  takes a future from the table gives it to exactly one thread, and only that
  thread resolves it.

- `ServiceImplemented`: `Spec => ImplementsService`. `ServiceInv` joins the
  invariants above: `StatusOf` reads a request's outcome from the table, from
  the thread that holds its future and from the future itself, and these agree
  only because a future is in one place.
- `CloseLeavesNothing` and `ClosedIsDead` (`ClosedMeansDead`). `CloseInv` follows
  the one-shot shutdown: one owner at a time, waiters only while there is an
  owner, and complete only when all processes are dead. With several closers a
  second one may return because its wait expired (behind finding 1), which is
  the disjunct in `CloseLeavesNothing`; `ClosedIsDead` has the hypothesis that
  one thread calls `close()`: `_SharedManager` does so once (`LifecycleIsCorrect`),
  and the atexit hook is the only other caller.
- `RanksTakeSameOrder`: `Spec => []RanksAgree`. What a rank took, followed by
  what waits in its pipe, is one sequence. `OrderInv` says that a submitter
  holds the send lock from the first rank to the last, that the sequences of the
  ranks of a replica agree, and that an earlier rank has as many entries as a
  later one, or one more while a request is being sent, or more once the later
  one can no longer be reached; after the shutdown messages nothing is taken.
- `ResultsAreComplete`: `Spec => []ResultFromAllRanks`. `ResultInv` follows a
  request at one rank: it is to be sent, in the pipe, taken, executed, in the
  pipe back or with the monitor, never in two of these places, and the ranks
  that are no longer waited for have answered.

`WorkerStartup`: `StartLeavesNothing` (`StartIsClean`) and `DeathNeverMissed`
(`DeathIsNoticed`). `StartInv` ties the startup state the parent keeps of a worker
to how far the worker is and to what is still in its pipe, so that all READY
means all read. For the second, the states with a dead worker from which
`start()` can only fail (`Doomed`) are never left: nobody revives a process, and
the sentinels are looked at before the loop goes on.

`RequestDispatcher`:

- `LifecycleIsCorrect`: `Spec => []LifecycleCorrect`. `LifeInv` says who holds the
  setup lock and the manager's lock, and how far the one `close()` is: executors
  above its index are closed, references are as many as its index. Its part
  `BoundInv` is what types need: a load, and a count of choices, is at most the
  number of calls less those under way.
- `TiesDoRotate`: `Spec => []TiesRotate`. `RotationInv` adds the distance from the
  cursor to a replica: a choice that passes over an eligible replica moves the
  cursor nearer to it, so the two together stay below the number of replicas.
- `LoadsAreBalanced`: `Spec => []Balanced`. A load that a caller has read may be
  out of date, but while nothing completes it is only too small: `ReadInv` says
  that the minimum a caller has is not above any load it has read. So a caller
  that newly heads for a replica found a minimal load there, and `BalanceInv`
  bounds a load together with everybody who may still add to it.

`InlineEngine` (its `EngineSpec`, which composes the executor and the core):

- `TurnsAreTaken` and `CloseSettles`. `ExecutorInv` relates the queue, the running
  item and the program points: numbers in the queue ascend and are above the
  running one, a closed executor has an empty queue, one `close()` at a time is
  past its first check, and every unresolved future is queued or with a thread
  that will resolve it.
- `LockIsCorrect` and `StepsFindWholeWeights`. `CoreInv` says that calls under
  `_weight_update_lock` exclude each other, that the model lock is held exactly
  when a call uses it or an update is open, and that the weights are those of
  the version, or `Mixed`, unless an update that is open or has poisoned the
  engine has touched them.

`Gateway`: `RecordsAreCorrect`, `CallsAreNeverCut`, `TrustIsProbed`. `GatewayInv`
is inductive with the parts of `RecordsCorrect`, `NeverCut` and the fact that
finitely many threads are inside `infer()`: none of the parts is on its own,
since a record is dropped, and its channel closed, by the count of its calls.

`LeRobotSession`: `ObservationsAreCorrect`, `NoLostWakeup`, `AnswersAreCurrent`.
`SessionInv` says that the newest session alone is open, what the calls keep
while they are outside the lock, and that an observation is in one place; its
part `WakeInv` sharpens `WakeupNotLost`, which is not inductive: a call that is
merely awake may be one whose client is gone.

`WeightShards`: `ShardsAlwaysMeet` (`layer \in AnyLayer => ShardsMeet`), for
every number of ranks, heads, features and tokens. It has no steps, so what is
proved is arithmetic: the rows a loader cuts out start at a multiple of their
size, quotient and remainder by that size are unique, and a sum of partition
sizes is a function on `0..p` that is unfolded twice or three times. The query
heads of a rank and the key heads they read meet because `BlockAccepted` makes
one of the two sizes divide the other.

`DeploymentPlan`, for every configuration a user may write down (`AnyConfig`) and
any nodes, devices, ranks and replicas (`AnyPlacement`):

- `EveryPlanIsSound` (`PlacementCorrect`). The number of devices on the nodes
  before a node, plus a device's number on it, is a bijection between devices and
  slots (`SlotsAre`): node by node the counts add up, so the number is below the
  total and no two devices have it, and a set has as many elements as its image.
  The workers of replica `c` are a run of slots that starts at `c * world`
  (`MembersAre`); if they are on two nodes, the devices of the first of these end
  inside the run (`SpansAreCut`). The proof attempt found the property wrong: it
  said of a refused plan that the *number* of devices of a node without an address
  is no multiple of the world, which holds for the two nodes of the run and not
  for three, where earlier nodes shift the replicas (1, 2 and 1 devices for
  replicas of two ranks). It now says that the devices up to the end of that node
  are not.
- `InferenceIsRight` (`InferredIsSmallest`). A scope fits a domain with an omitted
  size iff the other sizes divide it, and decoding fits iff they divide it once
  more by `decode` (`ResolvesIs`, `MultipleOfProduct`); `Lcm` is a common multiple
  and none is smaller (`LcmIsLeast`).
- `EveryLayoutIsRight` (`LayoutCorrect`). Each of the thirteen families is
  `Strided(a, b, n, c)`: `b` ranks at distance `a`, in each place below `a` of `c`
  blocks of `n = a * b`. A rank is then three digits, its low part, its place in
  the group and its block (`Digits`), from which follow what `RankLayout` checks,
  and that the place in the group is the middle digit (`StridedIs`). Of a domain
  with three sizes each coordinate is shown to be one such family (`FirstOfThree`
  and its likes, `InDomainIs`), and the families of a domain, of the branches and
  of the stages have distances that continue each other, so that their places
  determine the rank (`ModProduct`, `SameRank`).

The products and sums are over at most four sizes and are unfolded; least and
greatest elements come from the well-foundedness of the naturals.

`KernelSelection`: `SelectionsNeverStale` (`ChoicesCorrect`), `CapturesAreSafe`
(`GraphSafe`) and `FreezingKeepsAnswers` (`FreezeKeepsAnswers`). The invariant
says of each of the three memories what an entry means, and not only when it is
read. A measurement names a kernel that could be used when it was made
(`TableRight`); an entry of a selector's cache is of the selector's catalog and
policy, is a right choice under them and agrees with the measurements
(`SelectorRight`); an entry of a call site's memo answers every call with its
key as the catalog and policy of its fingerprint do (`MemoRight`); a frozen
choice was registered and can be captured in its mode (`FrozenRight`). None of
them is inductive alone, since each memory is filled from the one below.

`PrefixCache`: `CachedPrefixesAreRight` (`TreeCorrect`), `HeldUnitsAlwaysStay`
(`HeldUnitsStay`) and `NoUnitIsLost` (`UnitsCorrect`), for any number of tiers,
pages, callers and pins and any order of eviction. `CacheInv` holds until a
fault. Its parts and why they are needed:

- `Radix`: every node has its parent, and no prefix is covered by two nodes. From
  it follows that `walk()` meets at most one node in its middle, and that after
  the split a query ends where a node ends, or leaves the tree.
- `Filled`: a resource has one unit per page, a ready one the content of its
  pages, and `NoBareLeaf`.
- `OpsKept`: a transfer has its node, its reservation, and the content it will
  write, also for the part that a split has left to it; no two transfers have
  the same reservation.
- `PathsKept`: a ready node holds each page of a locked path; `LocksCounted`: a
  resource has at least as many locks as there are `node_ref`s whose path goes
  through it. Splits make the second an inequality (finding 4).

`HeldUnitsStay` is an invariant and a property of steps, and the steps that end
in a fault are part of it, where `CacheInv` no longer holds. So for each
operation there is a second lemma, which needs `CacheInv` before the step only:
what is left of a path after one write (`PinKept`, `WritePin`) or a prune
(`PrunePin`: a node with a lock is not bare). An eviction that demotes may
overwrite in the middle of a loop over candidates; from there on the loop is
followed with `Alive` (the cache is well formed and has kept its locks and its
transfers) and `Spared`: a path is whole, or a new transfer to its tier replaced
a page of it.

`UnitsCorrect` rests on `UnitsInv`, which holds after a fault too: the free list
and the tree (`Stock`) and the callers have together no more units than the tier
began with, and as many while no fault was met. Each operation is shown to be
`Even`, that is to keep the stock; a split is even because the sizes of the
halves add up, a pruned node because it is bare, an eviction that demotes
because it frees as many as it reserves. `allocate`, `insert` and the end of
`owned_units` trade with one caller. Where a call evicts in a loop, the steps of
the loop are a function on `0..k`; in place of an induction the proof takes the
least step at which the claim fails.

Assumptions: `PlanAssumption` (what `DeploymentPlan.build` guarantees: every
worker belongs to a replica, every replica has an output rank of its own),
assumptions that threads of different roles are different and that names like
`None` are none of them, bounds that are natural numbers, and finitely many
callers of the dispatcher, since the balance is a bound by their number. TLC
evaluates them in every run.

What is only model-checked: the liveness properties, since fairness is out of
the prover's reach.

## Not modelled

About nine tenths of the implementation are numerical: model definitions, layers,
kernels, weight conversion, image and action processing. They
compute one tensor from others in one thread, and what could be said of them in
TLA+ is not what could be wrong with them. That is why the share of lines the
models cover is small, and will stay so: the models cover the files named in the
inventory, not the repository. Also left out:

- torch.distributed and NCCL (creation of groups, collectives), CUDA graphs and
  green contexts: what they do is the driver's. IPC buffers: who creates and who
  attaches is agreed by the application; the code keeps no state of it.
- Prefix cache: the mamba slots of the hybrid cache, storage backends, events
  and observers, `wait_op`, access metadata (they only order evictions).
  `ensure_capacity` looks at one layer of leaves per call, as the code does.
- Kernel selection: parsing and validating policies, the parameters of rules,
  `param_dtypes`, the algebra of predicates; facts other than mode, device and one
  dimension, which are looked up in the same way; weights of several signatures.
- Weight shards: expert parallelism, quantised parameters, biases.
- Engine: the bootstrap of the core, which runs once in one thread; the release
  of process-level services after the plugin is closed; the tensor dumper;
  exceptions that are not `Exception`s in calls of the plugin; the other
  plugins, whose updates raise NotImplementedError.
- Supervisor: atexit registration; request validation in `submit()`, which
  raises before any state changes; the second of two errors a worker sends when
  `execute()` and then `runtime.close()` fail, which changes nothing.
- Gateway: HTTP and the other adapters, which translate one request at a time;
  several LeRobot clients, whose sessions share nothing but their table.
- The wording of errors, logging, formatting.

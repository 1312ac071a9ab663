# humanoid-core: specifications, model checking and proofs

TLA+ specifications of the concurrent and stateful parts of humanoid-core, TLC
configurations that check them on small instances, and TLAPS proofs, for every
value of the constants, of the properties that matter most. Source paths are
relative to the repository. `PROJECT.json` maps each definition to the lines it
models and lists the runs, mutants, hazards, findings and theorems.

## The system

humanoid-core turns application intent into calls on a robot. An application
submits *commands*, *missions* or *behaviour trees*:

- the **dispatcher** executes a command at once or through its **command queue**,
  asks the **safety validator** first, and calls the robot **adapter**; the
  **execution pipeline** is an alternative front end with history and events;
- the **mission executor** runs the steps of a mission through the dispatcher;
  **conditions** look at the robot's state; missions are read from documents;
- the **behaviour-tree runtime** runs each tree as a job of the **scheduler**, under
  a lease of the **resource manager**, with a **cancellation** source and a
  **blackboard**; trees are read from documents and built by a factory;
- **planners** turn goals into trees; **perception** routes frames of registered
  sensors to listeners and through a graph of stages;
- the **Unitree** code implements the adapter over a vendor SDK: a heartbeat worker
  and a low-state callback keep a connection state and publish snapshots to the
  robot state manager, which **telemetry** and the **ROS 2 bridge** pass on.

## Modules

| Module | Source | What it models |
|---|---|---|
| `CommandQueue` | `src/core/CommandQueue.cpp` | `Enqueue`, `Cancel`, `Shutdown`, the workers' `Run`, the statistics |
| `CommandDispatcher` | `src/core/CommandDispatcher.cpp` | `Execute`, `ExecuteAsync`, `Cancel`, `Shutdown`, `Dispatch`, composed with `CommandQueue` (EXTENDS) |
| `SafetyValidator` | `src/core/SafetyValidator.cpp`, payload rules | the policy as an operator over command, robot state and capabilities |
| `CommandExecutionPipeline` | `src/core/CommandExecutionPipeline.cpp` | submission, workers, history, metrics, lifecycle events |
| `RuntimeScheduler` | `src/runtime/RuntimeScheduler.cpp` | priorities, sequential and parallel jobs, pause, resume, stop, shutdown |
| `ResourceManager`, `LeaseTable` | `src/runtime/ResourceManager.cpp` | leases with waiting, timeouts and release; the table they promise |
| `Cancellation` | `src/runtime/Cancellation.cpp`, `ExecutionContext.cpp` | sources, linked sources, registrations, callbacks |
| `Blackboard`, `SharedStore` | `src/runtime/Blackboard.cpp` | the map of namespaces; the flat map it promises |
| `BehaviorTree` | `src/bt/*Node.cpp`, `BehaviorTree.cpp` | `Initialize`, `Tick`, `Reset`, `Shutdown` of every node class, and a tree over them |
| `BehaviorTreeRuntime` | `src/bt/BehaviorTreeRuntime.cpp` | the job that binds, ticks and closes a tree |
| `TreeParser`, `TreeLoader` | `src/bt/TreeParser.cpp`, `TreeValidator.cpp`, `TreeLoader.cpp`, `BehaviorTreeFactory.cpp` | JSON and YAML readers over lexemes; validation and construction |
| `MissionModel`, `MissionDocument` | `src/mission/*.cpp` | validity, timeout and attempt arithmetic; both document readers |
| `MissionExecutor`, `ConditionEvaluator` | `src/mission/*.cpp` | worker, lifecycle calls, retries, loops, waits; conditions on a changing robot |
| `SensorManager`, `PerceptionPipeline`, `ModelManager` | `src/perception/*.cpp` | sensors and routing; the stage graph and the synchronized frame sets; model and sensor registries |
| `RuleBasedPlanner`, `PlanningPipeline` | `src/planner/*.cpp` | rule selection and cancellation; attempts, fallback, validation, handoff |
| `PluginFactory` | `plugins/src/*.cpp` | factory, registry, instance counts, version ranges |
| `SdkWrapper` | `plugins/unitree/sdk/*.cpp` | connection state machine, heartbeat worker, low-state channel, locomotion adapter |
| `UnitreeG1Adapter`, `G1PluginAdapter` | `src/adapters/unitree`, `plugins/unitree/g1` | the two adapters over `SdkWrapper`, with the arm and audio clients |
| `TelemetryService`, `ROS2Bridge`, `ROS2Messages` | `src/services`, `ros2/` | publication to listeners; the bridge as a listener; message conversion |

The `MC...` modules instantiate these for TLC; `CommandQueueSteps` and the
`...Proofs` modules hold the theorems.

### How state and actions correspond to the code

A section that the code runs while it holds one mutex is one action. What
follows the unlock (a promise, a callback, a notification, a join) is another,
so every interleaving of two critical sections is a behaviour. Where a thread
stands between two sections is a program counter (`pc`, `call`, `wpc`,
`frame`, `stage`). A thread blocked on a condition variable is in a waiting set; a
notification takes it out, and so may a spurious wake-up (in the queue, dispatcher,
pipeline, scheduler and resource manager), after which it evaluates its predicate again. A callback the code makes without a lock may
call the component back, where the code lets it. Calls that change nothing are
not actions. Time enters only as deadlines that may pass at any moment, or, in
`SdkWrapper`, as saturating ages. Variables keep the names of the members.

- `CommandQueue`: tasks are numbered in order of submission; `queue`, `tasks`
  (the identifier index), `counts` and the flags are the members.
  `WorkerTake`, `WorkerRecord` and `WorkerPublish` are the parts of one turn of a worker: taking a
  task under the lock, recording the executor's answer under the lock, setting
  the promise without it.
- `CommandDispatcher`: adds `dcall` (where a thread is in a public call), `dpc` (where
  it is in `Dispatch`), `synchronous_ids` and the dispatcher's own flags. Its steps are steps
  of the queue, steps that leave the queue alone, or both at once.
- `SdkWrapper` and the adapters: publishing a snapshot, joining the worker and
  creating the channel are steps of their own. `UnitreeG1Adapter` holds its
  mutex across a call; `G1PluginAdapter` does not, and its calls are walks
  through stages.
- `BehaviorTree`: a tree is a function from node numbers to records; a tick is
  one action, because the tree holds its mutex throughout.

Most properties in the `.cfg` files are conjunctions: a property such as
`LeasesAreSound` or `TelemetryIsSound` names everything a run asks of one component and
is defined, in the component or its `MC` module, as the conjunction of the properties
stated and explained there. A run shows each conjunct.

A definition after a comment `Fault:` is a plausible mistake in the definition
that follows it. Each property of each passing run is paired in `PROJECT.json`
with one such fault, under which TLC finds the property (for a conjunction, one of
its conjuncts) violated.

## Runs

A run whose module covers several components has a variable `part`, chosen
initially, that says which one a behaviour uses.

| Run | What it shows |
|---|---|
| `queue_safety` | index, promises, statistics, dequeue order and shutdown of the queue, in every interleaving; nothing resolved starts |
| `dispatcher_safety` | identifiers are unique over the two paths; at most one command starts after an emergency stop is reported; the queue inside behaves as `CommandQueue` |
| `runtime_safety` | leases, pipeline, scheduler, cancellation, telemetry, bridge, blackboard: counts, hand-outs and notifications are exact; `ResourceManager` implements `LeaseTable`, `Blackboard` implements `SharedStore` |
| `programs_safety` | trees with every node class, tree jobs, missions, conditions and tree loading |
| `autonomy_safety` | plugins, planning, sensors, stages, frame sets, registries and planner cancellation: accounts balance, executions are serialized in dependency order, a frame set is synchronized exactly when its definition says so; documents and requests: the readers agree with each other and with reference definitions, counts are kept, validation, safety policy, payload rules and rule selection meet theirs |
| `sdk_safety` | used by one caller, or by two through `UnitreeG1Adapter`: workers are joined, channels closed, flags rest on evidence, both adapters agree with the wrapper |
| `commands_liveness` | on the command path no wake-up is lost: futures become ready, shutdowns end, and so do the waits of other threads that call `Shutdown` |
| `services_liveness` | in the services stops return, waiters get their turn, cancellation arrives, states are published, a lost link is noticed and a good one recovered |
| `dispatcher_callback_shutdown` | a disagreement, see Findings |
| `wrapper_two_stops` | a disagreement, see Findings |
| `pipeline_cancel_race` | a disagreement, see Findings |
| `bt_delay_latch` | a disagreement, see Findings |

### Bounds

The constants of each instance are in the `.cfg` files and, for instances inside
a composite run, in its `MC` module. They are chosen so that each queue, history
or pool overflows and each pair of racing calls can meet:

- queue: two callers, two workers that may call the queue from the executor, three
  tasks, capacity two: a third submission is refused, a duplicate identifier, an
  expiry, a cancellation and a second shutdown can each fall between any two
  sections. The constraint `MCThirdTask` keeps the instance small: up to two tasks
  everything overlaps; a third task has an identifier of its own, and then one
  caller at a time is inside a call;
- dispatcher: two callers, one worker, one queued command, two commands with the
  same identifier, an adapter that may call `Shutdown`, a robot that may report an
  emergency stop. Deadlock is not checked here: the adapter that calls `Shutdown`
  while another thread does really blocks (see Findings);
- leases: three threads on one resource, three leases: writer behind reader,
  reader behind waiting writer, and a timeout among them;
- pipeline: one client and one worker, two executions, a history of one. The
  passing run does not let a second client call `Cancel` while `Shutdown` is
  running (`CancelDuringShutdown = FALSE`), because the code is wrong there; that
  case is the run `pipeline_cancel_race`;
- scheduler: one client, two workers, two jobs of which one is sequential, a queue
  and a history of one, jobs that call `Shutdown`, one `Submit` that throws;
- in `commands_liveness` pipeline and scheduler have a second client that only calls
  `Shutdown`, at any moment of the first client's calls, so that one of them begins
  it and the other waits, on the condition variable of the workers;
- tree jobs: two that want one exclusive resource, one waiting for it and one not,
  both paused and stopped at any step; in `services_liveness` one of them is stopped;
- cancellation: two threads, a chain of three sources, two callbacks;
- telemetry and bridge: one service client plus listeners that call `Stop`, two
  starts, identifiers that wrap after two. `OneFinalSnapshot` is checked for one
  client thread: a `Start` by a second thread while `Stop` is joining breaks it;
- trees: ten shapes of at most five nodes that contain every node class, a node
  that throws and callbacks that may answer anything;
- missions: four missions with retries, loops, guards, waits, skips and aborts, two
  client threads;
- documents: all JSON documents of five lexemes, strings of five and numbers of six
  character classes, and longer documents under two edits. The integer ranges are
  scaled down in proportion (`UInt32Max = 7`, `Int64Max = 15`, ...) so that both
  sides of each limit are reached; `RangesAssumption` states the order that the
  readers depend on. `FormatsAgree` compares the formats on `Portable` missions: it
  leaves out the payloads on which they differ (see Findings);
- frame sets: time stamps are not negative;
- SDK: one worker, a link and a robot that answer or not at every call, ages up to
  three heartbeats. `WrapperIsSound` is checked for one direct caller, one caller of
  the plugin's adapter, and two of `UnitreeG1Adapter`, whose mutex serializes them;
  `InactiveOnceShutDown` for one caller. Unserialized callers break them: two of
  `StopCommunication`, `Initialize` beside `Shutdown`, and, in the plugin's adapter,
  `Connect` beside `Shutdown` (see Findings). `services_liveness` has one caller, of
  `Initialize`, `StartCommunication`, `StopCommunication`, `EmergencyStop` and `Shutdown`.

Symmetry is used only in the two runs that check no liveness and whose callers
and workers are interchangeable (`queue_safety`, `dispatcher_safety`).

### Fairness

Only weak fairness is used. In every component a thread that is inside the
component's code and can move does move (`CallStep`, `Continue`, `WorkerStep`,
`FlowStep`, ...), because the operating system schedules runnable threads, and the executor,
adapter, planner or listener it calls returns. Nobody is obliged to call anything,
to pause or resume, or to let a deadline pass, and no mutex is granted in a
particular order. Beyond that:

- resource manager: `WriterNotStarved` assumes leases are released, as the RAII
  lock does; `ReaderWokenUp` is checked without this assumption;
- SDK wrapper: time passes and the middleware's handler runs; nothing is assumed of
  the link, the two link properties have the link's behaviour as their premise;
- cancellation: a thread that has begun to invoke callbacks goes on.

## What is proved

Eight modules hold machine-checked proofs. They hold for all values of the
constants that satisfy the named assumptions (`QueueAssumption`: callers and
workers are disjoint, the workers finitely many, the capacity positive, commands
well typed; `DispatcherAssumption`; `ResourceAssumption`: finitely many acquirers;
`SchedulerAssumption`: clients and workers are disjoint, the options are what the
constructor accepts, priorities are the four of the code; `CancellationAssumption`:
a child has a parent other than itself, and sources and callbacks have different
names; `ValuesAreTyped`: no blackboard value has the type "none"; `PlanningAssumption`; `FiniteCallers`), which TLC evaluates on the
runs. The resource manager's theorems also assume that there is a resource.

**CommandQueueSteps, CommandQueueProofs, CommandQueueOutcomeProofs.** `IInv`, in `CommandQueue`, is the
inductive invariant. What is wanted of it is `EveryPromiseHasOneOwner` (an
unfulfilled promise is in the queue, with one worker, or claimed by one call) and
`IndexMatchesWork`. Neither is inductive alone: a worker's record is right only if its
local task and result are set (`LocalsAreSet`, `ResultIsSet`), the deque is in
acceptance order (`QueueInAcceptanceOrder`), and shutdown proceeds in a
fixed order (`CallProtocol`). From it follow `TypeCorrect`, `CapacityRespected`,
`IndexExact`, `PromisesOwned` and `ShutdownDrains`; `StoreConsistent` puts the first
three together as the run checks them. What becomes of a task is in
`CommandQueueOutcomeProofs`: the action properties
`DequeueOrder` and `ResolvedStays`, and `ExactStatistics`, which needs a second
invariant on top, `Counted`: each counter is the cardinality of a set of tasks
(published, at a reporting worker, or claimed by a call) and `active` that of the
busy workers; one lemma per action shows which sets gain or lose one element.

**CommandDispatcherProofs.** `DInv` relates the two paths: the types,
`UniqueInFlight`, which thread may stand where (`Positions`), the order of shutdown
(`ShutdownProtocol`), and what the safety check has seen when the adapter is
called (`CheckedAndCalled`). Every dispatcher step is a queue step or leaves the
queue alone (`QueueIsImplemented`, a step simulation), so the queue's theorems
hold inside the dispatcher. Also `DispatcherTypes`, `IdentifiersAreUnique` (together
`DispatchConsistent`),
`OneLateStartAtMost`, and `ShutdownLeavesNothing`, which assumes that adapter calls do
not call `Shutdown`.

**RuntimeSchedulerProofs.** `SchedulerInv` adds to the properties wanted where a job
can be: what `queue_` holds is queued and nothing else is (`QueueHoldsQueued`), a
running job has exactly one worker (`RunningIsOwned`), the finished jobs are listed
in the order in which they finished and only a prefix of them has been pruned
(`HistoryIsOrdered`), and a future will show what the snapshot already shows
(`FutureIsForeseen`). `SequentialJobsRunAlone`, `JobsAccounted`, `SnapshotsAgree` and
`HistoryIsBounded` follow, together `JobsSound`. A `Submit` whose insertions throw is a
step too: it counts a failure of a job that was never accepted, so the accounts are
`accepted + thrown`, where `thrown` is a history variable; `FinishedJobsAreSettled` is an
action property: a finished job stays finished and its snapshot is only pruned.

**CancellationProofs.** `CancellationInv` says of each callback where it can be
(`CallbackInv`): with its source, in the list of the one thread that took it from
there, invoked, or unregistered, and never in two of these. With that
`CancellationIsSound`: a callback runs once at most and never after its `Unregister`
returned true, nothing stays with a cancelled source, and, as an action property,
the cancellation of a child leaves its parent alone.

**RuntimeServiceProofs.** For the resource manager the invariant adds to the three
safety properties that
the waiting counters equal the number of blocked threads (`CountersExact`), without
which an entry could be erased under a waiter, and that lease numbers are below the
next one. `LeaseTypes`, `ExclusiveLeasesAreAlone`, `StaleHandlesAreDead`,
`NoReferenceDangles` (together `LeaseBookIsSound`), the action property `WritersArePreferred`, and `Refinement`: the manager
implements `LeaseTable`. For the blackboard `BlackboardIsAStore`: the map of maps
implements `SharedStore`, with what the typed `Get` finds at an address as the
refinement mapping. `BlackboardInv` (finite typed maps, no empty namespace) is
needed for the number that `Clear` answers and for a `StoreValue` that throws
to leave no trace.

**AutonomyProofs.** `PlanningInv` says that the holder of `execution_mutex_`
is the one caller that is executing, what each counter is at each place of `Execute`
(`CountsFollow`), and what was submitted (`JobsFollow`). `PlanningSerialized`,
`PlanningAccounts`, `PlanningMetrics`, `PlanningSubmits`, and their conjunction
`PlanningSound`. Of the plugin factory, `InstancesCounted`, `FactoryAndRegistryAgree`,
`RegisteredAreCompatible` (together `PluginsSound`) from `FactoryInv`, and
about the version operators: `CompareIsATotalOrder`, `CompatibilityIsAnInterval`.

### Only model-checked

- Liveness, and everything in `commands_liveness` and `services_liveness` except
  `ShutdownQuiescesDispatch`: the prover does not handle fairness and `ENABLED`.
- What recursive definitions compute: ticks over trees, parsing, topological
  order, validation against reference definitions. That needs induction
  over data, and the modules that use RECURSIVE operators cannot be used by proofs.
- `BehaviorTree`, `MissionExecutor`, `CommandExecutionPipeline`, `TelemetryService`,
  `ROS2Bridge`, `SensorManager`, `PerceptionPipeline`, `ModelManager`, `SdkWrapper` and
  its adapters: their invariants are checked on the instances above and have no
  proof yet.

## Findings

Four runs check something the repository says and the code does not do:

- `dispatcher_callback_shutdown`: a thread in `Shutdown` joins the worker while an
  adapter call on that worker calls `Shutdown` and waits for the first to
  complete (`CommandDispatcher.cpp:352`). Neither returns.
- `wrapper_two_stops`: of two threads in `SdkWrapper::StopCommunication` the first
  takes the worker's thread and joins it; the second finds `communication_running_`
  still set and nothing to join, and lowers the stop request
  (`plugins/unitree/sdk/SdkWrapper.cpp:387`). A worker that had not looked at it goes
  on, and the first call never returns. `docs/thread_safety.md:37` calls the public
  methods thread-safe.
- `pipeline_cancel_race`: `Cancel` of an execution that a running `Shutdown` has taken
  from the queue completes it (`CommandExecutionPipeline.cpp:314`), and `Shutdown` then
  completes it again, so `metrics_.cancelled` counts it twice. TLC stops at the first
  of the two, where the metrics already disagree with what is outstanding.
- `bt_delay_latch`: `DelayNode::Tick` sets `completed_` and then clears it
  (`DelayNode.cpp:45`), so a delay in a stateless sequence starts again.

Other disagreements were met while modelling. Where a definition of that name is
in a module, it states what the documentation promises; no run checks it:

| Promise | Where the code differs |
|---|---|
| `CancelledBeforeExecution` (CommandQueue) | a `Cancelled` answer of the executor is counted as cancelled before execution, `CommandQueue.cpp:318` |
| `NoAdapterCallAfterShutdown`, `UnsupportedIsReady` (CommandDispatcher) | `Shutdown` on the worker marks completion with commands still queued, `:359`; unsupported commands are queued and rejected later, `:331` |
| `EventsInLifecycleOrder` (CommandExecutionPipeline) | `Queued` may be published after `Running`, `:257` |
| `TerminalIsFinal`, `HigherPriorityStartsFirst`, `NoStartAfterShutdown` (RuntimeScheduler) | a stopped job's snapshot is overwritten by its outcome, `:327`; a sequential job waits behind lower priorities, `:530`; `Shutdown` on a worker cancels nothing, `:349` |
| `ChildFollowsParent`, `OneEffectiveRequest` (Cancellation) | children are cancelled after the parent, `Cancellation.cpp:37`; two concurrent requests may both be told they were first, `ExecutionContext.cpp:67` |
| `TerminalUntilReset`, `InitializeMarksStarting` (BehaviorTree) | a tree shut down after `Success` answers `Aborted`, `BehaviorTree.cpp:42`; `Starting` is overwritten at once, `:156` |
| a stop request wakes the interval wait at once, `docs/api/behavior_tree_core.md:314` | the notification is made without the mutex: it may come between predicate and sleep, or after the condition variable was destroyed, `BehaviorTreeRuntime.cpp:70` |
| `TerminalIsFinal`, `RunningMeansExecuting`, `TimeoutsAreNotRetried` (MissionExecutor) | `Cancelled` may become `Completed`, `:498`; `ExecuteStep` leaves `Running` behind, `:294`; expired commands are retried as failures, `:65` |
| `StoppedMeansJoined`, `ManagerSeesShutdown`, `ConnectedIsVerified`, `EmergencyStopReachesManager` (SdkWrapper) | a second `StopCommunication` joins nothing, `:386`; a handler may publish after shutdown, `:235`; a failed heartbeat leaves `connected_` set, `:425`; the emergency stop is not published, `:566` |
| thread-safe public methods of `SdkWrapper`, `docs/thread_safety.md:37` | a `Shutdown` that falls between the two locked sections of another thread's `Initialize` (`:211`, `:239`) finds no channel to close; the channel is then stored, and stays open, in a wrapper that is not initialized |
| `Stop` returns a terminal result, `MissionExecutor.h:115` | after a mission that ended by itself a client's `ExecuteStep` puts `Running` back, `MissionExecutor.cpp:295`, and `Stop` reports that; `StopReportsTheEnd` asks for a terminal result of an interrupted mission, and of every one when no client calls `ExecuteStep` |
| JSON and YAML carry the same payloads | YAML strips the quotes before it looks for a number, `MissionParser.cpp:873`, so `"7"` is an integer there and a text in JSON; JSON numbers are doubles, `:239`, so 2^63 - 1 becomes 2^63, passes the range test and is cast out of range |
| `GetMetrics` of the planning pipeline | a request whose `ValidatePlan` throws is counted neither as planned nor as failed, `PlanningPipeline.cpp:123`; `RequestsAreAccountedFor` counts it in `thrown` |
| numeric payloads over ROS 2 | the texts `0` and `1` are read as truth values, `ROS2Bridge.cpp:103`, so a velocity of exactly 0 or 1 is rejected as not numeric |
| `AdapterNoticesLoss` (UnitreeG1Adapter) | a lost link does not lower the adapter's flag, `:412` |
| `StateAgreesWithFlag`, `DisconnectClosesAll`, `InactiveOnceShutDown` (G1PluginAdapter) | state and flag change apart, `:165`; arm and audio stay connected, `:258`; `Connect` may finish after `Shutdown`, `:244` |
| `NoCallbackAfterDestruction` (ROS2Bridge) | the destructor returns while the telemetry worker may still hold a copy of the callback, `ROS2Bridge.cpp:255` |
| the telemetry service's one final snapshot | a `Start` during the join of `Stop` runs a second worker, `TelemetryService.cpp:52` |

`StoppedMeansJoined`, `ManagerSeesShutdown` and `InactiveOnceShutDown` do hold, and are
checked, in the restricted uses named under Bounds and in `MCSdk`.

## Not modelled

Fleet and OTA management and the other cloud parts, the planner factory, the
robot factory registry and the G1 plugin object are maps or flags whose operations
are single critical sections, or repeat a protocol modelled in `PluginFactory`.
Robot, safety, motion and gesture managers, diagnostics, configuration and the
LLM interfaces forward to interfaces the repository does not implement. Logging,
network values, examples and benchmarks hold no protocol. Within modelled
components, texts, logging, timestamps and numeric payloads are abstracted; what
else is left out of each is in the notes of `PROJECT.json`, among it: a worker
thread that cannot be started in the queue's constructor, a `make_shared` that throws
in the scheduler's `Submit` (the handler then dereferences a null pointer), `AddChild` on a tree in
use, plugins that change the registry through `IPluginRegistrar`, `SetVelocity`,
and the field-by-field copies of the ROS 2 messages.

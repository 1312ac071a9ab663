------------------------- MODULE CommandDispatcher -------------------------
(***************************************************************************)
(* humanoid::core::CommandDispatcher (src/core/CommandDispatcher.cpp): the  *)
(* synchronous and the asynchronous path of a command to the robot adapter, *)
(* composed with the CommandQueue that serves the asynchronous one.         *)
(*                                                                         *)
(* A thread is at dcall in a call of the dispatcher and at dpc in Dispatch, *)
(* which callers run inside Execute and the queue's worker runs as the      *)
(* queue's executor.  state_mutex_ is held over more than one step only by  *)
(* ExecuteAsync, which calls the queue under it; adapter_mutex_ from the    *)
(* safety check to the end of the adapter call.  Early returns that change  *)
(* nothing are actions that are not enabled.                                *)
(***************************************************************************)
EXTENDS CommandQueue, SafetyValidator

CONSTANTS
  AdapterPresent,         \* adapter_ is not null
  AdapterResults,         \* statuses RobotAdapter::ExecuteCommand returns
  AdapterMayShutdown,     \* whether an adapter call may call Shutdown()
  StateManager,           \* state_manager_ is not null
  CapabilitiesOverridden, \* capabilities_overridden_
  Capabilities,           \* capabilities_
  Policy,                 \* the options of safety_validator_
  RobotStates             \* what the robot may report of itself

DispatchResults == AdapterResults \cup {"Rejected", "Timeout", "Failed"}

ASSUME DispatcherAssumption ==
  /\ AdapterPresent \in BOOLEAN /\ AdapterMayShutdown \in BOOLEAN
  /\ StateManager \in BOOLEAN /\ CapabilitiesOverridden \in BOOLEAN
  /\ StateManager => CapabilitiesOverridden
  /\ DispatchResults \subseteq ExecutorResults

VARIABLES
  synchronous_ids, d_accepting, d_shutdown_in_progress, d_shutdown_complete,
  state_waiting,   \* threads blocked in state_condition_.wait
  dcall,           \* where each thread is in a call of the dispatcher
  dpc,             \* where each thread is in Dispatch
  dcommand,        \* the command of a synchronous call
  late,            \* the synchronous callers whose command's timeout has elapsed
  target,          \* the identifier a Cancel call is about
  dresult,         \* the result of Dispatch
  robot,           \* what the robot reports of itself
  lateStarts       \* history: adapter calls of commands other than stop begun
                   \* since the emergency stop has been reported

flagVars == <<d_accepting, d_shutdown_in_progress, d_shutdown_complete>>
dispatchVars == <<dpc, dresult, late>>
robotVars == <<robot, lateStarts>>
dvars == <<synchronous_ids, flagVars, state_waiting, dcall, dcommand, target,
           dispatchVars, robotVars>>
allVars == <<vars, dvars>>

DInit ==
  /\ Init
  /\ synchronous_ids = {}
  /\ d_accepting = TRUE
  /\ d_shutdown_in_progress = FALSE
  /\ d_shutdown_complete = FALSE
  /\ state_waiting = {}
  /\ dcall = [t \in Threads |-> "idle"]
  /\ dpc = [t \in Threads |-> "idle"]
  /\ dcommand = [t \in Callers |-> NoCommand]
  /\ late = {}
  /\ target = [t \in Callers |-> 0]
  /\ dresult = [t \in Threads |-> "Pending"]
  /\ robot \in RobotStates
  /\ lateStarts = 0

-----------------------------------------------------------------------------
(* Helpers                                                                 *)

StateMutexFree == \A t \in Threads : dcall[t] # "async"

\* Fault: the adapter mutex is taken only for the adapter call.
AdapterNotCalled == \A t \in Threads : dpc[t] # "adapter"

AdapterMutexFree == \A t \in Threads : dpc[t] \notin {"validated", "adapter"}

\* The command a thread dispatches, and HasExpired of it.
CommandOf(t) == IF t \in Workers THEN command[wtask[t]] ELSE dcommand[t]
Expired(t) == IF t \in Workers THEN HasExpired(wtask[t]) ELSE t \in late

\* BuildSafetyContextLocked: the state manager's snapshot, or else what the
\* adapter answers; its failure to answer makes the state unavailable.
SafetyContext(r) ==
  [robotStateAvailable |-> StateManager \/ r.answers,
   batteryStateAvailable |-> \/ StateManager
                             \/ r.answers /\ (r.supportsPower \/ LessThan(0, r.battery)),
   capabilitiesAvailable |-> TRUE,
   capabilities |-> IF CapabilitiesOverridden THEN Capabilities ELSE r.capabilities,
   connected |-> r.connected, emergencyStop |-> r.emergencyStop, fault |-> r.fault,
   standing |-> r.standing, sitting |-> r.sitting, walking |-> r.walking,
   battery |-> r.battery]

SafetyVerdict(t) == Validate(CommandOf(t), Expired(t), SafetyContext(robot), Policy)

MayCallDispatcher(t) == t \in Callers /\ dcall[t] = "idle" /\ call[t] = "idle"

-----------------------------------------------------------------------------
(* Execute                                                                 *)

\* Fault: Execute does not look into the queue for the identifier.
ExecuteUnchecked(t, c) ==
  /\ MayCallDispatcher(t) /\ StateMutexFree
  /\ "Pending" \in ValidateCommand(c)
  /\ d_accepting
  /\ c.id \notin synchronous_ids
  /\ synchronous_ids' = synchronous_ids \cup {c.id}
  /\ dcommand' = [dcommand EXCEPT ![t] = c]
  /\ dcall' = [dcall EXCEPT ![t] = "execute"]
  /\ dpc' = [dpc EXCEPT ![t] = "start"]
  /\ UNCHANGED <<vars, flagVars, state_waiting, target, dresult, late, robotVars>>

\* Registration under state_mutex_; queue_.Contains takes the queue's mutex.
Execute(t, c) ==
  /\ MayCallDispatcher(t) /\ StateMutexFree
  /\ "Pending" \in ValidateCommand(c)
  /\ d_accepting
  /\ c.id \notin synchronous_ids /\ tasks[c.id] = NoTask
  /\ synchronous_ids' = synchronous_ids \cup {c.id}
  /\ dcommand' = [dcommand EXCEPT ![t] = c]
  /\ dcall' = [dcall EXCEPT ![t] = "execute"]
  /\ dpc' = [dpc EXCEPT ![t] = "start"]
  /\ UNCHANGED <<vars, flagVars, state_waiting, target, dresult, late, robotVars>>

\* ~SynchronousRegistration, when Dispatch has returned or thrown.
ReleaseSynchronous(t) ==
  /\ dcall[t] = "execute" /\ dpc[t] = "returned"
  /\ StateMutexFree
  /\ synchronous_ids' = synchronous_ids \ {dcommand[t].id}
  /\ dcall' = [dcall EXCEPT ![t] = "releaseNotify"]
  /\ dpc' = [dpc EXCEPT ![t] = "idle"]
  /\ dcommand' = [dcommand EXCEPT ![t] = NoCommand]
  /\ dresult' = [dresult EXCEPT ![t] = "Pending"]
  /\ late' = late \ {t}
  /\ UNCHANGED <<vars, flagVars, state_waiting, target, robotVars>>

ReleaseNotify(t) ==
  /\ dcall[t] = "releaseNotify"
  /\ state_waiting' = {}
  /\ dcall' = [dcall EXCEPT ![t] = "idle"]
  /\ UNCHANGED <<vars, synchronous_ids, flagVars, dcommand, target, dispatchVars,
                 robotVars>>

-----------------------------------------------------------------------------
(* ExecuteAsync: the queue is called with state_mutex_ held                 *)

AdmitAsync(t, c) ==
  /\ MayCallDispatcher(t) /\ StateMutexFree
  /\ "Pending" \in ValidateCommand(c)
  /\ d_accepting
  /\ c.id \notin synchronous_ids

ExecuteAsyncRefused(t, c) ==
  /\ AdmitAsync(t, c)
  /\ EnqueueInvalid(t, c) \/ EnqueueRefused(t, c) \/ EnqueueThrows(t, c)
  /\ UNCHANGED dvars

ExecuteAsync(t, c) ==
  /\ AdmitAsync(t, c)
  /\ EnqueueAccepted(t, c)
  /\ dcall' = [dcall EXCEPT ![t] = "async"]
  /\ UNCHANGED <<synchronous_ids, flagVars, state_waiting, dcommand, target,
                 dispatchVars, robotVars>>

ExecuteAsyncReturn(t) ==
  /\ dcall[t] = "async"
  /\ EnqueueNotify(t)
  /\ dcall' = [dcall EXCEPT ![t] = "idle"]
  /\ UNCHANGED <<synchronous_ids, flagVars, state_waiting, dcommand, target,
                 dispatchVars, robotVars>>

-----------------------------------------------------------------------------
(* Cancel: the check of synchronous_ids_ and the queue's Cancel are two     *)
(* critical sections                                                        *)

DispatcherCancel(t, id) ==
  /\ MayCallDispatcher(t) /\ StateMutexFree
  /\ id \notin synchronous_ids
  /\ dcall' = [dcall EXCEPT ![t] = "cancel"]
  /\ target' = [target EXCEPT ![t] = id]
  /\ UNCHANGED <<vars, synchronous_ids, flagVars, state_waiting, dcommand,
                 dispatchVars, robotVars>>

\* queue_.Cancel refuses an identifier that is not outstanding or is running.
CancelRefused(t) ==
  /\ dcall[t] = "cancel"
  /\ call[t] = "idle"
  /\ ~( /\ target[t] # 0 /\ tasks[target[t]] # NoTask
        /\ state[tasks[target[t]]] # "Running" )
  /\ dcall' = [dcall EXCEPT ![t] = "idle"]
  /\ target' = [target EXCEPT ![t] = 0]
  /\ UNCHANGED <<vars, synchronous_ids, flagVars, state_waiting, dcommand,
                 dispatchVars, robotVars>>

\* Fault: the dispatcher removes a running command from the queue as well.
CancelAnyQueued(t) ==
  /\ dcall[t] = "cancel"
  /\ CancelRunning(t, target[t])
  /\ dcall' = [dcall EXCEPT ![t] = "cancelling"]
  /\ UNCHANGED <<synchronous_ids, flagVars, state_waiting, dcommand, target,
                 dispatchVars, robotVars>>

CancelQueued(t) ==
  /\ dcall[t] = "cancel"
  /\ Cancel(t, target[t])
  /\ dcall' = [dcall EXCEPT ![t] = "cancelling"]
  /\ UNCHANGED <<synchronous_ids, flagVars, state_waiting, dcommand, target,
                 dispatchVars, robotVars>>

CancelReturn(t) ==
  /\ dcall[t] = "cancelling"
  /\ CancelPublish(t)
  /\ dcall' = [dcall EXCEPT ![t] = "idle"]
  /\ target' = [target EXCEPT ![t] = 0]
  /\ UNCHANGED <<synchronous_ids, flagVars, state_waiting, dcommand,
                 dispatchVars, robotVars>>

-----------------------------------------------------------------------------
(* Shutdown, by a caller or, where adapters may, inside an adapter call of  *)
(* the worker                                                               *)

MayShutDown(t) ==
  \/ MayCallDispatcher(t)
  \/ t \in Workers /\ AdapterMayShutdown /\ dcall[t] = "idle" /\ dpc[t] = "adapter"

BeginShutdown(t) ==
  /\ MayShutDown(t) /\ StateMutexFree
  /\ ~d_shutdown_complete /\ ~d_shutdown_in_progress
  /\ d_shutdown_in_progress' = TRUE
  /\ d_accepting' = FALSE
  /\ dcall' = [dcall EXCEPT ![t] = "shutdownQueue"]
  /\ UNCHANGED <<vars, synchronous_ids, d_shutdown_complete, state_waiting, dcommand,
                 target, dispatchVars, robotVars>>

\* state_condition_.wait for shutdown_complete_.
JoinShutdown(t) ==
  /\ MayShutDown(t) /\ StateMutexFree
  /\ ~d_shutdown_complete /\ d_shutdown_in_progress
  /\ dcall' = [dcall EXCEPT ![t] = "shutdownWait"]
  /\ state_waiting' = state_waiting \cup {t}
  /\ UNCHANGED <<vars, synchronous_ids, flagVars, dcommand, target, dispatchVars,
                 robotVars>>

JoinRecheck(t) ==
  /\ dcall[t] = "shutdownWait" /\ t \notin state_waiting
  /\ StateMutexFree
  /\ \/ /\ d_shutdown_complete
        /\ dcall' = [dcall EXCEPT ![t] = "idle"]
        /\ UNCHANGED state_waiting
     \/ /\ ~d_shutdown_complete
        /\ state_waiting' = state_waiting \cup {t}
        /\ UNCHANGED dcall
  /\ UNCHANGED <<vars, synchronous_ids, flagVars, dcommand, target, dispatchVars,
                 robotVars>>

\* queue_.Shutdown(), which rejects a call from its own worker.
ShutDownQueue(t) ==
  /\ dcall[t] = "shutdownQueue"
  /\ \/ /\ IsWorkerThread(t)
        /\ dcall' = [dcall EXCEPT ![t] = "shutdownSync"]
        /\ UNCHANGED vars
     \/ /\ ShutdownBegin(t)
        /\ dcall' = [dcall EXCEPT ![t] = "queueShutdown"]
  /\ UNCHANGED <<synchronous_ids, flagVars, state_waiting, dcommand, target,
                 dispatchVars, robotVars>>

QueueShutdownStep(t) ==
  /\ dcall[t] = "queueShutdown"
  /\ ShutdownPublish(t) \/ ShutdownStop(t) \/ ShutdownJoined(t)
  /\ UNCHANGED dvars

QueueShutdownReturn(t) ==
  /\ dcall[t] = "queueShutdown"
  /\ ShutdownNotify(t)
  /\ dcall' = [dcall EXCEPT ![t] = "shutdownSync"]
  /\ UNCHANGED <<synchronous_ids, flagVars, state_waiting, dcommand, target,
                 dispatchVars, robotVars>>

AwaitSynchronous(t) ==
  /\ dcall[t] = "shutdownSync" /\ t \notin state_waiting
  /\ StateMutexFree
  /\ synchronous_ids # {}
  /\ state_waiting' = state_waiting \cup {t}
  /\ UNCHANGED <<vars, synchronous_ids, flagVars, dcall, dcommand, target,
                 dispatchVars, robotVars>>

\* Fault: Shutdown does not wait for the synchronous calls.
FinishWithoutWaiting(t) ==
  /\ dcall[t] = "shutdownSync" /\ t \notin state_waiting
  /\ StateMutexFree
  /\ d_shutdown_complete' = TRUE
  /\ d_shutdown_in_progress' = FALSE
  /\ dcall' = [dcall EXCEPT ![t] = "shutdownNotify"]
  /\ UNCHANGED <<vars, synchronous_ids, d_accepting, state_waiting, dcommand, target,
                 dispatchVars, robotVars>>

FinishShutdown(t) ==
  /\ dcall[t] = "shutdownSync" /\ t \notin state_waiting
  /\ StateMutexFree
  /\ synchronous_ids = {}
  /\ d_shutdown_complete' = TRUE
  /\ d_shutdown_in_progress' = FALSE
  /\ dcall' = [dcall EXCEPT ![t] = "shutdownNotify"]
  /\ UNCHANGED <<vars, synchronous_ids, d_accepting, state_waiting, dcommand, target,
                 dispatchVars, robotVars>>

AnnounceShutdown(t) ==
  /\ dcall[t] = "shutdownNotify"
  /\ state_waiting' = {}
  /\ dcall' = [dcall EXCEPT ![t] = "idle"]
  /\ UNCHANGED <<vars, synchronous_ids, flagVars, dcommand, target, dispatchVars,
                 robotVars>>

-----------------------------------------------------------------------------
(* Dispatch                                                                *)

\* The queue's worker calls its executor.
DispatchBegin(w) ==
  /\ ExecutorCall(w)
  /\ dpc' = [dpc EXCEPT ![w] = "start"]
  /\ UNCHANGED <<synchronous_ids, flagVars, state_waiting, dcall, dcommand, target,
                 dresult, late, robotVars>>

ReturnFrom(t, s) ==
  /\ dpc' = [dpc EXCEPT ![t] = "returned"]
  /\ dresult' = [dresult EXCEPT ![t] = s]

\* The checks before adapter_mutex_ is locked.
DispatchStart(t) ==
  /\ dpc[t] = "start"
  /\ \/ /\ ~AdapterPresent \/ Expired(t)
        /\ ReturnFrom(t, IF AdapterPresent THEN "Timeout" ELSE "Rejected")
     \/ /\ AdapterPresent /\ ~Expired(t)
        /\ dpc' = [dpc EXCEPT ![t] = "lock"]
        /\ UNCHANGED dresult
  /\ UNCHANGED <<vars, synchronous_ids, flagVars, state_waiting, dcall, dcommand,
                 target, late, robotVars>>

\* With adapter_mutex_ locked: expiry, the safety context, Validate.  Asking the
\* adapter for its capabilities may throw.
SafetyGate(t) ==
  /\ dpc[t] = "lock"
  /\ AdapterMutexFree
  /\ \/ Expired(t) /\ ReturnFrom(t, "Timeout")
     \/ ~Expired(t) /\ ~CapabilitiesOverridden /\ ReturnFrom(t, "Failed")
     \/ ~Expired(t) /\ SafetyVerdict(t) # "Completed" /\ ReturnFrom(t, SafetyVerdict(t))
     \/ /\ ~Expired(t) /\ SafetyVerdict(t) = "Completed"
        /\ dpc' = [dpc EXCEPT ![t] = "validated"]
        /\ UNCHANGED dresult
  /\ UNCHANGED <<vars, synchronous_ids, flagVars, state_waiting, dcall, dcommand,
                 target, late, robotVars>>

AdapterCall(t) ==
  /\ dpc[t] = "validated"
  /\ dpc' = [dpc EXCEPT ![t] = "adapter"]
  /\ lateStarts' = IF robot.emergencyStop /\ ~IsStopCommand(CommandOf(t).type)
                     THEN lateStarts + 1 ELSE lateStarts
  /\ UNCHANGED <<vars, synchronous_ids, flagVars, state_waiting, dcall, dcommand,
                 target, dresult, late, robot>>

\* The adapter returns s; adapter_mutex_ is unlocked; a result that comes after
\* the timeout is replaced.
AdapterReturn(t, s) ==
  /\ dpc[t] = "adapter"
  /\ dcall[t] \in {"idle", "execute"}
  /\ ReturnFrom(t, IF Expired(t) THEN "Timeout" ELSE s)
  /\ UNCHANGED <<vars, synchronous_ids, flagVars, state_waiting, dcall, dcommand,
                 target, late, robotVars>>

\* The adapter throws: Execute and the queue's worker make it Failed.
AdapterThrow(t) ==
  /\ dpc[t] = "adapter"
  /\ dcall[t] \in {"idle", "execute"}
  /\ ReturnFrom(t, "Failed")
  /\ UNCHANGED <<vars, synchronous_ids, flagVars, state_waiting, dcall, dcommand,
                 target, late, robotVars>>

\* The executor returns to the queue's worker.
DispatchReturn(w) ==
  /\ dpc[w] = "returned"
  /\ ExecutorReturn(w, dresult[w])
  /\ dpc' = [dpc EXCEPT ![w] = "idle"]
  /\ dresult' = [dresult EXCEPT ![w] = "Pending"]
  /\ UNCHANGED <<synchronous_ids, flagVars, state_waiting, dcall, dcommand, target,
                 late, robotVars>>

-----------------------------------------------------------------------------
(* The rest of the queue's worker, and the environment                      *)

QueueWorkerStep(w) ==
  /\ \/ WorkerStart(w) \/ WorkerWait(w) \/ WorkerExit(w) \/ WorkerTake(w)
     \/ WorkerExpire(w) \/ WorkerRecord(w) \/ WorkerPublish(w)
  /\ UNCHANGED dvars

QueueEnvironment ==
  /\ \/ \E k \in Tasks : DeadlinePasses(k)
     \/ \E t \in Threads : SpuriousWakeup(t)
  /\ UNCHANGED dvars

\* The timeout of a synchronous command elapses.
TimeoutElapses(t) ==
  /\ dcall[t] = "execute" /\ HasTimeout(dcommand[t])
  /\ t \notin late
  /\ late' = late \cup {t}
  /\ UNCHANGED <<vars, synchronous_ids, flagVars, state_waiting, dcall, dcommand,
                 target, dpc, dresult, robotVars>>

StateSpuriousWakeup(t) ==
  /\ t \in state_waiting
  /\ state_waiting' = state_waiting \ {t}
  /\ UNCHANGED <<vars, synchronous_ids, flagVars, dcall, dcommand, target,
                 dispatchVars, robotVars>>

RobotReports(r) ==
  /\ r # robot
  /\ robot' = r
  /\ lateStarts' = IF r.emergencyStop THEN lateStarts ELSE 0
  /\ UNCHANGED <<vars, synchronous_ids, flagVars, state_waiting, dcall, dcommand,
                 target, dispatchVars>>

DispatcherStopped ==
  /\ d_shutdown_complete
  /\ \A t \in Threads : dcall[t] = "idle" /\ dpc[t] = "idle"
  /\ UNCHANGED allVars

DispatcherCall(t) ==
  \/ \E c \in Commands : \/ Execute(t, c) \/ ExecuteAsyncRefused(t, c)
                         \/ ExecuteAsync(t, c)
  \/ \E id \in CommandIds : DispatcherCancel(t, id)
  \/ BeginShutdown(t) \/ JoinShutdown(t)

DispatcherStep(t) ==
  \/ ReleaseSynchronous(t) \/ ReleaseNotify(t) \/ ExecuteAsyncReturn(t)
  \/ CancelRefused(t) \/ CancelQueued(t) \/ CancelReturn(t)
  \/ JoinRecheck(t) \/ ShutDownQueue(t) \/ QueueShutdownStep(t)
  \/ QueueShutdownReturn(t) \/ AwaitSynchronous(t) \/ FinishShutdown(t)
  \/ AnnounceShutdown(t)

DispatchStep(t) ==
  \/ DispatchStart(t) \/ SafetyGate(t) \/ AdapterCall(t)
  \/ (\E s \in AdapterResults : AdapterReturn(t, s)) \/ AdapterThrow(t)

DispatchWorkerStep(w) == DispatchBegin(w) \/ DispatchReturn(w) \/ QueueWorkerStep(w)

DNext ==
  \/ \E t \in Threads : DispatcherCall(t) \/ DispatcherStep(t) \/ DispatchStep(t)
  \/ \E w \in Workers : DispatchWorkerStep(w)
  \/ QueueEnvironment
  \/ \E t \in Callers : TimeoutElapses(t)
  \/ \E t \in Threads : StateSpuriousWakeup(t)
  \/ \E r \in RobotStates : RobotReports(r)
  \/ DispatcherStopped

DSpec == DInit /\ [][DNext]_allVars

\* A thread inside the dispatcher, the queue or Dispatch keeps running, and the
\* adapter returns.  Nobody has to call, no timeout has to elapse.
DFairness ==
  /\ \A t \in Threads : WF_allVars(DispatcherStep(t)) /\ WF_allVars(DispatchStep(t))
  /\ \A w \in Workers : WF_allVars(DispatchWorkerStep(w))

DFairSpec == DSpec /\ DFairness

-----------------------------------------------------------------------------
(* Properties                                                              *)

\* Type invariant of the dispatcher's own state.
DTypeOK ==
  /\ synchronous_ids \in SUBSET CommandIds
  /\ d_accepting \in BOOLEAN
  /\ d_shutdown_in_progress \in BOOLEAN
  /\ d_shutdown_complete \in BOOLEAN
  /\ state_waiting \in SUBSET Threads
  /\ dcall \in [Threads -> {"idle", "execute", "releaseNotify", "async", "cancel",
                           "cancelling", "shutdownWait", "shutdownQueue",
                           "queueShutdown", "shutdownSync", "shutdownNotify"}]
  /\ dpc \in [Threads -> {"idle", "start", "lock", "validated", "adapter", "returned"}]
  /\ dcommand \in [Callers -> Commands \cup {NoCommand}]
  /\ late \in SUBSET Callers
  /\ target \in [Callers -> CommandIds \cup {0}]
  /\ dresult \in [Threads -> DispatchResults \cup {"Pending"}]
  /\ robot \in RobotStates
  /\ lateStarts \in Nat

\* "Command IDs must be ... unique among in-flight commands": an identifier that
\* a synchronous call has registered is not outstanding in the queue, and it is
\* registered for exactly one call, although the two paths check each other's
\* bookkeeping under different mutexes.
UniqueInFlight ==
  /\ \A id \in synchronous_ids : tasks[id] = NoTask
  /\ \A id \in CommandIds :
       id \in synchronous_ids <=>
         \E t \in Callers : dcall[t] = "execute" /\ dcommand[t].id = id
  /\ \A t, u \in Callers :
       dcall[t] = "execute" /\ dcall[u] = "execute" /\ dcommand[t].id = dcommand[u].id
         => t = u

\* The bookkeeping of both dispatch paths is consistent: its variables have their types
\* and an identifier is in flight once, on one path.
DispatchesAreConsistent == DTypeOK /\ UniqueInFlight

\* Shutdown waits for both paths: once it has completed, no thread is inside
\* Dispatch, nothing is registered, the queue is shut down and its worker gone.
ShutdownQuiescesDispatch ==
  d_shutdown_complete =>
    /\ ~d_accepting
    /\ synchronous_ids = {}
    /\ shutdown_complete
    /\ \A t \in Threads : dpc[t] = "idle"

\* Under a policy that heeds the emergency stop (the default and the legacy one
\* do), from the moment the emergency stop is reported at most one command other
\* than a stop still reaches the adapter: the one whose safety check had passed.
\* The check and the adapter call are one critical section of adapter_mutex_, so
\* no second command can be past the check.
AtMostOneLateStart == Policy.rejectEmergencyStop => lateStarts <= 1

\* Where the threads are: a caller is inside Dispatch exactly while it is inside
\* Execute, with the command it was given, the worker exactly while the queue has
\* it executing; only callers call the dispatcher, unless adapter calls may shut
\* it down; a Dispatch that has returned has a result.
Positions ==
  /\ \A t \in Callers : dcall[t] = "execute" <=> dpc[t] # "idle"
  /\ \A t \in Callers : dcall[t] = "execute" => dcommand[t] \in Commands
  /\ \A w \in Workers : wpc[w] = "executing" <=> dpc[w] # "idle"
  /\ \A w \in Workers : dcall[w] # "idle" => AdapterMayShutdown /\ dpc[w] = "adapter"
  /\ \A w \in Workers : dcall[w] \in {"idle", "shutdownWait", "shutdownQueue",
                                      "shutdownSync", "shutdownNotify"}
  /\ \A t \in Threads : dpc[t] = "returned" => dresult[t] \in DispatchResults

ShuttingDown(t) == dcall[t] \in {"shutdownQueue", "queueShutdown", "shutdownSync"}

\* One thread at a time shuts the dispatcher down, and when it waits for the
\* synchronous calls the queue is already down.
ShutdownProtocol ==
  /\ d_shutdown_in_progress => ~d_accepting /\ ~d_shutdown_complete
  /\ d_shutdown_complete => ~d_accepting
  /\ \A t \in Threads : ShuttingDown(t) => d_shutdown_in_progress
  /\ \A t, u \in Threads : ShuttingDown(t) /\ ShuttingDown(u) => t = u
  /\ ~AdapterMayShutdown =>
       /\ \A t \in Threads : dcall[t] = "shutdownSync" => shutdown_complete
       /\ \A t \in Threads : dcall[t] = "queueShutdown" /\ call[t] = "shutdownNotify"
            => shutdown_complete
       /\ d_shutdown_complete => shutdown_complete /\ synchronous_ids = {}

\* At most one thread is past the safety check, and while the emergency stop is
\* reported a command other than a stop is there only if none was started since.
CheckedAndCalled ==
  /\ \A t, u \in Threads :
       dpc[t] \in {"validated", "adapter"} /\ dpc[u] \in {"validated", "adapter"}
         => t = u
  /\ ~robot.emergencyStop => lateStarts = 0
  /\ Policy.rejectEmergencyStop =>
       \A t \in Threads : dpc[t] = "validated" /\ ~IsStopCommand(CommandOf(t).type)
         => lateStarts = 0
  /\ Policy.rejectEmergencyStop => lateStarts <= 1

\* The inductive invariant behind the theorems of CommandDispatcherProofs.
DInv ==
  /\ DTypeOK
  /\ UniqueInFlight
  /\ Positions
  /\ ShutdownProtocol
  /\ CheckedAndCalled

\* Shutdown terminates, for the thread that performs it and for those that wait
\* for it, whatever synchronous and asynchronous calls are in flight.
DispatcherShutdownCompletes ==
  /\ d_shutdown_in_progress ~> d_shutdown_complete
  /\ \A t \in Threads : (dcall[t] = "shutdownWait") ~> (dcall[t] = "idle")

\* The documentation of Shutdown: "Calling `Shutdown()` from an executor callback
\* is rejected because a worker cannot join itself": a call that an adapter call
\* makes on the queue's worker comes back.
CallbackShutdownReturns ==
  \A w \in Workers : (dcall[w] # "idle") ~> (dcall[w] = "idle")

\* The dispatcher uses its queue as the queue expects: every step of the
\* composition is a step of CommandQueue or leaves the queue alone, with Dispatch
\* as the executor, also when an adapter call shuts the dispatcher down.
ImplementsQueue == Spec

\* The documentation of ExecuteAsync: "Invalid, duplicate, unsupported, or
\* post-shutdown commands produce a ready future": with fixed capabilities, no
\* command whose type they lack waits in the queue.
UnsupportedIsReady ==
  CapabilitiesOverridden => \A k \in Queued : command[k].type \in Capabilities

\* The class documentation of CommandDispatcher: "Shutdown() is idempotent,
\* rejects new work, cancels queued work, and waits for in-flight adapter
\* calls", so no adapter call begins once it has completed.
NoAdapterCallAfterShutdown ==
  [][\A t \in Threads : dpc[t] # "adapter" /\ dpc'[t] = "adapter" =>
       ~d_shutdown_complete]_allVars
=============================================================================

---------------------------- MODULE CommandQueue ----------------------------
(***************************************************************************)
(* humanoid::core::CommandQueue (src/core/CommandQueue.cpp): a bounded,     *)
(* priority-ordered queue of commands executed by worker threads.           *)
(*                                                                         *)
(* Every section the code runs while it holds mutex_ is one action; what it *)
(* does after unlocking (fulfilling promises, notifying, joining) is        *)
(* another.  The condition variable condition_ is the set `waiting` of the  *)
(* threads blocked in it: workers waiting for work and callers waiting for  *)
(* another thread's Shutdown share it.  An early return that changes        *)
(* nothing (Cancel of an unknown identifier, Shutdown from a worker thread, *)
(* Shutdown after completion) is an action that is not enabled.             *)
(***************************************************************************)
EXTENDS Integers, Sequences, FiniteSets, Functions

CONSTANTS
  Callers,           \* application threads that use the queue
  Workers,           \* the threads of workers_ (options_.workerCount of them)
  Commands,          \* the commands that may be submitted
  ExecutorResults,   \* statuses the injected executor may return
  MaximumQueueSize,  \* options_.maximumQueueSize
  MaxTasks           \* bound on the number of Enqueue calls

CommandIds == { c.id : c \in Commands }
TerminalStatuses == {"Completed", "Cancelled", "Failed", "Timeout", "Rejected"}
NonterminalStatuses == {"Pending", "Queued", "Running"}
KnownPriorities == 0..3
TimestampKinds == {"unset", "past", "future"}

ASSUME QueueAssumption ==
  /\ Callers \cap Workers = {} /\ IsFiniteSet(Workers)
  /\ MaximumQueueSize \in Nat \ {0}
  /\ MaxTasks \in Nat
  /\ ExecutorResults \subseteq TerminalStatuses \cup NonterminalStatuses
  /\ \A c \in Commands : /\ c.id \in Nat
                         /\ c.priority \in Nat
                         /\ c.timeout \in Int
                         /\ c.timestamp \in TimestampKinds

Threads == Callers \cup Workers
Tasks == 1..MaxTasks
NoTask == 0

\* deque.erase of the element at position i.
Erase(q, i) == SubSeq(q, 1, i - 1) \o SubSeq(q, i + 1, Len(q))

VARIABLES
  \* Tasks, numbered in the order in which Enqueue took the mutex.
  submitted,            \* number of Enqueue calls so far
  command,              \* Task::command
  state,                \* Task::state
  future,               \* what the future of the task holds, "Pending" before
  expired,              \* the tasks whose deadline has passed
  \* Members of CommandQueue::Impl.
  queue, tasks, accepted, highWatermark, counts, active_count,
  accepting, shutdown_in_progress, shutdown_complete,
  worker_ids,           \* the workers whose thread id is in worker_ids_
  stop_requested,       \* request_stop() was called on every worker
  \* Threads.
  waiting,              \* threads blocked in condition_.wait
  call,                 \* where each thread is in a call of the queue
  cancelled,            \* tasks a call removed and whose promise it must fulfil
  wpc, wtask, wresult   \* workers: position in Run, local task and result

taskVars == <<submitted, command, state, future, expired>>
indexVars == <<queue, tasks>>
statVars == <<accepted, highWatermark, counts, active_count>>
lifeVars == <<accepting, shutdown_in_progress, shutdown_complete, worker_ids,
              stop_requested>>
callVars == <<call, cancelled>>
workerVars == <<wpc, wtask, wresult>>
vars == <<taskVars, indexVars, statVars, lifeVars, waiting, callVars,
          workerVars>>

NoCommand == [id |-> 0, priority |-> 0, timeout |-> 0, timestamp |-> "unset"]

Init ==
  /\ submitted = 0
  /\ command = [t \in Tasks |-> NoCommand]
  /\ state = [t \in Tasks |-> "Queued"]
  /\ future = [t \in Tasks |-> "Pending"]
  /\ expired = {}
  /\ queue = <<>>
  /\ tasks = [i \in CommandIds |-> NoTask]
  /\ accepted = 0
  /\ highWatermark = 0
  /\ counts = [s \in TerminalStatuses |-> 0]
  /\ active_count = 0
  /\ accepting = TRUE
  /\ shutdown_in_progress = FALSE
  /\ shutdown_complete = FALSE
  /\ worker_ids = {}
  /\ stop_requested = FALSE
  /\ waiting = {}
  /\ call = [t \in Threads |-> "idle"]
  /\ cancelled = [t \in Threads |-> {}]
  /\ wpc = [w \in Workers |-> "starting"]
  /\ wtask = [w \in Workers |-> NoTask]
  /\ wresult = [w \in Workers |-> "Pending"]

-----------------------------------------------------------------------------
(* Helpers                                                                 *)

HasTimeout(c) == c.timeout > 0

\* The verdicts ValidateForQueue can return for a command, "Pending" standing
\* for std::nullopt.  A timed command created in the past may have expired.
ValidateForQueue(c) ==
  IF c.id = 0 \/ c.timeout < 0 \/ c.priority \notin KnownPriorities
    THEN {"Rejected"}
    ELSE IF ~HasTimeout(c) THEN {"Pending"}
    ELSE IF c.timestamp = "past" THEN {"Timeout", "Pending"} ELSE {"Rejected"}

\* The tasks of queue_.
Queued == Range(queue)

HasExpired(t) == t \in expired

\* A thread may call the queue when it is not inside a call already; a worker
\* thread runs foreign code, which may call back, only inside the executor.
MayCall(t) == call[t] = "idle" /\ (t \in Workers => wpc[t] = "executing")

IsWorkerThread(t) == t \in worker_ids

\* promise.set_value(s) of every task of T.
Fulfil(T, s) == future' = [t \in Tasks |-> IF t \in T THEN s ELSE future[t]]

NotifyAll == waiting' = {}
NotifyOne ==
  \/ waiting = {} /\ waiting' = {}
  \/ \E t \in waiting : waiting' = waiting \ {t}

RecordResultLocked(s) ==
  counts' = [counts EXCEPT ![IF s \in TerminalStatuses THEN s ELSE "Failed"] = @ + 1]

\* Fault: the last of the tasks of highest priority is picked.
LastHighestPriority(q, i) ==
  \A j \in DOMAIN q :
    /\ command[q[j]].priority <= command[q[i]].priority
    /\ i < j => command[q[j]].priority < command[q[i]].priority

\* std::max_element by priority: the first of the tasks of highest priority.
IsHighestPriority(q, i) ==
  \A j \in DOMAIN q :
    /\ command[q[j]].priority <= command[q[i]].priority
    /\ j < i => command[q[j]].priority < command[q[i]].priority

-----------------------------------------------------------------------------
(* Enqueue                                                                 *)

\* The call numbers its task; its future is ready at once when the command is
\* invalid, the queue is closed or full, or the identifier is outstanding.
NewTask(t, c) ==
  /\ MayCall(t)
  /\ submitted < MaxTasks
  /\ submitted' = submitted + 1
  /\ command' = [command EXCEPT ![submitted + 1] = c]
  /\ UNCHANGED <<state, expired>>

EnqueueInvalid(t, c) ==
  /\ NewTask(t, c)
  /\ \E s \in ValidateForQueue(c) \ {"Pending"} :
       /\ RecordResultLocked(s)
       /\ Fulfil({submitted + 1}, s)
  /\ UNCHANGED <<indexVars, accepted, highWatermark, active_count, lifeVars,
                 waiting, callVars, workerVars>>

CanAccept(c) ==
  /\ accepting
  /\ tasks[c.id] = NoTask
  /\ Len(queue) < MaximumQueueSize

EnqueueRefused(t, c) ==
  /\ NewTask(t, c)
  /\ "Pending" \in ValidateForQueue(c)
  /\ ~CanAccept(c)
  /\ RecordResultLocked("Rejected")
  /\ Fulfil({submitted + 1}, "Rejected")
  /\ UNCHANGED <<indexVars, accepted, highWatermark, active_count, lifeVars,
                 waiting, callVars, workerVars>>

EnqueueAccepted(t, c) ==
  /\ NewTask(t, c)
  /\ "Pending" \in ValidateForQueue(c)
  /\ CanAccept(c)
  /\ tasks' = [tasks EXCEPT ![c.id] = submitted + 1]
  /\ queue' = Append(queue, submitted + 1)
  /\ accepted' = accepted + 1
  /\ highWatermark' = IF highWatermark < Len(queue) + 1
                        THEN Len(queue) + 1 ELSE highWatermark
  /\ call' = [call EXCEPT ![t] = "enqueueNotify"]
  /\ UNCHANGED <<future, counts, active_count, lifeVars, waiting, cancelled,
                 workerVars>>

\* Fault: the identifier stays in tasks_ when the insertion into queue_ fails.
EnqueueThrowsWithoutRollback(t, c) ==
  /\ NewTask(t, c)
  /\ "Pending" \in ValidateForQueue(c)
  /\ CanAccept(c)
  /\ tasks' = [tasks EXCEPT ![c.id] = submitted + 1]
  /\ RecordResultLocked("Failed")
  /\ Fulfil({submitted + 1}, "Failed")
  /\ UNCHANGED <<queue, accepted, highWatermark, active_count, lifeVars,
                 waiting, callVars, workerVars>>

\* An insertion runs out of memory: the identifier is erased, the failure counted
\* and the exception rethrown.  A future that is "Failed" stands for it.
EnqueueThrows(t, c) ==
  /\ NewTask(t, c)
  /\ "Pending" \in ValidateForQueue(c)
  /\ CanAccept(c)
  /\ RecordResultLocked("Failed")
  /\ Fulfil({submitted + 1}, "Failed")
  /\ UNCHANGED <<indexVars, accepted, highWatermark, active_count, lifeVars,
                 waiting, callVars, workerVars>>

\* Fault: Enqueue forgets to notify.
EnqueueSilently(t) ==
  /\ call[t] = "enqueueNotify"
  /\ call' = [call EXCEPT ![t] = "idle"]
  /\ UNCHANGED <<taskVars, indexVars, statVars, lifeVars, waiting, cancelled, workerVars>>

EnqueueNotify(t) ==
  /\ call[t] = "enqueueNotify"
  /\ NotifyOne
  /\ call' = [call EXCEPT ![t] = "idle"]
  /\ UNCHANGED <<taskVars, indexVars, statVars, lifeVars, cancelled, workerVars>>

-----------------------------------------------------------------------------
(* Cancel                                                                  *)

\* Faults: a running command is cancelled too; the cancelled command stays in
\* the deque.
CancelRunning(t, id) ==
  /\ MayCall(t)
  /\ id # 0
  /\ tasks[id] # NoTask
  /\ tasks' = [tasks EXCEPT ![id] = NoTask]
  /\ \/ \E i \in DOMAIN queue : queue[i] = tasks[id] /\ queue' = Erase(queue, i)
     \/ tasks[id] \notin Queued /\ UNCHANGED queue
  /\ counts' = [counts EXCEPT !["Cancelled"] = @ + 1]
  /\ cancelled' = [cancelled EXCEPT ![t] = {tasks[id]}]
  /\ call' = [call EXCEPT ![t] = "cancelPublish"]
  /\ UNCHANGED <<taskVars, accepted, highWatermark, active_count, lifeVars,
                 waiting, workerVars>>
CancelWithoutErase(t, id) ==
  /\ MayCall(t)
  /\ id # 0
  /\ tasks[id] # NoTask
  /\ state[tasks[id]] # "Running"
  /\ tasks' = [tasks EXCEPT ![id] = NoTask]
  /\ counts' = [counts EXCEPT !["Cancelled"] = @ + 1]
  /\ cancelled' = [cancelled EXCEPT ![t] = {tasks[id]}]
  /\ call' = [call EXCEPT ![t] = "cancelPublish"]
  /\ UNCHANGED <<taskVars, queue, accepted, highWatermark, active_count, lifeVars,
                 waiting, workerVars>>

\* tasks_.erase and queue_.erase(std::find(...)), guarded as in Cancel: the
\* identifier is outstanding and its task is not running.
Cancel(t, id) ==
  /\ MayCall(t)
  /\ id # 0
  /\ tasks[id] # NoTask
  /\ state[tasks[id]] # "Running"
  /\ tasks' = [tasks EXCEPT ![id] = NoTask]
  /\ \/ \E i \in DOMAIN queue : queue[i] = tasks[id] /\ queue' = Erase(queue, i)
     \/ tasks[id] \notin Queued /\ UNCHANGED queue
  /\ counts' = [counts EXCEPT !["Cancelled"] = @ + 1]
  /\ cancelled' = [cancelled EXCEPT ![t] = {tasks[id]}]
  /\ call' = [call EXCEPT ![t] = "cancelPublish"]
  /\ UNCHANGED <<taskVars, accepted, highWatermark, active_count, lifeVars,
                 waiting, workerVars>>

CancelPublish(t) ==
  /\ call[t] = "cancelPublish"
  /\ Fulfil(cancelled[t], "Cancelled")
  /\ NotifyAll
  /\ cancelled' = [cancelled EXCEPT ![t] = {}]
  /\ call' = [call EXCEPT ![t] = "idle"]
  /\ UNCHANGED <<submitted, command, state, expired, indexVars, statVars,
                 lifeVars, workerVars>>

-----------------------------------------------------------------------------
(* Shutdown                                                                *)

MayShutdown(t) == MayCall(t) /\ ~shutdown_complete /\ ~IsWorkerThread(t)

\* Fault: the commands Shutdown removes are not counted.
ShutdownUncounted(t) ==
  /\ MayShutdown(t)
  /\ ~shutdown_in_progress
  /\ shutdown_in_progress' = TRUE
  /\ accepting' = FALSE
  /\ queue' = <<>>
  /\ tasks' = [i \in CommandIds |-> IF tasks[i] \in Queued THEN NoTask ELSE tasks[i]]
  /\ cancelled' = [cancelled EXCEPT ![t] = Queued]
  /\ call' = [call EXCEPT ![t] = "shutdownPublish"]
  /\ UNCHANGED <<taskVars, statVars, shutdown_complete, worker_ids, stop_requested,
                 waiting, workerVars>>

ShutdownBegin(t) ==
  /\ MayShutdown(t)
  /\ ~shutdown_in_progress
  /\ shutdown_in_progress' = TRUE
  /\ accepting' = FALSE
  /\ queue' = <<>>
  /\ tasks' = [i \in CommandIds |-> IF tasks[i] \in Queued THEN NoTask ELSE tasks[i]]
  /\ counts' = [counts EXCEPT !["Cancelled"] = @ + Len(queue)]
  /\ cancelled' = [cancelled EXCEPT ![t] = Queued]
  /\ call' = [call EXCEPT ![t] = "shutdownPublish"]
  /\ UNCHANGED <<taskVars, accepted, highWatermark, active_count,
                 shutdown_complete, worker_ids, stop_requested, waiting, workerVars>>

\* Another thread is shutting the queue down: wait until it is done.
ShutdownWait(t) ==
  /\ MayShutdown(t)
  /\ shutdown_in_progress
  /\ waiting' = waiting \cup {t}
  /\ call' = [call EXCEPT ![t] = "shutdownWait"]
  /\ UNCHANGED <<taskVars, indexVars, statVars, lifeVars, cancelled, workerVars>>

\* The waiter woke up and evaluates shutdown_complete_ under the mutex.
ShutdownRecheck(t) ==
  /\ call[t] = "shutdownWait"
  /\ t \notin waiting
  /\ \/ /\ shutdown_complete
        /\ call' = [call EXCEPT ![t] = "idle"]
        /\ UNCHANGED waiting
     \/ /\ ~shutdown_complete
        /\ waiting' = waiting \cup {t}
        /\ UNCHANGED call
  /\ UNCHANGED <<taskVars, indexVars, statVars, lifeVars, cancelled, workerVars>>

\* The promises of the removed tasks are fulfilled one by one, oldest first.
ShutdownPublish(t) ==
  /\ call[t] = "shutdownPublish"
  /\ \E k \in cancelled[t] :
       /\ \A j \in cancelled[t] : k <= j
       /\ Fulfil({k}, "Cancelled")
       /\ cancelled' = [cancelled EXCEPT ![t] = @ \ {k}]
  /\ UNCHANGED <<submitted, command, state, expired, indexVars, statVars,
                 lifeVars, waiting, call, workerVars>>

ShutdownStop(t) ==
  /\ call[t] = "shutdownPublish"
  /\ cancelled[t] = {}
  /\ stop_requested' = TRUE
  /\ NotifyAll
  /\ call' = [call EXCEPT ![t] = "shutdownJoin"]
  /\ UNCHANGED <<taskVars, indexVars, statVars, accepting, shutdown_in_progress,
                 shutdown_complete, worker_ids, cancelled, workerVars>>

\* Fault: Shutdown does not join its workers.
ShutdownDetached(t) ==
  /\ call[t] = "shutdownJoin"
  /\ shutdown_complete' = TRUE
  /\ shutdown_in_progress' = FALSE
  /\ call' = [call EXCEPT ![t] = "shutdownNotify"]
  /\ UNCHANGED <<taskVars, indexVars, statVars, accepting, worker_ids,
                 stop_requested, waiting, cancelled, workerVars>>

\* Every join() has returned; the flags are set under the mutex.
ShutdownJoined(t) ==
  /\ call[t] = "shutdownJoin"
  /\ \A w \in Workers : wpc[w] = "exited"
  /\ shutdown_complete' = TRUE
  /\ shutdown_in_progress' = FALSE
  /\ call' = [call EXCEPT ![t] = "shutdownNotify"]
  /\ UNCHANGED <<taskVars, indexVars, statVars, accepting, worker_ids,
                 stop_requested, waiting, cancelled, workerVars>>

ShutdownNotify(t) ==
  /\ call[t] = "shutdownNotify"
  /\ NotifyAll
  /\ call' = [call EXCEPT ![t] = "idle"]
  /\ UNCHANGED <<taskVars, indexVars, statVars, lifeVars, cancelled, workerVars>>

-----------------------------------------------------------------------------
(* Run: the worker threads                                                 *)

WorkerStart(w) ==
  /\ wpc[w] = "starting"
  /\ worker_ids' = worker_ids \cup {w}
  /\ wpc' = [wpc EXCEPT ![w] = "ready"]
  /\ UNCHANGED <<taskVars, indexVars, statVars, accepting, shutdown_in_progress,
                 shutdown_complete, stop_requested, waiting, callVars, wtask,
                 wresult>>

WorkAvailable == stop_requested \/ queue # <<>> \/ ~accepting

WorkerWait(w) ==
  /\ wpc[w] = "ready" /\ w \notin waiting
  /\ ~WorkAvailable
  /\ waiting' = waiting \cup {w}
  /\ UNCHANGED <<taskVars, indexVars, statVars, lifeVars, callVars, workerVars>>

WorkerExit(w) ==
  /\ wpc[w] = "ready" /\ w \notin waiting
  /\ queue = <<>>
  /\ stop_requested \/ ~accepting
  /\ worker_ids' = worker_ids \ {w}
  /\ wpc' = [wpc EXCEPT ![w] = "exited"]
  /\ UNCHANGED <<taskVars, indexVars, statVars, accepting, shutdown_in_progress,
                 shutdown_complete, stop_requested, waiting, callVars, wtask,
                 wresult>>

WorkerTake(w) ==
  /\ wpc[w] = "ready" /\ w \notin waiting
  /\ \E i \in DOMAIN queue :
       /\ IsHighestPriority(queue, i)
       /\ wtask' = [wtask EXCEPT ![w] = queue[i]]
       /\ state' = [state EXCEPT ![queue[i]] = "Running"]
       /\ queue' = Erase(queue, i)
  /\ active_count' = active_count + 1
  /\ wpc' = [wpc EXCEPT ![w] = "taken"]
  /\ UNCHANGED <<submitted, command, future, expired, tasks, accepted,
                 highWatermark, counts, lifeVars, waiting, callVars, wresult>>

\* HasExpired before the executor is called.
WorkerExpire(w) ==
  /\ wpc[w] = "taken"
  /\ HasExpired(wtask[w])
  /\ wresult' = [wresult EXCEPT ![w] = "Timeout"]
  /\ wpc' = [wpc EXCEPT ![w] = "finishing"]
  /\ UNCHANGED <<taskVars, indexVars, statVars, lifeVars, waiting, callVars, wtask>>

ExecutorCall(w) ==
  /\ wpc[w] = "taken"
  /\ ~HasExpired(wtask[w])
  /\ wpc' = [wpc EXCEPT ![w] = "executing"]
  /\ UNCHANGED <<taskVars, indexVars, statVars, lifeVars, waiting, callVars,
                 wtask, wresult>>

\* What Run makes of the executor's result s; an exception is s = "Failed".
NormalizedResult(t, s) ==
  IF s = "Completed" /\ HasExpired(t) THEN "Timeout"
  ELSE IF s \in NonterminalStatuses THEN "Failed" ELSE s

ExecutorReturn(w, s) ==
  /\ wpc[w] = "executing"
  /\ call[w] = "idle"
  /\ wresult' = [wresult EXCEPT ![w] = NormalizedResult(wtask[w], s)]
  /\ wpc' = [wpc EXCEPT ![w] = "finishing"]
  /\ UNCHANGED <<taskVars, indexVars, statVars, lifeVars, waiting, callVars, wtask>>

WorkerRecord(w) ==
  /\ wpc[w] = "finishing"
  /\ tasks' = [tasks EXCEPT ![command[wtask[w]].id] = NoTask]
  /\ active_count' = active_count - 1
  /\ RecordResultLocked(wresult[w])
  /\ wpc' = [wpc EXCEPT ![w] = "publishing"]
  /\ UNCHANGED <<taskVars, queue, accepted, highWatermark, lifeVars, waiting,
                 callVars, wtask, wresult>>

WorkerPublish(w) ==
  /\ wpc[w] = "publishing"
  /\ NotifyAll
  /\ Fulfil({wtask[w]}, wresult[w])
  /\ wpc' = [wpc EXCEPT ![w] = "ready"]
  /\ wtask' = [wtask EXCEPT ![w] = NoTask]
  /\ wresult' = [wresult EXCEPT ![w] = "Pending"]
  /\ UNCHANGED <<submitted, command, state, expired, indexVars, statVars,
                 lifeVars, callVars>>

-----------------------------------------------------------------------------
(* Environment                                                             *)

\* Time passes: the deadline of a timed task that is still unresolved.
DeadlinePasses(t) ==
  /\ t <= submitted
  /\ HasTimeout(command[t])
  /\ future[t] = "Pending"
  /\ t \notin expired
  /\ expired' = expired \cup {t}
  /\ UNCHANGED <<submitted, command, state, future, indexVars, statVars, lifeVars,
                 waiting, callVars, workerVars>>

\* A condition variable may wake a thread without a notification.
SpuriousWakeup(t) ==
  /\ t \in waiting
  /\ waiting' = waiting \ {t}
  /\ UNCHANGED <<taskVars, indexVars, statVars, lifeVars, callVars, workerVars>>

\* After Shutdown the queue may be left alone for ever.
Stopped ==
  /\ shutdown_complete
  /\ \A t \in Threads : call[t] = "idle"
  /\ UNCHANGED vars

CallStep(t) ==
  \/ EnqueueNotify(t) \/ CancelPublish(t)
  \/ ShutdownRecheck(t) \/ ShutdownPublish(t) \/ ShutdownStop(t)
  \/ ShutdownJoined(t) \/ ShutdownNotify(t)

CallStart(t) ==
  \/ \E c \in Commands : EnqueueInvalid(t, c) \/ EnqueueRefused(t, c) \/ EnqueueThrows(t, c)
                         \/ EnqueueAccepted(t, c)
  \/ \E id \in CommandIds : Cancel(t, id)
  \/ ShutdownBegin(t) \/ ShutdownWait(t)

WorkerStep(w) ==
  \/ WorkerStart(w) \/ WorkerWait(w) \/ WorkerExit(w) \/ WorkerTake(w)
  \/ WorkerExpire(w) \/ ExecutorCall(w)
  \/ \E s \in ExecutorResults : ExecutorReturn(w, s)
  \/ WorkerRecord(w) \/ WorkerPublish(w)

Next ==
  \/ \E t \in Threads : CallStart(t) \/ CallStep(t)
  \/ \E w \in Workers : WorkerStep(w)
  \/ \E t \in Tasks : DeadlinePasses(t)
  \/ \E t \in Threads : SpuriousWakeup(t)
  \/ Stopped

Spec == Init /\ [][Next]_vars

\* A thread inside the queue's code keeps running, and the executor returns.
\* Nobody is obliged to call the queue, and no deadline has to pass.
Fairness ==
  /\ \A t \in Threads : WF_vars(CallStep(t))
  /\ \A w \in Workers : WF_vars(WorkerStep(w))

FairSpec == Spec /\ Fairness
-----------------------------------------------------------------------------
(* Properties                                                              *)

CallStates == {"idle", "enqueueNotify", "cancelPublish", "shutdownPublish",
               "shutdownJoin", "shutdownNotify", "shutdownWait"}
WorkerStates == {"starting", "ready", "taken", "executing", "finishing",
                 "publishing", "exited"}

\* Type invariant: every variable stays within the range its C++ type and the
\* bounds of the model allow.
TypeOK ==
  /\ submitted \in 0..MaxTasks
  /\ command \in [Tasks -> Commands \cup {NoCommand}]
  /\ state \in [Tasks -> {"Queued", "Running"}]
  /\ future \in [Tasks -> TerminalStatuses \cup {"Pending"}]
  /\ expired \in SUBSET Tasks
  /\ queue \in Seq(Tasks)
  /\ tasks \in [CommandIds -> Tasks \cup {NoTask}]
  /\ accepted \in Nat
  /\ highWatermark \in Nat
  /\ counts \in [TerminalStatuses -> Nat]
  /\ active_count \in Int
  /\ accepting \in BOOLEAN
  /\ shutdown_in_progress \in BOOLEAN
  /\ shutdown_complete \in BOOLEAN
  /\ worker_ids \in SUBSET Workers
  /\ stop_requested \in BOOLEAN
  /\ waiting \in SUBSET Threads
  /\ call \in [Threads -> CallStates]
  /\ cancelled \in [Threads -> SUBSET Tasks]
  /\ wpc \in [Workers -> WorkerStates]
  /\ wtask \in [Workers -> Tasks \cup {NoTask}]
  /\ wresult \in [Workers -> TerminalStatuses \cup {"Pending"}]

\* The workers that hold a task, and those that have not yet erased it from
\* tasks_.
HoldsTask(w) == wpc[w] \in {"taken", "executing", "finishing", "publishing"}
Busy(w) == wpc[w] \in {"taken", "executing", "finishing"}

\* The waiting commands never exceed maximumQueueSize, and the high-water mark
\* reported by GetStatistics is never below the current size or above the limit.
QueueBounded ==
  /\ Len(queue) <= highWatermark
  /\ highWatermark <= MaximumQueueSize

\* The index tasks_ holds exactly the queued and the running commands, under
\* their own identifiers: Enqueue, Cancel, Shutdown and the workers, which each
\* update the deque and the map in separate statements, never let them diverge,
\* so an identifier is outstanding at most once and Contains is exact.
IndexMatchesWork ==
  /\ \A id \in CommandIds : tasks[id] # NoTask =>
       /\ command[tasks[id]].id = id
       /\ tasks[id] \in Queued \/ \E w \in Workers : Busy(w) /\ wtask[w] = tasks[id]
  /\ \A k \in Queued : tasks[command[k].id] = k /\ state[k] = "Queued"
  /\ \A w \in Workers : Busy(w) => /\ tasks[command[wtask[w]].id] = wtask[w]
                                   /\ state[wtask[w]] = "Running"

\* A promise is unfulfilled exactly when the queue, a worker, or a Cancel or
\* Shutdown call has its task; a task not yet submitted has no result.
PendingIsOwned ==
  /\ \A k \in Tasks :
       (k <= submitted /\ future[k] = "Pending")
         <=> \/ k \in Queued
             \/ \E w \in Workers : HoldsTask(w) /\ wtask[w] = k
             \/ \E t \in Threads : k \in cancelled[t]
  /\ \A k \in Tasks : submitted < k => future[k] = "Pending"

\* No two of those parties have the same task.
OwnersAreDisjoint ==
  /\ IsInjective(queue)
  /\ \A v, w \in Workers :
       HoldsTask(v) /\ HoldsTask(w) /\ wtask[v] = wtask[w] => v = w
  /\ \A t, u \in Threads : t # u => cancelled[t] \cap cancelled[u] = {}
  /\ \A w \in Workers : HoldsTask(w) => wtask[w] \notin Queued
  /\ \A t \in Threads : cancelled[t] \cap Queued = {}
  /\ \A t \in Threads, w \in Workers : HoldsTask(w) => wtask[w] \notin cancelled[t]

\* Every promise that is not yet fulfilled has exactly one party that will
\* fulfil it: the queue, one worker, or one Cancel or Shutdown call.  No future
\* is abandoned and no promise is fulfilled twice, whatever the interleaving of
\* Cancel, Shutdown and the workers.
EveryPromiseHasOneOwner == PendingIsOwned /\ OwnersAreDisjoint

\* GetStatistics is exact at every instant: each cumulative counter equals the
\* number of futures that hold that result plus the results already recorded
\* under the mutex and about to be published, and active is the number of
\* workers holding a command.
StatisticsAreExact ==
  /\ \A s \in TerminalStatuses :
       counts[s] = Cardinality({k \in 1..submitted : future[k] = s})
                   + Cardinality({w \in Workers : wpc[w] = "publishing" /\ wresult[w] = s})
                   + (IF s = "Cancelled"
                        THEN Cardinality(UNION {cancelled[t] : t \in Threads}) ELSE 0)
  /\ active_count = Cardinality({w \in Workers : Busy(w)})

\* What the queue stores is consistent under mutex_: the variables have their
\* types, the waiting commands and the high-water mark respect
\* maximumQueueSize, and tasks_ indexes exactly the waiting and running commands,
\* also after an Enqueue that threw between its two insertions.
StoreIsConsistent == TypeOK /\ QueueBounded /\ IndexMatchesWork

\* Once Shutdown has completed, no worker runs, no command is queued or
\* outstanding, and the only futures not yet ready belong to commands a
\* concurrent Cancel has removed and is about to report.
ShutdownIsQuiescent ==
  shutdown_complete =>
    /\ ~accepting /\ queue = <<>>
    /\ \A id \in CommandIds : tasks[id] = NoTask
    /\ \A w \in Workers : wpc[w] = "exited"
    /\ \A k \in Tasks : k <= submitted /\ future[k] = "Pending" =>
         \E t \in Threads : call[t] = "cancelPublish" /\ k \in cancelled[t]

\* Who may be where: a worker is inside a call of the queue only from its
\* executor; only Cancel and Shutdown hold removed tasks; one thread at a time
\* shuts the queue down, and from that moment nothing is accepted and the queue
\* stays empty; waiters are workers between tasks or callers of Shutdown.
CallProtocol ==
  /\ \A w \in Workers : call[w] # "idle" => wpc[w] = "executing"
  /\ \A w \in Workers : w \in worker_ids <=> wpc[w] \notin {"starting", "exited"}
  /\ \A t \in Threads : cancelled[t] # {} => call[t] \in {"cancelPublish", "shutdownPublish"}
  /\ \A t \in Threads : call[t] \in {"shutdownPublish", "shutdownJoin"} =>
       shutdown_in_progress /\ t \in Callers
  /\ \A t \in Threads : call[t] = "shutdownWait" => t \in Callers
  /\ \A t, u \in Threads :
       /\ call[t] \in {"shutdownPublish", "shutdownJoin"}
       /\ call[u] \in {"shutdownPublish", "shutdownJoin"}
       => t = u
  /\ shutdown_in_progress => ~accepting /\ ~shutdown_complete
  /\ accepting => ~shutdown_complete /\ ~stop_requested
  /\ ~accepting => queue = <<>>
  /\ \A t \in waiting : \/ t \in Workers /\ wpc[t] = "ready"
                        \/ t \in Callers /\ call[t] = "shutdownWait"

\* The deque holds the waiting tasks in the order in which they were accepted.
QueueInAcceptanceOrder ==
  \A i, j \in DOMAIN queue : i < j => queue[i] < queue[j]

\* Run's local task is set while it is used, and so is its local result; every
\* numbered task carries the command it was submitted with and the others are
\* untouched.
LocalsAreSet ==
  /\ \A w \in Workers : HoldsTask(w) => wtask[w] # NoTask
  /\ \A k \in 1..submitted : command[k] \in Commands
  /\ \A k \in Tasks : submitted < k => state[k] = "Queued"

ResultIsSet ==
  \A w \in Workers : wpc[w] \in {"finishing", "publishing"} => wresult[w] # "Pending"

\* The inductive invariant behind the theorems of CommandQueueProofs.
IInv ==
  /\ TypeOK
  /\ QueueBounded
  /\ CallProtocol
  /\ QueueInAcceptanceOrder
  /\ LocalsAreSet
  /\ ResultIsSet
  /\ IndexMatchesWork
  /\ EveryPromiseHasOneOwner
  /\ ShutdownIsQuiescent

\* Dequeue order promised by the class documentation: a worker takes a command
\* only if every other waiting command has lower priority, or equal priority
\* and a later acceptance.
DescendingPriorityFifo ==
  [][\A w \in Workers : wpc[w] = "ready" /\ wpc'[w] = "taken" =>
       \A i \in DOMAIN queue : queue[i] # wtask'[w] =>
         LET mine == command[wtask'[w]].priority
             other == command[queue[i]].priority
         IN other < mine \/ (other = mine /\ wtask'[w] < queue[i])]_vars

\* The steps that start only unresolved, unclaimed tasks and that leave every
\* resolved future alone.
ResolvedStep ==
  \A k \in Tasks :
    /\ state'[k] # state[k] => /\ future[k] = "Pending"
                               /\ \A t \in Threads : k \notin cancelled[t]
    /\ future[k] # "Pending" => future'[k] = future[k]

\* A command starts running only while its future is unresolved and no Cancel
\* or Shutdown has claimed it, and a resolved future never changes: a command
\* reported cancelled or rejected is never executed.
ResolvedNeverStarts == [][ResolvedStep]_vars

\* Every submitted command is eventually resolved, although workers sleep on a
\* condition variable that Enqueue signals with notify_one after unlocking: no
\* wake-up is lost.
EveryCommandResolves ==
  \A k \in Tasks : (k <= submitted) ~> (future[k] # "Pending")

\* A Shutdown that has begun completes, and every thread that waits for it
\* returns: the joins terminate and the waiters are woken.
ShutdownCompletes ==
  /\ shutdown_in_progress ~> shutdown_complete
  /\ \A t \in Threads : (call[t] = "shutdownWait") ~> (call[t] = "idle")

\* The documentation of CommandQueueStatistics::cancelled, "Commands cancelled
\* before execution.": the counter never includes a command that started.
CancelledBeforeExecution ==
  counts["Cancelled"] =
    Cardinality({k \in 1..submitted :
      state[k] = "Queued" /\ (future[k] = "Cancelled" \/ \E t \in Threads : k \in cancelled[t])})
=============================================================================

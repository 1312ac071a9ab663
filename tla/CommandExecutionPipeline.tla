---------------------- MODULE CommandExecutionPipeline ----------------------
(***************************************************************************)
(* humanoid::core::CommandExecutionPipeline: submissions get an execution   *)
(* identifier, wait in a bounded queue, are run by worker threads, and are  *)
(* recorded in a bounded history, in metrics and in lifecycle events that   *)
(* are sent to subscribed callbacks after the lock is released.             *)
(*                                                                         *)
(* One action per section under mutex_, and one per promise, callback round *)
(* and notification made outside it.  Execution::sequence is the order of   *)
(* queue_ itself, since both are written in the same critical section.      *)
(***************************************************************************)
EXTENDS Integers, Sequences, FiniteSets, Functions, SequencesExt

CONSTANTS
  Clients, Workers,      \* threads
  Commands,              \* [id, priority, verdicts]: see ValidateForSubmission
  ExecutorResults,       \* statuses the executor returns; "throw" when it throws
  MaximumQueueSize, MaximumHistorySize,
  MaxExecutions,         \* bound on the number of Submit calls
  MaxCallbacks,          \* bound on the number of Subscribe calls
  CancelDuringShutdown   \* whether clients call Cancel while Shutdown runs

Terminal == {"Completed", "Cancelled", "Failed", "Timeout", "Rejected"}
Records == Terminal \cup {"Queued", "Running"}   \* what a record or an event says
Ids == 1..MaxExecutions
Callbacks == 1..MaxCallbacks
Threads == Clients \cup Workers

\* What the constructor requires of its options.
ValidOptions ==
  /\ MaximumQueueSize \in Nat \ {0} /\ MaximumHistorySize \in Nat \ {0}
  /\ Workers # {}

PipelineAssumption ==
  /\ Clients \cap Workers = {}
  /\ ValidOptions
  /\ MaxExecutions \in Nat \ {0}
  /\ MaxCallbacks \in Nat

VARIABLES
  \* Execution objects, by execution identifier.
  command, status, running, future,
  \* Members of Impl.
  queue, executions, command_to_execution, records, history_order,
  callbacks, next_callback_id, metrics, running_count, next_execution_id,
  accepting, shutdown_in_progress, shutdown_complete, stop_requested,
  \* Threads: blocked in condition_, position, operation, current execution,
  \* its result, the pending event's receivers, what Shutdown took from queue_.
  waiting, pc, op, cur, res, receivers, cancelled,
  \* History: executor invocations, and the events each callback received.
  invoked, received

execVars == <<command, status, running, future>>
indexVars == <<queue, executions, command_to_execution, records, history_order>>
lifeVars == <<accepting, shutdown_in_progress, shutdown_complete, stop_requested>>
callbackVars == <<callbacks, next_callback_id>>
threadVars == <<pc, op, cur, res, receivers, cancelled>>
vars == <<execVars, indexVars, lifeVars, callbackVars, threadVars, metrics,
          running_count, next_execution_id, waiting, invoked, received>>

Metrics == Terminal \cup {"accepted", "started"}

Init ==
  /\ command = [e \in Ids |-> CHOOSE c \in Commands : TRUE]
  /\ status = [e \in Ids |-> "Pending"]
  /\ running = [e \in Ids |-> FALSE]
  /\ future = [e \in Ids |-> "Pending"]
  /\ queue = <<>> /\ executions = {}
  /\ command_to_execution = [i \in {c.id : c \in Commands} |-> 0]
  /\ records = [e \in Ids |-> "none"] /\ history_order = <<>>
  /\ callbacks = {} /\ next_callback_id = 1
  /\ metrics = [m \in Metrics |-> 0]
  /\ running_count = 0 /\ next_execution_id = 1
  /\ accepting = TRUE /\ shutdown_in_progress = FALSE
  /\ shutdown_complete = FALSE /\ stop_requested = FALSE
  /\ waiting = {}
  /\ pc = [t \in Threads |-> IF t \in Workers THEN "wait" ELSE "idle"]
  /\ op = [t \in Threads |-> "none"]
  /\ cur = [t \in Threads |-> 0]
  /\ res = [t \in Threads |-> "Pending"]
  /\ receivers = [t \in Threads |-> {}]
  /\ cancelled = [t \in Threads |-> <<>>]
  /\ invoked = {}
  /\ received = [k \in Callbacks |-> [e \in Ids |-> <<>>]]

-----------------------------------------------------------------------------
(* Helpers run under the lock                                              *)

Goto(t, label) == pc' = [pc EXCEPT ![t] = label]

Retained(r) == { e \in Ids : r[e] # "none" }

\* The identifiers PruneHistoryLocked erases: the oldest records that are not
\* outstanding, until the history fits or only outstanding ones are left.
Pruned(recs, order, outstanding) ==
  LET finished == SelectSeq(order, LAMBDA e : e \notin outstanding)
      excess == Cardinality(Retained(recs)) - MaximumHistorySize
  IN { finished[i] : i \in { j \in DOMAIN finished : j <= excess } }

PruneHistoryLocked(recs, order, outstanding) ==
  LET gone == Pruned(recs, order, outstanding)
  IN /\ records' = [e \in Ids |-> IF e \in gone THEN "none" ELSE recs[e]]
     /\ history_order' = SelectSeq(order, LAMBDA e : e \notin gone)

\* A nonterminal status is counted as a failure.
RecordTerminalMetricsLocked(s) ==
  metrics' = [metrics EXCEPT ![IF s \in Terminal THEN s ELSE "Failed"] = @ + 1]

CompleteExecutionLocked(e, s) ==
  /\ status' = [status EXCEPT ![e] = s]
  /\ executions' = executions \ {e}
  /\ command_to_execution' = [command_to_execution EXCEPT ![command[e].id] = 0]
  /\ running_count' = IF running[e] /\ running_count > 0 THEN running_count - 1
                      ELSE running_count
  /\ running' = [running EXCEPT ![e] = FALSE]
  /\ RecordTerminalMetricsLocked(s)
  /\ PruneHistoryLocked([records EXCEPT ![e] = s], history_order, executions \ {e})

\* EventFromRecord and CallbackSnapshotLocked: thread t will send e's status.
SnapshotCallbacks(t, e, s) ==
  /\ cur' = [cur EXCEPT ![t] = e]
  /\ res' = [res EXCEPT ![t] = s]
  /\ receivers' = [receivers EXCEPT ![t] = callbacks]

\* std::max_element by priority, then by lowest sequence.
IsHighestPriority(q, i) ==
  /\ i \in DOMAIN q
  /\ \A j \in DOMAIN q :
       /\ command[q[j]].priority <= command[q[i]].priority
       /\ j < i => command[q[j]].priority < command[q[i]].priority

-----------------------------------------------------------------------------
(* Client operations                                                       *)

\* Submit, first section: NextExecutionId.
Submit(t, c) ==
  /\ pc[t] = "idle" /\ next_execution_id <= MaxExecutions
  /\ next_execution_id' = next_execution_id + 1
  /\ command' = [command EXCEPT ![next_execution_id] = c]
  /\ cur' = [cur EXCEPT ![t] = next_execution_id]
  /\ Goto(t, "submit") /\ op' = [op EXCEPT ![t] = "submit"]
  /\ UNCHANGED <<status, running, future, indexVars, lifeVars, callbackVars, res,
                 receivers, cancelled, metrics, running_count, waiting, invoked, received>>

\* The verdicts of ValidateForSubmission, "ok" for nullopt: a timed command may
\* have expired or not.
ValidateForSubmission(c) == c.verdicts

Admissible(c) ==
  /\ accepting
  /\ command_to_execution[c.id] = 0
  /\ Len(queue) < MaximumQueueSize

\* Submit, second section: the execution is queued.
SubmitAccepted(t) ==
  LET e == cur[t] c == command[e]
  IN /\ pc[t] = "submit"
     /\ "ok" \in ValidateForSubmission(c) /\ Admissible(c)
     /\ status' = [status EXCEPT ![e] = "Queued"]
     /\ records' = [records EXCEPT ![e] = "Queued"]
     /\ history_order' = Append(history_order, e)
     /\ executions' = executions \cup {e}
     /\ command_to_execution' = [command_to_execution EXCEPT ![c.id] = e]
     /\ queue' = Append(queue, e)
     /\ metrics' = [metrics EXCEPT !["accepted"] = @ + 1]
     /\ SnapshotCallbacks(t, e, "Queued")
     /\ Goto(t, "emit")
     /\ UNCHANGED <<command, running, future, lifeVars, callbackVars, op, cancelled,
                    running_count, next_execution_id, waiting, invoked, received>>

\* Submit, validation failed or the second section refused it.
SubmitRefused(t) ==
  /\ pc[t] = "submit"
  /\ \E v \in ValidateForSubmission(command[cur[t]]) :
    /\ v = "ok" => ~Admissible(command[cur[t]])
    /\ res' = [res EXCEPT ![t] = IF v = "ok" THEN "Rejected" ELSE v]
    /\ Goto(t, "refused") /\ op' = [op EXCEPT ![t] = "refuse"]
    /\ UNCHANGED <<execVars, indexVars, lifeVars, callbackVars, cur, receivers, cancelled,
                   metrics, running_count, next_execution_id, waiting, invoked, received>>

CompleteRejectedExecution(t) ==
  LET e == cur[t] s == res[t]
  IN /\ pc[t] = "refused"
     /\ status' = [status EXCEPT ![e] = s]
     /\ RecordTerminalMetricsLocked(s)
     /\ PruneHistoryLocked([records EXCEPT ![e] = s], Append(history_order, e), executions)
     /\ SnapshotCallbacks(t, e, s)
     /\ Goto(t, "promise")
     /\ UNCHANGED <<command, running, future, queue, executions, command_to_execution,
                    lifeVars, callbackVars, op, cancelled, running_count,
                    next_execution_id, waiting, invoked, received>>

EraseQueued(e) == queue' = SelectSeq(queue, LAMBDA f : f # e)

\* Fault: a running execution may be cancelled.
CancelsRunning(e) == e \in executions

Cancellable(e) == e \in executions /\ ~running[e]

Cancel(t, e) ==
  /\ pc[t] = "idle"
  /\ CancelDuringShutdown \/ accepting
  /\ Cancellable(e)
  /\ EraseQueued(e)
  /\ CompleteExecutionLocked(e, "Cancelled")
  /\ SnapshotCallbacks(t, e, "Cancelled")
  /\ Goto(t, "promise") /\ op' = [op EXCEPT ![t] = "cancel"]
  /\ UNCHANGED <<command, future, lifeVars, callbackVars, cancelled, next_execution_id,
                 waiting, invoked, received>>

\* Shutdown from a worker thread is refused and changes nothing.
Shutdown(t) ==
  /\ pc[t] = "idle"
  /\ ~shutdown_complete /\ ~shutdown_in_progress
  /\ shutdown_in_progress' = TRUE /\ accepting' = FALSE
  /\ cancelled' = [cancelled EXCEPT ![t] = queue]
  /\ queue' = <<>>
  /\ Goto(t, "drain") /\ op' = [op EXCEPT ![t] = "shutdown"]
  /\ UNCHANGED <<execVars, executions, command_to_execution, records, history_order,
                 shutdown_complete, stop_requested, callbackVars, cur, res, receivers,
                 metrics, running_count, next_execution_id, waiting, invoked, received>>

ShutdownWaits(t) ==
  /\ \/ pc[t] = "idle" /\ shutdown_in_progress
     \/ pc[t] = "await" /\ t \notin waiting
  /\ ~shutdown_complete
  /\ Goto(t, "await") /\ waiting' = waiting \cup {t}
  /\ UNCHANGED <<execVars, indexVars, lifeVars, callbackVars, op, cur, res, receivers,
                 cancelled, metrics, running_count, next_execution_id, invoked, received>>

ShutdownWaitReturns(t) ==
  /\ pc[t] = "await" /\ t \notin waiting /\ shutdown_complete
  /\ Goto(t, "idle")
  /\ UNCHANGED <<execVars, indexVars, lifeVars, callbackVars, op, cur, res, receivers, cancelled,
                 metrics, running_count, next_execution_id, waiting, invoked, received>>

\* The loop of Shutdown over what it took from the queue.
DrainCancelled(t) ==
  /\ pc[t] = "drain" /\ cancelled[t] # <<>>
  /\ cancelled' = [cancelled EXCEPT ![t] = Tail(@)]
  /\ CompleteExecutionLocked(Head(cancelled[t]), "Cancelled")
  /\ SnapshotCallbacks(t, Head(cancelled[t]), "Cancelled")
  /\ Goto(t, "promise")
  /\ UNCHANGED <<command, future, queue, lifeVars, callbackVars, op, next_execution_id,
                 waiting, invoked, received>>

\* request_stop() on every worker, then notify_all().
StopWorkers(t) ==
  /\ pc[t] = "drain" /\ cancelled[t] = <<>>
  /\ stop_requested' = TRUE
  /\ waiting' = {}
  /\ Goto(t, "join")
  /\ UNCHANGED <<execVars, indexVars, accepting, shutdown_in_progress, shutdown_complete,
                 callbackVars, op, cur, res, receivers, cancelled, metrics, running_count,
                 next_execution_id, invoked, received>>

\* Fault: the threads that wait for shutdown_complete_ are not notified.
FinishesSilently(t) ==
  /\ pc[t] = "join" /\ \A w \in Workers : pc[w] = "exited"
  /\ PruneHistoryLocked(records, history_order, executions)
  /\ shutdown_complete' = TRUE /\ shutdown_in_progress' = FALSE
  /\ Goto(t, "idle")
  /\ UNCHANGED <<execVars, queue, executions, command_to_execution, accepting,
                 stop_requested, callbackVars, op, cur, res, receivers, cancelled, metrics,
                 running_count, next_execution_id, waiting, invoked, received>>

\* After the workers have been joined.
FinishShutdown(t) ==
  /\ pc[t] = "join" /\ \A w \in Workers : pc[w] = "exited"
  /\ PruneHistoryLocked(records, history_order, executions)
  /\ shutdown_complete' = TRUE /\ shutdown_in_progress' = FALSE
  /\ Goto(t, "notify")
  /\ UNCHANGED <<execVars, queue, executions, command_to_execution, accepting,
                 stop_requested, callbackVars, op, cur, res, receivers, cancelled, metrics,
                 running_count, next_execution_id, waiting, invoked, received>>

Subscribe(t) ==
  /\ pc[t] = "idle" /\ next_callback_id <= MaxCallbacks
  /\ callbacks' = callbacks \cup {next_callback_id}
  /\ next_callback_id' = next_callback_id + 1
  /\ UNCHANGED <<execVars, indexVars, lifeVars, threadVars, metrics, running_count,
                 next_execution_id, waiting, invoked, received>>

Unsubscribe(t, k) ==
  /\ pc[t] = "idle" /\ k \in callbacks
  /\ callbacks' = callbacks \ {k}
  /\ UNCHANGED <<execVars, indexVars, lifeVars, next_callback_id, threadVars, metrics,
                 running_count, next_execution_id, waiting, invoked, received>>

-----------------------------------------------------------------------------
(* What any thread does outside the lock                                   *)

\* Where a thread goes after Emit, by operation.
AfterEmit == [submit |-> "notify", refuse |-> "idle", cancel |-> "notify",
              shutdown |-> "drain", run |-> "execute", finish |-> "wait"]

\* Emit: every callback of the snapshot is called.
Emit(t) ==
  /\ pc[t] = "emit"
  /\ received' = [k \in Callbacks |->
       IF k \in receivers[t] THEN [received[k] EXCEPT ![cur[t]] = Append(@, res[t])]
       ELSE received[k]]
  /\ Goto(t, AfterEmit[op[t]])
  /\ receivers' = [receivers EXCEPT ![t] = {}]
  /\ UNCHANGED <<execVars, indexVars, lifeVars, callbackVars, op, cur, res, cancelled,
                 metrics, running_count, next_execution_id, waiting, invoked>>

\* A second set_value throws and is swallowed.
CompletePromise(t) ==
  /\ pc[t] = "promise"
  /\ future' = [future EXCEPT ![cur[t]] = IF @ = "Pending" THEN res[t] ELSE @]
  /\ Goto(t, "emit")
  /\ UNCHANGED <<command, status, running, indexVars, lifeVars, callbackVars, op, cur, res,
                 receivers, cancelled, metrics, running_count, next_execution_id, waiting,
                 invoked, received>>

\* notify_one() after a submission, notify_all() otherwise.
Wake(t) ==
  IF op[t] = "submit" /\ waiting # {}
    THEN \E u \in waiting : waiting' = waiting \ {u}
    ELSE waiting' = {}

\* A worker notifies before it fulfils its promise.
Notify(t) ==
  /\ pc[t] = "notify"
  /\ Wake(t)
  /\ Goto(t, IF t \in Workers THEN "promise" ELSE "idle")
  /\ UNCHANGED <<execVars, indexVars, lifeVars, callbackVars, op, cur, res, receivers, cancelled,
                 metrics, running_count, next_execution_id, invoked, received>>

-----------------------------------------------------------------------------
(* Workers: Run                                                            *)

WaitForWork(w) ==
  /\ pc[w] = "wait" /\ w \notin waiting
  /\ queue = <<>> /\ accepting /\ ~stop_requested
  /\ waiting' = waiting \cup {w}
  /\ UNCHANGED <<execVars, indexVars, lifeVars, callbackVars, threadVars, metrics,
                 running_count, next_execution_id, invoked, received>>

WorkerExits(w) ==
  /\ pc[w] = "wait" /\ w \notin waiting
  /\ queue = <<>> /\ (stop_requested \/ ~accepting)
  /\ Goto(w, "exited")
  /\ UNCHANGED <<execVars, indexVars, lifeVars, callbackVars, op, cur, res, receivers, cancelled,
                 metrics, running_count, next_execution_id, waiting, invoked, received>>

TakeNextExecutionLocked(w) ==
  \E i \in DOMAIN queue :
    LET e == queue[i]
    IN /\ pc[w] = "wait" /\ w \notin waiting
       /\ IsHighestPriority(queue, i)
       /\ queue' = RemoveAt(queue, i)
       /\ running' = [running EXCEPT ![e] = TRUE]
       /\ status' = [status EXCEPT ![e] = "Running"]
       /\ records' = [records EXCEPT ![e] = "Running"]
       /\ running_count' = running_count + 1
       /\ metrics' = [metrics EXCEPT !["started"] = @ + 1]
       /\ SnapshotCallbacks(w, e, "Running")
       /\ Goto(w, "emit") /\ op' = [op EXCEPT ![w] = "run"]
       /\ UNCHANGED <<command, future, executions, command_to_execution, history_order,
                      lifeVars, callbackVars, cancelled, next_execution_id, waiting,
                      invoked, received>>

MayExpire(c) == "Timeout" \in c.verdicts

\* HasExpired is read before the executor is called, and again after it.
ExpiredBeforeInvocation(w) ==
  /\ pc[w] = "execute" /\ MayExpire(command[cur[w]])
  /\ res' = [res EXCEPT ![w] = "Timeout"]
  /\ Goto(w, "complete")
  /\ UNCHANGED <<execVars, indexVars, lifeVars, callbackVars, op, cur, receivers, cancelled,
                 metrics, running_count, next_execution_id, waiting, invoked, received>>

InvokeExecutor(w) ==
  /\ pc[w] = "execute"
  /\ invoked' = invoked \cup {cur[w]}
  /\ Goto(w, "executing")
  /\ UNCHANGED <<execVars, indexVars, lifeVars, callbackVars, op, cur, res, receivers, cancelled,
                 metrics, running_count, next_execution_id, waiting, received>>

\* What Run makes of the executor's answer.
NormalizedResults(c, r) ==
  (IF r \in Terminal THEN {r} ELSE {"Failed"})
    \cup (IF r = "Completed" /\ MayExpire(c) THEN {"Timeout"} ELSE {})

ExecutorReturns(w) ==
  /\ pc[w] = "executing"
  /\ \E r \in ExecutorResults : \E s \in NormalizedResults(command[cur[w]], r) :
       res' = [res EXCEPT ![w] = s]
  /\ Goto(w, "complete")
  /\ UNCHANGED <<execVars, indexVars, lifeVars, callbackVars, op, cur, receivers, cancelled,
                 metrics, running_count, next_execution_id, waiting, invoked, received>>

CompleteRunning(w) ==
  /\ pc[w] = "complete"
  /\ CompleteExecutionLocked(cur[w], res[w])
  /\ SnapshotCallbacks(w, cur[w], res[w])
  /\ Goto(w, "notify") /\ op' = [op EXCEPT ![w] = "finish"]
  /\ UNCHANGED <<command, future, queue, lifeVars, callbackVars, cancelled,
                 next_execution_id, waiting, invoked, received>>

-----------------------------------------------------------------------------
\* What a thread does once it has begun; begun calls and workers keep running.
Continue(t) ==
  \/ SubmitAccepted(t) \/ SubmitRefused(t) \/ CompleteRejectedExecution(t)
  \/ DrainCancelled(t) \/ StopWorkers(t) \/ FinishShutdown(t)
  \/ ShutdownWaitReturns(t)
  \/ Emit(t) \/ CompletePromise(t) \/ Notify(t)

WorkerStep(w) ==
  \/ WorkerExits(w) \/ TakeNextExecutionLocked(w)
  \/ ExpiredBeforeInvocation(w) \/ InvokeExecutor(w) \/ ExecutorReturns(w)
  \/ CompleteRunning(w)

ClientCall(t) ==
  \/ \E c \in Commands : Submit(t, c)
  \/ \E e \in Ids : Cancel(t, e)
  \/ Shutdown(t) \/ ShutdownWaits(t)
  \/ Subscribe(t) \/ \E k \in Callbacks : Unsubscribe(t, k)

SpuriousWakeup ==
  /\ \E t \in waiting : waiting' = waiting \ {t}
  /\ UNCHANGED <<execVars, indexVars, lifeVars, callbackVars, threadVars, metrics,
                 running_count, next_execution_id, invoked, received>>

\* Nothing is left to do after shutdown.
ShutDown ==
  /\ shutdown_complete /\ \A t \in Clients : pc[t] = "idle"
  /\ UNCHANGED vars

Next ==
  \/ \E t \in Clients : ClientCall(t)
  \/ \E t \in Threads : Continue(t)
  \/ \E w \in Workers : WorkerStep(w) \/ WaitForWork(w)
  \/ SpuriousWakeup
  \/ ShutDown

Spec == Init /\ [][Next]_vars
FairSpec == /\ Spec
            /\ \A t \in Threads : WF_vars(Continue(t))
            /\ \A w \in Workers : WF_vars(WorkerStep(w))

-----------------------------------------------------------------------------
(* Properties                                                              *)

TypeOK ==
  /\ status \in [Ids -> Records \cup {"Pending"}]
  /\ future \in [Ids -> Terminal \cup {"Pending"}]
  /\ queue \in Seq(Ids) /\ executions \subseteq Ids
  /\ records \in [Ids -> Records \cup {"none"}]
  /\ history_order \in Seq(Ids)
  /\ metrics \in [Metrics -> Nat] /\ running_count \in 0..Cardinality(Workers)
  /\ waiting \subseteq Threads /\ cur \in [Threads -> {0} \cup Ids]

Drained == UNION { Range(cancelled[t]) : t \in Clients }
CountOf(S) == Cardinality({ e \in Ids : status[e] \in S })

\* GetMetrics is consistent (CommandExecutionPipeline.h: "Returns a consistent
\* metrics snapshot"): each finished execution is counted once, under its final
\* status, and the executions accepted and not finished are the queued, the
\* running and those Shutdown has taken from the queue.
MetricsAreConsistent ==
  /\ \A s \in Terminal : metrics[s] = CountOf({s})
  /\ running_count = CountOf({"Running"})
  /\ executions = Range(queue) \cup { e \in Ids : running[e] } \cup Drained

\* Two executions of one command identifier are never outstanding together,
\* and the index names the outstanding one.
OneExecutionPerCommand ==
  \A e \in executions : command_to_execution[command[e].id] = e

\* "Maximum completed execution records retained in history ... Active
\* executions are retained": finished records never exceed the limit, an
\* outstanding one is never pruned, and the order lists what is retained.
HistoryBounded ==
  /\ executions \subseteq Retained(records)
  /\ Cardinality(Retained(records) \ executions) <= MaximumHistorySize
  /\ Range(history_order) = Retained(records)

\* A handle whose future says Cancelled stands for a command the executor never
\* saw: cancellation wins or loses against the worker, never both.
CancelledNeverRuns ==
  \A e \in Ids : future[e] = "Cancelled" => e \notin invoked

\* Among waiting executions a worker takes the most urgent, oldest first; and
\* while one is taken the others keep their order.
TakesMostUrgent ==
  [][\A w \in Workers :
       (pc[w] = "wait" /\ pc'[w] = "emit") =>
         \A e \in Range(queue) :
           /\ command[e].priority <= command[cur'[w]].priority
           /\ (command[e].priority = command[cur'[w]].priority /\ e # cur'[w]) =>
                \E i, j \in DOMAIN queue : i < j /\ queue[i] = cur'[w] /\ queue[j] = e]_vars

\* A subscriber hears of each stage of an execution at most once, and of one
\* outcome only, even when a snapshot taken before Unsubscribe reaches it late.
EachEventOnce ==
  \A k \in Callbacks, e \in Ids :
    LET seen == received[k][e]
    IN \A i, j \in DOMAIN seen :
         (seen[i] = seen[j] \/ {seen[i], seen[j]} \subseteq Terminal) => i = j

\* Every handle's future becomes ready, whatever the clients do.
EveryFutureResolved ==
  \A e \in Ids : (e < next_execution_id) ~> (future[e] # "Pending")

\* A begun Shutdown ends, and so does the wait of a thread that calls it meanwhile
\* and sleeps on the condition variable of the workers.
ShutdownEnds ==
  /\ shutdown_in_progress ~> shutdown_complete
  /\ \A t \in Clients : pc[t] = "await" ~> pc[t] = "idle"

\* command_execution_pipeline_unit_test.cpp:172-174 expects a subscriber to see
\* Queued, then Running, then the outcome.
EventsInLifecycleOrder ==
  \A k \in Callbacks, e \in Ids :
    \A i \in DOMAIN received[k][e] : received[k][e][i] = "Queued" => i = 1
=============================================================================

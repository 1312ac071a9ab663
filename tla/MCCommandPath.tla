---------------------------- MODULE MCCommandPath ----------------------------
(***************************************************************************)
(* Small instances of the command path: the dispatcher on top of its queue  *)
(* (plain names), the queue alone with two workers (Q), the execution       *)
(* pipeline (P) and the scheduler (S).  In a behaviour one of them is used,  *)
(* with its own fairness.  Two commands of the dispatcher share an           *)
(* identifier; the robot may report an emergency stop.                       *)
(***************************************************************************)
EXTENDS CommandDispatcher, TLC

CONSTANT Parts   \* the components under study

VARIABLE part   \* what is used

Number == [kind |-> "double", value |-> 0]
Cmd(i, p, d, ts, ty, keys) ==
  [id |-> i, priority |-> p, timeout |-> d, timestamp |-> ts, type |-> ty,
   payload |-> [k \in keys |-> Number]]

WalkTimed == Cmd(1, 1, 5, "past", "Walk", VelocityKeys)
WalkAgain == Cmd(2, 1, 0, "unset", "Walk", VelocityKeys)
StopNow   == Cmd(1, 3, 0, "unset", "Stop", {})
MCCommands == {WalkTimed, WalkAgain, StopNow}
MCLiveCommands == {WalkAgain, StopNow}

Robot(stop) ==
  [answers |-> TRUE, supportsPower |-> FALSE, capabilities |-> LegacyAdapterDefaults,
   connected |-> TRUE, emergencyStop |-> stop, fault |-> FALSE,
   standing |-> TRUE, sitting |-> FALSE, walking |-> FALSE, battery |-> 80]
MCQuietRobot == {Robot(FALSE)}
MCStoppingRobot == {Robot(FALSE), Robot(TRUE)}

MCDefaultOptions == DefaultOptions
MCLegacyOptions == LegacyOptions
MCCapabilities == LegacyAdapterDefaults

MCSymmetry == Permutations(Callers)

\* Two commands, one with a deadline.
QueueCommands ==
  {[id |-> 1, priority |-> 1, timeout |-> 0, timestamp |-> "unset"],
   [id |-> 2, priority |-> 1, timeout |-> 5, timestamp |-> "past"]}

VARIABLES q_submitted, q_command, q_state, q_future, q_expired, q_queue, q_tasks,
          q_accepted, q_highWatermark, q_counts, q_active_count, q_accepting,
          q_shutdown_in_progress, q_shutdown_complete, q_worker_ids, q_stop_requested,
          q_waiting, q_call, q_cancelled, q_wpc, q_wtask, q_wresult
Q == INSTANCE CommandQueue WITH
       Callers <- {"c1", "c2"}, Workers <- {"w1", "w2"}, Commands <- QueueCommands,
       ExecutorResults <- {"Completed"}, MaximumQueueSize <- 1, MaxTasks <- 1,
       submitted <- q_submitted, command <- q_command, state <- q_state, future <-
       q_future, expired <- q_expired, queue <- q_queue, tasks <- q_tasks, accepted <-
       q_accepted, highWatermark <- q_highWatermark, counts <- q_counts, active_count
       <- q_active_count, accepting <- q_accepting, shutdown_in_progress <-
       q_shutdown_in_progress, shutdown_complete <- q_shutdown_complete, worker_ids <-
       q_worker_ids, stop_requested <- q_stop_requested, waiting <- q_waiting, call <-
       q_call, cancelled <- q_cancelled, wpc <- q_wpc, wtask <- q_wtask, wresult <-
       q_wresult
qVars == <<q_submitted, q_command, q_state, q_future, q_expired, q_queue, q_tasks,
  q_accepted, q_highWatermark, q_counts, q_active_count, q_accepting,
  q_shutdown_in_progress, q_shutdown_complete, q_worker_ids, q_stop_requested,
  q_waiting, q_call, q_cancelled, q_wpc, q_wtask, q_wresult>>

PipelineCommands ==
  {[id |-> 1, priority |-> 1, verdicts |-> {"ok", "Timeout"}],
   [id |-> 2, priority |-> 1, verdicts |-> {"Rejected"}]}

VARIABLES p_command, p_status, p_running, p_future, p_queue, p_executions,
          p_command_to_execution, p_records, p_history_order, p_callbacks,
          p_next_callback_id, p_metrics, p_running_count, p_next_execution_id,
          p_accepting, p_shutdown_in_progress, p_shutdown_complete, p_stop_requested,
          p_waiting, p_pc, p_op, p_cur, p_res, p_receivers, p_cancelled, p_invoked,
          p_received
P == INSTANCE CommandExecutionPipeline WITH
       Clients <- {"c1", "c2"}, Workers <- {"w1"}, Commands <- PipelineCommands,
       ExecutorResults <- {"Completed", "throw"}, MaximumQueueSize <- 1,
       MaximumHistorySize <- 1, MaxExecutions <- 2, MaxCallbacks <- 0,
       CancelDuringShutdown <- TRUE, command <- p_command, status <- p_status, running
       <- p_running, future <- p_future, queue <- p_queue, executions <- p_executions,
       command_to_execution <- p_command_to_execution, records <- p_records,
       history_order <- p_history_order, callbacks <- p_callbacks, next_callback_id <-
       p_next_callback_id, metrics <- p_metrics, running_count <- p_running_count,
       next_execution_id <- p_next_execution_id, accepting <- p_accepting,
       shutdown_in_progress <- p_shutdown_in_progress, shutdown_complete <-
       p_shutdown_complete, stop_requested <- p_stop_requested, waiting <- p_waiting,
       pc <- p_pc, op <- p_op, cur <- p_cur, res <- p_res, receivers <- p_receivers,
       cancelled <- p_cancelled, invoked <- p_invoked, received <- p_received
pVars == <<p_command, p_status, p_running, p_future, p_queue, p_executions,
  p_command_to_execution, p_records, p_history_order, p_callbacks, p_next_callback_id,
  p_metrics, p_running_count, p_next_execution_id, p_accepting,
  p_shutdown_in_progress, p_shutdown_complete, p_stop_requested, p_waiting, p_pc,
  p_op, p_cur, p_res, p_receivers, p_cancelled, p_invoked, p_received>>

VARIABLES s_state, s_stopRequested, s_paused, s_cancelRequested, s_future, s_queue,
          s_records, s_completed_order, s_statistics, s_running_count,
          s_sequential_running, s_accepting, s_shutdown_in_progress,
          s_shutdown_complete, s_stop_requested, s_waiting, s_position, s_cur, s_res,
          s_todo, s_shutdownCalled, s_thrown
S == INSTANCE RuntimeScheduler WITH
       Clients <- {"c1", "c2"}, Workers <- {"w1"}, Jobs <- {1, 2}, Priority <- <<1, 2>>,
       Sequential <- {2}, CallbackStates <- {"Completed"}, MaximumQueueSize
       <- 2, MaximumCompletedHistorySize <- 1, MaxRefusals <- 0, MaxThrows <- 0,
       JobsMayShutDown <- FALSE, state <- s_state, stopRequested <- s_stopRequested, paused <- s_paused,
       cancelRequested <- s_cancelRequested, future <- s_future, queue <- s_queue,
       records <- s_records, completed_order <- s_completed_order, statistics <-
       s_statistics, running_count <- s_running_count, sequential_running <-
       s_sequential_running, accepting <- s_accepting, shutdown_in_progress <-
       s_shutdown_in_progress, shutdown_complete <- s_shutdown_complete,
       stop_requested <- s_stop_requested, waiting <- s_waiting, position <- s_position, cur <-
       s_cur, res <- s_res, todo <- s_todo, shutdownCalled <- s_shutdownCalled,
       thrown <- s_thrown
sVars == <<s_state, s_stopRequested, s_paused, s_cancelRequested, s_future, s_queue,
  s_records, s_completed_order, s_statistics, s_running_count, s_sequential_running,
  s_accepting, s_shutdown_in_progress, s_shutdown_complete, s_stop_requested,
  s_waiting, s_position, s_cur, s_res, s_todo, s_shutdownCalled, s_thrown>>

ASSUME P!PipelineAssumption
ASSUME S!SchedulerAssumption

MCInit ==
  /\ part \in Parts
  /\ DInit /\ Q!Init /\ P!Init /\ S!SchedulerInit

everything == <<part, allVars, qVars, pVars, sVars>>

\* The second client of the pipeline and of the scheduler only calls Shutdown, at any
\* time: the first one calls Cancel meanwhile, or Stop, or waits for it.
PipelineSteps == P!Next /\ p_op'["c2"] \notin {"submit", "cancel"}

SchedulerSteps ==
  /\ S!SchedulerNext
  /\ s_position["c2"] = "idle" => s_position'["c2"] \in {"idle", "shutdown", "await"}

MCNext ==
  \/ part = "dispatcher" /\ DNext
     /\ UNCHANGED <<part, qVars, pVars, sVars>>
  \/ part = "queue" /\ Q!Next
     /\ UNCHANGED <<part, allVars, pVars, sVars>>
  \/ part = "pipeline" /\ PipelineSteps
     /\ UNCHANGED <<part, allVars, qVars, sVars>>
  \/ part = "scheduler" /\ SchedulerSteps
     /\ UNCHANGED <<part, allVars, qVars, pVars>>

\* The fairness of each: threads inside its code keep running, executors and adapters
\* return.
MCFairness ==
  /\ \A t \in Threads : /\ WF_allVars(part = "dispatcher" /\ DispatcherStep(t))
                       /\ WF_allVars(part = "dispatcher" /\ DispatchStep(t))
  /\ \A w \in Workers : WF_allVars(part = "dispatcher" /\ DispatchWorkerStep(w))
  /\ \A t \in Q!Threads : WF_qVars(part = "queue" /\ Q!CallStep(t))
  /\ \A w \in {"w1", "w2"} : WF_qVars(part = "queue" /\ Q!WorkerStep(w))
  /\ \A t \in P!Threads : WF_pVars(part = "pipeline" /\ P!Continue(t))
  /\ WF_pVars(part = "pipeline" /\ P!WorkerStep("w1"))
  /\ \A t \in S!Threads : WF_sVars(part = "scheduler" /\ S!Continue(t))
  /\ WF_sVars(part = "scheduler" /\ S!WorkerStep("w1"))
  /\ WF_sVars(part = "scheduler" /\ S!WaitIfPaused("w1"))

MCSpec == MCInit /\ [][MCNext]_everything
MCFairSpec == MCSpec /\ MCFairness

-----------------------------------------------------------------------------
\* CommandQueue: every command that was accepted is resolved in the end: the wake-up that
\* Enqueue gives with notify_one after unlocking is not lost.  (Below the dispatcher a
\* worker may wait for adapter_mutex_ as long as others call Execute.)
AcceptedCommandsResolve == Q!EveryCommandResolves

\* CommandQueue: a Shutdown that has begun completes, and threads that wait for it return.
QueueShutdownCompletes == Q!ShutdownCompletes

\* CommandExecutionPipeline: every handle's future becomes ready, ...
EveryFutureResolved == P!EveryFutureResolved

\* ... and a begun Shutdown ends, though another client cancels meanwhile, and so does
\* the wait of a client that calls it while it runs.
PipelineShutdownEnds == P!ShutdownEnds

\* RuntimeScheduler: once no job is left paused, every accepted job's future becomes ready.
EveryJobResolves == S!EveryJobResolves

\* RuntimeScheduler: Shutdown ends, also when a running job is blocked in WaitIfPaused or
\* another client stops it, and so does the wait of a client that calls it meanwhile.
SchedulerShutdownEnds == S!ShutdownEnds

\* Every Shutdown that has begun completes, and every thread that waits for it returns: in
\* the dispatcher, the queue, the execution pipeline and the scheduler.
EveryShutdownReturns ==
  /\ DispatcherShutdownCompletes /\ QueueShutdownCompletes
  /\ PipelineShutdownEnds /\ SchedulerShutdownEnds

\* Whatever was accepted is resolved: the future that Enqueue, Execute or Submit returned
\* becomes ready, so no notify is lost between an unlock and a wait.
EverythingAcceptedResolves ==
  AcceptedCommandsResolve /\ EveryFutureResolved /\ EveryJobResolves
=============================================================================

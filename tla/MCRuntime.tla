----------------------------- MODULE MCRuntime -----------------------------
(***************************************************************************)
(* Small instances of the services of the runtime that do not call one      *)
(* another: the resource manager, the scheduler, the cancellation tree and  *)
(* the blackboard (plain names), the execution pipeline (P), the telemetry  *)
(* service (T) and the ROS 2 bridge on top of it (B).  In a behaviour one   *)
(* of them is used and the others stay as they were constructed.            *)
(***************************************************************************)
EXTENDS ResourceManager, RuntimeScheduler, Cancellation, Blackboard, TLC

CONSTANTS Parts,                  \* the services under study
          PipelineClients,        \* threads that call the execution pipeline
          CancelDuringShutdown,   \* Cancel may run while the pipeline shuts down
          TelemetryClients        \* threads that start and stop the telemetry service

VARIABLE part   \* the service that is used

Timed == [id |-> 1, priority |-> 1, verdicts |-> {"ok", "Timeout"}]
Urgent == [id |-> 2, priority |-> 3, verdicts |-> {"ok"}]

VARIABLES p_command, p_status, p_running, p_future, p_queue, p_executions,
          p_command_to_execution, p_records, p_history_order, p_callbacks,
          p_next_callback_id, p_metrics, p_running_count, p_next_execution_id,
          p_accepting, p_shutdown_in_progress, p_shutdown_complete, p_stop_requested,
          p_waiting, p_pc, p_op, p_cur, p_res, p_receivers, p_cancelled, p_invoked,
          p_received
P == INSTANCE CommandExecutionPipeline WITH
       Clients <- PipelineClients, Workers <- {"w1"}, Commands <- {Timed, Urgent},
       ExecutorResults <- {"Completed", "throw"}, MaximumQueueSize <- 2,
       MaximumHistorySize <- 1, MaxExecutions <- 2, MaxCallbacks <- 1,
       CancelDuringShutdown <- CancelDuringShutdown, command <- p_command, status <-
       p_status, running <- p_running, future <- p_future, queue <- p_queue,
       executions <- p_executions, command_to_execution <- p_command_to_execution,
       records <- p_records, history_order <- p_history_order, callbacks <-
       p_callbacks, next_callback_id <- p_next_callback_id, metrics <- p_metrics,
       running_count <- p_running_count, next_execution_id <- p_next_execution_id,
       accepting <- p_accepting, shutdown_in_progress <- p_shutdown_in_progress,
       shutdown_complete <- p_shutdown_complete, stop_requested <- p_stop_requested,
       waiting <- p_waiting, pc <- p_pc, op <- p_op, cur <- p_cur, res <- p_res,
       receivers <- p_receivers, cancelled <- p_cancelled, invoked <- p_invoked,
       received <- p_received
pVars == <<p_command, p_status, p_running, p_future, p_queue, p_executions,
  p_command_to_execution, p_records, p_history_order, p_callbacks, p_next_callback_id,
  p_metrics, p_running_count, p_next_execution_id, p_accepting,
  p_shutdown_in_progress, p_shutdown_complete, p_stop_requested, p_waiting, p_pc,
  p_op, p_cur, p_res, p_receivers, p_cancelled, p_invoked, p_received>>

MCPriority == <<1, 2>>

MCParent == [child |-> "root", grandchild |-> "child"]

MCValues == {[type |-> "int", value |-> "a"], [type |-> "int", value |-> "b"],
             [type |-> "text", value |-> "a"]}

\* The telemetry service with listeners that stop it, and with more subscriptions
\* than identifiers.
VARIABLES t_state, t_stop_requested, t_worker, t_started, t_pc, t_stop_token,
          t_snapshot, t_pending, t_joining, t_listeners, t_next_subscription_id, t_id,
          t_subscribed, t_live, t_seen, t_final
T == INSTANCE TelemetryService WITH
       Clients <- TelemetryClients, ListenerCalls <- {"Stop"}, MaxStarts <- 2, MaxSubs <- 3,
       MaxId <- 2, MaxVersion <- 2, state <- t_state, stop_requested <-
       t_stop_requested, worker <- t_worker, started <- t_started, pc <- t_pc,
       stop_token <- t_stop_token, snapshot <- t_snapshot, pending <- t_pending,
       joining <- t_joining, listeners <- t_listeners, next_subscription_id <-
       t_next_subscription_id, id <- t_id, subscribed <- t_subscribed, live <- t_live,
       seen <- t_seen, final <- t_final
tVars == <<t_state, t_stop_requested, t_worker, t_started, t_pc, t_stop_token,
  t_snapshot, t_pending, t_joining, t_listeners, t_next_subscription_id, t_id,
  t_subscribed, t_live, t_seen, t_final>>

VARIABLES b_state, b_stop_requested, b_worker, b_started, b_pc, b_stop_token,
          b_snapshot, b_pending, b_joining, b_listeners, b_next_subscription_id, b_id,
          b_subscribed, b_live, b_seen, b_final, b_running, b_telemetry_subscription,
          b_stopping, b_last_telemetry_state, b_destroyed, b_orphaned
B == INSTANCE ROS2Bridge WITH
       Clients <- TelemetryClients, ListenerCalls <- {}, MaxStarts <- 2, MaxSubs <- 2, MaxId <-
       2, MaxVersion <- 2, BridgeClients <- {"b1", "b2"}, state <- b_state,
       stop_requested <- b_stop_requested, worker <- b_worker, started <- b_started,
       pc <- b_pc, stop_token <- b_stop_token, snapshot <- b_snapshot, pending <-
       b_pending, joining <- b_joining, listeners <- b_listeners, next_subscription_id
       <- b_next_subscription_id, id <- b_id, subscribed <- b_subscribed, live <-
       b_live, seen <- b_seen, final <- b_final, running <- b_running,
       telemetry_subscription <- b_telemetry_subscription, stopping <- b_stopping,
       last_telemetry_state <- b_last_telemetry_state, destroyed <- b_destroyed,
       orphaned <- b_orphaned
bVars == <<b_state, b_stop_requested, b_worker, b_started, b_pc, b_stop_token,
  b_snapshot, b_pending, b_joining, b_listeners, b_next_subscription_id, b_id,
  b_subscribed, b_live, b_seen, b_final, b_running, b_telemetry_subscription,
  b_stopping, b_last_telemetry_state, b_destroyed, b_orphaned>>

ASSUME P!PipelineAssumption
ASSUME T!TelemetryAssumption

allVars == <<part, vars, pVars, schedulerVars, cancellationVars, tVars, bVars, blackboardVars>>

MCInit ==
  /\ part \in Parts
  /\ Init /\ P!Init /\ SchedulerInit /\ CancellationInit /\ T!Init /\ B!BridgeInit /\ BlackboardInit

\* Every lease is held or every source was cancelled: a resource manager and a
\* cancellation tree may stop.
MCNext ==
  \/ part = "resources" /\ Next
     /\ UNCHANGED <<part, pVars, schedulerVars, cancellationVars, tVars, bVars, blackboardVars>>
  \/ part = "resources" /\ UNCHANGED allVars
  \/ part = "pipeline" /\ P!Next
     /\ UNCHANGED <<part, vars, schedulerVars, cancellationVars, tVars, bVars, blackboardVars>>
  \/ part = "scheduler" /\ SchedulerNext
     /\ UNCHANGED <<part, vars, pVars, cancellationVars, tVars, bVars, blackboardVars>>
  \/ part = "cancellation" /\ CancellationNext
     /\ UNCHANGED <<part, vars, pVars, schedulerVars, tVars, bVars, blackboardVars>>
  \/ part = "cancellation" /\ UNCHANGED allVars
  \/ part = "telemetry" /\ T!Next
     /\ UNCHANGED <<part, vars, pVars, schedulerVars, cancellationVars, bVars, blackboardVars>>
  \/ part = "bridge" /\ B!BridgeNext
     /\ UNCHANGED <<part, vars, pVars, schedulerVars, cancellationVars, tVars, blackboardVars>>
  \/ part = "blackboard" /\ BlackboardNext
     /\ UNCHANGED <<part, vars, pVars, schedulerVars, cancellationVars, tVars, bVars>>

MCSpec == MCInit /\ [][MCNext]_allVars

\* CommandExecutionPipeline: the metrics count each accepted execution once, and the
\* executions still outstanding are the rest.
MetricsAreConsistent == P!MetricsAreConsistent

\* CommandExecutionPipeline: each accepted execution is counted once, a command has at
\* most one execution at a time, the history keeps its bound and what is outstanding, the
\* executor is never invoked for a cancelled execution, a subscriber hears of each stage
\* once, and a worker takes the execution of the highest priority.
ExecutionsAreSound ==
  /\ [](/\ P!MetricsAreConsistent /\ P!OneExecutionPerCommand /\ P!HistoryBounded
        /\ P!CancelledNeverRuns /\ P!EachEventOnce)
  /\ P!TakesMostUrgent

\* TelemetryService: a listener gets at most one snapshot after its Unsubscribe and never
\* an older state after a newer one, a running worker is the one a Stop would join, and
\* live subscriptions have distinct identifiers, also after they wrapped around; where one
\* thread and the listeners start and stop the service.  (With two threads a Start during
\* the other's join gives two workers, one snapshot each.)
\* ROS2Bridge: the service holds no subscription of the bridge that nobody cancels, and
\* LastTelemetryState never goes back.
TelemetryIsSound ==
  /\ [](/\ T!OneFinalSnapshot /\ T!RunningWorkersAreOwned /\ T!IdentifiersAreDistinct
        /\ B!NoSubscriptionLeaks)
  /\ T!StatesInOrder /\ B!LastStateInOrder
=============================================================================

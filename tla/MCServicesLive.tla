---------------------------- MODULE MCServicesLive ----------------------------
(***************************************************************************)
(* What must happen in the services, on small instances: the SDK wrapper     *)
(* (plain names), the resource manager (A), the cancellation tree (C),       *)
(* telemetry (T), the jobs that tick trees (R) and the mission executor (M). *)
(* In a behaviour one of them is used, with its own fairness.              *)
(***************************************************************************)
EXTENDS SdkWrapper

CONSTANTS Parts,              \* what is used in a behaviour
          TelemetryClients    \* threads that call the telemetry service

VARIABLE part   \* what is used

Valid == [network_interface |-> TRUE, timeout |-> TRUE, domain_id |-> TRUE,
          interface_exists |-> TRUE, netlink |-> TRUE]
MCConfigurations == {Valid}
MCOptions == {DefaultOptions}

\* Three threads on one resource, two of which block for it.
VARIABLES a_resources, a_shared_leases, a_exclusive_lease, a_waiting_shared,
          a_waiting_exclusive, a_next_lease_id, a_asleep, a_pc, a_want, a_handles,
          a_released
A == INSTANCE ResourceManager WITH
       Acquirers <- {"t1", "t2", "t3"}, Resources <- {"r1"}, Blockers <- {"t1", "t2"},
       MaxLeases <- 2, resources <- a_resources, shared_leases <- a_shared_leases,
       exclusive_lease <- a_exclusive_lease, waiting_shared <- a_waiting_shared,
       waiting_exclusive <- a_waiting_exclusive, next_lease_id <- a_next_lease_id,
       asleep <- a_asleep, pc <- a_pc, want <- a_want, handles <- a_handles, released
       <- a_released
aVars == <<a_resources, a_shared_leases, a_exclusive_lease, a_waiting_shared,
  a_waiting_exclusive, a_next_lease_id, a_asleep, a_pc, a_want, a_handles, a_released>>

\* A cancellation scope with a child and a grandchild.
VARIABLES c_cancelled, c_callbacks, c_linked, c_owner, c_stop_source, c_toInvoke,
          c_request, c_invoked, c_unregistered, c_effective, c_requests
C == INSTANCE Cancellation WITH
       Cancellers <- {"t1", "t2"}, Roots <- {"root"}, Children <- {"child",
       "grandchild"}, Parent <- [child |-> "root", grandchild |-> "child"], UserCallbacks
       <- {"k1"}, MaxRequests <- 1, cancelled <- c_cancelled, callbacks <-
       c_callbacks, linked <- c_linked, owner <- c_owner, stop_source <-
       c_stop_source, toInvoke <- c_toInvoke, request <- c_request, invoked <- c_invoked,
       unregistered <- c_unregistered, effective <- c_effective, requests <-
       c_requests
cVars == <<c_cancelled, c_callbacks, c_linked, c_owner, c_stop_source, c_toInvoke,
  c_request, c_invoked, c_unregistered, c_effective, c_requests>>

\* One client of the telemetry service; listeners may call Stop.
VARIABLES t_state, t_stop_requested, t_worker, t_started, t_pc, t_stop_token,
          t_snapshot, t_pending, t_joining, t_listeners, t_next_subscription_id, t_id,
          t_subscribed, t_live, t_seen, t_final
T == INSTANCE TelemetryService WITH
       Clients <- TelemetryClients, ListenerCalls <- {"Stop"}, MaxStarts <- 2, MaxSubs <- 1,
       MaxId <- 3, MaxVersion <- 1, state <- t_state, stop_requested <-
       t_stop_requested, worker <- t_worker, started <- t_started, pc <- t_pc,
       stop_token <- t_stop_token, snapshot <- t_snapshot, pending <- t_pending,
       joining <- t_joining, listeners <- t_listeners, next_subscription_id <-
       t_next_subscription_id, id <- t_id, subscribed <- t_subscribed, live <- t_live,
       seen <- t_seen, final <- t_final
tVars == <<t_state, t_stop_requested, t_worker, t_started, t_pc, t_stop_token,
  t_snapshot, t_pending, t_joining, t_listeners, t_next_subscription_id, t_id,
  t_subscribed, t_live, t_seen, t_final>>

\* Two tree jobs that want one resource; the one that waits for it may be stopped.
VARIABLES r_pc, r_lease, r_status, r_bound, r_shut, r_result, r_cancelled, r_execution,
          r_stopper, r_registered, r_paused, r_late
R == INSTANCE BehaviorTreeRuntime WITH
       Jobs <- {"j1", "j2"}, Stopped <- {"j2"}, Resource <- [j1 |-> "try", j2 |-> "timed"], pc <- r_pc,
       lease <- r_lease, status <- r_status, bound <- r_bound, shut <- r_shut, result
       <- r_result, cancelled <- r_cancelled, stopper <- r_stopper, registered <-
       r_registered, paused <- r_paused, execution <- r_execution, late <- r_late
rVars == <<r_pc, r_lease, r_status, r_bound, r_shut, r_result, r_cancelled, r_execution,
  r_stopper, r_registered, r_paused, r_late>>

V == INSTANCE MissionModel WITH MaxRetry <- 3

RetriedStep ==
  [V!Mission EXCEPT !.steps = <<[V!MissionStep EXCEPT !.retryPolicy.maxAttempts = 2]>>]

\* A mission with a retried step, and two clients.
VARIABLES m_status, m_lastResult, m_pauseRequested, m_cancelRequested,
          m_stopRequested, m_currentIndex, m_currentCommand, m_joinable, m_control,
          m_frame, m_client, m_want, m_calls, m_late, m_wins, m_tries
M == INSTANCE MissionExecutor WITH
       MaxRetry <- 3, Clients <- {"a", "b"}, Worker <- "w", Missions <-
       <<RetriedStep>>, Steps <- {}, Outcomes <- {[status |-> "Completed", text |->
       ""], [status |-> "Failed", text |-> ""]}, HasDispatcher <- TRUE, HasEvaluator
       <- TRUE, MaxCalls <- 3, status <- m_status, lastResult <- m_lastResult,
       pauseRequested <- m_pauseRequested, cancelRequested <- m_cancelRequested,
       stopRequested <- m_stopRequested, currentIndex <- m_currentIndex,
       currentCommand <- m_currentCommand, joinable <- m_joinable, control <-
       m_control, frame <- m_frame, client <- m_client, want <- m_want, calls <-
       m_calls, late <- m_late, wins <- m_wins, tries <- m_tries
mVars == <<m_status, m_lastResult, m_pauseRequested, m_cancelRequested,
  m_stopRequested, m_currentIndex, m_currentCommand, m_joinable, m_control, m_frame,
  m_client, m_want, m_calls, m_late, m_wins, m_tries>>

ASSUME V!MaxRetryAssumption

everything == <<part, vars, aVars, cVars, tVars, rVars, mVars>>

MCInit ==
  /\ part \in Parts
  /\ Init /\ A!Init /\ C!CancellationInit /\ T!Init /\ R!Init /\ M!Init

\* Every part may stop: clients need not call.
MCNext ==
  \/ part = "sdk" /\ Next
     /\ UNCHANGED <<part, aVars, cVars, tVars, rVars, mVars>>
  \/ part \in {"resources", "readers"} /\ A!Next
     /\ UNCHANGED <<part, vars, cVars, tVars, rVars, mVars>>
  \/ part = "cancellation" /\ C!CancellationNext
     /\ UNCHANGED <<part, vars, aVars, tVars, rVars, mVars>>
  \/ part = "telemetry" /\ T!Next
     /\ UNCHANGED <<part, vars, aVars, cVars, rVars, mVars>>
  \/ part = "jobs" /\ R!Next
     /\ UNCHANGED <<part, vars, aVars, cVars, tVars, mVars>>
  \/ part = "missions" /\ M!Next
     /\ UNCHANGED <<part, vars, aVars, cVars, tVars, rVars>>
  \/ UNCHANGED everything

\* Threads inside the code keep running, leases are released (in part "readers" they
\* need not be), callbacks, commands and
\* waits return, time goes on; nobody has to make a call and the link owes nothing.
MCFairness ==
  /\ \A c \in Clients : WF_vars(part = "sdk" /\ Continues(c))
  /\ \A w \in Workers : WF_vars(part = "sdk" /\ WorkerStep(w))
  /\ WF_vars(part = "sdk" /\ (LowStateHandler \/ Publish(Dds)))
  /\ WF_vars(part = "sdk" /\ Elapse)
  /\ \A t \in {"t1", "t2", "t3"} :
       /\ WF_aVars(part \in {"resources", "readers"} /\ (A!WaitsAgain(t) \/ A!AcquireAfterWait(t)))
       /\ WF_aVars(part \in {"resources", "readers"} /\ A!Notify(t))
  /\ WF_aVars(part = "resources" /\ \E t \in {"t1", "t2", "t3"}, h \in a_handles : A!Release(t, h))
  /\ \A t \in {"t1", "t2"} : /\ WF_cVars(part = "cancellation" /\ C!InvokeSafely(t))
                           /\ WF_cVars(part = "cancellation" /\ C!RequestCancel(t))
  /\ \A w \in T!Threads : WF_tVars(part = "telemetry" /\ T!WorkerStep(w))
  /\ \A t \in T!Callers : WF_tVars(part = "telemetry" /\ T!Joined(t))
  /\ \A j \in {"j1", "j2"} : /\ WF_rVars(part = "jobs" /\ R!Run(j))
                           /\ WF_rVars(part = "jobs" /\ R!Stops(j))
  /\ WF_mVars(part = "missions" /\ M!RunMission)
  /\ \A t \in M!Threads : WF_mVars(part = "missions" /\ M!FlowStep(t))
  /\ \A c \in {"a", "b"} : WF_mVars(part = "missions" /\ M!CallContinues(c))

MCSpec == MCInit /\ [][MCNext]_everything /\ MCFairness

-----------------------------------------------------------------------------
\* SdkWrapper: StopCommunication returns, called by itself or by Shutdown (Disconnect
\* begins with it too): the worker notices the request wherever it is, in the wait, in a
\* heartbeat or publishing.  With one caller it does; of two, which docs/thread_safety.md
\* allows ("Thread-safe public methods"), the second lowers the request before the worker
\* that the first one joins has seen it.
WrapperStopReturns == StopReturns

\* SdkWrapper: while the worker monitors a link that stays down, the wrapper ends up
\* disconnected: a failed reconnect never renews the lease on the link.
WrapperNoticesLoss == part = "sdk" => LossNoticed

\* SdkWrapper: while the worker monitors a link that stays up, the wrapper is connected
\* again and again, whatever faults and emergency stops come between.
WrapperRecovers == part = "sdk" => LinkRecovers

\* ResourceManager: a waiting writer, or another one, gets the resource ...
WriterNotStarved == part = "resources" => A!WriterNotStarved

\* ... and a waiting reader does not sleep on once no writer holds or awaits it, even
\* when no lease is ever released.
ReaderWokenUp == A!ReaderWokenUp

\* CancellationSource: cancellation of a parent reaches every linked source that stays
\* alive.
ParentReachesChildren == C!ParentReachesChildren

\* TelemetryService: Stop returns, whichever Start or Stop other threads call meanwhile.
TelemetryStopReturns == T!StopReturns

\* TelemetryService: while it runs, every subscriber gets each state or a later one.
StatePublished == T!StatePublished

\* BehaviorTreeRuntime: a stopped job ends: no pause, interval or resource wait keeps it.
StopEndsTheJob == R!StopEndsTheJob

\* MissionExecutor: a lifecycle call returns, a Start that has to join a cancelled worker
\* and a Stop of a paused mission included.
LifecycleCallsReturn == M!LifecycleCallsReturn

\* MissionExecutor: a cancelled mission's worker ends, wherever it was.
CancelledMissionsEnd == M!CancelledMissionsEnd

\* Every stop takes effect: the stops of a wrapper with one caller and of the telemetry
\* service return, a stopped tree job ends, and so do the lifecycle calls and the worker
\* of a mission.
EveryStopTakesEffect ==
  /\ WrapperStopReturns /\ TelemetryStopReturns /\ StopEndsTheJob
  /\ LifecycleCallsReturn /\ CancelledMissionsEnd

\* Nobody waits for what already happened: the wrapper notices a lost and a returned link,
\* writers and readers get the resource they wait for, cancellation reaches the linked
\* sources, and subscribers get the current state.
EveryChangeIsNoticed ==
  /\ WrapperNoticesLoss /\ WrapperRecovers /\ WriterNotStarved /\ ReaderWokenUp
  /\ ParentReachesChildren /\ StatePublished
=============================================================================

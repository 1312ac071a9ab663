---------------------------- MODULE MCPrograms ----------------------------
(***************************************************************************)
(* Small instances of what runs a robot's programs: behavior trees (plain   *)
(* names), the jobs that tick them (R), the mission executor (M), the       *)
(* condition evaluator (E) and the tree loader (L).  In a behaviour one of  *)
(* them is used and the others stay as they were constructed.               *)
(***************************************************************************)
EXTENDS BehaviorTree

VARIABLE part   \* what is used

\* Small trees that put every node class under every kind of parent.
Action == ActionNode(TRUE)
Wait == WaitNode(TRUE)
Command == CommandNode(TRUE)
SubMission == MissionNode(TRUE)

\* Composites over callbacks and a node that throws.
MemorySequence == <<SequenceNode(1, <<2, 3, 4>>), Action, Wait, InverterNode(<<5>>), CustomNode>>
MemorySelector == <<SelectorNode(1, <<2, 3>>), SucceederNode(<<4>>), ConditionNode(TRUE), Action>>
ParallelOfTwo == <<ParallelNode(1, 0, <<2, 3>>), FailerNode(<<4>>), CustomNode, Action>>
Missing == <<SelectorNode(0, <<2, 3, 4>>), InverterNode(<<>>), ActionNode(FALSE),
             SequenceNode(0, <<>>)>>
CompositeTrees == {MemorySequence, MemorySelector, ParallelOfTwo, Missing}

\* Decorators around each other.
RetriedSequence == <<RetryNode(2, <<2>>), SequenceNode(1, <<3, 4>>), Action,
                     LimiterNode(2, <<5>>), Action>>
RepeatedLimiter == <<LimiterNode(3, <<2>>), RepeatNode(2, <<3>>), SelectorNode(1, <<4, 5>>),
                     Wait, Action>>
ThrowingRetry == <<RetryNode(2, <<2>>), ParallelNode(0, 1, <<3, 4>>), CustomNode, DelayNode(0)>>
DecoratorTrees == {RetriedSequence, RepeatedLimiter, ThrowingRetry}

\* Leaves that start work elsewhere.
TimedCommand == <<RetryNode(2, <<2>>), TimeoutNode(1, <<3>>), SequenceNode(0, <<4, 5>>),
                  Command, Action>>
CommandAndMission == <<ParallelNode(0, 2, <<2, 3>>), Command, SucceederNode(<<4>>), SubMission>>
ThrowBeforeCommand == <<SelectorNode(1, <<2, 3>>), CustomNode, Command>>
WorkTrees == {TimedCommand, CommandAndMission, ThrowBeforeCommand}

MCTrees == CompositeTrees \cup DecoratorTrees \cup WorkTrees

\* A delay in a stateless sequence.
DelayTrees == {<<SequenceNode(0, <<2, 3>>), DelayNode(1), Action>>}

\* Two tree jobs that want one exclusive resource.
VARIABLES r_pc, r_lease, r_status, r_bound, r_shut, r_result, r_cancelled, r_execution,
          r_stopper, r_registered, r_paused, r_late
R == INSTANCE BehaviorTreeRuntime WITH
       Jobs <- {"j1", "j2"}, Stopped <- {"j1", "j2"}, Resource <- [j1 |-> "timed", j2
       |-> "try"], pc <- r_pc, lease <- r_lease, status <- r_status, bound <- r_bound,
       shut <- r_shut, result <- r_result, cancelled <- r_cancelled, stopper <-
       r_stopper, registered <- r_registered, paused <- r_paused,
       execution <- r_execution, late <- r_late
rVars == <<r_pc, r_lease, r_status, r_bound, r_shut, r_result, r_cancelled, r_execution,
  r_stopper, r_registered, r_paused, r_late>>

\* Missions that exercise retries, loops, conditions, waits, skips and aborts.
V == INSTANCE MissionModel WITH MaxRetry <- 3

Retried == [V!MissionStep EXCEPT !.retryPolicy.maxAttempts = 2]

Looped ==
  [V!MissionStep EXCEPT !.loopPolicy.iterations = 2,
     !.conditions = <<[V!MissionCondition EXCEPT !.failureAction = "Skip"]>>]

Guarded == [V!MissionStep EXCEPT !.conditions = <<V!MissionCondition>>,
                                 !.retryPolicy.maxAttempts = 2, !.retryPolicy.delay = 1,
                                 !.retryPolicy.onTimeout = FALSE]

Waits == [V!MissionStep EXCEPT !.wait = {2}, !.timeout = 1, !.timeoutPolicy.abort = FALSE]

Skips == [V!MissionStep EXCEPT !.skip = TRUE, !.abort = TRUE]

Aborts == [V!MissionStep EXCEPT !.abort = TRUE]

Disabled == [V!MissionStep EXCEPT !.enabled = FALSE]

Of(steps) == [V!Mission EXCEPT !.steps = steps]

O(code, text) == [status |-> code, text |-> text]

VARIABLES m_status, m_lastResult, m_pauseRequested, m_cancelRequested,
          m_stopRequested, m_currentIndex, m_currentCommand, m_joinable, m_control,
          m_frame, m_client, m_want, m_calls, m_late, m_wins, m_tries
M == INSTANCE MissionExecutor WITH
       MaxRetry <- 3, Clients <- {"c1", "c2"}, Worker <- "w", Missions <-
       <<Of(<<Skips, Looped, Retried>>), Of(<<Waits, Disabled, Guarded>>),
       Of(<<Disabled>>), Of(<<Skips, Aborts>>)>>, Steps <- {V!MissionStep}, Outcomes
       <- {O("Completed", ""), O("Failed", ""), O("Timeout", "timeout"),
       O("Cancelled", "")}, HasDispatcher <- TRUE, HasEvaluator <- TRUE, MaxCalls <-
       3, status <- m_status, lastResult <- m_lastResult, pauseRequested <-
       m_pauseRequested, cancelRequested <- m_cancelRequested, stopRequested <-
       m_stopRequested, currentIndex <- m_currentIndex, currentCommand <-
       m_currentCommand, joinable <- m_joinable, control <- m_control, frame <-
       m_frame, client <- m_client, want <- m_want, calls <- m_calls, late <- m_late,
       wins <- m_wins, tries <- m_tries
mVars == <<m_status, m_lastResult, m_pauseRequested, m_cancelRequested,
  m_stopRequested, m_currentIndex, m_currentCommand, m_joinable, m_control, m_frame,
  m_client, m_want, m_calls, m_late, m_wins, m_tries>>

\* A battery bound, a fault bound, a flag, a capability, and a comparison that a flag
\* does not have.
Bound(type, comparison, value) ==
  [V!MissionCondition EXCEPT !.type = type, !.comparison = comparison, !.value = value,
                             !.commandType = "Walk"]

VARIABLES e_robot, e_context, e_next, e_results, e_held
E == INSTANCE ConditionEvaluator WITH
       MaxRetry <- 3, NaN <- -1, Levels <- {0, 1}, Flags <- {"standing", "walking"},
       Conditions <- <<Bound("BatteryLevel", "GreaterThan", 0), Bound("FaultCode",
       "LessThanOrEqual", 0), Bound("RobotStanding", "Equal", 1), Bound("Capability",
       "NotEqual", 1), Bound("RobotWalking", "LessThan", 1)>>, HasStateManager <- TRUE, robot <- e_robot, context <-
       e_context, next <- e_next, results <- e_results, held <- e_held
eVars == <<e_robot, e_context, e_next, e_results, e_held>>

\* Documents that fit the types, and some that do not.
Entry(type, children) == [type |-> type, children |-> children]

VARIABLES l_creators, l_phase, l_document, l_next, l_built, l_unregistered, l_changes
L == INSTANCE TreeLoader WITH
       Types <- {"Seq", "Inv", "Act"}, Documents <- {<<Entry("Seq", 2), Entry("Act",
       0), Entry("Inv", 1), Entry("Act", 0)>>, <<Entry("Inv", 2), Entry("Act", 0),
       Entry("Act", 0)>>, <<Entry("Seq", 1), Entry("", 0)>>, <<Entry("Act", 1),
       Entry("Act", 0)>>, <<Entry("Act", 0)>>}, Extensions <- {".yml", ".xml"},
       MaxChanges <- 5, creators <- l_creators, phase <- l_phase, document <-
       l_document, next <- l_next, built <- l_built, unregistered <- l_unregistered,
       changes <- l_changes
lVars == <<l_creators, l_phase, l_document, l_next, l_built, l_unregistered, l_changes>>

ASSUME V!MaxRetryAssumption
ASSUME E!NaNAssumption
ASSUME L!EmptyTypeIsMissing

allVars == <<part, vars, rVars, mVars, eVars, lVars>>

MCInit == /\ part \in {"tree", "jobs", "missions", "conditions", "loader"}
          /\ Init /\ R!Init /\ M!Init /\ E!Init /\ L!Init
          /\ part # "tree" => tree = MemorySequence

\* Tree jobs end, and clients make MaxCalls calls: both may stop.
MCNext ==
  \/ part = "tree" /\ Next
     /\ UNCHANGED <<part, rVars, mVars, eVars, lVars>>
  \/ part = "jobs" /\ R!Next
     /\ UNCHANGED <<part, vars, mVars, eVars, lVars>>
  \/ part = "jobs" /\ UNCHANGED allVars
  \/ part = "missions" /\ M!Next
     /\ UNCHANGED <<part, vars, rVars, eVars, lVars>>
  \/ part = "missions" /\ UNCHANGED allVars
  \/ part = "conditions" /\ E!Next
     /\ UNCHANGED <<part, vars, rVars, mVars, lVars>>
  \/ part = "loader" /\ L!Next
     /\ UNCHANGED <<part, vars, rVars, mVars, eVars>>

MCSpec == MCInit /\ [][MCNext]_allVars

\* Behavior tree nodes: when a node answers Aborted so does the tree, through every
\* composite and decorator above it (the running leaves are not ticked then, Shutdown ends
\* what they started), a limiter spends no more than its budget, Reset clears every node
\* and Shutdown releases what runs; a node with memory never goes back to a child it left, and each attempt of
\* Retry and Repeat starts from a reset child.
TreesAreSound ==
  /\ [](AbortReachesTheTree /\ LimiterBudget /\ ResetIsComplete /\ ShutdownReleasesWork)
  /\ MemoryNeverGoesBack /\ AttemptsStartFresh

\* BehaviorTreeRuntime: a tree with a resource is touched only while its lease is held, a
\* job that answers Cancelled has shut its tree down, and at most one tick begins after
\* its job was asked to stop, none once RequestStop has returned.
TreeJobsAreSound ==
  [](R!LeaseSpansTheTree /\ R!CancelledMeansClosed) /\ R!OneTickAfterStop

\* MissionExecutor: one worker runs one mission whatever the clients call, at most one
\* command is dispatched after a pause, cancel or stop, a mission ends Completed only if
\* every enabled step did, no step is tried more often than its policies say, and Stop
\* answers when the worker has ended, with a terminal result if the mission was
\* cancelled or stopped.
MissionsAreSound ==
  /\ [](/\ M!OneMissionAtATime /\ M!AtMostOneCommandAfterRequest
        /\ M!CompletedMissionsRanEveryStep /\ M!AttemptsBounded)
  /\ M!StopReportsTheEnd

\* ConditionEvaluator: a verdict is what the observation at its evaluation gives, and a
\* condition that validation accepts is decided whenever the value is known.
VerdictsRestOnObservations == E!VerdictsRestOnObservations /\ E!ValidatedConditionsDecide

\* TreeLoader: a load gives the whole document's tree or none, and building meets no type
\* the validator has not seen, unless the factory changed in between.
LoadedTreeIsTheDocument == L!LoadedTreeIsTheDocument /\ L!ValidatedTypesAreKnown
=============================================================================

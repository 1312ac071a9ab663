---------------------------- MODULE MissionExecutor ----------------------------
(***************************************************************************)
(* src/mission/MissionExecutor.cpp: a worker thread runs the steps of a    *)
(* mission, clients start, pause, resume, cancel and stop it and may run   *)
(* single steps on their own threads.                                      *)
(*                                                                         *)
(* Each section under state_mutex_ is one action; control_mutex_ is held   *)
(* over Start and Stop, joins included.  A thread in ExecuteFlowStep has a *)
(* frame: where it is, which step, iteration and attempt.  A check of      *)
(* CancellationRequested() directly before WaitUntilRunnable() is part of  *)
(* it (it gives the same answer for the same flags).  The dispatcher's     *)
(* synchronous Execute() answers with any of Outcomes; its Cancel() does   *)
(* not reach a command that is being executed.                             *)
(***************************************************************************)
EXTENDS MissionModel, TLC

CONSTANTS
  Clients,
  Worker,         \* worker_
  Missions,       \* [1..n -> mission]: what clients start
  Steps,          \* what clients pass to ExecuteStep
  Outcomes,       \* results of the dispatcher: [status, text]
  HasDispatcher,  \* dispatcher_ is not null
  HasEvaluator,   \* condition_evaluator_ is not null
  MaxCalls        \* bound on the clients' calls

VARIABLES
  status, lastResult, pauseRequested, cancelRequested, stopRequested,
  currentIndex,   \* current_step_index_, 0 when empty
  currentCommand, \* current_command_id_, as an optional
  joinable,       \* worker_.joinable()
  control,        \* the clients (at most one) that hold control_mutex_
  frame,          \* [Threads -> frame]
  client,         \* where each client is in its call
  want,           \* the mission a client's Start was given
  calls,
  late,           \* history: commands begun by the worker since it was asked to
                  \* pause, cancel or stop
  wins, tries     \* history: per step of the mission, iterations done, attempts

state == <<status, lastResult, pauseRequested, cancelRequested, stopRequested>>
current == <<currentIndex, currentCommand>>
lifecycle == <<joinable, control, client, want, calls>>
history == <<late, wins, tries>>
vars == <<state, current, lifecycle, frame, history>>

Threads == Clients \cup {Worker}

NoFrame ==
  [pc |-> "none", asleep |-> FALSE, mission |-> 0, index |-> 0, step |-> MissionStep,
   iteration |-> 0, attempt |-> 0, result |-> [status |-> "Pending", text |-> ""],
   outcome |-> "none"]    \* history: the last status the dispatcher answered with

Result(code, text) == [status |-> code, text |-> text]

Init ==
  /\ status = "Pending" /\ lastResult = "Pending"
  /\ pauseRequested = FALSE /\ cancelRequested = FALSE /\ stopRequested = FALSE
  /\ currentIndex = 0 /\ currentCommand = {}
  /\ joinable = FALSE /\ control = {}
  /\ client = [c \in Clients |-> "idle"] /\ want = [c \in Clients |-> 0] /\ calls = 0
  /\ frame = [t \in Threads |-> NoFrame]
  /\ late = 0 /\ wins = <<>> /\ tries = <<>>

Interrupted == cancelRequested \/ stopRequested

LooksLikeTimeout(result) == result.text \in {"timeout", "timed out"}

FromCommandResult(outcome) ==
  Result(IF outcome.status \in {"Completed", "Cancelled"} THEN outcome.status ELSE "Failed",
         outcome.text)

\* EvaluateStepConditions: verdicts are the evaluator's answers, the first that
\* is not satisfied decides.
EvaluateStepConditions(step, verdicts) ==
  LET bad == {i \in DOMAIN step.conditions : verdicts[i] # "satisfied"} IN
  IF step.conditions = <<>> THEN Result("Completed", "")
  ELSE IF ~HasEvaluator THEN Result("Failed", "")
  ELSE IF bad = {} THEN Result("Completed", "")
  ELSE IF step.conditions[Min(bad)].failureAction = "Skip" THEN Result("Completed", "skipped")
  ELSE Result("Failed", "")

At(f, place) == [f EXCEPT !.pc = place]

Returned(f, result) == [f EXCEPT !.pc = "returned", !.result = result]

\* ExecuteFlowStep up to its loop.
ExecuteFlowStep(f, verdicts) ==
  LET condition == EvaluateStepConditions(f.step, verdicts) IN
  IF ~HasDispatcher \/ ~StepValid(f.step) THEN Returned(f, Result("Failed", ""))
  ELSE IF f.step.skip THEN Returned(f, Result("Completed", "skipped"))
  ELSE IF f.step.abort THEN Returned(f, Result("Failed", ""))
  ELSE IF condition.status # "Completed" \/ condition.text = "skipped" THEN Returned(f, condition)
  ELSE [f EXCEPT !.pc = "loop", !.iteration = 0]

\* After one call of ExecuteStepWithRetryPolicy: the loop of ExecuteFlowStep.
NextIteration(f, result) ==
  IF result.status = "Completed" /\ f.iteration + 1 < f.step.loopPolicy.iterations
  THEN [f EXCEPT !.pc = "loop", !.iteration = @ + 1]
  ELSE Returned(f, result)

\* After one ExecuteStepOnce: the loop of ExecuteStepWithRetryPolicy.
AfterAttempt(f, result) ==
  IF \/ result.status \in {"Completed", "Cancelled"}
     \/ f.attempt + 1 >= EffectiveMaxAttempts(f.step)
     \/ LooksLikeTimeout(result) /\ ~f.step.retryPolicy.onTimeout
     \/ ~LooksLikeTimeout(result) /\ ~f.step.retryPolicy.onFailure
  THEN NextIteration(f, result)
  ELSE [f EXCEPT !.pc = IF f.step.retryPolicy.delay > 0 THEN "backoff" ELSE "attempt",
                 !.attempt = @ + 1]

\* The next enabled step after f's, or the end of the mission.
NextStep(f) ==
  LET steps == Missions[f.mission].steps
      rest == {i \in DOMAIN steps : i > f.index /\ steps[i].enabled}
  IN IF rest = {} THEN [f EXCEPT !.pc = "finish", !.result = Result("Completed", "")]
     ELSE [f EXCEPT !.pc = "runnable", !.index = Min(rest), !.step = steps[Min(rest)]]

Move(t, f) == frame' = [frame EXCEPT ![t] = f]

-----------------------------------------------------------------------------
\* A thread inside ExecuteFlowStep or RunMission.

\* WaitUntilRunnable(): asleep while paused, refused when cancelled, and
\* otherwise the mission is marked running.
WaitUntilRunnable(t, ready, refused) ==
  /\ ~frame[t].asleep
  /\ IF Interrupted THEN Move(t, refused) /\ UNCHANGED state
     ELSE IF pauseRequested THEN Move(t, [frame[t] EXCEPT !.asleep = TRUE]) /\ UNCHANGED state
     ELSE /\ Move(t, ready)
          /\ status' = "Running" /\ lastResult' = "Running"
          /\ UNCHANGED <<pauseRequested, cancelRequested, stopRequested>>
  /\ UNCHANGED <<current, lifecycle, history>>

Cancelled(f) == Returned(f, Result("Cancelled", ""))

BeforeStep ==
  LET f == frame[Worker] IN
  /\ f.pc = "runnable"
  /\ WaitUntilRunnable(Worker, At(f, "select"),
                       [f EXCEPT !.pc = "finish", !.result = Result("Cancelled", "")])

SelectStep ==
  LET f == frame[Worker] IN
  /\ f.pc = "select"
  /\ currentIndex' = f.index
  /\ currentCommand' = IF IsCommandStep(f.step) THEN {f.step.command.id} ELSE {}
  /\ \E verdicts \in [DOMAIN f.step.conditions -> {"satisfied", "failed", "unavailable"}] :
       Move(Worker, ExecuteFlowStep(f, verdicts))
  /\ UNCHANGED <<state, lifecycle, history>>

BeforeIteration(t) ==
  frame[t].pc = "loop" /\
  WaitUntilRunnable(t, [frame[t] EXCEPT !.pc = "attempt", !.attempt = 0], Cancelled(frame[t]))

\* Fault: a retry does not look at the requests again.
RetryUnchecked(t) ==
  /\ frame[t].pc = "attempt"
  /\ IF frame[t].attempt > 0
     THEN Move(t, At(frame[t], "once")) /\ UNCHANGED <<state, current, lifecycle, history>>
     ELSE WaitUntilRunnable(t, At(frame[t], "once"), Cancelled(frame[t]))

BeforeAttempt(t) ==
  frame[t].pc = "attempt" /\
  WaitUntilRunnable(t, At(frame[t], "once"), Cancelled(frame[t]))

Count(log, i) == (i :> IF i \in DOMAIN log THEN log[i] + 1 ELSE 1) @@ log

\* ExecuteStepOnce: a command goes to the dispatcher, a wait begins.
ExecuteStepOnce(t) ==
  LET f == frame[t] IN
  /\ f.pc = "once"
  /\ Move(t, At(f, IF IsCommandStep(f.step) THEN "executing" ELSE "waiting"))
  /\ tries' = IF t = Worker THEN Count(tries, f.index) ELSE tries
  /\ late' = IF /\ t = Worker /\ IsCommandStep(f.step)
                /\ pauseRequested \/ Interrupted
             THEN late + 1 ELSE late
  /\ UNCHANGED <<state, current, lifecycle, wins>>

Answer(t, f, result) ==
  /\ Move(t, AfterAttempt(f, result))
  /\ wins' = IF t = Worker /\ result.status = "Completed" THEN Count(wins, frame[t].index) ELSE wins
  /\ UNCHANGED <<state, current, lifecycle, late, tries>>

CommandReturns(t) ==
  /\ frame[t].pc = "executing"
  /\ \E outcome \in Outcomes :
       Answer(t, [frame[t] EXCEPT !.outcome = outcome.status], FromCommandResult(outcome))

\* An exception of the dispatcher ends RunMission or ExecuteStep.
CommandThrows(t) ==
  /\ frame[t].pc = "executing"
  /\ Move(t, [frame[t] EXCEPT !.pc = IF t = Worker THEN "finish" ELSE "returned",
                              !.result = Result("Failed", "")])
  /\ UNCHANGED <<state, current, lifecycle, history>>

\* The end of ExecuteTimedFlowWait's WaitForDuration.
TimedWaitEnds(t) ==
  LET s == frame[t].step
      duration == Min(s.wait \cup IF s.wait = {} THEN s.delay ELSE {})
      timesOut == \E limit \in EffectiveTimeout(s) : limit < duration
  IN /\ frame[t].pc = "waiting"
     /\ Answer(t, frame[t],
               IF Interrupted THEN Result("Cancelled", "")
               ELSE IF timesOut /\ s.timeoutPolicy.abort THEN Result("Failed", "timed out")
               ELSE Result("Completed", ""))

\* The end of the WaitForDuration between two attempts.
BackoffEnds(t) ==
  /\ frame[t].pc = "backoff"
  /\ Move(t, IF Interrupted THEN Cancelled(frame[t]) ELSE At(frame[t], "attempt"))
  /\ UNCHANGED <<state, current, lifecycle, history>>

\* A condition variable may wake its waiters for no reason.
SpuriousWakeup(t) ==
  /\ frame[t].asleep
  /\ Move(t, [frame[t] EXCEPT !.asleep = FALSE])
  /\ UNCHANGED <<state, current, lifecycle, history>>

NotifyAll == frame' = [t \in Threads |-> [frame[t] EXCEPT !.asleep = FALSE]]

StepReturned ==
  /\ frame[Worker].pc = "returned"
  /\ currentCommand' = {}
  /\ Move(Worker, At(frame[Worker], "check"))
  /\ UNCHANGED <<state, currentIndex, lifecycle, history>>

\* CancellationRequested() after a step, then the step's result.
AfterStep ==
  LET f == frame[Worker] IN
  /\ f.pc = "check"
  /\ Move(Worker, IF Interrupted THEN [f EXCEPT !.pc = "finish", !.result.status = "Cancelled"]
                  ELSE IF f.result.status # "Completed"
                       THEN [f EXCEPT !.pc = "finish", !.result.status = "Failed"]
                  ELSE NextStep(f))
  /\ UNCHANGED <<state, current, lifecycle, history>>

Finish ==
  /\ frame[Worker].pc = "finish"
  /\ status' = frame[Worker].result.status
  /\ lastResult' = status'
  /\ currentCommand' = {}
  /\ Move(Worker, At(frame[Worker], "notify"))
  /\ UNCHANGED <<pauseRequested, cancelRequested, stopRequested, currentIndex, lifecycle, history>>

\* Finish's notify_all; the worker's thread ends.
WorkerEnds ==
  /\ frame[Worker].pc = "notify"
  /\ frame' = [t \in Threads |-> [frame[t] EXCEPT !.asleep = FALSE,
                                                  !.pc = IF t = Worker THEN "done" ELSE @]]
  /\ UNCHANGED <<state, current, lifecycle, history>>

-----------------------------------------------------------------------------
\* The clients.

Call(c, place) ==
  /\ client[c] = "idle"
  /\ calls < MaxCalls
  /\ calls' = calls + 1
  /\ client' = [client EXCEPT ![c] = place]

Goto(c, place) == client' = [client EXCEPT ![c] = place]

\* Start(): what follows JoinCompletedWorker, under control_mutex_.  It refuses
\* an invalid mission and an executor whose worker has not been joined.
StartChecked(c, m) ==
  IF ~HasDispatcher \/ ~MissionValid(Missions[m]) \/ joinable'
  THEN /\ Goto(c, "idle") /\ control' = {}
       /\ UNCHANGED <<state, current, frame, history, want>>
  ELSE /\ Goto(c, "spawn") /\ control' = {c} /\ want' = [want EXCEPT ![c] = m]
       /\ status' = "Running" /\ lastResult' = "Running"
       /\ pauseRequested' = FALSE /\ cancelRequested' = FALSE /\ stopRequested' = FALSE
       /\ currentIndex' = 0 /\ currentCommand' = {}
       /\ late' = 0 /\ wins' = <<>> /\ tries' = <<>>
       /\ UNCHANGED frame

Start(c, m) ==
  /\ client[c] = "idle" /\ control = {} /\ calls < MaxCalls
  /\ ~(joinable /\ isTerminal(status))
  /\ calls' = calls + 1
  /\ joinable' = joinable
  /\ StartChecked(c, m)

\* Start() when JoinCompletedWorker has to join: control_mutex_ is held meanwhile.
StartJoins(c, m) ==
  /\ control = {} /\ joinable /\ isTerminal(status)
  /\ Call(c, "joining")
  /\ control' = {c}
  /\ want' = [want EXCEPT ![c] = m]
  /\ UNCHANGED <<state, current, frame, history, joinable>>

WorkerJoined(c) ==
  /\ client[c] = "joining"
  /\ frame[Worker].pc = "done"
  /\ joinable' = FALSE
  /\ StartChecked(c, want[c])
  /\ UNCHANGED calls

\* The new std::jthread runs RunMission.
Spawn(c) ==
  /\ client[c] = "spawn"
  /\ Goto(c, "idle") /\ control' = {}
  /\ joinable' = TRUE
  /\ Move(Worker, NextStep([NoFrame EXCEPT !.mission = want[c]]))
  /\ UNCHANGED <<state, current, want, calls, history>>

SpawnFails(c) ==
  /\ client[c] = "spawn"
  /\ Goto(c, "idle") /\ control' = {}
  /\ status' = "Failed" /\ lastResult' = "Failed"
  /\ UNCHANGED <<pauseRequested, cancelRequested, stopRequested, current, frame, joinable, want,
                 calls, history>>

Pause(c) ==
  /\ Call(c, "idle")
  /\ status = "Running"
  /\ pauseRequested' = TRUE
  /\ status' = "Paused" /\ lastResult' = "Paused"
  /\ UNCHANGED <<cancelRequested, stopRequested, current, joinable, control, want, frame, history>>

Resume(c) ==
  /\ Call(c, "notify")
  /\ status = "Paused"
  /\ pauseRequested' = FALSE
  /\ status' = "Running" /\ lastResult' = "Running"
  /\ late' = 0
  /\ UNCHANGED <<cancelRequested, stopRequested, current, joinable, control, want, frame, wins,
                 tries>>

Cancel(c) ==
  /\ Call(c, "notify")
  /\ status # "Pending" /\ ~isTerminal(status)
  /\ cancelRequested' = TRUE /\ pauseRequested' = FALSE
  /\ status' = "Cancelled" /\ lastResult' = "Cancelled"
  /\ UNCHANGED <<stopRequested, current, joinable, control, want, frame, history>>

\* notify_all of Resume and Cancel, and Cancel's CancelCommandIfPossible.
Notify(c) ==
  /\ client[c] = "notify"
  /\ Goto(c, "idle")
  /\ NotifyAll
  /\ UNCHANGED <<state, current, joinable, control, want, calls, history>>

\* Stop() without a worker.
StopIdle(c) ==
  /\ Call(c, "idle")
  /\ control = {} /\ ~joinable
  /\ IF isTerminal(status) THEN UNCHANGED state
     ELSE /\ status' = "Pending" /\ lastResult' = "Completed"
          /\ UNCHANGED <<pauseRequested, cancelRequested, stopRequested>>
  /\ UNCHANGED <<current, joinable, control, want, frame, history>>

Stop(c) ==
  /\ control = {} /\ joinable
  /\ control' = {c}
  /\ IF isTerminal(status)
     THEN Call(c, "stopJoin") /\ UNCHANGED state
     ELSE /\ Call(c, "stopNotify")
          /\ stopRequested' = TRUE /\ cancelRequested' = TRUE /\ pauseRequested' = FALSE
          /\ status' = "Cancelled" /\ lastResult' = "Cancelled"
  /\ UNCHANGED <<current, joinable, want, frame, history>>

\* Fault: Stop leaves a sleeping worker asleep.
StopsQuietly(c) ==
  /\ client[c] = "stopNotify"
  /\ Goto(c, "stopJoin")
  /\ UNCHANGED <<state, current, joinable, control, want, calls, frame, history>>

StopNotify(c) ==
  /\ client[c] = "stopNotify"
  /\ Goto(c, "stopJoin")
  /\ NotifyAll
  /\ UNCHANGED <<state, current, joinable, control, want, calls, history>>

StopReturns(c) ==
  /\ client[c] = "stopJoin"
  /\ frame[Worker].pc = "done"
  /\ joinable' = FALSE
  /\ Goto(c, "idle") /\ control' = {}
  /\ UNCHANGED <<state, current, want, calls, frame, history>>

ExecuteStep(c, step) ==
  /\ Call(c, "stepping")
  /\ \E verdicts \in [DOMAIN step.conditions -> {"satisfied", "failed", "unavailable"}] :
       Move(c, ExecuteFlowStep([NoFrame EXCEPT !.step = step], verdicts))
  /\ UNCHANGED <<state, current, joinable, control, want, history>>

ExecuteStepReturns(c) ==
  /\ client[c] = "stepping"
  /\ frame[c].pc = "returned"
  /\ Move(c, NoFrame)
  /\ Goto(c, "idle")
  /\ UNCHANGED <<state, current, joinable, control, want, calls, history>>

-----------------------------------------------------------------------------
FlowStep(t) ==
  \/ BeforeIteration(t) \/ BeforeAttempt(t) \/ ExecuteStepOnce(t) \/ CommandReturns(t)
  \/ CommandThrows(t) \/ TimedWaitEnds(t) \/ BackoffEnds(t)

RunMission == BeforeStep \/ SelectStep \/ StepReturned \/ AfterStep \/ Finish \/ WorkerEnds

CallContinues(c) ==
  \/ WorkerJoined(c) \/ Spawn(c) \/ SpawnFails(c) \/ Notify(c) \/ StopNotify(c) \/ StopReturns(c)
  \/ ExecuteStepReturns(c)

CallBegins(c) ==
  \/ \E m \in DOMAIN Missions : Start(c, m) \/ StartJoins(c, m)
  \/ Pause(c) \/ Resume(c) \/ Cancel(c) \/ StopIdle(c) \/ Stop(c)
  \/ \E step \in Steps : ExecuteStep(c, step)

Next ==
  \/ RunMission
  \/ \E t \in Threads : FlowStep(t) \/ SpuriousWakeup(t)
  \/ \E c \in Clients : CallBegins(c) \/ CallContinues(c)

Spec == Init /\ [][Next]_vars

\* Threads are scheduled, commands return and waits elapse; nobody has to call.
Fairness ==
  /\ WF_vars(RunMission)
  /\ \A t \in Threads : WF_vars(FlowStep(t))
  /\ \A c \in Clients : WF_vars(CallContinues(c))

FairSpec == Spec /\ Fairness

-----------------------------------------------------------------------------
Active == frame[Worker].pc \notin {"none", "done"}

TypeOK ==
  /\ status \in MissionStatus /\ lastResult \in MissionStatus
  /\ {pauseRequested, cancelRequested, stopRequested, joinable} \subseteq BOOLEAN
  /\ Cardinality(currentCommand) <= 1 /\ Cardinality(control) <= 1
  /\ \A c \in Clients : client[c] \in {"idle", "joining", "spawn", "notify", "stopNotify",
                                       "stopJoin", "stepping"}
  /\ \A t \in Threads : frame[t].pc \in {"none", "runnable", "select", "loop", "attempt", "once",
                                         "executing", "waiting", "backoff", "returned", "check",
                                         "finish", "notify", "done"}
  /\ \A t \in Threads : frame[t].asleep => frame[t].pc \in {"runnable", "loop", "attempt"}
  /\ calls \in 0..MaxCalls

\* A mission is accepted only when the worker of the one before has ended: two
\* missions never command the robot at the same time, whatever the order of
\* Start, Cancel and Stop calls.
OneMissionAtATime == \A c \in Clients : client[c] = "spawn" => ~Active

\* After a pause, cancel or stop request at most one more command of the mission
\* begins: the one whose WaitUntilRunnable() was already passed.  Later steps,
\* iterations and retries see the request.
AtMostOneCommandAfterRequest == late <= 1

\* The executor reports a mission completed only when every enabled step was
\* done as often as its loop policy says, or was skipped.
CompletedMissionsRanEveryStep ==
  LET f == frame[Worker] IN
  f.pc = "finish" /\ f.result.status = "Completed" =>
    \A i \in DOMAIN Missions[f.mission].steps :
      LET s == Missions[f.mission].steps[i] IN
      s.enabled /\ ~s.skip =>
        /\ ~s.abort
        /\ \/ i \in DOMAIN wins /\ wins[i] = s.loopPolicy.iterations
           \/ i \notin DOMAIN tries /\ \E k \in DOMAIN s.conditions :
                                         s.conditions[k].failureAction = "Skip"

\* No step is attempted more often than its loop and retry policies allow.
AttemptsBounded ==
  \A i \in DOMAIN tries :
    LET s == Missions[frame[Worker].mission].steps[i] IN
    frame[Worker].mission # 0 => tries[i] <= s.loopPolicy.iterations * EffectiveMaxAttempts(s)

\* When Stop() returns from joining a worker the mission is over: the worker has
\* ended, and a mission that was cancelled or stopped is reported with a terminal
\* result, since no thread past WaitUntilRunnable() can write Running over it.
\* MissionExecutor.h promises the terminal result of every Stop(); after a mission
\* that ended by itself a client's ExecuteStep() may have put Running back, and
\* only executors whose clients never call it keep that promise.
StopReportsTheEnd ==
  [][\A c \in Clients : client[c] = "stopJoin" /\ client'[c] = "idle" =>
       /\ ~Active
       /\ Interrupted \/ Steps = {} => isTerminal(lastResult)]_vars

\* A lifecycle call returns, a Start that has to join a cancelled worker and a
\* Stop of a paused mission included.
LifecycleCallsReturn ==
  \A c \in Clients :
    client[c] \in {"joining", "spawn", "notify", "stopNotify", "stopJoin"} ~> client[c] = "idle"

\* A cancelled mission's worker ends, wherever it was.
CancelledMissionsEnd == Active /\ Interrupted ~> ~Active

\* mission_model.md calls Completed, Failed and Cancelled terminal: a mission's
\* status leaves them only when another one is started.
TerminalIsFinal ==
  [][isTerminal(status) /\ status' # status =>
       \E c \in Clients : client'[c] = "spawn" /\ client[c] # "spawn"]_vars

\* MissionStatus.h describes Running as "the mission is actively executing": a
\* worker, a client's step or a Start in progress.
RunningMeansExecuting ==
  status = "Running" =>
    Active \/ \E c \in Clients : client[c] \in {"spawn", "stepping"}

\* With retryOnTimeout off, a command that timed out is not attempted again.
TimeoutsAreNotRetried ==
  [][\A t \in Threads :
       /\ frame[t].pc = "executing" /\ frame'[t].pc \in {"attempt", "backoff"}
       /\ frame'[t].outcome = "Timeout"
       => frame[t].step.retryPolicy.onTimeout]_vars
=============================================================================

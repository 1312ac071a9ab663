---------------------- MODULE CommandDispatcherProofs ----------------------
(***************************************************************************)
(* The dispatcher uses its queue according to CommandQueue, so that the     *)
(* queue's theorems hold for it, and what it adds to the queue (identifiers *)
(* unique across both paths, shutdown, the safety gate) is correct.         *)
(***************************************************************************)
EXTENDS CommandDispatcher, CommandQueueProofs

\* The steps that only the queue takes.
QueueOnly ==
  \/ \E t \in Threads, c \in Commands : ExecuteAsyncRefused(t, c)
  \/ \E t \in Threads : QueueShutdownStep(t)
  \/ \E w \in Workers : QueueWorkerStep(w)
  \/ QueueEnvironment

\* The steps that leave the queue alone.
DispatcherOnly ==
  \/ \E t \in Threads, c \in Commands : Execute(t, c)
  \/ \E t \in Threads, id \in CommandIds : DispatcherCancel(t, id)
  \/ \E t \in Threads : \/ BeginShutdown(t) \/ JoinShutdown(t) \/ ReleaseSynchronous(t)
                        \/ ReleaseNotify(t) \/ CancelRefused(t) \/ JoinRecheck(t)
                        \/ AwaitSynchronous(t) \/ FinishShutdown(t) \/ AnnounceShutdown(t)
                        \/ DispatchStep(t) \/ StateSpuriousWakeup(t)
  \/ \E t \in Callers : TimeoutElapses(t)
  \/ \E r \in RobotStates : RobotReports(r)

\* The steps of both.
Both ==
  \/ \E t \in Threads, c \in Commands : ExecuteAsync(t, c)
  \/ \E t \in Threads : \/ ExecuteAsyncReturn(t) \/ CancelQueued(t) \/ CancelReturn(t)
                        \/ ShutDownQueue(t) \/ QueueShutdownReturn(t)
  \/ \E w \in Workers : DispatchBegin(w) \/ DispatchReturn(w)

LEMMA DispatcherCases ==
  [DNext]_allVars => \/ QueueOnly \/ DispatcherOnly \/ Both \/ UNCHANGED allVars
  BY Zenon DEF DNext, DispatcherCall, DispatcherStep, DispatchWorkerStep, QueueOnly,
     DispatcherOnly, Both, DispatcherStopped

LEMMA QueueOnlyFrame == QueueOnly => UNCHANGED dvars
  BY Zenon DEF QueueOnly, ExecuteAsyncRefused, QueueShutdownStep, QueueWorkerStep, QueueEnvironment

LEMMA DispatcherOnlyFrame == DispatcherOnly => UNCHANGED vars
  BY Zenon DEF DispatcherOnly, Execute, DispatcherCancel, BeginShutdown, JoinShutdown,
     ReleaseSynchronous, ReleaseNotify, CancelRefused, JoinRecheck, AwaitSynchronous,
     FinishShutdown, AnnounceShutdown, DispatchStep, DispatchStart, SafetyGate, AdapterCall,
     AdapterReturn, AdapterThrow, StateSpuriousWakeup, TimeoutElapses, RobotReports

-----------------------------------------------------------------------------
(* The queue's specification is implemented                                 *)

LEMMA QueueOnlyIsQueueStep == QueueOnly => Next
<1>1. ASSUME NEW t \in Threads, NEW c \in Commands, ExecuteAsyncRefused(t, c) PROVE Next
  BY <1>1, Zenon DEF ExecuteAsyncRefused, Next, CallStart
<1>2. ASSUME NEW t \in Threads, QueueShutdownStep(t) PROVE Next
  BY <1>2, Zenon DEF QueueShutdownStep, Next, CallStep
<1>3. ASSUME NEW w \in Workers, QueueWorkerStep(w) PROVE Next
  BY <1>3, Zenon DEF QueueWorkerStep, Next, WorkerStep
<1>4. QueueEnvironment => Next
  BY Zenon DEF QueueEnvironment, Next
<1>q. QED BY <1>1, <1>2, <1>3, <1>4, Zenon DEF QueueOnly

LEMMA BothIsQueueStep ==
  ASSUME DInv, Both
  PROVE  [Next]_vars
<1>1. ASSUME NEW t \in Threads, NEW c \in Commands, ExecuteAsync(t, c) PROVE Next
  BY <1>1, Zenon DEF ExecuteAsync, Next, CallStart
<1>2. ASSUME NEW t \in Threads, ExecuteAsyncReturn(t) \/ CancelReturn(t) \/ QueueShutdownReturn(t)
      PROVE  Next
  BY <1>2, Zenon DEF ExecuteAsyncReturn, CancelReturn, QueueShutdownReturn, Next, CallStep
<1>3. ASSUME NEW t \in Threads, CancelQueued(t) PROVE Next
  <2>1. dcall[t] = "cancel" /\ Cancel(t, target[t])
    BY <1>3, Zenon DEF CancelQueued
  <2>2. t \in Callers
    BY <2>1 DEF DInv, Positions, Threads
  <2>3. target[t] \in CommandIds
    BY <2>1, <2>2 DEF DInv, DTypeOK, Cancel
  <2>q. QED BY <2>1, <2>3, Zenon DEF Next, CallStart
<1>4. ASSUME NEW t \in Threads, ShutDownQueue(t) PROVE [Next]_vars
  BY <1>4, Zenon DEF ShutDownQueue, Next, CallStart
<1>5. ASSUME NEW w \in Workers, DispatchBegin(w) PROVE Next
  BY <1>5, Zenon DEF DispatchBegin, Next, WorkerStep
<1>6. ASSUME NEW w \in Workers, DispatchReturn(w) PROVE Next
  <2>1. dpc[w] = "returned" /\ ExecutorReturn(w, dresult[w])
    BY <1>6, Zenon DEF DispatchReturn
  <2>2. dresult[w] \in ExecutorResults
    BY <2>1, DispatcherAssumption DEF DInv, Positions, Threads
  <2>q. QED BY <2>1, <2>2, Zenon DEF Next, WorkerStep
<1>q. QED BY <1>1, <1>2, <1>3, <1>4, <1>5, <1>6, Zenon DEF Both

\* Every step of the composition is a step of the queue or leaves it alone.
LEMMA StepsAreQueueSteps == DInv /\ [DNext]_allVars => [Next]_vars
<1>1. UNCHANGED allVars => UNCHANGED vars BY Zenon DEF allVars
<1>q. QED BY <1>1, DispatcherCases, QueueOnlyIsQueueStep, DispatcherOnlyFrame, BothIsQueueStep, Zenon
-----------------------------------------------------------------------------
(* Types                                                                   *)

LEMMA VerdictValues == \A t \in Threads : SafetyVerdict(t) \in {"Rejected", "Timeout", "Completed"}
  BY DEF SafetyVerdict, Validate

LEMMA DTypeInit == DInit => DTypeOK
<1> SUFFICES ASSUME DInit PROVE DTypeOK
  OBVIOUS
<1> USE DEF DInit
<1>1. dcall = [t \in Threads |-> "idle"] /\ dpc = [t \in Threads |-> "idle"]
  OBVIOUS
<1>2. dcommand \in [Callers -> Commands \cup {NoCommand}] /\ target \in [Callers -> CommandIds \cup {0}]
  OBVIOUS
<1>3. dresult \in [Threads -> DispatchResults \cup {"Pending"}]
  OBVIOUS
<1>4. /\ synchronous_ids \in SUBSET CommandIds /\ late \in SUBSET Callers
      /\ state_waiting \in SUBSET Threads
  OBVIOUS
<1>5. /\ d_accepting \in BOOLEAN /\ d_shutdown_in_progress \in BOOLEAN
      /\ d_shutdown_complete \in BOOLEAN /\ robot \in RobotStates /\ lateStarts \in Nat
  BY ZenonT(30)
<1>q. QED BY <1>1, <1>2, <1>3, <1>4, <1>5 DEF DTypeOK

LEMMA DTypeNext == DTypeOK /\ [DNext]_allVars => DTypeOK'
<1> SUFFICES ASSUME DTypeOK, [DNext]_allVars PROVE DTypeOK'
  OBVIOUS
<1> USE DEF DTypeOK, flagVars, dispatchVars, robotVars
<1>1. ASSUME NEW t \in Threads, NEW c \in Commands, Execute(t, c) PROVE DTypeOK'
  BY <1>1 DEF Execute, MayCallDispatcher, CommandIds
<1>2. ASSUME NEW t \in Threads, NEW id \in CommandIds, DispatcherCancel(t, id) PROVE DTypeOK'
  BY <1>2 DEF DispatcherCancel, MayCallDispatcher
<1>3. ASSUME NEW t \in Threads, BeginShutdown(t) PROVE DTypeOK'
  BY Zenon, <1>3 DEF BeginShutdown
<1>4. ASSUME NEW t \in Threads, JoinShutdown(t) PROVE DTypeOK'
  BY <1>4 DEF JoinShutdown
<1>5. ASSUME NEW t \in Threads, ReleaseSynchronous(t) PROVE DTypeOK'
  BY Zenon, <1>5 DEF ReleaseSynchronous
<1>6. ASSUME NEW t \in Threads, ReleaseNotify(t) PROVE DTypeOK'
  BY <1>6 DEF ReleaseNotify
<1>7. ASSUME NEW t \in Threads, CancelRefused(t) PROVE DTypeOK'
  BY Zenon, <1>7 DEF CancelRefused
<1>8. ASSUME NEW t \in Threads, JoinRecheck(t) PROVE DTypeOK'
  BY <1>8 DEF JoinRecheck
<1>9. ASSUME NEW t \in Threads, AwaitSynchronous(t) PROVE DTypeOK'
  BY <1>9 DEF AwaitSynchronous
<1>10. ASSUME NEW t \in Threads, FinishShutdown(t) PROVE DTypeOK'
  BY Zenon, <1>10 DEF FinishShutdown
<1>11. ASSUME NEW t \in Threads, AnnounceShutdown(t) PROVE DTypeOK'
  BY <1>11 DEF AnnounceShutdown
<1>12. ASSUME NEW t \in Threads, DispatchStart(t) PROVE DTypeOK'
  BY <1>12 DEF DispatchStart, ReturnFrom, DispatchResults
<1>13. ASSUME NEW t \in Threads, SafetyGate(t) PROVE DTypeOK'
  BY <1>13, VerdictValues DEF SafetyGate, ReturnFrom, DispatchResults
<1>14. ASSUME NEW t \in Threads, AdapterCall(t) PROVE DTypeOK'
  BY <1>14 DEF AdapterCall
<1>15. ASSUME NEW t \in Threads, AdapterThrow(t) PROVE DTypeOK'
  BY <1>15 DEF AdapterThrow, ReturnFrom, DispatchResults
<1>16. ASSUME NEW t \in Threads, StateSpuriousWakeup(t) PROVE DTypeOK'
  BY <1>16 DEF StateSpuriousWakeup
<1>17. ASSUME NEW t \in Threads, NEW s \in AdapterResults, AdapterReturn(t, s) PROVE DTypeOK'
  BY <1>17 DEF AdapterReturn, ReturnFrom, DispatchResults
<1>18. ASSUME NEW t \in Callers, TimeoutElapses(t) PROVE DTypeOK'
  BY <1>18 DEF TimeoutElapses
<1>19. ASSUME NEW r \in RobotStates, RobotReports(r) PROVE DTypeOK'
  BY <1>19 DEF RobotReports
<1>20. ASSUME NEW t \in Threads, NEW c \in Commands, ExecuteAsync(t, c) PROVE DTypeOK'
  BY <1>20 DEF ExecuteAsync
<1>21. ASSUME NEW t \in Threads, ExecuteAsyncReturn(t) PROVE DTypeOK'
  BY <1>21 DEF ExecuteAsyncReturn, DispatchResults
<1>22. ASSUME NEW t \in Threads, CancelQueued(t) PROVE DTypeOK'
  BY <1>22 DEF CancelQueued
<1>23. ASSUME NEW t \in Threads, CancelReturn(t) PROVE DTypeOK'
  BY Zenon, <1>23 DEF CancelReturn, DispatchResults
<1>24. ASSUME NEW t \in Threads, ShutDownQueue(t) PROVE DTypeOK'
  BY <1>24 DEF ShutDownQueue
<1>25. ASSUME NEW t \in Threads, QueueShutdownReturn(t) PROVE DTypeOK'
  BY <1>25 DEF QueueShutdownReturn, DispatchResults
<1>26. ASSUME NEW w \in Workers, DispatchBegin(w) PROVE DTypeOK'
  BY Zenon, <1>26 DEF DispatchBegin
<1>27. ASSUME NEW w \in Workers, DispatchReturn(w) PROVE DTypeOK'
  BY ZenonT(30), <1>27 DEF DispatchReturn, DispatchResults
<1>28. UNCHANGED dvars => DTypeOK'
  BY DEF dvars
<1>q. QED
  BY <1>1, <1>2, <1>3, <1>4, <1>5, <1>6, <1>7, <1>8, <1>9, <1>10, <1>11, <1>12, <1>13, <1>14, <1>15, <1>16, <1>17, <1>18, <1>19, <1>20, <1>21, <1>22, <1>23, <1>24, <1>25, <1>26, <1>27, <1>28, DispatcherCases,
     QueueOnlyFrame, Zenon DEF DispatcherOnly, Both, DispatchStep, allVars
-----------------------------------------------------------------------------
(* What the queue's steps do to what the dispatcher relies on               *)

\* shutdown_complete_ of the queue is never reset, and a Shutdown call reaches
\* its final notification only by setting it.
LEMMA QueueShutdownLasts ==
  ASSUME TypeOK, [Next]_vars
  PROVE  /\ shutdown_complete => shutdown_complete'
         /\ \A u \in Threads : call'[u] = "shutdownNotify" =>
              call[u] = "shutdownNotify" \/ shutdown_complete'
<1> DEFINE Goal == /\ shutdown_complete => shutdown_complete'
                   /\ \A u \in Threads : call'[u] = "shutdownNotify" =>
                        call[u] = "shutdownNotify" \/ shutdown_complete'
<1>0. call \in [Threads -> CallStates]
  BY DEF TypeOK
<1>1. UNCHANGED <<shutdown_complete, call>> => Goal
  OBVIOUS
<1>2. ASSUME NEW t \in Threads, NEW p \in CallStates \ {"shutdownNotify"},
             UNCHANGED shutdown_complete, call' = [call EXCEPT ![t] = p]
      PROVE  Goal
  BY <1>0, <1>2
<1>3. ASSUME NEW t \in Threads, NEW c \in Commands, EnqueueInvalid(t, c) PROVE Goal
  BY <1>1, <1>3, Zenon DEF EnqueueInvalid, lifeVars, callVars
<1>4. ASSUME NEW t \in Threads, NEW c \in Commands, EnqueueRefused(t, c) \/ EnqueueThrows(t, c)
      PROVE  Goal
  BY <1>1, <1>4, Zenon DEF EnqueueRefused, EnqueueThrows, lifeVars, callVars
<1>5. ASSUME NEW t \in Threads, NEW c \in Commands, EnqueueAccepted(t, c) PROVE Goal
  <2>1. UNCHANGED shutdown_complete /\ call' = [call EXCEPT ![t] = "enqueueNotify"]
    BY <1>5, Zenon DEF EnqueueAccepted, lifeVars, callVars
  <2>2. "enqueueNotify" \in CallStates \ {"shutdownNotify"}
    BY DEF CallStates
  <2>q. QED BY <1>2, <2>1, <2>2, Zenon
<1>6. ASSUME NEW t \in Threads, EnqueueNotify(t) PROVE Goal
  <2>1. UNCHANGED shutdown_complete /\ call' = [call EXCEPT ![t] = "idle"]
    BY <1>6, Zenon DEF EnqueueNotify, lifeVars, callVars
  <2>2. "idle" \in CallStates \ {"shutdownNotify"}
    BY DEF CallStates
  <2>q. QED BY <1>2, <2>1, <2>2, Zenon
<1>7. ASSUME NEW t \in Threads, NEW id \in CommandIds, Cancel(t, id) PROVE Goal
  <2>1. UNCHANGED shutdown_complete /\ call' = [call EXCEPT ![t] = "cancelPublish"]
    BY <1>7, Zenon DEF Cancel, lifeVars, callVars
  <2>2. "cancelPublish" \in CallStates \ {"shutdownNotify"}
    BY DEF CallStates
  <2>q. QED BY <1>2, <2>1, <2>2, Zenon
<1>8. ASSUME NEW t \in Threads, CancelPublish(t) PROVE Goal
  <2>1. UNCHANGED shutdown_complete /\ call' = [call EXCEPT ![t] = "idle"]
    BY <1>8, Zenon DEF CancelPublish, lifeVars, callVars
  <2>2. "idle" \in CallStates \ {"shutdownNotify"}
    BY DEF CallStates
  <2>q. QED BY <1>2, <2>1, <2>2, Zenon
<1>9. ASSUME NEW t \in Threads, ShutdownBegin(t) PROVE Goal
  <2>1. UNCHANGED shutdown_complete /\ call' = [call EXCEPT ![t] = "shutdownPublish"]
    BY <1>9, Zenon DEF ShutdownBegin, lifeVars, callVars
  <2>2. "shutdownPublish" \in CallStates \ {"shutdownNotify"}
    BY DEF CallStates
  <2>q. QED BY <1>2, <2>1, <2>2, Zenon
<1>10. ASSUME NEW t \in Threads, ShutdownWait(t) PROVE Goal
  <2>1. UNCHANGED shutdown_complete /\ call' = [call EXCEPT ![t] = "shutdownWait"]
    BY <1>10, Zenon DEF ShutdownWait, lifeVars, callVars
  <2>2. "shutdownWait" \in CallStates \ {"shutdownNotify"}
    BY DEF CallStates
  <2>q. QED BY <1>2, <2>1, <2>2, Zenon
<1>11. ASSUME NEW t \in Threads, ShutdownRecheck(t) PROVE Goal
  <2>1. UNCHANGED shutdown_complete /\ (UNCHANGED call \/ call' = [call EXCEPT ![t] = "idle"])
    BY <1>11, Zenon DEF ShutdownRecheck, lifeVars
  <2>2. "idle" \in CallStates \ {"shutdownNotify"}
    BY DEF CallStates
  <2>q. QED BY <1>1, <1>2, <2>1, <2>2, Zenon
<1>12. ASSUME NEW t \in Threads, ShutdownPublish(t) PROVE Goal
  BY <1>1, <1>12, Zenon DEF ShutdownPublish, lifeVars, callVars
<1>13. ASSUME NEW t \in Threads, ShutdownStop(t) PROVE Goal
  <2>1. UNCHANGED shutdown_complete /\ call' = [call EXCEPT ![t] = "shutdownJoin"]
    BY <1>13, Zenon DEF ShutdownStop, lifeVars, callVars
  <2>2. "shutdownJoin" \in CallStates \ {"shutdownNotify"}
    BY DEF CallStates
  <2>q. QED BY <1>2, <2>1, <2>2, Zenon
<1>14. ASSUME NEW t \in Threads, ShutdownJoined(t) PROVE Goal
  BY <1>14, Zenon DEF ShutdownJoined
<1>15. ASSUME NEW t \in Threads, ShutdownNotify(t) PROVE Goal
  <2>1. UNCHANGED shutdown_complete /\ call' = [call EXCEPT ![t] = "idle"]
    BY <1>15, Zenon DEF ShutdownNotify, lifeVars, callVars
  <2>2. "idle" \in CallStates \ {"shutdownNotify"}
    BY DEF CallStates
  <2>q. QED BY <1>2, <2>1, <2>2, Zenon
<1>16. ASSUME NEW w \in Workers, WorkerStart(w) PROVE Goal
  BY <1>1, <1>16, Zenon DEF WorkerStart, lifeVars, callVars
<1>17. ASSUME NEW w \in Workers, WorkerWait(w) PROVE Goal
  BY <1>1, <1>17, Zenon DEF WorkerWait, lifeVars, callVars
<1>18. ASSUME NEW w \in Workers, WorkerExit(w) PROVE Goal
  BY <1>1, <1>18, Zenon DEF WorkerExit, lifeVars, callVars
<1>19. ASSUME NEW w \in Workers, WorkerTake(w) PROVE Goal
  BY <1>1, <1>19, Zenon DEF WorkerTake, lifeVars, callVars
<1>20. ASSUME NEW w \in Workers, WorkerExpire(w) PROVE Goal
  BY <1>1, <1>20, Zenon DEF WorkerExpire, lifeVars, callVars
<1>21. ASSUME NEW w \in Workers, ExecutorCall(w) PROVE Goal
  BY <1>1, <1>21, Zenon DEF ExecutorCall, lifeVars, callVars
<1>22. ASSUME NEW w \in Workers, NEW s \in ExecutorResults, ExecutorReturn(w, s) PROVE Goal
  BY <1>1, <1>22, Zenon DEF ExecutorReturn, lifeVars, callVars
<1>23. ASSUME NEW w \in Workers, WorkerRecord(w) PROVE Goal
  BY <1>1, <1>23, Zenon DEF WorkerRecord, lifeVars, callVars
<1>24. ASSUME NEW w \in Workers, WorkerPublish(w) PROVE Goal
  BY <1>1, <1>24, Zenon DEF WorkerPublish, lifeVars, callVars
<1>25. ASSUME NEW k \in Tasks, DeadlinePasses(k) PROVE Goal
  BY <1>1, <1>25, Zenon DEF DeadlinePasses, lifeVars, callVars
<1>26. ASSUME NEW t \in Threads, SpuriousWakeup(t) PROVE Goal
  BY <1>1, <1>26, Zenon DEF SpuriousWakeup, lifeVars, callVars
<1>27. UNCHANGED vars \/ Stopped => Goal
  BY <1>1, Zenon DEF vars, Stopped, lifeVars, callVars
<1>q. QED
  BY <1>3, <1>4, <1>5, <1>6, <1>7, <1>8, <1>9, <1>10, <1>11, <1>12, <1>13, <1>14, <1>15, <1>16, <1>17, <1>18, <1>19, <1>20, <1>21, <1>22, <1>23, <1>24, <1>25, <1>26, <1>27, Zenon
     DEF Next, CallStart, CallStep, WorkerStep

\* A worker inside the executor keeps its command.
LEMMA ExecutingKeepsCommand ==
  ASSUME IInv, [Next]_vars, NEW w \in Workers, wpc[w] = "executing"
  PROVE  command'[wtask'[w]] = command[wtask[w]]
<1>0. /\ HoldsTask(w) /\ wtask[w] \in Tasks /\ wtask[w] <= submitted
      /\ command \in [Tasks -> Commands \cup {NoCommand}] /\ submitted \in Nat
  BY OwnedIsSubmitted DEF HoldsTask, IInv, TypeOK
<1>1. UNCHANGED <<command, wtask>> => command'[wtask'[w]] = command[wtask[w]]
  OBVIOUS
<1>2. ASSUME NEW c, UNCHANGED wtask, command' = [command EXCEPT ![submitted + 1] = c],
             submitted + 1 \in Tasks
      PROVE  command'[wtask'[w]] = command[wtask[w]]
  BY <1>0, <1>2 DEF Tasks
<1>3. ASSUME NEW t \in Threads, NEW c \in Commands, Immediate(t, c) \/ EnqueueAccepted(t, c)
      PROVE  command'[wtask'[w]] = command[wtask[w]]
  BY <1>2, <1>3, ImmediateEffect, AcceptEffect
<1>4. ASSUME NEW t \in Threads, NEW id \in CommandIds, Cancel(t, id)
      PROVE  command'[wtask'[w]] = command[wtask[w]]
  BY <1>1, <1>4, Zenon DEF Cancel, taskVars, workerVars
<1>5. ASSUME NEW t \in Threads, CancelPublish(t) \/ ShutdownBegin(t) \/ ShutdownPublish(t)
      PROVE  command'[wtask'[w]] = command[wtask[w]]
  BY <1>1, <1>5, Zenon DEF CancelPublish, ShutdownBegin, ShutdownPublish, taskVars, workerVars
<1>6. ASSUME NEW v \in Workers, WorkerTake(v) \/ WorkerPublish(v)
      PROVE  command'[wtask'[w]] = command[wtask[w]]
  <2>1. v # w
    BY <1>6, Zenon DEF WorkerTake, WorkerPublish
  <2>2. UNCHANGED command /\ \E x : wtask' = [wtask EXCEPT ![v] = x]
    BY <1>6, Zenon DEF WorkerTake, WorkerPublish
  <2>q. QED BY <2>1, <2>2
<1>7. ASSUME NEW v \in Workers, WorkerRecord(v)
      PROVE  command'[wtask'[w]] = command[wtask[w]]
  BY <1>1, <1>7, Zenon DEF WorkerRecord, taskVars
<1>8. Frame => command'[wtask'[w]] = command[wtask[w]]
  BY <1>1, Zenon DEF Frame
<1>q. QED BY SMTT(30), <1>3, <1>4, <1>5, <1>6, <1>7, <1>8, StepCases DEF IInv

\* In the steps that only the queue takes, no identifier becomes outstanding and
\* no worker enters or leaves the executor.
LEMMA QueueOnlyEffect ==
  ASSUME TypeOK, QueueOnly
  PROVE  /\ \A id \in CommandIds : tasks[id] = NoTask => tasks'[id] = NoTask
         /\ \A v \in Workers : wpc'[v] = "executing" <=> wpc[v] = "executing"
<1> DEFINE Goal == /\ \A id \in CommandIds : tasks[id] = NoTask => tasks'[id] = NoTask
                   /\ \A v \in Workers : wpc'[v] = "executing" <=> wpc[v] = "executing"
<1>0. wpc \in [Workers -> WorkerStates] /\ tasks \in [CommandIds -> Tasks \cup {NoTask}]
  BY DEF TypeOK
<1>1. UNCHANGED <<tasks, wpc>> => Goal
  OBVIOUS
<1>2. ASSUME NEW t \in Threads, NEW c \in Commands, ExecuteAsyncRefused(t, c) PROVE Goal
  BY <1>1, <1>2, Zenon DEF ExecuteAsyncRefused, EnqueueInvalid, EnqueueRefused, EnqueueThrows,
     indexVars, workerVars
<1>3. ASSUME NEW t \in Threads, QueueShutdownStep(t) PROVE Goal
  BY <1>1, <1>3, Zenon DEF QueueShutdownStep, ShutdownPublish, ShutdownStop, ShutdownJoined,
     indexVars, workerVars
<1>4. QueueEnvironment => Goal
  BY <1>1, Zenon DEF QueueEnvironment, DeadlinePasses, SpuriousWakeup, indexVars, workerVars
<1>5. ASSUME NEW w \in Workers, QueueWorkerStep(w) PROVE Goal
  <2>1. \/ UNCHANGED tasks
        \/ tasks' = [tasks EXCEPT ![command[wtask[w]].id] = NoTask]
    BY <1>5, ZenonT(30) DEF QueueWorkerStep, WorkerStart, WorkerWait, WorkerExit, WorkerTake,
       WorkerExpire, WorkerRecord, WorkerPublish, indexVars
  <2>2. \/ UNCHANGED wpc
        \/ /\ wpc[w] # "executing"
           /\ \E p \in {"ready", "exited", "taken", "finishing", "publishing"} :
                wpc' = [wpc EXCEPT ![w] = p]
    BY <1>5 DEF QueueWorkerStep, WorkerStart, WorkerWait, WorkerExit, WorkerTake,
       WorkerExpire, WorkerRecord, WorkerPublish, workerVars
  <2>3. \A id \in CommandIds : tasks[id] = NoTask => tasks'[id] = NoTask
    BY <1>0, <2>1
  <2>4. \A v \in Workers : wpc'[v] = "executing" <=> wpc[v] = "executing"
    BY <1>0, <2>2
  <2>q. QED BY <2>3, <2>4
<1>q. QED BY <1>2, <1>3, <1>4, <1>5, Zenon DEF QueueOnly

-----------------------------------------------------------------------------
(* The inductive invariant DInv of the dispatcher and the theorems. *)

\* What steps of the dispatcher alone leave as it is.
LEMMA DispatcherOnlyKeeps ==
  DispatcherOnly => UNCHANGED <<tasks, wpc, command, wtask, shutdown_complete, call>>
  BY DispatcherOnlyFrame, Zenon DEF vars, taskVars, indexVars, lifeVars, callVars, workerVars

\* Callers are in Dispatch inside Execute, workers inside the executor.
LEMMA PositionsNext ==
  ASSUME DInv, IInv, [DNext]_allVars
  PROVE  Positions'
<1>0. /\ Positions
    /\ dcall \in [Threads -> {"idle", "execute", "releaseNotify", "async", "cancel",
                           "cancelling", "shutdownWait", "shutdownQueue",
                           "queueShutdown", "shutdownSync", "shutdownNotify"}]
    /\ dpc \in [Threads -> {"idle", "start", "lock", "validated", "adapter", "returned"}]
    /\ dcommand \in [Callers -> Commands \cup {NoCommand}]
    /\ dresult \in [Threads -> DispatchResults \cup {"Pending"}]
    /\ wpc \in [Workers -> WorkerStates]
    /\ worker_ids \in SUBSET Workers
    /\ Callers \cap Workers = {} /\ Callers \subseteq Threads /\ Workers \subseteq Threads
  BY CallersAreNotWorkers DEF DInv, IInv, DTypeOK, TypeOK, Threads
<1>1. ASSUME DispatcherOnly PROVE Positions'
  <2> USE DEF flagVars, dispatchVars, robotVars
  <2>0. UNCHANGED wpc
    BY SMTT(30), <1>1, DispatcherOnlyKeeps
  <2>1. ASSUME NEW t \in Threads, NEW c \in Commands, Execute(t, c) PROVE Positions'
    BY SMTT(30), <1>0, <2>0, <2>1 DEF Positions, Execute, MayCallDispatcher
  <2>2. ASSUME NEW t \in Threads, NEW id \in CommandIds, DispatcherCancel(t, id) PROVE Positions'
    BY SMTT(30), <1>0, <2>0, <2>2 DEF Positions, DispatcherCancel, MayCallDispatcher
  <2>3. ASSUME NEW t \in Threads, BeginShutdown(t) PROVE Positions'
    BY <1>0, <2>0, <2>3 DEF Positions, BeginShutdown, MayShutDown, MayCallDispatcher
  <2>4. ASSUME NEW t \in Threads, JoinShutdown(t) PROVE Positions'
    BY SMTT(30), <1>0, <2>0, <2>4 DEF Positions, JoinShutdown, MayShutDown, MayCallDispatcher
  <2>5. ASSUME NEW t \in Threads, ReleaseSynchronous(t) PROVE Positions'
    BY SMTT(30), <1>0, <2>0, <2>5 DEF Positions, ReleaseSynchronous
  <2>6. ASSUME NEW t \in Threads, ReleaseNotify(t) PROVE Positions'
    BY SMTT(30), <1>0, <2>0, <2>6 DEF Positions, ReleaseNotify
  <2>7. ASSUME NEW t \in Threads, CancelRefused(t) PROVE Positions'
    BY <1>0, <2>0, <2>7 DEF Positions, CancelRefused
  <2>8. ASSUME NEW t \in Threads, JoinRecheck(t) PROVE Positions'
    BY SMTT(30), <1>0, <2>0, <2>8 DEF Positions, JoinRecheck
  <2>9. ASSUME NEW t \in Threads, AwaitSynchronous(t) PROVE Positions'
    BY SMTT(30), <1>0, <2>0, <2>9 DEF Positions, AwaitSynchronous
  <2>10. ASSUME NEW t \in Threads, FinishShutdown(t) PROVE Positions'
    BY <1>0, <2>0, <2>10 DEF Positions, FinishShutdown
  <2>11. ASSUME NEW t \in Threads, AnnounceShutdown(t) PROVE Positions'
    BY SMTT(30), <1>0, <2>0, <2>11 DEF Positions, AnnounceShutdown
  <2>12. ASSUME NEW t \in Threads, DispatchStart(t) PROVE Positions'
    BY SMTT(30), <1>0, <2>0, <2>12 DEF Positions, DispatchStart, ReturnFrom, DispatchResults
  <2>13. ASSUME NEW t \in Threads, SafetyGate(t) PROVE Positions'
    BY SMTT(30), <1>0, <2>0, <2>13, VerdictValues DEF Positions, SafetyGate, ReturnFrom, DispatchResults
  <2>14. ASSUME NEW t \in Threads, AdapterCall(t) PROVE Positions'
    BY SMTT(30), <1>0, <2>0, <2>14 DEF Positions, AdapterCall
  <2>15. ASSUME NEW t \in Threads, AdapterThrow(t) PROVE Positions'
    BY SMTT(30), <1>0, <2>0, <2>15 DEF Positions, AdapterThrow, ReturnFrom, DispatchResults
  <2>16. ASSUME NEW t \in Threads, StateSpuriousWakeup(t) PROVE Positions'
    BY SMTT(30), <1>0, <2>0, <2>16 DEF Positions, StateSpuriousWakeup
  <2>17. ASSUME NEW t \in Threads, NEW s \in AdapterResults, AdapterReturn(t, s) PROVE Positions'
    BY SMTT(30), <1>0, <2>0, <2>17 DEF Positions, AdapterReturn, ReturnFrom, DispatchResults
  <2>18. ASSUME NEW t \in Callers, TimeoutElapses(t) PROVE Positions'
    BY SMTT(30), <1>0, <2>0, <2>18 DEF Positions, TimeoutElapses
  <2>19. ASSUME NEW r \in RobotStates, RobotReports(r) PROVE Positions'
    BY <1>0, <2>0, <2>19 DEF Positions, RobotReports
  <2>q. QED BY <1>1, <2>1, <2>2, <2>3, <2>4, <2>5, <2>6, <2>7, <2>8, <2>9, <2>10, <2>11, <2>12, <2>13, <2>14, <2>15, <2>16, <2>17, <2>18, <2>19, Zenon
    DEF DispatcherOnly, DispatchStep
<1>2. ASSUME Both PROVE Positions'
  <2> USE DEF flagVars, dispatchVars, robotVars
  <2>1. ASSUME NEW t \in Threads, NEW c \in Commands, ExecuteAsync(t, c) PROVE Positions'
    BY SMTT(30), <1>0, <2>1 DEF Positions, ExecuteAsync, EnqueueAccepted, MayCall, workerVars, AdmitAsync, MayCallDispatcher
  <2>2. ASSUME NEW t \in Threads, ExecuteAsyncReturn(t) PROVE Positions'
    BY SMTT(30), <1>0, <2>2 DEF Positions, ExecuteAsyncReturn, EnqueueNotify, MayCall, workerVars
  <2>3. ASSUME NEW t \in Threads, CancelQueued(t) PROVE Positions'
    BY SMTT(30), <1>0, <2>3 DEF Positions, CancelQueued, Cancel, MayCall, workerVars
  <2>4. ASSUME NEW t \in Threads, CancelReturn(t) PROVE Positions'
    BY <1>0, <2>4 DEF Positions, CancelReturn, CancelPublish, MayCall, workerVars
  <2>5. ASSUME NEW t \in Threads, ShutDownQueue(t) PROVE Positions'
    <3>0. dcall[t] = "shutdownQueue" /\ UNCHANGED <<dpc, dcommand, dresult>>
      BY <2>5 DEF ShutDownQueue
    <3>1. CASE dcall' = [dcall EXCEPT ![t] = "shutdownSync"] /\ UNCHANGED vars
      BY SMTT(30), <1>0, <3>0, <3>1 DEF Positions, vars, workerVars
    <3>2. CASE dcall' = [dcall EXCEPT ![t] = "queueShutdown"] /\ ShutdownBegin(t)
      <4>1. t \notin worker_ids /\ UNCHANGED wpc
        BY <3>2, ZenonT(30) DEF ShutdownBegin, MayShutdown, IsWorkerThread, workerVars
      <4>2. t \notin Workers
        BY SMTT(30), <1>0, <3>0, <4>1 DEF Positions, IInv, CallProtocol
      <4>q. QED BY SMTT(30), <1>0, <3>0, <3>2, <4>1, <4>2 DEF Positions
    <3>q. QED BY <2>5, <3>1, <3>2, ZenonT(30) DEF ShutDownQueue
  <2>6. ASSUME NEW t \in Threads, QueueShutdownReturn(t) PROVE Positions'
    BY <1>0, <2>6 DEF Positions, QueueShutdownReturn, ShutdownNotify, MayCall, workerVars
  <2>7. ASSUME NEW w \in Workers, DispatchBegin(w) PROVE Positions'
    BY SMTT(30), <1>0, <2>7 DEF Positions, DispatchBegin, ExecutorCall, MayCall, workerVars
  <2>8. ASSUME NEW w \in Workers, DispatchReturn(w) PROVE Positions'
    BY SMTT(30), <1>0, <2>8 DEF Positions, DispatchReturn, ExecutorReturn, MayCall, workerVars
  <2>q. QED BY <1>2, <2>1, <2>2, <2>3, <2>4, <2>5, <2>6, <2>7, <2>8, ZenonT(30) DEF Both
<1>3. ASSUME QueueOnly PROVE Positions'
  BY SMTT(30), <1>0, <1>3, QueueOnlyFrame, QueueOnlyEffect DEF IInv, dvars, dispatchVars, Positions
<1>4. ASSUME UNCHANGED allVars PROVE Positions'
  BY SMTT(30), <1>0, <1>4 DEF allVars, vars, dvars, taskVars, indexVars, lifeVars, callVars, workerVars,
     flagVars, dispatchVars, robotVars, Positions
<1>q. QED BY <1>1, <1>2, <1>3, <1>4, DispatcherCases, ZenonT(30)

\* An identifier is in flight on one path only.
LEMMA UniqueNext ==
  ASSUME DInv, IInv, [DNext]_allVars
  PROVE  UniqueInFlight'
<1>0. /\ UniqueInFlight
    /\ dcall \in [Threads -> {"idle", "execute", "releaseNotify", "async", "cancel",
                           "cancelling", "shutdownWait", "shutdownQueue",
                           "queueShutdown", "shutdownSync", "shutdownNotify"}]
    /\ synchronous_ids \in SUBSET CommandIds
    /\ tasks \in [CommandIds -> Tasks \cup {NoTask}]
    /\ dcommand \in [Callers -> Commands \cup {NoCommand}]
    /\ Callers \subseteq Threads
  BY SMTT(30), CallersAreNotWorkers DEF DInv, IInv, DTypeOK, TypeOK, Threads
<1>1. ASSUME DispatcherOnly PROVE UniqueInFlight'
  <2> USE DEF flagVars, dispatchVars, robotVars
  <2>0. UNCHANGED tasks
    BY SMTT(30), <1>1, DispatcherOnlyKeeps
  <2>1. ASSUME NEW t \in Threads, NEW c \in Commands, Execute(t, c) PROVE UniqueInFlight'
    BY SMTT(30), <1>0, <2>0, <2>1 DEF UniqueInFlight, Execute, MayCallDispatcher, CommandIds
  <2>2. ASSUME NEW t \in Threads, NEW id \in CommandIds, DispatcherCancel(t, id) PROVE UniqueInFlight'
    BY SMTT(30), <1>0, <2>0, <2>2 DEF UniqueInFlight, DispatcherCancel, MayCallDispatcher
  <2>3. ASSUME NEW t \in Threads, BeginShutdown(t) PROVE UniqueInFlight'
    BY SMTT(30), <1>0, <2>0, <2>3 DEF UniqueInFlight, BeginShutdown, MayShutDown, MayCallDispatcher
  <2>4. ASSUME NEW t \in Threads, JoinShutdown(t) PROVE UniqueInFlight'
    BY SMTT(30), <1>0, <2>0, <2>4 DEF UniqueInFlight, JoinShutdown, MayShutDown, MayCallDispatcher
  <2>5. ASSUME NEW t \in Threads, ReleaseSynchronous(t) PROVE UniqueInFlight'
    <3>1. /\ dcall[t] = "execute" /\ synchronous_ids' = synchronous_ids \ {dcommand[t].id}
          /\ dcall' = [dcall EXCEPT ![t] = "releaseNotify"]
          /\ dcommand' = [dcommand EXCEPT ![t] = NoCommand]
      BY <2>5 DEF ReleaseSynchronous
    <3>2. t \in Callers
      BY <3>1 DEF DInv, Positions, Threads
    <3>3. \A u \in Callers : /\ dcall'[u] = "execute" <=> u # t /\ dcall[u] = "execute"
                             /\ u # t => dcommand'[u] = dcommand[u]
      BY SMTT(30), <1>0, <3>1, <3>2
    <3>4. \A id \in synchronous_ids' : tasks'[id] = NoTask
      BY SMTT(30), <1>0, <2>0, <3>1 DEF UniqueInFlight
    <3>5. ASSUME NEW id \in CommandIds
          PROVE  id \in synchronous_ids' <=>
                   \E u \in Callers : dcall'[u] = "execute" /\ dcommand'[u].id = id
      BY SMTT(30), <1>0, <3>1, <3>2, <3>3 DEF UniqueInFlight
    <3>6. \A u, v \in Callers :
            dcall'[u] = "execute" /\ dcall'[v] = "execute" /\ dcommand'[u].id = dcommand'[v].id
              => u = v
      BY <1>0, <3>3 DEF UniqueInFlight
    <3>q. QED BY <3>4, <3>5, <3>6 DEF UniqueInFlight
  <2>6. ASSUME NEW t \in Threads, ReleaseNotify(t) PROVE UniqueInFlight'
    BY SMTT(30), <1>0, <2>0, <2>6 DEF UniqueInFlight, ReleaseNotify
  <2>7. ASSUME NEW t \in Threads, CancelRefused(t) PROVE UniqueInFlight'
    BY SMTT(30), <1>0, <2>0, <2>7 DEF UniqueInFlight, CancelRefused
  <2>8. ASSUME NEW t \in Threads, JoinRecheck(t) PROVE UniqueInFlight'
    BY SMTT(30), <1>0, <2>0, <2>8 DEF UniqueInFlight, JoinRecheck
  <2>9. ASSUME NEW t \in Threads, AwaitSynchronous(t) PROVE UniqueInFlight'
    BY SMTT(30), <1>0, <2>0, <2>9 DEF UniqueInFlight, AwaitSynchronous
  <2>10. ASSUME NEW t \in Threads, FinishShutdown(t) PROVE UniqueInFlight'
    BY SMTT(30), <1>0, <2>0, <2>10 DEF UniqueInFlight, FinishShutdown
  <2>11. ASSUME NEW t \in Threads, AnnounceShutdown(t) PROVE UniqueInFlight'
    BY SMTT(30), <1>0, <2>0, <2>11 DEF UniqueInFlight, AnnounceShutdown
  <2>12. ASSUME NEW t \in Threads, DispatchStart(t) PROVE UniqueInFlight'
    BY SMTT(30), <1>0, <2>0, <2>12 DEF UniqueInFlight, DispatchStart, ReturnFrom
  <2>13. ASSUME NEW t \in Threads, SafetyGate(t) PROVE UniqueInFlight'
    BY SMTT(30), <1>0, <2>0, <2>13 DEF UniqueInFlight, SafetyGate, ReturnFrom
  <2>14. ASSUME NEW t \in Threads, AdapterCall(t) PROVE UniqueInFlight'
    BY SMTT(30), <1>0, <2>0, <2>14 DEF UniqueInFlight, AdapterCall
  <2>15. ASSUME NEW t \in Threads, AdapterThrow(t) PROVE UniqueInFlight'
    BY SMTT(30), <1>0, <2>0, <2>15 DEF UniqueInFlight, AdapterThrow, ReturnFrom
  <2>16. ASSUME NEW t \in Threads, StateSpuriousWakeup(t) PROVE UniqueInFlight'
    BY SMTT(30), <1>0, <2>0, <2>16 DEF UniqueInFlight, StateSpuriousWakeup
  <2>17. ASSUME NEW t \in Threads, NEW s \in AdapterResults, AdapterReturn(t, s) PROVE UniqueInFlight'
    BY SMTT(30), <1>0, <2>0, <2>17 DEF UniqueInFlight, AdapterReturn, ReturnFrom
  <2>18. ASSUME NEW t \in Callers, TimeoutElapses(t) PROVE UniqueInFlight'
    BY SMTT(30), <1>0, <2>0, <2>18 DEF UniqueInFlight, TimeoutElapses
  <2>19. ASSUME NEW r \in RobotStates, RobotReports(r) PROVE UniqueInFlight'
    BY SMTT(30), <1>0, <2>0, <2>19 DEF UniqueInFlight, RobotReports
  <2>q. QED BY <1>1, <2>1, <2>2, <2>3, <2>4, <2>5, <2>6, <2>7, <2>8, <2>9, <2>10, <2>11, <2>12, <2>13, <2>14, <2>15, <2>16, <2>17, <2>18, <2>19, Zenon
    DEF DispatcherOnly, DispatchStep
<1>2. ASSUME Both PROVE UniqueInFlight'
  <2> USE DEF flagVars, dispatchVars, robotVars
  <2>1. ASSUME NEW t \in Threads, NEW c \in Commands, ExecuteAsync(t, c) PROVE UniqueInFlight'
    BY SMTT(30), <1>0, <2>1 DEF UniqueInFlight, ExecuteAsync, EnqueueAccepted, indexVars, AdmitAsync, MayCallDispatcher
  <2>2. ASSUME NEW t \in Threads, ExecuteAsyncReturn(t) PROVE UniqueInFlight'
    BY SMTT(30), <1>0, <2>2 DEF UniqueInFlight, ExecuteAsyncReturn, EnqueueNotify, indexVars
  <2>3. ASSUME NEW t \in Threads, CancelQueued(t) PROVE UniqueInFlight'
    BY ZenonT(30), <1>0, <2>3 DEF UniqueInFlight, CancelQueued, Cancel, indexVars
  <2>4. ASSUME NEW t \in Threads, CancelReturn(t) PROVE UniqueInFlight'
    BY SMTT(30), <1>0, <2>4 DEF UniqueInFlight, CancelReturn, CancelPublish, indexVars
  <2>5. ASSUME NEW t \in Threads, ShutDownQueue(t) PROVE UniqueInFlight'
    <3>1. /\ dcall[t] = "shutdownQueue" /\ UNCHANGED <<synchronous_ids, dcommand>>
          /\ \E p \in {"shutdownSync", "queueShutdown"} : dcall' = [dcall EXCEPT ![t] = p]
      BY <2>5 DEF ShutDownQueue
    <3>2. \/ UNCHANGED tasks
          \/ tasks' = [i \in CommandIds |-> IF tasks[i] \in Queued THEN NoTask ELSE tasks[i]]
      BY <2>5, Zenon DEF ShutDownQueue, ShutdownBegin, vars, indexVars
    <3>3. \A id \in CommandIds : tasks[id] = NoTask => tasks'[id] = NoTask
      BY <3>2
    <3>4. \A u \in Callers : dcall'[u] = "execute" <=> dcall[u] = "execute"
      BY <1>0, <3>1
    <3>q. QED BY SMTT(30), <1>0, <3>1, <3>3, <3>4 DEF UniqueInFlight
  <2>6. ASSUME NEW t \in Threads, QueueShutdownReturn(t) PROVE UniqueInFlight'
    BY <1>0, <2>6 DEF UniqueInFlight, QueueShutdownReturn, ShutdownNotify, indexVars
  <2>7. ASSUME NEW w \in Workers, DispatchBegin(w) PROVE UniqueInFlight'
    BY SMTT(30), <1>0, <2>7 DEF UniqueInFlight, DispatchBegin, ExecutorCall, indexVars
  <2>8. ASSUME NEW w \in Workers, DispatchReturn(w) PROVE UniqueInFlight'
    BY <1>0, <2>8 DEF UniqueInFlight, DispatchReturn, ExecutorReturn, indexVars
  <2>q. QED BY <1>2, <2>1, <2>2, <2>3, <2>4, <2>5, <2>6, <2>7, <2>8, Zenon DEF Both
<1>3. ASSUME QueueOnly PROVE UniqueInFlight'
  <2>1. UNCHANGED <<synchronous_ids, dcall, dcommand>>
    BY <1>3, QueueOnlyFrame, Zenon DEF dvars
  <2>2. \A id \in CommandIds : tasks[id] = NoTask => tasks'[id] = NoTask
    BY SMTT(30), <1>3, QueueOnlyEffect DEF IInv
  <2>3. \A id \in synchronous_ids' : tasks'[id] = NoTask
    BY SMTT(30), <1>0, <2>1, <2>2 DEF UniqueInFlight
  <2>q. QED BY <1>0, <2>1, <2>3, Zenon DEF UniqueInFlight
<1>4. ASSUME UNCHANGED allVars PROVE UniqueInFlight'
  BY SMTT(30), <1>0, <1>4 DEF allVars, vars, dvars, taskVars, indexVars, lifeVars, callVars, workerVars,
     flagVars, dispatchVars, robotVars, UniqueInFlight
<1>q. QED BY <1>1, <1>2, <1>3, <1>4, DispatcherCases, Zenon

\* One thread at a time shuts down, and the queue is down before the wait for
\* the synchronous calls.
LEMMA ShutdownProtocolNext ==
  ASSUME DInv, IInv, [DNext]_allVars
  PROVE  ShutdownProtocol'
<1>0. /\ ShutdownProtocol
    /\ dcall \in [Threads -> {"idle", "execute", "releaseNotify", "async", "cancel",
                           "cancelling", "shutdownWait", "shutdownQueue",
                           "queueShutdown", "shutdownSync", "shutdownNotify"}]
    /\ d_accepting \in BOOLEAN /\ d_shutdown_in_progress \in BOOLEAN
    /\ d_shutdown_complete \in BOOLEAN
    /\ call \in [Threads -> CallStates]
  BY SMTT(30), CallersAreNotWorkers DEF DInv, IInv, DTypeOK, TypeOK, Threads
<1>1. ASSUME DispatcherOnly PROVE ShutdownProtocol'
  <2> USE DEF flagVars, dispatchVars, robotVars
  <2>0. UNCHANGED <<shutdown_complete, call>>
    BY SMTT(30), <1>1, DispatcherOnlyKeeps
  <2>1. ASSUME NEW t \in Threads, NEW c \in Commands, Execute(t, c) PROVE ShutdownProtocol'
    BY SMTT(30), <1>0, <2>0, <2>1 DEF ShutdownProtocol, ShuttingDown, Execute, MayCallDispatcher
  <2>2. ASSUME NEW t \in Threads, NEW id \in CommandIds, DispatcherCancel(t, id) PROVE ShutdownProtocol'
    BY SMTT(30), <1>0, <2>0, <2>2 DEF ShutdownProtocol, ShuttingDown, DispatcherCancel, MayCallDispatcher
  <2>3. ASSUME NEW t \in Threads, BeginShutdown(t) PROVE ShutdownProtocol'
    BY SMTT(30), <1>0, <2>0, <2>3 DEF ShutdownProtocol, ShuttingDown, BeginShutdown, MayShutDown, MayCallDispatcher
  <2>4. ASSUME NEW t \in Threads, JoinShutdown(t) PROVE ShutdownProtocol'
    BY SMTT(30), <1>0, <2>0, <2>4 DEF ShutdownProtocol, ShuttingDown, JoinShutdown
  <2>5. ASSUME NEW t \in Threads, ReleaseSynchronous(t) PROVE ShutdownProtocol'
    BY SMTT(30), <1>0, <2>0, <2>5 DEF ShutdownProtocol, ShuttingDown, ReleaseSynchronous
  <2>6. ASSUME NEW t \in Threads, ReleaseNotify(t) PROVE ShutdownProtocol'
    BY SMTT(30), <1>0, <2>0, <2>6 DEF ShutdownProtocol, ShuttingDown, ReleaseNotify
  <2>7. ASSUME NEW t \in Threads, CancelRefused(t) PROVE ShutdownProtocol'
    BY SMTT(30), <1>0, <2>0, <2>7 DEF ShutdownProtocol, ShuttingDown, CancelRefused
  <2>8. ASSUME NEW t \in Threads, JoinRecheck(t) PROVE ShutdownProtocol'
    BY SMTT(30), <1>0, <2>0, <2>8 DEF ShutdownProtocol, ShuttingDown, JoinRecheck
  <2>9. ASSUME NEW t \in Threads, AwaitSynchronous(t) PROVE ShutdownProtocol'
    BY SMTT(30), <1>0, <2>0, <2>9 DEF ShutdownProtocol, ShuttingDown, AwaitSynchronous
  <2>10. ASSUME NEW t \in Threads, FinishShutdown(t) PROVE ShutdownProtocol'
    BY SMTT(30), <1>0, <2>0, <2>10 DEF ShutdownProtocol, ShuttingDown, FinishShutdown
  <2>11. ASSUME NEW t \in Threads, AnnounceShutdown(t) PROVE ShutdownProtocol'
    BY SMTT(30), <1>0, <2>0, <2>11 DEF ShutdownProtocol, ShuttingDown, AnnounceShutdown
  <2>12. ASSUME NEW t \in Threads, DispatchStart(t) PROVE ShutdownProtocol'
    BY SMTT(30), <1>0, <2>0, <2>12 DEF ShutdownProtocol, ShuttingDown, DispatchStart, ReturnFrom
  <2>13. ASSUME NEW t \in Threads, SafetyGate(t) PROVE ShutdownProtocol'
    BY SMTT(30), <1>0, <2>0, <2>13 DEF ShutdownProtocol, ShuttingDown, SafetyGate, ReturnFrom
  <2>14. ASSUME NEW t \in Threads, AdapterCall(t) PROVE ShutdownProtocol'
    BY SMTT(30), <1>0, <2>0, <2>14 DEF ShutdownProtocol, ShuttingDown, AdapterCall
  <2>15. ASSUME NEW t \in Threads, AdapterThrow(t) PROVE ShutdownProtocol'
    BY SMTT(30), <1>0, <2>0, <2>15 DEF ShutdownProtocol, ShuttingDown, AdapterThrow, ReturnFrom
  <2>16. ASSUME NEW t \in Threads, StateSpuriousWakeup(t) PROVE ShutdownProtocol'
    BY SMTT(30), <1>0, <2>0, <2>16 DEF ShutdownProtocol, ShuttingDown, StateSpuriousWakeup
  <2>17. ASSUME NEW t \in Threads, NEW s \in AdapterResults, AdapterReturn(t, s) PROVE ShutdownProtocol'
    BY SMTT(30), <1>0, <2>0, <2>17 DEF ShutdownProtocol, ShuttingDown, AdapterReturn, ReturnFrom
  <2>18. ASSUME NEW t \in Callers, TimeoutElapses(t) PROVE ShutdownProtocol'
    BY SMTT(30), <1>0, <2>0, <2>18 DEF ShutdownProtocol, ShuttingDown, TimeoutElapses
  <2>19. ASSUME NEW r \in RobotStates, RobotReports(r) PROVE ShutdownProtocol'
    BY <1>0, <2>0, <2>19 DEF ShutdownProtocol, ShuttingDown, RobotReports
  <2>q. QED BY <1>1, <2>1, <2>2, <2>3, <2>4, <2>5, <2>6, <2>7, <2>8, <2>9, <2>10, <2>11, <2>12, <2>13, <2>14, <2>15, <2>16, <2>17, <2>18, <2>19, Zenon
    DEF DispatcherOnly, DispatchStep
<1>2. ASSUME Both PROVE ShutdownProtocol'
  <2> USE DEF flagVars, dispatchVars, robotVars
  <2>0. /\ shutdown_complete => shutdown_complete'
        /\ \A u \in Threads : call'[u] = "shutdownNotify" =>
             call[u] = "shutdownNotify" \/ shutdown_complete'
    BY StepsAreQueueSteps, QueueShutdownLasts DEF IInv
  <2>1. ASSUME NEW t \in Threads, NEW p \in {"idle", "async", "cancelling"},
               dcall' = [dcall EXCEPT ![t] = p], UNCHANGED <<flagVars, synchronous_ids>>
        PROVE  ShutdownProtocol'
    BY <1>0, <2>0, <2>1 DEF ShutdownProtocol, ShuttingDown
  <2>2. ASSUME NEW t \in Threads, NEW c \in Commands, ExecuteAsync(t, c) PROVE ShutdownProtocol'
    BY <2>1, <2>2, Zenon DEF ExecuteAsync
  <2>3. ASSUME NEW t \in Threads, ExecuteAsyncReturn(t) PROVE ShutdownProtocol'
    BY <2>1, <2>3, Zenon DEF ExecuteAsyncReturn
  <2>4. ASSUME NEW t \in Threads, CancelQueued(t) \/ CancelReturn(t) PROVE ShutdownProtocol'
    BY <2>1, <2>4, Zenon DEF CancelQueued, CancelReturn
  <2>5. ASSUME NEW t \in Threads, ShutDownQueue(t) PROVE ShutdownProtocol'
    <3>0. dcall[t] = "shutdownQueue" /\ UNCHANGED <<flagVars, synchronous_ids>>
      BY <2>5, Zenon DEF ShutDownQueue
    <3>1. CASE IsWorkerThread(t) /\ dcall' = [dcall EXCEPT ![t] = "shutdownSync"]
      <4>1. AdapterMayShutdown
        BY ZenonT(30), <3>0, <3>1 DEF DInv, Positions, IInv, TypeOK, IsWorkerThread
      <4>q. QED BY SMTT(30), <1>0, <3>0, <3>1, <4>1 DEF ShutdownProtocol, ShuttingDown
    <3>2. CASE ShutdownBegin(t) /\ dcall' = [dcall EXCEPT ![t] = "queueShutdown"]
      <4>1. call' = [call EXCEPT ![t] = "shutdownPublish"]
        BY <3>2, Zenon DEF ShutdownBegin
      <4>q. QED BY <1>0, <2>0, <3>0, <3>2, <4>1 DEF ShutdownProtocol, ShuttingDown
    <3>q. QED BY <2>5, <3>1, <3>2, Zenon DEF ShutDownQueue
  <2>6. ASSUME NEW t \in Threads, QueueShutdownReturn(t) PROVE ShutdownProtocol'
    <3>1. /\ dcall[t] = "queueShutdown" /\ call[t] = "shutdownNotify"
          /\ dcall' = [dcall EXCEPT ![t] = "shutdownSync"]
          /\ UNCHANGED <<flagVars, synchronous_ids>>
      BY <2>6, Zenon DEF QueueShutdownReturn, ShutdownNotify
    <3>q. QED BY <1>0, <2>0, <3>1 DEF ShutdownProtocol, ShuttingDown
  <2>7. ASSUME NEW w \in Workers, DispatchBegin(w) \/ DispatchReturn(w) PROVE ShutdownProtocol'
    <3>1. UNCHANGED <<dcall, flagVars, synchronous_ids>>
      BY <2>7, ZenonT(30) DEF DispatchBegin, DispatchReturn
    <3>q. QED BY <1>0, <2>0, <3>1 DEF ShutdownProtocol, ShuttingDown
  <2>q. QED BY <1>2, <2>2, <2>3, <2>4, <2>5, <2>6, <2>7, Zenon DEF Both
<1>3. ASSUME QueueOnly PROVE ShutdownProtocol'
  <2>1. UNCHANGED dvars
    BY <1>3, QueueOnlyFrame
  <2>2. /\ shutdown_complete => shutdown_complete'
        /\ \A u \in Threads : call'[u] = "shutdownNotify" =>
             call[u] = "shutdownNotify" \/ shutdown_complete'
    BY SMTT(30), <1>3, QueueOnlyIsQueueStep, QueueShutdownLasts DEF IInv
  <2>q. QED BY <1>0, <2>1, <2>2 DEF dvars, flagVars, ShutdownProtocol, ShuttingDown
<1>4. ASSUME UNCHANGED allVars PROVE ShutdownProtocol'
  BY <1>0, <1>4 DEF allVars, vars, dvars, taskVars, indexVars, lifeVars, callVars, workerVars,
     flagVars, dispatchVars, robotVars, ShutdownProtocol, ShuttingDown
<1>q. QED BY <1>1, <1>2, <1>3, <1>4, DispatcherCases, Zenon

\* A thread inside Dispatch keeps its command.
LEMMA DispatchedCommandStays ==
  ASSUME DInv, IInv, [DNext]_allVars, UNCHANGED dcommand,
         NEW t \in Threads, dpc[t] # "idle"
  PROVE  CommandOf(t)' = CommandOf(t)
<1>1. CASE t \in Workers
  <2>1. wpc[t] = "executing"
    BY SMTT(30), <1>1 DEF DInv, Positions
  <2>2. command'[wtask'[t]] = command[wtask[t]]
    BY SMTT(30), <1>1, <2>1, StepsAreQueueSteps, ExecutingKeepsCommand
  <2>q. QED BY SMTT(30), <1>1, <2>2 DEF CommandOf
<1>2. CASE t \notin Workers
  BY <1>2 DEF CommandOf
<1>q. QED BY <1>1, <1>2

\* What passes the safety check while the emergency stop is reported is a stop.
LEMMA GateHeedsEmergencyStop ==
  ASSUME NEW t \in Threads, Policy.rejectEmergencyStop, robot.emergencyStop,
         SafetyVerdict(t) = "Completed"
  PROVE  IsStopCommand(CommandOf(t).type)
<1>1. ~Unhealthy(CommandOf(t), SafetyContext(robot), Policy)
  BY DEF SafetyVerdict, Validate
<1>2. SafetyContext(robot).emergencyStop = robot.emergencyStop
  BY SMTT(30) DEF SafetyContext
<1>q. QED BY <1>1, <1>2 DEF Unhealthy

\* At most one thread is between the safety check and the end of the adapter call.
LEMMA CheckedNext ==
  ASSUME DInv, IInv, [DNext]_allVars
  PROVE  CheckedAndCalled'
<1>0. /\ CheckedAndCalled
    /\ dpc \in [Threads -> {"idle", "start", "lock", "validated", "adapter", "returned"}]
    /\ dcommand \in [Callers -> Commands \cup {NoCommand}]
    /\ lateStarts \in Nat /\ Callers \subseteq Threads /\ Workers \subseteq Threads
    /\ Callers \cap Workers = {}
  BY CallersAreNotWorkers DEF DInv, IInv, DTypeOK, TypeOK, Threads
<1>1. ASSUME \A u \in Threads : dpc'[u] \in {"validated", "adapter"} =>
                                  dpc'[u] = dpc[u] /\ CommandOf(u)' = CommandOf(u),
             UNCHANGED robotVars
      PROVE  CheckedAndCalled'
  <2>1. robot' = robot /\ lateStarts' = lateStarts
    BY <1>1 DEF robotVars
  <2>2. \A t, u \in Threads :
          dpc'[t] \in {"validated", "adapter"} /\ dpc'[u] \in {"validated", "adapter"} => t = u
    BY <1>0, <1>1 DEF CheckedAndCalled
  <2>3. ASSUME Policy.rejectEmergencyStop, NEW t \in Threads, dpc'[t] = "validated",
               ~IsStopCommand(CommandOf(t)'.type)
        PROVE  lateStarts' = 0
    BY <1>0, <1>1, <2>1, <2>3 DEF CheckedAndCalled
  <2>4. /\ ~robot'.emergencyStop => lateStarts' = 0
        /\ Policy.rejectEmergencyStop => lateStarts' <= 1
    BY <1>0, <2>1 DEF CheckedAndCalled
  <2>q. QED BY <2>2, <2>3, <2>4 DEF CheckedAndCalled
<1>2. ASSUME \A u \in Threads : dpc'[u] \in {"validated", "adapter"} => dpc'[u] = dpc[u],
             UNCHANGED <<robotVars, dcommand>>
      PROVE  CheckedAndCalled'
  <2>1. \A u \in Threads : dpc'[u] \in {"validated", "adapter"} => CommandOf(u)' = CommandOf(u)
    BY <1>2, DispatchedCommandStays
  <2>q. QED BY <1>1, <1>2, <2>1, ZenonT(30)
<1>3. ASSUME NEW t \in Threads, NEW p \in {"idle", "start", "lock", "returned"},
             dpc' = [dpc EXCEPT ![t] = p], UNCHANGED <<robotVars, dcommand>>
      PROVE  CheckedAndCalled'
  <2>1. \A u \in Threads : dpc'[u] \in {"validated", "adapter"} => dpc'[u] = dpc[u]
    BY <1>0, <1>3
  <2>q. QED BY <1>2, <1>3, <2>1, Zenon
<1>4. ASSUME UNCHANGED <<dpc, robotVars, dcommand>> PROVE CheckedAndCalled'
  BY <1>2, <1>4, Zenon
<1>5. ASSUME DispatcherOnly PROVE CheckedAndCalled'
  <2>0. UNCHANGED <<command, wtask>>
    BY <1>5, DispatcherOnlyKeeps
  <2>1. ASSUME NEW t \in Callers, NEW p \in {"idle", "start"}, NEW c,
               dpc' = [dpc EXCEPT ![t] = p], dcommand' = [dcommand EXCEPT ![t] = c],
               UNCHANGED robotVars
        PROVE  CheckedAndCalled'
    <3>1. ASSUME NEW u \in Threads, dpc'[u] \in {"validated", "adapter"}
          PROVE  dpc'[u] = dpc[u] /\ CommandOf(u)' = CommandOf(u)
      <4>1. u # t /\ dpc'[u] = dpc[u]
        BY <1>0, <2>1, <3>1
      <4>2. CASE u \in Workers
        BY SMTT(30), <2>0, <4>1, <4>2 DEF CommandOf
      <4>3. CASE u \notin Workers
        BY <1>0, <2>1, <4>1, <4>3 DEF CommandOf, Threads
      <4>q. QED BY <4>1, <4>2, <4>3
    <3>q. QED BY <1>1, <2>1, <3>1, ZenonT(30)
  <2>2. ASSUME NEW t \in Threads, NEW c \in Commands, Execute(t, c) PROVE CheckedAndCalled'
    BY <2>1, <2>2, Zenon DEF Execute, MayCallDispatcher
  <2>3. ASSUME NEW t \in Threads, ReleaseSynchronous(t) PROVE CheckedAndCalled'
    <3>1. t \in Callers
      BY <2>3 DEF ReleaseSynchronous, DInv, Positions, Threads
    <3>q. QED BY <2>1, <2>3, <3>1, ZenonT(30) DEF ReleaseSynchronous
  <2>4. ASSUME NEW t \in Threads, NEW id \in CommandIds, DispatcherCancel(t, id)
        PROVE  CheckedAndCalled'
    BY <1>4, <2>4, Zenon DEF DispatcherCancel, dispatchVars
  <2>5. ASSUME NEW t \in Threads,
               \/ BeginShutdown(t) \/ JoinShutdown(t) \/ ReleaseNotify(t) \/ CancelRefused(t)
               \/ JoinRecheck(t)
        PROVE  CheckedAndCalled'
    BY <1>4, <2>5, Zenon DEF BeginShutdown, JoinShutdown, ReleaseNotify, CancelRefused,
       JoinRecheck, dispatchVars
  <2>6. ASSUME NEW t \in Threads,
               \/ AwaitSynchronous(t) \/ FinishShutdown(t) \/ AnnounceShutdown(t)
               \/ StateSpuriousWakeup(t)
        PROVE  CheckedAndCalled'
    BY <1>4, <2>6, Zenon DEF AwaitSynchronous, FinishShutdown, AnnounceShutdown,
       StateSpuriousWakeup, dispatchVars
  <2>7. ASSUME NEW t \in Callers, TimeoutElapses(t) PROVE CheckedAndCalled'
    BY <1>4, <2>7, Zenon DEF TimeoutElapses
  <2>8. ASSUME NEW t \in Threads, DispatchStart(t) PROVE CheckedAndCalled'
    BY <1>3, <2>8, Zenon DEF DispatchStart, ReturnFrom
  <2>9. ASSUME NEW t \in Threads, AdapterThrow(t) PROVE CheckedAndCalled'
    BY <1>3, <2>9, Zenon DEF AdapterThrow, ReturnFrom
  <2>10. ASSUME NEW t \in Threads, NEW s \in AdapterResults, AdapterReturn(t, s)
         PROVE  CheckedAndCalled'
    BY <1>3, <2>10, Zenon DEF AdapterReturn, ReturnFrom
  <2>11. ASSUME NEW t \in Threads, SafetyGate(t) PROVE CheckedAndCalled'
    <3>1. /\ robot' = robot /\ lateStarts' = lateStarts /\ UNCHANGED <<robotVars, dcommand>>
          /\ \A u \in Threads : dpc[u] \notin {"validated", "adapter"}
      BY <2>11, Zenon DEF SafetyGate, AdapterMutexFree, robotVars
    <3>2. CASE dpc' = [dpc EXCEPT ![t] = "returned"]
      BY <1>3, <3>1, <3>2, ZenonT(30)
    <3>3. CASE dpc' = [dpc EXCEPT ![t] = "validated"] /\ SafetyVerdict(t) = "Completed"
      <4>1. CommandOf(t)' = CommandOf(t)
        BY ZenonT(30), <2>0, <3>1 DEF CommandOf
      <4>2. Policy.rejectEmergencyStop /\ ~IsStopCommand(CommandOf(t).type) => lateStarts = 0
        BY <1>0, <3>3, GateHeedsEmergencyStop DEF CheckedAndCalled
      <4>3. \A u \in Threads : dpc'[u] \in {"validated", "adapter"} => u = t
        BY SMTT(30), <1>0, <3>1, <3>3
      <4>4. \A u \in Threads : dpc'[u] = "validated" /\ ~IsStopCommand(CommandOf(u)'.type)
              => ~IsStopCommand(CommandOf(t).type)
        BY <4>1, <4>3
      <4>q. QED BY ZenonT(30), <1>0, <3>1, <4>2, <4>3, <4>4 DEF CheckedAndCalled
    <3>q. QED BY <2>11, <3>2, <3>3, Zenon DEF SafetyGate, ReturnFrom
  <2>12. ASSUME NEW t \in Threads, AdapterCall(t) PROVE CheckedAndCalled'
    <3>1. /\ dpc[t] = "validated" /\ dpc' = [dpc EXCEPT ![t] = "adapter"] /\ robot' = robot
          /\ lateStarts' = IF robot.emergencyStop /\ ~IsStopCommand(CommandOf(t).type)
                             THEN lateStarts + 1 ELSE lateStarts
      BY <2>12, Zenon DEF AdapterCall
    <3>2. \A u \in Threads : dpc'[u] \in {"validated", "adapter"} => u = t
      BY SMTT(30), <1>0, <3>1 DEF CheckedAndCalled
    <3>3. \A u \in Threads : dpc'[u] # "validated"
      BY <1>0, <3>1, <3>2
    <3>4. Policy.rejectEmergencyStop /\ ~IsStopCommand(CommandOf(t).type) => lateStarts = 0
      BY <1>0, <3>1, ZenonT(30) DEF CheckedAndCalled
    <3>5. Policy.rejectEmergencyStop => lateStarts' <= 1
      BY SMTT(30), <1>0, <3>1, <3>4 DEF CheckedAndCalled
    <3>6. ~robot'.emergencyStop => lateStarts' = 0
      BY SMTT(30), <1>0, <3>1 DEF CheckedAndCalled
    <3>q. QED BY <3>2, <3>3, <3>5, <3>6 DEF CheckedAndCalled
  <2>13. ASSUME NEW r \in RobotStates, RobotReports(r) PROVE CheckedAndCalled'
    <3>1. /\ robot' = r /\ lateStarts' = (IF r.emergencyStop THEN lateStarts ELSE 0)
          /\ UNCHANGED <<dpc, dcommand>>
      BY <2>13, ZenonT(30) DEF RobotReports, dispatchVars
    <3>2. \A u \in Threads : CommandOf(u)' = CommandOf(u)
      BY <2>0, <3>1 DEF CommandOf
    <3>3. lateStarts = 0 => lateStarts' = 0
      BY <3>1
    <3>4. Policy.rejectEmergencyStop => lateStarts' <= 1
      BY <1>0, <3>1 DEF CheckedAndCalled
    <3>5. ~robot'.emergencyStop => lateStarts' = 0
      BY <3>1
    <3>q. QED BY SMTT(30), <1>0, <3>1, <3>2, <3>3, <3>4, <3>5 DEF CheckedAndCalled
  <2>q. QED BY <1>5, <2>2, <2>3, <2>4, <2>5, <2>6, <2>7, <2>8, <2>9, <2>10, <2>11, <2>12, <2>13,
               ZenonT(30) DEF DispatcherOnly, DispatchStep
<1>6. ASSUME Both PROVE CheckedAndCalled'
  <2> USE DEF dispatchVars
  <2>1. ASSUME NEW t \in Threads, NEW c \in Commands, ExecuteAsync(t, c) PROVE CheckedAndCalled'
    BY <1>4, <2>1, Zenon DEF ExecuteAsync
  <2>2. ASSUME NEW t \in Threads,
               ExecuteAsyncReturn(t) \/ CancelQueued(t) \/ CancelReturn(t)
        PROVE  CheckedAndCalled'
    BY <1>4, <2>2, Zenon DEF ExecuteAsyncReturn, CancelQueued, CancelReturn
  <2>3. ASSUME NEW t \in Threads, ShutDownQueue(t) \/ QueueShutdownReturn(t)
        PROVE  CheckedAndCalled'
    BY <1>4, <2>3, Zenon DEF ShutDownQueue, QueueShutdownReturn
  <2>4. ASSUME NEW w \in Workers, DispatchBegin(w) \/ DispatchReturn(w) PROVE CheckedAndCalled'
    BY <1>0, <1>3, <2>4, ZenonT(30) DEF DispatchBegin, DispatchReturn
  <2>q. QED BY <1>6, <2>1, <2>2, <2>3, <2>4, ZenonT(30) DEF Both
<1>7. ASSUME QueueOnly PROVE CheckedAndCalled'
  BY <1>7, <1>4, QueueOnlyFrame, ZenonT(30) DEF dvars, dispatchVars
<1>8. ASSUME UNCHANGED allVars PROVE CheckedAndCalled'
  BY <1>8, <1>4, Zenon DEF allVars, dvars, dispatchVars
<1>q. QED BY <1>5, <1>6, <1>7, <1>8, DispatcherCases, Zenon

-----------------------------------------------------------------------------
(* The inductive invariant                                                  *)

LEMMA DInvInit == DInit => DInv
<1> SUFFICES ASSUME DInit PROVE DInv
  OBVIOUS
<1>0. Callers \subseteq Threads /\ Workers \subseteq Threads
  BY SMTT(30) DEF Threads
<1>1. UniqueInFlight
  BY <1>0 DEF DInit, UniqueInFlight
<1>2. Positions
  BY <1>0 DEF DInit, Init, Positions
<1>3. ShutdownProtocol
  BY DEF DInit, ShutdownProtocol, ShuttingDown
<1>4. CheckedAndCalled
  BY DEF DInit, CheckedAndCalled
<1>q. QED BY <1>1, <1>2, <1>3, <1>4, DTypeInit DEF DInv

LEMMA DInvNext == DInv /\ IInv /\ [DNext]_allVars => DInv' /\ IInv'
<1> SUFFICES ASSUME DInv, IInv, [DNext]_allVars PROVE DInv' /\ IInv'
  OBVIOUS
<1>1. IInv'
  BY StepsAreQueueSteps, InvNext, Zenon
<1>2. DTypeOK'
  BY DTypeNext, Zenon DEF DInv
<1>q. QED
  BY <1>1, <1>2, UniqueNext, PositionsNext, ShutdownProtocolNext, CheckedNext, ZenonT(30) DEF DInv

\* The invariant of the dispatcher together with the one of its queue.
LEMMA DispatcherInvariance == DSpec => [](DInv /\ IInv)
<1>1. DInit => DInv /\ IInv
  BY DInvInit, InvInit, Zenon DEF DInit
<1>q. QED BY <1>1, DInvNext, PTL DEF DSpec

-----------------------------------------------------------------------------
(* The theorems                                                            *)

\* The dispatcher's positions, registrations and copies, and the state of the queue
\* below it, keep their types: Dispatch returns only terminal results.
THEOREM DispatcherTypes == DSpec => []DTypeOK
<1>1. DInv /\ IInv => DTypeOK
  BY Zenon DEF DInv
<1>q. QED BY <1>1, DispatcherInvariance, PTL

\* CommandDispatcher uses CommandQueue as its own specification allows: every
\* behaviour of the composition, with Dispatch as the executor and Execute,
\* ExecuteAsync, Cancel and Shutdown as the callers, is one of the queue, so that
\* every theorem of CommandQueueProofs holds inside the dispatcher.
THEOREM QueueIsImplemented == DSpec => ImplementsQueue
<1>1. DInit => Init
  BY Zenon DEF DInit
<1>2. DSpec => [][Next]_vars
  BY DispatcherInvariance, StepsAreQueueSteps, PTL DEF DSpec
<1>q. QED BY <1>1, <1>2, PTL DEF DSpec, ImplementsQueue, Spec

\* Execute and ExecuteAsync never have the same identifier in flight, although
\* each checks the other's bookkeeping under its own mutex.
THEOREM IdentifiersAreUnique == DSpec => []UniqueInFlight
<1>1. DInv /\ IInv => UniqueInFlight
  BY Zenon DEF DInv
<1>q. QED BY <1>1, DispatcherInvariance, PTL

\* The bookkeeping of both dispatch paths stays consistent, whatever calls interleave.
THEOREM DispatchConsistent == DSpec => []DispatchesAreConsistent
<1>1. DInv /\ IInv => DispatchesAreConsistent
  BY Zenon DEF DInv, DispatchesAreConsistent
<1>q. QED BY <1>1, DispatcherInvariance, PTL

\* After the emergency stop is reported at most one more command than a stop
\* reaches the adapter: the safety check and the adapter call are one critical
\* section of adapter_mutex_.
THEOREM OneLateStartAtMost == DSpec => []AtMostOneLateStart
<1>1. DInv /\ IInv => AtMostOneLateStart
  BY Zenon DEF DInv, CheckedAndCalled, AtMostOneLateStart
<1>q. QED BY <1>1, DispatcherInvariance, PTL

\* Unless an adapter call shuts the dispatcher down itself, Shutdown returns with
\* no thread inside Dispatch, nothing registered and the queue shut down.
THEOREM ShutdownLeavesNothing ==
  ASSUME ~AdapterMayShutdown
  PROVE  DSpec => []ShutdownQuiescesDispatch
<1>1. ASSUME DInv, IInv, d_shutdown_complete
      PROVE  /\ ~d_accepting /\ synchronous_ids = {} /\ shutdown_complete
             /\ \A t \in Threads : dpc[t] = "idle"
  <2>1. ~d_accepting /\ synchronous_ids = {} /\ shutdown_complete
    BY SMTT(30), <1>1 DEF DInv, ShutdownProtocol
  <2>2. ASSUME NEW w \in Workers PROVE dpc[w] = "idle"
    <3>1. wpc[w] # "executing"
      BY SMTT(30), <1>1, <2>1 DEF IInv, ShutdownIsQuiescent
    <3>q. QED BY SMTT(30), <1>1, <3>1 DEF DInv, Positions
  <2>3. ASSUME NEW t \in Callers PROVE dpc[t] = "idle"
    <3>1. SUFFICES ASSUME dcall[t] = "execute" PROVE FALSE
      BY <1>1 DEF DInv, Positions
    <3>2. dcommand[t] \in Commands
      BY <1>1, <3>1 DEF DInv, Positions
    <3>3. dcommand[t].id \in CommandIds
      BY <3>2 DEF CommandIds
    <3>q. QED BY SMTT(30), <1>1, <2>1, <3>1, <3>3 DEF DInv, UniqueInFlight
  <2>q. QED BY <2>1, <2>2, <2>3 DEF Threads
<1>2. DInv /\ IInv => ShutdownQuiescesDispatch
  BY <1>1, Zenon DEF ShutdownQuiescesDispatch
<1>q. QED BY <1>2, DispatcherInvariance, PTL
=============================================================================

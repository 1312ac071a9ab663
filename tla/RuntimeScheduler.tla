-------------------------- MODULE RuntimeScheduler --------------------------
(***************************************************************************)
(* humanoid::runtime::RuntimeScheduler: jobs wait in a priority queue, run  *)
(* in parallel or alone, and can be paused, resumed and stopped while they  *)
(* wait and while they run.  One action per section under mutex_; stop      *)
(* requests, promises, notifications and joins are steps of their own.      *)
(* A job is identified with its identifier; each is submitted once.         *)
(***************************************************************************)
EXTENDS Integers, Sequences, FiniteSets, Functions

CONSTANTS
  Clients, Workers,
  Jobs,                  \* identifiers of the valid jobs clients may submit
  Priority,              \* PriorityRank of each job
  Sequential,            \* the jobs whose executionMode is Sequential
  CallbackStates,        \* states a callback returns; "throw" when it throws
  MaximumQueueSize, MaximumCompletedHistorySize,
  MaxRefusals,           \* bound on counted refusals of unusable jobs
  MaxThrows,             \* bound on Submits that throw
  JobsMayShutDown        \* whether a callback may call Shutdown

Terminal == {"Completed", "Cancelled", "Failed", "Aborted"}
Snapshots == Terminal \cup {"Created", "Running", "Paused"}
Threads == Clients \cup Workers

ValidOptions == MaximumQueueSize \in Nat \ {0} /\ Workers # {}

ASSUME SchedulerAssumption ==
  /\ Clients \cap Workers = {} /\ ValidOptions /\ Jobs # {}
  /\ MaximumCompletedHistorySize \in Nat
  /\ Priority \in [Jobs -> 0..3] /\ Sequential \subseteq Jobs

VARIABLES
  \* ScheduledJob and its RuntimeJobControl.
  state, stopRequested, paused, cancelRequested, future,
  \* Members of Impl; outstanding_ is Outstanding below.
  queue, records, completed_order, statistics, running_count,
  sequential_running, accepting, shutdown_in_progress, shutdown_complete,
  stop_requested,
  \* Threads: blocked in condition_, position, job, result, jobs still to stop.
  waiting, position, cur, res, todo,
  \* History: a thread has called Shutdown; Submits that threw.
  shutdownCalled, thrown

jobVars == <<state, stopRequested>>
controlVars == <<paused, cancelRequested>>
recordVars == <<records, completed_order>>
runVars == <<running_count, sequential_running>>
lifeVars == <<accepting, shutdown_in_progress, shutdown_complete, stop_requested,
              shutdownCalled, thrown>>
threadVars == <<position, cur, res, todo>>
schedulerVars == <<jobVars, controlVars, future, queue, recordVars, statistics, runVars,
          lifeVars, waiting, threadVars>>

Counters == {"accepted", "started", "completed", "cancelled", "stopped", "failed", "rejected"}

SchedulerInit ==
  /\ state = [j \in Jobs |-> "new"]
  /\ stopRequested = [j \in Jobs |-> FALSE]
  /\ paused = [j \in Jobs |-> FALSE]
  /\ cancelRequested = [j \in Jobs |-> FALSE]
  /\ future = [j \in Jobs |-> "pending"]
  /\ queue = <<>>
  /\ records = [j \in Jobs |-> "none"] /\ completed_order = <<>>
  /\ statistics = [c \in Counters |-> 0]
  /\ running_count = 0 /\ sequential_running = FALSE
  /\ accepting = TRUE /\ shutdown_in_progress = FALSE
  /\ shutdown_complete = FALSE /\ stop_requested = FALSE
  /\ shutdownCalled = FALSE /\ thrown = 0
  /\ waiting = {}
  /\ position = [t \in Threads |-> IF t \in Workers THEN "wait" ELSE "idle"]
  /\ cur = [t \in Threads |-> CHOOSE j \in Jobs : TRUE]
  /\ res = [t \in Threads |-> "pending"]
  /\ todo = [t \in Threads |-> <<>>]

-----------------------------------------------------------------------------
(* Helpers                                                                 *)

Goto(t, label) == position' = [position EXCEPT ![t] = label]
Count(c) == [statistics EXCEPT ![c] = @ + 1]
Outstanding == { j \in Jobs : state[j] \in {"queued", "running"} }
IsTerminalLocked(j) == records[j] \in Terminal

CanStartLocked(j) ==
  /\ ~paused[j]
  /\ ~sequential_running
  /\ j \in Sequential => running_count = 0

\* FindNextJobLocked returns this position of the queue: of the jobs that can
\* start, the first of highest priority (queue order is sequence order).
IsNextJob(i) ==
  /\ CanStartLocked(queue[i])
  /\ \A k \in DOMAIN queue : CanStartLocked(queue[k]) =>
       /\ Priority[queue[k]] <= Priority[queue[i]]
       /\ k < i => Priority[queue[k]] < Priority[queue[i]]

HasSchedulableJobLocked == \E i \in DOMAIN queue : CanStartLocked(queue[i])

\* How many of completed_order_ the loop of PruneCompletedHistoryLocked drops.
Excess(order) == Len(order) - MaximumCompletedHistorySize

\* CompleteRecordLocked for the jobs of js, in order, with their new states,
\* then PruneCompletedHistoryLocked; `left` are the jobs still outstanding.
CompleteRecordsLocked(recs, js, left) ==
  LET order == completed_order \o js
      n == IF MaximumCompletedHistorySize = 0 \/ Excess(order) <= 0 THEN 0
           ELSE Excess(order)
      dropped == { order[i] : i \in 1..n } \ left
  IN /\ records' = [j \in Jobs |-> IF j \in dropped THEN "none" ELSE recs[j]]
     /\ completed_order' = SubSeq(order, n + 1, Len(order))

CounterOf(s) == IF s = "Completed" THEN "completed"
                ELSE IF s = "Cancelled" THEN "cancelled" ELSE "failed"

-----------------------------------------------------------------------------
(* Client operations                                                       *)

Submit(t, j) ==
  /\ position[t] = "idle" /\ state[j] = "new"
  /\ IF accepting /\ Len(queue) < MaximumQueueSize
       THEN /\ state' = [state EXCEPT ![j] = "queued"]
            /\ records' = [records EXCEPT ![j] = "Created"]
            /\ queue' = Append(queue, j)
            /\ statistics' = Count("accepted")
            /\ Goto(t, "notify") /\ UNCHANGED future
       ELSE /\ state' = [state EXCEPT ![j] = "done"]
            /\ future' = [future EXCEPT ![j] = "Failed"]
            /\ statistics' = Count("rejected")
            /\ UNCHANGED <<position, records, queue>>
  /\ UNCHANGED <<stopRequested, controlVars, completed_order, runVars, lifeVars, waiting,
                 cur, res, todo>>

\* Submit when building the job's handle, snapshot or queue entry throws: the catch
\* erases what was inserted, counts a failure and throws on.  The client has no handle
\* and the identifier is free again.
SubmitThrows(t, j) ==
  /\ position[t] = "idle" /\ state[j] = "new"
  /\ accepting /\ Len(queue) < MaximumQueueSize
  /\ thrown < MaxThrows /\ thrown' = thrown + 1
  /\ statistics' = Count("failed")
  /\ UNCHANGED <<jobVars, controlVars, future, queue, recordVars, runVars, accepting,
                 shutdown_in_progress, shutdown_complete, stop_requested, shutdownCalled,
                 waiting, threadVars>>

\* Submit of a job that Validate refuses or whose identifier has a record.
SubmitRefused(t) ==
  /\ position[t] = "idle" /\ statistics["rejected"] < MaxRefusals
  /\ statistics' = Count("rejected")
  /\ UNCHANGED <<jobVars, controlVars, future, queue, recordVars, runVars, lifeVars,
                 waiting, threadVars>>

Pause(t, j) ==
  /\ position[t] = "idle"
  /\ j \in Outstanding /\ ~IsTerminalLocked(j)
  /\ paused' = [paused EXCEPT ![j] = TRUE]
  /\ records' = [records EXCEPT ![j] = "Paused"]
  /\ Goto(t, "notify")
  /\ UNCHANGED <<jobVars, cancelRequested, future, queue, completed_order, statistics,
                 runVars, lifeVars, waiting, cur, res, todo>>

Resume(t, j) ==
  /\ position[t] = "idle"
  /\ j \in Outstanding /\ paused[j] /\ ~IsTerminalLocked(j)
  /\ paused' = [paused EXCEPT ![j] = FALSE]
  /\ records' = [records EXCEPT ![j] = IF state[j] = "running" THEN "Running" ELSE "Created"]
  /\ Goto(t, "notify")
  /\ UNCHANGED <<jobVars, cancelRequested, future, queue, completed_order, statistics,
                 runVars, lifeVars, waiting, cur, res, todo>>

\* queue_.erase(iterator).
EraseAt(q, i) == SubSeq(q, 1, i - 1) \o SubSeq(q, i + 1, Len(q))

\* Stop of a job that still waits completes its record at once.
StopQueued(t, j) ==
  /\ position[t] = "idle"
  /\ state[j] = "queued" /\ ~IsTerminalLocked(j)
  /\ \E i \in DOMAIN queue : queue[i] = j /\ queue' = EraseAt(queue, i)
  /\ state' = [state EXCEPT ![j] = "done"]
  /\ statistics' = [Count("cancelled") EXCEPT !["stopped"] = @ + 1]
  /\ CompleteRecordsLocked([records EXCEPT ![j] = "Cancelled"], <<j>>, Outstanding \ {j})
  /\ todo' = [todo EXCEPT ![t] = <<j>>]
  /\ Goto(t, "stopping")
  /\ UNCHANGED <<stopRequested, controlVars, future, runVars, lifeVars, waiting, cur, res>>

StopRunning(t, j) ==
  /\ position[t] = "idle"
  /\ state[j] = "running" /\ ~IsTerminalLocked(j)
  /\ stopRequested' = [stopRequested EXCEPT ![j] = TRUE]
  /\ statistics' = IF stopRequested[j] THEN statistics ELSE Count("stopped")
  /\ records' = [records EXCEPT ![j] = "Cancelled"]
  /\ todo' = [todo EXCEPT ![t] = <<j>>]
  /\ Goto(t, "stopping")
  /\ UNCHANGED <<state, controlVars, future, queue, completed_order, runVars, lifeVars,
                 waiting, cur, res>>

\* The running jobs, in the unspecified order of outstanding_.
JobsToStop(running) ==
  CHOOSE order \in Bijection(1..Cardinality(running), running) : TRUE

\* n running jobs get their first stop request.
StatisticsAtShutdown(n) ==
  [statistics EXCEPT !["cancelled"] = @ + Len(queue), !["stopped"] = @ + n]

\* Shutdown, the section that takes the queue.
Shutdown(t) ==
  LET running == { j \in Jobs : state[j] = "running" }
      newly == { j \in running : ~stopRequested[j] }
      gone == Range(queue)
  IN /\ position[t] = "idle"
     /\ ~shutdown_complete /\ ~shutdown_in_progress
     /\ shutdown_in_progress' = TRUE /\ accepting' = FALSE /\ shutdownCalled' = TRUE
     /\ queue' = <<>>
     /\ state' = [j \in Jobs |-> IF j \in gone THEN "done" ELSE state[j]]
     /\ statistics' = StatisticsAtShutdown(Cardinality(newly))
     /\ stopRequested' = [j \in Jobs |-> stopRequested[j] \/ j \in running]
     /\ CompleteRecordsLocked(
          [j \in Jobs |-> IF j \in gone \cup running THEN "Cancelled" ELSE records[j]],
          queue, Outstanding \ gone)
     /\ todo' = [todo EXCEPT ![t] = queue \o JobsToStop(running)]
     /\ Goto(t, "shutdown")
     /\ UNCHANGED <<controlVars, future, runVars, shutdown_complete, stop_requested,
                    thrown, waiting, cur, res>>

ShutdownWaits(t) ==
  /\ \/ position[t] = "idle" /\ shutdown_in_progress
     \/ position[t] = "await" /\ t \notin waiting
  /\ ~shutdown_complete
  /\ Goto(t, "await") /\ waiting' = waiting \cup {t}
  /\ UNCHANGED <<jobVars, controlVars, future, queue, recordVars, statistics, runVars,
                 lifeVars, cur, res, todo>>

ShutdownWaitReturns(t) ==
  /\ position[t] = "await" /\ t \notin waiting /\ shutdown_complete
  /\ Goto(t, "idle")
  /\ UNCHANGED <<jobVars, controlVars, future, queue, recordVars, statistics, runVars,
                 lifeVars, waiting, cur, res, todo>>

\* RuntimeJobControl::RequestStop of the next job; a job that never ran also
\* gets its result (SetPromiseSafely).
RequestStop(t) ==
  LET j == Head(todo[t])
  IN /\ position[t] \in {"stopping", "shutdown"} /\ todo[t] # <<>>
     /\ cancelRequested' = [cancelRequested EXCEPT ![j] = TRUE]
     /\ paused' = [paused EXCEPT ![j] = FALSE]
     /\ future' = [future EXCEPT ![j] =
          IF state[j] = "done" /\ @ = "pending" /\ ~stopRequested[j] THEN "Cancelled" ELSE @]
     /\ todo' = [todo EXCEPT ![t] = Tail(@)]
     /\ Goto(t, IF Len(todo[t]) = 1 /\ position[t] = "stopping" THEN "notify" ELSE position[t])
     /\ UNCHANGED <<jobVars, queue, recordVars, statistics, runVars, lifeVars, waiting,
                    cur, res>>

StopWorkers(t) ==
  /\ position[t] = "shutdown" /\ todo[t] = <<>>
  /\ stop_requested' = TRUE /\ waiting' = {}
  /\ Goto(t, "join")
  /\ UNCHANGED <<jobVars, controlVars, future, queue, recordVars, statistics, runVars,
                 accepting, shutdown_in_progress, shutdown_complete, shutdownCalled,
                 thrown, cur, res, todo>>

FinishShutdown(t) ==
  /\ position[t] = "join" /\ \A w \in Workers : position[w] = "exited"
  /\ shutdown_complete' = TRUE /\ shutdown_in_progress' = FALSE
  /\ Goto(t, "notify")
  /\ UNCHANGED <<jobVars, controlVars, future, queue, recordVars, statistics, runVars,
                 accepting, stop_requested, shutdownCalled, thrown, waiting, cur, res, todo>>

NotifyAll(t) == waiting' = {}

NotifyWaiters(t) ==
  /\ position[t] = "notify"
  /\ NotifyAll(t)
  /\ Goto(t, IF t \in Workers THEN "wait" ELSE "idle")
  /\ UNCHANGED <<jobVars, controlVars, future, queue, recordVars, statistics, runVars,
                 lifeVars, cur, res, todo>>

-----------------------------------------------------------------------------
(* Workers: Run                                                            *)

WaitForWork(w) ==
  /\ position[w] = "wait" /\ w \notin waiting
  /\ ~HasSchedulableJobLocked /\ accepting /\ ~stop_requested
  /\ waiting' = waiting \cup {w}
  /\ UNCHANGED <<jobVars, controlVars, future, queue, recordVars, statistics, runVars,
                 lifeVars, threadVars>>

WorkerExits(w) ==
  /\ position[w] = "wait" /\ w \notin waiting
  /\ ~HasSchedulableJobLocked /\ (~accepting \/ stop_requested)
  /\ Goto(w, "exited")
  /\ UNCHANGED <<jobVars, controlVars, future, queue, recordVars, statistics, runVars,
                 lifeVars, waiting, cur, res, todo>>

StartJob(w) ==
  /\ position[w] = "wait" /\ w \notin waiting
  /\ \E i \in DOMAIN queue :
       /\ IsNextJob(i)
       /\ queue' = EraseAt(queue, i)
       /\ cur' = [cur EXCEPT ![w] = queue[i]]
       /\ state' = [state EXCEPT ![queue[i]] = "running"]
       /\ records' = [records EXCEPT ![queue[i]] = "Running"]
       /\ sequential_running' = (queue[i] \in Sequential)
  /\ running_count' = running_count + 1
  /\ statistics' = Count("started")
  /\ Goto(w, "callback")
  /\ UNCHANGED <<stopRequested, controlVars, future, completed_order, lifeVars, waiting,
                 res, todo>>

\* The callback calls WaitIfPaused, which returns when the job is not paused or
\* must stop.
WaitIfPaused(w) ==
  /\ \/ position[w] = "callback" /\ paused[cur[w]] /\ Goto(w, "pausedWait")
     \/ /\ position[w] = "pausedWait" /\ (~paused[cur[w]] \/ cancelRequested[cur[w]])
        /\ Goto(w, "callback")
  /\ UNCHANGED <<jobVars, controlVars, future, queue, recordVars, statistics, runVars,
                 lifeVars, waiting, cur, res, todo>>

\* The callback calls Shutdown: on a worker thread it only stops acceptance.
ShutdownFromCallback(w) ==
  /\ JobsMayShutDown /\ position[w] = "callback" /\ ~shutdown_complete
  /\ accepting' = FALSE /\ shutdownCalled' = TRUE
  /\ UNCHANGED <<jobVars, controlVars, future, queue, recordVars, statistics, runVars,
                 shutdown_in_progress, shutdown_complete, stop_requested, thrown, waiting,
                 threadVars>>

\* NormalizeResult, or the translation of an exception.
NormalizeResult(j, s) ==
  IF s = "throw" THEN "Failed"
  ELSE IF cancelRequested[j] THEN "Cancelled"
  ELSE IF s \in Terminal THEN s ELSE "Completed"

CallbackReturns(w) ==
  /\ position[w] = "callback"
  /\ \E s \in CallbackStates : res' = [res EXCEPT ![w] = NormalizeResult(cur[w], s)]
  /\ Goto(w, "complete")
  /\ UNCHANGED <<jobVars, controlVars, future, queue, recordVars, statistics, runVars,
                 lifeVars, waiting, cur, todo>>

\* Fault: the state a stop request left in the record is kept.
KeepsStopState(j, s) ==
  [records EXCEPT ![j] = IF @ \in Terminal THEN @ ELSE s]

FinalRecord(j, s) == [records EXCEPT ![j] = s]

CompleteJob(w) ==
  LET j == cur[w]
  IN /\ position[w] = "complete"
     /\ running_count' = IF running_count > 0 THEN running_count - 1 ELSE 0
     /\ sequential_running' = (sequential_running /\ j \notin Sequential)
     /\ state' = [state EXCEPT ![j] = "done"]
     /\ CompleteRecordsLocked(FinalRecord(j, res[w]), <<j>>, Outstanding \ {j})
     /\ statistics' = Count(CounterOf(res[w]))
     /\ Goto(w, "promise")
     /\ UNCHANGED <<stopRequested, controlVars, future, queue, lifeVars, waiting, cur, res, todo>>

SetPromiseSafely(w) ==
  /\ position[w] = "promise"
  /\ future' = [future EXCEPT ![cur[w]] = IF @ = "pending" THEN res[w] ELSE @]
  /\ Goto(w, "notify")
  /\ UNCHANGED <<jobVars, controlVars, queue, recordVars, statistics, runVars, lifeVars,
                 waiting, cur, res, todo>>

-----------------------------------------------------------------------------
ClientCall(t) ==
  \/ \E j \in Jobs : Submit(t, j) \/ SubmitThrows(t, j) \/ Pause(t, j) \/ Resume(t, j)
                       \/ StopQueued(t, j) \/ StopRunning(t, j)
  \/ SubmitRefused(t) \/ Shutdown(t) \/ ShutdownWaits(t)

Continue(t) ==
  RequestStop(t) \/ StopWorkers(t) \/ FinishShutdown(t) \/ ShutdownWaitReturns(t) \/ NotifyWaiters(t)

WorkerStep(w) ==
  \/ WorkerExits(w) \/ StartJob(w)
  \/ CallbackReturns(w) \/ CompleteJob(w) \/ SetPromiseSafely(w)

SchedulerWakeup ==
  /\ \E t \in waiting : waiting' = waiting \ {t}
  /\ UNCHANGED <<jobVars, controlVars, future, queue, recordVars, statistics, runVars,
                 lifeVars, threadVars>>

\* Nothing is left to do after shutdown.
ShutDown ==
  /\ shutdown_complete /\ \A t \in Clients : position[t] = "idle"
  /\ UNCHANGED schedulerVars

SchedulerNext ==
  \/ \E t \in Clients : ClientCall(t)
  \/ \E t \in Threads : Continue(t)
  \/ \E w \in Workers : \/ WorkerStep(w) \/ WaitForWork(w) \/ WaitIfPaused(w)
                        \/ ShutdownFromCallback(w)
  \/ SchedulerWakeup
  \/ ShutDown

SchedulerSpec == SchedulerInit /\ [][SchedulerNext]_schedulerVars
SchedulerFairSpec == /\ SchedulerSpec
            /\ \A t \in Threads : WF_schedulerVars(Continue(t))
            /\ \A w \in Workers : WF_schedulerVars(WorkerStep(w)) /\ WF_schedulerVars(WaitIfPaused(w))

-----------------------------------------------------------------------------
(* Properties                                                              *)

Places == {"idle", "notify", "stopping", "shutdown", "await", "join", "wait", "callback",
           "pausedWait", "complete", "promise", "exited"}

SchedulerTypeOK ==
  /\ state \in [Jobs -> {"new", "queued", "running", "done"}]
  /\ stopRequested \in [Jobs -> BOOLEAN] /\ paused \in [Jobs -> BOOLEAN]
  /\ cancelRequested \in [Jobs -> BOOLEAN]
  /\ records \in [Jobs -> Snapshots \cup {"none"}]
  /\ future \in [Jobs -> Terminal \cup {"pending"}]
  /\ queue \in Seq(Jobs) /\ completed_order \in Seq(Jobs)
  /\ statistics \in [Counters -> Nat]
  /\ running_count \in Nat /\ sequential_running \in BOOLEAN
  /\ position \in [Threads -> Places] /\ cur \in [Threads -> Jobs]
  /\ res \in [Threads -> Terminal \cup {"pending"}] /\ todo \in [Threads -> Seq(Jobs)]

Running == { j \in Jobs : state[j] = "running" }

\* A sequential job has the scheduler for itself while its callback runs
\* (docs/thread_safety.md: "Sequential jobs require exclusive scheduler
\* execution"), through every order of starts, pauses and stops.
SequentialRunsAlone ==
  /\ Running \cap Sequential # {} => Cardinality(Running) = 1
  /\ sequential_running = (Running \cap Sequential # {})

\* GetStatistics accounts for every accepted job: it waits, runs, or has been
\* counted under exactly one outcome.  The counters add up only up to the Submits
\* that threw, which the catch of Submit counts as failed and never as accepted.
JobsAreAccountedFor ==
  /\ running_count = Cardinality(Running)
  /\ statistics["accepted"] + thrown = Len(queue) + running_count
       + statistics["completed"] + statistics["cancelled"] + statistics["failed"]

\* What a retained snapshot and the handle's future say about a finished job is
\* the same, although Stop and Shutdown write the snapshot early.
SnapshotAgreesWithFuture ==
  \A j \in Jobs :
    (future[j] # "pending" /\ records[j] # "none" /\ state[j] = "done") =>
      records[j] = future[j]

\* Finished snapshots stay within maximumCompletedHistorySize (0: no limit), and an
\* outstanding job always has its snapshot (records_.at never throws).
HistoryBounded ==
  /\ \A j \in Outstanding : records[j] # "none"
  /\ MaximumCompletedHistorySize > 0 =>
       Cardinality({ j \in Jobs : state[j] = "done" /\ records[j] # "none" })
         <= MaximumCompletedHistorySize

JobsAreSound ==
  SequentialRunsAlone /\ JobsAreAccountedFor /\ SnapshotAgreesWithFuture /\ HistoryBounded

\* The inductive invariant.  The deque holds the queued jobs, each once; a worker inside
\* Run has a running job of its own.
QueueHoldsQueued ==
  /\ \A j \in Jobs : state[j] = "queued" <=> \E i \in DOMAIN queue : queue[i] = j
  /\ \A i, k \in DOMAIN queue : queue[i] = queue[k] => i = k

Executing(w) == position[w] \in {"callback", "pausedWait", "complete"}

RunningIsOwned ==
  /\ \A w \in Workers : Executing(w) => state[cur[w]] = "running"
  /\ \A v, w \in Workers : Executing(v) /\ Executing(w) /\ cur[v] = cur[w] => v = w

\* A snapshot that is not pruned is in completed_order_, which is pruned to its limit.
HistoryIsOrdered ==
  /\ \A j \in Jobs : state[j] = "new" => records[j] = "none"
  /\ \A j \in Outstanding : records[j] # "none"
  /\ \A j \in Jobs : (state[j] = "done" /\ records[j] # "none") => j \in Range(completed_order)
  /\ MaximumCompletedHistorySize > 0 => Len(completed_order) <= MaximumCompletedHistorySize

\* What will be written to the future of a finished job is what its snapshot says.
FutureIsForeseen ==
  /\ \A j \in Jobs : state[j] # "done" => future[j] = "pending"
  /\ \A w \in Workers : position[w] \in {"complete", "promise"} => res[w] \in Terminal
  /\ \A w \in Workers : position[w] = "promise" =>
       state[cur[w]] = "done" /\ records[cur[w]] \in {res[w], "none"}
  /\ \A t \in Threads : \A i \in DOMAIN todo[t] :
       \/ stopRequested[todo[t][i]]
       \/ state[todo[t][i]] = "done" /\ records[todo[t][i]] \in {"Cancelled", "none"}

SchedulerInv ==
  /\ SchedulerTypeOK /\ QueueHoldsQueued /\ RunningIsOwned /\ IsFiniteSet(Running)
  /\ SequentialRunsAlone /\ thrown \in Nat /\ JobsAreAccountedFor
  /\ HistoryIsOrdered /\ FutureIsForeseen /\ SnapshotAgreesWithFuture

\* Once clients leave no job paused, the future of every accepted job becomes
\* ready: neither a Resume nor the end of a sequential job is missed.  After a
\* Shutdown from a job callback, which cancels nothing and lets the workers exit,
\* this takes a Shutdown of another thread.
EveryJobResolves ==
  <>[](/\ \A j \in Jobs : ~paused[j]
       /\ shutdownCalled => shutdown_in_progress \/ shutdown_complete) =>
    \A j \in Jobs : (state[j] = "queued") ~> (future[j] # "pending")

\* Shutdown ends, also when a running job is blocked in WaitIfPaused, and so does
\* the wait of a thread that calls it meanwhile.
ShutdownEnds ==
  /\ shutdown_in_progress ~> shutdown_complete
  /\ \A t \in Clients : position[t] = "await" ~> position[t] = "idle"

\* ExecutionState.h says of isTerminal: "True when execution cannot progress
\* from the state"; so a snapshot with a terminal state would never change.
TerminalIsFinal ==
  [][\A j \in Jobs : records[j] \in Terminal => records'[j] \in {records[j], "none"}]_schedulerVars

\* runtime_scheduler.md: "Higher priority jobs start first": no job starts while
\* a job of higher priority waits (and is not paused).
HigherPriorityStartsFirst ==
  [][\A j, k \in Jobs :
       (state[j] = "queued" /\ state'[j] = "running" /\ state[k] = "queued" /\ ~paused[k])
         => Priority[k] <= Priority[j]]_schedulerVars

\* RuntimeScheduler.h: Shutdown "Stops accepting jobs, cancels queued jobs":
\* once it has been called no queued job starts.
NoStartAfterShutdown ==
  [][\A j \in Jobs :
       (state[j] = "queued" /\ state'[j] = "running") => ~shutdownCalled]_schedulerVars
=============================================================================

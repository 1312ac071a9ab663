-------------------------- MODULE BehaviorTreeRuntime --------------------------
(***************************************************************************)
(* src/bt/BehaviorTreeRuntime.cpp: the scheduler job that owns one tree,   *)
(* takes its resource, binds the tree to the job's execution context, and  *)
(* ticks it at intervals until it ends or the job is stopped.              *)
(*                                                                         *)
(* Scheduler, resource manager and tree have modules of their own and are  *)
(* here what ExecuteTree sees of them: a stop request (the job's           *)
(* cancellation source), a pause flag, a lease table and a tree status.    *)
(* Each step between two calls of ExecuteTree is an action, so that stop   *)
(* requests fall between any two of them.                                  *)
(***************************************************************************)
EXTENDS Integers, FiniteSets, FiniteSetsExt

CONSTANTS
  Jobs,       \* submitted trees
  Stopped,    \* the jobs somebody may stop
  Resource    \* [Jobs -> {"none", "try", "timed"}]: resourceId and resourceTimeout

VARIABLES
  pc,         \* where each job's callback is
  lease,      \* holders of the (exclusive) resource
  status,     \* the tree's status
  bound,      \* the tree's BTContext points to the job's execution context
  shut,       \* BehaviorTree::shutdown_
  result,     \* what the callback returned
  cancelled,  \* RuntimeJobControl::cancellation_, the job's cancellation source
  execution,  \* cancellation requested in RuntimeJobControl::execution_
  stopper,    \* where the thread that called RequestStop is
  registered, \* the wait's callback is registered with the source
  paused,
  late        \* history: ticks of the root that began after RequestStop did

controlVars == <<cancelled, execution, stopper, paused>>
vars == <<pc, lease, status, bound, shut, result, controlVars, registered, late>>

Terminal == {"Success", "Failure", "Aborted"}

\* The tree and its wait are alive in these places of ExecuteTree.
Inside == {"init", "check", "pause", "tick", "ticking", "interval", "falling", "asleep"}

\* Fault: the loop looks only at the flag that RequestStop raises second.
ReadsOnlyExecution(j) == execution[j]

\* RuntimeJobControl::IsCancellationRequested reads both flags ...
IsCancellationRequested(j) == cancelled[j] \/ execution[j]

\* ... BTContext::CancellationRequested only that of the context the tree is bound to.
CancellationRequested(j) == bound[j] /\ execution[j]

Init ==
  /\ pc = [j \in Jobs |-> "queued"]
  /\ lease = {}
  /\ status = [j \in Jobs |-> "Idle"]
  /\ bound = [j \in Jobs |-> FALSE]
  /\ shut = [j \in Jobs |-> FALSE]
  /\ result = [j \in Jobs |-> "none"]
  /\ cancelled = [j \in Jobs |-> FALSE]
  /\ execution = [j \in Jobs |-> FALSE]
  /\ stopper = [j \in Jobs |-> "idle"]
  /\ registered = [j \in Jobs |-> FALSE]
  /\ paused = [j \in Jobs |-> FALSE]
  /\ late = [j \in Jobs |-> 0]

\* NormalizeResult of the scheduler: a stopped job is Cancelled.
NormalizeResult(j, state) == IF IsCancellationRequested(j) THEN "Cancelled" ELSE state

\* Leaving ExecuteTree: the registration and the resource lock are destroyed.
Return(j, state) ==
  /\ result' = [result EXCEPT ![j] = NormalizeResult(j, state)]
  /\ pc' = [pc EXCEPT ![j] = "done"]
  /\ registered' = [registered EXCEPT ![j] = FALSE]
  /\ lease' = lease \ {j}
  /\ UNCHANGED <<bound, cancelled, stopper, paused, late>>

Goto(j, place) ==
  /\ pc' = [pc EXCEPT ![j] = place]
  /\ UNCHANGED <<lease, status, bound, shut, result, controlVars, registered, late>>

\* A scheduler worker invokes the callback; a job stopped before that is
\* never run.  The factory may have no creator for the root type.
Submit(j) ==
  /\ pc[j] = "queued"
  /\ IF cancelled[j]
     THEN Return(j, "Cancelled") /\ UNCHANGED <<status, shut, execution>>
     ELSE Goto(j, "acquire")

CreateTreeFails(j) ==
  /\ pc[j] = "queued" /\ ~cancelled[j] /\ Return(j, "Failed")
  /\ UNCHANGED <<status, shut, execution>>

Acquired(j) ==
  /\ pc' = [pc EXCEPT ![j] = "bind"]
  /\ lease' = IF Resource[j] = "none" THEN lease ELSE lease \cup {j}
  /\ UNCHANGED <<status, bound, shut, result, controlVars, registered, late>>

AcquireResource(j) ==
  /\ pc[j] = "acquire"
  /\ Resource[j] = "none" \/ lease = {}
  /\ Acquired(j)

\* A zero timeout fails at once when the resource is taken, a positive one
\* when the time is over.
AcquireFails(j) ==
  /\ pc[j] = "acquire" /\ Resource[j] # "none" /\ lease # {}
  /\ Return(j, "Failed")
  /\ UNCHANGED <<status, shut, execution>>

\* SetExecution, SetBlackboard and the registration of the interval wait.
Bind(j) ==
  /\ pc[j] = "bind"
  /\ bound' = [bound EXCEPT ![j] = TRUE]
  /\ registered' = [registered EXCEPT ![j] = ~cancelled[j]]
  /\ pc' = [pc EXCEPT ![j] = "init"]
  /\ UNCHANGED <<lease, status, shut, result, controlVars, late>>

Initialize(j, answer) ==
  /\ pc[j] = "init"
  /\ status' = [status EXCEPT ![j] = answer]
  /\ pc' = [pc EXCEPT ![j] = "check"]
  /\ UNCHANGED <<lease, bound, shut, result, controlVars, registered, late>>

TerminalResult(answer) ==
  CASE answer = "Success" -> "Completed"
    [] answer = "Failure" -> "Failed"
    [] answer = "Aborted" -> "Aborted"

LoopEnds(j) ==
  /\ pc[j] = "check" /\ status[j] \in Terminal
  /\ Return(j, TerminalResult(status[j]))
  /\ UNCHANGED <<status, shut, execution>>

\* A stop request found at the top of the loop or in WaitIfPaused.
StopSeen(j) ==
  /\ \/ pc[j] = "check" /\ status[j] \notin Terminal
     \/ pc[j] = "pause"
  /\ IsCancellationRequested(j)
  /\ execution' = [execution EXCEPT ![j] = TRUE]
  /\ shut' = [shut EXCEPT ![j] = TRUE]
  /\ status' = [status EXCEPT ![j] = IF @ = "Running" THEN "Aborted" ELSE @]
  /\ Return(j, "Cancelled")

LoopGoesOn(j) ==
  /\ pc[j] = "check" /\ status[j] \notin Terminal /\ ~IsCancellationRequested(j)
  /\ Goto(j, "pause")

WaitIfPaused(j) ==
  pc[j] = "pause" /\ ~paused[j] /\ ~IsCancellationRequested(j) /\ Goto(j, "tick")

\* BehaviorTree::Tick looks for cancellation in the context it is bound to, and ticks
\* the root if it finds none.
Tick(j) ==
  /\ pc[j] = "tick"
  /\ IF CancellationRequested(j)
     THEN /\ status' = [status EXCEPT ![j] = "Aborted"]
          /\ pc' = [pc EXCEPT ![j] = "check"]
          /\ UNCHANGED late
     ELSE /\ pc' = [pc EXCEPT ![j] = "ticking"]
          /\ late' = [late EXCEPT ![j] = IF stopper[j] = "idle" THEN @ ELSE @ + 1]
          /\ UNCHANGED status
  /\ UNCHANGED <<lease, bound, shut, result, controlVars, registered>>

\* The root's answer; a node that finds the cancellation answers Aborted.
TickReturns(j, answer) ==
  /\ pc[j] = "ticking"
  /\ answer = "Aborted" => CancellationRequested(j)
  /\ status' = [status EXCEPT ![j] = answer]
  /\ pc' = [pc EXCEPT ![j] = IF answer \in Terminal THEN "check" ELSE "interval"]
  /\ UNCHANGED <<lease, bound, shut, result, controlVars, registered, late>>

\* wait_for looks at its predicate, and only then goes to sleep.
WaitForPredicate(j) ==
  pc[j] = "interval" /\ Goto(j, IF IsCancellationRequested(j) THEN "check" ELSE "falling")

WaitForSleeps(j) == pc[j] = "falling" /\ Goto(j, "asleep")

WaitForTimesOut(j) == pc[j] = "asleep" /\ Goto(j, "check")

-----------------------------------------------------------------------------
(* Stop and pause requests *)

\* RequestStop begins with cancellation_.Cancel(), which selects the registered
\* callback under its lock.
RequestStop(j) ==
  /\ j \in Stopped
  /\ stopper[j] = "idle"
  /\ cancelled' = [cancelled EXCEPT ![j] = TRUE]
  /\ stopper' = [stopper EXCEPT ![j] = IF registered[j] THEN "selected" ELSE "cancelled"]
  /\ registered' = [registered EXCEPT ![j] = FALSE]
  /\ UNCHANGED <<pc, lease, status, bound, shut, result, execution, paused, late>>

\* The callback: wait_condition.notify_all(), without wait_mutex.
Notify(j) ==
  /\ stopper[j] = "selected"
  /\ stopper' = [stopper EXCEPT ![j] = "cancelled"]
  /\ pc' = [pc EXCEPT ![j] = IF @ = "asleep" THEN "check" ELSE @]
  /\ UNCHANGED <<lease, status, bound, shut, result, cancelled, execution, registered,
                 paused, late>>

\* Then execution_.RequestCancellation() ...
RequestCancellation(j) ==
  /\ stopper[j] = "cancelled"
  /\ execution' = [execution EXCEPT ![j] = TRUE]
  /\ stopper' = [stopper EXCEPT ![j] = "requested"]
  /\ UNCHANGED <<pc, lease, status, bound, shut, result, cancelled, registered, paused, late>>

\* ... and the section that ends a pause, whose waiters are notified.
ClearPause(j) ==
  /\ stopper[j] = "requested"
  /\ paused' = [paused EXCEPT ![j] = FALSE]
  /\ stopper' = [stopper EXCEPT ![j] = "over"]
  /\ UNCHANGED <<pc, lease, status, bound, shut, result, cancelled, execution, registered,
                 late>>

\* Pause and Resume, for a job whose record is not terminal yet.
SetPaused(j, value) ==
  /\ stopper[j] = "idle" /\ paused[j] # value
  /\ paused' = [paused EXCEPT ![j] = value]
  /\ UNCHANGED <<pc, lease, status, bound, shut, result, cancelled, execution, stopper,
                 registered, late>>

Run(j) ==
  \/ Submit(j) \/ CreateTreeFails(j) \/ AcquireResource(j) \/ AcquireFails(j) \/ Bind(j)
  \/ \E answer \in {"Idle", "Failure"} : Initialize(j, answer)
  \/ LoopEnds(j) \/ StopSeen(j) \/ LoopGoesOn(j) \/ WaitIfPaused(j)
  \/ Tick(j) \/ \E answer \in {"Running"} \cup Terminal : TickReturns(j, answer)
  \/ WaitForPredicate(j) \/ WaitForSleeps(j) \/ WaitForTimesOut(j)

\* The rest of RequestStop.
Stops(j) == Notify(j) \/ RequestCancellation(j) \/ ClearPause(j)

Next ==
  \E j \in Jobs : \/ Run(j) \/ RequestStop(j) \/ Stops(j)
                  \/ \E value \in BOOLEAN : SetPaused(j, value)

Spec == Init /\ [][Next]_vars

\* Workers keep running their callbacks, and a thread in RequestStop goes on.
FairSpec == Spec /\ \A j \in Jobs : WF_vars(Run(j)) /\ WF_vars(Stops(j))

-----------------------------------------------------------------------------
(* Properties *)

TypeOK ==
  /\ pc \in [Jobs -> {"queued", "acquire", "bind", "done"} \cup Inside]
  /\ lease \subseteq Jobs
  /\ status \in [Jobs -> {"Idle", "Running"} \cup Terminal]
  /\ result \in [Jobs -> {"none", "Completed", "Failed", "Aborted", "Cancelled"}]

\* Two trees that ask for the same exclusive resource are never alive at the
\* same time, and a finished job holds nothing: the lock spans ExecuteTree
\* from before the binding to every return.
LeaseSpansTheTree ==
  /\ Cardinality({ j \in Jobs : Resource[j] # "none" /\ pc[j] \in Inside }) <= 1
  /\ \A j \in lease : pc[j] \in {"bind"} \cup Inside

\* A job that ends Cancelled has either never started its tree, shut it down,
\* or seen it end by itself.
CancelledMeansClosed ==
  \A j \in Jobs : result[j] = "Cancelled" =>
    status[j] \in Terminal \/ shut[j] \/ ~bound[j]

\* RequestStop raises cancellation_ before execution_, and a tick looks only at the
\* second: at most one tick of the root begins after RequestStop did, since the loop
\* looks at both before it ticks again, and none begins once RequestStop has returned.
OneTickAfterStop ==
  /\ [](\A j \in Jobs : late[j] <= 1)
  /\ [][\A j \in Jobs : stopper[j] = "over" => late'[j] = late[j]]_vars

\* A stopped job ends: no pause, interval or resource wait keeps it.
StopEndsTheJob == \A j \in Jobs : cancelled[j] ~> pc[j] = "done"
=============================================================================

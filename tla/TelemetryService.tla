-------------------------- MODULE TelemetryService --------------------------
(***************************************************************************)
(* humanoid::services::TelemetryService (src/services/TelemetryService.cpp) *)
(* over core::RobotStateManager (src/core/RobotStateManager.cpp): a worker  *)
(* thread that publishes the robot's state to subscribed listeners.         *)
(*                                                                         *)
(* A state of the robot is the number of the update that wrote it.  Each    *)
(* Start that succeeds has a worker of its own number; worker is the one    *)
(* that worker_ owns.  A subscription has a number besides its identifier,  *)
(* because identifiers are used again.  One step is one critical section of *)
(* lifecycle_mutex_, listeners_mutex_ or the state manager's mutex, or one  *)
(* callback.                                                                *)
(***************************************************************************)
EXTENDS Integers, FiniteSets

CONSTANTS
  Clients,      \* threads that call Start and Stop
  ListenerCalls, \* the operations, of "Start" and "Stop", that listeners call
  MaxStarts,    \* bound on the workers ever started
  MaxSubs,      \* bound on the calls of Subscribe
  MaxId,        \* the largest SubscriptionId, 2^64 - 1 in the code
  MaxVersion    \* bound on the updates of the robot's state

TelemetryAssumption ==
  /\ MaxStarts \in Nat /\ MaxSubs \in Nat /\ MaxVersion \in Nat
  /\ MaxId \in Nat \ {0}
  /\ ListenerCalls \subseteq {"Start", "Stop"}

Threads == 1..MaxStarts
Subs == 1..MaxSubs
NoWorker == 0
Callers == Clients \cup Threads
kInvalidSubscriptionId == 0

VARIABLES
  state,                 \* RobotStateManager::state_
  stop_requested, worker, started,
  pc,                    \* where each worker is in Run
  stop_token,            \* the workers asked to stop through their token
  snapshot, pending,     \* a worker's copied state and the listeners to call
  joining,               \* the worker whose join a Stop call waits for
  listeners,             \* listeners_, a partial function from identifiers
  next_subscription_id,
  id,                    \* what the n-th Subscribe returned
  subscribed, live,      \* calls of Subscribe; those whose client has not unsubscribed
  seen, final            \* history: the last state a listener got, and how many it
                         \* got after its Unsubscribe

managerVars == state
lifeVars == <<stop_requested, worker, started>>
workerVars == <<pc, snapshot, pending>>
listenerVars == <<listeners, next_subscription_id, id, subscribed, live>>
historyVars == <<seen, final>>
vars == <<managerVars, lifeVars, stop_token, workerVars, joining, listenerVars, historyVars>>

Init ==
  /\ state = 0
  /\ stop_requested = FALSE /\ worker = NoWorker /\ started = 0
  /\ pc = [w \in Threads |-> "none"]
  /\ stop_token = {}
  /\ snapshot = [w \in Threads |-> 0]
  /\ pending = [w \in Threads |-> {}]
  /\ joining = [t \in Callers |-> NoWorker]
  /\ listeners = [i \in 1..MaxId |-> 0]
  /\ next_subscription_id = 1
  /\ id = [s \in Subs |-> kInvalidSubscriptionId]
  /\ subscribed = 0 /\ live = {}
  /\ seen = [s \in Subs |-> 0]
  /\ final = [s \in Subs |-> 0]

-----------------------------------------------------------------------------
(* RobotStateManager                                                       *)

\* UpdateState and Reset: the whole state is replaced.
UpdateState ==
  /\ state < MaxVersion
  /\ state' = state + 1
  /\ UNCHANGED <<lifeVars, stop_token, workerVars, joining, listenerVars, historyVars>>

-----------------------------------------------------------------------------
(* Start and Stop                                                          *)

\* A listener may call the service, from the worker that calls it.
InListener(w) == pc[w] = "publish" /\ pending[w] # {}
MayCall(t, op) ==
  joining[t] = NoWorker /\ (t \in Threads => InListener(t) /\ op \in ListenerCalls)

Start(t) ==
  /\ MayCall(t, "Start")
  /\ worker = NoWorker
  /\ started < MaxStarts
  /\ stop_requested' = FALSE
  /\ started' = started + 1
  /\ worker' = started + 1
  /\ pc' = [pc EXCEPT ![started + 1] = "check"]
  /\ UNCHANGED <<managerVars, stop_token, snapshot, pending, joining, listenerVars, historyVars>>

\* Start that cannot create a thread, and Stop with nothing to join.
StartFailsOrStopIdle(t) ==
  /\ MayCall(t, "Start") \/ MayCall(t, "Stop")
  /\ worker = NoWorker
  /\ stop_requested' = TRUE
  /\ UNCHANGED <<managerVars, worker, started, stop_token, workerVars, joining, listenerVars,
                 historyVars>>

\* Stop takes the worker over and joins it outside the mutex.
Stop(t) ==
  /\ MayCall(t, "Stop")
  /\ worker \notin {NoWorker, t}
  /\ stop_requested' = TRUE
  /\ stop_token' = stop_token \cup {worker}
  /\ joining' = [joining EXCEPT ![t] = worker]
  /\ worker' = NoWorker
  /\ UNCHANGED <<managerVars, started, workerVars, listenerVars, historyVars>>

\* Stop from a listener of that worker: it remains in worker_, asked to stop.
StopItself(t) ==
  /\ MayCall(t, "Stop")
  /\ worker = t
  /\ stop_requested' = TRUE
  /\ stop_token' = stop_token \cup {worker}
  /\ UNCHANGED <<managerVars, worker, started, workerVars, joining, listenerVars, historyVars>>

\* ~jthread of worker_to_join.
Joined(t) ==
  /\ joining[t] # NoWorker
  /\ pc[joining[t]] = "exited"
  /\ joining' = [joining EXCEPT ![t] = NoWorker]
  /\ UNCHANGED <<managerVars, lifeVars, stop_token, workerVars, listenerVars, historyVars>>

-----------------------------------------------------------------------------
(* Subscribe and Unsubscribe                                               *)

Succ(i) == IF i = MaxId THEN 1 ELSE i + 1

\* AllocateSubscriptionIdLocked: the first identifier not in use, from
\* next_subscription_id_ on and around.
AllocateSubscriptionIdLocked ==
  LET order == [n \in 1..MaxId |-> ((next_subscription_id + n - 2) % MaxId) + 1]
      free == {n \in 1..MaxId : listeners[order[n]] = 0}
  IN  IF free = {} THEN kInvalidSubscriptionId
      ELSE order[CHOOSE n \in free : \A m \in free : n <= m]

\* emplace leaves an existing listener in place, and may throw: the identifier is
\* then skipped.  A call that finds no identifier leaves next_subscription_id_ where
\* it was, after a whole round.
Subscribe ==
  /\ subscribed < MaxSubs
  /\ subscribed' = subscribed + 1
  /\ \E emplaced \in BOOLEAN :
       LET allocated == AllocateSubscriptionIdLocked
           i == IF emplaced THEN allocated ELSE kInvalidSubscriptionId
       IN
       /\ id' = [id EXCEPT ![subscribed + 1] = i]
       /\ listeners' = IF i # kInvalidSubscriptionId /\ listeners[i] = 0
                         THEN [listeners EXCEPT ![i] = subscribed + 1] ELSE listeners
       /\ live' = IF i # kInvalidSubscriptionId THEN live \cup {subscribed + 1} ELSE live
       /\ next_subscription_id' = IF allocated # kInvalidSubscriptionId
                                    THEN Succ(allocated) ELSE next_subscription_id
  /\ UNCHANGED <<managerVars, lifeVars, stop_token, workerVars, joining, historyVars>>

\* Fault: the listener stays in the map.
UnsubscribeWithoutErase(s) ==
  /\ s \in live
  /\ live' = live \ {s}
  /\ UNCHANGED <<managerVars, lifeVars, stop_token, workerVars, joining, listeners,
                 next_subscription_id, id, subscribed, historyVars>>

Unsubscribe(s) ==
  /\ s \in live
  /\ listeners' = [listeners EXCEPT ![id[s]] = 0]
  /\ live' = live \ {s}
  /\ UNCHANGED <<managerVars, lifeVars, stop_token, workerVars, joining, next_subscription_id,
                 id, subscribed, historyVars>>

-----------------------------------------------------------------------------
(* Run                                                                     *)

\* The loop's condition.
WorkerCheck(w) ==
  /\ pc[w] = "check"
  /\ pc' = [pc EXCEPT ![w] = IF w \in stop_token THEN "exited" ELSE "read"]
  /\ UNCHANGED <<managerVars, lifeVars, stop_token, snapshot, pending, joining, listenerVars,
                 historyVars>>

\* PublishCurrentState: the snapshot, the listeners, the callbacks.
ReadState(w) ==
  /\ pc[w] = "read"
  /\ snapshot' = [snapshot EXCEPT ![w] = state]
  /\ pc' = [pc EXCEPT ![w] = "copy"]
  /\ UNCHANGED <<managerVars, lifeVars, stop_token, pending, joining, listenerVars, historyVars>>

CopyListeners(w) ==
  /\ pc[w] = "copy"
  /\ pending' = [pending EXCEPT ![w] = {listeners[i] : i \in 1..MaxId} \ {0}]
  /\ pc' = [pc EXCEPT ![w] = "publish"]
  /\ UNCHANGED <<managerVars, lifeVars, stop_token, snapshot, joining, listenerVars, historyVars>>

\* One callback, in the unspecified order of the map; what it throws is caught.
Deliver(w, s) ==
  /\ pc[w] = "publish" /\ s \in pending[w] /\ joining[w] = NoWorker
  /\ pending' = [pending EXCEPT ![w] = @ \ {s}]
  /\ seen' = [seen EXCEPT ![s] = snapshot[w]]
  /\ final' = [final EXCEPT ![s] = IF s \in live THEN 0 ELSE @ + 1]
  /\ UNCHANGED <<managerVars, lifeVars, stop_token, pc, snapshot, joining, listenerVars>>

MustStop(w) == stop_requested \/ w \in stop_token

\* wait_for: the predicate is tested before the wait, and whenever the worker
\* wakes up, by a notification or after polling_interval_.
WorkerWait(w) ==
  /\ pc[w] = "publish" /\ pending[w] = {}
  /\ pc' = [pc EXCEPT ![w] = IF MustStop(w) THEN "exited" ELSE "waiting"]
  /\ UNCHANGED <<managerVars, lifeVars, stop_token, snapshot, pending, joining, listenerVars,
                 historyVars>>

WorkerWake(w) ==
  /\ pc[w] = "waiting"
  /\ pc' = [pc EXCEPT ![w] = IF MustStop(w) THEN "exited" ELSE "check"]
  /\ UNCHANGED <<managerVars, lifeVars, stop_token, snapshot, pending, joining, listenerVars,
                 historyVars>>

-----------------------------------------------------------------------------
WorkerStep(w) ==
  \/ WorkerCheck(w) \/ ReadState(w) \/ CopyListeners(w)
  \/ \E s \in Subs : Deliver(w, s)
  \/ WorkerWait(w) \/ WorkerWake(w)

Next ==
  \/ UpdateState
  \/ \E t \in Callers : \/ Start(t) \/ StartFailsOrStopIdle(t) \/ Stop(t) \/ StopItself(t)
                         \/ Joined(t)
  \/ Subscribe
  \/ \E s \in Subs : Unsubscribe(s)
  \/ \E w \in Threads : WorkerStep(w)

Spec == Init /\ [][Next]_vars

\* The workers keep running, their listeners return, and join returns when the
\* worker has exited.  Nobody has to call anything.
Fairness ==
  /\ \A w \in Threads : WF_vars(WorkerStep(w))
  /\ \A t \in Callers : WF_vars(Joined(t))

FairSpec == Spec /\ Fairness

-----------------------------------------------------------------------------
(* Properties                                                              *)

\* The variables have their types; in particular identifiers stay in their range.
TypeOK ==
  /\ state \in 0..MaxVersion
  /\ stop_requested \in BOOLEAN
  /\ worker \in Threads \cup {NoWorker} /\ started \in 0..MaxStarts
  /\ pc \in [Threads -> {"none", "check", "read", "copy", "publish", "waiting", "exited"}]
  /\ stop_token \in SUBSET Threads
  /\ snapshot \in [Threads -> 0..MaxVersion]
  /\ pending \in [Threads -> SUBSET Subs]
  /\ joining \in [Callers -> Threads \cup {NoWorker}]
  /\ listeners \in [1..MaxId -> Subs \cup {0}]
  /\ next_subscription_id \in 1..MaxId
  /\ id \in [Subs -> 0..MaxId]
  /\ subscribed \in 0..MaxSubs /\ live \in SUBSET Subs
  /\ seen \in [Subs -> 0..MaxVersion] /\ final \in [Subs -> Nat]

Running(w) == pc[w] \notin {"none", "exited"}

\* A worker that runs is owned: by worker_, or by the one Stop call that waits
\* for it.  So when no Stop is under way and worker_ is empty, nothing publishes,
\* and Start never loses a worker it cannot stop any more.
RunningWorkersAreOwned ==
  \A w \in Threads : Running(w) =>
    \/ worker = w
    \/ \E t \in Callers : joining[t] = w

\* Every identifier that Subscribe has returned and that was not given back leads
\* to that subscriber's listener, also after the identifiers have wrapped around:
\* no listener is silently dropped for another one.
IdentifiersAreDistinct == \A s \in live : listeners[id[s]] = s

\* The class documentation: "A callback may receive one final copied snapshot
\* after `Unsubscribe()` if publication was already in progress", and not more.
OneFinalSnapshot == \A s \in Subs : final[s] <= 1

\* A listener never gets an older state after a newer one.
StatesInOrder == [][\A s \in Subs : seen'[s] >= seen[s]]_vars

\* Stop returns, whichever Start or Stop other threads call meanwhile: the old
\* worker is stopped by its own token although Start has reset stop_requested_.
StopReturns == \A t \in Callers : (joining[t] # NoWorker) ~> (joining[t] = NoWorker)

\* While the service runs, every subscriber gets each state of the robot or a
\* later one.
StatePublished ==
  \A s \in Subs, v \in 0..MaxVersion :
    (s \in live /\ worker # NoWorker /\ state = v) ~>
      \/ seen[s] >= v \/ s \notin live
      \/ worker = NoWorker \/ worker \in stop_token \/ stop_requested
=============================================================================

------------------------- MODULE CommandQueueProofs -------------------------
(***************************************************************************)
(* The inductive invariant IInv of CommandQueue and the theorems that rest  *)
(* on it: for any callers, workers, commands and capacity.                  *)
(***************************************************************************)
EXTENDS CommandQueueSteps

-----------------------------------------------------------------------------
(* The index tasks_                                                        *)

\* The index and the work it indexes change together.
LEMMA IndexNext == IInv /\ [Next]_vars => IndexMatchesWork'
<1> SUFFICES ASSUME IInv, [Next]_vars PROVE IndexMatchesWork'
  OBVIOUS
<1>0. /\ IndexMatchesWork /\ submitted \in Nat
      /\ command \in [Tasks -> Commands \cup {NoCommand}]
      /\ state \in [Tasks -> {"Queued", "Running"}]
      /\ tasks \in [CommandIds -> Tasks \cup {NoTask}]
      /\ wtask \in [Workers -> Tasks \cup {NoTask}]
  BY DEF IInv, TypeOK
<1> DEFINE Indexed(id) == tasks[id] # NoTask =>
             /\ command[tasks[id]].id = id
             /\ tasks[id] \in Queued \/ \E w \in Workers : Busy(w) /\ wtask[w] = tasks[id]
           QueuedIndexed(k) == tasks[command[k].id] = k /\ state[k] = "Queued"
           RunningIndexed(w) == /\ tasks[command[wtask[w]].id] = wtask[w]
                                /\ state[wtask[w]] = "Running"
<1>a. /\ \A id \in CommandIds : Indexed(id)
      /\ \A k \in Queued : QueuedIndexed(k)
      /\ \A w \in Workers : Busy(w) => RunningIndexed(w)
  BY <1>0, Zenon DEF IndexMatchesWork
<1>b. /\ \A id \in CommandIds : Indexed(id)'
      /\ \A k \in Queued' : QueuedIndexed(k)'
      /\ \A w \in Workers : Busy(w)' => RunningIndexed(w)'
      => IndexMatchesWork'
  BY Zenon DEF IndexMatchesWork
<1>c. NoTask \notin Tasks /\ \A k \in Tasks : k <= submitted => k # submitted + 1
  BY <1>0, BoundsAreNat DEF Tasks, NoTask
<1>1. CASE Frame
  BY <1>0, <1>1 DEF Frame, IndexMatchesWork, Queued
<1>2. ASSUME NEW t \in Threads, NEW c \in Commands, Immediate(t, c) PROVE IndexMatchesWork'
  <2>1. /\ UNCHANGED <<state, queue, tasks, wpc, wtask>> /\ submitted + 1 \in Tasks
        /\ command' = [command EXCEPT ![submitted + 1] = c]
    BY <1>2, ImmediateEffect
  <2>2. \A k \in Tasks : k <= submitted => command'[k] = command[k]
    BY <1>0, <1>c, <2>1
  <2>3. Queued' = Queued /\ \A w \in Workers : Busy(w)' <=> Busy(w)
    BY <2>1 DEF Queued, Busy
  <2>4. \A w \in Workers : Busy(w) => command'[wtask[w]] = command[wtask[w]]
    BY <2>2, OwnedIsSubmitted, IndexedIsSubmitted
  <2>5. \A k \in Queued : command'[k] = command[k]
    BY <2>2, OwnedIsSubmitted
  <2>6. \A id \in CommandIds : tasks[id] # NoTask => command'[tasks[id]] = command[tasks[id]]
    BY <2>2, IndexedIsSubmitted
  <2>q. QED BY <1>0, <2>1, <2>3, <2>4, <2>5, <2>6 DEF IndexMatchesWork
<1>3. ASSUME NEW t \in Threads, NEW c \in Commands, EnqueueAccepted(t, c) PROVE IndexMatchesWork'
  <2>1. /\ UNCHANGED <<state, wpc, wtask>> /\ submitted + 1 \in Tasks
        /\ command' = [command EXCEPT ![submitted + 1] = c]
        /\ c.id \in CommandIds /\ tasks[c.id] = NoTask
        /\ tasks' = [tasks EXCEPT ![c.id] = submitted + 1]
    BY <1>3, AcceptEffect
  <2>2. /\ \A k \in Tasks : k <= submitted => command'[k] = command[k]
        /\ command'[submitted + 1] = c
    BY <1>0, <1>c, <2>1
  <2>3. Queued' = Queued \cup {submitted + 1} /\ \A w \in Workers : Busy(w)' <=> Busy(w)
    BY <1>3, <2>1, AcceptQueue DEF Busy
  <2>4. state[submitted + 1] = "Queued"
    BY <1>0, <2>1 DEF IInv, LocalsAreSet
  <2>5. \A id \in CommandIds : tasks'[id] = IF id = c.id THEN submitted + 1 ELSE tasks[id]
    BY <1>0, <2>1
  <2>6. \A w \in Workers : Busy(w)' => RunningIndexed(w)'
    <3> SUFFICES ASSUME NEW w \in Workers, Busy(w) PROVE RunningIndexed(w)'
      BY <2>3
    <3>1. /\ wtask[w] \in Tasks /\ wtask[w] <= submitted
          /\ command[wtask[w]].id \in CommandIds
      BY OwnedIsSubmitted, IndexedIsSubmitted
    <3>2. command[wtask[w]].id # c.id
      BY <1>a, <1>c, <2>1, <3>1
    <3>q. QED BY <1>a, <2>1, <2>2, <2>5, <3>1, <3>2
  <2>7. \A k \in Queued' : QueuedIndexed(k)'
    <3>1. tasks'[command'[submitted + 1].id] = submitted + 1 /\ state'[submitted + 1] = "Queued"
      <4>1. command'[submitted + 1].id = c.id
        BY <2>2
      <4>2. tasks'[c.id] = submitted + 1
        BY <2>1, <2>5
      <4>q. QED BY <2>1, <2>4, <4>1, <4>2, Zenon
    <3>2. ASSUME NEW k \in Queued PROVE QueuedIndexed(k)'
      <4>1. k \in Tasks /\ k <= submitted /\ command[k].id \in CommandIds
        BY OwnedIsSubmitted, IndexedIsSubmitted, Zenon
      <4>2. command[k].id # c.id
        BY <1>a, <1>c, <2>1, <4>1
      <4>3. command'[k] = command[k] /\ tasks'[command[k].id] = tasks[command[k].id]
        BY <2>2, <2>5, <4>1, <4>2
      <4>q. QED BY <1>a, <2>1, <4>3, Zenon
    <3>q. QED BY <2>3, <3>1, <3>2
  <2>8. ASSUME NEW id \in CommandIds PROVE Indexed(id)'
    <3>1. CASE id = c.id
      BY <2>1, <2>2, <2>3, <2>5, <3>1
    <3>2. CASE id # c.id
      BY <1>a, <2>1, <2>2, <2>3, <2>5, <3>2, IndexedIsSubmitted
    <3>q. QED BY <3>1, <3>2
  <2>q. QED BY <1>b, <2>6, <2>7, <2>8
<1>4. ASSUME NEW t \in Threads, NEW id \in CommandIds, Cancel(t, id) PROVE IndexMatchesWork'
  <2>1. /\ UNCHANGED <<command, state, wpc, wtask>> /\ tasks[id] \in Queued
        /\ command[tasks[id]].id = id /\ tasks' = [tasks EXCEPT ![id] = NoTask]
    BY <1>4, CancelEffect, Zenon
  <2>2. Queued' = Queued \ {tasks[id]} /\ \A w \in Workers : Busy(w)' <=> Busy(w)
    BY <1>4, <2>1, CancelQueue DEF Busy
  <2>3. \A j \in CommandIds : tasks'[j] = IF j = id THEN NoTask ELSE tasks[j]
    BY <1>0, <2>1
  <2>4. \A w \in Workers : Busy(w) => command[wtask[w]].id # id /\ command[wtask[w]].id \in CommandIds
    BY <1>a, <2>1, OwnedIsSubmitted, IndexedIsSubmitted
  <2>5. \A k \in Queued : k # tasks[id] => command[k].id # id /\ command[k].id \in CommandIds
    BY <1>a, OwnedIsSubmitted, IndexedIsSubmitted
  <2>6. \A w \in Workers : Busy(w)' => RunningIndexed(w)'
    BY <1>a, <2>1, <2>2, <2>3, <2>4
  <2>7. \A k \in Queued' : QueuedIndexed(k)'
    BY <1>a, <2>1, <2>2, <2>3, <2>5
  <2>8. ASSUME NEW j \in CommandIds PROVE Indexed(j)'
    <3>1. j # id /\ tasks[j] # NoTask => tasks[j] # tasks[id]
      BY <1>a, <2>1
    <3>q. QED BY <1>a, <2>1, <2>2, <2>3, <3>1
  <2>q. QED BY <1>b, <2>6, <2>7, <2>8, Zenon
<1>5. ASSUME NEW t \in Threads, CancelPublish(t) PROVE IndexMatchesWork'
  BY <1>0, <1>5, CancelPublishEffect DEF IndexMatchesWork, Queued, Busy
<1>6. ASSUME NEW t \in Threads, ShutdownBegin(t) PROVE IndexMatchesWork'
  <2>1. /\ UNCHANGED <<command, state, wpc, wtask>> /\ Queued' = {}
        /\ \A j \in CommandIds : tasks'[j] = IF tasks[j] \in Queued THEN NoTask ELSE tasks[j]
    BY <1>6, ShutdownBeginEffect
  <2>2. \A w \in Workers : Busy(w)' <=> Busy(w)
    BY <2>1 DEF Busy
  <2>3. \A w \in Workers : Busy(w) => wtask[w] \notin Queued /\ command[wtask[w]].id \in CommandIds
    BY <1>a, OwnedIsSubmitted, IndexedIsSubmitted, Zenon
  <2>4. \A w \in Workers : Busy(w)' => RunningIndexed(w)'
    BY <1>a, <2>1, <2>2, <2>3
  <2>5. \A j \in CommandIds : Indexed(j)'
    BY <1>a, <2>1, <2>2
  <2>q. QED BY <1>b, <2>1, <2>4, <2>5, Zenon
<1>7. ASSUME NEW t \in Threads, ShutdownPublish(t) PROVE IndexMatchesWork'
  <2>1. UNCHANGED <<command, state, queue, tasks, wpc, wtask>>
    BY <1>7, ShutdownPublishEffect, Zenon
  <2>q. QED BY <1>0, <2>1 DEF IndexMatchesWork, Queued, Busy
<1>8. ASSUME NEW w \in Workers, WorkerTake(w) PROVE IndexMatchesWork'
  <2>1. PICK k \in Queued : /\ k \in Tasks
                            /\ wtask' = [wtask EXCEPT ![w] = k]
                            /\ state' = [state EXCEPT ![k] = "Running"]
                            /\ Queued' = Queued \ {k}
    BY <1>8, TakeQueue
  <2>2. /\ UNCHANGED <<command, tasks>> /\ ~Busy(w)
        /\ \A v \in Workers : Busy(v)' <=> v = w \/ Busy(v)
    BY <1>8, TakeEffect
  <2>3. /\ \A v \in Workers : wtask'[v] = IF v = w THEN k ELSE wtask[v]
        /\ \A j \in Tasks : state'[j] = IF j = k THEN "Running" ELSE state[j]
    BY <1>0, <2>1
  <2>4. \A v \in Workers : Busy(v)' => RunningIndexed(v)'
    BY <1>a, <2>1, <2>2, <2>3, OwnedIsSubmitted, IndexedIsSubmitted
  <2>5. \A j \in Queued' : QueuedIndexed(j)'
    BY <1>a, <2>1, <2>2, <2>3, OwnedIsSubmitted
  <2>6. ASSUME NEW id \in CommandIds PROVE Indexed(id)'
    BY <1>a, <2>1, <2>2, <2>3
  <2>q. QED BY <1>b, <2>4, <2>5, <2>6
<1>9. ASSUME NEW w \in Workers, WorkerRecord(w) PROVE IndexMatchesWork'
  <2>1. /\ UNCHANGED <<command, state, queue, wtask>> /\ Busy(w)
        /\ tasks' = [tasks EXCEPT ![command[wtask[w]].id] = NoTask]
        /\ \A v \in Workers : Busy(v)' <=> v # w /\ Busy(v)
    BY <1>9, RecordEffect
  <2>2. \A j \in CommandIds : tasks'[j] = IF j = command[wtask[w]].id THEN NoTask ELSE tasks[j]
    BY <1>0, <2>1
  <2>3. \A v \in Workers : Busy(v) /\ v # w => wtask[v] # wtask[w]
    BY <2>1, IndexedIsSubmitted, Zenon DEF IInv, EveryPromiseHasOneOwner, OwnersAreDisjoint
  <2>4. Queued' = Queued
    BY <2>1 DEF Queued
  <2>5. \A v \in Workers : Busy(v)' => RunningIndexed(v)'
    <3> SUFFICES ASSUME NEW v \in Workers, Busy(v), v # w PROVE RunningIndexed(v)'
      BY <2>1
    <3>1. command[wtask[v]].id # command[wtask[w]].id /\ command[wtask[v]].id \in CommandIds
      BY <1>a, <2>1, <2>3, OwnedIsSubmitted, IndexedIsSubmitted
    <3>q. QED BY <1>a, <2>1, <2>2, <3>1
  <2>6. \A k \in Queued' : QueuedIndexed(k)'
    <3> SUFFICES ASSUME NEW k \in Queued PROVE QueuedIndexed(k)'
      BY <2>4
    <3>1. command[k].id # command[wtask[w]].id /\ command[k].id \in CommandIds
      BY <1>a, <2>1, OwnedIsSubmitted, IndexedIsSubmitted
    <3>q. QED BY <1>a, <2>1, <2>2, <3>1
  <2>7. \A j \in CommandIds : Indexed(j)'
    BY <1>a, <2>1, <2>2, <2>4
  <2>q. QED BY <1>b, <2>5, <2>6, <2>7
<1>10. ASSUME NEW w \in Workers, WorkerPublish(w) PROVE IndexMatchesWork'
  <2>1. UNCHANGED <<command, state, queue, tasks>>
    BY <1>10, PublishEffect, Zenon
  <2>2. \A v \in Workers : (Busy(v)' <=> Busy(v)) /\ (Busy(v) => wtask'[v] = wtask[v])
    BY <1>10, PublishEffect, Zenon
  <2>q. QED BY <1>0, <2>1, <2>2 DEF IndexMatchesWork, Queued
<1>q. QED
  BY <1>1, <1>2, <1>3, <1>4, <1>5, <1>6, <1>7, <1>8, <1>9, <1>10, StepCases, Zenon DEF IInv

-----------------------------------------------------------------------------
(* The deque                                                               *)

\* Only four actions touch queue_: Enqueue, Cancel, Shutdown and WorkerTake.
LEMMA QueueFrame ==
  ASSUME [Next]_vars
  PROVE  \/ UNCHANGED <<queue, highWatermark>>
         \/ \E t \in Threads, c \in Commands : EnqueueAccepted(t, c)
         \/ \E t \in Threads, id \in CommandIds : Cancel(t, id)
         \/ \E t \in Threads : ShutdownBegin(t)
         \/ \E w \in Workers : WorkerTake(w)
<1> USE DEF taskVars, indexVars, statVars, lifeVars, callVars, workerVars
<1>1. ASSUME NEW t \in Threads, NEW c \in Commands,
             EnqueueInvalid(t, c) \/ EnqueueRefused(t, c) \/ EnqueueThrows(t, c)
      PROVE  UNCHANGED <<queue, highWatermark>>
  BY <1>1 DEF EnqueueInvalid, EnqueueRefused, EnqueueThrows
<1>2. ASSUME NEW t \in Threads, CallStep(t) \/ ShutdownWait(t) \/ SpuriousWakeup(t)
      PROVE  UNCHANGED <<queue, highWatermark>>
  BY <1>2, Zenon DEF CallStep, EnqueueNotify, CancelPublish, ShutdownRecheck, ShutdownPublish,
     ShutdownStop, ShutdownJoined, ShutdownNotify, ShutdownWait, SpuriousWakeup
<1>3. ASSUME NEW w \in Workers, WorkerStep(w), ~WorkerTake(w)
      PROVE  UNCHANGED <<queue, highWatermark>>
  BY <1>3, Zenon DEF WorkerStep, WorkerStart, WorkerWait, WorkerExit, WorkerExpire,
     ExecutorCall, ExecutorReturn, WorkerRecord, WorkerPublish
<1>4. ASSUME NEW k \in Tasks, DeadlinePasses(k)
      PROVE  UNCHANGED <<queue, highWatermark>>
  BY <1>4 DEF DeadlinePasses
<1>5. UNCHANGED vars \/ Stopped => UNCHANGED <<queue, highWatermark>>
  BY DEF vars, Stopped
<1>q. QED BY <1>1, <1>2, <1>3, <1>4, <1>5 DEF Next, CallStart

\* The bound on the queue, its high-water mark and its order are kept.
LEMMA BoundedNext ==
  IInv /\ [Next]_vars => QueueBounded' /\ QueueInAcceptanceOrder'
<1> SUFFICES ASSUME IInv, [Next]_vars PROVE QueueBounded' /\ QueueInAcceptanceOrder'
  OBVIOUS
<1>0. /\ queue \in Seq(Tasks) /\ Len(queue) \in Nat /\ highWatermark \in Nat
      /\ MaximumQueueSize \in Nat /\ QueueBounded /\ QueueInAcceptanceOrder
  BY LengthFacts, BoundsAreNat DEF IInv, TypeOK
<1>1. CASE UNCHANGED <<queue, highWatermark>>
  BY <1>0, <1>1 DEF QueueBounded, QueueInAcceptanceOrder
<1>2. ASSUME NEW t \in Threads, NEW c \in Commands, EnqueueAccepted(t, c)
      PROVE  QueueBounded' /\ QueueInAcceptanceOrder'
  <2>1. Len(queue') = Len(queue) + 1 /\ QueueInAcceptanceOrder'
    BY <1>2, AcceptQueue
  <2>2. QueueBounded'
    BY <1>0, <1>2, <2>1 DEF QueueBounded, EnqueueAccepted, CanAccept
  <2>q. QED BY <2>1, <2>2
<1>3. ASSUME NEW t \in Threads, NEW id \in CommandIds, Cancel(t, id)
      PROVE  QueueBounded' /\ QueueInAcceptanceOrder'
  <2>1. Len(queue') <= Len(queue) /\ QueueInAcceptanceOrder' /\ UNCHANGED highWatermark
    BY <1>3, CancelQueue, Zenon DEF Cancel
  <2>2. Len(queue') \in Nat
    BY <1>3, TypeNext, LengthFacts DEF IInv, TypeOK
  <2>q. QED BY <1>0, <2>1, <2>2 DEF QueueBounded
<1>4. ASSUME NEW t \in Threads, ShutdownBegin(t)
      PROVE  QueueBounded' /\ QueueInAcceptanceOrder'
  <2>1. queue' = <<>> /\ UNCHANGED highWatermark
    BY <1>4 DEF ShutdownBegin
  <2>2. Len(queue') = 0 /\ Ascending(queue')
    BY <2>1, EmptyFacts, EmptyQueue, Zenon
  <2>q. QED BY <1>0, <2>1, <2>2 DEF QueueBounded, QueueInAcceptanceOrder, Ascending
<1>5. ASSUME NEW w \in Workers, WorkerTake(w)
      PROVE  QueueBounded' /\ QueueInAcceptanceOrder'
  <2>1. Len(queue') <= Len(queue) /\ QueueInAcceptanceOrder' /\ UNCHANGED highWatermark
    BY <1>5, TakeQueue, Zenon DEF WorkerTake
  <2>2. Len(queue') \in Nat
    BY <1>5, TypeNext, LengthFacts DEF IInv, TypeOK
  <2>q. QED BY <1>0, <2>1, <2>2 DEF QueueBounded
<1>q. QED BY <1>1, <1>2, <1>3, <1>4, <1>5, QueueFrame

-----------------------------------------------------------------------------
(* Calls and shutdown                                                      *)

LEMMA CallersAreNotWorkers == Callers \cap Workers = {}
  BY QueueAssumption

\* The calling discipline is kept.
LEMMA CallProtocolNext == IInv /\ [Next]_vars => CallProtocol'
<1> SUFFICES ASSUME IInv, [Next]_vars PROVE CallProtocol'
  OBVIOUS
<1>0. /\ CallProtocol
      /\ call \in [Threads -> CallStates] /\ cancelled \in [Threads -> SUBSET Tasks]
      /\ wpc \in [Workers -> WorkerStates] /\ waiting \in SUBSET Threads
      /\ worker_ids \in SUBSET Workers
  BY DEF IInv, TypeOK
<1>t. Threads = Callers \cup Workers /\ Callers \cap Workers = {}
  BY CallersAreNotWorkers DEF Threads
<1> USE DEF taskVars, indexVars, statVars, lifeVars, callVars, workerVars
<1>u. /\ UNCHANGED <<call, cancelled, wpc, accepting, shutdown_in_progress, shutdown_complete,
                    queue, worker_ids, stop_requested>>
      /\ waiting' \subseteq waiting
      => CallProtocol'
  BY <1>0 DEF CallProtocol
<1>1. ASSUME NEW t \in Threads, NEW c \in Commands, EnqueueInvalid(t, c) PROVE CallProtocol'
  BY <1>u, <1>1, Zenon DEF EnqueueInvalid
<1>2. ASSUME NEW t \in Threads, NEW c \in Commands,
             EnqueueRefused(t, c) \/ EnqueueThrows(t, c)
      PROVE  CallProtocol'
  BY <1>u, <1>2, Zenon DEF EnqueueRefused, EnqueueThrows
<1>3. ASSUME NEW t \in Threads, NEW c \in Commands, EnqueueAccepted(t, c) PROVE CallProtocol'
  BY <1>0, <1>t, <1>3 DEF CallProtocol, EnqueueAccepted, MayCall, IsWorkerThread, NewTask, CanAccept
<1>4. ASSUME NEW t \in Threads, EnqueueNotify(t) PROVE CallProtocol'
  BY SMTT(30), <1>0, <1>t, <1>4 DEF CallProtocol, EnqueueNotify, MayCall, IsWorkerThread, NotifyOne
<1>5. ASSUME NEW t \in Threads, NEW id \in CommandIds, Cancel(t, id) PROVE CallProtocol'
  BY <1>0, <1>t, <1>5 DEF CallProtocol, Cancel, MayCall, IsWorkerThread
<1>6. ASSUME NEW t \in Threads, CancelPublish(t) PROVE CallProtocol'
  BY <1>0, <1>t, <1>6 DEF CallProtocol, CancelPublish, MayCall, IsWorkerThread, Fulfil, NotifyAll
<1>7. ASSUME NEW t \in Threads, ShutdownBegin(t) PROVE CallProtocol'
  BY <1>0, <1>t, <1>7 DEF CallProtocol, ShutdownBegin, MayCall, IsWorkerThread, MayShutdown
<1>8. ASSUME NEW t \in Threads, ShutdownWait(t) PROVE CallProtocol'
  BY SMTT(30), <1>0, <1>t, <1>8 DEF CallProtocol, ShutdownWait, MayCall, IsWorkerThread, MayShutdown
<1>9. ASSUME NEW t \in Threads, ShutdownRecheck(t) PROVE CallProtocol'
  BY <1>0, <1>t, <1>9 DEF CallProtocol, ShutdownRecheck, MayCall, IsWorkerThread
<1>10. ASSUME NEW t \in Threads, ShutdownPublish(t) PROVE CallProtocol'
  BY <1>0, <1>t, <1>10 DEF CallProtocol, ShutdownPublish, MayCall, IsWorkerThread, Fulfil
<1>11. ASSUME NEW t \in Threads, ShutdownStop(t) PROVE CallProtocol'
  BY <1>0, <1>t, <1>11 DEF CallProtocol, ShutdownStop, MayCall, IsWorkerThread, NotifyAll
<1>12. ASSUME NEW t \in Threads, ShutdownJoined(t) PROVE CallProtocol'
  BY <1>0, <1>t, <1>12 DEF CallProtocol, ShutdownJoined, MayCall, IsWorkerThread
<1>13. ASSUME NEW t \in Threads, ShutdownNotify(t) PROVE CallProtocol'
  BY <1>0, <1>t, <1>13 DEF CallProtocol, ShutdownNotify, MayCall, IsWorkerThread, NotifyAll
<1>14. ASSUME NEW w \in Workers, WorkerStart(w) PROVE CallProtocol'
  BY <1>0, <1>t, <1>14 DEF CallProtocol, WorkerStart, MayCall, IsWorkerThread
<1>15. ASSUME NEW w \in Workers, WorkerWait(w) PROVE CallProtocol'
  BY <1>0, <1>t, <1>15 DEF CallProtocol, WorkerWait, MayCall, IsWorkerThread, WorkAvailable
<1>16. ASSUME NEW w \in Workers, WorkerExit(w) PROVE CallProtocol'
  BY <1>0, <1>t, <1>16 DEF CallProtocol, WorkerExit, MayCall, IsWorkerThread
<1>17. ASSUME NEW w \in Workers, WorkerTake(w) PROVE CallProtocol'
  BY <1>0, <1>t, <1>17 DEF CallProtocol, WorkerTake, MayCall, IsWorkerThread
<1>18. ASSUME NEW w \in Workers, WorkerExpire(w) PROVE CallProtocol'
  BY <1>0, <1>t, <1>18 DEF CallProtocol, WorkerExpire, MayCall, IsWorkerThread
<1>19. ASSUME NEW w \in Workers, ExecutorCall(w) PROVE CallProtocol'
  BY <1>0, <1>t, <1>19 DEF CallProtocol, ExecutorCall, MayCall, IsWorkerThread
<1>20. ASSUME NEW w \in Workers, NEW s \in ExecutorResults, ExecutorReturn(w, s) PROVE CallProtocol'
  BY <1>0, <1>t, <1>20, ZenonT(30) DEF CallProtocol, ExecutorReturn, MayCall, IsWorkerThread, NormalizedResult
<1>21. ASSUME NEW w \in Workers, WorkerRecord(w) PROVE CallProtocol'
  BY SMTT(30), <1>0, <1>t, <1>21 DEF CallProtocol, WorkerRecord, MayCall, IsWorkerThread, RecordResultLocked
<1>22. ASSUME NEW w \in Workers, WorkerPublish(w) PROVE CallProtocol'
  BY <1>0, <1>t, <1>22 DEF CallProtocol, WorkerPublish, MayCall, IsWorkerThread, NotifyAll, Fulfil
<1>23. ASSUME NEW k \in Tasks, DeadlinePasses(k) PROVE CallProtocol'
  BY <1>u, <1>23, Zenon DEF DeadlinePasses
<1>24. ASSUME NEW t \in Threads, SpuriousWakeup(t) PROVE CallProtocol'
  BY <1>u, <1>24, Zenon DEF SpuriousWakeup
<1>30. UNCHANGED vars \/ Stopped => CallProtocol'
  BY <1>u, Zenon DEF vars, Stopped
<1>q. QED
  BY <1>1, <1>2, <1>3, <1>4, <1>5, <1>6, <1>7, <1>8, <1>9, <1>10, <1>11, <1>12, <1>13,
     <1>14, <1>15, <1>16, <1>17, <1>18, <1>19, <1>20, <1>21, <1>22, <1>23, <1>24, <1>30, Zenon
     DEF Next, CallStart, CallStep, WorkerStep

\* Shutdown leaves nothing behind.  Once it has completed no worker runs, so
\* only refused submissions, the tail of a Cancel and returning calls remain.
LEMMA QuiescentNext == IInv /\ [Next]_vars => ShutdownIsQuiescent'
<1> SUFFICES ASSUME IInv, [Next]_vars, shutdown_complete' PROVE ShutdownIsQuiescent'
  BY Zenon DEF ShutdownIsQuiescent
<1>0. /\ call \in [Threads -> CallStates] /\ cancelled \in [Threads -> SUBSET Tasks]
      /\ wpc \in [Workers -> WorkerStates]
      /\ CallProtocol /\ ShutdownIsQuiescent /\ PendingIsOwned
  BY DEF IInv, TypeOK, EveryPromiseHasOneOwner
<1> USE DEF taskVars, indexVars, statVars, lifeVars, callVars, workerVars
<1>u. /\ UNCHANGED <<queue, tasks, accepting, shutdown_complete, wpc, submitted, future, cancelled>>
      /\ \A t \in Threads : call[t] = "cancelPublish" => call'[t] = "cancelPublish"
      => ShutdownIsQuiescent'
  BY <1>0 DEF ShutdownIsQuiescent
<1>w. shutdown_complete => \A w \in Workers : wpc[w] = "exited"
  BY <1>0 DEF ShutdownIsQuiescent
<1>1. ASSUME NEW t \in Threads, NEW c \in Commands, EnqueueInvalid(t, c) PROVE ShutdownIsQuiescent'
  <2>1. Immediate(t, c)
    BY <1>1, Zenon DEF Immediate
  <2>2. /\ submitted \in Nat /\ submitted + 1 \in Tasks /\ submitted' = submitted + 1
        /\ \E s \in TerminalStatuses : Fulfil({submitted + 1}, s)
        /\ UNCHANGED <<queue, tasks, cancelled, wpc>>
    BY <2>1, ImmediateEffect
  <2>3. UNCHANGED <<accepting, shutdown_complete, call>>
    BY <1>1, Zenon DEF EnqueueInvalid
  <2>4. \A k \in Tasks : (k <= submitted' /\ future'[k] = "Pending")
                          => (k <= submitted /\ future[k] = "Pending")
    BY <2>2 DEF Fulfil, TerminalStatuses, Tasks
  <2>q. QED BY <1>0, <2>2, <2>3, <2>4 DEF ShutdownIsQuiescent
<1>2. ASSUME NEW t \in Threads, NEW c \in Commands,
             EnqueueRefused(t, c) \/ EnqueueThrows(t, c)
      PROVE  ShutdownIsQuiescent'
  <2>1. Immediate(t, c)
    BY <1>2, Zenon DEF Immediate
  <2>2. /\ submitted \in Nat /\ submitted + 1 \in Tasks /\ submitted' = submitted + 1
        /\ \E s \in TerminalStatuses : Fulfil({submitted + 1}, s)
        /\ UNCHANGED <<queue, tasks, cancelled, wpc>>
    BY <2>1, ImmediateEffect
  <2>3. UNCHANGED <<accepting, shutdown_complete, call>>
    BY <1>2, Zenon DEF EnqueueRefused, EnqueueThrows
  <2>4. \A k \in Tasks : (k <= submitted' /\ future'[k] = "Pending")
                          => (k <= submitted /\ future[k] = "Pending")
    BY <2>2 DEF Fulfil, TerminalStatuses, Tasks
  <2>q. QED BY <1>0, <2>2, <2>3, <2>4 DEF ShutdownIsQuiescent
<1>3. ASSUME NEW t \in Threads, NEW c \in Commands, EnqueueAccepted(t, c) PROVE ShutdownIsQuiescent'
  BY <1>0, <1>3 DEF ShutdownIsQuiescent, CallProtocol, EnqueueAccepted, MayShutdown, CanAccept, Fulfil
<1>4. ASSUME NEW t \in Threads, EnqueueNotify(t) PROVE ShutdownIsQuiescent'
  BY <1>u, <1>0, <1>4, ZenonT(30) DEF EnqueueNotify
<1>5. ASSUME NEW t \in Threads, NEW id \in CommandIds, Cancel(t, id) PROVE ShutdownIsQuiescent'
  BY <1>0, <1>5 DEF ShutdownIsQuiescent, CallProtocol, Cancel, MayShutdown, CanAccept, Fulfil
<1>6. ASSUME NEW t \in Threads, CancelPublish(t) PROVE ShutdownIsQuiescent'
  BY <1>0, <1>6 DEF ShutdownIsQuiescent, CallProtocol, CancelPublish, MayShutdown, CanAccept, Fulfil
<1>7. ASSUME NEW t \in Threads, ShutdownBegin(t) PROVE ShutdownIsQuiescent'
  BY <1>0, <1>7 DEF ShutdownIsQuiescent, CallProtocol, ShutdownBegin, MayShutdown, CanAccept, Fulfil
<1>8. ASSUME NEW t \in Threads, ShutdownWait(t) PROVE ShutdownIsQuiescent'
  BY <1>u, <1>0, <1>8 DEF ShutdownWait, MayShutdown
<1>9. ASSUME NEW t \in Threads, ShutdownRecheck(t) PROVE ShutdownIsQuiescent'
  BY <1>u, <1>0, <1>9, Zenon DEF ShutdownRecheck
<1>10. ASSUME NEW t \in Threads, ShutdownPublish(t) PROVE ShutdownIsQuiescent'
  BY <1>0, <1>10 DEF ShutdownIsQuiescent, CallProtocol, ShutdownPublish, MayShutdown, CanAccept, Fulfil
<1>11. ASSUME NEW t \in Threads, ShutdownStop(t) PROVE ShutdownIsQuiescent'
  BY <1>u, <1>0, <1>11, Zenon DEF ShutdownStop
<1>12. ASSUME NEW t \in Threads, ShutdownJoined(t) PROVE ShutdownIsQuiescent'
  <2>1. /\ UNCHANGED <<submitted, future, queue, tasks, accepting, wpc, cancelled>>
        /\ call' = [call EXCEPT ![t] = "shutdownNotify"]
        /\ call[t] = "shutdownJoin"
        /\ \A w \in Workers : wpc[w] = "exited"
    BY <1>12 DEF ShutdownJoined
  <2>2. ~accepting /\ queue = <<>>
    BY <1>0, <2>1 DEF CallProtocol
  <2>3. Queued = {}
    BY <2>2, EmptyQueue, Zenon DEF Queued, IInv, TypeOK
  <2>4. \A id \in CommandIds : tasks[id] = NoTask
    BY <2>1, <2>3 DEF IInv, IndexMatchesWork, Busy
  <2>5. \A k \in Tasks : k <= submitted /\ future[k] = "Pending" =>
                          \E u \in Threads : k \in cancelled[u]
    BY <1>0, <2>1, <2>3 DEF PendingIsOwned, HoldsTask
  <2>6. \A u \in Threads : cancelled[u] # {} => call[u] = "cancelPublish" /\ u # t
    BY <1>0, <2>1 DEF CallProtocol
  <2>q. QED BY <1>0, <2>1, <2>2, <2>4, <2>5, <2>6 DEF ShutdownIsQuiescent
<1>13. ASSUME NEW t \in Threads, ShutdownNotify(t) PROVE ShutdownIsQuiescent'
  BY <1>u, <1>0, <1>13, Zenon DEF ShutdownNotify
<1>14. ASSUME NEW w \in Workers, WorkerStart(w) PROVE ShutdownIsQuiescent'
  BY <1>w, <1>14 DEF WorkerStart
<1>15. ASSUME NEW w \in Workers, WorkerWait(w) PROVE ShutdownIsQuiescent'
  BY <1>w, <1>15 DEF WorkerWait
<1>16. ASSUME NEW w \in Workers, WorkerExit(w) PROVE ShutdownIsQuiescent'
  BY <1>w, <1>16 DEF WorkerExit
<1>17. ASSUME NEW w \in Workers, WorkerTake(w) PROVE ShutdownIsQuiescent'
  BY <1>w, <1>17 DEF WorkerTake
<1>18. ASSUME NEW w \in Workers, WorkerExpire(w) PROVE ShutdownIsQuiescent'
  BY <1>w, <1>18 DEF WorkerExpire
<1>19. ASSUME NEW w \in Workers, ExecutorCall(w) PROVE ShutdownIsQuiescent'
  BY <1>w, <1>19 DEF ExecutorCall
<1>20. ASSUME NEW w \in Workers, NEW s \in ExecutorResults, ExecutorReturn(w, s) PROVE ShutdownIsQuiescent'
  BY <1>w, <1>20 DEF ExecutorReturn
<1>21. ASSUME NEW w \in Workers, WorkerRecord(w) PROVE ShutdownIsQuiescent'
  BY <1>w, <1>21 DEF WorkerRecord
<1>22. ASSUME NEW w \in Workers, WorkerPublish(w) PROVE ShutdownIsQuiescent'
  BY <1>w, <1>22 DEF WorkerPublish
<1>23. ASSUME NEW k \in Tasks, DeadlinePasses(k) PROVE ShutdownIsQuiescent'
  BY <1>u, <1>23, Zenon DEF DeadlinePasses
<1>24. ASSUME NEW t \in Threads, SpuriousWakeup(t) PROVE ShutdownIsQuiescent'
  BY <1>u, <1>24, Zenon DEF SpuriousWakeup
<1>30. UNCHANGED vars \/ Stopped => ShutdownIsQuiescent'
  BY <1>u, Zenon DEF vars, Stopped
<1>q. QED
  BY <1>1, <1>2, <1>3, <1>4, <1>5, <1>6, <1>7, <1>8, <1>9, <1>10, <1>11, <1>12, <1>13,
     <1>14, <1>15, <1>16, <1>17, <1>18, <1>19, <1>20, <1>21, <1>22, <1>23, <1>24, <1>30, Zenon
     DEF Next, CallStart, CallStep, WorkerStep

\* A worker reaches the recording and publishing steps with a result.
LEMMA ResultNext == IInv /\ [Next]_vars => ResultIsSet'
<1> SUFFICES ASSUME IInv, [Next]_vars PROVE ResultIsSet'
  OBVIOUS
<1>0. /\ wpc \in [Workers -> WorkerStates]
      /\ wresult \in [Workers -> TerminalStatuses \cup {"Pending"}]
      /\ ResultIsSet
  BY DEF IInv, TypeOK
<1> USE DEF taskVars, indexVars, statVars, lifeVars, callVars, workerVars
<1>1. UNCHANGED <<wpc, wresult>> => ResultIsSet'
  BY <1>0, Zenon DEF ResultIsSet
<1>2. ASSUME NEW w \in Workers, WorkerStep(w) PROVE ResultIsSet'
  <2>1. CASE WorkerStart(w) \/ WorkerWait(w) \/ WorkerExit(w) \/ WorkerTake(w) \/ ExecutorCall(w)
    BY <1>0, <2>1 DEF ResultIsSet, WorkerStart, WorkerWait, WorkerExit, WorkerTake, ExecutorCall
  <2>2. CASE WorkerExpire(w)
    BY <1>0, <2>2 DEF ResultIsSet, WorkerExpire
  <2>3. ASSUME NEW s \in ExecutorResults, ExecutorReturn(w, s) PROVE ResultIsSet'
    <3>1. NormalizedResult(wtask[w], s) # "Pending"
      BY SMTT(20) DEF NormalizedResult, NonterminalStatuses
    <3>q. QED BY <1>0, <2>3, <3>1, Zenon DEF ResultIsSet, ExecutorReturn
  <2>4. CASE WorkerRecord(w)
    BY <1>0, <2>4, Zenon DEF ResultIsSet, WorkerRecord
  <2>5. CASE WorkerPublish(w)
    BY <1>0, <2>5 DEF ResultIsSet, WorkerPublish
  <2>q. QED BY SMTT(30), <1>2, <2>1, <2>2, <2>3, <2>4, <2>5 DEF WorkerStep
<1>3. ASSUME NEW t \in Threads, CallStart(t) \/ CallStep(t) \/ SpuriousWakeup(t)
      PROVE  UNCHANGED <<wpc, wresult>>
  BY <1>3, Zenon DEF CallStart, CallStep, EnqueueInvalid, EnqueueRefused, EnqueueThrows, EnqueueAccepted,
     EnqueueNotify, Cancel, CancelPublish, ShutdownBegin, ShutdownWait, ShutdownRecheck,
     ShutdownPublish, ShutdownStop, ShutdownJoined, ShutdownNotify, SpuriousWakeup
<1>4. ASSUME NEW k \in Tasks, DeadlinePasses(k) PROVE UNCHANGED <<wpc, wresult>>
  BY <1>4 DEF DeadlinePasses
<1>5. UNCHANGED vars \/ Stopped => UNCHANGED <<wpc, wresult>>
  BY DEF vars, Stopped
<1>q. QED BY <1>1, <1>2, <1>3, <1>4, <1>5 DEF Next

-----------------------------------------------------------------------------
(* The invariant and its consequences                                      *)

LEMMA InvInit == Init => IInv
<1> SUFFICES ASSUME Init PROVE IInv
  OBVIOUS
<1>1. TypeOK
  BY TypeInit
<1>2. queue = <<>> /\ Queued = {} /\ IsInjective(queue) /\ Ascending(queue) /\ Len(queue) = 0
  BY EmptyQueue, EmptyFacts, Zenon DEF Init, Queued
<1>3. \A w \in Workers : ~HoldsTask(w) /\ ~Busy(w)
  BY DEF Init, HoldsTask, Busy
<1>4. QueueBounded /\ QueueInAcceptanceOrder
  <2>1. highWatermark = 0 /\ 0 <= MaximumQueueSize
    BY BoundsAreNat DEF Init
  <2>q. QED BY <1>2, <2>1 DEF QueueBounded, QueueInAcceptanceOrder, Ascending
<1>5. CallProtocol
  <2>1. /\ waiting = {} /\ worker_ids = {} /\ accepting /\ ~shutdown_in_progress
        /\ ~shutdown_complete /\ ~stop_requested
    BY DEF Init
  <2>2. /\ \A t \in Threads : call[t] = "idle" /\ cancelled[t] = {}
        /\ \A w \in Workers : wpc[w] = "starting" /\ w \in Threads
    BY DEF Init, Threads
  <2>q. QED BY <2>1, <2>2 DEF CallProtocol
<1>6. LocalsAreSet
  <2>1. submitted = 0 /\ 1..submitted = {} /\ \A k \in Tasks : state[k] = "Queued"
    BY DEF Init
  <2>2. \A w \in Workers : wpc[w] = "starting"
    BY DEF Init
  <2>q. QED BY <1>3, <2>1, <2>2 DEF LocalsAreSet
<1>7. IndexMatchesWork
  BY <1>2, <1>3 DEF Init, IndexMatchesWork
<1>8. EveryPromiseHasOneOwner
  <2>1. \A k \in Tasks : ~(k <= submitted) /\ future[k] = "Pending"
    BY DEF Init, Tasks
  <2>2. \A t \in Threads : cancelled[t] = {}
    BY DEF Init
  <2>q. QED BY <1>2, <1>3, <2>1, <2>2, Zenon
            DEF EveryPromiseHasOneOwner, PendingIsOwned, OwnersAreDisjoint
<1>9. ShutdownIsQuiescent
  BY DEF Init, ShutdownIsQuiescent
<1>10. ResultIsSet
  BY DEF Init, ResultIsSet
<1>q. QED BY <1>1, <1>4, <1>5, <1>6, <1>7, <1>8, <1>9, <1>10 DEF IInv

LEMMA InvNext == IInv /\ [Next]_vars => IInv'
  BY TypeNext, BoundedNext, CallProtocolNext, LocalsNext, ResultNext, IndexNext, OwnedNext,
     DisjointNext, QuiescentNext DEF IInv, EveryPromiseHasOneOwner

\* IInv is an invariant of the queue, for any number of callers, workers and
\* commands and any capacity.
THEOREM InvHolds == Spec => []IInv
  BY InvInit, InvNext, PTL DEF Spec

\* Every variable of the queue keeps its type.
THEOREM TypeCorrect == Spec => []TypeOK
<1>1. IInv => TypeOK BY DEF IInv
<1>q. QED BY <1>1, InvHolds, PTL

\* The capacity check of Enqueue bounds queue_ and the reported high-water mark.
THEOREM CapacityRespected == Spec => []QueueBounded
<1>1. IInv => QueueBounded BY DEF IInv
<1>q. QED BY <1>1, InvHolds, PTL

\* tasks_ and the work it indexes never diverge: an identifier is outstanding
\* at most once.
THEOREM IndexExact == Spec => []IndexMatchesWork
<1>1. IInv => IndexMatchesWork BY DEF IInv
<1>q. QED BY <1>1, InvHolds, PTL

\* The queue's containers keep their types and bounds and agree with one another through
\* every call, an Enqueue that throws half-way included.
THEOREM StoreConsistent == Spec => []StoreIsConsistent
<1>1. IInv => StoreIsConsistent BY DEF IInv, StoreIsConsistent
<1>q. QED BY <1>1, InvHolds, PTL

\* No promise is abandoned and none can be fulfilled twice.
THEOREM PromisesOwned == Spec => []EveryPromiseHasOneOwner
<1>1. IInv => EveryPromiseHasOneOwner BY DEF IInv
<1>q. QED BY <1>1, InvHolds, PTL

\* Shutdown returns with the workers gone and nothing outstanding.
THEOREM ShutdownDrains == Spec => []ShutdownIsQuiescent
<1>1. IInv => ShutdownIsQuiescent BY DEF IInv
<1>q. QED BY <1>1, InvHolds, PTL
=============================================================================

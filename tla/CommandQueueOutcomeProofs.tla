---------------------- MODULE CommandQueueOutcomeProofs ----------------------
(***************************************************************************)
(* What becomes of a task: the order in which CommandQueue hands tasks to   *)
(* its workers, that a result stays, and that the statistics count exactly  *)
(* the results: for any callers, workers, commands and capacity.            *)
(***************************************************************************)
EXTENDS CommandQueueProofs, FiniteSetTheorems

-----------------------------------------------------------------------------
(* Action properties                                                       *)

\* Only WorkerTake(w) moves worker w from "ready" to "taken".
LEMMA TakenByTake ==
  ASSUME TypeOK, [Next]_vars, NEW w \in Workers, wpc[w] = "ready", wpc'[w] = "taken"
  PROVE  WorkerTake(w)
<1> USE DEF taskVars, indexVars, statVars, lifeVars, callVars, workerVars
<1>0. wpc \in [Workers -> WorkerStates]
  BY DEF TypeOK
<1>1. ASSUME NEW t \in Threads, CallStart(t) \/ CallStep(t) \/ SpuriousWakeup(t)
      PROVE  UNCHANGED wpc
  BY <1>1, Zenon DEF CallStart, CallStep, EnqueueInvalid, EnqueueRefused, EnqueueThrows, EnqueueAccepted,
     EnqueueNotify, Cancel, CancelPublish, ShutdownBegin, ShutdownWait, ShutdownRecheck,
     ShutdownPublish, ShutdownStop, ShutdownJoined, ShutdownNotify, SpuriousWakeup
<1>2. ASSUME NEW v \in Workers, WorkerStep(v), ~WorkerTake(v)
      PROVE  ~(wpc[w] = "ready" /\ wpc'[w] = "taken")
  BY <1>0, <1>2, Zenon DEF WorkerStep, WorkerStart, WorkerWait, WorkerExit, WorkerExpire,
     ExecutorCall, ExecutorReturn, WorkerRecord, WorkerPublish
<1>3. ASSUME NEW v \in Workers, WorkerTake(v)
      PROVE  v = w
  BY <1>0, <1>3 DEF WorkerTake
<1>4. ASSUME NEW k \in Tasks, DeadlinePasses(k)
      PROVE  UNCHANGED wpc
  BY <1>4 DEF DeadlinePasses
<1>5. UNCHANGED vars \/ Stopped => UNCHANGED wpc
  BY DEF vars, Stopped
<1>q. QED BY <1>1, <1>2, <1>3, <1>4, <1>5 DEF Next

\* Workers take commands in descending priority, FIFO among equals: the scan
\* of the deque picks the first of the highest, and the deque is in acceptance
\* order.
THEOREM DequeueOrder == Spec => DescendingPriorityFifo
<1> DEFINE Order(w) == \A i \in DOMAIN queue : queue[i] # wtask'[w] =>
              LET mine == command[wtask'[w]].priority
                  other == command[queue[i]].priority
              IN other < mine \/ (other = mine /\ wtask'[w] < queue[i])
<1>1. ASSUME IInv, [Next]_vars, NEW w \in Workers, wpc[w] = "ready", wpc'[w] = "taken"
      PROVE  Order(w)
  <2>1. WorkerTake(w)
    BY <1>1, TakenByTake, Zenon DEF IInv
  <2>2. PICK j \in DOMAIN queue : IsHighestPriority(queue, j) /\ wtask'[w] = queue[j]
    BY <1>1, <2>1 DEF WorkerTake, IInv, TypeOK
  <2>3. /\ queue \in Seq(Tasks) /\ Len(queue) \in Nat /\ DOMAIN queue = 1..Len(queue)
        /\ \A i \in DOMAIN queue : queue[i] \in Queued
    BY <1>1, LengthFacts, Zenon DEF IInv, TypeOK, Queued, Range
  <2>4. \A i \in DOMAIN queue : command[queue[i]].priority \in Nat /\ queue[i] \in Nat
    <3>0. submitted \in Nat /\ \A k \in Tasks : k \in Nat /\ 1 <= k
      BY <1>1, BoundsAreNat DEF IInv, TypeOK, Tasks
    <3>1. \A k \in Queued : k \in 1..submitted
      BY <1>1, <3>0, OwnedIsSubmitted
    <3>2. \A k \in Queued : command[k] \in Commands /\ k \in Nat
      BY <1>1, <3>1 DEF IInv, LocalsAreSet
    <3>3. \A k \in Queued : command[k].priority \in Nat
      BY <3>2, QueueAssumption
    <3>q. QED BY <2>3, <3>2, <3>3, Zenon
  <2>5. \A i \in DOMAIN queue : j < i => queue[j] < queue[i]
    BY <1>1 DEF IInv, QueueInAcceptanceOrder
  <2>6. ASSUME NEW i \in DOMAIN queue, queue[i] # queue[j]
        PROVE  \/ command[queue[i]].priority < command[queue[j]].priority
               \/ command[queue[i]].priority = command[queue[j]].priority /\ queue[j] < queue[i]
    <3>1. i # j /\ (i < j \/ j < i)
      BY <2>3, <2>6
    <3>2. command[queue[i]].priority <= command[queue[j]].priority
          /\ (i < j => command[queue[i]].priority < command[queue[j]].priority)
      BY <2>2 DEF IsHighestPriority
    <3>q. QED BY <2>4, <2>5, <3>1, <3>2
  <2>q. QED BY <2>2, <2>6, Zenon
<1>2. IInv /\ [Next]_vars =>
        [\A w \in Workers : wpc[w] = "ready" /\ wpc'[w] = "taken" => Order(w)]_vars
  BY <1>1
<1>q. QED BY <1>2, InvHolds, PTL DEF Spec, DescendingPriorityFifo

\* A command that starts was waiting in the queue, so nobody had resolved or
\* claimed it; and only the owner of a promise, or the Enqueue call that has
\* just created it, fulfils it.
THEOREM ResolvedStays == Spec => ResolvedNeverStarts
<1> DEFINE Starts(k) == state'[k] # state[k] => /\ future[k] = "Pending"
                                              /\ \A t \in Threads : k \notin cancelled[t]
           Keeps(k) == future[k] # "Pending" => future'[k] = future[k]
<1> USE DEF taskVars, indexVars, statVars, lifeVars, callVars, workerVars
<1>1. ASSUME IInv, [Next]_vars, NEW k \in Tasks PROVE Starts(k)
  <2>1. ASSUME NEW w \in Workers, WorkerTake(w) PROVE Starts(k)
    <3>1. PICK j \in Queued : j \in Tasks /\ state' = [state EXCEPT ![j] = "Running"]
      BY SMTT(30), <1>1, <2>1, TakeQueue
    <3>2. future[j] = "Pending" /\ \A t \in Threads : j \notin cancelled[t]
      BY <1>1, <3>1 DEF IInv, EveryPromiseHasOneOwner, PendingIsOwned, OwnersAreDisjoint
    <3>q. QED BY <1>1, <3>1, <3>2 DEF IInv, TypeOK
  <2>2. ASSUME NEW t \in Threads, CallStart(t) \/ CallStep(t) \/ SpuriousWakeup(t)
        PROVE  UNCHANGED state
    BY <2>2, Zenon DEF CallStart, CallStep, NewTask, EnqueueInvalid, EnqueueRefused, EnqueueThrows, EnqueueAccepted,
       EnqueueNotify, Cancel, CancelPublish, ShutdownBegin, ShutdownWait, ShutdownRecheck,
       ShutdownPublish, ShutdownStop, ShutdownJoined, ShutdownNotify, SpuriousWakeup
  <2>3. ASSUME NEW w \in Workers, WorkerStep(w), ~WorkerTake(w)
        PROVE  UNCHANGED state
    BY <2>3, Zenon DEF WorkerStep, WorkerStart, WorkerWait, WorkerExit, WorkerExpire,
       ExecutorCall, ExecutorReturn, WorkerRecord, WorkerPublish
  <2>4. ASSUME NEW j \in Tasks, DeadlinePasses(j)
        PROVE  UNCHANGED state
    BY <2>4 DEF DeadlinePasses
  <2>5. UNCHANGED vars \/ Stopped => UNCHANGED state
    BY DEF vars, Stopped
  <2>q. QED BY SMTT(30), <1>1, <2>1, <2>2, <2>3, <2>4, <2>5 DEF Next
<1>2. ASSUME IInv, [Next]_vars, NEW k \in Tasks PROVE Keeps(k)
  <2>0. TypeOK /\ PendingIsOwned
    BY <1>2 DEF IInv, EveryPromiseHasOneOwner
  <2>1. ASSUME NEW t \in Threads, NEW c \in Commands,
               EnqueueInvalid(t, c) \/ EnqueueRefused(t, c) \/ EnqueueThrows(t, c)
        PROVE  Keeps(k)
    <3>1. Immediate(t, c)
      BY <2>1, Zenon DEF Immediate
    <3>2. /\ submitted \in Nat /\ submitted + 1 \in Tasks
          /\ \E s \in TerminalStatuses : Fulfil({submitted + 1}, s)
      BY SMTT(30), <1>2, <3>1, ImmediateEffect
    <3>3. future[submitted + 1] = "Pending"
      BY <2>0, <3>2 DEF PendingIsOwned, Tasks
    <3>q. QED BY <3>2, <3>3 DEF Fulfil
  <2>2. ASSUME NEW t \in Threads, CancelPublish(t) \/ ShutdownPublish(t)
        PROVE  Keeps(k)
    <3>1. \A j \in cancelled[t] : j \in Tasks /\ future[j] = "Pending"
      BY <1>2, <2>0, OwnedIsSubmitted DEF PendingIsOwned
    <3>q. QED BY SMTT(30), <2>2, <3>1 DEF CancelPublish, ShutdownPublish, Fulfil
  <2>3. ASSUME NEW w \in Workers, WorkerPublish(w)
        PROVE  Keeps(k)
    <3>1. HoldsTask(w)
      BY <2>3 DEF WorkerPublish, HoldsTask
    <3>2. wtask[w] \in Tasks /\ future[wtask[w]] = "Pending"
      BY <1>2, <2>0, <3>1, OwnedIsSubmitted, Zenon DEF PendingIsOwned
    <3>q. QED BY <2>3, <3>2 DEF WorkerPublish, Fulfil
  <2>4. ASSUME NEW t \in Threads,
               \/ \E c \in Commands : EnqueueAccepted(t, c)
               \/ \E id \in CommandIds : Cancel(t, id)
               \/ ShutdownBegin(t) \/ ShutdownWait(t) \/ SpuriousWakeup(t)
               \/ EnqueueNotify(t) \/ ShutdownRecheck(t) \/ ShutdownStop(t)
               \/ ShutdownJoined(t) \/ ShutdownNotify(t)
        PROVE  UNCHANGED future
    BY <2>4, Zenon DEF EnqueueAccepted, EnqueueNotify, Cancel, ShutdownBegin, ShutdownWait,
       ShutdownRecheck, ShutdownStop, ShutdownJoined, ShutdownNotify, SpuriousWakeup
  <2>5. ASSUME NEW w \in Workers, WorkerStep(w), ~WorkerPublish(w)
        PROVE  UNCHANGED future
    BY <2>5, Zenon DEF WorkerStep, WorkerStart, WorkerWait, WorkerExit, WorkerTake, WorkerExpire,
       ExecutorCall, ExecutorReturn, WorkerRecord
  <2>6. ASSUME NEW j \in Tasks, DeadlinePasses(j)
        PROVE  UNCHANGED future
    BY <2>6 DEF DeadlinePasses
  <2>7. UNCHANGED vars \/ Stopped => UNCHANGED future
    BY DEF vars, Stopped
  <2>q. QED BY <1>2, <2>1, <2>2, <2>3, <2>4, <2>5, <2>6, <2>7 DEF Next, CallStart, CallStep
<1>3. IInv /\ [Next]_vars => [ResolvedStep]_vars
  BY <1>1, <1>2 DEF ResolvedStep
<1>q. QED BY <1>3, InvHolds, PTL DEF Spec, ResolvedNeverStarts

-----------------------------------------------------------------------------
(* The statistics                                                          *)

\* The tasks that count for the result s, published or claimed by a Cancel or
\* Shutdown call; the workers about to publish s; and the workers at work.
Removed == UNION {cancelled[t] : t \in Threads}
Published(s) == {k \in 1..submitted : future[k] = s}
Resolved(s) == Published(s) \cup (IF s = "Cancelled" THEN Removed ELSE {})
Reporting(s) == {w \in Workers : wpc[w] = "publishing" /\ wresult[w] = s}
BusyWorkers == {w \in Workers : Busy(w)}

\* StatisticsAreExact with the published and the claimed tasks in one set.
Counted ==
  /\ \A s \in TerminalStatuses :
       counts[s] = Cardinality(Resolved(s)) + Cardinality(Reporting(s))
  /\ active_count = Cardinality(BusyWorkers)

\* How a set grows and shrinks.
LEMMA DisjointUnion ==
  ASSUME NEW S, NEW T, NEW U, IsFiniteSet(S), IsFiniteSet(T), S \cap T = {}, U = S \cup T
  PROVE  /\ IsFiniteSet(U) /\ Cardinality(U) = Cardinality(S) + Cardinality(T)
         /\ Cardinality(S) \in Nat /\ Cardinality(T) \in Nat
<1>1. Cardinality(S \cap T) = 0
  BY FS_EmptySet, Zenon
<1>2. Cardinality(S) \in Nat /\ Cardinality(T) \in Nat
  BY FS_CardinalityType
<1>3. /\ IsFiniteSet(S \cup T)
      /\ Cardinality(S \cup T) = Cardinality(S) + Cardinality(T) - Cardinality(S \cap T)
  BY FS_Union
<1>4. Cardinality(S \cup T) = Cardinality(S) + Cardinality(T)
  BY <1>1, <1>2, <1>3
<1>q. QED BY <1>2, <1>3, <1>4, Zenon

LEMMA OneMore ==
  ASSUME NEW S, NEW x, NEW U, IsFiniteSet(S), x \notin S, U = S \cup {x}
  PROVE  Cardinality(U) = Cardinality(S) + 1
<1>1. Cardinality(S \cup {x}) = Cardinality(S) + 1
  BY FS_AddElement
<1>q. QED BY <1>1, Zenon

LEMMA OneLess ==
  ASSUME NEW S, NEW x, NEW U, IsFiniteSet(S), x \in S, U = S \ {x}
  PROVE  Cardinality(U) = Cardinality(S) - 1
<1>1. Cardinality(S \ {x}) = Cardinality(S) - 1
  BY FS_RemoveElement
<1>q. QED BY <1>1, Zenon

LEMMA WorkersAreFinite == IsFiniteSet(Workers)
  BY QueueAssumption

\* The sets that are counted are finite.
LEMMA CountedSets ==
  ASSUME IInv
  PROVE  /\ Removed \subseteq 1..submitted
         /\ \A s \in TerminalStatuses : /\ Resolved(s) \subseteq 1..submitted
                                        /\ IsFiniteSet(Resolved(s))
                                        /\ Cardinality(Resolved(s)) \in Nat
                                        /\ IsFiniteSet(Reporting(s))
                                        /\ Cardinality(Reporting(s)) \in Nat
         /\ IsFiniteSet(BusyWorkers) /\ Cardinality(BusyWorkers) \in Nat
<1>1. submitted \in Nat /\ IsFiniteSet(1..submitted)
  BY FS_Interval DEF IInv, TypeOK
<1>2. Removed \subseteq 1..submitted
  BY <1>1, OwnedIsSubmitted, BoundsAreNat DEF Removed, Tasks
<1>3. ASSUME NEW s \in TerminalStatuses PROVE Resolved(s) \subseteq 1..submitted
  BY <1>2, Zenon DEF Resolved, Published
<1>4. ASSUME NEW s \in TerminalStatuses PROVE IsFiniteSet(Resolved(s))
  BY <1>1, <1>3, FS_Subset
<1>5. ASSUME NEW s \in TerminalStatuses PROVE IsFiniteSet(Reporting(s))
  <2>1. Reporting(s) \subseteq Workers
    BY DEF Reporting
  <2>q. QED BY <2>1, WorkersAreFinite, FS_Subset
<1>6. IsFiniteSet(BusyWorkers)
  <2>1. BusyWorkers \subseteq Workers
    BY DEF BusyWorkers
  <2>q. QED BY <2>1, WorkersAreFinite, FS_Subset
<1>q. QED BY <1>2, <1>3, <1>4, <1>5, <1>6, FS_CardinalityType

\* A claimed task is not published yet, so that the two ways of counting agree.
LEMMA CountedIsExact == IInv /\ Counted => StatisticsAreExact
<1> SUFFICES ASSUME IInv, Counted PROVE StatisticsAreExact
  OBVIOUS
<1>1. \A k \in Removed : k \in Tasks /\ future[k] = "Pending"
  BY OwnedIsSubmitted DEF IInv, EveryPromiseHasOneOwner, PendingIsOwned, Removed
<1>2. Published("Cancelled") \cap Removed = {}
  BY <1>1 DEF Published
<1>3. /\ IsFiniteSet(Published("Cancelled")) /\ IsFiniteSet(Removed)
      /\ Resolved("Cancelled") = Published("Cancelled") \cup Removed
  <2>1. Resolved("Cancelled") = Published("Cancelled") \cup Removed
    BY DEF Resolved
  <2>2. IsFiniteSet(Resolved("Cancelled"))
    BY CountedSets DEF TerminalStatuses
  <2>q. QED BY <2>1, <2>2, FS_Subset
<1>4. /\ Cardinality(Resolved("Cancelled")) = Cardinality(Published("Cancelled")) + Cardinality(Removed)
      /\ Cardinality(Published("Cancelled")) \in Nat /\ Cardinality(Removed) \in Nat
  BY <1>2, <1>3, DisjointUnion, Zenon
<1>5. ASSUME NEW s \in TerminalStatuses
      PROVE  counts[s] = Cardinality(Published(s)) + Cardinality(Reporting(s))
                         + (IF s = "Cancelled" THEN Cardinality(Removed) ELSE 0)
  <2>1. counts[s] = Cardinality(Resolved(s)) + Cardinality(Reporting(s))
    BY DEF Counted
  <2>2. Cardinality(Reporting(s)) \in Nat /\ Cardinality(Resolved(s)) \in Nat
    BY CountedSets
  <2>3. CASE s = "Cancelled"
    BY <1>4, <2>1, <2>2, <2>3
  <2>4. CASE s # "Cancelled"
    <3>1. Resolved(s) = Published(s)
      BY <2>4 DEF Resolved
    <3>q. QED BY <2>1, <2>2, <2>4, <3>1
  <2>q. QED BY <2>3, <2>4
<1>6. active_count = Cardinality(BusyWorkers)
  BY DEF Counted
<1>q. QED BY <1>5, <1>6, Zenon DEF StatisticsAreExact, Published, Reporting, BusyWorkers, Removed

\* A step that counts no result leaves the sets of results alone.
LEMMA SameCounts ==
  ASSUME Counted, UNCHANGED counts, active_count' = Cardinality(BusyWorkers'),
         \A s \in TerminalStatuses : Resolved(s)' = Resolved(s) /\ Reporting(s)' = Reporting(s)
  PROVE  Counted'
  BY DEF Counted

\* A result counted once more is in one of the two sets once more.
LEMMA MoreOf ==
  ASSUME IInv, Counted, NEW r \in TerminalStatuses, NEW n \in Nat,
         counts' = [counts EXCEPT ![r] = @ + n], active_count' = Cardinality(BusyWorkers'),
         Cardinality(Resolved(r)') + Cardinality(Reporting(r)')
           = Cardinality(Resolved(r)) + Cardinality(Reporting(r)) + n,
         \A s \in TerminalStatuses :
           s # r => Resolved(s)' = Resolved(s) /\ Reporting(s)' = Reporting(s)
  PROVE  Counted'
<1>1. counts \in [TerminalStatuses -> Nat]
  BY DEF IInv, TypeOK
<1>2. counts'[r] = counts[r] + n /\ \A s \in TerminalStatuses : s # r => counts'[s] = counts[s]
  BY <1>1
<1>3. counts'[r] = Cardinality(Resolved(r)') + Cardinality(Reporting(r)')
  BY <1>2, CountedSets DEF Counted
<1>4. ASSUME NEW s \in TerminalStatuses, s # r
      PROVE  counts'[s] = Cardinality(Resolved(s)') + Cardinality(Reporting(s)')
  BY <1>2, <1>4, Zenon DEF Counted
<1>q. QED BY <1>3, <1>4, Zenon DEF Counted

\* The steps outside the ten of StepCases leave the counted sets alone.
LEMMA StatisticsFrame ==
  ASSUME IInv, [Next]_vars
  PROVE  \/ /\ UNCHANGED <<counts, active_count, submitted, future, cancelled, BusyWorkers>>
            /\ \A s \in TerminalStatuses : Reporting(s)' = Reporting(s)
         \/ \E t \in Threads, c \in Commands : Immediate(t, c) \/ EnqueueAccepted(t, c)
         \/ \E t \in Threads, id \in CommandIds : Cancel(t, id)
         \/ \E t \in Threads : CancelPublish(t) \/ ShutdownBegin(t) \/ ShutdownPublish(t)
         \/ \E w \in Workers : WorkerTake(w) \/ WorkerRecord(w) \/ WorkerPublish(w)
<1> USE DEF taskVars, indexVars, statVars, lifeVars, callVars, workerVars
<1> DEFINE Same == /\ UNCHANGED <<counts, active_count, submitted, future, cancelled, BusyWorkers>>
                   /\ \A s \in TerminalStatuses : Reporting(s)' = Reporting(s)
<1>1. UNCHANGED <<counts, active_count, submitted, future, cancelled, wpc, wresult>> => Same
  BY DEF Busy, BusyWorkers, Reporting
<1> HIDE DEF Same
<1>2. ASSUME NEW t \in Threads,
             \/ EnqueueNotify(t) \/ ShutdownWait(t) \/ ShutdownRecheck(t) \/ ShutdownStop(t)
             \/ ShutdownJoined(t) \/ ShutdownNotify(t) \/ SpuriousWakeup(t)
      PROVE  Same
  BY <1>1, <1>2, Zenon DEF EnqueueNotify, ShutdownWait, ShutdownRecheck, ShutdownStop,
     ShutdownJoined, ShutdownNotify, SpuriousWakeup
<1>3. ASSUME NEW w \in Workers,
             \/ WorkerStart(w) \/ WorkerWait(w) \/ WorkerExit(w) \/ WorkerExpire(w)
             \/ ExecutorCall(w) \/ \E s \in ExecutorResults : ExecutorReturn(w, s)
      PROVE  Same
  <2>1. UNCHANGED <<counts, active_count, submitted, future, cancelled>>
    BY <1>3, Zenon DEF WorkerStart, WorkerWait, WorkerExit, WorkerExpire, ExecutorCall, ExecutorReturn
  <2>2. wpc \in [Workers -> WorkerStates]
    BY DEF IInv, TypeOK
  <2>3. /\ \/ UNCHANGED wpc /\ wpc[w] = "ready"
           \/ wpc[w] = "starting" /\ wpc' = [wpc EXCEPT ![w] = "ready"]
           \/ wpc[w] = "ready" /\ wpc' = [wpc EXCEPT ![w] = "exited"]
           \/ wpc[w] = "taken" /\ wpc' = [wpc EXCEPT ![w] = "finishing"]
           \/ wpc[w] = "taken" /\ wpc' = [wpc EXCEPT ![w] = "executing"]
           \/ wpc[w] = "executing" /\ wpc' = [wpc EXCEPT ![w] = "finishing"]
        /\ \A v \in Workers : v # w => wresult'[v] = wresult[v]
    <3>1. wresult \in [Workers -> TerminalStatuses \cup {"Pending"}]
      BY DEF IInv, TypeOK
    <3>2. UNCHANGED wresult \/ \E r : wresult' = [wresult EXCEPT ![w] = r]
      BY <1>3, Zenon DEF WorkerStart, WorkerWait, WorkerExit, WorkerExpire, ExecutorCall, ExecutorReturn
    <3>3. \A v \in Workers : v # w => wresult'[v] = wresult[v]
      BY <3>1, <3>2
    <3>q. QED
      BY <1>3, <3>3, Zenon DEF WorkerStart, WorkerWait, WorkerExit, WorkerExpire, ExecutorCall,
         ExecutorReturn
  <2>4. \A v \in Workers : /\ Busy(v)' <=> Busy(v)
                           /\ wpc'[v] = "publishing" <=> wpc[v] = "publishing"
                           /\ wpc[v] = "publishing" => wresult'[v] = wresult[v]
    BY <2>2, <2>3 DEF Busy
  <2>5. UNCHANGED BusyWorkers /\ \A s \in TerminalStatuses : Reporting(s)' = Reporting(s)
    BY <2>4 DEF BusyWorkers, Reporting
  <2>q. QED BY <2>1, <2>5 DEF Same
<1>4. ASSUME NEW k \in Tasks, DeadlinePasses(k)
      PROVE  Same
  BY <1>1, <1>4 DEF DeadlinePasses
<1>5. UNCHANGED vars \/ Stopped => Same
  BY <1>1 DEF vars, Stopped
<1>6. \/ Same
      \/ \E t \in Threads, c \in Commands : Immediate(t, c) \/ EnqueueAccepted(t, c)
      \/ \E t \in Threads, id \in CommandIds : Cancel(t, id)
      \/ \E t \in Threads : CancelPublish(t) \/ ShutdownBegin(t) \/ ShutdownPublish(t)
      \/ \E w \in Workers : WorkerTake(w) \/ WorkerRecord(w) \/ WorkerPublish(w)
  BY <1>2, <1>3, <1>4, <1>5, Zenon DEF Next, CallStart, CallStep, WorkerStep, Immediate
<1>q. QED BY <1>6, Zenon DEF Same

\* An Enqueue call with an immediate result counts it and publishes it.
LEMMA ImmediateCounted ==
  ASSUME IInv, Counted, NEW t \in Threads, NEW c \in Commands, Immediate(t, c)
  PROVE  Counted'
<1>1. PICK r \in TerminalStatuses : /\ Fulfil({submitted + 1}, r)
                                    /\ counts' = [counts EXCEPT ![r] = @ + 1]
  BY DEF Immediate, EnqueueInvalid, EnqueueRefused, EnqueueThrows, ValidateForQueue,
     RecordResultLocked, TerminalStatuses
<1>2. /\ UNCHANGED <<active_count, cancelled, wpc, wresult>>
  BY Zenon DEF Immediate, EnqueueInvalid, EnqueueRefused, EnqueueThrows, callVars, workerVars
<1>3. submitted \in Nat /\ submitted + 1 \in Tasks /\ submitted' = submitted + 1
  BY ImmediateEffect
<1>4. UNCHANGED <<BusyWorkers, Removed>> /\ \A s \in TerminalStatuses : Reporting(s)' = Reporting(s)
  BY <1>2 DEF BusyWorkers, Busy, Removed, Reporting
<1>5. /\ 1..submitted \subseteq Tasks /\ submitted + 1 \notin 1..submitted
      /\ (1..submitted)' = (1..submitted) \cup {submitted + 1}
  BY <1>3, BoundsAreNat DEF Tasks
<1>6. /\ \A k \in 1..submitted : future'[k] = future[k]
      /\ future'[submitted + 1] = r
  BY <1>1, <1>3, <1>5 DEF Fulfil
<1>7. /\ Published(r)' = Published(r) \cup {submitted + 1}
      /\ \A s \in TerminalStatuses : s # r => Published(s)' = Published(s)
  BY <1>5, <1>6 DEF Published
<1>8. /\ Resolved(r)' = Resolved(r) \cup {submitted + 1} /\ submitted + 1 \notin Resolved(r)
      /\ \A s \in TerminalStatuses : s # r => Resolved(s)' = Resolved(s)
  BY <1>4, <1>5, <1>7, CountedSets, ZenonT(30) DEF Resolved
<1>9. Cardinality(Resolved(r)') = Cardinality(Resolved(r)) + 1
  BY <1>8, CountedSets, OneMore
<1>10. Cardinality(Resolved(r)') + Cardinality(Reporting(r)')
         = Cardinality(Resolved(r)) + Cardinality(Reporting(r)) + 1
  <2>1. Cardinality(Reporting(r)') = Cardinality(Reporting(r))
    BY <1>4, Zenon
  <2>2. Cardinality(Resolved(r)) \in Nat /\ Cardinality(Reporting(r)) \in Nat
    BY CountedSets, Zenon
  <2>q. QED BY <1>9, <2>1, <2>2
<1>11. active_count' = Cardinality(BusyWorkers')
  BY <1>2, <1>4 DEF Counted
<1>q. QED BY <1>1, <1>4, <1>8, <1>10, <1>11, MoreOf, ZenonT(30)

\* Acceptance resolves nothing.
LEMMA AcceptedCounted ==
  ASSUME IInv, Counted, NEW t \in Threads, NEW c \in Commands, EnqueueAccepted(t, c)
  PROVE  Counted'
<1>1. UNCHANGED <<counts, active_count, future, cancelled, wpc, wresult>>
  BY Zenon DEF EnqueueAccepted, callVars, workerVars
<1>2. submitted \in Nat /\ submitted + 1 \in Tasks /\ submitted' = submitted + 1
  BY AcceptEffect
<1>3. future[submitted + 1] = "Pending"
  BY <1>2 DEF IInv, EveryPromiseHasOneOwner, PendingIsOwned
<1>4. UNCHANGED <<BusyWorkers, Removed>> /\ \A s \in TerminalStatuses : Reporting(s)' = Reporting(s)
  BY <1>1 DEF BusyWorkers, Busy, Removed, Reporting
<1>5. (1..submitted)' = (1..submitted) \cup {submitted + 1}
  BY <1>2
<1>6. \A s \in TerminalStatuses : Published(s)' = Published(s)
  BY <1>1, <1>3, <1>5 DEF Published, TerminalStatuses
<1>7. \A s \in TerminalStatuses : Resolved(s)' = Resolved(s)
  BY <1>4, <1>6 DEF Resolved
<1>8. active_count' = Cardinality(BusyWorkers')
  BY <1>1, <1>4 DEF Counted
<1>q. QED BY <1>1, <1>4, <1>7, <1>8, SameCounts

\* A task that a party has is neither published nor claimed by another.
LEMMA OwnedIsUnresolved ==
  ASSUME IInv
  PROVE  /\ \A s \in TerminalStatuses : Queued \cap Resolved(s) = {}
         /\ \A s \in TerminalStatuses, w \in Workers : HoldsTask(w) => wtask[w] \notin Resolved(s)
         /\ \A t \in Threads, k \in Tasks : k \in cancelled[t] => future[k] = "Pending"
         /\ \A w \in Workers : HoldsTask(w) => future[wtask[w]] = "Pending"
<1>1. PendingIsOwned /\ OwnersAreDisjoint
  BY DEF IInv, EveryPromiseHasOneOwner
<1>2. /\ \A k \in Queued : k \in Tasks /\ future[k] = "Pending"
      /\ \A w \in Workers : HoldsTask(w) => wtask[w] \in Tasks /\ future[wtask[w]] = "Pending"
      /\ \A t \in Threads, k \in Tasks : k \in cancelled[t] => future[k] = "Pending"
  BY <1>1, OwnedIsSubmitted, Zenon DEF PendingIsOwned
<1>3. /\ \A k \in Queued : k \notin Removed
      /\ \A w \in Workers : HoldsTask(w) => wtask[w] \notin Removed
  BY <1>1, Zenon DEF OwnersAreDisjoint, Removed
<1>4. \A s \in TerminalStatuses : s # "Pending"
  BY DEF TerminalStatuses
<1>5. \A s \in TerminalStatuses : \A k \in Resolved(s) : future[k] = s \/ k \in Removed
  BY Zenon DEF Resolved, Published
<1>q. QED BY <1>2, <1>3, <1>4, <1>5

\* Claiming waiting tasks adds them to the removed ones.
LEMMA ClaimCounted ==
  ASSUME IInv, Counted, NEW t \in Threads, NEW S, S \subseteq Queued, cancelled[t] = {},
         cancelled' = [cancelled EXCEPT ![t] = S], IsFiniteSet(S),
         counts' = [counts EXCEPT !["Cancelled"] = @ + Cardinality(S)],
         UNCHANGED <<active_count, submitted, future, wpc, wresult>>
  PROVE  Counted'
<1>1. cancelled \in [Threads -> SUBSET Tasks]
  BY DEF IInv, TypeOK
<1>2. Removed' = Removed \cup S
  BY <1>1 DEF Removed
<1>3. /\ BusyWorkers' = BusyWorkers
      /\ \A s \in TerminalStatuses : Reporting(s)' = Reporting(s) /\ Published(s)' = Published(s)
  BY DEF BusyWorkers, Busy, Reporting, Published
<1>4. /\ Resolved("Cancelled")' = Resolved("Cancelled") \cup S
      /\ \A s \in TerminalStatuses : s # "Cancelled" => Resolved(s)' = Resolved(s)
  <2>1. "Cancelled" \in TerminalStatuses
    BY DEF TerminalStatuses
  <2>2. /\ Resolved("Cancelled")' = Published("Cancelled")' \cup Removed'
        /\ Resolved("Cancelled") = Published("Cancelled") \cup Removed
    BY DEF Resolved
  <2>3. \A s \in TerminalStatuses : s # "Cancelled" => Resolved(s)' = Resolved(s)
    BY <1>3 DEF Resolved
  <2>q. QED BY <1>2, <1>3, <2>1, <2>2, <2>3
<1>5. /\ Cardinality(Resolved("Cancelled")') = Cardinality(Resolved("Cancelled")) + Cardinality(S)
      /\ Cardinality(S) \in Nat
  <2>1. "Cancelled" \in TerminalStatuses
    BY DEF TerminalStatuses
  <2>2. Resolved("Cancelled") \cap S = {} /\ IsFiniteSet(Resolved("Cancelled"))
    BY <2>1, OwnedIsUnresolved, CountedSets
  <2>q. QED BY <1>4, <2>2, DisjointUnion, ZenonT(30)
<1>6. Cardinality(Resolved("Cancelled")') + Cardinality(Reporting("Cancelled")')
        = Cardinality(Resolved("Cancelled")) + Cardinality(Reporting("Cancelled")) + Cardinality(S)
  BY <1>3, <1>5, CountedSets DEF TerminalStatuses
<1>7. active_count' = Cardinality(BusyWorkers')
  BY <1>3 DEF Counted
<1>8. "Cancelled" \in TerminalStatuses
  BY DEF TerminalStatuses
<1>q. QED BY <1>3, <1>4, <1>5, <1>6, <1>7, <1>8, MoreOf, ZenonT(30)

\* Publishing what was claimed moves it from the removed to the published tasks.
LEMMA ReportCounted ==
  ASSUME IInv, Counted, NEW t \in Threads, NEW T, T \subseteq cancelled[t],
         cancelled' = [cancelled EXCEPT ![t] = @ \ T], Fulfil(T, "Cancelled"),
         UNCHANGED <<counts, active_count, submitted, wpc, wresult>>
  PROVE  Counted'
<1>1. /\ cancelled \in [Threads -> SUBSET Tasks] /\ submitted \in Nat
      /\ 1..submitted \subseteq Tasks /\ T \subseteq Tasks
  BY BoundsAreNat DEF IInv, TypeOK, Tasks
<1>2. Removed' = Removed \ T /\ T \subseteq Removed
  <2>1. \A u \in Threads : u # t => cancelled[u] \cap T = {}
    BY DEF IInv, EveryPromiseHasOneOwner, OwnersAreDisjoint
  <2>2. /\ cancelled'[t] = cancelled[t] \ T
        /\ \A u \in Threads : u # t => cancelled'[u] = cancelled[u]
    BY <1>1
  <2>3. \A u \in Threads : cancelled'[u] = cancelled[u] \ T
    BY <2>1, <2>2
  <2>q. QED BY <2>3 DEF Removed
<1>3. \A k \in T : k \in 1..submitted /\ future[k] = "Pending" /\ future'[k] = "Cancelled"
  BY <1>1, <1>2, OwnedIsUnresolved, CountedSets DEF Fulfil
<1>4. \A k \in 1..submitted : k \notin T => future'[k] = future[k]
  BY <1>1 DEF Fulfil
<1>5. /\ Published("Cancelled")' = Published("Cancelled") \cup T
      /\ \A s \in TerminalStatuses : s # "Cancelled" => Published(s)' = Published(s)
  BY <1>3, <1>4 DEF Published, TerminalStatuses
<1>6. \A s \in TerminalStatuses : Resolved(s)' = Resolved(s)
  <2>1. /\ Resolved("Cancelled")' = Published("Cancelled")' \cup Removed'
        /\ Resolved("Cancelled") = Published("Cancelled") \cup Removed
    BY DEF Resolved
  <2>2. Resolved("Cancelled")' = Resolved("Cancelled")
    BY <1>2, <1>5, <2>1
  <2>3. \A s \in TerminalStatuses : s # "Cancelled" => Resolved(s)' = Resolved(s)
    BY <1>5 DEF Resolved
  <2>q. QED BY <2>2, <2>3
<1>7. /\ BusyWorkers' = BusyWorkers
      /\ \A s \in TerminalStatuses : Reporting(s)' = Reporting(s)
  BY DEF BusyWorkers, Busy, Reporting
<1>8. active_count' = Cardinality(BusyWorkers')
  BY <1>7 DEF Counted
<1>q. QED BY <1>6, <1>7, <1>8, SameCounts

\* Cancel counts the task it claims.
LEMMA CancelCounted ==
  ASSUME IInv, Counted, NEW t \in Threads, NEW id \in CommandIds, Cancel(t, id)
  PROVE  Counted'
<1>1. /\ tasks[id] \in Queued /\ cancelled[t] = {}
      /\ cancelled' = [cancelled EXCEPT ![t] = {tasks[id]}]
  BY CancelEffect
<1>2. /\ counts' = [counts EXCEPT !["Cancelled"] = @ + 1]
      /\ UNCHANGED <<active_count, submitted, future, wpc, wresult>>
  BY Zenon DEF Cancel, taskVars, workerVars
<1>3. IsFiniteSet({tasks[id]}) /\ Cardinality({tasks[id]}) = 1
  BY FS_Singleton, Zenon
<1>4. {tasks[id]} \subseteq Queued
  BY <1>1
<1>5. counts' = [counts EXCEPT !["Cancelled"] = @ + Cardinality({tasks[id]})]
  BY <1>2, <1>3, Zenon
<1>q. QED BY <1>1, <1>2, <1>3, <1>4, <1>5, ClaimCounted, Zenon

\* A sequence without repetitions has as many elements as positions.
LEMMA ElementsOfQueue ==
  ASSUME NEW S, NEW q \in Seq(S), IsInjective(q)
  PROVE  IsFiniteSet(Range(q)) /\ Cardinality(Range(q)) = Len(q)
<1>1. Len(q) \in Nat /\ DOMAIN q = 1..Len(q) /\ q \in [1..Len(q) -> S]
  BY LengthFacts
<1>2. q \in Bijection(1..Len(q), Range(q))
  BY <1>1 DEF Bijection, Injection, Surjection, Range
<1>3. ExistsBijection(1..Len(q), Range(q))
  BY <1>2 DEF ExistsBijection
<1>q. QED BY <1>1, <1>3, FS_CountingElements, FS_NatBijection

\* Shutdown counts all waiting tasks at once.
LEMMA ShutdownCounted ==
  ASSUME IInv, Counted, NEW t \in Threads, ShutdownBegin(t)
  PROVE  Counted'
<1>1. cancelled[t] = {} /\ cancelled' = [cancelled EXCEPT ![t] = Queued]
  BY ShutdownBeginEffect
<1>2. /\ counts' = [counts EXCEPT !["Cancelled"] = @ + Len(queue)]
      /\ UNCHANGED <<active_count, submitted, future, wpc, wresult>>
  BY Zenon DEF ShutdownBegin, taskVars, workerVars
<1>3. IsFiniteSet(Queued) /\ Cardinality(Queued) = Len(queue)
  BY ElementsOfQueue DEF IInv, TypeOK, EveryPromiseHasOneOwner, OwnersAreDisjoint, Queued
<1>4. counts' = [counts EXCEPT !["Cancelled"] = @ + Cardinality(Queued)]
  BY <1>2, <1>3, Zenon
<1>q. QED BY <1>1, <1>2, <1>3, <1>4, ClaimCounted, Zenon

LEMMA PublishCancelledCounted ==
  ASSUME IInv, Counted, NEW t \in Threads, CancelPublish(t) \/ ShutdownPublish(t)
  PROVE  Counted'
<1>1. UNCHANGED <<counts, active_count, submitted, wpc, wresult>>
  BY Zenon DEF CancelPublish, ShutdownPublish, statVars, workerVars
<1>2. CASE CancelPublish(t)
  <2>1. cancelled' = [cancelled EXCEPT ![t] = {}] /\ Fulfil(cancelled[t], "Cancelled")
    BY <1>2, CancelPublishEffect
  <2>2. cancelled' = [cancelled EXCEPT ![t] = @ \ cancelled[t]]
    <3>1. cancelled[t] \ cancelled[t] = {}
      OBVIOUS
    <3>q. QED BY <2>1, <3>1, Zenon
  <2>q. QED BY <1>1, <2>1, <2>2, ReportCounted, Zenon
<1>3. CASE ShutdownPublish(t)
  <2>1. PICK k \in cancelled[t] : /\ cancelled' = [cancelled EXCEPT ![t] = @ \ {k}]
                                  /\ Fulfil({k}, "Cancelled")
    BY <1>3, ShutdownPublishEffect
  <2>2. {k} \subseteq cancelled[t]
    BY <2>1
  <2>q. QED BY <1>1, <2>1, <2>2, ReportCounted, ZenonT(30)
<1>q. QED BY <1>2, <1>3

\* A worker that takes a task is one more at work.
LEMMA TakeCounted ==
  ASSUME IInv, Counted, NEW w \in Workers, WorkerTake(w)
  PROVE  Counted'
<1>1. /\ wpc[w] = "ready" /\ wpc' = [wpc EXCEPT ![w] = "taken"]
      /\ active_count' = active_count + 1
      /\ UNCHANGED <<counts, submitted, future, cancelled, wresult>>
  BY Zenon DEF WorkerTake, callVars
<1>2. wpc \in [Workers -> WorkerStates]
  BY DEF IInv, TypeOK
<1>3. \A s \in TerminalStatuses : Resolved(s)' = Resolved(s)
  BY <1>1 DEF Resolved, Published, Removed
<1>4. \A s \in TerminalStatuses : Reporting(s)' = Reporting(s)
  BY <1>1, <1>2 DEF Reporting
<1>5. w \notin BusyWorkers /\ BusyWorkers' = BusyWorkers \cup {w}
  BY TakeEffect DEF BusyWorkers
<1>6. Cardinality(BusyWorkers') = Cardinality(BusyWorkers) + 1
  BY <1>5, OneMore, CountedSets
<1>7. active_count' = Cardinality(BusyWorkers')
  BY <1>1, <1>6 DEF Counted
<1>q. QED BY <1>1, <1>3, <1>4, <1>7, SameCounts

\* A worker that records its result is about to publish it.
LEMMA RecordCounted ==
  ASSUME IInv, Counted, NEW w \in Workers, WorkerRecord(w)
  PROVE  Counted'
<1>1. /\ wpc[w] = "finishing" /\ wpc' = [wpc EXCEPT ![w] = "publishing"]
      /\ active_count' = active_count - 1 /\ RecordResultLocked(wresult[w])
      /\ UNCHANGED <<submitted, future, cancelled, wresult>>
  BY Zenon DEF WorkerRecord, taskVars, callVars
<1>2. /\ wpc \in [Workers -> WorkerStates]
      /\ wresult \in [Workers -> TerminalStatuses \cup {"Pending"}]
  BY DEF IInv, TypeOK
<1>3. PICK r \in TerminalStatuses : wresult[w] = r
  BY <1>1, <1>2 DEF IInv, ResultIsSet
<1>4. counts' = [counts EXCEPT ![r] = @ + 1]
  BY SMTT(30), <1>1, <1>3 DEF RecordResultLocked
<1>5. \A s \in TerminalStatuses : Resolved(s)' = Resolved(s)
  BY <1>1 DEF Resolved, Published, Removed
<1>6. /\ Reporting(r)' = Reporting(r) \cup {w} /\ w \notin Reporting(r)
      /\ \A s \in TerminalStatuses : s # r => Reporting(s)' = Reporting(s)
  BY SMTT(30), <1>1, <1>2, <1>3 DEF Reporting
<1>7. w \in BusyWorkers /\ BusyWorkers' = BusyWorkers \ {w}
  BY ZenonT(30), RecordEffect DEF BusyWorkers
<1>8. Cardinality(Reporting(r)') = Cardinality(Reporting(r)) + 1
  BY SMTT(30), <1>3, <1>6, OneMore, CountedSets
<1>9. Cardinality(BusyWorkers') = Cardinality(BusyWorkers) - 1
  BY <1>7, OneLess, CountedSets
<1>10. active_count' = Cardinality(BusyWorkers')
  BY <1>1, <1>9 DEF Counted
<1>11. Cardinality(Resolved(r)') + Cardinality(Reporting(r)')
         = Cardinality(Resolved(r)) + Cardinality(Reporting(r)) + 1
  BY <1>3, <1>5, <1>8, CountedSets
<1>q. QED BY <1>3, <1>4, <1>5, <1>6, <1>10, <1>11, MoreOf, Zenon

\* What a worker publishes leaves the reporting workers for the published tasks.
LEMMA PublishCounted ==
  ASSUME IInv, Counted, NEW w \in Workers, WorkerPublish(w)
  PROVE  Counted'
<1>1. /\ wpc[w] = "publishing" /\ wpc' = [wpc EXCEPT ![w] = "ready"]
      /\ wresult' = [wresult EXCEPT ![w] = "Pending"]
      /\ Fulfil({wtask[w]}, wresult[w])
      /\ UNCHANGED <<counts, active_count, submitted, cancelled>>
  BY Zenon DEF WorkerPublish, statVars, callVars
<1>2. /\ wpc \in [Workers -> WorkerStates] /\ submitted \in Nat
      /\ wresult \in [Workers -> TerminalStatuses \cup {"Pending"}]
      /\ counts \in [TerminalStatuses -> Nat]
  BY DEF IInv, TypeOK
<1>3. PICK r \in TerminalStatuses : wresult[w] = r
  BY <1>1, <1>2 DEF IInv, ResultIsSet
<1>4. HoldsTask(w) /\ BusyWorkers' = BusyWorkers
  BY PublishEffect, ZenonT(30) DEF BusyWorkers
<1>5. PICK k \in 1..submitted : wtask[w] = k /\ future[k] = "Pending" /\ k \notin Resolved(r)
  <2>1. wtask[w] \in Tasks /\ wtask[w] <= submitted
    BY <1>4, OwnedIsSubmitted
  <2>2. future[wtask[w]] = "Pending" /\ wtask[w] \notin Resolved(r)
    BY <1>4, OwnedIsUnresolved
  <2>3. wtask[w] \in 1..submitted
    BY <1>2, <2>1 DEF Tasks
  <2>q. QED BY <2>2, <2>3
<1>6. 1..submitted \subseteq Tasks
  BY BoundsAreNat DEF IInv, TypeOK, Tasks
<1>7. /\ Reporting(r)' = Reporting(r) \ {w} /\ w \in Reporting(r)
      /\ \A s \in TerminalStatuses : s # r => Reporting(s)' = Reporting(s)
  BY <1>1, <1>2, <1>3 DEF Reporting, TerminalStatuses
<1>8. /\ future'[k] = r
      /\ \A j \in 1..submitted : j # k => future'[j] = future[j]
  BY <1>1, <1>3, <1>5, <1>6 DEF Fulfil
<1>9. /\ Published(r)' = Published(r) \cup {k}
      /\ \A s \in TerminalStatuses : s # r => Published(s)' = Published(s)
  BY <1>1, <1>5, <1>8 DEF Published, TerminalStatuses
<1>10. /\ Resolved(r)' = Resolved(r) \cup {k}
       /\ \A s \in TerminalStatuses : s # r => Resolved(s)' = Resolved(s)
  <2>1. Removed' = Removed
    BY SMTT(30), <1>1 DEF Removed
  <2>q. QED BY <1>9, <2>1, Zenon DEF Resolved
<1>11. /\ Cardinality(Resolved(r)') = Cardinality(Resolved(r)) + 1
       /\ Cardinality(Reporting(r)') = Cardinality(Reporting(r)) - 1
  BY SMTT(30), <1>3, <1>5, <1>7, <1>10, OneMore, OneLess, CountedSets
<1>12. Cardinality(Resolved(r)') + Cardinality(Reporting(r)')
         = Cardinality(Resolved(r)) + Cardinality(Reporting(r)) + 0
  BY <1>3, <1>11, CountedSets
<1>13. counts' = [counts EXCEPT ![r] = @ + 0]
  BY <1>1, <1>2, <1>3
<1>14. active_count' = Cardinality(BusyWorkers')
  BY <1>1, <1>4 DEF Counted
<1>q. QED BY <1>3, <1>7, <1>10, <1>12, <1>13, <1>14, MoreOf, Zenon

LEMMA CountedInit == Init => Counted
<1> SUFFICES ASSUME Init PROVE Counted
  OBVIOUS
<1>1. /\ submitted = 0 /\ cancelled = [t \in Threads |-> {}]
      /\ wpc = [w \in Workers |-> "starting"]
      /\ counts = [s \in TerminalStatuses |-> 0] /\ active_count = 0
  BY DEF Init
<1>2. Removed = {} /\ 1..submitted = {} /\ BusyWorkers = {}
  BY <1>1 DEF Removed, BusyWorkers, Busy
<1>3. ASSUME NEW s \in TerminalStatuses PROVE Resolved(s) = {} /\ Reporting(s) = {}
  BY <1>1, <1>2 DEF Resolved, Published, Reporting
<1>4. \A s \in TerminalStatuses : counts[s] = 0
  BY <1>1
<1>5. Cardinality({}) = 0
  BY FS_EmptySet
<1>6. ASSUME NEW s \in TerminalStatuses
      PROVE  Cardinality(Resolved(s)) = 0 /\ Cardinality(Reporting(s)) = 0
  BY <1>3, <1>5, Zenon
<1>7. active_count = Cardinality(BusyWorkers)
  BY <1>1, <1>2, <1>5, Zenon
<1>q. QED BY <1>4, <1>6, <1>7 DEF Counted

LEMMA CountedNext == IInv /\ Counted /\ [Next]_vars => Counted'
<1> SUFFICES ASSUME IInv, Counted, [Next]_vars PROVE Counted'
  OBVIOUS
<1>1. CASE /\ UNCHANGED <<counts, active_count, submitted, future, cancelled, BusyWorkers>>
           /\ \A s \in TerminalStatuses : Reporting(s)' = Reporting(s)
  <2>1. \A s \in TerminalStatuses : Resolved(s)' = Resolved(s)
    BY <1>1 DEF Resolved, Published, Removed
  <2>2. active_count' = Cardinality(BusyWorkers')
    BY <1>1 DEF Counted
  <2>q. QED BY <1>1, <2>1, <2>2, SameCounts
<1>2. ASSUME NEW t \in Threads, NEW c \in Commands, Immediate(t, c) \/ EnqueueAccepted(t, c)
      PROVE  Counted'
  BY <1>2, ImmediateCounted, AcceptedCounted
<1>3. ASSUME NEW t \in Threads, NEW id \in CommandIds, Cancel(t, id)
      PROVE  Counted'
  BY <1>3, CancelCounted
<1>4. ASSUME NEW t \in Threads, CancelPublish(t) \/ ShutdownBegin(t) \/ ShutdownPublish(t)
      PROVE  Counted'
  BY <1>4, PublishCancelledCounted, ShutdownCounted
<1>5. ASSUME NEW w \in Workers, WorkerTake(w) \/ WorkerRecord(w) \/ WorkerPublish(w)
      PROVE  Counted'
  BY <1>5, TakeCounted, RecordCounted, PublishCounted
<1>q. QED BY <1>1, <1>2, <1>3, <1>4, <1>5, StatisticsFrame, Zenon

\* GetStatistics is exact at every instant: every counter is the number of the
\* results published, about to be published by a worker, or claimed by a Cancel
\* or Shutdown call, and active is the number of workers at work.
THEOREM ExactStatistics == Spec => []StatisticsAreExact
<1>1. Init => IInv /\ Counted
  BY InvInit, CountedInit
<1>2. IInv /\ Counted /\ [Next]_vars => IInv' /\ Counted'
  BY InvNext, CountedNext
<1>q. QED BY <1>1, <1>2, CountedIsExact, PTL DEF Spec
=============================================================================

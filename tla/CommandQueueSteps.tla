------------------------- MODULE CommandQueueSteps -------------------------
(***************************************************************************)
(* What each step of CommandQueue does, as lemmas: types, the effect of the *)
(* actions on the deque and on the tasks, and that they keep the ownership  *)
(* of promises intact.                                                      *)
(***************************************************************************)
EXTENDS CommandQueue, TLAPS

\* A sequence is a function on 1 .. Len.
LEMMA LengthFacts ==
  ASSUME NEW S, NEW s \in Seq(S)
  PROVE  /\ Len(s) \in Nat
         /\ s \in [1 .. Len(s) -> S]
         /\ DOMAIN s = 1 .. Len(s)
OBVIOUS

\* The elements of a concatenation (a vector with another inserted at its end).
LEMMA ConcatFacts ==
  ASSUME NEW S, NEW s \in Seq(S), NEW t \in Seq(S)
  PROVE  /\ s \o t \in Seq(S)
         /\ Len(s \o t) = Len(s) + Len(t)
         /\ \A i \in 1 .. Len(s) + Len(t) :
              (s \o t)[i] = IF i <= Len(s) THEN s[i] ELSE t[i - Len(s)]
OBVIOUS

\* The elements of a range of a vector.
LEMMA SubSeqFacts ==
  ASSUME NEW S, NEW s, NEW m \in Int, NEW n \in Int,
         \A i \in m .. n : s[i] \in S
  PROVE  /\ SubSeq(s, m, n) \in Seq(S)
         /\ Len(SubSeq(s, m, n)) = IF m <= n THEN n - m + 1 ELSE 0
         /\ \A i \in 1 .. n - m + 1 : SubSeq(s, m, n)[i] = s[m + i - 1]
OBVIOUS

\* The empty vector, and that every other one has an element.
LEMMA EmptyFacts ==
  ASSUME NEW S
  PROVE  /\ << >> \in Seq(S)
         /\ Len(<< >>) = 0
         /\ \A s \in Seq(S) : s # << >> => Len(s) \in Nat \ {0}
OBVIOUS

\* A sequence over a set is one over every larger set.
LEMMA WiderSeq ==
  ASSUME NEW S, NEW T, NEW s \in Seq(S), S \subseteq T
  PROVE  s \in Seq(T)
OBVIOUS

(* What the std::deque operations of the queues do to a sequence: push_back *)
(* (Append) and erase (Erase), as facts about the set of elements, their    *)
(* distinctness and their order.                                            *)

Ascending(q) == \A i, j \in DOMAIN q : i < j => q[i] < q[j]

\* erase(i) closes the gap and keeps the other elements in their order.
LEMMA EraseProperties ==
  ASSUME NEW S, NEW q \in Seq(S), NEW i \in DOMAIN q
  PROVE  /\ Erase(q, i) \in Seq(S)
         /\ Len(Erase(q, i)) = Len(q) - 1
         /\ \A j \in 1..(Len(q) - 1) :
              Erase(q, i)[j] = IF j < i THEN q[j] ELSE q[j + 1]
<1> DEFINE a == SubSeq(q, 1, i - 1)
           b == SubSeq(q, i + 1, Len(q))
<1>1. Len(q) \in Nat /\ DOMAIN q = 1..Len(q) /\ i \in 1..Len(q)
  BY LengthFacts
<1>2. /\ a \in Seq(S) /\ Len(a) = i - 1
      /\ \A j \in 1..(i - 1) : a[j] = q[j]
  BY <1>1, SubSeqFacts
<1>3. /\ b \in Seq(S) /\ Len(b) = Len(q) - i
      /\ \A j \in 1..(Len(q) - i) : b[j] = q[i + j]
  BY <1>1, SubSeqFacts
<1>4. Erase(q, i) = a \o b
  BY DEF Erase
<1> HIDE DEF a, b
<1>5. /\ a \o b \in Seq(S)
      /\ Len(a \o b) = Len(a) + Len(b)
      /\ \A j \in 1..(Len(a) + Len(b)) :
           (a \o b)[j] = IF j <= Len(a) THEN a[j] ELSE b[j - Len(a)]
  BY Zenon, <1>2, <1>3, ConcatFacts
<1>6. ASSUME NEW j \in 1..(Len(q) - 1)
      PROVE (a \o b)[j] = IF j < i THEN q[j] ELSE q[j + 1]
  <2>1. CASE j < i
    BY <2>1, <1>1, <1>2, <1>3, <1>5
  <2>2. CASE ~(j < i)
    <3>0. j \in 1..(Len(a) + Len(b)) /\ ~(j <= Len(a)) /\ j - Len(a) = j - (i - 1)
      BY <2>2, <1>1, <1>2, <1>3
    <3>1. (a \o b)[j] = b[j - (i - 1)]
      BY <3>0, <1>5
    <3>2. j - (i - 1) \in 1..(Len(q) - i) /\ i + (j - (i - 1)) = j + 1
      BY <2>2, <1>1
    <3>3. b[j - (i - 1)] = q[i + (j - (i - 1))]
      BY <3>2, <1>3
    <3>q. QED BY <2>2, <3>1, <3>2, <3>3
  <2>q. QED BY Zenon, <2>1, <2>2
<1>q. QED BY <1>1, <1>2, <1>3, <1>4, <1>5, <1>6

\* erase(i) of a deque without duplicates removes exactly the element at i.
LEMMA EraseElements ==
  ASSUME NEW S, NEW q \in Seq(S), NEW i \in DOMAIN q, IsInjective(q)
  PROVE  /\ Range(Erase(q, i)) = Range(q) \ {q[i]}
         /\ IsInjective(Erase(q, i))
<1> DEFINE r == Erase(q, i)
<1>1. /\ Len(q) \in Nat /\ DOMAIN q = 1..Len(q)
      /\ r \in Seq(S) /\ Len(r) = Len(q) - 1 /\ DOMAIN r = 1..(Len(q) - 1)
      /\ \A j \in 1..(Len(q) - 1) : r[j] = IF j < i THEN q[j] ELSE q[j + 1]
  BY EraseProperties, LengthFacts
<1> HIDE DEF r
<1>2. IsInjective(r)
  <2> SUFFICES ASSUME NEW j \in 1..(Len(q) - 1), NEW k \in 1..(Len(q) - 1), r[j] = r[k]
               PROVE  j = k
    BY <1>1 DEF IsInjective
  <2> DEFINE J == IF j < i THEN j ELSE j + 1
             K == IF k < i THEN k ELSE k + 1
  <2>1. J \in DOMAIN q /\ K \in DOMAIN q /\ q[J] = q[K]
    BY <1>1
  <2>2. J = K
    BY <2>1 DEF IsInjective
  <2>q. QED BY <1>1, <2>2
<1>3. ASSUME NEW x \in Range(r) PROVE x \in Range(q) \ {q[i]}
  <2>1. PICK j \in 1..(Len(q) - 1) : x = r[j]
    BY <1>1 DEF Range
  <2>2. PICK k \in DOMAIN q : k # i /\ x = q[k]
    BY <1>1, <2>1
  <2>q. QED BY <2>2 DEF Range, IsInjective
<1>4. ASSUME NEW x \in Range(q) \ {q[i]} PROVE x \in Range(r)
  <2>1. PICK k \in DOMAIN q : k # i /\ x = q[k]
    BY DEF Range
  <2>2. PICK j \in 1..(Len(q) - 1) : x = r[j]
    <3>1. CASE k < i BY <1>1, <2>1, <3>1
    <3>2. CASE k > i
      <4>1. k - 1 \in 1..(Len(q) - 1) /\ ~(k - 1 < i) /\ (k - 1) + 1 = k
        BY <1>1, <3>2
      <4>q. QED BY <1>1, <2>1, <4>1
    <3>q. QED BY <1>1, <2>1, <3>1, <3>2
  <2>q. QED BY Zenon, <1>1, <2>2 DEF Range
<1>q. QED BY <1>2, <1>3, <1>4 DEF r

\* erase keeps an ascending deque ascending.
LEMMA EraseAscending ==
  ASSUME NEW q \in Seq(Int), NEW i \in DOMAIN q, Ascending(q)
  PROVE  Ascending(Erase(q, i))
<1> DEFINE r == Erase(q, i)
<1>1. /\ Len(q) \in Nat /\ DOMAIN q = 1..Len(q)
      /\ r \in Seq(Int) /\ Len(r) = Len(q) - 1 /\ DOMAIN r = 1..(Len(q) - 1)
      /\ \A j \in 1..(Len(q) - 1) : r[j] = IF j < i THEN q[j] ELSE q[j + 1]
  BY EraseProperties, LengthFacts
<1> HIDE DEF r
<1>2. Ascending(r)
  <2> SUFFICES ASSUME NEW j \in 1..(Len(q) - 1), NEW k \in 1..(Len(q) - 1), j < k
               PROVE  r[j] < r[k]
    BY Zenon, <1>1 DEF Ascending
  <2> DEFINE J == IF j < i THEN j ELSE j + 1
             K == IF k < i THEN k ELSE k + 1
  <2>0. Len(q) \in Nat /\ i \in 1..Len(q) /\ DOMAIN q = 1..Len(q)
    BY <1>1
  <2>1. J \in DOMAIN q /\ K \in DOMAIN q /\ J < K
    <3>1. CASE j < i BY <2>0, <3>1
    <3>2. CASE ~(j < i) BY <2>0, <3>2
    <3>q. QED BY <3>1, <3>2
  <2>2. r[j] = q[J] /\ r[k] = q[K]
    BY Zenon, <1>1
  <2>3. q[J] < q[K]
    BY SMTT(30), <2>1 DEF Ascending
  <2>q. QED BY <2>2, <2>3
<1>q. QED BY <1>2 DEF r

\* push_back adds one element at the end.
LEMMA AppendElements ==
  ASSUME NEW S, NEW q \in Seq(S), NEW x \in S
  PROVE  /\ Append(q, x) \in Seq(S)
         /\ Len(Append(q, x)) = Len(q) + 1
         /\ Range(Append(q, x)) = Range(q) \cup {x}
         /\ IsInjective(q) /\ x \notin Range(q) => IsInjective(Append(q, x))
<1> DEFINE r == Append(q, x)
<1>1. /\ Len(q) \in Nat /\ DOMAIN q = 1..Len(q)
      /\ r \in Seq(S) /\ Len(r) = Len(q) + 1 /\ DOMAIN r = 1..(Len(q) + 1)
      /\ r[Len(q) + 1] = x /\ \A j \in 1..Len(q) : r[j] = q[j]
  BY LengthFacts
<1> HIDE DEF r
<1>2. Range(r) = Range(q) \cup {x}
  BY <1>1 DEF Range
<1>3. ASSUME IsInjective(q), x \notin Range(q) PROVE IsInjective(r)
  BY <1>1, <1>3 DEF IsInjective, Range
<1>q. QED BY <1>1, <1>2, <1>3 DEF r

\* push_back of a larger element keeps an ascending deque ascending.
LEMMA AppendAscending ==
  ASSUME NEW q \in Seq(Int), NEW x \in Int, Ascending(q),
         \A y \in Range(q) : y < x
  PROVE  Ascending(Append(q, x))
<1> DEFINE r == Append(q, x)
<1>1. /\ Len(q) \in Nat /\ DOMAIN q = 1..Len(q)
      /\ DOMAIN r = 1..(Len(q) + 1)
      /\ r[Len(q) + 1] = x /\ \A j \in 1..Len(q) : r[j] = q[j]
  BY LengthFacts
<1> HIDE DEF r
<1>2. Ascending(r)
  BY <1>1 DEF Ascending, Range
<1>q. QED BY <1>2 DEF r

-----------------------------------------------------------------------------

LEMMA BoundsAreNat == MaxTasks \in Nat /\ MaximumQueueSize \in Nat
  BY QueueAssumption

LEMMA TypeInit == Init => TypeOK
<1> SUFFICES ASSUME Init PROVE TypeOK
  OBVIOUS
<1>1. command \in [Tasks -> Commands \cup {NoCommand}] /\ submitted \in 0..MaxTasks
  BY BoundsAreNat DEF Init
<1>2. /\ state \in [Tasks -> {"Queued", "Running"}]
      /\ future \in [Tasks -> TerminalStatuses \cup {"Pending"}]
      /\ queue \in Seq(Tasks)
      /\ tasks \in [CommandIds -> Tasks \cup {NoTask}]
      /\ counts \in [TerminalStatuses -> Nat]
  BY DEF Init
<1>3. /\ call \in [Threads -> CallStates]
      /\ cancelled \in [Threads -> SUBSET Tasks]
      /\ wpc \in [Workers -> WorkerStates]
      /\ wtask \in [Workers -> Tasks \cup {NoTask}]
      /\ wresult \in [Workers -> TerminalStatuses \cup {"Pending"}]
  BY DEF Init, CallStates, WorkerStates
<1>4. /\ expired \in SUBSET Tasks /\ worker_ids \in SUBSET Workers
      /\ waiting \in SUBSET Threads
      /\ accepted \in Nat /\ highWatermark \in Nat /\ active_count \in Int
  BY DEF Init
<1>5. /\ accepting \in BOOLEAN /\ shutdown_in_progress \in BOOLEAN
      /\ shutdown_complete \in BOOLEAN /\ stop_requested \in BOOLEAN
  BY Zenon DEF Init
<1>q. QED
  BY <1>1, <1>2, <1>3, <1>4, <1>5 DEF TypeOK

LEMMA TypeNext == TypeOK /\ [Next]_vars => TypeOK'
<1> SUFFICES ASSUME TypeOK, [Next]_vars PROVE TypeOK'
  OBVIOUS
<1> USE DEF TypeOK, taskVars, indexVars, statVars, lifeVars, callVars, workerVars,
            CallStates, WorkerStates, TerminalStatuses
<1>1. ASSUME NEW t \in Threads, NEW c \in Commands, EnqueueInvalid(t, c) PROVE TypeOK'
  BY <1>1, BoundsAreNat DEF Tasks, EnqueueInvalid, NewTask, ValidateForQueue, RecordResultLocked, Fulfil, HasTimeout
<1>2. ASSUME NEW t \in Threads, NEW c \in Commands, EnqueueRefused(t, c) PROVE TypeOK'
  BY <1>2, BoundsAreNat DEF Tasks, EnqueueRefused, NewTask, RecordResultLocked, Fulfil
<1>29. ASSUME NEW t \in Threads, NEW c \in Commands, EnqueueThrows(t, c) PROVE TypeOK'
  BY <1>29, BoundsAreNat DEF Tasks, EnqueueThrows, NewTask, RecordResultLocked, Fulfil
<1>3. ASSUME NEW t \in Threads, NEW c \in Commands, EnqueueAccepted(t, c) PROVE TypeOK'
  <2>1. /\ submitted + 1 \in Tasks /\ submitted + 1 \in 0..MaxTasks
        /\ c.id \in CommandIds /\ Len(queue) \in Nat
    BY <1>3, BoundsAreNat DEF Tasks, EnqueueAccepted, NewTask, CommandIds
  <2>2. queue' \in Seq(Tasks)
    BY <1>3, <2>1, AppendElements DEF EnqueueAccepted
  <2>q. QED BY <1>3, <2>1, <2>2 DEF EnqueueAccepted, NewTask
<1>4. ASSUME NEW t \in Threads, EnqueueNotify(t) PROVE TypeOK'
  BY <1>4 DEF EnqueueNotify, NotifyOne
<1>5. ASSUME NEW t \in Threads, NEW id \in CommandIds, Cancel(t, id) PROVE TypeOK'
  <2>1. queue' \in Seq(Tasks)
    BY <1>5, EraseProperties DEF Cancel
  <2>2. tasks[id] \in Tasks
    BY <1>5 DEF Cancel
  <2>q. QED BY <1>5, <2>1, <2>2 DEF Cancel
<1>6. ASSUME NEW t \in Threads, CancelPublish(t) PROVE TypeOK'
  BY <1>6 DEF CancelPublish, Fulfil, NotifyAll
<1>7. ASSUME NEW t \in Threads, ShutdownBegin(t) PROVE TypeOK'
  <2>1. Queued \in SUBSET Tasks /\ Len(queue) \in Nat
    BY LengthFacts DEF Queued, Range
  <2>2. /\ tasks' \in [CommandIds -> Tasks \cup {NoTask}]
        /\ counts' \in [TerminalStatuses -> Nat]
        /\ queue' \in Seq(Tasks)
    BY <1>7, <2>1 DEF ShutdownBegin
  <2>q. QED BY <1>7, <2>1, <2>2, Zenon DEF ShutdownBegin
<1>8. ASSUME NEW t \in Threads, ShutdownWait(t) PROVE TypeOK'
  BY <1>8 DEF ShutdownWait, MayShutdown
<1>9. ASSUME NEW t \in Threads, ShutdownRecheck(t) PROVE TypeOK'
  BY <1>9 DEF ShutdownRecheck
<1>10. ASSUME NEW t \in Threads, ShutdownPublish(t) PROVE TypeOK'
  BY <1>10 DEF ShutdownPublish, Fulfil
<1>11. ASSUME NEW t \in Threads, ShutdownStop(t) PROVE TypeOK'
  BY <1>11 DEF ShutdownStop, NotifyAll
<1>12. ASSUME NEW t \in Threads, ShutdownJoined(t) PROVE TypeOK'
  BY <1>12, Zenon DEF ShutdownJoined
<1>13. ASSUME NEW t \in Threads, ShutdownNotify(t) PROVE TypeOK'
  BY <1>13 DEF ShutdownNotify, NotifyAll
<1>14. ASSUME NEW w \in Workers, WorkerStart(w) PROVE TypeOK'
  BY <1>14 DEF WorkerStart
<1>15. ASSUME NEW w \in Workers, WorkerWait(w) PROVE TypeOK'
  BY <1>15 DEF WorkerWait, Threads
<1>16. ASSUME NEW w \in Workers, WorkerExit(w) PROVE TypeOK'
  BY <1>16 DEF WorkerExit
<1>17. ASSUME NEW w \in Workers, WorkerTake(w) PROVE TypeOK'
  <2>1. PICK i \in DOMAIN queue : /\ wtask' = [wtask EXCEPT ![w] = queue[i]]
                                  /\ state' = [state EXCEPT ![queue[i]] = "Running"]
                                  /\ queue' = Erase(queue, i)
    BY <1>17, Zenon DEF WorkerTake
  <2>2. queue' \in Seq(Tasks) /\ queue[i] \in Tasks
    BY <2>1, EraseProperties, LengthFacts
  <2>q. QED BY <1>17, <2>1, <2>2 DEF WorkerTake
<1>18. ASSUME NEW w \in Workers, WorkerExpire(w) PROVE TypeOK'
  BY <1>18 DEF WorkerExpire
<1>19. ASSUME NEW w \in Workers, ExecutorCall(w) PROVE TypeOK'
  BY <1>19 DEF ExecutorCall
<1>20. ASSUME NEW w \in Workers, NEW s \in ExecutorResults, ExecutorReturn(w, s) PROVE TypeOK'
  BY <1>20, QueueAssumption DEF ExecutorReturn, NormalizedResult, NonterminalStatuses
<1>21. ASSUME NEW w \in Workers, WorkerRecord(w) PROVE TypeOK'
  <2>1. tasks' \in [CommandIds -> Tasks \cup {NoTask}]
    BY <1>21, Zenon DEF WorkerRecord
  <2>2. counts' \in [TerminalStatuses -> Nat]
    BY <1>21 DEF WorkerRecord, RecordResultLocked
  <2>q. QED BY <1>21, <2>1, <2>2 DEF WorkerRecord
<1>22. ASSUME NEW w \in Workers, WorkerPublish(w) PROVE TypeOK'
  BY <1>22 DEF WorkerPublish, NotifyAll, Fulfil
<1>23. ASSUME NEW k \in Tasks, DeadlinePasses(k) PROVE TypeOK'
  BY <1>23 DEF DeadlinePasses
<1>24. ASSUME NEW t \in Threads, SpuriousWakeup(t) PROVE TypeOK'
  BY <1>24 DEF SpuriousWakeup
<1>30. CASE UNCHANGED vars
  BY <1>30 DEF vars
<1>q. QED
  BY <1>1, <1>2, <1>3, <1>4, <1>5, <1>6, <1>7, <1>8, <1>9, <1>10, <1>11, <1>12, <1>13,
     <1>14, <1>15, <1>16, <1>17, <1>18, <1>19, <1>20, <1>21, <1>22, <1>23, <1>24, <1>29, <1>30, Zenon
     DEF Next, CallStart, CallStep, WorkerStep, Stopped

-----------------------------------------------------------------------------
(* What the three operations on queue_ do to the set of queued tasks.      *)

\* Enqueue appends a task newer than all others.
LEMMA AcceptQueue ==
  ASSUME IInv, NEW t \in Threads, NEW c \in Commands, EnqueueAccepted(t, c)
  PROVE  /\ submitted + 1 \in Tasks
         /\ Queued' = Queued \cup {submitted + 1}
         /\ submitted + 1 \notin Queued
         /\ IsInjective(queue')
         /\ Len(queue') = Len(queue) + 1
         /\ QueueInAcceptanceOrder'
<1>1. submitted \in Nat /\ submitted + 1 \in Tasks /\ queue \in Seq(Tasks)
  BY BoundsAreNat DEF IInv, TypeOK, EnqueueAccepted, NewTask, Tasks
<1>2. \A k \in Queued : k \in Tasks /\ k <= submitted
  BY SMTT(30), <1>1, LengthFacts DEF IInv, EveryPromiseHasOneOwner, PendingIsOwned, Queued, Range
<1>3. IsInjective(queue) /\ Ascending(queue) /\ queue' = Append(queue, submitted + 1)
  BY DEF IInv, EveryPromiseHasOneOwner, OwnersAreDisjoint, QueueInAcceptanceOrder, Ascending, EnqueueAccepted
<1>4. submitted + 1 \notin Queued
  BY <1>1, <1>2 DEF Tasks
<1>5. queue \in Seq(Int) /\ submitted + 1 \in Int
  BY <1>1, WiderSeq, BoundsAreNat DEF Tasks
<1>6. Ascending(queue')
  BY <1>1, <1>2, <1>3, <1>5, AppendAscending DEF Queued, Tasks
<1>q. QED
  BY <1>1, <1>3, <1>4, <1>6, AppendElements DEF Queued, QueueInAcceptanceOrder, Ascending

\* Erasing position i removes exactly the task at i.
LEMMA EraseQueue ==
  ASSUME IInv, NEW i \in DOMAIN queue, queue' = Erase(queue, i)
  PROVE  /\ queue[i] \in Queued
         /\ Queued' = Queued \ {queue[i]}
         /\ IsInjective(queue')
         /\ Len(queue') = Len(queue) - 1
         /\ QueueInAcceptanceOrder'
<1>1. queue \in Seq(Tasks) /\ IsInjective(queue) /\ Ascending(queue)
  BY DEF IInv, TypeOK, EveryPromiseHasOneOwner, OwnersAreDisjoint, QueueInAcceptanceOrder, Ascending
<1>2. queue \in Seq(Int)
  BY <1>1, WiderSeq, BoundsAreNat DEF Tasks
<1>3. Ascending(queue')
  BY <1>1, <1>2, EraseAscending
<1>4. queue[i] \in Queued
  BY <1>1 DEF Queued, Range
<1>5. Len(queue') = Len(queue) - 1
  BY <1>1, EraseProperties
<1>6. Queued' = Queued \ {queue[i]} /\ IsInjective(queue')
  BY <1>1, EraseElements DEF Queued
<1>q. QED
  BY <1>3, <1>4, <1>5, <1>6 DEF QueueInAcceptanceOrder, Ascending

LEMMA CancelQueue ==
  ASSUME IInv, NEW t \in Threads, NEW id \in CommandIds, Cancel(t, id)
  PROVE  /\ tasks[id] \in Tasks
         /\ Queued' = Queued \ {tasks[id]}
         /\ IsInjective(queue')
         /\ Len(queue') <= Len(queue)
         /\ QueueInAcceptanceOrder'
<1>0. /\ tasks[id] \in Tasks /\ queue \in Seq(Tasks) /\ Len(queue) \in Nat
      /\ IsInjective(queue) /\ QueueInAcceptanceOrder
  BY LengthFacts DEF IInv, TypeOK, EveryPromiseHasOneOwner, OwnersAreDisjoint, Cancel
<1>1. CASE \E i \in DOMAIN queue : queue[i] = tasks[id] /\ queue' = Erase(queue, i)
  <2> PICK i \in DOMAIN queue : queue[i] = tasks[id] /\ queue' = Erase(queue, i)
    BY <1>1
  <2>q. QED BY <1>0, EraseQueue
<1>2. CASE tasks[id] \notin Queued /\ UNCHANGED queue
  BY <1>0, <1>2 DEF Queued, QueueInAcceptanceOrder
<1>q. QED BY <1>1, <1>2 DEF Cancel

LEMMA TakeQueue ==
  ASSUME IInv, NEW w \in Workers, WorkerTake(w)
  PROVE  \E k \in Queued : /\ k \in Tasks
                           /\ wtask' = [wtask EXCEPT ![w] = k]
                           /\ state' = [state EXCEPT ![k] = "Running"]
                           /\ Queued' = Queued \ {k}
                           /\ IsInjective(queue')
                           /\ Len(queue') <= Len(queue)
                           /\ QueueInAcceptanceOrder'
<1>1. PICK i \in DOMAIN queue : /\ wtask' = [wtask EXCEPT ![w] = queue[i]]
                                /\ state' = [state EXCEPT ![queue[i]] = "Running"]
                                /\ queue' = Erase(queue, i)
  BY Zenon DEF WorkerTake
<1>2. queue \in Seq(Tasks) /\ Len(queue) \in Nat /\ queue[i] \in Tasks
  BY LengthFacts DEF IInv, TypeOK
<1>3. /\ queue[i] \in Queued /\ Queued' = Queued \ {queue[i]} /\ IsInjective(queue')
      /\ Len(queue') = Len(queue) - 1 /\ QueueInAcceptanceOrder'
  BY <1>1, EraseQueue
<1>4. Len(queue') <= Len(queue)
  BY <1>2, <1>3
<1>q. QED BY <1>1, <1>2, <1>3, <1>4, Zenon

LEMMA EmptyQueue ==
  ASSUME NEW q \in Seq(Tasks)
  PROVE  /\ q = <<>> <=> Range(q) = {}
         /\ q = <<>> => IsInjective(q) /\ Ascending(q) /\ Len(q) = 0
<1>1. Len(q) \in Nat /\ DOMAIN q = 1..Len(q)
  BY LengthFacts
<1>2. q = <<>> => DOMAIN q = {} /\ Len(q) = 0
  OBVIOUS
<1>3. q # <<>> => 1 \in DOMAIN q
  BY <1>1, EmptyFacts
<1>4. q = <<>> => IsInjective(q) /\ Ascending(q)
  BY <1>2 DEF IsInjective, Ascending
<1>q. QED BY <1>2, <1>3, <1>4 DEF Range

-----------------------------------------------------------------------------
(* The effect of the steps on tasks and their owners.                      *)

\* A task that some party has was submitted.
LEMMA OwnedIsSubmitted ==
  ASSUME IInv
  PROVE  /\ \A k \in Queued : k \in Tasks /\ k <= submitted
         /\ \A t \in Threads : \A k \in cancelled[t] : k \in Tasks /\ k <= submitted
         /\ \A w \in Workers : HoldsTask(w) => wtask[w] \in Tasks /\ wtask[w] <= submitted
<1>1. PendingIsOwned
  BY DEF IInv, EveryPromiseHasOneOwner
<1>2. \A k \in Queued : k \in Tasks
  BY LengthFacts DEF IInv, TypeOK, Queued, Range
<1>3. \A t \in Threads : \A k \in cancelled[t] : k \in Tasks
  BY DEF IInv, TypeOK
<1>4. \A w \in Workers : HoldsTask(w) => wtask[w] \in Tasks
  BY DEF IInv, TypeOK, LocalsAreSet
<1>q. QED BY <1>1, <1>2, <1>3, <1>4 DEF PendingIsOwned

\* What the index and the busy workers refer to was submitted, too.
LEMMA IndexedIsSubmitted ==
  ASSUME IInv
  PROVE  /\ \A k \in Tasks : k <= submitted => command[k].id \in CommandIds
         /\ \A w \in Workers : Busy(w) => HoldsTask(w)
         /\ \A id \in CommandIds : tasks[id] # NoTask =>
                                    tasks[id] \in Tasks /\ tasks[id] <= submitted
<1>1. submitted \in Nat /\ LocalsAreSet /\ IndexMatchesWork
  BY DEF IInv, TypeOK
<1>2. \A k \in Tasks : k <= submitted => command[k].id \in CommandIds
  BY <1>1, BoundsAreNat DEF LocalsAreSet, Tasks, CommandIds
<1>3. \A w \in Workers : Busy(w) => HoldsTask(w)
  BY DEF Busy, HoldsTask
<1>4. \A id \in CommandIds : tasks[id] # NoTask => tasks[id] \in Tasks
  BY DEF IInv, TypeOK
<1>5. \A id \in CommandIds : tasks[id] # NoTask => tasks[id] <= submitted
  BY <1>1, <1>3, OwnedIsSubmitted DEF IndexMatchesWork
<1>q. QED BY <1>2, <1>3, <1>4, <1>5

\* The steps that move no task: the parties keep what they have.
Frame ==
  /\ UNCHANGED <<submitted, command, state, future, queue, tasks, cancelled, wtask>>
  /\ \A w \in Workers : (HoldsTask(w)' <=> HoldsTask(w)) /\ (Busy(w)' <=> Busy(w))

\* An Enqueue call whose result is immediate.
Immediate(t, c) ==
  EnqueueInvalid(t, c) \/ EnqueueRefused(t, c) \/ EnqueueThrows(t, c)

\* Every step is a frame step or one of ten that move a task.
LEMMA StepCases ==
  ASSUME TypeOK, [Next]_vars
  PROVE  \/ Frame
         \/ \E t \in Threads, c \in Commands : Immediate(t, c) \/ EnqueueAccepted(t, c)
         \/ \E t \in Threads, id \in CommandIds : Cancel(t, id)
         \/ \E t \in Threads : CancelPublish(t) \/ ShutdownBegin(t) \/ ShutdownPublish(t)
         \/ \E w \in Workers : WorkerTake(w) \/ WorkerRecord(w) \/ WorkerPublish(w)
<1> USE DEF taskVars, indexVars, statVars, lifeVars, callVars, workerVars
<1>1. UNCHANGED <<submitted, command, state, future, queue, tasks, cancelled, wtask, wpc>> => Frame
  BY DEF Frame, HoldsTask, Busy
<1>2. ASSUME NEW t \in Threads,
             \/ EnqueueNotify(t) \/ ShutdownWait(t) \/ ShutdownRecheck(t) \/ ShutdownStop(t)
             \/ ShutdownJoined(t) \/ ShutdownNotify(t) \/ SpuriousWakeup(t)
      PROVE  Frame
  BY <1>1, <1>2, Zenon DEF EnqueueNotify, ShutdownWait, ShutdownRecheck, ShutdownStop, ShutdownJoined,
     ShutdownNotify, SpuriousWakeup
<1>3. ASSUME NEW w \in Workers,
             \/ WorkerStart(w) \/ WorkerWait(w) \/ WorkerExit(w) \/ WorkerExpire(w)
             \/ ExecutorCall(w) \/ \E s \in ExecutorResults : ExecutorReturn(w, s)
      PROVE  Frame
  <2>1. UNCHANGED <<submitted, command, state, future, queue, tasks, cancelled, wtask>>
    BY <1>3, Zenon DEF WorkerStart, WorkerWait, WorkerExit, WorkerExpire, ExecutorCall, ExecutorReturn
  <2>2. wpc \in [Workers -> WorkerStates]
    BY DEF TypeOK
  <2>3. \/ UNCHANGED wpc
        \/ wpc[w] = "starting" /\ wpc' = [wpc EXCEPT ![w] = "ready"]
        \/ wpc[w] = "ready" /\ wpc' = [wpc EXCEPT ![w] = "exited"]
        \/ wpc[w] = "taken" /\ wpc' = [wpc EXCEPT ![w] = "finishing"]
        \/ wpc[w] = "taken" /\ wpc' = [wpc EXCEPT ![w] = "executing"]
        \/ wpc[w] = "executing" /\ wpc' = [wpc EXCEPT ![w] = "finishing"]
    BY <1>3, Zenon DEF WorkerStart, WorkerWait, WorkerExit, WorkerExpire, ExecutorCall, ExecutorReturn
  <2>4. \A v \in Workers : (HoldsTask(v)' <=> HoldsTask(v)) /\ (Busy(v)' <=> Busy(v))
    BY <2>2, <2>3 DEF HoldsTask, Busy
  <2>q. QED BY <2>1, <2>4 DEF Frame
<1>4. ASSUME NEW k \in Tasks, DeadlinePasses(k)
      PROVE  Frame
  BY <1>1, <1>4 DEF DeadlinePasses
<1>5. UNCHANGED vars \/ Stopped => Frame
  BY <1>1 DEF vars, Stopped
<1>q. QED
  BY <1>2, <1>3, <1>4, <1>5, Zenon DEF Next, CallStart, CallStep, WorkerStep, Immediate

LEMMA ImmediateEffect ==
  ASSUME IInv, NEW t \in Threads, NEW c \in Commands, Immediate(t, c)
  PROVE  /\ submitted \in Nat /\ submitted + 1 \in Tasks /\ submitted' = submitted + 1
         /\ command' = [command EXCEPT ![submitted + 1] = c]
         /\ \E s \in TerminalStatuses : Fulfil({submitted + 1}, s)
         /\ UNCHANGED <<state, queue, tasks, cancelled, wpc, wtask>>
<1> USE DEF indexVars, callVars, workerVars
<1>1. NewTask(t, c) /\ UNCHANGED <<queue, tasks, cancelled, wpc, wtask>>
  BY Zenon DEF Immediate, EnqueueInvalid, EnqueueRefused, EnqueueThrows
<1>2. \E s \in TerminalStatuses : Fulfil({submitted + 1}, s)
  BY DEF Immediate, EnqueueInvalid, EnqueueRefused, EnqueueThrows, ValidateForQueue, TerminalStatuses
<1>3. submitted \in Nat /\ submitted + 1 \in Tasks
  BY <1>1, BoundsAreNat DEF IInv, TypeOK, NewTask, Tasks
<1>q. QED BY <1>1, <1>2, <1>3 DEF NewTask

LEMMA AcceptEffect ==
  ASSUME IInv, NEW t \in Threads, NEW c \in Commands, EnqueueAccepted(t, c)
  PROVE  /\ submitted \in Nat /\ submitted + 1 \in Tasks /\ submitted' = submitted + 1
         /\ command' = [command EXCEPT ![submitted + 1] = c]
         /\ c.id \in CommandIds /\ tasks[c.id] = NoTask
         /\ tasks' = [tasks EXCEPT ![c.id] = submitted + 1]
         /\ UNCHANGED <<state, future, cancelled, wpc, wtask>>
<1> USE DEF indexVars, callVars, workerVars
<1>1. /\ NewTask(t, c) /\ UNCHANGED <<future, cancelled, wpc, wtask>>
      /\ tasks[c.id] = NoTask /\ tasks' = [tasks EXCEPT ![c.id] = submitted + 1]
  BY Zenon DEF EnqueueAccepted, CanAccept
<1>2. submitted \in Nat /\ submitted + 1 \in Tasks
  BY <1>1, BoundsAreNat DEF IInv, TypeOK, NewTask, Tasks
<1>q. QED BY <1>1, <1>2 DEF NewTask, CommandIds

\* Cancel claims a waiting task: an outstanding task that is not running waits.
LEMMA CancelEffect ==
  ASSUME IInv, NEW t \in Threads, NEW id \in CommandIds, Cancel(t, id)
  PROVE  /\ tasks[id] \in Queued /\ tasks[id] \in Tasks /\ command[tasks[id]].id = id
         /\ tasks' = [tasks EXCEPT ![id] = NoTask]
         /\ cancelled[t] = {} /\ cancelled' = [cancelled EXCEPT ![t] = {tasks[id]}]
         /\ UNCHANGED <<submitted, command, state, future, wpc, wtask>>
<1> USE DEF taskVars, workerVars
<1>1. /\ call[t] = "idle" /\ tasks[id] # NoTask /\ state[tasks[id]] # "Running"
      /\ tasks' = [tasks EXCEPT ![id] = NoTask]
      /\ cancelled' = [cancelled EXCEPT ![t] = {tasks[id]}]
      /\ UNCHANGED <<submitted, command, state, future, wpc, wtask>>
  BY Zenon DEF Cancel, MayCall
<1>2. cancelled[t] = {}
  BY <1>1 DEF IInv, CallProtocol
<1>3. tasks[id] \in Queued /\ command[tasks[id]].id = id
  BY <1>1 DEF IInv, IndexMatchesWork
<1>q. QED BY <1>1, <1>2, <1>3, IndexedIsSubmitted

LEMMA CancelPublishEffect ==
  ASSUME NEW t \in Threads, CancelPublish(t)
  PROVE  /\ cancelled' = [cancelled EXCEPT ![t] = {}]
         /\ Fulfil(cancelled[t], "Cancelled")
         /\ UNCHANGED <<submitted, command, state, queue, tasks, wpc, wtask>>
  BY Zenon DEF CancelPublish, indexVars, workerVars

LEMMA ShutdownBeginEffect ==
  ASSUME IInv, NEW t \in Threads, ShutdownBegin(t)
  PROVE  /\ Queued' = {} /\ IsInjective(queue')
         /\ tasks' = [i \in CommandIds |-> IF tasks[i] \in Queued THEN NoTask ELSE tasks[i]]
         /\ cancelled[t] = {} /\ cancelled' = [cancelled EXCEPT ![t] = Queued]
         /\ UNCHANGED <<submitted, command, state, future, wpc, wtask>>
<1>1. /\ call[t] = "idle" /\ queue' = <<>>
      /\ tasks' = [i \in CommandIds |-> IF tasks[i] \in Queued THEN NoTask ELSE tasks[i]]
      /\ cancelled' = [cancelled EXCEPT ![t] = Queued]
      /\ UNCHANGED <<submitted, command, state, future, wpc, wtask>>
  BY Zenon DEF ShutdownBegin, MayShutdown, MayCall, taskVars, workerVars
<1>2. cancelled[t] = {}
  BY <1>1, Zenon DEF IInv, CallProtocol
<1>3. Queued' = {} /\ IsInjective(queue')
  BY <1>1, EmptyQueue, EmptyFacts, Zenon DEF Queued
<1>q. QED BY <1>1, <1>2, <1>3

LEMMA ShutdownPublishEffect ==
  ASSUME NEW t \in Threads, ShutdownPublish(t)
  PROVE  \E k \in cancelled[t] :
           /\ cancelled' = [cancelled EXCEPT ![t] = @ \ {k}]
           /\ Fulfil({k}, "Cancelled")
           /\ UNCHANGED <<submitted, command, state, queue, tasks, wpc, wtask>>
  BY Zenon DEF ShutdownPublish, indexVars, workerVars

LEMMA TakeEffect ==
  ASSUME IInv, NEW w \in Workers, WorkerTake(w)
  PROVE  /\ ~HoldsTask(w) /\ HoldsTask(w)' /\ ~Busy(w) /\ Busy(w)'
         /\ \A v \in Workers : v # w => (HoldsTask(v)' <=> HoldsTask(v)) /\ (Busy(v)' <=> Busy(v))
         /\ UNCHANGED <<submitted, command, future, tasks, cancelled>>
<1>1. /\ wpc[w] = "ready" /\ wpc' = [wpc EXCEPT ![w] = "taken"]
      /\ UNCHANGED <<submitted, command, future, tasks, cancelled>>
  BY Zenon DEF WorkerTake, callVars
<1>2. wpc \in [Workers -> WorkerStates]
  BY DEF IInv, TypeOK
<1>q. QED BY <1>1, <1>2 DEF HoldsTask, Busy

LEMMA RecordEffect ==
  ASSUME IInv, NEW w \in Workers, WorkerRecord(w)
  PROVE  /\ Busy(w) /\ ~Busy(w)'
         /\ \A v \in Workers : HoldsTask(v)' <=> HoldsTask(v)
         /\ \A v \in Workers : v # w => (Busy(v)' <=> Busy(v))
         /\ tasks' = [tasks EXCEPT ![command[wtask[w]].id] = NoTask]
         /\ UNCHANGED <<submitted, command, state, future, queue, cancelled, wtask>>
<1>1. /\ wpc[w] = "finishing" /\ wpc' = [wpc EXCEPT ![w] = "publishing"]
      /\ tasks' = [tasks EXCEPT ![command[wtask[w]].id] = NoTask]
      /\ UNCHANGED <<submitted, command, state, future, queue, cancelled, wtask>>
  BY Zenon DEF WorkerRecord, taskVars, callVars
<1>2. wpc \in [Workers -> WorkerStates]
  BY DEF IInv, TypeOK
<1>q. QED BY <1>1, <1>2 DEF HoldsTask, Busy

LEMMA PublishEffect ==
  ASSUME IInv, NEW w \in Workers, WorkerPublish(w)
  PROVE  /\ HoldsTask(w) /\ ~HoldsTask(w)' /\ ~Busy(w) /\ ~Busy(w)'
         /\ \A v \in Workers : v # w => (HoldsTask(v)' <=> HoldsTask(v)) /\ (Busy(v)' <=> Busy(v))
         /\ \A v \in Workers : v # w => wtask'[v] = wtask[v]
         /\ wresult[w] # "Pending" /\ Fulfil({wtask[w]}, wresult[w])
         /\ UNCHANGED <<submitted, command, state, queue, tasks, cancelled>>
<1>1. /\ wpc[w] = "publishing" /\ wpc' = [wpc EXCEPT ![w] = "ready"]
      /\ wtask' = [wtask EXCEPT ![w] = NoTask]
      /\ Fulfil({wtask[w]}, wresult[w])
      /\ UNCHANGED <<submitted, command, state, queue, tasks, cancelled>>
  BY Zenon DEF WorkerPublish, indexVars, callVars
<1>2. /\ wpc \in [Workers -> WorkerStates]
      /\ wtask \in [Workers -> Tasks \cup {NoTask}]
  BY DEF IInv, TypeOK
<1>3. wresult[w] # "Pending"
  BY <1>1 DEF IInv, ResultIsSet
<1>4. /\ HoldsTask(w) /\ ~HoldsTask(w)' /\ ~Busy(w) /\ ~Busy(w)'
      /\ \A v \in Workers : v # w => (HoldsTask(v)' <=> HoldsTask(v)) /\ (Busy(v)' <=> Busy(v))
  BY <1>1, <1>2 DEF HoldsTask, Busy
<1>q. QED BY <1>1, <1>2, <1>3, <1>4

-----------------------------------------------------------------------------
(* Who has which task                                                      *)

\* No step gives a task to two parties.
LEMMA DisjointNext == IInv /\ [Next]_vars => OwnersAreDisjoint'
<1> SUFFICES ASSUME IInv, [Next]_vars PROVE OwnersAreDisjoint'
  OBVIOUS
<1>0. /\ OwnersAreDisjoint
      /\ cancelled \in [Threads -> SUBSET Tasks]
      /\ wtask \in [Workers -> Tasks \cup {NoTask}]
  BY DEF IInv, TypeOK, EveryPromiseHasOneOwner
<1>1. CASE Frame
  BY <1>0, <1>1 DEF Frame, OwnersAreDisjoint, Queued
<1>2. ASSUME NEW t \in Threads, NEW c \in Commands, Immediate(t, c) PROVE OwnersAreDisjoint'
  BY <1>0, <1>2, ImmediateEffect DEF OwnersAreDisjoint, Queued, HoldsTask
<1>3. ASSUME NEW t \in Threads, NEW c \in Commands, EnqueueAccepted(t, c) PROVE OwnersAreDisjoint'
  <2>1. /\ Queued' = Queued \cup {submitted + 1} /\ IsInjective(queue')
        /\ submitted \in Nat /\ submitted + 1 \in Tasks
        /\ UNCHANGED <<cancelled, wpc, wtask>>
    BY <1>3, AcceptQueue, AcceptEffect
  <2>2. /\ \A w \in Workers : HoldsTask(w) => wtask[w] # submitted + 1
        /\ \A u \in Threads : submitted + 1 \notin cancelled[u]
    BY <2>1, OwnedIsSubmitted, BoundsAreNat DEF Tasks
  <2>3. \A w \in Workers : HoldsTask(w)' <=> HoldsTask(w)
    BY <2>1 DEF HoldsTask
  <2>q. QED BY <1>0, <2>1, <2>2, <2>3 DEF OwnersAreDisjoint
<1>4. ASSUME NEW t \in Threads, NEW id \in CommandIds, Cancel(t, id) PROVE OwnersAreDisjoint'
  <2>1. Queued' = Queued \ {tasks[id]} /\ IsInjective(queue')
    BY <1>4, CancelQueue
  <2>2. /\ tasks[id] \in Queued /\ UNCHANGED <<wpc, wtask>>
        /\ \A u \in Threads : cancelled'[u] = IF u = t THEN {tasks[id]} ELSE cancelled[u]
    BY SMTT(30), <1>0, <1>4, CancelEffect
  <2>3. \A w \in Workers : HoldsTask(w)' <=> HoldsTask(w)
    BY <2>2 DEF HoldsTask
  <2>q. QED BY <1>0, <2>1, <2>2, <2>3 DEF OwnersAreDisjoint
<1>5. ASSUME NEW t \in Threads, CancelPublish(t) PROVE OwnersAreDisjoint'
  <2>1. /\ UNCHANGED <<queue, wpc, wtask>>
        /\ \A u \in Threads : cancelled'[u] = IF u = t THEN {} ELSE cancelled[u]
    BY <1>0, <1>5, CancelPublishEffect
  <2>q. QED BY <1>0, <2>1 DEF OwnersAreDisjoint, Queued, HoldsTask
<1>6. ASSUME NEW t \in Threads, ShutdownBegin(t) PROVE OwnersAreDisjoint'
  <2>1. /\ Queued' = {} /\ IsInjective(queue') /\ UNCHANGED <<wpc, wtask>>
        /\ \A u \in Threads : cancelled'[u] = IF u = t THEN Queued ELSE cancelled[u]
    BY <1>0, <1>6, ShutdownBeginEffect
  <2>2. \A w \in Workers : HoldsTask(w)' <=> HoldsTask(w)
    BY <2>1 DEF HoldsTask
  <2>q. QED BY <1>0, <2>1, <2>2 DEF OwnersAreDisjoint
<1>7. ASSUME NEW t \in Threads, ShutdownPublish(t) PROVE OwnersAreDisjoint'
  <2>1. /\ UNCHANGED <<queue, wpc, wtask>>
        /\ \A u \in Threads : cancelled'[u] \subseteq cancelled[u]
    BY <1>0, <1>7, ShutdownPublishEffect, Zenon
  <2>q. QED BY <1>0, <2>1 DEF OwnersAreDisjoint, Queued, HoldsTask
<1>8. ASSUME NEW w \in Workers, WorkerTake(w) PROVE OwnersAreDisjoint'
  <2>1. PICK k \in Queued : /\ wtask' = [wtask EXCEPT ![w] = k]
                            /\ Queued' = Queued \ {k} /\ IsInjective(queue')
    BY <1>8, TakeQueue
  <2>2. \A v \in Workers : wtask'[v] = IF v = w THEN k ELSE wtask[v]
    BY <1>0, <2>1
  <2>3. \A v \in Workers : HoldsTask(v)' <=> v = w \/ HoldsTask(v)
    BY <1>8, TakeEffect
  <2>4. UNCHANGED cancelled
    BY <1>8, TakeEffect
  <2>q. QED BY <1>0, <2>1, <2>2, <2>3, <2>4 DEF OwnersAreDisjoint
<1>9. ASSUME NEW w \in Workers, WorkerRecord(w) PROVE OwnersAreDisjoint'
  BY <1>0, <1>9, RecordEffect DEF OwnersAreDisjoint, Queued
<1>10. ASSUME NEW w \in Workers, WorkerPublish(w) PROVE OwnersAreDisjoint'
  <2>1. /\ UNCHANGED <<queue, cancelled>>
        /\ \A v \in Workers : HoldsTask(v)' => v # w /\ HoldsTask(v) /\ wtask'[v] = wtask[v]
    BY <1>10, PublishEffect, Zenon
  <2>q. QED BY <1>0, <2>1 DEF OwnersAreDisjoint, Queued
<1>q. QED
  BY <1>1, <1>2, <1>3, <1>4, <1>5, <1>6, <1>7, <1>8, <1>9, <1>10, StepCases, Zenon DEF IInv

\* The local task of Run and the commands of the numbered tasks stay set.
LEMMA LocalsNext == IInv /\ [Next]_vars => LocalsAreSet'
<1> SUFFICES ASSUME IInv, [Next]_vars PROVE LocalsAreSet'
  OBVIOUS
<1>0. /\ LocalsAreSet /\ submitted \in Nat
      /\ command \in [Tasks -> Commands \cup {NoCommand}]
      /\ state \in [Tasks -> {"Queued", "Running"}]
      /\ wtask \in [Workers -> Tasks \cup {NoTask}]
  BY DEF IInv, TypeOK
<1>a. ASSUME NEW c \in Commands, submitted + 1 \in Tasks, submitted' = submitted + 1,
             command' = [command EXCEPT ![submitted + 1] = c],
             UNCHANGED <<state, wpc, wtask>>
      PROVE  LocalsAreSet'
  <2>1. \A k \in 1..submitted' : command'[k] \in Commands
    BY <1>0, <1>a, BoundsAreNat DEF LocalsAreSet, Tasks
  <2>2. \A k \in Tasks : submitted' < k => state'[k] = "Queued"
    BY <1>0, <1>a, BoundsAreNat DEF LocalsAreSet, Tasks
  <2>q. QED BY <1>0, <1>a, <2>1, <2>2 DEF LocalsAreSet, HoldsTask
<1>b. UNCHANGED <<submitted, command, state, wpc, wtask>> => LocalsAreSet'
  BY <1>0 DEF LocalsAreSet, HoldsTask
<1>1. CASE Frame
  BY <1>0, <1>1 DEF Frame, LocalsAreSet
<1>2. ASSUME NEW t \in Threads, NEW c \in Commands, Immediate(t, c) PROVE LocalsAreSet'
  BY <1>a, <1>2, ImmediateEffect
<1>3. ASSUME NEW t \in Threads, NEW c \in Commands, EnqueueAccepted(t, c) PROVE LocalsAreSet'
  BY <1>a, <1>3, AcceptEffect
<1>4. ASSUME NEW t \in Threads, NEW id \in CommandIds, Cancel(t, id) PROVE LocalsAreSet'
  BY <1>b, <1>4, CancelEffect
<1>5. ASSUME NEW t \in Threads, CancelPublish(t) PROVE LocalsAreSet'
  BY <1>b, <1>5, CancelPublishEffect
<1>6. ASSUME NEW t \in Threads, ShutdownBegin(t) PROVE LocalsAreSet'
  BY <1>b, <1>6, ShutdownBeginEffect
<1>7. ASSUME NEW t \in Threads, ShutdownPublish(t) PROVE LocalsAreSet'
  BY <1>b, <1>7, ShutdownPublishEffect, Zenon
<1>8. ASSUME NEW w \in Workers, WorkerTake(w) PROVE LocalsAreSet'
  <2>1. PICK k \in Queued : /\ k \in Tasks /\ k <= submitted
                            /\ wtask' = [wtask EXCEPT ![w] = k]
                            /\ state' = [state EXCEPT ![k] = "Running"]
    BY <1>8, TakeQueue, OwnedIsSubmitted
  <2>2. UNCHANGED <<submitted, command>> /\ \A v \in Workers : HoldsTask(v)' => v = w \/ HoldsTask(v)
    BY <1>8, TakeEffect
  <2>3. \A j \in Tasks : submitted' < j => state'[j] = "Queued"
    BY <1>0, <2>1, <2>2, BoundsAreNat DEF LocalsAreSet, Tasks
  <2>4. k # NoTask
    BY <2>1, BoundsAreNat DEF Tasks, NoTask
  <2>q. QED BY <1>0, <2>1, <2>2, <2>3, <2>4 DEF LocalsAreSet
<1>9. ASSUME NEW w \in Workers, WorkerRecord(w) PROVE LocalsAreSet'
  BY <1>0, <1>9, RecordEffect DEF LocalsAreSet
<1>10. ASSUME NEW w \in Workers, WorkerPublish(w) PROVE LocalsAreSet'
  <2>1. /\ UNCHANGED <<submitted, command, state>>
        /\ \A v \in Workers : HoldsTask(v)' => HoldsTask(v) /\ wtask'[v] = wtask[v]
    BY <1>10, PublishEffect, Zenon
  <2>q. QED BY <1>0, <2>1 DEF LocalsAreSet
<1>q. QED
  BY <1>1, <1>2, <1>3, <1>4, <1>5, <1>6, <1>7, <1>8, <1>9, <1>10, StepCases, Zenon DEF IInv

\* A promise is fulfilled by the step in which its owner lets go of it.
LEMMA OwnedNext == IInv /\ [Next]_vars => PendingIsOwned'
<1> SUFFICES ASSUME IInv, [Next]_vars PROVE PendingIsOwned'
  OBVIOUS
<1>0. /\ PendingIsOwned /\ OwnersAreDisjoint /\ submitted \in Nat
      /\ cancelled \in [Threads -> SUBSET Tasks]
      /\ wtask \in [Workers -> Tasks \cup {NoTask}]
  BY DEF IInv, TypeOK, EveryPromiseHasOneOwner
<1> DEFINE Pending(k) == k <= submitted /\ future[k] = "Pending"
           Held(k) == \E w \in Workers : HoldsTask(w) /\ wtask[w] = k
           Claimed(k) == \E t \in Threads : k \in cancelled[t]
           Fresh == \A k \in Tasks : submitted < k => future[k] = "Pending"
<1>a. (\A k \in Tasks : Pending(k)' <=> (k \in Queued' \/ Held(k)' \/ Claimed(k)')) /\ Fresh'
      => PendingIsOwned'
  BY DEF PendingIsOwned
<1>b. (\A k \in Tasks : Pending(k) <=> (k \in Queued \/ Held(k) \/ Claimed(k))) /\ Fresh
  BY <1>0 DEF PendingIsOwned
<1>c. UNCHANGED <<wpc, wtask>> => \A k \in Tasks : Held(k)' <=> Held(k)
  BY DEF HoldsTask
<1>d. UNCHANGED cancelled => \A k \in Tasks : Claimed(k)' <=> Claimed(k)
  OBVIOUS
<1>e. UNCHANGED queue => Queued' = Queued
  BY DEF Queued
<1>f. UNCHANGED <<submitted, future>> => (\A k \in Tasks : Pending(k)' <=> Pending(k)) /\ (Fresh => Fresh')
  OBVIOUS
<1>g. ASSUME NEW T \in SUBSET Tasks, NEW s, s # "Pending", Fulfil(T, s), UNCHANGED submitted,
             \A k \in T : k <= submitted
      PROVE  (\A k \in Tasks : Pending(k)' <=> (Pending(k) /\ k \notin T)) /\ Fresh'
  <2>1. \A k \in Tasks : future'[k] = IF k \in T THEN s ELSE future[k]
    BY <1>g DEF Fulfil
  <2>2. \A k \in Tasks : Pending(k)' <=> (Pending(k) /\ k \notin T)
    BY <1>g, <2>1
  <2>3. Fresh'
    BY <1>0, <1>b, <1>g, <2>1, BoundsAreNat DEF Tasks
  <2>q. QED BY <2>2, <2>3
<1>1. CASE Frame
  <2>1. \A k \in Tasks : Held(k)' <=> Held(k)
    BY <1>1 DEF Frame
  <2>q. QED BY <1>0, <1>1, <2>1 DEF Frame, PendingIsOwned, Queued
<1>2. ASSUME NEW t \in Threads, NEW c \in Commands, Immediate(t, c) PROVE PendingIsOwned'
  <2>1. /\ submitted + 1 \in Tasks /\ submitted' = submitted + 1
        /\ UNCHANGED <<queue, cancelled, wpc, wtask>>
    BY <1>2, ImmediateEffect
  <2>2. PICK s \in TerminalStatuses : Fulfil({submitted + 1}, s)
    BY <1>2, ImmediateEffect
  <2>3. \A k \in Tasks : future'[k] = IF k = submitted + 1 THEN s ELSE future[k]
    BY <2>2 DEF Fulfil
  <2>4. (\A k \in Tasks : Pending(k)' <=> Pending(k)) /\ Fresh'
    BY <1>0, <1>b, <2>1, <2>3, BoundsAreNat DEF Tasks, TerminalStatuses
  <2> HIDE DEF Pending, Held, Claimed, Fresh
  <2>q. QED BY <1>a, <1>b, <1>c, <1>d, <1>e, <2>1, <2>4
<1>3. ASSUME NEW t \in Threads, NEW c \in Commands, EnqueueAccepted(t, c) PROVE PendingIsOwned'
  <2>1. /\ submitted + 1 \in Tasks /\ submitted' = submitted + 1
        /\ UNCHANGED <<future, cancelled, wpc, wtask>>
        /\ Queued' = Queued \cup {submitted + 1}
    BY <1>3, AcceptEffect, AcceptQueue
  <2>2. (\A k \in Tasks : Pending(k)' <=> (Pending(k) \/ k = submitted + 1)) /\ Fresh'
    BY <1>0, <1>b, <2>1, BoundsAreNat DEF Tasks
  <2> HIDE DEF Pending, Held, Claimed, Fresh
  <2>q. QED BY <1>a, <1>b, <1>c, <1>d, <2>1, <2>2
<1>4. ASSUME NEW t \in Threads, NEW id \in CommandIds, Cancel(t, id) PROVE PendingIsOwned'
  <2>1. /\ UNCHANGED <<submitted, future, wpc, wtask>>
        /\ tasks[id] \in Queued /\ cancelled[t] = {}
        /\ cancelled' = [cancelled EXCEPT ![t] = {tasks[id]}]
    BY <1>4, CancelEffect, Zenon
  <2>2. Queued' = Queued \ {tasks[id]}
    BY <1>4, CancelQueue
  <2>3. \A k \in Tasks : Claimed(k)' <=> (Claimed(k) \/ k = tasks[id])
    BY <1>0, <2>1, SMTT(20)
  <2> HIDE DEF Pending, Held, Claimed, Fresh
  <2>q. QED BY <1>a, <1>b, <1>c, <1>f, <2>1, <2>2, <2>3
<1>5. ASSUME NEW t \in Threads, CancelPublish(t) PROVE PendingIsOwned'
  <2>1. /\ UNCHANGED <<submitted, queue, wpc, wtask>> /\ Fulfil(cancelled[t], "Cancelled")
        /\ \A u \in Threads : cancelled'[u] = IF u = t THEN {} ELSE cancelled[u]
    BY <1>0, <1>5, CancelPublishEffect
  <2>2. /\ cancelled[t] \in SUBSET Tasks /\ \A k \in cancelled[t] : k <= submitted
    BY <1>0, OwnedIsSubmitted
  <2>3. (\A k \in Tasks : Pending(k)' <=> (Pending(k) /\ k \notin cancelled[t])) /\ Fresh'
    BY <1>g, <2>1, <2>2, ZenonT(30)
  <2>4. \A k \in Tasks : Claimed(k)' <=> (Claimed(k) /\ k \notin cancelled[t])
    BY <1>0, <2>1 DEF OwnersAreDisjoint
  <2>5. \A k \in cancelled[t] : k \notin Queued /\ ~Held(k)
    BY <1>0 DEF OwnersAreDisjoint
  <2> HIDE DEF Pending, Held, Claimed, Fresh
  <2>q. QED BY <1>a, <1>b, <1>c, <1>e, <2>1, <2>3, <2>4, <2>5
<1>6. ASSUME NEW t \in Threads, ShutdownBegin(t) PROVE PendingIsOwned'
  <2>1. /\ UNCHANGED <<submitted, future, wpc, wtask>> /\ Queued' = {} /\ cancelled[t] = {}
        /\ \A u \in Threads : cancelled'[u] = IF u = t THEN Queued ELSE cancelled[u]
    BY SMTT(30), <1>0, <1>6, ShutdownBeginEffect
  <2>2. \A k \in Tasks : Claimed(k)' <=> (Claimed(k) \/ k \in Queued)
    BY <2>1
  <2> HIDE DEF Pending, Held, Claimed, Fresh
  <2>q. QED BY <1>a, <1>b, <1>c, <1>f, <2>1, <2>2
<1>7. ASSUME NEW t \in Threads, ShutdownPublish(t) PROVE PendingIsOwned'
  <2>1. PICK j \in cancelled[t] :
          /\ cancelled' = [cancelled EXCEPT ![t] = @ \ {j}] /\ Fulfil({j}, "Cancelled")
          /\ UNCHANGED <<submitted, queue, wpc, wtask>>
    BY <1>7, ShutdownPublishEffect
  <2>2. {j} \in SUBSET Tasks /\ (\A k \in {j} : k <= submitted) /\ "Cancelled" # "Pending"
    BY OwnedIsSubmitted
  <2>3. (\A k \in Tasks : Pending(k)' <=> (Pending(k) /\ k \notin {j})) /\ Fresh'
    BY <1>g, <2>1, <2>2, Zenon
  <2>4. \A u \in Threads : cancelled'[u] = IF u = t THEN cancelled[t] \ {j} ELSE cancelled[u]
    BY <1>0, <2>1
  <2>5. \A k \in Tasks : Claimed(k)' <=> (Claimed(k) /\ k # j)
    BY <1>0, <2>1, <2>4 DEF OwnersAreDisjoint
  <2>6. j \notin Queued /\ ~Held(j)
    BY <1>0 DEF OwnersAreDisjoint
  <2> HIDE DEF Pending, Held, Claimed, Fresh
  <2>q. QED BY <1>a, <1>b, <1>c, <1>e, <2>1, <2>3, <2>5, <2>6
<1>8. ASSUME NEW w \in Workers, WorkerTake(w) PROVE PendingIsOwned'
  <2>1. PICK j \in Queued : /\ wtask' = [wtask EXCEPT ![w] = j]
                            /\ Queued' = Queued \ {j} /\ j \in Tasks
    BY <1>8, TakeQueue
  <2>2. \A v \in Workers : wtask'[v] = IF v = w THEN j ELSE wtask[v]
    BY <1>0, <2>1
  <2>3. /\ UNCHANGED <<submitted, future, cancelled>>
        /\ ~HoldsTask(w) /\ \A v \in Workers : HoldsTask(v)' <=> v = w \/ HoldsTask(v)
    BY <1>8, TakeEffect
  <2>4. \A k \in Tasks : Held(k)' <=> (Held(k) \/ k = j)
    BY <2>2, <2>3
  <2> HIDE DEF Pending, Held, Claimed, Fresh
  <2>q. QED BY <1>a, <1>b, <1>d, <1>f, <2>1, <2>3, <2>4
<1>9. ASSUME NEW w \in Workers, WorkerRecord(w) PROVE PendingIsOwned'
  <2>1. \A k \in Tasks : Held(k)' <=> Held(k)
    BY <1>9, RecordEffect, ZenonT(30)
  <2>2. UNCHANGED <<submitted, future, queue, cancelled>>
    BY <1>9, RecordEffect, ZenonT(30)
  <2> HIDE DEF Pending, Held, Claimed, Fresh
  <2>q. QED BY <1>a, <1>b, <1>d, <1>e, <1>f, <2>1, <2>2
<1>10. ASSUME NEW w \in Workers, WorkerPublish(w) PROVE PendingIsOwned'
  <2>1. /\ UNCHANGED <<submitted, queue, cancelled>>
        /\ HoldsTask(w) /\ ~HoldsTask(w)'
        /\ \A v \in Workers : v # w => (HoldsTask(v)' <=> HoldsTask(v)) /\ wtask'[v] = wtask[v]
        /\ wresult[w] # "Pending" /\ Fulfil({wtask[w]}, wresult[w])
    BY <1>10, PublishEffect, Zenon
  <2>2. {wtask[w]} \in SUBSET Tasks /\ \A k \in {wtask[w]} : k <= submitted
    BY <2>1, OwnedIsSubmitted
  <2>3. (\A k \in Tasks : Pending(k)' <=> (Pending(k) /\ k \notin {wtask[w]})) /\ Fresh'
    BY <1>g, <2>1, <2>2, ZenonT(30)
  <2>4. \A k \in Tasks : Held(k)' <=> (Held(k) /\ k # wtask[w])
    BY <1>0, <2>1, ZenonT(30) DEF OwnersAreDisjoint
  <2>5. wtask[w] \notin Queued /\ ~Claimed(wtask[w])
    BY <1>0, <2>1 DEF OwnersAreDisjoint
  <2> HIDE DEF Pending, Held, Claimed, Fresh
  <2>q. QED BY <1>a, <1>b, <1>d, <1>e, <2>1, <2>3, <2>4, <2>5
<1>q. QED
  BY <1>1, <1>2, <1>3, <1>4, <1>5, <1>6, <1>7, <1>8, <1>9, <1>10, StepCases, Zenon DEF IInv
=============================================================================

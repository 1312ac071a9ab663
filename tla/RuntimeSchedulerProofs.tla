----------------------- MODULE RuntimeSchedulerProofs -----------------------
(***************************************************************************)
(* RuntimeScheduler for any number of clients, workers and jobs: sequential *)
(* jobs run alone, the statistics account for every accepted job, snapshots *)
(* agree with futures and the history is bounded.                           *)
(***************************************************************************)
EXTENDS RuntimeScheduler, TLAPS

\* A sequence is a function on 1 .. Len.
LEMMA LengthFacts ==
  ASSUME NEW S, NEW s \in Seq(S)
  PROVE  /\ Len(s) \in Nat
         /\ s \in [1 .. Len(s) -> S]
         /\ DOMAIN s = 1 .. Len(s)
OBVIOUS

\* The elements of a concatenation (a vector with another inserted at its end).
LEMMA ConcatFacts ==
  ASSUME NEW S, NEW s \in Seq(S), NEW t \in Seq(S)
  PROVE  /\ s \o t \in Seq(S)
         /\ Len(s \o t) = Len(s) + Len(t)
         /\ \A i \in 1 .. Len(s) + Len(t) :
              (s \o t)[i] = IF i <= Len(s) THEN s[i] ELSE t[i - Len(s)]
OBVIOUS

\* The elements of a range of a vector.
LEMMA SubSeqFacts ==
  ASSUME NEW S, NEW s, NEW m \in Int, NEW n \in Int,
         \A i \in m .. n : s[i] \in S
  PROVE  /\ SubSeq(s, m, n) \in Seq(S)
         /\ Len(SubSeq(s, m, n)) = IF m <= n THEN n - m + 1 ELSE 0
         /\ \A i \in 1 .. n - m + 1 : SubSeq(s, m, n)[i] = s[m + i - 1]
OBVIOUS

\* What is left of a queue whose front is popped.
LEMMA HeadTailFacts ==
  ASSUME NEW S, NEW s \in Seq(S), s # << >>
  PROVE  /\ Head(s) \in S
         /\ Tail(s) \in Seq(S)
         /\ Len(Tail(s)) = Len(s) - 1
         /\ \A i \in 1 .. Len(Tail(s)) : Tail(s)[i] = s[i + 1]
OBVIOUS

\* erase of the element at i closes the gap and keeps the order of the others.
LEMMA EraseAtProperties ==
  ASSUME NEW S, NEW q \in Seq(S), NEW i \in DOMAIN q
  PROVE  /\ EraseAt(q, i) \in Seq(S)
         /\ Len(EraseAt(q, i)) = Len(q) - 1
         /\ DOMAIN EraseAt(q, i) = 1..(Len(q) - 1)
         /\ \A k \in 1..(Len(q) - 1) : EraseAt(q, i)[k] = q[IF k < i THEN k ELSE k + 1]
<1> DEFINE a == SubSeq(q, 1, i - 1)
           b == SubSeq(q, i + 1, Len(q))
<1>1. Len(q) \in Nat /\ DOMAIN q = 1..Len(q) /\ i \in 1..Len(q)
  BY LengthFacts
<1>2. a \in Seq(S) /\ Len(a) = i - 1 /\ \A k \in 1..(i - 1) : a[k] = q[k]
  BY <1>1, SubSeqFacts
<1>3. b \in Seq(S) /\ Len(b) = Len(q) - i /\ \A k \in 1..(Len(q) - i) : b[k] = q[i + k]
  BY <1>1, SubSeqFacts
<1>4. EraseAt(q, i) = a \o b
  BY DEF EraseAt
<1> HIDE DEF a, b
<1>5a. /\ a \o b \in Seq(S) /\ Len(a \o b) = Len(a) + Len(b)
       /\ \A k \in 1..(Len(a) + Len(b)) : (a \o b)[k] = IF k <= Len(a) THEN a[k] ELSE b[k - Len(a)]
  BY Zenon, <1>2, <1>3, ConcatFacts
<1>5b. Len(a) + Len(b) = Len(q) - 1
  BY <1>1, <1>2, <1>3
<1>5. /\ a \o b \in Seq(S) /\ Len(a \o b) = Len(q) - 1
      /\ \A k \in 1..(Len(q) - 1) : (a \o b)[k] = IF k <= i - 1 THEN a[k] ELSE b[k - (i - 1)]
  BY Zenon, <1>2, <1>5a, <1>5b
<1>6. ASSUME NEW k \in 1..(Len(q) - 1)
      PROVE  (a \o b)[k] = q[IF k < i THEN k ELSE k + 1]
  <2>1. CASE k < i
    BY <2>1, <1>1, <1>2, <1>5
  <2>2. CASE ~(k < i)
    <3>1. k - (i - 1) \in 1..(Len(q) - i) /\ i + (k - (i - 1)) = k + 1 /\ ~(k <= i - 1)
      BY <2>2, <1>1
    <3>2. (a \o b)[k] = b[k - (i - 1)] /\ b[k - (i - 1)] = q[i + (k - (i - 1))]
      BY <3>1, <1>3, <1>5
    <3>q. QED BY <2>2, <3>1, <3>2
  <2>q. QED BY Zenon, <2>1, <2>2
<1>q. QED BY <1>4, <1>5, <1>6, LengthFacts

\* Without duplicates, erase removes one element and leaves none twice.
LEMMA EraseAtElements ==
  ASSUME NEW S, NEW q \in Seq(S), NEW i \in DOMAIN q,
         \A k, l \in DOMAIN q : q[k] = q[l] => k = l
  PROVE  /\ \A x : (\E k \in DOMAIN EraseAt(q, i) : EraseAt(q, i)[k] = x)
                     <=> (x # q[i] /\ \E k \in DOMAIN q : q[k] = x)
         /\ \A k, l \in DOMAIN EraseAt(q, i) : EraseAt(q, i)[k] = EraseAt(q, i)[l] => k = l
<1> DEFINE r == EraseAt(q, i)
           at(k) == IF k < i THEN k ELSE k + 1
<1>1. /\ Len(q) \in Nat /\ DOMAIN q = 1..Len(q) /\ i \in 1..Len(q)
      /\ DOMAIN r = 1..(Len(q) - 1) /\ \A k \in 1..(Len(q) - 1) : r[k] = q[at(k)]
  BY LengthFacts, EraseAtProperties
<1> HIDE DEF r
<1>2. /\ \A k \in 1..(Len(q) - 1) : at(k) \in 1..Len(q) /\ at(k) # i
      /\ \A k, l \in 1..(Len(q) - 1) : at(k) = at(l) => k = l
      /\ \A l \in 1..Len(q) : l # i => \E k \in 1..(Len(q) - 1) : at(k) = l
  <2>1. ASSUME NEW l \in 1..Len(q), l # i PROVE \E k \in 1..(Len(q) - 1) : at(k) = l
    <3>1. CASE l < i
      BY <3>1, <1>1
    <3>2. CASE l > i
      <4>1. l - 1 \in 1..(Len(q) - 1) /\ at(l - 1) = l
        BY <3>2, <1>1
      <4>q. QED BY <4>1
    <3>q. QED BY <2>1, <3>1, <3>2, <1>1
  <2>q. QED BY <1>1, <2>1
<1> HIDE DEF at
<1>3. \A k, l \in DOMAIN r : r[k] = r[l] => k = l
  BY <1>1, <1>2, Zenon
<1>4. ASSUME NEW x PROVE (\E k \in DOMAIN r : r[k] = x) <=> (x # q[i] /\ \E k \in DOMAIN q : q[k] = x)
  BY <1>1, <1>2, Zenon
<1>q. QED BY <1>3, <1>4 DEF r

\* What is left of a deque after pop_front, n times.
LEMMA SuffixProperties ==
  ASSUME NEW S, NEW q \in Seq(S), NEW n \in 0..Len(q)
  PROVE  /\ SubSeq(q, n + 1, Len(q)) \in Seq(S)
         /\ Len(SubSeq(q, n + 1, Len(q))) = Len(q) - n
         /\ \A i \in 1..(Len(q) - n) : SubSeq(q, n + 1, Len(q))[i] = q[n + i]
<1>1. Len(q) \in Nat /\ \A i \in 1..Len(q) : q[i] \in S
  BY LengthFacts
<1>2. PICK m \in Int : m = n + 1
  OBVIOUS
<1>3. \A i \in m..Len(q) : q[i] \in S
  BY <1>1, <1>2
<1>4. /\ SubSeq(q, m, Len(q)) \in Seq(S)
      /\ Len(SubSeq(q, m, Len(q))) = IF m <= Len(q) THEN Len(q) - m + 1 ELSE 0
      /\ \A i \in 1..(Len(q) - m + 1) : SubSeq(q, m, Len(q))[i] = q[m + i - 1]
  BY <1>1, <1>3, SubSeqFacts
<1>5. Len(q) - m + 1 = Len(q) - n /\ \A i \in 1..(Len(q) - n) : m + i - 1 = n + i
  BY <1>1, <1>2
<1>6. Len(SubSeq(q, m, Len(q))) = Len(q) - n
  BY <1>1, <1>2, <1>4
<1>7. \A i \in 1..(Len(q) - n) : SubSeq(q, m, Len(q))[i] = q[n + i]
  BY <1>4, <1>5, Zenon
<1>q. QED BY <1>2, <1>4, <1>6, <1>7

-----------------------------------------------------------------------------
\* CompleteRecordLocked and the pruning after it: a record becomes the new one or is
\* pruned, never that of an outstanding job; what keeps its record is still in
\* completed_order_, which is within its limit.
LEMMA CompleteRecords ==
  ASSUME SchedulerTypeOK, MaximumCompletedHistorySize \in Nat,
         NEW recs \in [Jobs -> Snapshots \cup {"none"}], NEW js \in Seq(Jobs),
         NEW left \in SUBSET Jobs, CompleteRecordsLocked(recs, js, left)
  PROVE  /\ records' \in [Jobs -> Snapshots \cup {"none"}] /\ completed_order' \in Seq(Jobs)
         /\ \A j \in Jobs : records'[j] \in {recs[j], "none"}
         /\ \A j \in left : records'[j] = recs[j]
         /\ MaximumCompletedHistorySize > 0 =>
              Len(completed_order') <= MaximumCompletedHistorySize
         /\ \A j \in Jobs \ left :
              (j \in Range(completed_order) \cup Range(js) /\ records'[j] # "none")
                => j \in Range(completed_order')
<1> DEFINE order == completed_order \o js
           n == IF MaximumCompletedHistorySize = 0 \/ Excess(order) <= 0 THEN 0
                ELSE Excess(order)
           dropped == { order[i] : i \in 1..n } \ left
           kept == SubSeq(order, n + 1, Len(order))
<1>1. /\ records' = [j \in Jobs |-> IF j \in dropped THEN "none" ELSE recs[j]]
      /\ completed_order' = kept
  BY DEF CompleteRecordsLocked
<1>2. /\ completed_order \in Seq(Jobs) /\ Len(completed_order) \in Nat /\ Len(js) \in Nat
      /\ DOMAIN completed_order = 1..Len(completed_order) /\ DOMAIN js = 1..Len(js)
  BY LengthFacts DEF SchedulerTypeOK
<1>3. /\ order \in Seq(Jobs) /\ Len(order) = Len(completed_order) + Len(js)
      /\ \A i \in 1..(Len(completed_order) + Len(js)) :
           order[i] = IF i <= Len(completed_order) THEN completed_order[i]
                      ELSE js[i - Len(completed_order)]
  BY Zenon, <1>2, ConcatFacts
<1> HIDE DEF order
<1>4. /\ Len(order) \in Nat /\ \A i \in 1..Len(order) : order[i] \in Jobs
      /\ DOMAIN order = 1..Len(order)
  BY <1>3, LengthFacts
<1>5. /\ n \in 0..Len(order)
      /\ MaximumCompletedHistorySize > 0 => Len(order) - n <= MaximumCompletedHistorySize
  BY <1>4 DEF Excess
<1> HIDE DEF n
<1>6. /\ kept \in Seq(Jobs) /\ Len(kept) = Len(order) - n
      /\ \A i \in 1..(Len(order) - n) : kept[i] = order[n + i]
  BY <1>3, <1>5, SuffixProperties
<1>7. ASSUME NEW j \in Jobs, j \notin left, j \in Range(completed_order) \cup Range(js),
             records'[j] # "none"
      PROVE  j \in Range(kept)
  <2>1. PICK i \in 1..Len(order) : order[i] = j
    <3>1. CASE j \in Range(completed_order)
      BY <3>1, <1>2, <1>3 DEF Range
    <3>2. CASE j \in Range(js)
      <4>1. PICK k \in 1..Len(js) : js[k] = j
        BY <3>2, <1>2 DEF Range
      <4>2. Len(completed_order) + k \in 1..Len(order) /\ order[Len(completed_order) + k] = j
        BY <4>1, <1>2, <1>3
      <4>q. QED BY <4>2
    <3>q. QED BY <1>7, <3>1, <3>2
  <2>2. j \notin dropped
    BY <1>1, <1>7
  <2>3. i \notin 1..n
    BY <2>1, <2>2, <1>7
  <2>4. i - n \in 1..(Len(order) - n) /\ n + (i - n) = i
    BY <2>1, <2>3, <1>4, <1>5
  <2>5. i - n \in DOMAIN kept /\ kept[i - n] = j
    BY <2>1, <2>4, <1>6, LengthFacts
  <2>q. QED BY <2>5, Zenon DEF Range
<1>8. completed_order' \in Seq(Jobs) /\ (MaximumCompletedHistorySize > 0 =>
         Len(completed_order') <= MaximumCompletedHistorySize)
  BY <1>1, <1>5, <1>6
<1>9. /\ records' \in [Jobs -> Snapshots \cup {"none"}]
      /\ \A j \in Jobs : records'[j] \in {recs[j], "none"}
      /\ \A j \in left : records'[j] = recs[j]
  BY <1>1
<1>q. QED BY <1>1, <1>7, <1>8, <1>9, Zenon


-----------------------------------------------------------------------------
(* Types                                                                   *)

\* The statistics stay natural numbers.
LEMMA CountType ==
  ASSUME SchedulerTypeOK, NEW c \in Counters
  PROVE  /\ Count(c) \in [Counters -> Nat]
         /\ \A d \in Counters : Count(c)[d] = IF d = c THEN statistics[d] + 1 ELSE statistics[d]
  BY DEF SchedulerTypeOK, Count

\* Initially every variable has its type.
LEMMA InitTypes == ASSUME SchedulerInit PROVE SchedulerTypeOK
<1>1. (CHOOSE j \in Jobs : TRUE) \in Jobs
  BY SchedulerAssumption
<1>2. /\ state \in [Jobs -> {"new", "queued", "running", "done"}]
      /\ stopRequested \in [Jobs -> BOOLEAN] /\ paused \in [Jobs -> BOOLEAN]
      /\ cancelRequested \in [Jobs -> BOOLEAN]
      /\ records \in [Jobs -> Snapshots \cup {"none"}]
      /\ future \in [Jobs -> Terminal \cup {"pending"}]
  BY DEF SchedulerInit
<1>3. /\ queue \in Seq(Jobs) /\ completed_order \in Seq(Jobs)
      /\ statistics \in [Counters -> Nat] /\ running_count \in Nat
  BY DEF SchedulerInit
<1>3a. sequential_running \in BOOLEAN
  BY Zenon DEF SchedulerInit
<1>4. position \in [Threads -> Places] /\ cur \in [Threads -> Jobs]
  BY <1>1 DEF SchedulerInit, Places
<1>5. res \in [Threads -> Terminal \cup {"pending"}] /\ todo \in [Threads -> Seq(Jobs)]
  BY DEF SchedulerInit
<1>q. QED BY <1>2, <1>3, <1>3a, <1>4, <1>5, Zenon DEF SchedulerTypeOK

\* What is used of the finiteness of the running jobs: Shutdown can list them, they are
\* counted, and none running is the only way to count none.
RunningIsListed ==
  /\ JobsToStop(Running) \in Seq(Jobs)
  /\ \A i \in DOMAIN JobsToStop(Running) : JobsToStop(Running)[i] \in Running
  /\ Cardinality({ j \in Running : ~stopRequested[j] }) \in Nat
  /\ Running # {} => Cardinality(Running) # 0

\* Every step of a client call keeps the types.
LEMMA ClientTypes ==
  ASSUME SchedulerTypeOK, RunningIsListed, NEW t \in Clients, ClientCall(t)
  PROVE  SchedulerTypeOK'
<1> USE DEF jobVars, controlVars, recordVars, runVars, lifeVars, threadVars, Goto
<1>0. t \in Threads
  BY DEF Threads
<1>1. ASSUME NEW j \in Jobs, Submit(t, j) PROVE SchedulerTypeOK'
  <2>1. Append(queue, j) \in Seq(Jobs) /\ Count("accepted") \in [Counters -> Nat]
        /\ Count("rejected") \in [Counters -> Nat]
    BY CountType DEF SchedulerTypeOK, Counters
  <2>2. CASE accepting /\ Len(queue) < MaximumQueueSize
    <3>1. /\ state' = [state EXCEPT ![j] = "queued"]
          /\ records' = [records EXCEPT ![j] = "Created"]
          /\ queue' = Append(queue, j) /\ statistics' = Count("accepted")
          /\ position' = [position EXCEPT ![t] = "notify"] /\ future' = future
          /\ UNCHANGED <<stopRequested, paused, cancelRequested, completed_order, running_count,
                         sequential_running, cur, res, todo>>
      BY <1>1, <2>2, Zenon DEF Submit
    <3>q. QED BY <1>0, <2>1, <3>1 DEF SchedulerTypeOK, Places, Snapshots
  <2>3. CASE ~(accepting /\ Len(queue) < MaximumQueueSize)
    <3>1. /\ state' = [state EXCEPT ![j] = "done"] /\ future' = [future EXCEPT ![j] = "Failed"]
          /\ statistics' = Count("rejected")
          /\ UNCHANGED <<position, records, queue, stopRequested, paused, cancelRequested,
                         completed_order, running_count, sequential_running, cur, res, todo>>
      BY <1>1, <2>3, Zenon DEF Submit
    <3>q. QED BY <2>1, <3>1 DEF SchedulerTypeOK, Terminal
  <2>q. QED BY <2>2, <2>3
<1>2. ASSUME NEW j \in Jobs, Pause(t, j) PROVE SchedulerTypeOK'
  BY <1>0, <1>2 DEF Pause, SchedulerTypeOK, Places, Snapshots
<1>3. ASSUME NEW j \in Jobs, Resume(t, j) PROVE SchedulerTypeOK'
  BY <1>0, <1>3 DEF Resume, SchedulerTypeOK, Places, Snapshots
<1>4. ASSUME NEW j \in Jobs, StopQueued(t, j) PROVE SchedulerTypeOK'
  <2>1. queue' \in Seq(Jobs)
    BY <1>4, EraseAtProperties DEF StopQueued, SchedulerTypeOK
  <2>2. /\ [records EXCEPT ![j] = "Cancelled"] \in [Jobs -> Snapshots \cup {"none"}]
        /\ <<j>> \in Seq(Jobs) /\ Outstanding \ {j} \in SUBSET Jobs
    BY DEF SchedulerTypeOK, Snapshots, Terminal, Outstanding
  <2>3. records' \in [Jobs -> Snapshots \cup {"none"}] /\ completed_order' \in Seq(Jobs)
    BY <1>4, <2>2, CompleteRecords, SchedulerAssumption, Zenon DEF StopQueued
  <2>4. statistics' \in [Counters -> Nat]
    BY <1>4, CountType DEF StopQueued, Counters
  <2>q. QED BY <1>0, <1>4, <2>1, <2>2, <2>3, <2>4, Zenon DEF StopQueued, SchedulerTypeOK, Places
<1>5. ASSUME NEW j \in Jobs, StopRunning(t, j) PROVE SchedulerTypeOK'
  <2>1. Count("stopped") \in [Counters -> Nat] /\ <<j>> \in Seq(Jobs)
    BY CountType DEF Counters
  <2>q. QED BY <1>0, <1>5, <2>1 DEF StopRunning, SchedulerTypeOK, Places, Snapshots, Terminal
<1>6. ASSUME SubmitRefused(t) PROVE SchedulerTypeOK'
  BY <1>6, CountType, Zenon DEF SubmitRefused, SchedulerTypeOK, Counters
<1>6a. ASSUME NEW j \in Jobs, SubmitThrows(t, j) PROVE SchedulerTypeOK'
  BY <1>6a, CountType, Zenon DEF SubmitThrows, SchedulerTypeOK, Counters
<1>7. ASSUME Shutdown(t) PROVE SchedulerTypeOK'
  <2> DEFINE newly == { j \in Running : ~stopRequested[j] }
             recs == [j \in Jobs |-> IF j \in Range(queue) \cup Running THEN "Cancelled"
                                     ELSE records[j]]
  <2>1. /\ state' = [j \in Jobs |-> IF j \in Range(queue) THEN "done" ELSE state[j]]
        /\ stopRequested' = [j \in Jobs |-> stopRequested[j] \/ j \in Running]
        /\ statistics' = StatisticsAtShutdown(Cardinality(newly))
        /\ queue' = <<>> /\ todo' = [todo EXCEPT ![t] = queue \o JobsToStop(Running)]
        /\ position' = [position EXCEPT ![t] = "shutdown"]
        /\ CompleteRecordsLocked(recs, queue, Outstanding \ Range(queue))
        /\ UNCHANGED <<paused, cancelRequested, future, runVars, cur, res>>
    BY <1>7 DEF Shutdown, Running
  <2>2. Cardinality(newly) \in Nat
    BY Zenon DEF RunningIsListed
  <2>3. Len(queue) \in Nat
    BY LengthFacts DEF SchedulerTypeOK
  <2>4. statistics' \in [Counters -> Nat]
    <3>1. PICK n \in Nat : n = Cardinality(newly)
      BY <2>2
    <3>2. statistics' = [statistics EXCEPT !["cancelled"] = @ + Len(queue), !["stopped"] = @ + n]
      BY <2>1, <3>1, Zenon DEF StatisticsAtShutdown
    <3>3. /\ statistics \in [Counters -> Nat] /\ statistics["cancelled"] \in Nat
          /\ statistics["stopped"] \in Nat
      BY DEF SchedulerTypeOK, Counters
    <3>4. PICK a \in Nat, b \in Nat : /\ a = statistics["cancelled"] + Len(queue)
                                      /\ b = statistics["stopped"] + n
      BY <3>3, <2>3
    <3>5. statistics' = [statistics EXCEPT !["cancelled"] = a, !["stopped"] = b]
      BY <3>2, <3>3, <3>4
    <3>q. QED BY <3>3, <3>5, Zenon
  <2>5. JobsToStop(Running) \in Seq(Jobs)
    BY DEF RunningIsListed
  <2>6. queue \o JobsToStop(Running) \in Seq(Jobs)
    BY <2>5, ConcatFacts DEF SchedulerTypeOK
  <2>7. recs \in [Jobs -> Snapshots \cup {"none"}] /\ queue \in Seq(Jobs)
        /\ Outstanding \ Range(queue) \in SUBSET Jobs
    BY DEF SchedulerTypeOK, Snapshots, Terminal, Outstanding
  <2>8. records' \in [Jobs -> Snapshots \cup {"none"}] /\ completed_order' \in Seq(Jobs)
    <3> HIDE DEF recs
    <3>q. QED BY <2>1, <2>7, CompleteRecords, SchedulerAssumption
  <2>q. QED BY <1>0, <2>1, <2>4, <2>6, <2>8 DEF SchedulerTypeOK, Places
<1>8. ASSUME ShutdownWaits(t) PROVE SchedulerTypeOK'
  BY <1>0, <1>8 DEF ShutdownWaits, SchedulerTypeOK, Places
<1>q. QED BY <1>1, <1>2, <1>3, <1>4, <1>5, <1>6, <1>6a, <1>7, <1>8 DEF ClientCall


\* The rest of a call keeps the types.
LEMMA ContinueTypes ==
  ASSUME SchedulerTypeOK, NEW t \in Threads, Continue(t)
  PROVE  SchedulerTypeOK'
<1> USE DEF jobVars, controlVars, recordVars, runVars, lifeVars, threadVars, Goto
<1>1. ASSUME RequestStop(t) PROVE SchedulerTypeOK'
  <2>1. todo[t] \in Seq(Jobs) /\ todo[t] # <<>>
    BY <1>1 DEF RequestStop, SchedulerTypeOK
  <2>2. Head(todo[t]) \in Jobs /\ Tail(todo[t]) \in Seq(Jobs)
    BY <2>1, HeadTailFacts
  <2>3. PICK j \in Jobs : j = Head(todo[t])
    BY <2>2
  <2>4. /\ cancelRequested' = [cancelRequested EXCEPT ![j] = TRUE]
        /\ paused' = [paused EXCEPT ![j] = FALSE]
        /\ future' = [future EXCEPT ![j] =
             IF state[j] = "done" /\ @ = "pending" /\ ~stopRequested[j] THEN "Cancelled" ELSE @]
        /\ todo' = [todo EXCEPT ![t] = Tail(@)]
        /\ UNCHANGED <<state, stopRequested, queue, records, completed_order, statistics,
                       running_count, sequential_running, cur, res>>
    BY <1>1, <2>3, Zenon DEF RequestStop
  <2>5. position' \in [Threads -> Places]
    BY <1>1 DEF RequestStop, SchedulerTypeOK, Places
  <2>6. future' \in [Jobs -> Terminal \cup {"pending"}]
    BY <2>4 DEF SchedulerTypeOK, Terminal
  <2>7. cancelRequested' \in [Jobs -> BOOLEAN] /\ paused' \in [Jobs -> BOOLEAN]
    BY <2>4 DEF SchedulerTypeOK
  <2>8. todo' \in [Threads -> Seq(Jobs)]
    BY <2>2, <2>4 DEF SchedulerTypeOK
  <2>q. QED BY <2>4, <2>5, <2>6, <2>7, <2>8 DEF SchedulerTypeOK
<1>2. ASSUME StopWorkers(t) PROVE SchedulerTypeOK'
  BY <1>2 DEF StopWorkers, SchedulerTypeOK, Places
<1>3. ASSUME FinishShutdown(t) PROVE SchedulerTypeOK'
  BY <1>3 DEF FinishShutdown, SchedulerTypeOK, Places
<1>4. ASSUME ShutdownWaitReturns(t) PROVE SchedulerTypeOK'
  BY <1>4 DEF ShutdownWaitReturns, SchedulerTypeOK, Places
<1>5. ASSUME NotifyWaiters(t) PROVE SchedulerTypeOK'
  BY <1>5 DEF NotifyWaiters, SchedulerTypeOK, Places
<1>q. QED BY <1>1, <1>2, <1>3, <1>4, <1>5 DEF Continue

\* Run keeps the types.
LEMMA WorkerTypes ==
  ASSUME SchedulerTypeOK, FutureIsForeseen, NEW w \in Workers, WorkerStep(w)
  PROVE  SchedulerTypeOK'
<1> USE DEF jobVars, controlVars, recordVars, runVars, lifeVars, threadVars, Goto
<1>0. w \in Threads
  BY DEF Threads
<1>1. ASSUME WorkerExits(w) PROVE SchedulerTypeOK'
  BY <1>0, <1>1 DEF WorkerExits, SchedulerTypeOK, Places
<1>2. ASSUME StartJob(w) PROVE SchedulerTypeOK'
  <2>1. PICK i \in DOMAIN queue :
          /\ queue' = EraseAt(queue, i) /\ cur' = [cur EXCEPT ![w] = queue[i]]
          /\ state' = [state EXCEPT ![queue[i]] = "running"]
          /\ records' = [records EXCEPT ![queue[i]] = "Running"]
          /\ sequential_running' = (queue[i] \in Sequential)
    BY <1>2, Zenon DEF StartJob
  <2>2. queue[i] \in Jobs /\ EraseAt(queue, i) \in Seq(Jobs)
    BY EraseAtProperties DEF SchedulerTypeOK
  <2>3. Count("started") \in [Counters -> Nat]
    BY CountType DEF Counters
  <2>4. sequential_running' \in BOOLEAN
    BY <2>1
  <2>5. /\ running_count' = running_count + 1 /\ statistics' = Count("started")
        /\ position' = [position EXCEPT ![w] = "callback"]
        /\ UNCHANGED <<stopRequested, paused, cancelRequested, future, completed_order, res, todo>>
    BY <1>2 DEF StartJob
  <2>q. QED BY <1>0, <2>1, <2>2, <2>3, <2>4, <2>5 DEF SchedulerTypeOK, Places, Snapshots
<1>3. ASSUME CallbackReturns(w) PROVE SchedulerTypeOK'
  <2>1. \A s \in CallbackStates : NormalizeResult(cur[w], s) \in Terminal
    BY DEF NormalizeResult, Terminal
  <2>q. QED BY <1>0, <1>3, <2>1 DEF CallbackReturns, SchedulerTypeOK, Places
<1>4. ASSUME CompleteJob(w), res[w] \in Terminal PROVE SchedulerTypeOK'
  <2>1. PICK j \in Jobs : j = cur[w]
    BY <1>0 DEF SchedulerTypeOK
  <2>2. /\ running_count' = IF running_count > 0 THEN running_count - 1 ELSE 0
        /\ sequential_running' = (sequential_running /\ j \notin Sequential)
        /\ state' = [state EXCEPT ![j] = "done"]
        /\ CompleteRecordsLocked(FinalRecord(j, res[w]), <<j>>, Outstanding \ {j})
        /\ statistics' = Count(CounterOf(res[w]))
        /\ position' = [position EXCEPT ![w] = "promise"]
        /\ UNCHANGED <<stopRequested, paused, cancelRequested, future, queue, cur, res, todo>>
    BY <1>4, <2>1, Zenon DEF CompleteJob
  <2>3. /\ FinalRecord(j, res[w]) \in [Jobs -> Snapshots \cup {"none"}]
        /\ <<j>> \in Seq(Jobs) /\ Outstanding \ {j} \in SUBSET Jobs
    BY <1>4 DEF FinalRecord, SchedulerTypeOK, Snapshots, Outstanding
  <2>4. records' \in [Jobs -> Snapshots \cup {"none"}] /\ completed_order' \in Seq(Jobs)
    BY <2>2, <2>3, CompleteRecords, SchedulerAssumption, Zenon
  <2>5. CounterOf(res[w]) \in Counters
    BY DEF CounterOf, Counters
  <2>6. Count(CounterOf(res[w])) \in [Counters -> Nat]
    BY <2>5, CountType
  <2>7. sequential_running' \in BOOLEAN
    BY <2>2, Zenon
  <2>8. running_count' \in Nat
    BY <2>2 DEF SchedulerTypeOK
  <2>q. QED BY <1>0, <2>2, <2>4, <2>6, <2>7, <2>8, Zenon DEF SchedulerTypeOK, Places
<1>5. ASSUME SetPromiseSafely(w), res[w] \in Terminal PROVE SchedulerTypeOK'
  BY <1>0, <1>5 DEF SetPromiseSafely, SchedulerTypeOK, Places
<1>q. QED BY <1>1, <1>2, <1>3, <1>4, <1>5 DEF WorkerStep, FutureIsForeseen, CompleteJob,
                                                  SetPromiseSafely

\* Every step keeps the types.
LEMMA NextTypes ==
  ASSUME SchedulerInv, RunningIsListed, [SchedulerNext]_schedulerVars
  PROVE  SchedulerTypeOK'
<1> USE DEF jobVars, controlVars, recordVars, runVars, lifeVars, threadVars, Goto
<1>0. SchedulerTypeOK /\ FutureIsForeseen
  BY DEF SchedulerInv
<1>1. ASSUME NEW w \in Workers, WaitForWork(w) PROVE SchedulerTypeOK'
  BY <1>0, <1>1 DEF WaitForWork, SchedulerTypeOK
<1>2. ASSUME NEW w \in Workers, WaitIfPaused(w) PROVE SchedulerTypeOK'
  <2>1. position' \in [Threads -> Places]
    <3>1. \/ position' = [position EXCEPT ![w] = "pausedWait"]
          \/ position' = [position EXCEPT ![w] = "callback"]
      BY <1>2, Zenon DEF WaitIfPaused
    <3>2. position \in [Threads -> Places]
      BY <1>0 DEF SchedulerTypeOK
    <3>3. "pausedWait" \in Places /\ "callback" \in Places
      BY Zenon DEF Places
    <3>q. QED BY <3>1, <3>2, <3>3
  <2>2. UNCHANGED <<state, stopRequested, paused, cancelRequested, records, future, queue,
                    completed_order, statistics, running_count, sequential_running, cur, res, todo>>
    BY <1>2 DEF WaitIfPaused
  <2>q. QED BY <1>0, <2>1, <2>2 DEF SchedulerTypeOK
<1>3. ASSUME NEW w \in Workers, ShutdownFromCallback(w) PROVE SchedulerTypeOK'
  BY <1>0, <1>3 DEF ShutdownFromCallback, SchedulerTypeOK
<1>4. ASSUME SchedulerWakeup PROVE SchedulerTypeOK'
  BY <1>0, <1>4 DEF SchedulerWakeup, SchedulerTypeOK
<1>5. ASSUME UNCHANGED schedulerVars PROVE SchedulerTypeOK'
  BY <1>0, <1>5 DEF schedulerVars, SchedulerTypeOK
<1>q. QED BY <1>0, <1>1, <1>2, <1>3, <1>4, <1>5, ClientTypes, ContinueTypes, WorkerTypes
          DEF SchedulerNext, ShutDown

-----------------------------------------------------------------------------
(* Steps                                                                   *)

\* What the steps other than these five leave alone: the deque, the states, the number of
\* running jobs and, but for a Submit that throws, the outcomes counted.
Uncounted ==
  /\ thrown' = thrown
  /\ \A c \in {"accepted", "completed", "cancelled", "failed"} : statistics'[c] = statistics[c]

Quiet ==
  /\ UNCHANGED <<state, queue, running_count, sequential_running, completed_order>>
  /\ Uncounted \/ \E t \in Clients, j \in Jobs : SubmitThrows(t, j)
  /\ \A w \in Workers : Executing(w)' => Executing(w) /\ cur'[w] = cur[w]
  /\ \A j \in Jobs : records'[j] = records[j] \/ (j \in Outstanding /\ records'[j] # "none")
  /\ \A j \in Jobs : stopRequested[j] => stopRequested'[j]

\* Every step is one of five, or quiet.
LEMMA Steps ==
  ASSUME SchedulerTypeOK, [SchedulerNext]_schedulerVars
  PROVE  \/ \E t \in Clients, j \in Jobs : Submit(t, j) \/ StopQueued(t, j)
         \/ \E t \in Clients : Shutdown(t)
         \/ \E w \in Workers : StartJob(w) \/ CompleteJob(w)
         \/ Quiet
<1> USE DEF jobVars, controlVars, recordVars, runVars, lifeVars, threadVars, Goto, Executing
<1>1. ASSUME NEW t \in Clients, NEW j \in Jobs, Pause(t, j) PROVE Quiet
  BY <1>1 DEF Pause, Quiet, Uncounted, SchedulerTypeOK, Threads
<1>2. ASSUME NEW t \in Clients, NEW j \in Jobs, Resume(t, j) PROVE Quiet
  BY <1>2 DEF Resume, Quiet, Uncounted, SchedulerTypeOK, Threads
<1>3. ASSUME NEW t \in Clients, NEW j \in Jobs, StopRunning(t, j) PROVE Quiet
  <2>1. j \in Outstanding
    BY <1>3 DEF StopRunning, Outstanding
  <2>q. QED BY <1>3, <2>1 DEF StopRunning, Quiet, Uncounted, SchedulerTypeOK, Threads, Count, Counters
<1>4. ASSUME NEW t \in Clients, SubmitRefused(t) PROVE Quiet
  BY <1>4 DEF SubmitRefused, Quiet, Uncounted, SchedulerTypeOK, Count, Counters
<1>4a. ASSUME NEW t \in Clients, NEW j \in Jobs, SubmitThrows(t, j) PROVE Quiet
  BY <1>4a, Zenon DEF SubmitThrows, Quiet
<1>5. ASSUME NEW t \in Clients, ShutdownWaits(t) PROVE Quiet
  BY <1>5 DEF ShutdownWaits, Quiet, Uncounted, SchedulerTypeOK, Threads
<1>6. ASSUME NEW t \in Threads, Continue(t) PROVE Quiet
  <2>1. CASE RequestStop(t)
    BY <2>1 DEF RequestStop, Quiet, Uncounted, SchedulerTypeOK, Threads
  <2>2. CASE StopWorkers(t)
    BY <2>2 DEF StopWorkers, Quiet, Uncounted, SchedulerTypeOK, Threads
  <2>3. CASE FinishShutdown(t)
    BY <2>3 DEF FinishShutdown, Quiet, Uncounted, SchedulerTypeOK, Threads
  <2>4. CASE ShutdownWaitReturns(t)
    BY <2>4 DEF ShutdownWaitReturns, Quiet, Uncounted, SchedulerTypeOK, Threads
  <2>5. CASE NotifyWaiters(t)
    BY <2>5 DEF NotifyWaiters, Quiet, Uncounted, SchedulerTypeOK, Threads
  <2>q. QED BY <1>6, <2>1, <2>2, <2>3, <2>4, <2>5 DEF Continue
<1>7. ASSUME NEW w \in Workers, WorkerExits(w) PROVE Quiet
  BY <1>7 DEF WorkerExits, Quiet, Uncounted, SchedulerTypeOK, Threads
<1>8. ASSUME NEW w \in Workers, CallbackReturns(w) PROVE Quiet
  BY <1>8 DEF CallbackReturns, Quiet, Uncounted, SchedulerTypeOK, Threads
<1>9. ASSUME NEW w \in Workers, SetPromiseSafely(w) PROVE Quiet
  BY <1>9 DEF SetPromiseSafely, Quiet, Uncounted, SchedulerTypeOK, Threads
<1>10. ASSUME NEW w \in Workers, WaitForWork(w) PROVE Quiet
  BY <1>10, Zenon DEF WaitForWork, Quiet, Uncounted
<1>11. ASSUME NEW w \in Workers, WaitIfPaused(w) PROVE Quiet
  BY <1>11 DEF WaitIfPaused, Quiet, Uncounted, SchedulerTypeOK, Threads
<1>12. ASSUME NEW w \in Workers, ShutdownFromCallback(w) PROVE Quiet
  BY <1>12, Zenon DEF ShutdownFromCallback, Quiet, Uncounted
<1>13. ASSUME SchedulerWakeup PROVE Quiet
  BY <1>13, Zenon DEF SchedulerWakeup, Quiet, Uncounted
<1>14. ASSUME UNCHANGED schedulerVars PROVE Quiet
  BY <1>14, Zenon DEF schedulerVars, Quiet, Uncounted
<1>q. QED BY <1>1, <1>2, <1>3, <1>4, <1>4a, <1>5, <1>6, <1>7, <1>8, <1>9, <1>10, <1>11, <1>12,
             <1>13, <1>14, Zenon DEF SchedulerNext, ShutDown, ClientCall, WorkerStep


-----------------------------------------------------------------------------
(* The deque, the running jobs and the statistics                          *)

\* Submit appends a new job or refuses it.
LEMMA SubmitEffect ==
  ASSUME SchedulerTypeOK, NEW t, NEW j \in Jobs, Submit(t, j)
  PROVE  /\ state[j] = "new"
         /\ \/ /\ state' = [state EXCEPT ![j] = "queued"] /\ queue' = Append(queue, j)
               /\ statistics' = Count("accepted") /\ records' = [records EXCEPT ![j] = "Created"]
               /\ future' = future
            \/ /\ state' = [state EXCEPT ![j] = "done"] /\ queue' = queue
               /\ statistics' = Count("rejected") /\ records' = records
               /\ future' = [future EXCEPT ![j] = "Failed"]
         /\ position' = position \/ position' = [position EXCEPT ![t] = "notify"]
         /\ UNCHANGED <<running_count, sequential_running, cur, completed_order, stopRequested,
                        res, todo>>
  BY Zenon DEF Submit, Goto, runVars

\* StartJob moves a job from the deque to a worker.
LEMMA StartEffect ==
  ASSUME NEW w \in Workers, StartJob(w)
  PROVE  \E i \in DOMAIN queue :
           /\ IsNextJob(i) /\ queue' = EraseAt(queue, i) /\ cur' = [cur EXCEPT ![w] = queue[i]]
           /\ state' = [state EXCEPT ![queue[i]] = "running"]
           /\ records' = [records EXCEPT ![queue[i]] = "Running"]
           /\ sequential_running' = (queue[i] \in Sequential)
           /\ running_count' = running_count + 1 /\ statistics' = Count("started")
           /\ position' = [position EXCEPT ![w] = "callback"]
           /\ UNCHANGED <<completed_order, future, stopRequested, res, todo>>
  BY Zenon DEF StartJob, Goto

\* CompleteJob ends the worker's job.
LEMMA CompleteEffect ==
  ASSUME SchedulerTypeOK, NEW w \in Workers, CompleteJob(w)
  PROVE  \E j \in Jobs :
           /\ j = cur[w] /\ position[w] = "complete" /\ state' = [state EXCEPT ![j] = "done"]
           /\ running_count' = IF running_count > 0 THEN running_count - 1 ELSE 0
           /\ sequential_running' = (sequential_running /\ j \notin Sequential)
           /\ CompleteRecordsLocked(FinalRecord(j, res[w]), <<j>>, Outstanding \ {j})
           /\ statistics' = Count(CounterOf(res[w]))
           /\ position' = [position EXCEPT ![w] = "promise"]
           /\ UNCHANGED <<queue, cur, future, stopRequested, res, todo>>
<1>1. cur[w] \in Jobs
  BY DEF SchedulerTypeOK, Threads
<1>q. QED BY <1>1, Zenon DEF CompleteJob, Goto

\* StopQueued erases a job that waits.
LEMMA StopEffect ==
  ASSUME NEW t, NEW j \in Jobs, StopQueued(t, j)
  PROVE  /\ state[j] = "queued" /\ state' = [state EXCEPT ![j] = "done"]
         /\ \E i \in DOMAIN queue : queue[i] = j /\ queue' = EraseAt(queue, i)
         /\ statistics' = [Count("cancelled") EXCEPT !["stopped"] = @ + 1]
         /\ CompleteRecordsLocked([records EXCEPT ![j] = "Cancelled"], <<j>>, Outstanding \ {j})
         /\ todo' = [todo EXCEPT ![t] = <<j>>] /\ position' = [position EXCEPT ![t] = "stopping"]
         /\ UNCHANGED <<running_count, sequential_running, cur, future, stopRequested, res>>
  BY Zenon DEF StopQueued, Goto, runVars

\* Shutdown takes the deque and asks the running jobs to stop.
LEMMA ShutdownEffect ==
  ASSUME NEW t, Shutdown(t)
  PROVE  /\ state' = [j \in Jobs |-> IF j \in Range(queue) THEN "done" ELSE state[j]]
         /\ queue' = <<>>
         /\ statistics' = StatisticsAtShutdown(Cardinality({ j \in Running : ~stopRequested[j] }))
         /\ stopRequested' = [j \in Jobs |-> stopRequested[j] \/ j \in Running]
         /\ CompleteRecordsLocked(
              [j \in Jobs |-> IF j \in Range(queue) \cup Running THEN "Cancelled" ELSE records[j]],
              queue, Outstanding \ Range(queue))
         /\ todo' = [todo EXCEPT ![t] = queue \o JobsToStop(Running)]
         /\ position' = [position EXCEPT ![t] = "shutdown"]
         /\ UNCHANGED <<running_count, sequential_running, cur, future, res>>
  BY Zenon DEF Shutdown, Goto, runVars, Running

\* Every step keeps the deque the list of the queued jobs.
LEMMA QueueStep ==
  ASSUME SchedulerInv, [SchedulerNext]_schedulerVars
  PROVE  QueueHoldsQueued'
<1>0. SchedulerTypeOK /\ QueueHoldsQueued /\ RunningIsOwned
  BY DEF SchedulerInv
<1>a. queue \in Seq(Jobs) /\ Len(queue) \in Nat /\ DOMAIN queue = 1..Len(queue)
      /\ \A i \in DOMAIN queue : queue[i] \in Jobs
  BY <1>0, LengthFacts DEF SchedulerTypeOK
<1>b. state \in [Jobs -> {"new", "queued", "running", "done"}]
  BY <1>0 DEF SchedulerTypeOK
<1>1. ASSUME NEW t \in Clients, NEW j \in Jobs, Submit(t, j) PROVE QueueHoldsQueued'
  <2>1. state[j] = "new"
    BY <1>0, <1>1, SubmitEffect
  <2>2. CASE state' = [state EXCEPT ![j] = "done"] /\ queue' = queue
    BY <1>0, <1>b, <2>1, <2>2 DEF QueueHoldsQueued
  <2>3. CASE state' = [state EXCEPT ![j] = "queued"] /\ queue' = Append(queue, j)
    <3>1. /\ DOMAIN queue' = 1..(Len(queue) + 1) /\ queue'[Len(queue) + 1] = j
          /\ \A i \in 1..Len(queue) : queue'[i] = queue[i]
      BY <1>a, <2>3
    <3>2. \A i \in DOMAIN queue : queue[i] # j
      BY <1>0, <1>a, <2>1 DEF QueueHoldsQueued
    <3>3. \A i, k \in DOMAIN queue' : queue'[i] = queue'[k] => i = k
      BY <1>0, <1>a, <3>1, <3>2 DEF QueueHoldsQueued
    <3>4. ASSUME NEW k \in Jobs
          PROVE  state'[k] = "queued" <=> \E i \in DOMAIN queue' : queue'[i] = k
      BY <1>0, <1>a, <1>b, <2>3, <3>1 DEF QueueHoldsQueued
    <3>q. QED BY <3>3, <3>4 DEF QueueHoldsQueued
  <2>q. QED BY <1>0, <1>1, <2>2, <2>3, SubmitEffect
<1>2. ASSUME NEW t \in Clients, NEW j \in Jobs, StopQueued(t, j) PROVE QueueHoldsQueued'
  <2>1. state' = [state EXCEPT ![j] = "done"]
    BY <1>2, StopEffect, Zenon
  <2>2. PICK i \in DOMAIN queue : queue[i] = j /\ queue' = EraseAt(queue, i)
    BY <1>2, StopEffect, Zenon
  <2>3. /\ \A x : (\E k \in DOMAIN queue' : queue'[k] = x)
                     <=> (x # j /\ \E k \in DOMAIN queue : queue[k] = x)
        /\ \A k, l \in DOMAIN queue' : queue'[k] = queue'[l] => k = l
    <3>1. \A k, l \in DOMAIN queue : queue[k] = queue[l] => k = l
      BY <1>0 DEF QueueHoldsQueued
    <3>2. /\ \A x : (\E k \in DOMAIN EraseAt(queue, i) : EraseAt(queue, i)[k] = x)
                       <=> (x # queue[i] /\ \E k \in DOMAIN queue : queue[k] = x)
          /\ \A k, l \in DOMAIN EraseAt(queue, i) :
               EraseAt(queue, i)[k] = EraseAt(queue, i)[l] => k = l
      BY <1>a, <3>1, EraseAtElements, Zenon
    <3>q. QED BY <2>2, <3>2, Zenon
  <2>q. QED BY <1>0, <1>b, <2>1, <2>3 DEF QueueHoldsQueued
<1>3. ASSUME NEW t \in Clients, Shutdown(t) PROVE QueueHoldsQueued'
  <2>1. /\ queue' = <<>>
        /\ state' = [j \in Jobs |-> IF j \in Range(queue) THEN "done" ELSE state[j]]
    BY <1>3, ShutdownEffect, Zenon
  <2>2. DOMAIN queue' = {}
    BY <2>1
  <2>3. \A j \in Jobs : state[j] = "queued" => j \in Range(queue)
    BY <1>0 DEF QueueHoldsQueued, Range
  <2>4. \A j \in Jobs : state'[j] # "queued"
    BY <2>1, <2>3
  <2>q. QED BY <2>2, <2>4 DEF QueueHoldsQueued
<1>4. ASSUME NEW w \in Workers, StartJob(w) PROVE QueueHoldsQueued'
  <2>1. PICK i \in DOMAIN queue : /\ queue' = EraseAt(queue, i)
                                  /\ state' = [state EXCEPT ![queue[i]] = "running"]
    BY <1>4, StartEffect
  <2>2. /\ \A x : (\E k \in DOMAIN queue' : queue'[k] = x)
                     <=> (x # queue[i] /\ \E k \in DOMAIN queue : queue[k] = x)
        /\ \A k, l \in DOMAIN queue' : queue'[k] = queue'[l] => k = l
    <3>1. \A k, l \in DOMAIN queue : queue[k] = queue[l] => k = l
      BY <1>0 DEF QueueHoldsQueued
    <3>2. /\ \A x : (\E k \in DOMAIN EraseAt(queue, i) : EraseAt(queue, i)[k] = x)
                       <=> (x # queue[i] /\ \E k \in DOMAIN queue : queue[k] = x)
          /\ \A k, l \in DOMAIN EraseAt(queue, i) :
               EraseAt(queue, i)[k] = EraseAt(queue, i)[l] => k = l
      BY <1>a, <3>1, EraseAtElements, Zenon
    <3>q. QED BY <2>1, <3>2, Zenon
  <2>q. QED BY <1>0, <1>a, <1>b, <2>1, <2>2, Zenon DEF QueueHoldsQueued
<1>5. ASSUME NEW w \in Workers, CompleteJob(w) PROVE QueueHoldsQueued'
  <2>1. PICK j \in Jobs : /\ j = cur[w] /\ position[w] = "complete"
                          /\ state' = [state EXCEPT ![j] = "done"] /\ queue' = queue
    BY <1>0, <1>5, CompleteEffect, Zenon
  <2>2. state[j] = "running"
    BY <1>0, <2>1 DEF RunningIsOwned, Executing
  <2>q. QED BY <1>0, <1>b, <2>1, <2>2 DEF QueueHoldsQueued
<1>6. ASSUME Quiet PROVE QueueHoldsQueued'
  BY <1>0, <1>6 DEF Quiet, QueueHoldsQueued
<1>q. QED BY <1>0, <1>1, <1>2, <1>3, <1>4, <1>5, <1>6, Steps

\* Every step keeps each running job with one worker.
LEMMA OwnedStep ==
  ASSUME SchedulerInv, [SchedulerNext]_schedulerVars
  PROVE  RunningIsOwned'
<1>0. SchedulerTypeOK /\ QueueHoldsQueued /\ RunningIsOwned
  BY DEF SchedulerInv
<1>a. queue \in Seq(Jobs) /\ \A i \in DOMAIN queue : queue[i] \in Jobs /\ state[queue[i]] = "queued"
  BY <1>0 DEF SchedulerTypeOK, QueueHoldsQueued
<1>b. /\ state \in [Jobs -> {"new", "queued", "running", "done"}]
      /\ position \in [Threads -> Places] /\ cur \in [Threads -> Jobs]
      /\ Workers \subseteq Threads /\ Clients \cap Workers = {}
  BY <1>0, SchedulerAssumption DEF SchedulerTypeOK, Threads
<1>c. ASSUME NEW j \in Jobs, state[j] # "running", state'[j] # state[j],
             \A k \in Jobs \ {j} : state'[k] = state[k], cur' = cur,
             \A w \in Workers : Executing(w)' => Executing(w)
      PROVE  RunningIsOwned'
  BY <1>0, <1>b, <1>c DEF RunningIsOwned
<1>1. ASSUME NEW t \in Clients, NEW j \in Jobs, Submit(t, j) PROVE RunningIsOwned'
  <2>1. state[j] = "new" /\ cur' = cur
    BY <1>0, <1>1, SubmitEffect
  <2>2. \/ state' = [state EXCEPT ![j] = "queued"] \/ state' = [state EXCEPT ![j] = "done"]
    BY <1>0, <1>1, SubmitEffect
  <2>3. \A w \in Workers : Executing(w)' => Executing(w)
    <3>1. position' = position \/ position' = [position EXCEPT ![t] = "notify"]
      BY <1>0, <1>1, SubmitEffect
    <3>q. QED BY <1>b, <3>1 DEF Executing
  <2>4. state'[j] # state[j] /\ \A k \in Jobs \ {j} : state'[k] = state[k]
    BY <1>b, <2>1, <2>2
  <2>q. QED BY <1>c, <2>1, <2>3, <2>4
<1>2. ASSUME NEW t \in Clients, NEW j \in Jobs, StopQueued(t, j) PROVE RunningIsOwned'
  <2>1. /\ state[j] = "queued" /\ state' = [state EXCEPT ![j] = "done"] /\ cur' = cur
        /\ position' = [position EXCEPT ![t] = "stopping"]
    BY <1>2, StopEffect, Zenon
  <2>2. \A w \in Workers : Executing(w)' => Executing(w)
    BY <1>b, <2>1 DEF Executing
  <2>q. QED BY <1>b, <1>c, <2>1, <2>2
<1>3. ASSUME NEW t \in Clients, Shutdown(t) PROVE RunningIsOwned'
  <2>1. /\ state' = [j \in Jobs |-> IF j \in Range(queue) THEN "done" ELSE state[j]]
        /\ position' = [position EXCEPT ![t] = "shutdown"] /\ cur' = cur
    BY <1>3, ShutdownEffect, Zenon
  <2>2. \A w \in Workers : Executing(w)' => Executing(w)
    BY <1>b, <2>1 DEF Executing
  <2>3. \A j \in Jobs : state[j] = "running" => state'[j] = "running"
    BY <1>a, <2>1 DEF Range
  <2>q. QED BY <1>0, <1>b, <2>1, <2>2, <2>3 DEF RunningIsOwned
<1>4. ASSUME NEW w \in Workers, StartJob(w) PROVE RunningIsOwned'
  <2>1. PICK i \in DOMAIN queue :
          /\ cur' = [cur EXCEPT ![w] = queue[i]] /\ state' = [state EXCEPT ![queue[i]] = "running"]
          /\ position' = [position EXCEPT ![w] = "callback"]
    BY <1>4, StartEffect
  <2>2. PICK j \in Jobs : j = queue[i] /\ state[j] = "queued"
    BY <1>a
  <2>3. /\ \A v \in Workers \ {w} : cur'[v] = cur[v] /\ (Executing(v)' <=> Executing(v))
        /\ cur'[w] = j /\ \A k \in Jobs \ {j} : state'[k] = state[k]
        /\ state'[j] = "running"
    BY <1>b, <2>1, <2>2 DEF Executing
  <2>4. \A v \in Workers : Executing(v) => cur[v] # j
    BY <1>0, <2>2 DEF RunningIsOwned
  <2>5. \A v \in Workers : Executing(v)' => state'[cur'[v]] = "running"
    BY <1>0, <1>b, <2>3, <2>4 DEF RunningIsOwned
  <2>6. \A u, v \in Workers : Executing(u)' /\ Executing(v)' /\ cur'[u] = cur'[v] => u = v
    BY <1>0, <1>b, <2>3, <2>4 DEF RunningIsOwned
  <2>q. QED BY <2>5, <2>6 DEF RunningIsOwned
<1>5. ASSUME NEW w \in Workers, CompleteJob(w) PROVE RunningIsOwned'
  <2>1. PICK j \in Jobs : /\ j = cur[w] /\ position[w] = "complete"
                          /\ state' = [state EXCEPT ![j] = "done"] /\ cur' = cur
                          /\ position' = [position EXCEPT ![w] = "promise"]
    BY <1>0, <1>5, CompleteEffect, Zenon
  <2>2. /\ \A v \in Workers \ {w} : Executing(v)' <=> Executing(v)
        /\ ~Executing(w)' /\ Executing(w)
    BY <1>b, <2>1 DEF Executing
  <2>3. \A v \in Workers \ {w} : Executing(v) => cur[v] # j
    BY <1>0, <2>1, <2>2 DEF RunningIsOwned
  <2>q. QED BY <1>0, <1>b, <2>1, <2>2, <2>3 DEF RunningIsOwned
<1>6. ASSUME Quiet PROVE RunningIsOwned'
  BY <1>0, <1>6 DEF Quiet, RunningIsOwned
<1>q. QED BY <1>0, <1>1, <1>2, <1>3, <1>4, <1>5, <1>6, Steps

\* What a step does to the running jobs: one starts, one ends, or they stay the same.
LEMMA RunningStep ==
  ASSUME SchedulerInv, [SchedulerNext]_schedulerVars
  PROVE  \/ \E i \in DOMAIN queue :
              /\ CanStartLocked(queue[i]) /\ queue[i] \in Jobs \ Running
              /\ Running' = Running \cup {queue[i]} /\ running_count' = running_count + 1
              /\ sequential_running' = (queue[i] \in Sequential)
         \/ \E j \in Running :
              /\ Running' = Running \ {j}
              /\ running_count' = IF running_count > 0 THEN running_count - 1 ELSE 0
              /\ sequential_running' = (sequential_running /\ j \notin Sequential)
         \/ Running' = Running /\ UNCHANGED <<running_count, sequential_running>>
<1>0. SchedulerTypeOK /\ QueueHoldsQueued /\ RunningIsOwned
  BY DEF SchedulerInv
<1>a. queue \in Seq(Jobs) /\ \A i \in DOMAIN queue : queue[i] \in Jobs /\ state[queue[i]] = "queued"
  BY <1>0 DEF SchedulerTypeOK, QueueHoldsQueued
<1>b. state \in [Jobs -> {"new", "queued", "running", "done"}]
  BY <1>0 DEF SchedulerTypeOK
<1>1. ASSUME NEW t \in Clients, NEW j \in Jobs, Submit(t, j)
      PROVE  Running' = Running /\ UNCHANGED <<running_count, sequential_running>>
  <2>1. /\ state[j] = "new" /\ UNCHANGED <<running_count, sequential_running>>
        /\ \/ state' = [state EXCEPT ![j] = "queued"] \/ state' = [state EXCEPT ![j] = "done"]
    BY <1>0, <1>1, SubmitEffect
  <2>2. Running' = Running
    BY <1>b, <2>1 DEF Running
  <2>q. QED BY <2>1, <2>2
<1>2. ASSUME NEW t \in Clients, NEW j \in Jobs, StopQueued(t, j)
      PROVE  Running' = Running /\ UNCHANGED <<running_count, sequential_running>>
  <2>1. /\ state[j] = "queued" /\ UNCHANGED <<running_count, sequential_running>>
        /\ state' = [state EXCEPT ![j] = "done"]
    BY <1>2, StopEffect, Zenon
  <2>2. Running' = Running
    BY <1>b, <2>1 DEF Running
  <2>q. QED BY <2>1, <2>2
<1>3. ASSUME NEW t \in Clients, Shutdown(t)
      PROVE  Running' = Running /\ UNCHANGED <<running_count, sequential_running>>
  <2>1. /\ state' = [j \in Jobs |-> IF j \in Range(queue) THEN "done" ELSE state[j]]
        /\ UNCHANGED <<running_count, sequential_running>>
    BY <1>3, ShutdownEffect, Zenon
  <2>2. \A j \in Jobs : state'[j] = "running" <=> state[j] = "running"
    BY <1>a, <2>1 DEF Range
  <2>3. Running' = Running
    BY <2>2 DEF Running
  <2>q. QED BY <2>1, <2>3
<1>4. ASSUME NEW w \in Workers, StartJob(w)
      PROVE  \E i \in DOMAIN queue :
               /\ CanStartLocked(queue[i]) /\ queue[i] \in Jobs \ Running
               /\ Running' = Running \cup {queue[i]} /\ running_count' = running_count + 1
               /\ sequential_running' = (queue[i] \in Sequential)
  <2>1. PICK i \in DOMAIN queue :
          /\ IsNextJob(i) /\ state' = [state EXCEPT ![queue[i]] = "running"]
          /\ running_count' = running_count + 1 /\ sequential_running' = (queue[i] \in Sequential)
    BY <1>4, StartEffect
  <2>2. queue[i] \in Jobs \ Running /\ Running' = Running \cup {queue[i]}
    BY <1>a, <1>b, <2>1 DEF Running
  <2>3. CanStartLocked(queue[i])
    BY <2>1, Zenon DEF IsNextJob
  <2>q. QED BY <2>1, <2>2, <2>3, Zenon
<1>5. ASSUME NEW w \in Workers, CompleteJob(w)
      PROVE  \E j \in Running :
              /\ Running' = Running \ {j}
              /\ running_count' = IF running_count > 0 THEN running_count - 1 ELSE 0
              /\ sequential_running' = (sequential_running /\ j \notin Sequential)
  <2>1. PICK j \in Jobs : /\ j = cur[w] /\ position[w] = "complete"
                          /\ state' = [state EXCEPT ![j] = "done"]
                          /\ running_count' = IF running_count > 0 THEN running_count - 1 ELSE 0
                          /\ sequential_running' = (sequential_running /\ j \notin Sequential)
    BY <1>0, <1>5, CompleteEffect, Zenon
  <2>2. state[j] = "running"
    BY <1>0, <2>1 DEF RunningIsOwned, Executing
  <2>3. j \in Running /\ Running' = Running \ {j}
    BY <1>b, <2>1, <2>2 DEF Running
  <2>q. QED BY <2>1, <2>3, Zenon
<1>6. ASSUME Quiet
      PROVE  Running' = Running /\ UNCHANGED <<running_count, sequential_running>>
  BY <1>6 DEF Quiet, Running
<1>q. QED BY <1>0, <1>1, <1>2, <1>3, <1>4, <1>5, <1>6, Steps, Zenon

\* The account of the accepted jobs and of the Submits that threw.
Balanced ==
  /\ thrown \in Nat
  /\ statistics["accepted"] + thrown = Len(queue) + running_count + statistics["completed"]
       + statistics["cancelled"] + statistics["failed"]

\* Every step keeps the account of the accepted jobs.
LEMMA AccountStep ==
  ASSUME SchedulerInv, RunningIsListed, [SchedulerNext]_schedulerVars
  PROVE  Balanced'
<1> USE DEF Balanced
<1>0. SchedulerTypeOK /\ QueueHoldsQueued /\ RunningIsOwned /\ Balanced
  BY DEF SchedulerInv, JobsAreAccountedFor
<1>a. /\ queue \in Seq(Jobs) /\ Len(queue) \in Nat /\ running_count \in Nat /\ thrown \in Nat
      /\ statistics \in [Counters -> Nat]
      /\ \A c \in {"accepted", "completed", "cancelled", "failed"} : statistics[c] \in Nat
  BY <1>0, LengthFacts DEF SchedulerTypeOK, Counters
<1>b. /\ statistics["accepted"] \in Nat /\ statistics["completed"] \in Nat
      /\ statistics["cancelled"] \in Nat /\ statistics["failed"] \in Nat
      /\ Len(queue) \in Nat /\ running_count \in Nat /\ thrown \in Nat
  BY <1>a
<1>c. /\ (statistics["accepted"] + 1) + thrown
           = (Len(queue) + 1) + running_count + statistics["completed"]
             + statistics["cancelled"] + statistics["failed"]
      /\ statistics["accepted"] + (thrown + 1)
           = Len(queue) + running_count + statistics["completed"]
             + statistics["cancelled"] + (statistics["failed"] + 1)
  <2>1. PICK a \in Nat : a = statistics["accepted"]
    BY <1>b
  <2>2. PICK q \in Nat : q = Len(queue)
    BY <1>b
  <2>3. PICK c \in Nat : c = statistics["completed"]
    BY <1>b
  <2>4. PICK d \in Nat : d = statistics["cancelled"]
    BY <1>b
  <2>5. PICK f \in Nat : f = statistics["failed"]
    BY <1>b
  <2>6. a + thrown = q + running_count + c + d + f
    BY <1>0, <2>1, <2>2, <2>3, <2>4, <2>5, Zenon
  <2>7. /\ (a + 1) + thrown = (q + 1) + running_count + c + d + f
        /\ a + (thrown + 1) = q + running_count + c + d + (f + 1)
    BY <1>b, <2>6
  <2>q. QED BY <2>1, <2>2, <2>3, <2>4, <2>5, <2>7, Zenon
<1>1. ASSUME NEW t \in Clients, NEW j \in Jobs, Submit(t, j) PROVE Balanced'
  <2>0. thrown' = thrown
    BY <1>1, Zenon DEF Submit, lifeVars
  <2>1. running_count' = running_count
    BY <1>0, <1>1, SubmitEffect
  <2>2. CASE queue' = queue /\ statistics' = Count("rejected")
    BY <1>0, <1>a, <2>0, <2>1, <2>2 DEF Count, Counters
  <2>3. CASE queue' = Append(queue, j) /\ statistics' = Count("accepted")
    <3>1. Len(queue') = Len(queue) + 1
      BY <1>a, <2>3
    <3>2. /\ statistics'["accepted"] = statistics["accepted"] + 1
          /\ statistics'["completed"] = statistics["completed"]
          /\ statistics'["cancelled"] = statistics["cancelled"]
          /\ statistics'["failed"] = statistics["failed"]
      BY <1>a, <2>3 DEF Count, Counters
    <3>q. QED BY <1>b, <1>c, <2>0, <2>1, <3>1, <3>2, Zenon
  <2>q. QED BY <1>0, <1>1, <2>2, <2>3, SubmitEffect
<1>2. ASSUME NEW t \in Clients, NEW j \in Jobs, StopQueued(t, j) PROVE Balanced'
  <2>0. thrown' = thrown
    BY <1>2, Zenon DEF StopQueued, lifeVars
  <2>1. /\ running_count' = running_count
        /\ statistics' = [Count("cancelled") EXCEPT !["stopped"] = @ + 1]
    BY <1>2, StopEffect, Zenon
  <2>2. PICK i \in DOMAIN queue : queue' = EraseAt(queue, i)
    BY <1>2, StopEffect, Zenon
  <2>3. Len(queue') = Len(queue) - 1
    BY <1>a, <2>2, EraseAtProperties
  <2>4. /\ statistics'["cancelled"] = statistics["cancelled"] + 1
        /\ \A c \in {"accepted", "completed", "failed"} : statistics'[c] = statistics[c]
    BY <1>a, <2>1 DEF Count, Counters
  <2>q. QED BY <1>0, <1>a, <2>0, <2>1, <2>3, <2>4
<1>3. ASSUME NEW t \in Clients, Shutdown(t) PROVE Balanced'
  <2>0. thrown' = thrown
    BY <1>3, Zenon DEF Shutdown
  <2>1. /\ running_count' = running_count /\ queue' = <<>>
        /\ statistics' = StatisticsAtShutdown(Cardinality({ j \in Running : ~stopRequested[j] }))
    BY <1>3, ShutdownEffect, Zenon
  <2>2. /\ statistics'["cancelled"] = statistics["cancelled"] + Len(queue)
        /\ \A c \in {"accepted", "completed", "failed"} : statistics'[c] = statistics[c]
    BY <1>a, <2>1 DEF StatisticsAtShutdown, Counters
  <2>3. Len(queue') = 0
    BY <2>1
  <2>q. QED BY <1>0, <1>a, <2>0, <2>1, <2>2, <2>3
<1>4. ASSUME NEW w \in Workers, StartJob(w) PROVE Balanced'
  <2>0. thrown' = thrown
    BY <1>4, Zenon DEF StartJob, lifeVars
  <2>1. PICK i \in DOMAIN queue :
          /\ queue' = EraseAt(queue, i) /\ running_count' = running_count + 1
          /\ statistics' = Count("started")
    BY <1>4, StartEffect
  <2>2. Len(queue') = Len(queue) - 1
    BY <1>a, <2>1, EraseAtProperties
  <2>3. \A c \in {"accepted", "completed", "cancelled", "failed"} : statistics'[c] = statistics[c]
    BY <1>a, <2>1 DEF Count, Counters
  <2>q. QED BY <1>0, <1>a, <2>0, <2>1, <2>2, <2>3
<1>5. ASSUME NEW w \in Workers, CompleteJob(w) PROVE Balanced'
  <2>0. thrown' = thrown
    BY <1>5, Zenon DEF CompleteJob, lifeVars
  <2>1. PICK j \in Jobs : /\ j = cur[w] /\ position[w] = "complete" /\ queue' = queue
                          /\ statistics' = Count(CounterOf(res[w]))
                          /\ running_count' = IF running_count > 0 THEN running_count - 1 ELSE 0
    BY <1>0, <1>5, CompleteEffect, Zenon
  <2>2. j \in Running
    BY <1>0, <2>1 DEF RunningIsOwned, Executing, Running
  <2>4. running_count # 0
    BY <2>2 DEF SchedulerInv, JobsAreAccountedFor, RunningIsListed
  <2>5. CounterOf(res[w]) \in {"completed", "cancelled", "failed"}
    BY DEF CounterOf
  <2>6. PICK c \in {"completed", "cancelled", "failed"} : statistics' = Count(c)
    BY <2>1, <2>5
  <2>7. /\ statistics'[c] = statistics[c] + 1
        /\ \A d \in {"accepted", "completed", "cancelled", "failed"} \ {c} :
             statistics'[d] = statistics[d]
    BY <1>a, <2>6 DEF Count, Counters
  <2>8. running_count' = running_count - 1
    BY <1>a, <2>1, <2>4
  <2>a. Len(queue') = Len(queue)
    BY <2>1
  <2>9. CASE c = "completed"
    <3>1. /\ statistics'["completed"] = statistics["completed"] + 1
          /\ statistics'["accepted"] = statistics["accepted"]
          /\ statistics'["cancelled"] = statistics["cancelled"]
          /\ statistics'["failed"] = statistics["failed"]
      BY <2>7, <2>9
    <3>q. QED BY <1>0, <1>b, <2>0, <2>8, <2>a, <3>1
  <2>10. CASE c = "cancelled"
    <3>1. /\ statistics'["cancelled"] = statistics["cancelled"] + 1
          /\ statistics'["accepted"] = statistics["accepted"]
          /\ statistics'["completed"] = statistics["completed"]
          /\ statistics'["failed"] = statistics["failed"]
      BY <2>7, <2>10
    <3>q. QED BY <1>0, <1>b, <2>0, <2>8, <2>a, <3>1
  <2>11. CASE c = "failed"
    <3>1. /\ statistics'["failed"] = statistics["failed"] + 1
          /\ statistics'["accepted"] = statistics["accepted"]
          /\ statistics'["completed"] = statistics["completed"]
          /\ statistics'["cancelled"] = statistics["cancelled"]
      BY <2>7, <2>11
    <3>q. QED BY <1>0, <1>b, <2>0, <2>8, <2>a, <3>1
  <2>q. QED BY <2>9, <2>10, <2>11
<1>6. ASSUME Quiet, Uncounted PROVE Balanced'
  BY <1>0, <1>6 DEF Quiet, Uncounted
<1>7. ASSUME Quiet, NEW t \in Clients, NEW j \in Jobs, SubmitThrows(t, j) PROVE Balanced'
  <2>1. thrown' = thrown + 1 /\ statistics' = Count("failed")
    BY <1>7, Zenon DEF SubmitThrows
  <2>2. /\ statistics'["failed"] = statistics["failed"] + 1
        /\ statistics'["accepted"] = statistics["accepted"]
        /\ statistics'["completed"] = statistics["completed"]
        /\ statistics'["cancelled"] = statistics["cancelled"]
    BY <1>a, <2>1 DEF Count, Counters
  <2>3. Len(queue') = Len(queue) /\ running_count' = running_count
    BY <1>7, Zenon DEF Quiet
  <2>4. thrown' \in Nat
    BY <1>b, <2>1
  <2>q. QED BY <1>c, <2>1, <2>2, <2>3, <2>4, Zenon
<1>8. Quiet => Balanced'
  BY <1>6, <1>7, Zenon DEF Quiet
<1>q. QED BY <1>0, <1>1, <1>2, <1>3, <1>4, <1>5, <1>8, Steps

-----------------------------------------------------------------------------
(* Snapshots, the history and the futures                                  *)

\* The jobs of js end and their records are completed.
LEMMA CompletedHistory ==
  ASSUME SchedulerTypeOK, HistoryIsOrdered,
         NEW js \in Seq(Jobs), NEW recs \in [Jobs -> Snapshots \cup {"none"}],
         CompleteRecordsLocked(recs, js, Outstanding \ Range(js)),
         state' = [j \in Jobs |-> IF j \in Range(js) THEN "done" ELSE state[j]],
         \A j \in Jobs \ Range(js) : IF j \in Outstanding THEN recs[j] # "none"
                                     ELSE recs[j] = records[j]
  PROVE  /\ HistoryIsOrdered'
         /\ \A j \in Jobs \ Range(js) : state[j] = "done" => records'[j] \in {records[j], "none"}
         /\ \A j \in Range(js) : state'[j] = "done" /\ records'[j] \in {recs[j], "none"}
<1>0. /\ state \in [Jobs -> {"new", "queued", "running", "done"}] /\ Range(js) \subseteq Jobs
  BY DEF SchedulerTypeOK, Range
<1>1. Outstanding \ Range(js) \in SUBSET Jobs
  BY DEF Outstanding
<1>2. /\ \A j \in Jobs : records'[j] \in {recs[j], "none"}
      /\ \A j \in Outstanding \ Range(js) : records'[j] = recs[j]
      /\ MaximumCompletedHistorySize > 0 =>
           Len(completed_order') <= MaximumCompletedHistorySize
      /\ \A j \in Jobs \ (Outstanding \ Range(js)) :
           (j \in Range(completed_order) \cup Range(js) /\ records'[j] # "none")
             => j \in Range(completed_order')
  BY <1>1, CompleteRecords, SchedulerAssumption
<1>3. Outstanding' = Outstanding \ Range(js)
  BY <1>0, Zenon DEF Outstanding
<1>4. \A j \in Jobs : state'[j] = "new" => records'[j] = "none"
  BY <1>0, <1>2 DEF HistoryIsOrdered, Outstanding
<1>5. \A j \in Outstanding' : records'[j] # "none"
  BY <1>1, <1>2, <1>3, Zenon
<1>6. ASSUME NEW j \in Jobs, state'[j] = "done", records'[j] # "none"
      PROVE  j \in Range(completed_order')
  <2>1. j \notin Outstanding \ Range(js)
    BY <1>3, <1>6 DEF Outstanding
  <2>2. j \notin Range(js) => state[j] = "done" /\ records[j] # "none"
    BY <1>2, <1>6, <2>1
  <2>3. j \in Range(completed_order) \cup Range(js)
    BY <2>2 DEF HistoryIsOrdered
  <2>q. QED BY <1>2, <1>6, <2>1, <2>3, Zenon
<1>7. HistoryIsOrdered'
  BY <1>2, <1>4, <1>5, <1>6, Zenon DEF HistoryIsOrdered
<1>8. \A j \in Jobs \ Range(js) : state[j] = "done" => records'[j] \in {records[j], "none"}
  BY <1>2 DEF Outstanding
<1>9. \A j \in Range(js) : state'[j] = "done" /\ records'[j] \in {recs[j], "none"}
  BY <1>0, <1>2
<1>q. QED BY <1>7, <1>8, <1>9

\* A finished job stays finished, and its snapshot stays or is pruned; a stop request
\* stays.
Settled ==
  /\ \A j \in Jobs : state[j] = "done" =>
       state'[j] = "done" /\ records'[j] \in {records[j], "none"}
  /\ \A j \in Jobs : stopRequested[j] => stopRequested'[j]

\* Stop ends a job that waits.
LEMMA StopQueuedRecords ==
  ASSUME SchedulerInv, NEW t \in Clients, NEW j \in Jobs, StopQueued(t, j)
  PROVE  HistoryIsOrdered' /\ Settled /\ state'[j] = "done" /\ records'[j] \in {"Cancelled", "none"}
<1> DEFINE recs == [records EXCEPT ![j] = "Cancelled"]
<1>0. /\ SchedulerTypeOK /\ HistoryIsOrdered
      /\ state \in [Jobs -> {"new", "queued", "running", "done"}]
      /\ records \in [Jobs -> Snapshots \cup {"none"}]
  BY DEF SchedulerInv, SchedulerTypeOK
<1>1. /\ state[j] = "queued" /\ state' = [state EXCEPT ![j] = "done"]
      /\ CompleteRecordsLocked(recs, <<j>>, Outstanding \ {j}) /\ stopRequested' = stopRequested
  BY StopEffect, Zenon
<1>2. <<j>> \in Seq(Jobs) /\ Range(<<j>>) = {j}
  BY DEF Range
<1>3. recs \in [Jobs -> Snapshots \cup {"none"}] /\ recs[j] = "Cancelled"
      /\ \A k \in Jobs \ {j} : recs[k] = records[k]
  BY <1>0 DEF Snapshots, Terminal
<1> HIDE DEF recs
<1>4. \A k \in Jobs \ {j} : IF k \in Outstanding THEN recs[k] # "none" ELSE recs[k] = records[k]
  BY <1>0, <1>3 DEF HistoryIsOrdered
<1>5. state' = [k \in Jobs |-> IF k \in {j} THEN "done" ELSE state[k]]
  BY <1>0, <1>1, Zenon
<1>6. /\ HistoryIsOrdered'
      /\ \A k \in Jobs \ {j} : state[k] = "done" => records'[k] \in {records[k], "none"}
      /\ \A k \in {j} : state'[k] = "done" /\ records'[k] \in {recs[k], "none"}
  <2> DEFINE js == <<j>>
  <2>1. js \in Seq(Jobs) /\ CompleteRecordsLocked(recs, js, Outstanding \ Range(js))
    BY <1>1, <1>2, Zenon
  <2>2. /\ state' = [k \in Jobs |-> IF k \in Range(js) THEN "done" ELSE state[k]]
        /\ \A k \in Jobs \ Range(js) : IF k \in Outstanding THEN recs[k] # "none"
                                       ELSE recs[k] = records[k]
    BY <1>2, <1>4, <1>5
  <2>3. Range(js) = {j}
    BY <1>2
  <2> HIDE DEF js
  <2>4. /\ HistoryIsOrdered'
        /\ \A k \in Jobs \ Range(js) : state[k] = "done" => records'[k] \in {records[k], "none"}
        /\ \A k \in Range(js) : state'[k] = "done" /\ records'[k] \in {recs[k], "none"}
    BY <1>0, <1>3, <2>1, <2>2, CompletedHistory, Zenon
  <2>q. QED BY <2>3, <2>4, Zenon
<1>7. Settled
  BY <1>0, <1>1, <1>5, <1>6 DEF Settled
<1>q. QED BY <1>3, <1>6, <1>7, Zenon

\* A worker ends its job.
LEMMA CompleteJobRecords ==
  ASSUME SchedulerInv, NEW w \in Workers, CompleteJob(w)
  PROVE  /\ HistoryIsOrdered' /\ Settled /\ state'[cur[w]] = "done"
         /\ records'[cur[w]] \in {res[w], "none"}
<1>0. /\ SchedulerTypeOK /\ HistoryIsOrdered /\ FutureIsForeseen /\ RunningIsOwned
      /\ state \in [Jobs -> {"new", "queued", "running", "done"}]
      /\ records \in [Jobs -> Snapshots \cup {"none"}]
  BY DEF SchedulerInv, SchedulerTypeOK
<1>1. PICK j \in Jobs :
        /\ j = cur[w] /\ position[w] = "complete" /\ state' = [state EXCEPT ![j] = "done"]
        /\ CompleteRecordsLocked(FinalRecord(j, res[w]), <<j>>, Outstanding \ {j})
        /\ stopRequested' = stopRequested
  BY <1>0, CompleteEffect, Zenon
<1> DEFINE recs == FinalRecord(j, res[w])
<1>2. <<j>> \in Seq(Jobs) /\ Range(<<j>>) = {j}
  BY DEF Range
<1>3. state[j] = "running" /\ res[w] \in Terminal
  BY <1>0, <1>1, Zenon DEF RunningIsOwned, Executing, FutureIsForeseen
<1>4. recs \in [Jobs -> Snapshots \cup {"none"}] /\ recs[j] = res[w]
      /\ \A k \in Jobs \ {j} : recs[k] = records[k]
  BY <1>0, <1>3 DEF Snapshots, FinalRecord
<1>4a. CompleteRecordsLocked(recs, <<j>>, Outstanding \ {j})
  BY <1>1
<1> HIDE DEF recs
<1>5. \A k \in Jobs \ {j} : IF k \in Outstanding THEN recs[k] # "none" ELSE recs[k] = records[k]
  BY <1>0, <1>4 DEF HistoryIsOrdered
<1>6. state' = [k \in Jobs |-> IF k \in {j} THEN "done" ELSE state[k]]
  BY <1>0, <1>1, Zenon
<1>7. /\ HistoryIsOrdered'
      /\ \A k \in Jobs \ {j} : state[k] = "done" => records'[k] \in {records[k], "none"}
      /\ \A k \in {j} : state'[k] = "done" /\ records'[k] \in {recs[k], "none"}
  <2> DEFINE js == <<j>>
  <2>1. js \in Seq(Jobs) /\ CompleteRecordsLocked(recs, js, Outstanding \ Range(js))
    BY <1>2, <1>4a, Zenon
  <2>2. /\ state' = [k \in Jobs |-> IF k \in Range(js) THEN "done" ELSE state[k]]
        /\ \A k \in Jobs \ Range(js) : IF k \in Outstanding THEN recs[k] # "none"
                                       ELSE recs[k] = records[k]
    BY <1>2, <1>5, <1>6
  <2>3. Range(js) = {j}
    BY <1>2
  <2> HIDE DEF js
  <2>4. /\ HistoryIsOrdered'
        /\ \A k \in Jobs \ Range(js) : state[k] = "done" => records'[k] \in {records[k], "none"}
        /\ \A k \in Range(js) : state'[k] = "done" /\ records'[k] \in {recs[k], "none"}
    BY <1>0, <1>4, <2>1, <2>2, CompletedHistory, Zenon
  <2>q. QED BY <2>3, <2>4, Zenon
<1>8. Settled
  BY <1>0, <1>1, <1>3, <1>6, <1>7, Zenon DEF Settled
<1>q. QED BY <1>1, <1>4, <1>7, <1>8

\* Shutdown ends the jobs that wait.
LEMMA ShutdownRecords ==
  ASSUME SchedulerInv, NEW t \in Clients, Shutdown(t)
  PROVE  /\ HistoryIsOrdered' /\ Settled
         /\ \A j \in Range(queue) : state'[j] = "done" /\ records'[j] \in {"Cancelled", "none"}
<1> DEFINE recs == [j \in Jobs |-> IF j \in Range(queue) \cup Running THEN "Cancelled"
                                   ELSE records[j]]
<1>0. /\ SchedulerTypeOK /\ HistoryIsOrdered /\ QueueHoldsQueued
      /\ state \in [Jobs -> {"new", "queued", "running", "done"}]
      /\ records \in [Jobs -> Snapshots \cup {"none"}] /\ queue \in Seq(Jobs)
  BY DEF SchedulerInv, SchedulerTypeOK
<1>1. /\ state' = [j \in Jobs |-> IF j \in Range(queue) THEN "done" ELSE state[j]]
      /\ stopRequested' = [j \in Jobs |-> stopRequested[j] \/ j \in Running]
      /\ CompleteRecordsLocked(recs, queue, Outstanding \ Range(queue))
  BY ShutdownEffect, Zenon
<1>2. \A j \in Range(queue) : j \in Jobs /\ state[j] = "queued"
  BY <1>0 DEF QueueHoldsQueued, Range
<1>3. /\ recs \in [Jobs -> Snapshots \cup {"none"}]
      /\ \A j \in Range(queue) : recs[j] = "Cancelled"
      /\ \A j \in Jobs \ Range(queue) : recs[j] = IF j \in Running THEN "Cancelled" ELSE records[j]
  BY <1>0, <1>2 DEF Snapshots, Terminal
<1> HIDE DEF recs
<1>4. \A j \in Jobs \ Range(queue) : IF j \in Outstanding THEN recs[j] # "none"
                                     ELSE recs[j] = records[j]
  BY <1>0, <1>3 DEF HistoryIsOrdered, Outstanding, Running
<1>5. /\ HistoryIsOrdered'
      /\ \A j \in Jobs \ Range(queue) : state[j] = "done" => records'[j] \in {records[j], "none"}
      /\ \A j \in Range(queue) : state'[j] = "done" /\ records'[j] \in {recs[j], "none"}
  BY <1>0, <1>1, <1>3, <1>4, CompletedHistory, Zenon
<1>6. \A j \in Jobs : stopRequested[j] => stopRequested'[j]
  BY <1>1, Zenon
<1>7. \A j \in Jobs : state[j] = "done" =>
        state'[j] = "done" /\ records'[j] \in {records[j], "none"}
  BY <1>1, <1>2, <1>5
<1>q. QED BY <1>3, <1>5, <1>6, <1>7, Zenon DEF Settled

\* Every step keeps the history in order and finished jobs settled.
LEMMA HistoryStep ==
  ASSUME SchedulerInv, [SchedulerNext]_schedulerVars
  PROVE  HistoryIsOrdered' /\ Settled
<1>0. /\ SchedulerTypeOK /\ HistoryIsOrdered /\ QueueHoldsQueued
      /\ state \in [Jobs -> {"new", "queued", "running", "done"}]
      /\ records \in [Jobs -> Snapshots \cup {"none"}]
  BY DEF SchedulerInv, SchedulerTypeOK
<1>1. ASSUME NEW t \in Clients, NEW j \in Jobs, Submit(t, j) PROVE HistoryIsOrdered' /\ Settled
  <2>1. /\ state[j] = "new" /\ UNCHANGED <<completed_order, stopRequested>>
        /\ \/ /\ state' = [state EXCEPT ![j] = "queued"]
              /\ records' = [records EXCEPT ![j] = "Created"]
           \/ state' = [state EXCEPT ![j] = "done"] /\ records' = records
    BY <1>0, <1>1, SubmitEffect
  <2>2. /\ \A k \in Jobs \ {j} : state'[k] = state[k] /\ records'[k] = records[k]
        /\ \/ state'[j] = "queued" /\ records'[j] # "none"
           \/ state'[j] = "done" /\ records'[j] = "none"
    BY <1>0, <2>1 DEF HistoryIsOrdered
  <2>3. HistoryIsOrdered'
    BY <1>0, <2>1, <2>2 DEF HistoryIsOrdered, Outstanding
  <2>q. QED BY <2>1, <2>2, <2>3 DEF Settled
<1>2. ASSUME NEW w \in Workers, StartJob(w) PROVE HistoryIsOrdered' /\ Settled
  <2>1. PICK i \in DOMAIN queue :
          /\ state' = [state EXCEPT ![queue[i]] = "running"]
          /\ records' = [records EXCEPT ![queue[i]] = "Running"]
          /\ UNCHANGED <<completed_order, stopRequested>>
    BY <1>2, StartEffect
  <2>2. PICK j \in Jobs : j = queue[i] /\ state[j] = "queued"
    BY <1>0 DEF SchedulerTypeOK, QueueHoldsQueued
  <2>3. /\ \A k \in Jobs \ {j} : state'[k] = state[k] /\ records'[k] = records[k]
        /\ state'[j] = "running" /\ records'[j] # "none"
    BY <1>0, <2>1, <2>2
  <2>4. HistoryIsOrdered'
    BY <1>0, <2>1, <2>3 DEF HistoryIsOrdered, Outstanding
  <2>q. QED BY <2>1, <2>2, <2>3, <2>4 DEF Settled
<1>3. ASSUME Quiet PROVE HistoryIsOrdered' /\ Settled
  BY <1>0, <1>3 DEF Quiet, HistoryIsOrdered, Settled, Outstanding
<1>q. QED BY <1>0, <1>1, <1>2, <1>3, Steps, StopQueuedRecords, CompleteJobRecords, ShutdownRecords, Zenon

\* What the steps that touch no future, no list of jobs to stop and no result leave alone.
Still ==
  /\ UNCHANGED <<future, todo>>
  /\ \A w \in Workers : position'[w] \in {"complete", "promise"} =>
       position'[w] = position[w] /\ cur'[w] = cur[w] /\ res'[w] = res[w]

\* Every step is one of those that touch them, or leaves them alone.
LEMMA FutureSteps ==
  ASSUME SchedulerTypeOK, [SchedulerNext]_schedulerVars
  PROVE  \/ \E t \in Clients, j \in Jobs : Submit(t, j) \/ StopQueued(t, j) \/ StopRunning(t, j)
         \/ \E t \in Clients : Shutdown(t)
         \/ \E t \in Threads : RequestStop(t)
         \/ \E w \in Workers : CallbackReturns(w) \/ CompleteJob(w) \/ SetPromiseSafely(w)
         \/ Still
<1> USE DEF jobVars, controlVars, recordVars, runVars, lifeVars, threadVars, Goto
<1>0. /\ position \in [Threads -> Places] /\ cur \in [Threads -> Jobs] /\ Workers \subseteq Threads
      /\ Clients \subseteq Threads
  BY DEF SchedulerTypeOK, Threads
<1>1. ASSUME NEW t \in Clients, NEW j \in Jobs, Pause(t, j) \/ Resume(t, j) PROVE Still
  BY <1>0, <1>1, Zenon DEF Pause, Resume, Still
<1>2. ASSUME NEW t \in Clients, SubmitRefused(t) PROVE Still
  BY <1>0, <1>2 DEF SubmitRefused, Still
<1>2a. ASSUME NEW t \in Clients, NEW j \in Jobs, SubmitThrows(t, j) PROVE Still
  BY <1>0, <1>2a DEF SubmitThrows, Still
<1>3. ASSUME NEW t \in Clients, ShutdownWaits(t) PROVE Still
  BY <1>0, <1>3, Zenon DEF ShutdownWaits, Still
<1>4. ASSUME NEW t \in Threads, Continue(t), ~RequestStop(t) PROVE Still
  <2>1. CASE StopWorkers(t)
    BY <1>0, <2>1, Zenon DEF StopWorkers, Still
  <2>2. CASE FinishShutdown(t)
    BY <1>0, <2>2 DEF FinishShutdown, Still
  <2>3. CASE ShutdownWaitReturns(t)
    BY <1>0, <2>3 DEF ShutdownWaitReturns, Still
  <2>4. CASE NotifyWaiters(t)
    BY <1>0, <2>4 DEF NotifyWaiters, Still
  <2>q. QED BY <1>4, <2>1, <2>2, <2>3, <2>4 DEF Continue
<1>5. ASSUME NEW w \in Workers, WorkerExits(w) PROVE Still
  BY <1>0, <1>5 DEF WorkerExits, Still
<1>6. ASSUME NEW w \in Workers, StartJob(w) PROVE Still
  <2>1. PICK j : cur' = [cur EXCEPT ![w] = j] /\ position' = [position EXCEPT ![w] = "callback"]
                 /\ UNCHANGED <<future, todo, res>>
    BY <1>6, Zenon DEF StartJob
  <2>q. QED BY <1>0, <2>1 DEF Still
<1>7. ASSUME NEW w \in Workers, WaitForWork(w) PROVE Still
  BY <1>0, <1>7 DEF WaitForWork, Still
<1>8. ASSUME NEW w \in Workers, WaitIfPaused(w) PROVE Still
  <2>1. /\ \/ position' = [position EXCEPT ![w] = "pausedWait"]
           \/ position' = [position EXCEPT ![w] = "callback"]
        /\ UNCHANGED <<future, todo, cur, res>>
    BY <1>8, Zenon DEF WaitIfPaused
  <2>q. QED BY <1>0, <2>1 DEF Still
<1>9. ASSUME NEW w \in Workers, ShutdownFromCallback(w) PROVE Still
  BY <1>0, <1>9 DEF ShutdownFromCallback, Still
<1>10. ASSUME SchedulerWakeup PROVE Still
  BY <1>10 DEF SchedulerWakeup, Still
<1>11. ASSUME UNCHANGED schedulerVars PROVE Still
  BY <1>11, Zenon DEF schedulerVars, Still
<1>q. QED BY <1>1, <1>2, <1>2a, <1>3, <1>4, <1>5, <1>6, <1>7, <1>8, <1>9, <1>10, <1>11, Zenon
          DEF SchedulerNext, ShutDown, ClientCall, WorkerStep

\* A future changes only when its job is finished, to what the snapshot says.
Announced ==
  \A j \in Jobs : \/ future'[j] = future[j]
                  \/ state'[j] = "done" /\ records'[j] \in {future'[j], "none"}

\* A worker that has a result to write holds it from then on.
Decided ==
  /\ \A w \in Workers : position'[w] \in {"complete", "promise"} => res'[w] \in Terminal
  /\ \A w \in Workers : position'[w] = "promise" =>
       state'[cur'[w]] = "done" /\ records'[cur'[w]] \in {res'[w], "none"}

\* Whoever stops a job does so once its snapshot says so, or once it was asked to stop.
Stopped(j) == stopRequested[j] \/ (state[j] = "done" /\ records[j] \in {"Cancelled", "none"})
StoppedAfter(j) ==
  stopRequested'[j] \/ (state'[j] = "done" /\ records'[j] \in {"Cancelled", "none"})

\* Still steps, and every other one at the other workers, keep what was decided.
LEMMA DecidedStays ==
  ASSUME SchedulerInv, Settled, NEW w \in Workers, position[w] \in {"complete", "promise"},
         position'[w] = position[w], cur'[w] = cur[w], res'[w] = res[w]
  PROVE  /\ res'[w] \in Terminal
         /\ position'[w] = "promise" =>
              state'[cur'[w]] = "done" /\ records'[cur'[w]] \in {res'[w], "none"}
<1>1. cur[w] \in Jobs /\ FutureIsForeseen
  BY DEF SchedulerInv, SchedulerTypeOK, Threads
<1>q. QED BY <1>1 DEF FutureIsForeseen, Settled

\* The lists of jobs to stop stay right when they get shorter.
LEMMA StoppedStays ==
  ASSUME SchedulerInv, Settled, NEW t \in Threads, NEW i \in DOMAIN todo[t]
  PROVE  todo[t][i] \in Jobs /\ StoppedAfter(todo[t][i])
<1>1. FutureIsForeseen /\ todo[t] \in Seq(Jobs)
  BY DEF SchedulerInv, SchedulerTypeOK
<1>2. todo[t][i] \in Jobs /\ Stopped(todo[t][i])
  BY <1>1 DEF FutureIsForeseen, Stopped
<1>q. QED BY <1>2 DEF Stopped, StoppedAfter, Settled

\* Every step keeps what will be written to the futures foreseen.
LEMMA FutureStep ==
  ASSUME SchedulerInv, RunningIsListed, [SchedulerNext]_schedulerVars
  PROVE  Announced /\ Decided /\ \A t \in Threads : \A i \in DOMAIN todo'[t] : StoppedAfter(todo'[t][i])
<1> DEFINE Listed == \A t \in Threads : \A i \in DOMAIN todo'[t] : StoppedAfter(todo'[t][i])
<1> USE DEF jobVars, controlVars, recordVars, runVars, lifeVars, threadVars, Goto
<1>0. /\ SchedulerTypeOK /\ FutureIsForeseen /\ HistoryIsOrdered /\ RunningIsOwned /\ Settled
      /\ QueueHoldsQueued
  BY HistoryStep DEF SchedulerInv
<1>a. /\ state \in [Jobs -> {"new", "queued", "running", "done"}]
      /\ position \in [Threads -> Places] /\ cur \in [Threads -> Jobs]
      /\ res \in [Threads -> Terminal \cup {"pending"}] /\ todo \in [Threads -> Seq(Jobs)]
      /\ future \in [Jobs -> Terminal \cup {"pending"}]
      /\ Workers \subseteq Threads /\ Clients \subseteq Threads /\ Clients \cap Workers = {}
  BY <1>0, SchedulerAssumption DEF SchedulerTypeOK, Threads
<1>b. ASSUME todo' = todo PROVE Listed
  BY <1>0, <1>b, StoppedStays
<1>c. ASSUME NEW t \in Clients, NEW l, l \notin {"complete", "promise"},
             position' = position \/ position' = [position EXCEPT ![t] = l], UNCHANGED <<cur, res>>
      PROVE  Decided
  <2>1. \A w \in Workers : position'[w] = position[w] /\ cur'[w] = cur[w] /\ res'[w] = res[w]
    BY <1>a, <1>c
  <2>q. QED BY <1>0, <2>1, DecidedStays DEF Decided
<1>d. ASSUME NEW t \in Clients, NEW js \in Seq(Jobs), todo' = [todo EXCEPT ![t] = js],
             \A i \in DOMAIN js : StoppedAfter(js[i])
      PROVE  Listed
  <2>1. ASSUME NEW u \in Threads, NEW i \in DOMAIN todo'[u] PROVE StoppedAfter(todo'[u][i])
    <3>1. CASE u = t
      <4>1. todo'[u] = js
        BY <1>a, <1>d, <3>1
      <4>q. QED BY <1>d, <2>1, <4>1
    <3>2. CASE u # t
      <4>1. todo'[u] = todo[u]
        BY <1>a, <1>d, <3>2
      <4>q. QED BY <1>0, <2>1, <4>1, StoppedStays
    <3>q. QED BY <3>1, <3>2
  <2>q. QED BY <2>1
<1>1. ASSUME NEW t \in Clients, NEW j \in Jobs, Submit(t, j) PROVE Announced /\ Decided /\ Listed
  <2>1. /\ state[j] = "new" /\ UNCHANGED <<cur, res, todo>>
        /\ position' = position \/ position' = [position EXCEPT ![t] = "notify"]
        /\ \/ future' = future
           \/ /\ state' = [state EXCEPT ![j] = "done"] /\ records' = records
              /\ future' = [future EXCEPT ![j] = "Failed"]
    BY <1>0, <1>1, SubmitEffect
  <2>2. Announced
    BY <1>0, <1>a, <2>1 DEF Announced, HistoryIsOrdered
  <2>q. QED BY <1>b, <1>c, <2>1, <2>2
<1>2. ASSUME NEW t \in Clients, NEW j \in Jobs, StopQueued(t, j) PROVE Announced /\ Decided /\ Listed
  <2>1. /\ todo' = [todo EXCEPT ![t] = <<j>>] /\ position' = [position EXCEPT ![t] = "stopping"]
        /\ UNCHANGED <<cur, future, res>>
    BY <1>2, StopEffect, Zenon
  <2>2. StoppedAfter(j)
    BY <1>2, StopQueuedRecords DEF StoppedAfter
  <2>3. <<j>> \in Seq(Jobs) /\ \A i \in DOMAIN <<j>> : <<j>>[i] = j
    OBVIOUS
  <2>4. \A i \in DOMAIN <<j>> : StoppedAfter(<<j>>[i])
    BY <2>2, <2>3
  <2>5. Listed
    BY <1>d, <2>1, <2>3, <2>4, Zenon
  <2>6. Announced
    BY <2>1 DEF Announced
  <2>q. QED BY <1>c, <2>1, <2>5, <2>6, Zenon
<1>3. ASSUME NEW t \in Clients, NEW j \in Jobs, StopRunning(t, j) PROVE Announced /\ Decided /\ Listed
  <2>1. /\ todo' = [todo EXCEPT ![t] = <<j>>] /\ position' = [position EXCEPT ![t] = "stopping"]
        /\ stopRequested' = [stopRequested EXCEPT ![j] = TRUE] /\ UNCHANGED <<cur, future, res>>
    BY <1>3, Zenon DEF StopRunning
  <2>2. StoppedAfter(j)
    BY <1>0, <2>1 DEF StoppedAfter, SchedulerTypeOK
  <2>3. <<j>> \in Seq(Jobs) /\ \A i \in DOMAIN <<j>> : <<j>>[i] = j
    OBVIOUS
  <2>4. \A i \in DOMAIN <<j>> : StoppedAfter(<<j>>[i])
    BY <2>2, <2>3
  <2>5. Listed
    BY <1>d, <2>1, <2>3, <2>4, Zenon
  <2>6. Announced
    BY <2>1 DEF Announced
  <2>q. QED BY <1>c, <2>1, <2>5, <2>6, Zenon
<1>4. ASSUME NEW t \in Clients, Shutdown(t) PROVE Announced /\ Decided /\ Listed
  <2>1. /\ todo' = [todo EXCEPT ![t] = queue \o JobsToStop(Running)]
        /\ position' = [position EXCEPT ![t] = "shutdown"]
        /\ stopRequested' = [j \in Jobs |-> stopRequested[j] \/ j \in Running]
        /\ UNCHANGED <<cur, future, res>>
    BY <1>4, ShutdownEffect, Zenon
  <2>2. /\ queue \in Seq(Jobs) /\ JobsToStop(Running) \in Seq(Jobs)
        /\ \A i \in DOMAIN JobsToStop(Running) : JobsToStop(Running)[i] \in Running
    BY Zenon DEF SchedulerInv, SchedulerTypeOK, RunningIsListed
  <2>3. \A j \in Running : StoppedAfter(j)
    BY <2>1, Zenon DEF StoppedAfter, Running
  <2>4. \A i \in DOMAIN queue : StoppedAfter(queue[i])
    BY <1>4, ShutdownRecords DEF StoppedAfter, Range
  <2>5. PICK r : r = JobsToStop(Running)
    OBVIOUS
  <2>6. r \in Seq(Jobs) /\ \A i \in DOMAIN r : StoppedAfter(r[i])
    BY <2>2, <2>3, <2>5
  <2>7. queue \o r \in Seq(Jobs) /\ \A i \in DOMAIN (queue \o r) : StoppedAfter((queue \o r)[i])
    <3>1. /\ queue \o r \in Seq(Jobs) /\ Len(queue \o r) = Len(queue) + Len(r)
          /\ \A i \in 1..(Len(queue) + Len(r)) :
               (queue \o r)[i] = IF i <= Len(queue) THEN queue[i] ELSE r[i - Len(queue)]
      BY <2>2, <2>6, ConcatFacts, Zenon
    <3>2. /\ Len(queue) \in Nat /\ DOMAIN queue = 1..Len(queue)
          /\ Len(r) \in Nat /\ DOMAIN r = 1..Len(r)
          /\ DOMAIN (queue \o r) = 1..Len(queue \o r)
      BY <2>2, <2>6, <3>1, LengthFacts
    <3>3. ASSUME NEW i \in DOMAIN (queue \o r) PROVE StoppedAfter((queue \o r)[i])
      <4>1. CASE i <= Len(queue)
        <5>1. i \in DOMAIN queue /\ (queue \o r)[i] = queue[i]
          BY <3>1, <3>2, <3>3, <4>1
        <5>q. QED BY <2>4, <5>1
      <4>2. CASE ~(i <= Len(queue))
        <5>1. i - Len(queue) \in DOMAIN r /\ (queue \o r)[i] = r[i - Len(queue)]
          BY <3>1, <3>2, <3>3, <4>2
        <5>q. QED BY <2>6, <5>1
      <4>q. QED BY <4>1, <4>2
    <3>q. QED BY <3>1, <3>3
  <2>8. Listed
    BY <1>d, <2>1, <2>5, <2>7, Zenon
  <2>9. Announced
    BY <2>1 DEF Announced
  <2>q. QED BY <1>c, <2>1, <2>8, <2>9, Zenon
<1>5. ASSUME NEW t \in Threads, RequestStop(t) PROVE Announced /\ Decided /\ Listed
  <2>1. todo[t] \in Seq(Jobs) /\ todo[t] # <<>>
    BY <1>5, <1>a DEF RequestStop
  <2>2. /\ Head(todo[t]) \in Jobs /\ Tail(todo[t]) \in Seq(Jobs) /\ Head(todo[t]) = todo[t][1]
        /\ 1 \in DOMAIN todo[t]
        /\ \A i \in DOMAIN Tail(todo[t]) : i + 1 \in DOMAIN todo[t] /\ Tail(todo[t])[i] = todo[t][i + 1]
    BY <2>1
  <2>3. PICK j \in Jobs : j = Head(todo[t])
    BY <2>2
  <2>4. /\ future' = [future EXCEPT ![j] =
             IF state[j] = "done" /\ @ = "pending" /\ ~stopRequested[j] THEN "Cancelled" ELSE @]
        /\ todo' = [todo EXCEPT ![t] = Tail(@)]
        /\ UNCHANGED <<state, stopRequested, records, cur, res>>
    BY <1>5, <2>3, Zenon DEF RequestStop
  <2>5. Stopped(j)
    <3>1. \A i \in DOMAIN todo[t] : Stopped(todo[t][i])
      BY <1>0, Zenon DEF FutureIsForeseen, Stopped
    <3>2. Stopped(todo[t][1])
      BY <2>2, <3>1
    <3>q. QED BY <2>2, <2>3, <3>2
  <2>6. Announced
    BY <1>a, <2>4, <2>5 DEF Announced, Stopped
  <2>7. \A w \in Workers : position'[w] \in {"complete", "promise"} => position'[w] = position[w]
    BY <1>5, <1>a DEF RequestStop
  <2>8. Decided
    BY <1>0, <2>4, <2>7, DecidedStays DEF Decided
  <2>9. ASSUME NEW u \in Threads, NEW i \in DOMAIN todo'[u] PROVE StoppedAfter(todo'[u][i])
    <3>1. CASE u = t
      <4>1. todo'[u] = Tail(todo[t])
        BY <1>a, <2>4, <3>1
      <4>2. i + 1 \in DOMAIN todo[t] /\ todo'[u][i] = todo[t][i + 1]
        BY <2>2, <2>9, <4>1, Zenon
      <4>q. QED BY <1>0, <4>2, StoppedStays
    <3>2. CASE u # t
      <4>1. todo'[u] = todo[u]
        BY <1>a, <2>4, <3>2
      <4>q. QED BY <1>0, <2>9, <4>1, StoppedStays
    <3>q. QED BY <3>1, <3>2
  <2>q. QED BY <2>6, <2>8, <2>9
<1>6. ASSUME NEW w \in Workers, CallbackReturns(w) PROVE Announced /\ Decided /\ Listed
  <2>1. \A s \in CallbackStates : NormalizeResult(cur[w], s) \in Terminal
    BY DEF NormalizeResult, Terminal
  <2>2. PICK r \in Terminal : res' = [res EXCEPT ![w] = r]
    BY <1>6, <2>1, Zenon DEF CallbackReturns
  <2>3. position' = [position EXCEPT ![w] = "complete"] /\ UNCHANGED <<cur, future, todo>>
    BY <1>6 DEF CallbackReturns
  <2>4. res'[w] = r /\ position'[w] = "complete"
    BY <1>a, <2>2, <2>3
  <2>5. \A v \in Workers \ {w} : position'[v] = position[v] /\ cur'[v] = cur[v] /\ res'[v] = res[v]
    BY <1>a, <2>2, <2>3
  <2>6. Decided
    BY <1>0, <2>4, <2>5, DecidedStays, Zenon DEF Decided
  <2>7. Announced
    BY <2>3 DEF Announced
  <2>q. QED BY <1>b, <2>3, <2>6, <2>7
<1>7. ASSUME NEW w \in Workers, CompleteJob(w) PROVE Announced /\ Decided /\ Listed
  <2>1. /\ position[w] = "complete" /\ position' = [position EXCEPT ![w] = "promise"]
        /\ UNCHANGED <<cur, future, res, todo>>
    BY <1>7, Zenon DEF CompleteJob
  <2>2. state'[cur'[w]] = "done" /\ records'[cur'[w]] \in {res'[w], "none"}
    BY <1>7, <2>1, CompleteJobRecords, Zenon
  <2>3. res'[w] \in Terminal
    BY <1>0, <2>1, Zenon DEF FutureIsForeseen
  <2>4. \A v \in Workers \ {w} : position'[v] = position[v] /\ cur'[v] = cur[v] /\ res'[v] = res[v]
    BY <1>a, <2>1
  <2>5. Decided
    BY <1>0, <2>2, <2>3, <2>4, DecidedStays, Zenon DEF Decided
  <2>6. Announced
    BY <2>1 DEF Announced
  <2>q. QED BY <1>b, <2>1, <2>5, <2>6
<1>8. ASSUME NEW w \in Workers, SetPromiseSafely(w) PROVE Announced /\ Decided /\ Listed
  <2>1. /\ position[w] = "promise" /\ position' = [position EXCEPT ![w] = "notify"]
        /\ future' = [future EXCEPT ![cur[w]] = IF @ = "pending" THEN res[w] ELSE @]
        /\ UNCHANGED <<state, records, cur, res, todo>>
    BY <1>8 DEF SetPromiseSafely
  <2>2. state[cur[w]] = "done" /\ records[cur[w]] \in {res[w], "none"} /\ cur[w] \in Jobs
    BY <1>0, <1>a, <2>1, Zenon DEF FutureIsForeseen
  <2>3. Announced
    BY <1>a, <2>1, <2>2 DEF Announced
  <2>4. \A v \in Workers : position'[v] \in {"complete", "promise"} =>
           position'[v] = position[v] /\ cur'[v] = cur[v] /\ res'[v] = res[v]
    BY <1>a, <2>1
  <2>5. Decided
    BY <1>0, <2>4, DecidedStays, Zenon DEF Decided
  <2>q. QED BY <1>b, <2>1, <2>3, <2>5, Zenon
<1>9. ASSUME Still PROVE Announced /\ Decided /\ Listed
  <2>1. Decided
    BY <1>0, <1>9, DecidedStays DEF Decided, Still
  <2>q. QED BY <1>b, <1>9, <2>1, Zenon DEF Still, Announced
<1>q. QED BY <1>0, <1>1, <1>2, <1>3, <1>4, <1>5, <1>6, <1>7, <1>8, <1>9, FutureSteps, Zenon

-----------------------------------------------------------------------------
(* Counting the running jobs and the history                               *)

INSTANCE FiniteSetTheorems

\* Shutdown's list of the running jobs holds running jobs only.
LEMMA StopOrder ==
  ASSUME NEW S, NEW T \in SUBSET S, IsFiniteSet(T)
  PROVE  JobsToStop(T) \in Seq(S) /\ \A i \in DOMAIN JobsToStop(T) : JobsToStop(T)[i] \in T
<1>1. Cardinality(T) \in Nat /\ ExistsBijection(1..Cardinality(T), T)
  BY FS_CardinalityType
<1>2. JobsToStop(T) \in Bijection(1..Cardinality(T), T)
  BY <1>1 DEF ExistsBijection, JobsToStop
<1>3. JobsToStop(T) \in [1..Cardinality(T) -> T]
  BY <1>2 DEF Bijection, Injection
<1>4. JobsToStop(T) \in [1..Cardinality(T) -> S]
  BY <1>3
<1>5. JobsToStop(T) \in Seq(S)
  BY <1>1, <1>4
<1>q. QED BY <1>3, <1>5

\* A sequence has no more elements than places.
LEMMA RangeIsSmall ==
  ASSUME NEW S, NEW q \in Seq(S), NEW T \in SUBSET Range(q)
  PROVE  IsFiniteSet(T) /\ Cardinality(T) <= Len(q)
<1>1. Len(q) \in Nat /\ DOMAIN q = 1..Len(q) /\ q \in [1..Len(q) -> S]
  BY LengthFacts
<1>2. q \in Surjection(1..Len(q), Range(q))
  BY <1>1 DEF Surjection, Range
<1>3. IsFiniteSet(1..Len(q)) /\ Cardinality(1..Len(q)) = Len(q)
  BY <1>1, FS_Interval
<1>4. IsFiniteSet(Range(q)) /\ Cardinality(Range(q)) <= Len(q)
  BY <1>2, <1>3, FS_Surjection
<1>5. IsFiniteSet(T) /\ Cardinality(T) <= Cardinality(Range(q))
  BY <1>4, FS_Subset
<1>6. Cardinality(T) \in Nat /\ Cardinality(Range(q)) \in Nat
  BY <1>4, <1>5, FS_CardinalityType
<1>q. QED BY <1>1, <1>4, <1>5, <1>6

\* The running jobs are finitely many, and are listed and counted therefore.
LEMMA RunningListed == ASSUME SchedulerTypeOK, IsFiniteSet(Running) PROVE RunningIsListed
<1>1. Running \in SUBSET Jobs
  BY DEF Running
<1>2. Cardinality({ j \in Running : ~stopRequested[j] }) \in Nat
  BY FS_Subset, FS_CardinalityType
<1>3. Running # {} => Cardinality(Running) # 0
  BY FS_EmptySet
<1>q. QED BY <1>1, <1>2, <1>3, StopOrder, Zenon DEF RunningIsListed

\* Every step keeps running_count_ the number of running jobs, and a sequential job alone.
LEMMA CountRunning ==
  ASSUME SchedulerInv, [SchedulerNext]_schedulerVars
  PROVE  /\ IsFiniteSet(Running') /\ running_count' = Cardinality(Running')
         /\ SequentialRunsAlone'
<1>0. /\ SchedulerTypeOK /\ IsFiniteSet(Running) /\ running_count = Cardinality(Running)
      /\ SequentialRunsAlone /\ running_count \in Nat
  BY Zenon DEF SchedulerInv, JobsAreAccountedFor, SchedulerTypeOK
<1>1. ASSUME NEW i \in DOMAIN queue, CanStartLocked(queue[i]), queue[i] \in Jobs \ Running,
             Running' = Running \cup {queue[i]}, running_count' = running_count + 1,
             sequential_running' = (queue[i] \in Sequential)
      PROVE  /\ IsFiniteSet(Running') /\ running_count' = Cardinality(Running')
             /\ SequentialRunsAlone'
  <2>1. PICK j \in Jobs : j = queue[i] /\ j \notin Running
    BY <1>1
  <2>2. IsFiniteSet(Running') /\ Cardinality(Running') = Cardinality(Running) + 1
    BY <1>0, <1>1, <2>1, FS_AddElement
  <2>3. Running \cap Sequential = {}
    BY <1>0, <1>1, Zenon DEF CanStartLocked, SequentialRunsAlone
  <2>4. j \in Sequential => running_count = 0
    BY <1>1, <2>1, Zenon DEF CanStartLocked
  <2>5. (Running' \cap Sequential # {}) <=> j \in Sequential
    BY <1>1, <2>1, <2>3
  <2>6. sequential_running' = (Running' \cap Sequential # {})
    BY <1>1, <2>1, <2>5
  <2>7. Running' \cap Sequential # {} => Cardinality(Running') = 1
    BY <1>0, <2>2, <2>4, <2>5
  <2>q. QED BY <1>0, <1>1, <2>2, <2>6, <2>7, Zenon DEF SequentialRunsAlone
<1>2. ASSUME NEW j \in Running, Running' = Running \ {j},
             running_count' = IF running_count > 0 THEN running_count - 1 ELSE 0,
             sequential_running' = (sequential_running /\ j \notin Sequential)
      PROVE  /\ IsFiniteSet(Running') /\ running_count' = Cardinality(Running')
             /\ SequentialRunsAlone'
  <2>1. IsFiniteSet(Running') /\ Cardinality(Running') = Cardinality(Running) - 1
    BY <1>0, <1>2, FS_RemoveElement
  <2>2. Cardinality(Running') \in Nat
    BY <2>1, FS_CardinalityType
  <2>3. running_count' = Cardinality(Running')
    BY <1>0, <1>2, <2>1, <2>2
  <2>4. Running' \cap Sequential = {} /\ ~sequential_running'
    <3>1. CASE Running \cap Sequential = {}
      <4>1. ~sequential_running
        BY <1>0, <3>1, Zenon DEF SequentialRunsAlone
      <4>q. QED BY <1>2, <3>1, <4>1, Zenon
    <3>2. CASE Running \cap Sequential # {}
      <4>1. Cardinality(Running) = 1
        BY <1>0, <3>2, Zenon DEF SequentialRunsAlone
      <4>2. Running' = {}
        BY <2>1, <4>1, FS_EmptySet
      <4>3. j \in Sequential
        BY <1>2, <3>2, <4>2
      <4>q. QED BY <1>2, <4>2, <4>3, Zenon
    <3>q. QED BY <3>1, <3>2
  <2>5. SequentialRunsAlone'
    <3>1. sequential_running' \in BOOLEAN
      BY <1>2, Zenon
    <3>2. sequential_running' = (Running' \cap Sequential # {})
      BY <2>4, <3>1
    <3>q. QED BY <2>4, <3>2 DEF SequentialRunsAlone
  <2>q. QED BY <2>1, <2>3, <2>5
<1>3. ASSUME Running' = Running, UNCHANGED <<running_count, sequential_running>>
      PROVE  /\ IsFiniteSet(Running') /\ running_count' = Cardinality(Running')
             /\ SequentialRunsAlone'
  BY <1>0, <1>3 DEF SequentialRunsAlone
<1>q. QED BY <1>1, <1>2, <1>3, RunningStep, Zenon

-----------------------------------------------------------------------------
(* The inductive invariant and what follows from it                        *)

\* The invariant holds initially.
LEMMA InitInv == ASSUME SchedulerInit PROVE SchedulerInv
<1>1. SchedulerTypeOK
  BY InitTypes
<1>2. /\ \A j \in Jobs : state[j] = "new" /\ records[j] = "none" /\ future[j] = "pending"
      /\ queue = <<>> /\ completed_order = <<>> /\ running_count = 0 /\ thrown = 0
      /\ \A c \in Counters : statistics[c] = 0
      /\ \A w \in Workers : position[w] = "wait"
      /\ \A t \in Threads : todo[t] = <<>>
  BY DEF SchedulerInit, Threads
<1>3. Running = {} /\ Outstanding = {}
  BY <1>2 DEF Running, Outstanding
<1>4. IsFiniteSet(Running) /\ Cardinality(Running) = 0
  BY <1>3, FS_EmptySet
<1>5. QueueHoldsQueued /\ RunningIsOwned
  BY <1>2 DEF QueueHoldsQueued, RunningIsOwned, Executing
<1>6. SequentialRunsAlone
  <2>1. sequential_running = FALSE
    BY DEF SchedulerInit
  <2>2. Running \cap Sequential = {}
    BY <1>3
  <2>q. QED BY <2>1, <2>2, Zenon DEF SequentialRunsAlone
<1>7. JobsAreAccountedFor
  BY <1>2, <1>4 DEF JobsAreAccountedFor, Counters
<1>7a. thrown \in Nat
  BY <1>2
<1>8. HistoryIsOrdered
  BY <1>2, <1>3, SchedulerAssumption DEF HistoryIsOrdered
<1>9. FutureIsForeseen /\ SnapshotAgreesWithFuture
  BY <1>2 DEF FutureIsForeseen, SnapshotAgreesWithFuture
<1>q. QED BY <1>1, <1>4, <1>5, <1>6, <1>7, <1>7a, <1>8, <1>9 DEF SchedulerInv

\* Every step keeps the invariant.
LEMMA NextInv == ASSUME SchedulerInv, [SchedulerNext]_schedulerVars PROVE SchedulerInv'
<1>0. RunningIsListed
  BY RunningListed DEF SchedulerInv
<1>1. SchedulerTypeOK'
  BY <1>0, NextTypes
<1>2. QueueHoldsQueued' /\ RunningIsOwned'
  BY QueueStep, OwnedStep
<1>3. IsFiniteSet(Running)' /\ SequentialRunsAlone' /\ (thrown \in Nat)' /\ JobsAreAccountedFor'
  BY <1>0, CountRunning, AccountStep DEF JobsAreAccountedFor, Balanced
<1>4. HistoryIsOrdered' /\ Settled
  BY HistoryStep
<1>5. Announced /\ Decided /\ \A t \in Threads : \A i \in DOMAIN todo'[t] : StoppedAfter(todo'[t][i])
  BY <1>0, FutureStep
<1>6. FutureIsForeseen /\ SnapshotAgreesWithFuture
  BY DEF SchedulerInv
<1>7. /\ state \in [Jobs -> {"new", "queued", "running", "done"}]
      /\ state' \in [Jobs -> {"new", "queued", "running", "done"}]
  BY <1>1 DEF SchedulerInv, SchedulerTypeOK
<1>8. \A j \in Jobs : state'[j] # "done" => future'[j] = "pending"
  BY <1>4, <1>5, <1>6, Zenon DEF Settled, Announced, FutureIsForeseen
<1>9. FutureIsForeseen'
  BY <1>5, <1>8, Zenon DEF FutureIsForeseen, Decided, StoppedAfter
<1>10. SnapshotAgreesWithFuture'
  BY <1>4, <1>5, <1>6 DEF SnapshotAgreesWithFuture, FutureIsForeseen, Settled, Announced
<1>q. QED BY <1>1, <1>2, <1>3, <1>4, <1>9, <1>10 DEF SchedulerInv

\* SchedulerInv is an invariant of the scheduler.
LEMMA InvHolds == SchedulerSpec => []SchedulerInv
<1>1. SchedulerInit => SchedulerInv
  BY InitInv
<1>2. SchedulerInv /\ [SchedulerNext]_schedulerVars => SchedulerInv'
  BY NextInv
<1>q. QED BY <1>1, <1>2, PTL DEF SchedulerSpec

\* The history is bounded, because what keeps a snapshot stands in completed_order_.
LEMMA InvBoundsHistory == ASSUME SchedulerInv PROVE HistoryBounded
<1>1. HistoryIsOrdered /\ completed_order \in Seq(Jobs) /\ Len(completed_order) \in Nat
  BY LengthFacts DEF SchedulerInv, SchedulerTypeOK
<1> DEFINE finished == { j \in Jobs : state[j] = "done" /\ records[j] # "none" }
<1>2. finished \in SUBSET Range(completed_order)
  BY <1>1 DEF HistoryIsOrdered
<1> HIDE DEF finished
<1>3. IsFiniteSet(finished) /\ Cardinality(finished) <= Len(completed_order)
  BY <1>1, <1>2, RangeIsSmall
<1>4. Cardinality(finished) \in Nat
  BY <1>3, FS_CardinalityType
<1>5. MaximumCompletedHistorySize > 0 => Cardinality(finished) <= MaximumCompletedHistorySize
  BY <1>1, <1>3, <1>4, SchedulerAssumption DEF HistoryIsOrdered
<1>q. QED BY <1>1, <1>5 DEF HistoryBounded, HistoryIsOrdered, finished

\* A sequential job has the scheduler for itself (RunScheduledJob, CanStartLocked).
THEOREM SequentialJobsRunAlone == SchedulerSpec => []SequentialRunsAlone
<1>1. SchedulerInv => SequentialRunsAlone
  BY DEF SchedulerInv
<1>q. QED BY <1>1, InvHolds, PTL

\* GetStatistics accounts for every accepted job, through every order of submissions,
\* starts, stops, completions and a shutdown; a Submit that throws shifts the account by
\* the failure its catch counts.
THEOREM JobsAccounted == SchedulerSpec => []JobsAreAccountedFor
<1>1. SchedulerInv => JobsAreAccountedFor
  BY DEF SchedulerInv
<1>q. QED BY <1>1, InvHolds, PTL

\* The snapshot and the future of a finished job agree, although Stop and Shutdown write
\* the snapshot before the promise is set.
THEOREM SnapshotsAgree == SchedulerSpec => []SnapshotAgreesWithFuture
<1>1. SchedulerInv => SnapshotAgreesWithFuture
  BY DEF SchedulerInv
<1>q. QED BY <1>1, InvHolds, PTL

\* PruneCompletedHistoryLocked keeps the finished snapshots within their limit and never
\* drops that of an outstanding job.
THEOREM HistoryIsBounded == SchedulerSpec => []HistoryBounded
<1>1. SchedulerInv => HistoryBounded
  BY InvBoundsHistory
<1>q. QED BY <1>1, InvHolds, PTL

\* All of this together, as the run checks it.
THEOREM JobsSound == SchedulerSpec => []JobsAreSound
<1>1. SchedulerInv => JobsAreSound
  BY InvBoundsHistory DEF SchedulerInv, JobsAreSound
<1>q. QED BY <1>1, InvHolds, PTL

\* A finished job stays finished and its snapshot is never rewritten, only pruned.
THEOREM FinishedJobsAreSettled == SchedulerSpec => [][Settled]_schedulerVars
<1>1. SchedulerInv /\ [SchedulerNext]_schedulerVars => [Settled]_schedulerVars
  BY HistoryStep
<1>q. QED BY <1>1, InvHolds, PTL DEF SchedulerSpec

=============================================================================

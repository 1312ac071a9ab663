------------------------ MODULE RuntimeServiceProofs ------------------------
(***************************************************************************)
(* The stores that the jobs of the runtime share, for any number of threads. *)
(* ResourceManager: its leases exclude each other as promised, handles die   *)
(* with their leases, no blocked call is left with a dangling reference, and *)
(* it implements LeaseTable.  Blackboard: the map of maps implements         *)
(* SharedStore.                                                              *)
(***************************************************************************)
EXTENDS ResourceManager, Blackboard, FiniteSetTheorems, TLAPS

\* The threads blocked in Acquire for this resource in this mode.
Blocked(r, mode) ==
  { t \in Acquirers : pc[t] = "blocked" /\ want[t].resource = r /\ want[t].mode = mode }

\* The counters of ResourceState count the blocked threads.
CountersExact ==
  \A r \in Resources, mode \in Modes : Waiting(r, mode) = Cardinality(Blocked(r, mode))

\* Lease numbers grow: those in use are below next_lease_id_.
LeasesBelow ==
  /\ \A h \in handles : h.lease < next_lease_id
  /\ \A r \in Resources : exclusive_lease[r] < next_lease_id
  /\ \A r \in Resources : \A n \in shared_leases[r] : n < next_lease_id

\* The inductive invariant.
IInv == TypeOK /\ CountersExact /\ LeasesBelow /\ ExclusiveMeansAlone
          /\ StaleHandleIsDead /\ NoDanglingReference

\* Initially nobody waits and nothing is held.
LEMMA InitIInv == ASSUME Resources # {}, Init PROVE IInv
<1> USE DEF Init
<1>1. TypeOK
  <2>1. Requests # {}
    <3>1. PICK r \in Resources : TRUE
      OBVIOUS
    <3>2. [resource |-> r, mode |-> "Shared", timed |-> TRUE] \in Requests
      BY DEF Requests, Modes
    <3> QED BY <3>2
  <2>2. (CHOOSE q \in Requests : TRUE) \in Requests
    BY <2>1
  <2> QED BY <2>2 DEF TypeOK
<1>2. CountersExact
  <2>1. \A r \in Resources, mode \in Modes : Blocked(r, mode) = {}
    BY DEF Blocked
  <2> QED BY <2>1, FS_EmptySet DEF CountersExact, Waiting, Modes
<1> QED BY <1>1, <1>2 DEF IInv, LeasesBelow, ExclusiveMeansAlone, StaleHandleIsDead,
                          NoDanglingReference

\* Sets of blocked threads are finite.
LEMMA BlockedFinite ==
  ASSUME NEW r, NEW mode
  PROVE  IsFiniteSet(Blocked(r, mode)) /\ Cardinality(Blocked(r, mode)) \in Nat
<1>1. Blocked(r, mode) \subseteq Acquirers
  BY DEF Blocked
<1> QED BY <1>1, ResourceAssumption, FS_Subset, FS_CardinalityType

\* A blocked thread is counted, so its counter is positive.
LEMMA BlockedCounted ==
  ASSUME IInv, NEW t \in Acquirers, pc[t] = "blocked"
  PROVE  /\ want[t].resource \in Resources /\ want[t].mode \in Modes
         /\ Waiting(want[t].resource, want[t].mode) - 1 \in Nat
         /\ Cardinality(Blocked(want[t].resource, want[t].mode) \ {t})
              = Waiting(want[t].resource, want[t].mode) - 1
<1> DEFINE B == Blocked(want[t].resource, want[t].mode)
<1>1. want[t].resource \in Resources /\ want[t].mode \in Modes
  BY DEF IInv, TypeOK, Requests
<1>2. t \in B
  BY DEF Blocked
<1>3. IsFiniteSet(B) /\ Cardinality(B) \in Nat
  BY BlockedFinite
<1>4. Cardinality(B \ {t}) = Cardinality(B) - 1 /\ Cardinality(B) - 1 \in Nat
  <2>1. Cardinality(B \ {t}) = Cardinality(B) - 1
    BY <1>2, <1>3, FS_RemoveElement, Zenon
  <2>2. IsFiniteSet(B \ {t})
    BY <1>3, FS_Subset
  <2>3. Cardinality(B \ {t}) \in Nat
    BY <2>2, FS_CardinalityType
  <2> QED BY <2>1, <2>3
<1> QED BY <1>1, <1>4 DEF IInv, CountersExact

-----------------------------------------------------------------------------
\* What a step does to the leases: nothing, a new lock, or a release.
LeasesUnchanged ==
  UNCHANGED <<shared_leases, exclusive_lease, next_lease_id, handles, released>>

\* What a step does to the waiting threads: nothing, or one blocks or leaves.
WaitersUnchanged ==
  /\ UNCHANGED <<waiting_shared, waiting_exclusive, want>>
  /\ \A t \in Acquirers : (pc'[t] = "blocked") = (pc[t] = "blocked")

Leaves(t) ==
  /\ pc[t] = "blocked" /\ pc' = [pc EXCEPT ![t] = "idle"] /\ UNCHANGED want
  /\ SetWaiting(want[t].resource, want[t].mode,
                Waiting(want[t].resource, want[t].mode) - 1)

\* Every step leaves the blocked threads alone, blocks one more, or lets one leave.
LEMMA WaiterSteps ==
  ASSUME TypeOK, [Next]_vars
  PROVE  \/ WaitersUnchanged
         \/ \E t \in Acquirers, q \in Requests : AcquireBlocks(t, q)
         \/ \E t \in Acquirers : Leaves(t)
<1> DEFINE Goal == \/ WaitersUnchanged
                   \/ \E t \in Acquirers, q \in Requests : AcquireBlocks(t, q)
                   \/ \E t \in Acquirers : Leaves(t)
<1> SUFFICES ASSUME Next PROVE Goal
  BY DEF vars, leaseVars, waitVars, WaitersUnchanged
<1>0. pc \in [Acquirers -> {"idle", "blocked", "notify"}]
  BY DEF TypeOK
<1>1. ASSUME NEW t \in Acquirers, NEW r \in Resources, NEW mode \in Modes,
             AcquireAtOnce(t, r, mode)
      PROVE  Goal
  BY <1>1 DEF AcquireAtOnce, waitVars, WaitersUnchanged
<1>2. ASSUME NEW t \in Acquirers, WaitsAgain(t) PROVE Goal
  BY <1>2 DEF WaitsAgain, leaseVars, WaitersUnchanged
<1>3. ASSUME NEW t \in Acquirers, AcquireAfterWait(t) PROVE Goal
  BY Zenon, <1>3 DEF AcquireAfterWait, Leaves
<1>4. ASSUME NEW t \in Acquirers, AcquireTimesOut(t) PROVE Goal
  BY Zenon, <1>4 DEF AcquireTimesOut, Leaves
<1>5. ASSUME NEW t \in Acquirers, NEW h \in handles, Release(t, h) PROVE Goal
  <2>1. pc[t] = "idle" /\ pc' = [pc EXCEPT ![t] = "notify"] 
    BY <1>5 DEF Release
  <2>2. UNCHANGED <<waiting_shared, waiting_exclusive, want>>
    BY <1>5 DEF Release, waitVars
  <2>3. \A u \in Acquirers : (pc'[u] = "blocked") = (pc[u] = "blocked")
    BY <2>1, <1>0
  <2> QED BY <2>2, <2>3 DEF WaitersUnchanged
<1>6. ASSUME NEW t \in Acquirers, Notify(t) PROVE Goal
  BY <1>0, <1>6 DEF Notify, leaseVars, WaitersUnchanged
<1>7. ASSUME NEW t \in Acquirers, SpuriousWakeup(t) PROVE Goal
  BY <1>7 DEF SpuriousWakeup, leaseVars, WaitersUnchanged
<1> HIDE DEF Goal
<1>8. ASSUME NEW t \in Acquirers, NEW q \in Requests, AcquireBlocks(t, q) PROVE Goal
  BY <1>8 DEF Goal
<1> QED BY <1>1, <1>2, <1>3, <1>4, <1>5, <1>6, <1>7, <1>8 DEF Next

\* Every step leaves the leases alone, gives one that may be given, or releases one.
LEMMA LeaseSteps ==
  ASSUME TypeOK, [Next]_vars
  PROVE  \/ LeasesUnchanged
         \/ \E r \in Resources, mode \in Modes :
              CanAcquire(r, mode) /\ CreateLockLocked(r, mode)
         \/ \E t \in Acquirers, h \in handles : Release(t, h)
<1> DEFINE Goal == \/ LeasesUnchanged
                   \/ \E r \in Resources, mode \in Modes :
                        CanAcquire(r, mode) /\ CreateLockLocked(r, mode)
                   \/ \E t \in Acquirers, h \in handles : Release(t, h)
<1> SUFFICES ASSUME Next PROVE Goal
  BY DEF vars, leaseVars, LeasesUnchanged
<1>1. ASSUME NEW t \in Acquirers, NEW r \in Resources, NEW mode \in Modes,
             AcquireAtOnce(t, r, mode)
      PROVE  Goal
  BY <1>1 DEF AcquireAtOnce
<1>2. ASSUME NEW t \in Acquirers, AcquireAfterWait(t) PROVE Goal
  <2>1. want[t].resource \in Resources /\ want[t].mode \in Modes
    BY DEF TypeOK, Requests
  <2> QED BY <2>1, <1>2 DEF AcquireAfterWait
<1>3. ASSUME NEW t \in Acquirers, NEW q \in Requests, AcquireBlocks(t, q) PROVE Goal
  BY <1>3 DEF AcquireBlocks, LeasesUnchanged
<1>4. ASSUME NEW t \in Acquirers, WaitsAgain(t) \/ Notify(t) \/ SpuriousWakeup(t) PROVE Goal
  BY <1>4 DEF WaitsAgain, Notify, SpuriousWakeup, leaseVars, LeasesUnchanged
<1>5. ASSUME NEW t \in Acquirers, AcquireTimesOut(t) PROVE Goal
  BY <1>5 DEF AcquireTimesOut, LeasesUnchanged
<1> HIDE DEF Goal
<1>6. ASSUME NEW t \in Acquirers, NEW h \in handles, Release(t, h) PROVE Goal
  BY <1>6 DEF Goal
<1> QED BY <1>1, <1>2, <1>3, <1>4, <1>5, <1>6 DEF Next

-----------------------------------------------------------------------------
\* The counters stay exact and the entry of a blocked thread stays in place.
LEMMA CountersNext == ASSUME IInv, [Next]_vars PROVE CountersExact'
<1>0. /\ TypeOK /\ CountersExact
      /\ pc \in [Acquirers -> {"idle", "blocked", "notify"}]
      /\ want \in [Acquirers -> Requests]
      /\ waiting_shared \in [Resources -> Nat] /\ waiting_exclusive \in [Resources -> Nat]
  BY DEF IInv, TypeOK
<1> SUFFICES ASSUME NEW r \in Resources, NEW mode \in Modes
             PROVE  Waiting(r, mode)' = Cardinality(Blocked(r, mode)')
  BY DEF CountersExact
<1>1. Waiting(r, mode) = Cardinality(Blocked(r, mode))
  BY <1>0 DEF CountersExact
<1>2. CASE WaitersUnchanged
  <2>1. Blocked(r, mode)' = Blocked(r, mode)
    BY <1>2 DEF WaitersUnchanged, Blocked
  <2>2. Waiting(r, mode)' = Waiting(r, mode)
    BY <1>2 DEF WaitersUnchanged, Waiting
  <2> QED BY <1>1, <2>1, <2>2
<1>3. ASSUME NEW t \in Acquirers, NEW q \in Requests, AcquireBlocks(t, q)
      PROVE  Waiting(r, mode)' = Cardinality(Blocked(r, mode)')
  <2>1. /\ pc[t] = "idle" /\ pc' = [pc EXCEPT ![t] = "blocked"]
        /\ want' = [want EXCEPT ![t] = q]
        /\ SetWaiting(q.resource, q.mode, Waiting(q.resource, q.mode) + 1)
    BY <1>3 DEF AcquireBlocks
  <2>2. q.resource \in Resources /\ q.mode \in Modes
    BY DEF Requests
  <2>3. CASE q.resource = r /\ q.mode = mode
    <3>1. Blocked(r, mode)' = Blocked(r, mode) \cup {t} /\ t \notin Blocked(r, mode)
      BY <1>0, <2>1, <2>3 DEF Blocked
    <3>2. Waiting(r, mode)' = Waiting(r, mode) + 1
      BY <1>0, <2>1, <2>2, <2>3 DEF Waiting, SetWaiting, Modes
    <3>3. Cardinality(Blocked(r, mode) \cup {t}) = Cardinality(Blocked(r, mode)) + 1
      BY Zenon, <3>1, BlockedFinite, FS_AddElement
    <3> QED BY <1>1, <3>1, <3>2, <3>3
  <2>4. CASE ~(q.resource = r /\ q.mode = mode)
    <3>1. Blocked(r, mode)' = Blocked(r, mode)
      BY <1>0, <2>1, <2>4 DEF Blocked
    <3>2. Waiting(r, mode)' = Waiting(r, mode)
      BY <1>0, <2>1, <2>2, <2>4 DEF Waiting, SetWaiting, Modes
    <3> QED BY <1>1, <3>1, <3>2
  <2> QED BY <2>3, <2>4
<1>4. ASSUME NEW t \in Acquirers, Leaves(t)
      PROVE  Waiting(r, mode)' = Cardinality(Blocked(r, mode)')
  <2> DEFINE q == want[t]
  <2>1. /\ pc[t] = "blocked" /\ pc' = [pc EXCEPT ![t] = "idle"] /\ want' = want
        /\ SetWaiting(q.resource, q.mode, Waiting(q.resource, q.mode) - 1)
    BY <1>4 DEF Leaves
  <2>2. /\ q.resource \in Resources /\ q.mode \in Modes
        /\ Cardinality(Blocked(q.resource, q.mode) \ {t}) = Waiting(q.resource, q.mode) - 1
    BY <2>1, BlockedCounted, Zenon
  <2>3. CASE q.resource = r /\ q.mode = mode
    <3>1. Blocked(r, mode)' = Blocked(r, mode) \ {t}
      BY <1>0, <2>1, <2>3 DEF Blocked
    <3>2. Waiting(r, mode)' = Waiting(r, mode) - 1
      BY <1>0, <2>1, <2>2, <2>3 DEF Waiting, SetWaiting, Modes
    <3> QED BY <2>2, <2>3, <3>1, <3>2
  <2>4. CASE ~(q.resource = r /\ q.mode = mode)
    <3>1. Blocked(r, mode)' = Blocked(r, mode)
      BY <1>0, <2>1, <2>4 DEF Blocked
    <3>2. Waiting(r, mode)' = Waiting(r, mode)
      BY <1>0, <2>1, <2>2, <2>4 DEF Waiting, SetWaiting, Modes
    <3> QED BY <1>1, <3>1, <3>2
  <2> QED BY <2>3, <2>4
<1> QED BY <1>0, <1>2, <1>3, <1>4, WaiterSteps

-----------------------------------------------------------------------------
\* Types: the counters never drop below zero, since whoever leaves is counted.
LEMMA TypeNext == ASSUME IInv, [Next]_vars PROVE TypeOK'
<1>0. TypeOK
  BY DEF IInv
<1>1. waiting_shared' \in [Resources -> Nat] /\ waiting_exclusive' \in [Resources -> Nat]
  <2>1. CASE WaitersUnchanged
    BY <1>0, <2>1 DEF WaitersUnchanged, TypeOK
  <2>2. ASSUME NEW t \in Acquirers, NEW q \in Requests, AcquireBlocks(t, q)
        PROVE  waiting_shared' \in [Resources -> Nat] /\ waiting_exclusive' \in [Resources -> Nat]
    <3>1. q.resource \in Resources
      BY DEF Requests
    <3> QED BY <1>0, <2>2, <3>1 DEF AcquireBlocks, SetWaiting, Waiting, TypeOK
  <2>3. ASSUME NEW t \in Acquirers, Leaves(t)
        PROVE  waiting_shared' \in [Resources -> Nat] /\ waiting_exclusive' \in [Resources -> Nat]
    <3>1. pc[t] = "blocked"
      BY <2>3 DEF Leaves
    <3>2. Waiting(want[t].resource, want[t].mode) - 1 \in Nat
      BY Zenon, <3>1, BlockedCounted
    <3> DEFINE n == Waiting(want[t].resource, want[t].mode) - 1
    <3>3. SetWaiting(want[t].resource, want[t].mode, n)
      BY <2>3 DEF Leaves
    <3> HIDE DEF n
    <3> QED BY Zenon, <1>0, <3>2, <3>3 DEF SetWaiting, TypeOK, n
  <2> QED BY <1>0, <2>1, <2>2, <2>3, WaiterSteps
<1>2. /\ shared_leases' \in [Resources -> SUBSET (Nat \ {0})]
      /\ exclusive_lease' \in [Resources -> Nat]
      /\ next_lease_id' \in Nat \ {0}
      /\ handles' \subseteq Handles /\ released' \subseteq handles'
  <2>1. CASE LeasesUnchanged
    BY <1>0, <2>1 DEF LeasesUnchanged, TypeOK
  <2>2. ASSUME NEW r \in Resources, NEW mode \in Modes, CreateLockLocked(r, mode)
        PROVE  /\ shared_leases' \in [Resources -> SUBSET (Nat \ {0})]
               /\ exclusive_lease' \in [Resources -> Nat]
               /\ next_lease_id' \in Nat \ {0}
               /\ handles' \subseteq Handles /\ released' \subseteq handles'
    <3>1. next_lease_id \in Nat \ {0}
      BY <1>0 DEF TypeOK
    <3>2. [resource |-> r, mode |-> mode, lease |-> next_lease_id] \in Handles
      BY <3>1 DEF Handles
    <3>3. handles' \subseteq Handles /\ released' \subseteq handles'
      BY <1>0, <2>2, <3>2 DEF CreateLockLocked, NewLeaseId, TypeOK
    <3> QED BY <1>0, <2>2, <3>1, <3>3 DEF CreateLockLocked, NewLeaseId, TypeOK
  <2>3. ASSUME NEW t \in Acquirers, NEW h \in handles, Release(t, h)
        PROVE  /\ shared_leases' \in [Resources -> SUBSET (Nat \ {0})]
               /\ exclusive_lease' \in [Resources -> Nat]
               /\ next_lease_id' \in Nat \ {0}
               /\ handles' \subseteq Handles /\ released' \subseteq handles'
    <3>1. h.resource \in Resources
      BY <1>0 DEF TypeOK, Handles
    <3> QED BY <1>0, <2>3, <3>1 DEF Release, TypeOK
  <2> QED BY <1>0, <2>1, <2>2, <2>3, LeaseSteps
<1>3. /\ resources' \subseteq Resources /\ asleep' \subseteq Acquirers
      /\ pc' \in [Acquirers -> {"idle", "blocked", "notify"}]
      /\ want' \in [Acquirers -> Requests]
  <2> DEFINE Goal == /\ resources' \subseteq Resources /\ asleep' \subseteq Acquirers
                     /\ pc' \in [Acquirers -> {"idle", "blocked", "notify"}]
                     /\ want' \in [Acquirers -> Requests]
  <2>0. CASE UNCHANGED vars
    BY <1>0, <2>0 DEF TypeOK, vars, leaseVars, waitVars
  <2>1. ASSUME NEW t \in Acquirers, NEW r \in Resources, NEW mode \in Modes,
               AcquireAtOnce(t, r, mode)
        PROVE  Goal
    BY <1>0, <2>1 DEF AcquireAtOnce, CreateLockLocked, waitVars, TypeOK
  <2>2. ASSUME NEW t \in Acquirers, NEW q \in Requests, AcquireBlocks(t, q) PROVE Goal
    <3>1. q.resource \in Resources
      BY DEF Requests
    <3> QED BY <1>0, <2>2, <3>1 DEF AcquireBlocks, TypeOK
  <2>3. ASSUME NEW t \in Acquirers, WaitsAgain(t) PROVE Goal
    BY <1>0, <2>3 DEF WaitsAgain, leaseVars, TypeOK
  <2>4. ASSUME NEW t \in Acquirers, AcquireAfterWait(t) PROVE Goal
    <3>1. want[t].resource \in Resources
      BY <1>0 DEF TypeOK, Requests
    <3> QED BY <1>0, <2>4, <3>1 DEF AcquireAfterWait, CreateLockLocked, TypeOK
  <2>5. ASSUME NEW t \in Acquirers, AcquireTimesOut(t) PROVE Goal
    BY <1>0, <2>5 DEF AcquireTimesOut, AsleepAfterTimeout, TypeOK
  <2>6. ASSUME NEW t \in Acquirers, NEW h \in handles, Release(t, h) PROVE Goal
    BY <1>0, <2>6 DEF Release, waitVars, TypeOK
  <2>7. ASSUME NEW t \in Acquirers, Notify(t) PROVE Goal
    BY <1>0, <2>7 DEF Notify, leaseVars, TypeOK
  <2>8. ASSUME NEW t \in Acquirers, SpuriousWakeup(t) PROVE Goal
    BY <1>0, <2>8 DEF SpuriousWakeup, leaseVars, TypeOK
  <2> HIDE DEF Goal
  <2>9. Goal
    BY <2>0, <2>1, <2>2, <2>3, <2>4, <2>5, <2>6, <2>7, <2>8 DEF Next, Goal
  <2> QED BY <2>9 DEF Goal
<1> QED BY <1>1, <1>2, <1>3 DEF TypeOK

-----------------------------------------------------------------------------
\* Numbers in use stay below next_lease_id_, exclusive leases stay alone and
\* released handles stay dead.
LEMMA LeasesNext ==
  ASSUME IInv, [Next]_vars
  PROVE  LeasesBelow' /\ ExclusiveMeansAlone' /\ StaleHandleIsDead'
<1> DEFINE Goal == LeasesBelow' /\ ExclusiveMeansAlone' /\ StaleHandleIsDead'
<1>0. /\ TypeOK /\ LeasesBelow /\ ExclusiveMeansAlone /\ StaleHandleIsDead
      /\ shared_leases \in [Resources -> SUBSET (Nat \ {0})]
      /\ exclusive_lease \in [Resources -> Nat]
      /\ next_lease_id \in Nat \ {0}
      /\ handles \subseteq Handles /\ released \subseteq handles
  BY DEF IInv, TypeOK
<1>h. \A h \in handles : /\ h.resource \in Resources /\ h.mode \in Modes
                         /\ h.lease \in Nat /\ h.lease # 0
  BY <1>0 DEF Handles
<1>1. CASE LeasesUnchanged
  BY <1>0, <1>1 DEF LeasesUnchanged, LeasesBelow, ExclusiveMeansAlone, StaleHandleIsDead
<1>2. ASSUME NEW r \in Resources, NEW mode \in Modes,
             CanAcquire(r, mode), CreateLockLocked(r, mode)
      PROVE  Goal
  <2> DEFINE n == next_lease_id
             new == [resource |-> r, mode |-> mode, lease |-> n]
  <2>1. /\ next_lease_id' = n + 1 /\ handles' = handles \cup {new} /\ released' = released
        /\ shared_leases' = IF mode = "Shared"
                              THEN [shared_leases EXCEPT ![r] = @ \cup {n}] ELSE shared_leases
        /\ exclusive_lease' = IF mode = "Exclusive"
                                THEN [exclusive_lease EXCEPT ![r] = n] ELSE exclusive_lease
    BY <1>2 DEF CreateLockLocked, NewLeaseId
  <2>2. LeasesBelow'
    <3>1. \A h \in handles' : h.lease < next_lease_id'
      BY <1>0, <1>h, <2>1 DEF LeasesBelow
    <3>2. \A s \in Resources : exclusive_lease'[s] < next_lease_id'
      BY <1>0, <2>1 DEF LeasesBelow
    <3>3. \A s \in Resources : \A k \in shared_leases'[s] : k < next_lease_id'
      BY <1>0, <2>1 DEF LeasesBelow
    <3> QED BY <3>1, <3>2, <3>3 DEF LeasesBelow
  <2>3. ExclusiveMeansAlone'
    <3>1. mode = "Shared" => exclusive_lease[r] = 0
      BY <1>2 DEF CanAcquire, CanAcquireShared
    <3>2. mode = "Exclusive" => shared_leases[r] = {}
      BY <1>2 DEF CanAcquire, CanAcquireExclusive
    <3> QED BY <1>0, <2>1, <3>1, <3>2 DEF ExclusiveMeansAlone, Modes
  <2>4. StaleHandleIsDead'
    <3> SUFFICES ASSUME NEW h \in released
                 PROVE  IF h.mode = "Exclusive" THEN exclusive_lease'[h.resource] # h.lease
                        ELSE h.lease \notin shared_leases'[h.resource]
      BY <2>1 DEF StaleHandleIsDead
    <3>1. h.lease < n /\ h.resource \in Resources /\ h.lease \in Nat
      BY <1>0, <1>h DEF LeasesBelow
    <3> QED BY <1>0, <2>1, <3>1 DEF StaleHandleIsDead
  <2> QED BY <2>2, <2>3, <2>4
<1>3. ASSUME NEW t \in Acquirers, NEW g \in handles, Release(t, g)
      PROVE  Goal
  <2> DEFINE r == g.resource
  <2>1. /\ next_lease_id' = next_lease_id /\ handles' = handles
        /\ released' = released \cup {g}
        /\ shared_leases' = IF g.mode = "Shared"
             THEN [shared_leases EXCEPT ![r] = shared_leases[r] \ {g.lease}] ELSE shared_leases
        /\ exclusive_lease' = [exclusive_lease EXCEPT ![r] =
             IF g.mode = "Exclusive" THEN 0 ELSE exclusive_lease[r]]
    BY <1>3 DEF Release
  <2>2. r \in Resources /\ g.mode \in Modes /\ g.lease # 0
    BY <1>h
  <2>3. LeasesBelow'
    BY <1>0, <2>1, <2>2 DEF LeasesBelow
  <2>4. ExclusiveMeansAlone'
    BY <1>0, <2>1, <2>2 DEF ExclusiveMeansAlone
  <2>5. StaleHandleIsDead'
    <3> SUFFICES ASSUME NEW h \in released \cup {g}
                 PROVE  IF h.mode = "Exclusive" THEN exclusive_lease'[h.resource] # h.lease
                        ELSE h.lease \notin shared_leases'[h.resource]
      BY <2>1 DEF StaleHandleIsDead
    <3>1. /\ h.resource \in Resources /\ h.lease # 0 /\ h.mode \in Modes
      BY <1>0, <1>h
    <3>2. CASE h = g
      BY <1>0, <2>1, <2>2, <3>1, <3>2 DEF Modes
    <3>3. CASE h \in released
      BY SMTT(30), <1>0, <2>1, <2>2, <3>1, <3>3 DEF StaleHandleIsDead
    <3> QED BY <3>2, <3>3
  <2> QED BY <2>3, <2>4, <2>5
<1> QED BY <1>0, <1>1, <1>2, <1>3, LeaseSteps

-----------------------------------------------------------------------------
\* An entry leaves resources_ only when it has no lease and its counters are 0.
LEMMA ErasedOnlyUnused ==
  ASSUME TypeOK, [Next]_vars, NEW r \in resources, r \notin resources'
  PROVE  Unused(shared_leases'[r], exclusive_lease'[r], waiting_shared'[r],
                waiting_exclusive'[r])
<1> USE DEF TypeOK
<1> DEFINE Goal == Unused(shared_leases'[r], exclusive_lease'[r], waiting_shared'[r],
                          waiting_exclusive'[r])
<1>1. Next
  BY DEF vars, leaseVars
<1>2. ASSUME NEW t \in Acquirers, NEW s \in Resources, NEW mode \in Modes,
             AcquireAtOnce(t, s, mode)
      PROVE  Goal
  BY <1>2 DEF AcquireAtOnce, CreateLockLocked
<1>3. ASSUME NEW t \in Acquirers, NEW q \in Requests, AcquireBlocks(t, q) PROVE Goal
  BY <1>3 DEF AcquireBlocks
<1>4. ASSUME NEW t \in Acquirers, WaitsAgain(t) \/ Notify(t) \/ SpuriousWakeup(t) PROVE Goal
  BY <1>4 DEF WaitsAgain, Notify, SpuriousWakeup, leaseVars
<1>5. ASSUME NEW t \in Acquirers, AcquireAfterWait(t) PROVE Goal
  BY <1>5 DEF AcquireAfterWait, CreateLockLocked
<1>6. ASSUME NEW t \in Acquirers, AcquireTimesOut(t) PROVE Goal
  <2> DEFINE q == want[t]
             left == Waiting(q.resource, q.mode) - 1
  <2>1. q.resource \in Resources /\ q.mode \in Modes
    BY DEF Requests
  <2>2. /\ r = q.resource
        /\ Unused(shared_leases[r], exclusive_lease[r],
                  IF q.mode = "Shared" THEN left ELSE waiting_shared[r],
                  IF q.mode = "Exclusive" THEN left ELSE waiting_exclusive[r])
    BY <1>6 DEF AcquireTimesOut
  <2>3. SetWaiting(r, q.mode, left) /\ UNCHANGED <<shared_leases, exclusive_lease>>
    BY <1>6, <2>2 DEF AcquireTimesOut
  <2> HIDE DEF left
  <2> QED BY <2>1, <2>2, <2>3 DEF SetWaiting, Unused, Modes
<1>7. ASSUME NEW t \in Acquirers, NEW h \in handles, Release(t, h) PROVE Goal
  <2>1. h.resource \in Resources /\ h.mode \in Modes
    BY DEF Handles
  <2>2. r = h.resource /\ UNCHANGED <<waiting_shared, waiting_exclusive>>
    BY <1>7 DEF Release, waitVars
  <2> QED BY <1>7, <2>1, <2>2 DEF Release, Unused, Modes
<1> HIDE DEF Goal
<1> QED BY <1>1, <1>2, <1>3, <1>4, <1>5, <1>6, <1>7 DEF Next, Goal

\* A thread that is blocked after the step was blocked on the same entry
\* before, or has just created it; the same holds for leases.
LEMMA EntriesOfUsers ==
  ASSUME IInv, [Next]_vars
  PROVE  /\ \A t \in Acquirers : pc'[t] = "blocked" =>
              want'[t].resource \in resources \cup resources'
         /\ \A r \in Resources : shared_leases'[r] # {} \/ exclusive_lease'[r] # 0 =>
              r \in resources \cup resources'
<1>0. /\ TypeOK /\ NoDanglingReference
      /\ pc \in [Acquirers -> {"idle", "blocked", "notify"}] /\ want \in [Acquirers -> Requests]
      /\ shared_leases \in [Resources -> SUBSET (Nat \ {0})]
      /\ exclusive_lease \in [Resources -> Nat] /\ handles \subseteq Handles
  BY DEF IInv, TypeOK
<1>1. ASSUME NEW t \in Acquirers, pc'[t] = "blocked"
      PROVE  want'[t].resource \in resources \cup resources'
  <2>1. CASE WaitersUnchanged
    BY <1>0, <1>1, <2>1 DEF WaitersUnchanged, NoDanglingReference
  <2>2. ASSUME NEW u \in Acquirers, NEW q \in Requests, AcquireBlocks(u, q)
        PROVE  want'[t].resource \in resources \cup resources'
    BY <1>0, <1>1, <2>2 DEF AcquireBlocks, NoDanglingReference
  <2>3. ASSUME NEW u \in Acquirers, Leaves(u)
        PROVE  want'[t].resource \in resources \cup resources'
    BY <1>0, <1>1, <2>3 DEF Leaves, NoDanglingReference
  <2> QED BY <1>0, <2>1, <2>2, <2>3, WaiterSteps
<1>2. ASSUME NEW r \in Resources, shared_leases'[r] # {} \/ exclusive_lease'[r] # 0
      PROVE  r \in resources \cup resources'
  <2>1. CASE LeasesUnchanged
    BY <1>0, <1>2, <2>1 DEF LeasesUnchanged, NoDanglingReference
  <2>2. ASSUME NEW s \in Resources, NEW mode \in Modes, CreateLockLocked(s, mode)
        PROVE  r \in resources \cup resources'
    BY <1>0, <1>2, <2>2 DEF CreateLockLocked, NoDanglingReference
  <2>3. ASSUME NEW t \in Acquirers, NEW h \in handles, Release(t, h)
        PROVE  r \in resources \cup resources'
    <3>1. h.resource \in Resources /\ h.resource \in resources
      BY <1>0, <2>3 DEF Handles, Release
    <3> QED BY <1>0, <1>2, <2>3, <3>1 DEF Release, NoDanglingReference
  <2> QED BY <1>0, <2>1, <2>2, <2>3, LeaseSteps
<1> QED BY <1>1, <1>2

\* Put together: what is still in use is not erased.
LEMMA NoDanglingNext == ASSUME IInv, [Next]_vars PROVE NoDanglingReference'
<1>0. TypeOK /\ CountersExact' /\ TypeOK'
  BY CountersNext, TypeNext DEF IInv
<1>1. ASSUME NEW t \in Acquirers, pc'[t] = "blocked"
      PROVE  want'[t].resource \in resources'
  <2>0. PICK r, mode : r = want'[t].resource /\ mode = want'[t].mode
    OBVIOUS
  <2>1. SUFFICES ASSUME r \notin resources' PROVE FALSE
    BY <2>0
  <2>2. r \in resources /\ r \in Resources /\ mode \in Modes
    BY <1>0, <1>1, <2>0, <2>1, EntriesOfUsers DEF TypeOK, Requests
  <2>3. Unused(shared_leases'[r], exclusive_lease'[r], waiting_shared'[r],
               waiting_exclusive'[r])
    BY <1>0, <2>1, <2>2, ErasedOnlyUnused
  <2>4. Waiting(r, mode)' = 0
    BY <2>3 DEF Unused, Waiting
  <2>5. Cardinality(Blocked(r, mode)') = 0
    BY <1>0, <2>2, <2>4 DEF CountersExact
  <2>6. Blocked(r, mode)' \subseteq Acquirers /\ t \in Blocked(r, mode)'
    BY <1>1, <2>0 DEF Blocked
  <2>7. IsFiniteSet(Blocked(r, mode)')
    BY <2>6, ResourceAssumption, FS_Subset
  <2> QED BY <2>5, <2>6, <2>7, FS_EmptySet
<1>2. ASSUME NEW r \in Resources, shared_leases'[r] # {} \/ exclusive_lease'[r] # 0
      PROVE  r \in resources'
  BY <1>0, <1>2, EntriesOfUsers, ErasedOnlyUnused DEF Unused
<1> QED BY <1>1, <1>2 DEF NoDanglingReference

-----------------------------------------------------------------------------
\* IInv holds in every reachable state.
THEOREM Invariance == ASSUME Resources # {} PROVE Spec => []IInv
<1>1. Init => IInv
  BY InitIInv
<1>2. IInv /\ [Next]_vars => IInv'
  BY CountersNext, TypeNext, LeasesNext, NoDanglingNext DEF IInv
<1> QED BY <1>1, <1>2, PTL DEF Spec

\* The maps, the counters of waiters, the leases and the handles of the
\* resource manager keep their types through acquires, timeouts and releases.
THEOREM LeaseTypes == ASSUME Resources # {} PROVE Spec => []TypeOK
<1>1. IInv => TypeOK
  BY DEF IInv
<1> QED BY <1>1, Invariance, PTL

\* An exclusive lease is the only lease of its resource, always.
THEOREM ExclusiveLeasesAreAlone == ASSUME Resources # {} PROVE Spec => []ExclusiveMeansAlone
<1>1. IInv => ExclusiveMeansAlone
  BY DEF IInv
<1> QED BY <1>1, Invariance, PTL

\* A stale copy of a handle never releases a later lease.
THEOREM StaleHandlesAreDead == ASSUME Resources # {} PROVE Spec => []StaleHandleIsDead
<1>1. IInv => StaleHandleIsDead
  BY DEF IInv
<1> QED BY <1>1, Invariance, PTL

\* The reference a blocked Acquire holds into resources_ is never dangling.
THEOREM NoReferenceDangles == ASSUME Resources # {} PROVE Spec => []NoDanglingReference
<1>1. IInv => NoDanglingReference
  BY DEF IInv
<1> QED BY <1>1, Invariance, PTL

\* The lease book is sound for any threads, resources and leases: the four facts above
\* hold together after every acquire, wait, timeout and release.
THEOREM LeaseBookIsSound == ASSUME Resources # {} PROVE Spec => []LeasesAreSound
<1>1. IInv => LeasesAreSound
  BY DEF IInv, LeasesAreSound
<1> QED BY <1>1, Invariance, PTL

-----------------------------------------------------------------------------
\* A new lock is a Grant, a release is a Release, every other step stutters.
LEMMA StepsAreLeaseSteps ==
  ASSUME IInv, [Next]_vars
  PROVE  [Abstract!Next]_<<Holders, LeaseNumbers>>
<1>0. /\ TypeOK /\ LeasesBelow
      /\ shared_leases \in [Resources -> SUBSET (Nat \ {0})]
      /\ exclusive_lease \in [Resources -> Nat]
      /\ next_lease_id \in Nat \ {0} /\ handles \subseteq Handles
  BY DEF IInv, TypeOK
<1>1. CASE LeasesUnchanged
  BY <1>1 DEF LeasesUnchanged, Holders, LeaseNumbers
<1>2. ASSUME NEW r \in Resources, NEW mode \in Modes,
             CanAcquire(r, mode), CreateLockLocked(r, mode)
      PROVE  Abstract!Next
  <2> DEFINE n == next_lease_id
  <2>1. /\ handles' = handles \cup {[resource |-> r, mode |-> mode, lease |-> n]}
        /\ shared_leases' = IF mode = "Shared"
                              THEN [shared_leases EXCEPT ![r] = @ \cup {n}] ELSE shared_leases
        /\ exclusive_lease' = IF mode = "Exclusive"
                                THEN [exclusive_lease EXCEPT ![r] = n] ELSE exclusive_lease
    BY <1>2 DEF CreateLockLocked, NewLeaseId
  <2>2. n \notin LeaseNumbers
    <3>1. \A h \in handles : h.lease \in Nat /\ h.lease < n
      BY <1>0 DEF LeasesBelow, Handles
    <3> QED BY <1>0, <3>1 DEF LeaseNumbers
  <2>3. LeaseNumbers' = LeaseNumbers \cup {n}
    <3>1. PICK new : new.lease = n /\ handles' = handles \cup {new}
      BY Zenon, <2>1
    <3> QED BY <3>1 DEF LeaseNumbers
  <2>4. Abstract!Compatible(r, mode)
    <3>1. CASE mode = "Shared"
      <4>1. exclusive_lease[r] = 0
        BY <1>2, <3>1 DEF CanAcquire, CanAcquireShared
      <4>2. Holders[r] = { [lease |-> k, mode |-> "Shared"] : k \in shared_leases[r] }
        BY <4>1 DEF Holders
      <4> QED BY <3>1, <4>2 DEF Abstract!Compatible
    <3>2. CASE mode = "Exclusive"
      <4>1. exclusive_lease[r] = 0 /\ shared_leases[r] = {}
        BY <1>2, <3>2 DEF CanAcquire, CanAcquireExclusive
      <4>2. Holders[r] = {}
        BY <4>1 DEF Holders
      <4> QED BY <3>2, <4>2 DEF Abstract!Compatible
    <3> QED BY <3>1, <3>2 DEF Modes
  <2>5. Holders' = [Holders EXCEPT ![r] = @ \cup {[lease |-> n, mode |-> mode]}]
    <3>0. /\ Holders = [s \in Resources |-> Holders[s]]
          /\ Holders' = [s \in Resources |-> Holders'[s]]
      BY DEF Holders
    <3>1. \A s \in Resources \ {r} : Holders'[s] = Holders[s]
      BY <1>0, <2>1 DEF Holders
    <3>2. CASE mode = "Shared"
      <4>1. shared_leases'[r] = shared_leases[r] \cup {n} /\ exclusive_lease' = exclusive_lease
        BY <1>0, <2>1, <3>2
      <4>2. Holders'[r] = Holders[r] \cup {[lease |-> n, mode |-> "Shared"]}
        BY <4>1 DEF Holders
      <4> QED BY <3>0, <3>1, <3>2, <4>2
    <3>3. CASE mode = "Exclusive"
      <4>1. /\ shared_leases' = shared_leases /\ exclusive_lease'[r] = n /\ n # 0
            /\ exclusive_lease[r] = 0
        BY <1>0, <1>2, <2>1, <3>3 DEF CanAcquire, CanAcquireExclusive
      <4>2. Holders'[r] = Holders[r] \cup {[lease |-> n, mode |-> "Exclusive"]}
        BY <4>1 DEF Holders
      <4> QED BY <3>0, <3>1, <3>3, <4>2
    <3> QED BY <3>2, <3>3 DEF Modes
  <2>6. Abstract!Grant(r, mode, n) /\ n \in LeaseNumbers' \ LeaseNumbers
    BY <2>2, <2>3, <2>4, <2>5 DEF Abstract!Grant
  <2> QED BY <2>6 DEF Abstract!Next, Abstract!Modes, Modes
<1>3. ASSUME NEW t \in Acquirers, NEW h \in handles, Release(t, h)
      PROVE  Abstract!Next
  <2> DEFINE r == h.resource
             l == [lease |-> h.lease, mode |-> h.mode]
  <2>1. r \in Resources /\ h.mode \in Modes /\ h.lease \in Nat \ {0}
    BY <1>0 DEF Handles
  <2>2. /\ handles' = handles
        /\ IF h.mode = "Exclusive" THEN exclusive_lease[r] = h.lease
           ELSE h.lease \in shared_leases[r]
        /\ shared_leases' = IF h.mode = "Shared"
             THEN [shared_leases EXCEPT ![r] = shared_leases[r] \ {h.lease}] ELSE shared_leases
        /\ exclusive_lease' = [exclusive_lease EXCEPT ![r] =
             IF h.mode = "Exclusive" THEN 0 ELSE exclusive_lease[r]]
    BY <1>3 DEF Release
  <2>3. LeaseNumbers' = LeaseNumbers
    BY <2>2 DEF LeaseNumbers
  <2>4. l \in Holders[r]
    BY <2>1, <2>2 DEF Holders, Modes
  <2>5. Holders' = [Holders EXCEPT ![r] = @ \ {l}]
    <3>0. /\ Holders = [s \in Resources |-> Holders[s]]
          /\ Holders' = [s \in Resources |-> Holders'[s]]
      BY DEF Holders
    <3>1. \A s \in Resources \ {r} : Holders'[s] = Holders[s]
      BY <1>0, <2>1, <2>2 DEF Holders
    <3>2. CASE h.mode = "Shared"
      <4>1. /\ shared_leases'[r] = shared_leases[r] \ {h.lease}
            /\ exclusive_lease'[r] = exclusive_lease[r]
        BY <1>0, <2>1, <2>2, <3>2
      <4>2. Holders'[r] = Holders[r] \ {l}
        BY <2>1, <3>2, <4>1 DEF Holders
      <4> QED BY <2>1, <3>0, <3>1, <4>2
    <3>3. CASE h.mode = "Exclusive"
      <4>1. shared_leases' = shared_leases /\ exclusive_lease'[r] = 0
        BY <1>0, <2>1, <2>2, <3>3
      <4>2. Holders'[r] = Holders[r] \ {l}
        BY <2>1, <2>2, <3>3, <4>1 DEF Holders
      <4> QED BY <2>1, <3>0, <3>1, <4>2
    <3> QED BY <2>1, <3>2, <3>3 DEF Modes
  <2>6. Abstract!Release(r, l)
    BY <2>3, <2>4, <2>5 DEF Abstract!Release
  <2> QED BY <2>1, <2>4, <2>6 DEF Abstract!Next
<1> QED BY <1>0, <1>1, <1>2, <1>3, LeaseSteps

\* Whatever the threads do, clients see the lease table of LeaseTable.
THEOREM Refinement == ASSUME Resources # {} PROVE Spec => ImplementsLeaseTable
<1>1. Init => Abstract!Init
  BY DEF Init, Abstract!Init, Holders, LeaseNumbers
<1>2. IInv /\ [Next]_vars => [Abstract!Next]_<<Holders, LeaseNumbers>>
  BY StepsAreLeaseSteps
<1> QED BY <1>1, <1>2, Invariance, PTL DEF Spec, ImplementsLeaseTable, Abstract!Spec

\* Waiting writers keep new readers out, in every step.
THEOREM WritersArePreferred == ASSUME Resources # {} PROVE Spec => WritersPreferred
<1> DEFINE Kept == \A r \in Resources :
       (waiting_exclusive[r] > 0 /\ waiting_exclusive'[r] > 0) =>
         shared_leases'[r] \subseteq shared_leases[r]
<1>1. ASSUME IInv, [Next]_vars PROVE Kept
  <2>0. /\ TypeOK /\ shared_leases \in [Resources -> SUBSET (Nat \ {0})]
        /\ handles \subseteq Handles /\ waiting_exclusive \in [Resources -> Nat]
    BY <1>1 DEF IInv, TypeOK
  <2>1. CASE LeasesUnchanged
    BY <2>1 DEF LeasesUnchanged
  <2>2. ASSUME NEW r \in Resources, NEW mode \in Modes,
               CanAcquire(r, mode), CreateLockLocked(r, mode)
        PROVE  Kept
    <3>1. mode = "Shared" => waiting_exclusive[r] = 0
      BY <2>2 DEF CanAcquire, CanAcquireShared
    <3>2. \A s \in Resources : s # r \/ mode # "Shared" => shared_leases'[s] = shared_leases[s]
      BY <2>0, <2>2 DEF CreateLockLocked
    <3> QED BY <2>0, <3>1, <3>2
  <2>3. ASSUME NEW t \in Acquirers, NEW h \in handles, Release(t, h)
        PROVE  Kept
    BY <2>0, <2>3 DEF Release, Handles
  <2> QED BY <1>1, <2>0, <2>1, <2>2, <2>3, LeaseSteps
<1>2. IInv /\ [Next]_vars => [Kept]_vars
  BY <1>1
<1> QED BY <1>2, Invariance, PTL DEF Spec, WritersPreferred

-----------------------------------------------------------------------------

\* find, insert_or_assign and erase on the values of a namespace.
LEMMA StoredHold ==
  /\ Empty \in Stored /\ DOMAIN Empty = {}
  /\ \A f \in Stored : DOMAIN f \subseteq Keys /\ \A z \in DOMAIN f : f[z] \in Values
  /\ \A f \in Stored : f = Empty <=> DOMAIN f = {}
<1>1. Empty \in [{} -> Values] /\ DOMAIN Empty = {}
  BY DEF Empty
<1>2. ASSUME NEW f \in Stored PROVE f = Empty <=> DOMAIN f = {}
  <2>1. f = [z \in DOMAIN f |-> f[z]]
    BY DEF Stored, Maps
  <2>q. QED BY <2>1 DEF Empty
<1>3. \A f \in Stored : DOMAIN f \subseteq Keys /\ \A z \in DOMAIN f : f[z] \in Values
  BY DEF Stored, Maps
<1>4. Empty \in Stored
  BY <1>1 DEF Stored, Maps
<1>q. QED BY <1>1, <1>2, <1>3, <1>4

\* StoreValue in one namespace: a key is added or overwritten, the others keep their values.
LEMMA StoredWith ==
  ASSUME NEW f \in Stored, NEW k \in Keys, NEW v \in Values
  PROVE  /\ With(f, k, v) \in Stored /\ DOMAIN With(f, k, v) = DOMAIN f \cup {k}
         /\ With(f, k, v)[k] = v
         /\ \A z \in DOMAIN f \ {k} : With(f, k, v)[z] = f[z]
<1>1. DOMAIN f \in SUBSET Keys /\ \A z \in DOMAIN f : f[z] \in Values
  BY DEF Stored, Maps
<1>2. With(f, k, v) \in [DOMAIN f \cup {k} -> Values]
  BY <1>1 DEF With
<1>3. DOMAIN f \cup {k} \in SUBSET Keys
  BY <1>1
<1>4. With(f, k, v) \in Stored
  BY <1>2, <1>3 DEF Stored, Maps
<1>q. QED BY <1>4 DEF With

\* Remove in one namespace: one key goes, the others keep their values.
LEMMA StoredWithout ==
  ASSUME NEW f \in Stored, NEW k \in Keys
  PROVE  /\ Without(f, k) \in Stored /\ DOMAIN Without(f, k) = DOMAIN f \ {k}
         /\ \A z \in DOMAIN f \ {k} : Without(f, k)[z] = f[z]
<1>1. DOMAIN f \in SUBSET Keys /\ \A z \in DOMAIN f : f[z] \in Values
  BY DEF Stored, Maps
<1>2. Without(f, k) \in [DOMAIN f \ {k} -> Values]
  BY <1>1 DEF Without, Restrict
<1>3. DOMAIN f \ {k} \in SUBSET Keys
  BY <1>1
<1>4. Without(f, k) \in Stored
  BY <1>2, <1>3 DEF Stored, Maps
<1>q. QED BY <1>4 DEF Without, Restrict

\* The same on the namespaces.
LEMMA BoardsHold ==
  /\ Empty \in Boards /\ DOMAIN Empty = {}
  /\ \A f \in Boards : DOMAIN f \subseteq Namespaces /\ \A z \in DOMAIN f : f[z] \in Stored
  /\ \A f \in Boards : f = Empty <=> DOMAIN f = {}
<1>1. Empty \in [{} -> Stored] /\ DOMAIN Empty = {}
  BY DEF Empty
<1>2. ASSUME NEW f \in Boards PROVE f = Empty <=> DOMAIN f = {}
  <2>1. f = [z \in DOMAIN f |-> f[z]]
    BY DEF Boards, Maps
  <2>q. QED BY <2>1 DEF Empty
<1>3. \A f \in Boards : DOMAIN f \subseteq Namespaces /\ \A z \in DOMAIN f : f[z] \in Stored
  BY DEF Boards, Maps
<1>4. Empty \in Boards
  BY <1>1 DEF Boards, Maps
<1>q. QED BY <1>1, <1>2, <1>3, <1>4

\* A namespace is added or replaced, the others keep their keys.
LEMMA BoardsWith ==
  ASSUME NEW f \in Boards, NEW n \in Namespaces, NEW g \in Stored
  PROVE  /\ With(f, n, g) \in Boards /\ DOMAIN With(f, n, g) = DOMAIN f \cup {n}
         /\ With(f, n, g)[n] = g
         /\ \A z \in DOMAIN f \ {n} : With(f, n, g)[z] = f[z]
<1>1. DOMAIN f \in SUBSET Namespaces /\ \A z \in DOMAIN f : f[z] \in Stored
  BY DEF Boards, Maps
<1>2. With(f, n, g) \in [DOMAIN f \cup {n} -> Stored]
  BY <1>1 DEF With
<1>3. DOMAIN f \cup {n} \in SUBSET Namespaces
  BY <1>1
<1>4. With(f, n, g) \in Boards
  BY <1>2, <1>3 DEF Boards, Maps
<1>q. QED BY <1>4 DEF With

\* A namespace is erased, the others keep their keys.
LEMMA BoardsWithout ==
  ASSUME NEW f \in Boards, NEW n \in Namespaces
  PROVE  /\ Without(f, n) \in Boards /\ DOMAIN Without(f, n) = DOMAIN f \ {n}
         /\ \A z \in DOMAIN f \ {n} : Without(f, n)[z] = f[z]
<1>1. DOMAIN f \in SUBSET Namespaces /\ \A z \in DOMAIN f : f[z] \in Stored
  BY DEF Boards, Maps
<1>2. Without(f, n) \in [DOMAIN f \ {n} -> Stored]
  BY <1>1 DEF Without, Restrict
<1>3. DOMAIN f \ {n} \in SUBSET Namespaces
  BY <1>1
<1>4. Without(f, n) \in Boards
  BY <1>2, <1>3 DEF Boards, Maps
<1>q. QED BY <1>4 DEF Without, Restrict

\* A map with a key bound to the value it has, or bound and erased again, is the same map.
LEMMA BoardsSame ==
  ASSUME NEW f \in Boards, NEW n \in Namespaces
  PROVE  /\ n \in DOMAIN f => With(f, n, f[n]) = f
         /\ n \notin DOMAIN f => \A g : Without(With(f, n, g), n) = f
<1>1. f = [z \in DOMAIN f |-> f[z]]
  BY DEF Boards, Maps
<1>2. n \in DOMAIN f => With(f, n, f[n]) = f
  BY <1>1 DEF With
<1>3. ASSUME n \notin DOMAIN f, NEW g PROVE Without(With(f, n, g), n) = f
  BY <1>1, <1>3 DEF With, Without, Restrict
<1>q. QED BY <1>2, <1>3

-----------------------------------------------------------------------------
\* The values of a namespace, none when values_ does not have it.
LEMMA KeyedType ==
  ASSUME BlackboardInv, NEW n \in Namespaces
  PROVE  /\ Keyed(n) \in Stored /\ IsFiniteSet(DOMAIN Keyed(n))
         /\ n \in DOMAIN values <=> DOMAIN Keyed(n) # {}
<1>1. values \in Boards
  BY DEF BlackboardInv
<1>2. \A m \in DOMAIN values : values[m] \in Stored
  BY <1>1, BoardsHold
<1>3. CASE n \in DOMAIN values
  <2>1. values[n] \in Stored /\ values[n] # Empty /\ IsFiniteSet(DOMAIN values[n])
    BY <1>2, <1>3 DEF BlackboardInv, NoEmptyNamespace
  <2>2. DOMAIN values[n] # {}
    BY <2>1, StoredHold, Zenon
  <2>q. QED BY <1>3, <2>1, <2>2 DEF Keyed
<1>4. CASE n \notin DOMAIN values
  <2>1. Empty \in Stored /\ DOMAIN Empty = {}
    BY StoredHold
  <2>q. QED BY <1>4, <2>1, FS_EmptySet DEF Keyed
<1>q. QED BY <1>3, <1>4

\* What an operation does to one namespace, or to all.
Changes(n, f) == Keyed(n)' = f /\ \A m \in Namespaces \ {n} : Keyed(m)' = Keyed(m)

\* StoreValue changes one namespace, by one key.
LEMMA StoreEffect ==
  ASSUME BlackboardInv, NEW n \in Namespaces, NEW k \in Keys, NEW v \in Values,
         StoreValue(n, k, v)
  PROVE  Changes(n, With(Keyed(n), k, v)) /\ BlackboardInv'
<1> DEFINE f == With(Keyed(n), k, v)
<1>1. values \in Boards /\ values' = With(values, n, f)
  BY DEF BlackboardInv, StoreValue
<1>2. /\ f \in Stored /\ DOMAIN f = DOMAIN Keyed(n) \cup {k}
  <2>1. Keyed(n) \in Stored
    BY KeyedType
  <2>q. QED BY <2>1, StoredWith
<1>3. IsFiniteSet(DOMAIN f) /\ f # Empty
  <2>1. IsFiniteSet(DOMAIN Keyed(n))
    BY KeyedType
  <2>2. DOMAIN f # {}
    BY <1>2
  <2>3. f # Empty
    BY <1>2, <2>2, StoredHold
  <2>q. QED BY <1>2, <2>1, <2>3, FS_AddElement
<1> HIDE DEF f
<1>4. /\ values' \in Boards /\ DOMAIN values' = DOMAIN values \cup {n}
      /\ values'[n] = f /\ \A m \in DOMAIN values \ {n} : values'[m] = values[m]
  BY <1>1, <1>2, BoardsWith
<1>5. BlackboardInv'
  BY <1>3, <1>4 DEF BlackboardInv, NoEmptyNamespace
<1>6. Changes(n, f)
  BY <1>4 DEF Changes, Keyed
<1>q. QED BY <1>5, <1>6 DEF f

\* A namespace made for a value that could not be stored is gone again.
LEMMA ThrowEffect ==
  ASSUME BlackboardInv, NEW n \in Namespaces, NEW k \in Keys, StoreThrows(n, k)
  PROVE  values' = values
<1>1. values \in Boards
  BY DEF BlackboardInv
<1>2. CASE n \in DOMAIN values
  <2>1. values' = With(values, n, values[n])
    BY <1>2 DEF StoreThrows, Keyed
  <2>q. QED BY <1>1, <1>2, <2>1, BoardsSame
<1>3. CASE n \notin DOMAIN values
  <2>1. With(values, n, Empty)[n] = Empty
    BY DEF With
  <2>2. values' = Without(With(values, n, Empty), n)
    BY <1>3, <2>1 DEF StoreThrows, Keyed
  <2>q. QED BY <1>1, <1>3, <2>2, BoardsSame
<1>q. QED BY <1>2, <1>3

\* Remove takes one key from one namespace, and erases the namespace it empties.
LEMMA RemoveEffect ==
  ASSUME BlackboardInv, NEW n \in Namespaces, NEW k \in Keys, Remove(n, k),
         k \in DOMAIN Keyed(n)
  PROVE  Changes(n, Without(Keyed(n), k)) /\ BlackboardInv'
<1> DEFINE f == Without(Keyed(n), k)
<1>1. /\ values \in Boards /\ n \in DOMAIN values
      /\ Keyed(n) = values[n]
  BY KeyedType DEF BlackboardInv, Keyed
<1>2. values' = IF f = Empty THEN Without(values, n) ELSE With(values, n, f)
  BY <1>1 DEF Remove
<1>3. f \in Stored /\ DOMAIN f = DOMAIN Keyed(n) \ {k}
  <2>1. Keyed(n) \in Stored
    BY KeyedType
  <2>q. QED BY <2>1, StoredWithout, Zenon
<1>4. IsFiniteSet(DOMAIN f)
  <2>1. IsFiniteSet(DOMAIN Keyed(n))
    BY KeyedType
  <2>q. QED BY <1>3, <2>1, FS_RemoveElement
<1> HIDE DEF f
<1>5. CASE f = Empty
  <2>1. /\ values' \in Boards /\ DOMAIN values' = DOMAIN values \ {n}
        /\ \A m \in DOMAIN values \ {n} : values'[m] = values[m]
    <3>1. values' = Without(values, n)
      BY <1>2, <1>5
    <3>q. QED BY <1>1, <3>1, BoardsWithout
  <2>q. QED BY <1>5, <2>1 DEF BlackboardInv, NoEmptyNamespace, Changes, Keyed, f
<1>6. CASE f # Empty
  <2>1. /\ values' \in Boards /\ DOMAIN values' = DOMAIN values \cup {n}
        /\ values'[n] = f /\ \A m \in DOMAIN values \ {n} : values'[m] = values[m]
    <3>1. values' = With(values, n, f)
      BY <1>2, <1>6
    <3>2. PICK g \in Stored : g = f
      BY <1>3
    <3>q. QED BY <1>1, <3>1, <3>2, BoardsWith
  <2>2. BlackboardInv'
    BY <1>4, <1>6, <2>1 DEF BlackboardInv, NoEmptyNamespace
  <2>3. Changes(n, f)
    BY <2>1 DEF Changes, Keyed
  <2>q. QED BY <2>2, <2>3 DEF f
<1>q. QED BY <1>5, <1>6

\* Clear of a namespace empties that one.
LEMMA ClearNamespaceEffect ==
  ASSUME BlackboardInv, NEW n \in Namespaces, ClearNamespace(n)
  PROVE  Changes(n, Empty) /\ BlackboardInv'
<1>1. values \in Boards /\ values' = Without(values, n)
  BY DEF BlackboardInv, ClearNamespace
<1>2. /\ values' \in Boards /\ DOMAIN values' = DOMAIN values \ {n}
      /\ \A m \in DOMAIN values \ {n} : values'[m] = values[m]
  BY <1>1, BoardsWithout
<1>q. QED BY <1>2 DEF BlackboardInv, NoEmptyNamespace, Changes, Keyed

\* Clear empties them all.
LEMMA ClearEffect ==
  ASSUME Clear
  PROVE  (\A m \in Namespaces : Keyed(m)' = Empty) /\ BlackboardInv'
<1>1. values' = Empty
  BY DEF Clear
<1>2. Empty \in Boards /\ DOMAIN Empty = {}
  BY BoardsHold
<1>q. QED BY <1>1, <1>2 DEF BlackboardInv, NoEmptyNamespace, Keyed

\* A new blackboard holds nothing.
LEMMA BlackboardInitInv == ASSUME BlackboardInit PROVE BlackboardInv
<1>1. Empty \in Boards /\ DOMAIN Empty = {}
  BY BoardsHold
<1>q. QED BY <1>1 DEF BlackboardInit, BlackboardInv, NoEmptyNamespace

\* Every operation keeps the invariant: a throwing StoreValue undoes its insertion.
LEMMA BlackboardNextInv ==
  ASSUME BlackboardInv, [BlackboardNext]_blackboardVars
  PROVE  BlackboardInv'
<1>1. ASSUME values' = values PROVE BlackboardInv'
  BY <1>1 DEF BlackboardInv, NoEmptyNamespace
<1>2. ASSUME NEW n \in Namespaces, NEW k \in Keys, Remove(n, k) PROVE BlackboardInv'
  BY <1>1, <1>2, RemoveEffect DEF Remove
<1>q. QED
  BY <1>1, <1>2, StoreEffect, ThrowEffect, ClearNamespaceEffect, ClearEffect
  DEF BlackboardNext, blackboardVars, StoreRefused

\* values_ is a map of finite maps without an empty one, always.
LEMMA BlackboardInvHolds == BlackboardSpec => []BlackboardInv
<1>1. BlackboardInit => BlackboardInv
  BY BlackboardInitInv
<1>2. BlackboardInv /\ [BlackboardNext]_blackboardVars => BlackboardInv'
  BY BlackboardNextInv
<1>q. QED BY <1>1, <1>2, PTL DEF BlackboardSpec

-----------------------------------------------------------------------------
(* The flat store                                                          *)

NoValue == [type |-> "none", value |-> "none"]
Addresses == Namespaces \X Keys

\* What Get finds at an address.
At(n, k) == IF k \in DOMAIN Keyed(n) THEN Keyed(n)[k] ELSE NoValue

\* Get under the type a value was stored as, and under no other, finds that value.
LEMMA GetFinds ==
  ASSUME NEW v \in Values
  PROVE  UNION { (IF v.type = t THEN {v} ELSE {}) : t \in Types } = {v}
BY DEF Types

\* What Get finds at every address is what the map of maps holds there.
LEMMA FlatNow == BlackboardInv => FlatStore = [a \in Addresses |-> At(a[1], a[2])]
<1>0. HAVE BlackboardInv
<1>1. ASSUME NEW a \in Addresses, a[2] \in DOMAIN Keyed(a[1])
      PROVE  (CHOOSE v \in UNION {Get(t, a[1], a[2]) : t \in Types} : TRUE) = Keyed(a[1])[a[2]]
  <2>1. PICK n \in Namespaces, k \in Keys : n = a[1] /\ k = a[2]
    BY DEF Addresses
  <2>2. PICK w \in Values : w = Keyed(n)[k]
    BY <1>0, <1>1, <2>1, KeyedType, StoredHold
  <2>3. values[n] = Keyed(n)
    BY <1>0, <1>1, <2>1, KeyedType DEF Keyed
  <2>4. \A t : Get(t, n, k) = IF w.type = t THEN {w} ELSE {}
    BY <1>1, <2>1, <2>2, <2>3 DEF Get
  <2>5. UNION {Get(t, n, k) : t \in Types} = {w}
    BY <2>4, GetFinds
  <2>q. QED BY <2>1, <2>2, <2>5
<1>q. QED BY <1>1, Zenon DEF FlatStore, At, Addresses, NoValue

\* The same after a step.
LEMMA FlatNext == BlackboardInv' => FlatStore' = [a \in Addresses |-> At(a[1], a[2])']
<1>1. (BlackboardInv => FlatStore = [a \in Addresses |-> At(a[1], a[2])])'
  BY FlatNow, PTL
<1>q. QED BY <1>1 DEF Addresses

\* Two flat stores differ where the namespace that changed does.
LEMMA FlatChanges ==
  ASSUME BlackboardInv, BlackboardInv', NEW n \in Namespaces, NEW f, Changes(n, f)
  PROVE  \A a \in Addresses :
           FlatStore'[a] = IF a[1] # n THEN FlatStore[a]
                           ELSE IF a[2] \in DOMAIN f THEN f[a[2]] ELSE NoValue
<1>1. /\ FlatStore = [a \in Addresses |-> At(a[1], a[2])]
      /\ FlatStore' = [a \in Addresses |-> At(a[1], a[2])']
  BY FlatNow, FlatNext
<1>2. ASSUME NEW m \in Namespaces, NEW k \in Keys
      PROVE  At(m, k)' = IF m # n THEN At(m, k)
                         ELSE IF k \in DOMAIN f THEN f[k] ELSE NoValue
  BY DEF Changes, At
<1>q. QED BY <1>1, <1>2 DEF Addresses

\* The addresses of a namespace that hold a value are those of its keys.
LEMMA HeldAt ==
  ASSUME BlackboardInv, NEW n \in Namespaces, NEW k \in Keys
  PROVE  FlatStore[<<n, k>>] # NoValue <=> k \in DOMAIN Keyed(n)
<1>1. FlatStore[<<n, k>>] = At(n, k)
  BY FlatNow DEF Addresses
<1>2. k \in DOMAIN Keyed(n) => Keyed(n)[k] \in Values
  BY KeyedType, StoredHold
<1>q. QED BY <1>1, <1>2, ValuesAreTyped DEF At, NoValue

\* The addresses held in a namespace are its keys.
LEMMA HeldIn ==
  ASSUME BlackboardInv, NEW n \in Namespaces, NEW K \in SUBSET Keys
  PROVE  Flat!Held({n} \X K) = {n} \X (K \cap DOMAIN Keyed(n))
BY HeldAt DEF Flat!Held, Flat!NoValue, NoValue

\* SharedStore counts with the same Cardinality.
LEMMA SameCount == ASSUME NEW S PROVE Flat!Cardinality(S) = Cardinality(S)
BY DEF Flat!Cardinality, Cardinality

\* As many addresses as keys.
LEMMA AddressCount ==
  ASSUME NEW n, NEW K, IsFiniteSet(K)
  PROVE  Cardinality({n} \X K) = Cardinality(K)
<1> DEFINE g == [k \in K |-> <<n, k>>]
<1>1. g \in Bijection(K, {n} \X K)
  BY DEF Bijection, Injection, Surjection, IsInjective
<1>2. ExistsBijection(K, {n} \X K)
  BY <1>1 DEF ExistsBijection
<1>q. QED BY <1>2, FS_Bijection

\* StoreValue is a Put.
LEMMA StoreIsPut ==
  ASSUME BlackboardInv, NEW n \in Namespaces, NEW k \in Keys, NEW v \in Values,
         StoreValue(n, k, v)
  PROVE  Flat!StoreNext
<1> DEFINE f == With(Keyed(n), k, v)
<1>1. Changes(n, f) /\ BlackboardInv'
  BY StoreEffect
<1>2. /\ DOMAIN f = DOMAIN Keyed(n) \cup {k} /\ f[k] = v
      /\ \A l \in DOMAIN Keyed(n) \ {k} : f[l] = Keyed(n)[l]
  <2> DEFINE g == Keyed(n)
  <2> HIDE DEF g
  <2>1. /\ DOMAIN With(g, k, v) = DOMAIN g \cup {k} /\ With(g, k, v)[k] = v
        /\ \A l \in DOMAIN g \ {k} : With(g, k, v)[l] = g[l]
    BY DEF With
  <2>q. QED BY <2>1, Zenon DEF g
<1> HIDE DEF f
<1>3. \A a \in Addresses : FlatStore'[a] = IF a[1] # n THEN FlatStore[a]
                           ELSE IF a[2] \in DOMAIN f THEN f[a[2]] ELSE NoValue
  BY <1>1, FlatChanges
<1>4. /\ FlatStore = [a \in Addresses |-> At(a[1], a[2])]
      /\ FlatStore' = [a \in Addresses |-> At(a[1], a[2])']
  BY <1>1, FlatNow, FlatNext
<1>5. ASSUME NEW a \in Addresses, a # <<n, k>>
      PROVE  FlatStore'[a] = FlatStore[a]
  <2>1. CASE a[1] # n
    BY <1>3, <2>1
  <2>2. CASE a[1] = n
    <3>1. a[2] # k
      BY <1>5, <2>2 DEF Addresses
    <3>2. FlatStore[a] = IF a[2] \in DOMAIN Keyed(n) THEN Keyed(n)[a[2]] ELSE NoValue
      BY <1>4, <2>2 DEF At
    <3>q. QED BY <1>2, <1>3, <2>2, <3>1, <3>2
  <2>q. QED BY <2>1, <2>2
<1>6. <<n, k>> \in Addresses /\ FlatStore'[<<n, k>>] = v
  BY <1>2, <1>3 DEF Addresses
<1>7. FlatStore' = [FlatStore EXCEPT ![<<n, k>>] = v]
  BY <1>4, <1>5, <1>6
<1>8. answer' = 1
  BY DEF StoreValue
<1>q. QED BY <1>6, <1>7, <1>8, Zenon DEF Flat!StoreNext, Flat!Put, Flat!Addresses, Addresses

\* An operation that empties part K of a namespace and answers how many values it had.
LEMMA DropsPart ==
  ASSUME BlackboardInv, BlackboardInv', NEW n \in Namespaces, NEW K \in SUBSET Keys, NEW f,
         Changes(n, f), DOMAIN f = DOMAIN Keyed(n) \ K,
         \A l \in DOMAIN f : f[l] = Keyed(n)[l],
         answer' = Cardinality(K \cap DOMAIN Keyed(n))
  PROVE  Flat!Drop({n} \X K)
<1>1. \A a \in Addresses : FlatStore'[a] = IF a[1] # n THEN FlatStore[a]
                           ELSE IF a[2] \in DOMAIN f THEN f[a[2]] ELSE NoValue
  BY FlatChanges
<1>2. /\ FlatStore = [a \in Addresses |-> At(a[1], a[2])]
      /\ FlatStore' = [a \in Addresses |-> At(a[1], a[2])']
  BY FlatNow, FlatNext
<1>3. ASSUME NEW a \in Addresses
      PROVE  FlatStore'[a] = IF a \in {n} \X K THEN NoValue ELSE FlatStore[a]
  <2>1. CASE a[1] # n
    BY <1>1, <2>1
  <2>2. CASE a[1] = n
    <3>1. a[2] \in Keys /\ (a \in {n} \X K <=> a[2] \in K)
      BY <2>2 DEF Addresses
    <3>2. FlatStore[a] = IF a[2] \in DOMAIN Keyed(n) THEN Keyed(n)[a[2]] ELSE NoValue
      BY <1>2, <2>2 DEF At
    <3>q. QED BY <1>1, <2>2, <3>1, <3>2
  <2>q. QED BY <2>1, <2>2
<1>4. FlatStore' = [a \in Addresses |-> IF a \in {n} \X K THEN NoValue ELSE FlatStore[a]]
  BY <1>2, <1>3
<1>5. IsFiniteSet(K \cap DOMAIN Keyed(n))
  BY KeyedType, FS_Intersection, Zenon
<1>6. answer' = Cardinality(Flat!Held({n} \X K))
  <2>1. Flat!Held({n} \X K) = {n} \X (K \cap DOMAIN Keyed(n))
    BY HeldIn, Zenon
  <2>2. Cardinality({n} \X (K \cap DOMAIN Keyed(n))) = Cardinality(K \cap DOMAIN Keyed(n))
    BY <1>5, AddressCount
  <2>q. QED BY <2>1, <2>2, Zenon
<1>q. QED BY <1>4, <1>6, SameCount, Zenon DEF Flat!Drop, Flat!Addresses, Flat!NoValue, Addresses, NoValue

\* Clear drops every address and answers how many were held.
LEMMA ClearIsDrop ==
  ASSUME BlackboardInv, Clear
  PROVE  Flat!Drop(Addresses)
<1>1. (\A m \in Namespaces : Keyed(m)' = Empty) /\ BlackboardInv'
  BY ClearEffect
<1>2. FlatStore' = [a \in Addresses |-> At(a[1], a[2])']
  BY <1>1, FlatNext
<1>3. FlatStore' = [a \in Addresses |-> NoValue]
  BY <1>1, <1>2 DEF At, Addresses, Empty
<1>4. Flat!Held(Addresses) = UNION { {n} \X DOMAIN values[n] : n \in DOMAIN values }
  <2>1. ASSUME NEW a PROVE a \in Flat!Held(Addresses) <=>
                             \E n \in DOMAIN values : a \in {n} \X DOMAIN values[n]
    <3>1. ASSUME NEW n \in Namespaces, NEW k \in Keys
          PROVE  FlatStore[<<n, k>>] # NoValue <=> k \in DOMAIN Keyed(n)
      BY HeldAt
    <3>2. DOMAIN values \subseteq Namespaces /\ \A n \in DOMAIN values : DOMAIN values[n] \subseteq Keys
      BY BoardsHold, StoredHold DEF BlackboardInv
    <3>3. \A n \in Namespaces : DOMAIN Keyed(n) = IF n \in DOMAIN values THEN DOMAIN values[n] ELSE {}
      BY StoredHold DEF Keyed
    <3>4. CASE a \in Addresses
      <4>1. PICK n \in Namespaces, k \in Keys : a = <<n, k>>
        BY <3>4 DEF Addresses
      <4>2. a \in Flat!Held(Addresses) <=> FlatStore[<<n, k>>] # NoValue
        BY <3>4, <4>1 DEF Flat!Held, Flat!NoValue, NoValue
      <4>q. QED BY <3>1, <3>3, <4>1, <4>2
    <3>5. CASE a \notin Addresses
      BY <3>2, <3>5 DEF Flat!Held, Addresses
    <3>q. QED BY <3>4, <3>5
  <2>q. QED BY <2>1
<1>5. FlatStore' = [a \in Addresses |-> IF a \in Addresses THEN NoValue ELSE FlatStore[a]]
  BY <1>3
<1>6. answer' = Cardinality(Flat!Held(Addresses))
  BY <1>4 DEF Clear
<1>q. QED BY <1>5, <1>6, SameCount, Zenon DEF Flat!Drop, Flat!Addresses, Flat!NoValue, Addresses, NoValue

\* Remove drops one address, or refuses where nothing is stored.
LEMMA RemoveIsDrop ==
  ASSUME BlackboardInv, NEW n \in Namespaces, NEW k \in Keys, Remove(n, k)
  PROVE  Flat!StoreNext
<1>1. CASE k \notin DOMAIN Keyed(n)
  <2>1. values' = values /\ answer' = 0
    BY <1>1 DEF Remove
  <2>2. FlatStore' = FlatStore
    BY <2>1 DEF FlatStore, Get, Keyed
  <2>q. QED BY <2>1, <2>2 DEF Flat!StoreNext, Flat!Refuse
<1>2. CASE k \in DOMAIN Keyed(n)
  <2> DEFINE f == Without(Keyed(n), k)
  <2>1. Changes(n, f) /\ BlackboardInv'
    BY <1>2, RemoveEffect
  <2>2. /\ DOMAIN f = DOMAIN Keyed(n) \ {k}
        /\ \A l \in DOMAIN f : f[l] = Keyed(n)[l]
    <3>1. Keyed(n) \in Stored
      BY KeyedType
    <3>q. QED BY <3>1, StoredWithout
  <2>3. answer' = 1
    BY <1>2 DEF Remove
  <2>4. {k} \cap DOMAIN Keyed(n) = {k} /\ Cardinality({k}) = 1
    BY <1>2, FS_Singleton
  <2>5. answer' = Cardinality({k} \cap DOMAIN Keyed(n)) /\ {k} \in SUBSET Keys
    BY <2>3, <2>4
  <2> HIDE DEF f
  <2>6. Flat!Drop({n} \X {k})
    BY <2>1, <2>2, <2>5, DropsPart, Zenon
  <2>7. {n} \X {k} = {<<n, k>>} /\ <<n, k>> \in Flat!Addresses
    BY DEF Flat!Addresses
  <2>q. QED BY <2>6, <2>7, Zenon DEF Flat!StoreNext
<1>q. QED BY <1>1, <1>2

\* Clear of a namespace drops its addresses and answers how many were held.
LEMMA ClearNamespaceIsDrop ==
  ASSUME BlackboardInv, NEW n \in Namespaces, ClearNamespace(n)
  PROVE  Flat!StoreNext
<1>1. Changes(n, Empty) /\ BlackboardInv'
  BY ClearNamespaceEffect
<1>2. DOMAIN Keyed(n) \subseteq Keys /\ DOMAIN Empty = {}
  BY KeyedType, StoredHold
<1>3. /\ DOMAIN Empty = DOMAIN Keyed(n) \ Keys /\ Keys \in SUBSET Keys
      /\ \A l \in DOMAIN Empty : Empty[l] = Keyed(n)[l]
      /\ Keys \cap DOMAIN Keyed(n) = DOMAIN Keyed(n)
  BY <1>2, Zenon
<1>4. answer' = Cardinality(Keys \cap DOMAIN Keyed(n))
  BY <1>3 DEF ClearNamespace
<1>5. Flat!Drop({n} \X Keys)
  BY <1>1, <1>3, <1>4, DropsPart, Zenon
<1>q. QED BY <1>5, Zenon DEF Flat!StoreNext

\* Every step of the blackboard is a step of the flat store or leaves it alone.
LEMMA BlackboardSteps ==
  ASSUME BlackboardInv, [BlackboardNext]_blackboardVars
  PROVE  [Flat!StoreNext]_<<FlatStore, answer>>
<1>1. ASSUME values' = values PROVE FlatStore' = FlatStore
  BY <1>1 DEF FlatStore, Get, Keyed
<1>2. ASSUME values' = values, answer' = 0 PROVE Flat!StoreNext
  BY <1>1, <1>2 DEF Flat!StoreNext, Flat!Refuse
<1>3. ASSUME NEW n \in Namespaces, NEW k \in Keys, StoreThrows(n, k) PROVE Flat!StoreNext
  BY <1>2, <1>3, ThrowEffect DEF StoreThrows
<1>4. ASSUME Clear PROVE Flat!StoreNext
  BY <1>4, ClearIsDrop DEF Flat!StoreNext, Flat!Addresses, Addresses
<1>5. ASSUME StoreRefused PROVE Flat!StoreNext
  BY <1>2, <1>5 DEF StoreRefused
<1>6. ASSUME UNCHANGED blackboardVars PROVE UNCHANGED <<FlatStore, answer>>
  BY <1>1, <1>6 DEF blackboardVars
<1>q. QED
  BY <1>3, <1>4, <1>5, <1>6, StoreIsPut, RemoveIsDrop, ClearNamespaceIsDrop
  DEF BlackboardNext

\* The nested maps of Blackboard do, for any namespaces, keys and values, what the flat
\* store of SharedStore does, answers included, and keep no empty namespace.
THEOREM BlackboardIsAStore == BlackboardSpec => ImplementsSharedStore
<1>1. BlackboardInit => Flat!StoreInit
  BY DEF BlackboardInit, Flat!StoreInit, Flat!Addresses, Flat!NoValue, FlatStore, Keyed, Empty
<1>2. BlackboardInv /\ [BlackboardNext]_blackboardVars => [Flat!StoreNext]_<<FlatStore, answer>>
  BY BlackboardSteps
<1>3. BlackboardInv => NoEmptyNamespace
  BY DEF BlackboardInv
<1>q. QED
  BY <1>1, <1>2, <1>3, BlackboardInvHolds, PTL
  DEF BlackboardSpec, ImplementsSharedStore, Flat!StoreSpec
=============================================================================

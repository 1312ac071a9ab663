-------------------------- MODULE ResourceManager --------------------------
(***************************************************************************)
(* humanoid::runtime::ResourceManager: shared and exclusive leases of named *)
(* resources.  A resource exists in resources_ only while somebody holds or *)
(* awaits it; a blocked Acquire keeps a reference to its ResourceState.     *)
(* One action per section under mutex_; the notification of Release is a    *)
(* step of its own.  Calls with an empty identifier, and a TryAcquire that  *)
(* is refused, change nothing and are no actions.                           *)
(***************************************************************************)
EXTENDS Integers, FiniteSets

CONSTANTS Acquirers, Resources,
          Blockers,      \* the threads that call the Acquire that blocks
          MaxLeases      \* bound on the leases given out

ASSUME ResourceAssumption ==
  IsFiniteSet(Acquirers) /\ Blockers \subseteq Acquirers /\ MaxLeases \in Nat

Modes == {"Shared", "Exclusive"}
Handles == [resource : Resources, mode : Modes, lease : Nat \ {0}]

VARIABLES
  resources,                         \* keys of resources_
  shared_leases, exclusive_lease,    \* ResourceState; 0 is nullopt
  waiting_shared, waiting_exclusive,
  next_lease_id,
  asleep,                            \* threads blocked in condition_
  pc, want,                          \* position and request of each thread
  handles,                           \* every handle given out
  released                           \* history: handles whose lease was released

leaseVars == <<resources, shared_leases, exclusive_lease, next_lease_id, handles, released>>
waitVars == <<waiting_shared, waiting_exclusive, asleep>>
vars == <<leaseVars, waitVars, pc, want>>

Requests == [resource : Resources, mode : Modes, timed : BOOLEAN]

Init ==
  /\ resources = {}
  /\ shared_leases = [r \in Resources |-> {}]
  /\ exclusive_lease = [r \in Resources |-> 0]
  /\ waiting_shared = [r \in Resources |-> 0]
  /\ waiting_exclusive = [r \in Resources |-> 0]
  /\ next_lease_id = 1
  /\ asleep = {}
  /\ pc = [t \in Acquirers |-> "idle"]
  /\ want = [t \in Acquirers |-> CHOOSE q \in Requests : TRUE]
  /\ handles = {} /\ released = {}

-----------------------------------------------------------------------------
\* Fault: new readers pass a waiting writer.
ReadersBarge(r) == exclusive_lease[r] = 0

CanAcquireShared(r) == exclusive_lease[r] = 0 /\ waiting_exclusive[r] = 0

CanAcquireExclusive(r) == exclusive_lease[r] = 0 /\ shared_leases[r] = {}

CanAcquire(r, mode) == IF mode = "Shared" THEN CanAcquireShared(r)
                       ELSE CanAcquireExclusive(r)

NewLeaseId(r) == next_lease_id

CreateLockLocked(r, mode) ==
  LET lease == NewLeaseId(r)
  IN /\ next_lease_id <= MaxLeases
     /\ next_lease_id' = next_lease_id + 1
     /\ shared_leases' = IF mode = "Shared" THEN [shared_leases EXCEPT ![r] = @ \cup {lease}]
                         ELSE shared_leases
     /\ exclusive_lease' = IF mode = "Exclusive" THEN [exclusive_lease EXCEPT ![r] = lease]
                           ELSE exclusive_lease
     /\ handles' = handles \cup {[resource |-> r, mode |-> mode, lease |-> lease]}
     /\ resources' = resources \cup {r}
     /\ UNCHANGED released

\* Fault: waiting readers do not keep the entry.
ForgetsReaders(s, x, ws, we) == s = {} /\ x = 0 /\ we = 0

\* RemoveUnusedResourceLocked erases an entry with these values.
Unused(s, x, ws, we) == s = {} /\ x = 0 /\ ws = 0 /\ we = 0

Waiting(r, mode) == IF mode = "Shared" THEN waiting_shared[r] ELSE waiting_exclusive[r]

SetWaiting(r, mode, n) ==
  /\ waiting_shared' = IF mode = "Shared" THEN [waiting_shared EXCEPT ![r] = n]
                       ELSE waiting_shared
  /\ waiting_exclusive' = IF mode = "Exclusive" THEN [waiting_exclusive EXCEPT ![r] = n]
                          ELSE waiting_exclusive

-----------------------------------------------------------------------------

\* Acquire or TryAcquire of a resource that is available.
AcquireAtOnce(t, r, mode) ==
  /\ pc[t] = "idle" /\ CanAcquire(r, mode)
  /\ CreateLockLocked(r, mode)
  /\ UNCHANGED <<waitVars, pc, want>>

\* Acquire, with or without a time limit, of one that is not.
AcquireBlocks(t, q) ==
  /\ t \in Blockers /\ pc[t] = "idle" /\ ~CanAcquire(q.resource, q.mode)
  /\ resources' = resources \cup {q.resource}
  /\ SetWaiting(q.resource, q.mode, Waiting(q.resource, q.mode) + 1)
  /\ asleep' = asleep \cup {t}
  /\ pc' = [pc EXCEPT ![t] = "blocked"]
  /\ want' = [want EXCEPT ![t] = q]
  /\ UNCHANGED <<shared_leases, exclusive_lease, next_lease_id, handles, released>>

\* The predicate is false again: the thread goes back to sleep.
WaitsAgain(t) ==
  /\ pc[t] = "blocked" /\ t \notin asleep
  /\ ~CanAcquire(want[t].resource, want[t].mode)
  /\ asleep' = asleep \cup {t}
  /\ UNCHANGED <<leaseVars, waiting_shared, waiting_exclusive, pc, want>>

AcquireAfterWait(t) ==
  LET q == want[t]
  IN /\ pc[t] = "blocked" /\ t \notin asleep
     /\ CanAcquire(q.resource, q.mode)
     /\ SetWaiting(q.resource, q.mode, Waiting(q.resource, q.mode) - 1)
     /\ CreateLockLocked(q.resource, q.mode)
     /\ pc' = [pc EXCEPT ![t] = "idle"]
     /\ UNCHANGED <<asleep, want>>

\* Whom a timed Acquire that gives up leaves asleep.
AsleepAfterTimeout(mode) == IF mode = "Exclusive" THEN {} ELSE asleep

\* The deadline of a timed Acquire passes while the predicate is false.
AcquireTimesOut(t) ==
  LET q == want[t]
      r == q.resource
      left == Waiting(r, q.mode) - 1
  IN /\ pc[t] = "blocked" /\ q.timed /\ ~CanAcquire(r, q.mode)
     /\ SetWaiting(r, q.mode, left)
     /\ resources' =
          IF Unused(shared_leases[r], exclusive_lease[r],
                    IF q.mode = "Shared" THEN left ELSE waiting_shared[r],
                    IF q.mode = "Exclusive" THEN left ELSE waiting_exclusive[r])
          THEN resources \ {r} ELSE resources
     /\ asleep' = AsleepAfterTimeout(q.mode) \ {t}
     /\ pc' = [pc EXCEPT ![t] = "idle"]
     /\ UNCHANGED <<shared_leases, exclusive_lease, next_lease_id, handles, released, want>>

\* Fault: releasing one reader's lease ends the leases of all readers.
ReleasesAllReaders(t, h) ==
  /\ pc[t] = "idle" /\ h.mode = "Shared" /\ h.lease \in shared_leases[h.resource]
  /\ shared_leases' = [shared_leases EXCEPT ![h.resource] = {}]
  /\ released' = released \cup {h}
  /\ pc' = [pc EXCEPT ![t] = "notify"]
  /\ UNCHANGED <<exclusive_lease, resources, next_lease_id, handles, waitVars, want>>

\* Release through the lock or through any copy of its handle, first or stale.
Release(t, h) ==
  LET r == h.resource
      s == shared_leases[r] \ {h.lease}
      x == IF h.mode = "Exclusive" THEN 0 ELSE exclusive_lease[r]
  IN /\ pc[t] = "idle" /\ r \in resources
     /\ IF h.mode = "Exclusive" THEN exclusive_lease[r] = h.lease
        ELSE h.lease \in shared_leases[r]
     /\ shared_leases' = IF h.mode = "Shared" THEN [shared_leases EXCEPT ![r] = s]
                         ELSE shared_leases
     /\ exclusive_lease' = [exclusive_lease EXCEPT ![r] = x]
     /\ resources' = IF Unused(IF h.mode = "Shared" THEN s ELSE shared_leases[r], x,
                               waiting_shared[r], waiting_exclusive[r])
                     THEN resources \ {r} ELSE resources
     /\ released' = released \cup {h}
     /\ pc' = [pc EXCEPT ![t] = "notify"]
     /\ UNCHANGED <<next_lease_id, handles, waitVars, want>>

\* Fault: the notification is missing.
SilentRelease(t) ==
  /\ pc[t] = "notify"
  /\ pc' = [pc EXCEPT ![t] = "idle"]
  /\ UNCHANGED <<leaseVars, waitVars, want>>

Notify(t) ==
  /\ pc[t] = "notify"
  /\ asleep' = {}
  /\ pc' = [pc EXCEPT ![t] = "idle"]
  /\ UNCHANGED <<leaseVars, waiting_shared, waiting_exclusive, want>>

SpuriousWakeup(t) ==
  /\ t \in asleep /\ asleep' = asleep \ {t}
  /\ UNCHANGED <<leaseVars, waiting_shared, waiting_exclusive, pc, want>>

Next ==
  \/ \E t \in Acquirers :
       \/ \E r \in Resources, mode \in Modes : AcquireAtOnce(t, r, mode)
       \/ \E q \in Requests : AcquireBlocks(t, q)
       \/ WaitsAgain(t) \/ AcquireAfterWait(t) \/ AcquireTimesOut(t)
       \/ \E h \in handles : Release(t, h)
       \/ Notify(t) \/ SpuriousWakeup(t)

Spec == Init /\ [][Next]_vars

\* Threads run: a thread that was woken looks at its predicate.
ThreadsRun ==
  Spec /\ \A t \in Acquirers :
            WF_vars(WaitsAgain(t) \/ AcquireAfterWait(t)) /\ WF_vars(Notify(t))

\* Leases that are held are released in the end (RAII guards).
FairSpec ==
  /\ ThreadsRun
  /\ WF_vars(\E t \in Acquirers, h \in handles : Release(t, h))

-----------------------------------------------------------------------------
TypeOK ==
  /\ resources \subseteq Resources
  /\ shared_leases \in [Resources -> SUBSET (Nat \ {0})]
  /\ exclusive_lease \in [Resources -> Nat]
  /\ waiting_shared \in [Resources -> Nat] /\ waiting_exclusive \in [Resources -> Nat]
  /\ next_lease_id \in Nat \ {0}
  /\ asleep \subseteq Acquirers
  /\ pc \in [Acquirers -> {"idle", "blocked", "notify"}]
  /\ want \in [Acquirers -> Requests]
  /\ handles \subseteq Handles /\ released \subseteq handles

\* An exclusive lease excludes every other lease of the resource, through any
\* order of waiting, timeouts, wake-ups and releases.
ExclusiveMeansAlone ==
  \A r \in Resources : exclusive_lease[r] # 0 => shared_leases[r] = {}

\* A handle that was used to release its lease never names an active lease
\* again, although entries of resources_ are erased and created anew: Release
\* with an old copy of a handle cannot take away someone else's lease.
StaleHandleIsDead ==
  \A h \in released :
    IF h.mode = "Exclusive" THEN exclusive_lease[h.resource] # h.lease
    ELSE h.lease \notin shared_leases[h.resource]

\* The ResourceState that a blocked Acquire refers to is not erased under it,
\* and neither is one with an active lease.
NoDanglingReference ==
  /\ \A t \in Acquirers : pc[t] = "blocked" => want[t].resource \in resources
  /\ \A r \in Resources :
       shared_leases[r] # {} \/ exclusive_lease[r] # 0 => r \in resources

\* The lease book of Acquire and Release is sound: its entries have their types, an
\* exclusive lease is alone, an old handle releases nothing, and no entry is erased
\* under a thread that waits on it.
LeasesAreSound == TypeOK /\ ExclusiveMeansAlone /\ StaleHandleIsDead /\ NoDanglingReference

\* docs/thread_safety.md: "Waiting exclusive owners are given preference over
\* new shared owners": no reader joins while a writer waits.
WritersPreferred ==
  [][\A r \in Resources :
       (waiting_exclusive[r] > 0 /\ waiting_exclusive'[r] > 0) =>
         shared_leases'[r] \subseteq shared_leases[r]]_vars

\* "... to prevent starvation": a waiting writer, or another one, gets the
\* resource, unless the waiting writer gives up.
WriterNotStarved ==
  \A t \in Blockers : \A r \in Resources :
    (pc[t] = "blocked" /\ want[t].resource = r /\ want[t].mode = "Exclusive") ~>
      (exclusive_lease[r] # 0 \/ pc[t] # "blocked" \/ next_lease_id > MaxLeases)

\* A reader that waits does not sleep on once no writer holds or awaits the
\* resource, also when the last writer gave up on a timeout and no lease is
\* ever released.
ReaderWokenUp ==
  \A t \in Blockers :
    (pc[t] = "blocked" /\ want[t].mode = "Shared") ~>
      (pc[t] # "blocked" \/ ~CanAcquireShared(want[t].resource) \/ next_lease_id > MaxLeases)

\* The active leases as LeaseTable knows them.
Holders ==
  [r \in Resources |->
    { [lease |-> n, mode |-> "Shared"] : n \in shared_leases[r] } \cup
    { [lease |-> n, mode |-> "Exclusive"] : n \in {exclusive_lease[r]} \ {0} }]

LeaseNumbers == { h.lease : h \in handles }

Abstract == INSTANCE LeaseTable WITH holders <- Holders, issued <- LeaseNumbers

\* ResourceManager implements the lease table: every lock it hands out and
\* every release is a step the header promises.
ImplementsLeaseTable == Abstract!Spec
=============================================================================

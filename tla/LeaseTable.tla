----------------------------- MODULE LeaseTable -----------------------------
(***************************************************************************)
(* What ResourceManager.h promises of leases, without waiting, counters and *)
(* wake-ups: "Multiple owners may hold the resource concurrently" in shared *)
(* mode, "One owner has exclusive access" in exclusive mode, and a handle   *)
(* releases the lease it was issued for, once.                              *)
(***************************************************************************)
CONSTANT Resources
VARIABLES holders,   \* the active leases of each resource
          issued     \* the lease numbers given out so far

Modes == {"Shared", "Exclusive"}

Init == holders = [r \in Resources |-> {}] /\ issued = {}

Compatible(r, mode) ==
  IF mode = "Exclusive" THEN holders[r] = {}
  ELSE \A l \in holders[r] : l.mode = "Shared"

Grant(r, mode, n) ==
  /\ Compatible(r, mode) /\ n \notin issued
  /\ issued' = issued \cup {n}
  /\ holders' = [holders EXCEPT ![r] = @ \cup {[lease |-> n, mode |-> mode]}]

Release(r, l) ==
  /\ l \in holders[r]
  /\ holders' = [holders EXCEPT ![r] = @ \ {l}]
  /\ UNCHANGED issued

Next == \E r \in Resources :
          \/ \E mode \in Modes, n \in issued' \ issued : Grant(r, mode, n)
          \/ \E l \in holders[r] : Release(r, l)

Spec == Init /\ [][Next]_<<holders, issued>>
=============================================================================

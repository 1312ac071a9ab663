--------------------------- MODULE MCCommandQueue ---------------------------
(***************************************************************************)
(* Small instances of CommandQueue.  One command is timed and more urgent, *)
(* the others have equal priority; any of them may be submitted again, and  *)
(* the three identifiers overflow a queue of two.                           *)
(***************************************************************************)
EXTENDS CommandQueue, TLC

Cmd(i, p, d, ts) == [id |-> i, priority |-> p, timeout |-> d, timestamp |-> ts]

MCCommands == { Cmd(1, 3, 5, "past"), Cmd(2, 1, 0, "unset"), Cmd(3, 1, 0, "unset") }

\* Callers are interchangeable, and so are workers.
MCSymmetry == Permutations(Callers) \cup Permutations(Workers)
\* A third task has an identifier of its own, and one caller at a time is inside a
\* call then; up to two tasks, identifiers repeat and all calls overlap.
MCThirdTask ==
  submitted = 3 => /\ IsInjective(command)
                   /\ \A s, t \in Callers : s = t \/ "idle" \in {call[s], call[t]}
=============================================================================

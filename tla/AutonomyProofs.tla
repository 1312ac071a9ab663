--------------------------- MODULE AutonomyProofs ---------------------------
(***************************************************************************)
(* Proofs about PlanningPipeline, for any callers, options and bound,      *)
(* about PluginFactory, for any plugins, ranges and finitely many callers, *)
(* and about the order of versions behind IsCompatibleWith.                *)
(***************************************************************************)
EXTENDS PlanningPipeline, PluginFactory, FiniteSetTheorems, TLAPS

-----------------------------------------------------------------------------

\* Whoever is past the lock of Execute holds execution_mutex_.
LEMMA StepOfHolder ==
  ASSUME PlanningInv, NEW c \in Requesters, execution[c].at # "idle"
  PROVE  holder = c /\ c # None /\ execution[c] \in Executions
BY PlanningAssumption DEF PlanningInv, PlanningTypeOK, HolderExecutes, NotPlanning

\* The holder goes on to another place and keeps the mutex.
LEMMA HolderMoves ==
  ASSUME PlanningInv, NEW c \in Requesters, execution[c].at # "idle",
         NEW s \in Executions, Moves(c, s), holder' = holder
  PROVE  /\ execution' \in [Requesters -> {NotPlanning} \cup Executions]
         /\ execution'[c] = s /\ HolderExecutes'
<1>1. execution' = [execution EXCEPT ![c] = s]
  BY DEF Moves
<1>2. s.at # "idle"
  BY DEF Executions, Places
<1> QED BY <1>1, <1>2, StepOfHolder DEF PlanningInv, PlanningTypeOK, HolderExecutes

\* The holder returns and releases the mutex.
LEMMA HolderReturns ==
  ASSUME PlanningInv, NEW c \in Requesters, execution[c].at # "idle", Return(c)
  PROVE  /\ execution' \in [Requesters -> {NotPlanning} \cup Executions]
         /\ holder' = None /\ HolderExecutes'
<1>1. execution' = [execution EXCEPT ![c] = NotPlanning] /\ holder' = None
  BY DEF Return, Moves
<1>2. NotPlanning.at = "idle"
  BY DEF NotPlanning
<1> QED BY <1>1, <1>2, StepOfHolder, PlanningAssumption
        DEF PlanningInv, PlanningTypeOK, HolderExecutes

\* What Count does.
LEMMA Counted ==
  ASSUME PlanningInv, NEW field \in Fields, Count(field)
  PROVE  /\ metrics' \in [Fields -> Nat]
         /\ metrics'[field] = metrics[field] + 1
         /\ \A f \in Fields \ {field} : metrics'[f] = metrics[f]
BY DEF PlanningInv, PlanningTypeOK, Count

\* Execute takes the lock, counts the request and validates it.
LEMMA ExecuteNext ==
  ASSUME PlanningInv, NEW c \in Requesters, NEW valid \in BOOLEAN, NEW options \in Options,
         Execute(c, valid, options)
  PROVE  PlanningInv'
<1> DEFINE s == [at |-> IF valid THEN "attempting" ELSE "rejecting", planner |-> "primary",
                 options |-> options, result |-> None]
<1>1. /\ holder = None /\ holder' = c /\ c # None /\ Count("requests")
      /\ execution' = [execution EXCEPT ![c] = s] /\ jobs' = jobs /\ thrown' = thrown
  BY PlanningAssumption DEF Execute, Moves
<1>2. s \in Executions /\ s.at \in {"attempting", "rejecting"} /\ s.planner = "primary"
  BY DEF Executions, Places, Results
<1>3. execution' \in [Requesters -> {NotPlanning} \cup Executions] /\ execution'[c] = s
  BY <1>1, <1>2 DEF PlanningInv, PlanningTypeOK
<1> HIDE DEF s
<1>4. /\ metrics' \in [Fields -> Nat] /\ metrics'["requests"] = metrics["requests"] + 1
      /\ \A f \in Fields \ {"requests"} : metrics'[f] = metrics[f]
  BY <1>1, Counted DEF Fields
<1>5. PlanningTypeOK'
  BY <1>1, <1>3, <1>4 DEF PlanningInv, PlanningTypeOK
<1>6. HolderExecutes'
  BY <1>1, <1>2, <1>3, PlanningAssumption DEF PlanningInv, PlanningTypeOK, HolderExecutes
<1>7. CountsFollow'
  BY <1>1, <1>2, <1>3, <1>4
     DEF PlanningInv, PlanningTypeOK, CountsFollow, Fields, Holds, HoldsWith, One, AfterPrimary
<1>8. JobsFollow'
  BY <1>1, <1>2, <1>3, <1>4 DEF PlanningInv, PlanningTypeOK, JobsFollow, Fields, Holds
<1>9. OnlyAcceptedPlansAreSubmitted'
  BY <1>1 DEF PlanningInv, OnlyAcceptedPlansAreSubmitted
<1> QED BY <1>5, <1>6, <1>7, <1>8, <1>9 DEF PlanningInv


\* A rejected request is counted and returns.
LEMMA IncrementRejectedNext ==
  ASSUME PlanningInv, NEW c \in Requesters, IncrementRejected(c)
  PROVE  PlanningInv'
<1>1. /\ execution[c].at = "rejecting" /\ Count("rejected") /\ Return(c)
      /\ jobs' = jobs /\ thrown' = thrown
  BY DEF IncrementRejected
<1>2. holder = c /\ c # None /\ execution[c] \in Executions
  BY <1>1, StepOfHolder
<1>3. /\ execution' \in [Requesters -> {NotPlanning} \cup Executions]
      /\ holder' = None /\ HolderExecutes'
  BY <1>1, HolderReturns
<1>4. /\ metrics' \in [Fields -> Nat] /\ metrics'["rejected"] = metrics["rejected"] + 1
      /\ \A f \in Fields \ {"rejected"} : metrics'[f] = metrics[f]
  BY <1>1, Counted DEF Fields
<1>5. PlanningTypeOK'
  BY <1>1, <1>3, <1>4 DEF PlanningInv, PlanningTypeOK
<1>6. CountsFollow'
  BY <1>1, <1>2, <1>3, <1>4
     DEF PlanningInv, PlanningTypeOK, CountsFollow, Fields, Holds, HoldsWith, One
<1>7. JobsFollow'
  BY <1>1, <1>2, <1>3, <1>4 DEF PlanningInv, PlanningTypeOK, JobsFollow, Fields, Holds
<1>8. OnlyAcceptedPlansAreSubmitted'
  BY <1>1 DEF PlanningInv, OnlyAcceptedPlansAreSubmitted
<1> QED BY <1>3, <1>5, <1>6, <1>7, <1>8 DEF PlanningInv

\* A failed execution is counted and returns.
LEMMA IncrementFailureNext ==
  ASSUME PlanningInv, NEW c \in Requesters, IncrementFailure(c)
  PROVE  PlanningInv'
<1>1. /\ execution[c].at = "failing" /\ Count("failed") /\ Return(c)
      /\ jobs' = jobs /\ thrown' = thrown
  BY DEF IncrementFailure
<1>2. holder = c /\ c # None /\ execution[c] \in Executions
  BY <1>1, StepOfHolder
<1>3. /\ execution' \in [Requesters -> {NotPlanning} \cup Executions]
      /\ holder' = None /\ HolderExecutes'
  BY <1>1, HolderReturns
<1>4. /\ metrics' \in [Fields -> Nat] /\ metrics'["failed"] = metrics["failed"] + 1
      /\ \A f \in Fields \ {"failed"} : metrics'[f] = metrics[f]
  BY <1>1, Counted DEF Fields
<1>5. PlanningTypeOK'
  BY <1>1, <1>3, <1>4 DEF PlanningInv, PlanningTypeOK
<1>6. CountsFollow'
  BY <1>1, <1>2, <1>3, <1>4
     DEF PlanningInv, PlanningTypeOK, CountsFollow, Fields, Holds, HoldsWith, One
<1>7. JobsFollow'
  BY <1>1, <1>2, <1>3, <1>4 DEF PlanningInv, PlanningTypeOK, JobsFollow, Fields, Holds
<1>8. OnlyAcceptedPlansAreSubmitted'
  BY <1>1 DEF PlanningInv, OnlyAcceptedPlansAreSubmitted
<1> QED BY <1>3, <1>5, <1>6, <1>7, <1>8 DEF PlanningInv

\* A plan is counted and returned.
LEMMA FinishNext ==
  ASSUME PlanningInv, NEW c \in Requesters, Finish(c)
  PROVE  PlanningInv'
<1>1. /\ execution[c].at = "finishing" /\ Count("planned") /\ Return(c)
      /\ jobs' = jobs /\ thrown' = thrown
  BY DEF Finish
<1>2. holder = c /\ c # None /\ execution[c] \in Executions
  BY <1>1, StepOfHolder
<1>3. /\ execution' \in [Requesters -> {NotPlanning} \cup Executions]
      /\ holder' = None /\ HolderExecutes'
  BY <1>1, HolderReturns
<1>4. /\ metrics' \in [Fields -> Nat] /\ metrics'["planned"] = metrics["planned"] + 1
      /\ \A f \in Fields \ {"planned"} : metrics'[f] = metrics[f]
  BY <1>1, Counted DEF Fields
<1>5. PlanningTypeOK'
  BY <1>1, <1>3, <1>4 DEF PlanningInv, PlanningTypeOK
<1>6. CountsFollow'
  BY <1>1, <1>2, <1>3, <1>4
     DEF PlanningInv, PlanningTypeOK, CountsFollow, Fields, Holds, HoldsWith, One
<1>7. JobsFollow'
  BY <1>1, <1>2, <1>3, <1>4 DEF PlanningInv, PlanningTypeOK, JobsFollow, Fields, Holds
<1>8. OnlyAcceptedPlansAreSubmitted'
  BY <1>1 DEF PlanningInv, OnlyAcceptedPlansAreSubmitted
<1> QED BY <1>3, <1>5, <1>6, <1>7, <1>8 DEF PlanningInv

\* A plan of the fallback planner is counted.
LEMMA CountFallbackNext ==
  ASSUME PlanningInv, NEW c \in Requesters, CountFallback(c)
  PROVE  PlanningInv'
<1> DEFINE s == [execution[c] EXCEPT !.at = "handing"]
<1>1. /\ execution[c].at = "fellBack" /\ Count("fallbackSucceeded") /\ Moves(c, s)
      /\ holder' = holder /\ jobs' = jobs /\ thrown' = thrown
  BY DEF CountFallback, At
<1>2. holder = c /\ c # None /\ execution[c] \in Executions
  BY <1>1, StepOfHolder
<1>3. /\ s \in Executions /\ s.at = "handing" /\ s.planner = execution[c].planner
      /\ s.options = execution[c].options /\ s.result = execution[c].result
  BY <1>2 DEF Executions, Places
<1> HIDE DEF s
<1>4. /\ execution' \in [Requesters -> {NotPlanning} \cup Executions]
      /\ execution'[c] = s /\ HolderExecutes'
  BY <1>1, <1>3, HolderMoves
<1>5. /\ metrics' \in [Fields -> Nat] /\ metrics'["fallbackSucceeded"] = metrics["fallbackSucceeded"] + 1
      /\ \A f \in Fields \ {"fallbackSucceeded"} : metrics'[f] = metrics[f]
  BY <1>1, Counted DEF Fields
<1>6. PlanningTypeOK'
  BY <1>1, <1>4, <1>5 DEF PlanningInv, PlanningTypeOK
<1>7. CountsFollow'
  BY <1>1, <1>2, <1>3, <1>4, <1>5
     DEF PlanningInv, PlanningTypeOK, CountsFollow, Fields, Holds, HoldsWith, One, AfterPrimary,
         JobsFollow
<1>8. JobsFollow'
  BY <1>1, <1>2, <1>3, <1>4, <1>5
     DEF PlanningInv, PlanningTypeOK, JobsFollow, Fields, Holds, BeforeHandoff
<1>9. OnlyAcceptedPlansAreSubmitted'
  BY <1>1 DEF PlanningInv, OnlyAcceptedPlansAreSubmitted
<1> QED BY <1>4, <1>6, <1>7, <1>8, <1>9 DEF PlanningInv

\* A job of the runtime is counted.
LEMMA CountSubmissionNext ==
  ASSUME PlanningInv, NEW c \in Requesters, CountSubmission(c)
  PROVE  PlanningInv'
<1> DEFINE s == [execution[c] EXCEPT !.at = "finishing"]
<1>1. /\ execution[c].at = "submitted" /\ Count("submissions") /\ Moves(c, s)
      /\ holder' = holder /\ jobs' = jobs /\ thrown' = thrown
  BY DEF CountSubmission, At
<1>2. holder = c /\ c # None /\ execution[c] \in Executions
  BY <1>1, StepOfHolder
<1>3. /\ s \in Executions /\ s.at = "finishing" /\ s.planner = execution[c].planner
      /\ s.options = execution[c].options /\ s.result = execution[c].result
  BY <1>2 DEF Executions, Places
<1> HIDE DEF s
<1>4. /\ execution' \in [Requesters -> {NotPlanning} \cup Executions]
      /\ execution'[c] = s /\ HolderExecutes'
  BY <1>1, <1>3, HolderMoves
<1>5. /\ metrics' \in [Fields -> Nat] /\ metrics'["submissions"] = metrics["submissions"] + 1
      /\ \A f \in Fields \ {"submissions"} : metrics'[f] = metrics[f]
  BY <1>1, Counted DEF Fields
<1>6. PlanningTypeOK'
  BY <1>1, <1>4, <1>5 DEF PlanningInv, PlanningTypeOK
<1>7. CountsFollow'
  BY <1>1, <1>2, <1>3, <1>4, <1>5
     DEF PlanningInv, PlanningTypeOK, CountsFollow, Fields, Holds, HoldsWith, One, AfterPrimary,
         JobsFollow
<1>8. JobsFollow'
  BY <1>1, <1>2, <1>3, <1>4, <1>5
     DEF PlanningInv, PlanningTypeOK, JobsFollow, Fields, Holds, BeforeHandoff
<1>9. OnlyAcceptedPlansAreSubmitted'
  BY <1>1 DEF PlanningInv, OnlyAcceptedPlansAreSubmitted
<1> QED BY <1>4, <1>6, <1>7, <1>8, <1>9 DEF PlanningInv

\* A handoff that failed is counted.
LEMMA CountSubmissionFailureNext ==
  ASSUME PlanningInv, NEW c \in Requesters, CountSubmissionFailure(c)
  PROVE  PlanningInv'
<1> DEFINE s == [execution[c] EXCEPT !.at = "failing"]
<1>1. /\ execution[c].at = "unsubmitted" /\ Count("submissionFailures") /\ Moves(c, s)
      /\ holder' = holder /\ jobs' = jobs /\ thrown' = thrown
  BY DEF CountSubmissionFailure, At
<1>2. holder = c /\ c # None /\ execution[c] \in Executions
  BY <1>1, StepOfHolder
<1>3. /\ s \in Executions /\ s.at = "failing" /\ s.planner = execution[c].planner
      /\ s.options = execution[c].options /\ s.result = execution[c].result
  BY <1>2 DEF Executions, Places
<1> HIDE DEF s
<1>4. /\ execution' \in [Requesters -> {NotPlanning} \cup Executions]
      /\ execution'[c] = s /\ HolderExecutes'
  BY <1>1, <1>3, HolderMoves
<1>5. /\ metrics' \in [Fields -> Nat] /\ metrics'["submissionFailures"] = metrics["submissionFailures"] + 1
      /\ \A f \in Fields \ {"submissionFailures"} : metrics'[f] = metrics[f]
  BY <1>1, Counted DEF Fields
<1>6. PlanningTypeOK'
  BY <1>1, <1>4, <1>5 DEF PlanningInv, PlanningTypeOK
<1>7. CountsFollow'
  BY <1>1, <1>2, <1>3, <1>4, <1>5
     DEF PlanningInv, PlanningTypeOK, CountsFollow, Fields, Holds, HoldsWith, One, AfterPrimary,
         JobsFollow
<1>8. JobsFollow'
  BY <1>1, <1>2, <1>3, <1>4, <1>5
     DEF PlanningInv, PlanningTypeOK, JobsFollow, Fields, Holds, BeforeHandoff
<1>9. OnlyAcceptedPlansAreSubmitted'
  BY <1>1 DEF PlanningInv, OnlyAcceptedPlansAreSubmitted
<1> QED BY <1>4, <1>6, <1>7, <1>8, <1>9 DEF PlanningInv

\* An attempt of the planner in use is counted.
LEMMA AttemptNext ==
  ASSUME PlanningInv, NEW c \in Requesters, Attempt(c)
  PROVE  PlanningInv'
<1> DEFINE s == [execution[c] EXCEPT !.at = "planning"]
           p == execution[c].planner
<1>1. /\ execution[c].at = "attempting" /\ Count(p) /\ Moves(c, s)
      /\ holder' = holder /\ jobs' = jobs /\ thrown' = thrown
  BY DEF Attempt, At
<1>2. holder = c /\ c # None /\ execution[c] \in Executions
  BY <1>1, StepOfHolder
<1>3. /\ s \in Executions /\ s.at = "planning" /\ s.planner = p
      /\ s.options = execution[c].options /\ s.result = execution[c].result
      /\ p \in {"primary", "fallback"}
  BY <1>2 DEF Executions, Places
<1> HIDE DEF s
<1>4. /\ execution' \in [Requesters -> {NotPlanning} \cup Executions]
      /\ execution'[c] = s /\ HolderExecutes'
  BY <1>1, <1>3, HolderMoves
<1>5. /\ metrics' \in [Fields -> Nat] /\ metrics'[p] = metrics[p] + 1
      /\ \A f \in Fields \ {p} : metrics'[f] = metrics[f]
  BY <1>1, <1>3, Counted DEF Fields
<1>6. PlanningTypeOK'
  BY <1>1, <1>4, <1>5 DEF PlanningInv, PlanningTypeOK
<1>7. CountsFollow'
  <2>1. CASE p = "primary"
    BY <2>1, <1>1, <1>2, <1>3, <1>4, <1>5
       DEF PlanningInv, PlanningTypeOK, CountsFollow, Fields, Holds, HoldsWith, One, AfterPrimary
  <2>2. CASE p = "fallback"
    BY <2>2, <1>1, <1>2, <1>3, <1>4, <1>5
       DEF PlanningInv, PlanningTypeOK, CountsFollow, Fields, Holds, HoldsWith, One, AfterPrimary
  <2> QED BY <2>1, <2>2, <1>3
<1>8. JobsFollow'
  BY <1>1, <1>2, <1>3, <1>4, <1>5
     DEF PlanningInv, PlanningTypeOK, JobsFollow, Fields, Holds, BeforeHandoff
<1>9. OnlyAcceptedPlansAreSubmitted'
  BY <1>1 DEF PlanningInv, OnlyAcceptedPlansAreSubmitted
<1> QED BY <1>4, <1>6, <1>7, <1>8, <1>9 DEF PlanningInv

\* Refused leaves the planner for the fallback planner, or fails.
LEMMA RefusedMoves ==
  ASSUME PlanningInv, NEW c \in Requesters, execution[c].at # "idle",
         NEW result \in Results, Refused(c, result), holder' = holder
  PROVE  /\ execution' \in [Requesters -> {NotPlanning} \cup Executions] /\ HolderExecutes'
         /\ \/ /\ execution'[c].at = "attempting" /\ execution'[c].planner = "fallback"
               /\ execution[c].planner = "primary"
            \/ execution'[c].at = "failing"
<1>1. execution[c] \in Executions
  BY StepOfHolder
<1>2. CASE execution[c].planner = "primary" /\ execution[c].options.enableFallback /\ HasFallback
  <2> DEFINE s == [execution[c] EXCEPT !.planner = "fallback", !.at = "attempting"]
  <2>1. Moves(c, s)
    BY <1>2 DEF Refused
  <2>2. s \in Executions /\ s.at = "attempting" /\ s.planner = "fallback"
    BY Zenon, <1>1 DEF Executions, Places
  <2> HIDE DEF s
  <2> QED BY <1>2, <2>1, <2>2, HolderMoves
<1>3. CASE ~(execution[c].planner = "primary" /\ execution[c].options.enableFallback
             /\ HasFallback)
  <2> DEFINE s == [execution[c] EXCEPT !.result = result, !.at = "failing"]
  <2>1. Moves(c, s)
    BY <1>3 DEF Refused, With
  <2>2. s \in Executions /\ s.at = "failing"
    BY Zenon, <1>1 DEF Executions, Places
  <2> HIDE DEF s
  <2> QED BY <2>1, <2>2, HolderMoves
<1> QED BY <1>2, <1>3

\* Accepted goes on to the handoff with the result.
LEMMA AcceptedMoves ==
  ASSUME PlanningInv, NEW c \in Requesters, execution[c].at # "idle",
         NEW result \in Results, Accepted(c, result), holder' = holder
  PROVE  /\ execution' \in [Requesters -> {NotPlanning} \cup Executions] /\ HolderExecutes'
         /\ execution'[c].result = result /\ execution'[c].planner = execution[c].planner
         /\ execution'[c].options = execution[c].options
         /\ execution'[c].at = IF execution[c].planner = "fallback" THEN "fellBack" ELSE "handing"
<1> DEFINE place == IF execution[c].planner = "fallback" THEN "fellBack" ELSE "handing"
           s == [execution[c] EXCEPT !.result = result, !.at = place]
<1>1. execution[c] \in Executions /\ place \in Places
  BY StepOfHolder DEF Places
<1>2. Moves(c, s)
  BY DEF Accepted, With
<1>3. /\ s \in Executions /\ s.at = place /\ s.planner = execution[c].planner
      /\ s.options = execution[c].options /\ s.result = result
  BY Zenon, <1>1 DEF Executions
<1> HIDE DEF s
<1> QED BY <1>2, <1>3, HolderMoves

\* A step of Execute between the planner and the end that counts nothing.
LEMMA CountsKept ==
  ASSUME PlanningInv, NEW c \in Requesters, holder = c, c # None, holder' = holder,
         metrics' = metrics, thrown' = thrown, execution'[c].planner = execution[c].planner,
         execution[c].at \in AfterPrimary \ {"finishing", "submitted"},
         execution'[c].at \in AfterPrimary,
         execution'[c].at \in {"planning", "validating", "invalid", "fellBack"} =>
           execution[c].at \in {"planning", "validating", "invalid", "fellBack"},
         execution'[c].at \in {"planning", "validating", "invalid"} =>
           execution[c].at \in {"planning", "validating", "invalid"},
         Cardinality(jobs') = Cardinality(jobs) + One(execution'[c].at = "submitted")
  PROVE  CountsFollow'
<1>1. /\ metrics \in [Fields -> Nat] /\ thrown \in Nat /\ CountsFollow
  BY DEF PlanningInv, PlanningTypeOK
<1>2. /\ metrics.requests \in Nat /\ metrics.rejected \in Nat /\ metrics.planned \in Nat
      /\ metrics.failed \in Nat /\ metrics.fallback \in Nat /\ metrics.primary \in Nat
      /\ metrics.fallbackSucceeded \in Nat /\ metrics.validationFailures \in Nat
      /\ metrics.submissions \in Nat /\ metrics.submissionFailures \in Nat
  BY <1>1 DEF Fields
<1>3. One(holder # None)' = One(holder # None)
  BY DEF One
<1>4. One(HoldsWith("primary", AfterPrimary) \/ HoldsWith("fallback", {"attempting"}))'
      = One(HoldsWith("primary", AfterPrimary) \/ HoldsWith("fallback", {"attempting"}))
  BY DEF One, Holds, HoldsWith, AfterPrimary
<1>5. /\ One(HoldsWith("fallback", {"planning", "validating", "invalid", "fellBack"})) \in {0, 1}
      /\ One(HoldsWith("fallback", {"planning", "validating", "invalid", "fellBack"}))' \in {0, 1}
      /\ One(HoldsWith("fallback", {"planning", "validating", "invalid", "fellBack"}))' = 1 =>
           One(HoldsWith("fallback", {"planning", "validating", "invalid", "fellBack"})) = 1
  BY DEF One, Holds, HoldsWith
<1>6. /\ One(Holds({"planning", "validating", "invalid"})) \in {0, 1}
      /\ One(Holds({"planning", "validating", "invalid"}))' \in {0, 1}
      /\ One(Holds({"planning", "validating", "invalid"}))' = 1 =>
           One(Holds({"planning", "validating", "invalid"})) = 1
  BY DEF One, Holds
<1>7. One(Holds({"finishing"})) = 0 /\ One(Holds({"finishing"}))' \in {0, 1}
  BY DEF One, Holds
<1>8. One(Holds({"failing"})) = 0 /\ One(Holds({"failing"}))' \in {0, 1}
  BY DEF One, Holds, AfterPrimary
<1>9. /\ One(Holds({"submitted"})) = 0
      /\ One(Holds({"submitted"}))' = One(execution'[c].at = "submitted")
      /\ One(execution'[c].at = "submitted") \in {0, 1}
  BY DEF One, Holds
<1>10. /\ (metrics.requests = metrics.rejected + metrics.planned + metrics.failed + thrown
                              + One(holder # None))'
       /\ (metrics.fallback + One(\/ HoldsWith("primary", AfterPrimary)
                                  \/ HoldsWith("fallback", {"attempting"})) <= metrics.primary)'
  BY <1>1, <1>3, <1>4, Zenon DEF CountsFollow
<1>11. (metrics.fallbackSucceeded
          + One(HoldsWith("fallback", {"planning", "validating", "invalid", "fellBack"}))
          <= metrics.fallback)'
  <2>1. metrics.fallbackSucceeded
          + One(HoldsWith("fallback", {"planning", "validating", "invalid", "fellBack"}))
          <= metrics.fallback
    BY <1>1, Zenon DEF CountsFollow
  <2>q. QED BY <1>2, <1>5, <2>1
<1>12. (metrics.validationFailures + One(Holds({"planning", "validating", "invalid"}))
          <= metrics.primary + metrics.fallback)'
  <2>1. metrics.validationFailures + One(Holds({"planning", "validating", "invalid"}))
          <= metrics.primary + metrics.fallback
    BY <1>1, Zenon DEF CountsFollow
  <2>q. QED BY <1>2, <1>6, <2>1
<1>13. /\ (metrics.submissions <= metrics.planned + One(Holds({"finishing"})))'
       /\ (metrics.submissionFailures <= metrics.failed + One(Holds({"failing"})))'
  <2>1. /\ metrics.submissions <= metrics.planned + One(Holds({"finishing"}))
        /\ metrics.submissionFailures <= metrics.failed + One(Holds({"failing"}))
    BY <1>1, Zenon DEF CountsFollow
  <2>q. QED BY <1>2, <1>7, <1>8, <2>1
<1>14. (Cardinality(jobs) = metrics.submissions + One(Holds({"submitted"})))'
  <2>1. Cardinality(jobs) = metrics.submissions + One(Holds({"submitted"}))
    BY <1>1, Zenon DEF CountsFollow
  <2>2. Cardinality(jobs') = Cardinality(jobs) + One(execution'[c].at = "submitted")
    OBVIOUS
  <2>q. QED BY <1>2, <1>9, <2>1, <2>2
<1>q. QED BY <1>10, <1>11, <1>12, <1>13, <1>14, Zenon DEF CountsFollow

\* Planner::Plan returns a plan, refuses or throws.
LEMMA PlannerReturnsNext ==
  ASSUME PlanningInv, NEW c \in Requesters, NEW outcome \in Outcomes, PlannerReturns(c, outcome)
  PROVE  PlanningInv'
<1>1. /\ execution[c].at = "planning" /\ holder' = holder /\ jobs' = jobs /\ thrown' = thrown
      /\ metrics' = metrics /\ outcome \in Results
  BY DEF PlannerReturns, Outcomes, Results
<1>2. holder = c /\ c # None /\ execution[c] \in Executions
  BY <1>1, StepOfHolder
<1>3. CASE outcome # "accepted"
  <2>1. Refused(c, outcome)
    BY <1>3 DEF PlannerReturns
  <2>2. /\ execution' \in [Requesters -> {NotPlanning} \cup Executions] /\ HolderExecutes'
        /\ \/ /\ execution'[c].at = "attempting" /\ execution'[c].planner = "fallback"
              /\ execution[c].planner = "primary"
           \/ execution'[c].at = "failing"
    BY <2>1, <1>1, RefusedMoves
  <2> QED BY <1>1, <1>2, <2>2, SMTT(30)
          DEF PlanningInv, PlanningTypeOK, CountsFollow, JobsFollow, Fields, Holds, HoldsWith, One,
              AfterPrimary, BeforeHandoff, OnlyAcceptedPlansAreSubmitted
<1>4. CASE outcome = "accepted" /\ execution[c].options.validatePlan
  <2> DEFINE s == [execution[c] EXCEPT !.at = "validating"]
  <2>1. Moves(c, s)
    BY <1>4 DEF PlannerReturns, At
  <2>2. /\ s \in Executions /\ s.at = "validating" /\ s.planner = execution[c].planner
        /\ s.options = execution[c].options
    BY <1>2 DEF Executions, Places
  <2> HIDE DEF s
  <2>3. /\ execution' \in [Requesters -> {NotPlanning} \cup Executions]
        /\ execution'[c] = s /\ HolderExecutes'
    BY <2>1, <2>2, <1>1, HolderMoves
  <2> QED BY <1>1, <1>2, <1>4, <2>2, <2>3, SMTT(30)
          DEF PlanningInv, PlanningTypeOK, CountsFollow, JobsFollow, Fields, Holds, HoldsWith, One,
              AfterPrimary, BeforeHandoff, OnlyAcceptedPlansAreSubmitted
<1>5. CASE outcome = "accepted" /\ ~execution[c].options.validatePlan
  <2>1. Accepted(c, outcome)
    BY <1>5 DEF PlannerReturns
  <2>2. /\ execution' \in [Requesters -> {NotPlanning} \cup Executions] /\ HolderExecutes'
        /\ execution'[c].result = outcome /\ execution'[c].planner = execution[c].planner
        /\ execution'[c].options = execution[c].options
        /\ execution'[c].at = IF execution[c].planner = "fallback" THEN "fellBack" ELSE "handing"
    BY <2>1, <1>1, AcceptedMoves
  <2>3. PlanningTypeOK'
    BY <1>1, <2>2 DEF PlanningInv, PlanningTypeOK
  <2>4. CountsFollow'
    <3>1. Cardinality(jobs) \in Nat /\ jobs' = jobs
      BY <1>1, <1>2, <2>2, FS_CardinalityType DEF PlanningInv, PlanningTypeOK
    <3>2. Cardinality(jobs') = Cardinality(jobs) + One(execution'[c].at = "submitted")
      BY <3>1, <1>1, <1>2, <2>2 DEF One
    <3>q. QED BY <1>1, <1>2, <2>2, <3>2, CountsKept DEF AfterPrimary
  <2>5. JobsFollow'
    BY <1>1, <1>2, <1>5, <2>2
       DEF PlanningInv, PlanningTypeOK, JobsFollow, Fields, Holds, BeforeHandoff
  <2>6. OnlyAcceptedPlansAreSubmitted'
    BY <1>1, <1>2, <1>5, <2>2 DEF PlanningInv, OnlyAcceptedPlansAreSubmitted
  <2> QED BY <1>1, <1>2, <1>5, <2>2, <2>3, <2>4, <2>5, <2>6, Zenon DEF PlanningInv
<1> QED BY <1>3, <1>4, <1>5

\* ValidatePlan accepts or refuses the plan, or leaves Execute by an exception.
LEMMA ValidateNext ==
  ASSUME PlanningInv, NEW c \in Requesters, NEW verdict \in {"valid", "invalid", "throws"},
         Validate(c, verdict)
  PROVE  PlanningInv'
<1>1. /\ execution[c].at = "validating" /\ jobs' = jobs /\ metrics' = metrics
      /\ verdict \in Results
  BY DEF Validate, Results
<1>2. holder = c /\ c # None /\ execution[c] \in Executions
  BY <1>1, StepOfHolder
<1>3. CASE verdict = "valid"
  <2>1. Accepted(c, verdict) /\ holder' = holder /\ thrown' = thrown
    BY <1>3 DEF Validate
  <2>2. /\ execution' \in [Requesters -> {NotPlanning} \cup Executions] /\ HolderExecutes'
        /\ execution'[c].result = verdict /\ execution'[c].planner = execution[c].planner
        /\ execution'[c].options = execution[c].options
        /\ execution'[c].at = IF execution[c].planner = "fallback" THEN "fellBack" ELSE "handing"
    BY <2>1, <1>1, AcceptedMoves
  <2>3. execution[c].options.validatePlan
    BY <1>1, <1>2 DEF PlanningInv, JobsFollow, Holds
  <2>4. PlanningTypeOK'
    BY <1>1, <2>1, <2>2 DEF PlanningInv, PlanningTypeOK
  <2>5. CountsFollow'
    <3>1. Cardinality(jobs) \in Nat /\ jobs' = jobs
      BY <1>1, <1>2, <2>1, <2>2, FS_CardinalityType DEF PlanningInv, PlanningTypeOK
    <3>2. Cardinality(jobs') = Cardinality(jobs) + One(execution'[c].at = "submitted")
      BY <3>1, <1>1, <1>2, <2>1, <2>2 DEF One
    <3>q. QED BY <1>1, <1>2, <2>1, <2>2, <3>2, CountsKept DEF AfterPrimary
  <2>6. JobsFollow'
    BY <1>1, <1>2, <1>3, <2>1, <2>2, <2>3
       DEF PlanningInv, PlanningTypeOK, JobsFollow, Fields, Holds, BeforeHandoff
  <2>7. OnlyAcceptedPlansAreSubmitted'
    BY <1>1, <1>2, <1>3, <2>1, <2>2, <2>3 DEF PlanningInv, OnlyAcceptedPlansAreSubmitted
  <2> QED BY <1>1, <1>2, <1>3, <2>1, <2>2, <2>3, <2>4, <2>5, <2>6, <2>7, Zenon DEF PlanningInv
<1>4. CASE verdict = "invalid"
  <2> DEFINE s == [execution[c] EXCEPT !.result = verdict, !.at = "invalid"]
  <2>1. Moves(c, s) /\ holder' = holder /\ thrown' = thrown
    BY <1>4 DEF Validate, With
  <2>2. s \in Executions /\ s.at = "invalid" /\ s.planner = execution[c].planner
    BY ZenonT(30), <1>1, <1>2 DEF Executions, Places
  <2> HIDE DEF s
  <2>3. /\ execution' \in [Requesters -> {NotPlanning} \cup Executions]
        /\ execution'[c] = s /\ HolderExecutes'
    BY <2>1, <2>2, <1>1, HolderMoves
  <2> QED BY <1>1, <1>2, <2>1, <2>2, <2>3, SMTT(30)
          DEF PlanningInv, PlanningTypeOK, CountsFollow, JobsFollow, Fields, Holds, HoldsWith, One,
              AfterPrimary, BeforeHandoff, OnlyAcceptedPlansAreSubmitted
<1>5. CASE verdict = "throws"
  <2>1. Return(c) /\ thrown' = thrown + 1
    BY <1>5 DEF Validate
  <2>2. /\ execution' \in [Requesters -> {NotPlanning} \cup Executions]
        /\ holder' = None /\ HolderExecutes'
    BY <2>1, <1>1, HolderReturns
  <2> QED BY <1>1, <1>2, <2>1, <2>2, SMTT(30)
          DEF PlanningInv, PlanningTypeOK, CountsFollow, JobsFollow, Fields, Holds, HoldsWith, One,
              OnlyAcceptedPlansAreSubmitted
<1> QED BY <1>3, <1>4, <1>5

\* A plan found invalid is counted, and the fallback planner may be tried.
LEMMA CountInvalidNext ==
  ASSUME PlanningInv, NEW c \in Requesters, CountInvalid(c)
  PROVE  PlanningInv'
<1>1. /\ execution[c].at = "invalid" /\ Count("validationFailures")
      /\ Refused(c, execution[c].result) /\ holder' = holder /\ jobs' = jobs
      /\ thrown' = thrown
  BY DEF CountInvalid
<1>2. holder = c /\ c # None /\ execution[c] \in Executions
  BY <1>1, StepOfHolder
<1>3. execution[c].result \in Results
  BY <1>2 DEF Executions
<1>4. /\ execution' \in [Requesters -> {NotPlanning} \cup Executions] /\ HolderExecutes'
      /\ \/ /\ execution'[c].at = "attempting" /\ execution'[c].planner = "fallback"
            /\ execution[c].planner = "primary"
         \/ execution'[c].at = "failing"
  BY <1>1, <1>3, RefusedMoves
<1>5. /\ metrics' \in [Fields -> Nat]
      /\ metrics'["validationFailures"] = metrics["validationFailures"] + 1
      /\ \A f \in Fields \ {"validationFailures"} : metrics'[f] = metrics[f]
  BY <1>1, Counted DEF Fields
<1>6. PlanningTypeOK'
  BY <1>1, <1>4, <1>5 DEF PlanningInv, PlanningTypeOK
<1>7. CountsFollow'
  BY <1>1, <1>2, <1>4, <1>5, SMTT(30)
     DEF PlanningInv, PlanningTypeOK, CountsFollow, Fields, Holds, HoldsWith, One, AfterPrimary
<1>8. JobsFollow'
  BY <1>1, <1>2, <1>4, <1>5
     DEF PlanningInv, PlanningTypeOK, JobsFollow, Fields, Holds, BeforeHandoff
<1>9. OnlyAcceptedPlansAreSubmitted'
  BY <1>1 DEF PlanningInv, OnlyAcceptedPlansAreSubmitted
<1> QED BY <1>4, <1>6, <1>7, <1>8, <1>9, Zenon DEF PlanningInv

\* The handoff: the job of this request is a new one.
LEMMA SubmitNext ==
  ASSUME PlanningInv, NEW c \in Requesters, NEW throws \in BOOLEAN, Submit(c, throws)
  PROVE  PlanningInv'
<1> DEFINE job == [request |-> metrics.requests, result |-> execution[c].result,
                   validated |-> execution[c].options.validatePlan]
           At2(place) == [execution[c] EXCEPT !.at = place]
<1>1. /\ execution[c].at = "handing" /\ metrics' = metrics /\ holder' = holder
      /\ thrown' = thrown
      /\ \/ \E place \in {"finishing", "unsubmitted"} : Moves(c, At2(place)) /\ jobs' = jobs
         \/ Moves(c, At2("submitted")) /\ jobs' = jobs \cup {job}
  BY DEF Submit, At
<1>2. holder = c /\ c # None /\ execution[c] \in Executions
  BY <1>1, StepOfHolder
<1>3. ASSUME NEW place \in Places, Moves(c, At2(place))
      PROVE  /\ execution' \in [Requesters -> {NotPlanning} \cup Executions] /\ HolderExecutes'
             /\ execution'[c].at = place /\ execution'[c].planner = execution[c].planner
             /\ execution'[c].options = execution[c].options
             /\ execution'[c].result = execution[c].result
  <2> DEFINE s == At2(place)
  <2>1. /\ s \in Executions /\ s.at = place /\ s.planner = execution[c].planner
        /\ s.options = execution[c].options /\ s.result = execution[c].result
    BY <1>2 DEF Executions
  <2>2. Moves(c, s)
    BY SMTT(30), <1>3
  <2> HIDE DEF s
  <2> QED BY <1>1, <2>1, <2>2, HolderMoves
<1> HIDE DEF At2
<1>4. CASE \E place \in {"finishing", "unsubmitted"} : Moves(c, At2(place)) /\ jobs' = jobs
  <2>1. PICK place \in {"finishing", "unsubmitted"} : Moves(c, At2(place)) /\ jobs' = jobs
    BY <1>4
  <2>2. place \in Places
    BY DEF Places
  <2>3. /\ execution' \in [Requesters -> {NotPlanning} \cup Executions] /\ HolderExecutes'
        /\ execution'[c].at = place /\ execution'[c].planner = execution[c].planner
    BY <2>1, <2>2, <1>3
  <2>4. PlanningTypeOK'
    BY <1>1, <2>1, <2>3 DEF PlanningInv, PlanningTypeOK
  <2>5. CountsFollow'
    <3>1. Cardinality(jobs) \in Nat /\ jobs' = jobs
      BY <1>1, <1>2, <2>1, <2>3, FS_CardinalityType DEF PlanningInv, PlanningTypeOK
    <3>2. Cardinality(jobs') = Cardinality(jobs) + One(execution'[c].at = "submitted")
      BY <3>1, <1>1, <1>2, <2>1, <2>3 DEF One
    <3>q. QED BY <1>1, <1>2, <2>1, <2>3, <3>2, CountsKept DEF AfterPrimary
  <2>6. JobsFollow'
    BY <1>1, <1>2, <2>1, <2>3
       DEF PlanningInv, PlanningTypeOK, JobsFollow, Fields, Holds, BeforeHandoff
  <2>7. OnlyAcceptedPlansAreSubmitted'
    BY <1>1, <1>2, <2>1, <2>3 DEF PlanningInv, OnlyAcceptedPlansAreSubmitted
  <2> QED BY <1>1, <1>2, <2>1, <2>3, <2>4, <2>5, <2>6, <2>7, Zenon DEF PlanningInv
<1>5. CASE Moves(c, At2("submitted")) /\ jobs' = jobs \cup {job}
  <2>1. /\ execution' \in [Requesters -> {NotPlanning} \cup Executions] /\ HolderExecutes'
        /\ execution'[c].at = "submitted" /\ execution'[c].planner = execution[c].planner
    BY <1>3, <1>5 DEF Places
  <2>2. /\ job.request = metrics.requests /\ job.result = execution[c].result
        /\ job.validated = execution[c].options.validatePlan
    OBVIOUS
  <2>3. job \notin jobs
    BY <1>1, <1>2, <2>2 DEF PlanningInv, PlanningTypeOK, JobsFollow, Holds, BeforeHandoff, Fields
  <2>4. execution[c].result = IF execution[c].options.validatePlan THEN "valid" ELSE "accepted"
    BY <1>1, <1>2 DEF PlanningInv, JobsFollow, Holds
  <2>5. job.request \in Nat
    BY <2>2 DEF PlanningInv, PlanningTypeOK, Fields
  <2> HIDE DEF job
  <2>6. /\ IsFiniteSet(jobs') /\ Cardinality(jobs') = Cardinality(jobs) + 1
        /\ Cardinality(jobs) \in Nat
    BY <1>5, <2>3, FS_AddElement, FS_CardinalityType DEF PlanningInv, PlanningTypeOK
  <2>7. PlanningTypeOK'
    BY <1>1, <1>5, <2>1, <2>5, <2>6 DEF PlanningInv, PlanningTypeOK
  <2>8. CountsFollow'
    <3>1. Cardinality(jobs') = Cardinality(jobs) + One(execution'[c].at = "submitted")
      BY <2>1, <2>6 DEF One
    <3>q. QED BY <1>1, <1>2, <2>1, <3>1, CountsKept DEF AfterPrimary
  <2>9. JobsFollow'
    BY <1>1, <1>2, <1>5, <2>1, <2>2
       DEF PlanningInv, PlanningTypeOK, JobsFollow, Fields, Holds, BeforeHandoff
  <2>10. OnlyAcceptedPlansAreSubmitted'
    BY <1>5, <2>2, <2>4 DEF PlanningInv, OnlyAcceptedPlansAreSubmitted
  <2> QED BY <2>1, <2>7, <2>8, <2>9, <2>10 DEF PlanningInv
<1> QED BY <1>1, <1>4, <1>5

-----------------------------------------------------------------------------
\* The inductive invariant holds initially, ...
LEMMA PlanningInvInit == PlanningInit => PlanningInv
<1> SUFFICES ASSUME PlanningInit PROVE PlanningInv
  OBVIOUS
<1>1. metrics \in [Fields -> Nat] /\ \A f \in Fields : metrics[f] = 0
  BY DEF PlanningInit, NewMetrics
<1>2. IsFiniteSet(jobs) /\ Cardinality(jobs) = 0
  BY FS_EmptySet DEF PlanningInit
<1> QED BY <1>1, <1>2, PlanningAssumption
        DEF PlanningInit, PlanningInv, PlanningTypeOK, HolderExecutes, CountsFollow, JobsFollow,
            OnlyAcceptedPlansAreSubmitted, Holds, HoldsWith, One, NotPlanning, Fields

\* ... and every step of Execute keeps it.
LEMMA PlanningInvNext == PlanningInv /\ [PlanningNext]_planningVars => PlanningInv'
<1> SUFFICES ASSUME PlanningInv, [PlanningNext]_planningVars PROVE PlanningInv'
  BY SMTT(30)
<1>1. CASE UNCHANGED planningVars
  BY Zenon, <1>1 DEF planningVars, PlanningInv, PlanningTypeOK, HolderExecutes, CountsFollow, JobsFollow,
              OnlyAcceptedPlansAreSubmitted, Holds, HoldsWith
<1>2. ASSUME NEW c \in Requesters, NEW valid \in BOOLEAN, NEW options \in Options,
             Execute(c, valid, options)
      PROVE  PlanningInv'
  BY <1>2, ExecuteNext
<1>3. ASSUME NEW c \in Requesters, PlanningStep(c)
      PROVE  PlanningInv'
  BY <1>3, IncrementRejectedNext, AttemptNext, PlannerReturnsNext, ValidateNext, CountInvalidNext,
     CountFallbackNext, IncrementFailureNext, SubmitNext, CountSubmissionNext,
     CountSubmissionFailureNext, FinishNext
     DEF PlanningStep
<1> QED BY <1>1, <1>2, <1>3 DEF PlanningNext

\* The pipeline's inductive invariant always holds.
LEMMA PlanningInvariance == PlanningSpec => []PlanningInv
BY PlanningInvInit, PlanningInvNext, PTL DEF PlanningSpec

-----------------------------------------------------------------------------
\* The callers in Execute are the holder of the mutex, or nobody.
LEMMA RunningIsTheHolder ==
  ASSUME PlanningInv
  PROVE  Running = One(holder # None)
<1>1. CASE holder = None
  <2>1. {c \in Requesters : execution[c].at # "idle"} = {}
    BY <1>1, PlanningAssumption DEF PlanningInv, HolderExecutes
  <2> QED BY <1>1, <2>1, FS_EmptySet DEF Running, One
<1>2. CASE holder # None
  <2>1. {c \in Requesters : execution[c].at # "idle"} = {holder}
    BY <1>2 DEF PlanningInv, PlanningTypeOK, HolderExecutes
  <2> QED BY <1>2, <2>1, FS_Singleton DEF Running, One
<1> QED BY <1>1, <1>2

\* A caller at a place of Execute is the holder.
LEMMA InPlaceIsTheHolder ==
  ASSUME PlanningInv, NEW place \in Places
  PROVE  InPlace(place) = One(Holds({place}))
<1>0. place # "idle"
  BY DEF Places
<1>1. CASE Holds({place})
  <2>1. {c \in Requesters : execution[c].at = place} = {holder}
    BY <1>0, <1>1 DEF PlanningInv, PlanningTypeOK, HolderExecutes, Holds
  <2> QED BY Zenon, <1>1, <2>1, FS_Singleton DEF InPlace, One
<1>2. CASE ~Holds({place})
  <2>1. {c \in Requesters : execution[c].at = place} = {}
    BY <1>0, <1>2, PlanningAssumption DEF PlanningInv, PlanningTypeOK, HolderExecutes, Holds
  <2> QED BY Zenon, <1>2, <2>1, FS_EmptySet DEF InPlace, One
<1> QED BY <1>1, <1>2

\* execution_mutex_ serializes Execute: no two callers are in their planners at once.
THEOREM PlanningSerialized == PlanningSpec => []PlanningIsSerialized
<1>1. PlanningInv => PlanningIsSerialized
  BY RunningIsTheHolder DEF PlanningIsSerialized, One
<1> QED BY <1>1, PlanningInvariance, PTL

\* However requests end (rejected, planned, failed, or by an exception of ValidatePlan),
\* the requests counted by Execute are those that are over and those still running.
THEOREM PlanningAccounts == PlanningSpec => []RequestsAreAccountedFor
<1>1. PlanningInv => RequestsAreAccountedFor
  BY RunningIsTheHolder DEF PlanningInv, CountsFollow, RequestsAreAccountedFor
<1> QED BY <1>1, PlanningInvariance, PTL

\* What GetMetrics returns between any two steps of Execute is consistent: attempts,
\* fallbacks and validation failures, and the submissions with the runtime's jobs.
THEOREM PlanningMetrics == PlanningSpec => []MetricsAreConsistent
<1>1. PlanningInv => MetricsAreConsistent
  <2> SUFFICES ASSUME PlanningInv PROVE MetricsAreConsistent
    OBVIOUS
  <2>1. /\ InPlace("submitted") = One(Holds({"submitted"}))
        /\ InPlace("finishing") = One(Holds({"finishing"}))
        /\ InPlace("failing") = One(Holds({"failing"}))
    BY InPlaceIsTheHolder DEF Places
  <2> QED BY <2>1
          DEF PlanningInv, PlanningTypeOK, CountsFollow, MetricsAreConsistent, Fields, One
<1> QED BY <1>1, PlanningInvariance, PTL

\* Only a plan that its planner produced, and that ValidatePlan accepted where the
\* options ask for it, is handed to the behavior tree runtime.
THEOREM PlanningSubmits == PlanningSpec => []OnlyAcceptedPlansAreSubmitted
BY PlanningInvariance, PTL DEF PlanningInv

\* Execute keeps its four promises together, for any callers, options and outcomes of the
\* planners.
THEOREM PlanningSound == PlanningSpec => []PlanningIsSound
<1>1. PlanningIsSerialized /\ RequestsAreAccountedFor /\ MetricsAreConsistent
        /\ OnlyAcceptedPlansAreSubmitted => PlanningIsSound
  BY Zenon DEF PlanningIsSound
<1> QED BY <1>1, PlanningSerialized, PlanningAccounts, PlanningMetrics, PlanningSubmits, PTL

-----------------------------------------------------------------------------
(* Versions                                                                *)

Versions == [major : Nat, minor : Nat, patch : Nat]

\* The comparison of SemanticVersion is a total order: it decides between any two
\* versions, only equal ones compare equal, it is antisymmetric and transitive.
THEOREM CompareIsATotalOrder ==
  ASSUME NEW a \in Versions, NEW b \in Versions, NEW c \in Versions
  PROVE  /\ Compare(a, b) \in {-1, 0, 1}
         /\ Compare(a, b) = 0 <=> a = b
         /\ Compare(b, a) = -Compare(a, b)
         /\ Compare(a, b) <= 0 /\ Compare(b, c) <= 0 => Compare(a, c) <= 0
<1>1. \A v \in Versions : v.major \in Nat /\ v.minor \in Nat /\ v.patch \in Nat
  BY DEF Versions
<1>2. a = b <=> a.major = b.major /\ a.minor = b.minor /\ a.patch = b.patch
  BY DEF Versions
<1>3. Compare(a, b) \in {-1, 0, 1}
  BY DEF Compare
<1>4. Compare(a, b) = 0 <=> a = b
  BY <1>1, <1>2 DEF Compare
<1>5. Compare(b, a) = -Compare(a, b)
  BY <1>1 DEF Compare
<1>6. Compare(a, b) <= 0 /\ Compare(b, c) <= 0 => Compare(a, c) <= 0
  BY <1>1 DEF Compare
<1> QED BY <1>3, <1>4, <1>5, <1>6

\* The framework versions a plugin accepts are an interval: a version between two
\* accepted ones is accepted, and only a range that IsValid accepts any version.
THEOREM CompatibilityIsAnInterval ==
  ASSUME NEW range \in [minimum : Versions, maximum : Versions],
         NEW u \in Versions, NEW v \in Versions, NEW w \in Versions,
         IsCompatibleWith(range, u)
  PROVE  /\ IsValid(range)
         /\ IsCompatibleWith(range, w) /\ Compare(u, v) <= 0 /\ Compare(v, w) <= 0 =>
              IsCompatibleWith(range, v)
<1>1. range.minimum \in Versions /\ range.maximum \in Versions
  OBVIOUS
<1>2. IsValid(range)
  BY <1>1, CompareIsATotalOrder DEF IsValid, IsCompatibleWith
<1>3. ASSUME IsCompatibleWith(range, w), Compare(u, v) <= 0, Compare(v, w) <= 0
      PROVE  IsCompatibleWith(range, v)
  <2>1. Compare(range.minimum, v) <= 0
    BY <1>1, <1>3, CompareIsATotalOrder DEF IsCompatibleWith
  <2>2. Compare(v, range.maximum) <= 0
    BY <1>1, <1>3, CompareIsATotalOrder DEF IsCompatibleWith
  <2> QED BY <2>1, <2>2 DEF IsCompatibleWith
<1> QED BY <1>2, <1>3

-----------------------------------------------------------------------------
(* The inductive invariant: what is counted, by whom it is held or worked   *)
(* on, and that factory and registry know the same plugins.                *)

Counting == {"creating", "created", "releasing", "shuttingDown", "shutDown"}
FactoryPlaces == Counting \cup {"markingFailed", "markingShutdown"}

FactoryTypeOK ==
  /\ DOMAIN factories \subseteq Plugins
  /\ \A id \in DOMAIN factories : factories[id] \in Nat
  /\ held \in [Plugins -> Nat]
  /\ call \in [Callers -> {Idle} \cup [at : FactoryPlaces, id : Plugins]]

FactoryInv ==
  /\ FactoryTypeOK /\ RegistryAgrees /\ InstancesAreCounted /\ OnlyCompatiblePlugins

Counts(state, id) == state.at \in Counting /\ state.id = id

\* What a step of one caller does to the number of calls that hold an instance.
LEMMA CallMoves ==
  ASSUME FactoryInv, NEW c \in Callers, NEW s, call' = [call EXCEPT ![c] = s],
         NEW id \in Plugins
  PROVE  /\ In(id, Counting) \in Nat /\ In(id, Counting)' \in Nat
         /\ In(id, Counting)' = In(id, Counting) - One(Counts(call[c], id)) + One(Counts(s, id))
<1> DEFINE S == {d \in Callers : call[d].at \in Counting /\ call[d].id = id}
           T == {d \in Callers : call'[d].at \in Counting /\ call'[d].id = id}
           R == S \ {c}
<1>1. IsFiniteSet(S) /\ IsFiniteSet(T) /\ IsFiniteSet(R)
  BY FiniteCallers, FS_Subset
<1>2. Cardinality(S) \in Nat /\ Cardinality(T) \in Nat /\ Cardinality(R) \in Nat
  BY <1>1, FS_CardinalityType
<1>3. \A d \in Callers \ {c} : call'[d] = call[d]
  BY DEF FactoryInv, FactoryTypeOK
<1>4. call'[c] = s
  BY DEF FactoryInv, FactoryTypeOK
<1> HIDE DEF S, T, R
<1>5. c \notin R => Cardinality(R \cup {c}) = Cardinality(R) + 1
  BY <1>1, FS_AddElement, Zenon
<1>6. Cardinality(S) = Cardinality(R) + One(Counts(call[c], id))
  <2>1. CASE Counts(call[c], id)
    <3>1. S = R \cup {c} /\ c \notin R
      BY <2>1 DEF Counts, S, R
    <3> QED BY <2>1, <3>1, <1>5 DEF One
  <2>2. CASE ~Counts(call[c], id)
    <3>1. S = R
      BY <2>2 DEF Counts, S, R
    <3> QED BY <2>2, <3>1, <1>2 DEF One
  <2> QED BY <2>1, <2>2
<1>7. Cardinality(T) = Cardinality(R) + One(Counts(s, id))
  <2>1. CASE Counts(s, id)
    <3>1. T = R \cup {c} /\ c \notin R
      BY <2>1, <1>3, <1>4 DEF Counts, S, T, R
    <3> QED BY <2>1, <3>1, <1>5 DEF One
  <2>2. CASE ~Counts(s, id)
    <3>1. T = R
      BY <2>2, <1>3, <1>4 DEF Counts, S, T, R
    <3> QED BY <2>2, <3>1, <1>2 DEF One
  <2> QED BY <2>1, <2>2
<1>8. In(id, Counting) = Cardinality(S) /\ In(id, Counting)' = Cardinality(T)
  BY DEF In, S, T
<1> QED BY <1>2, <1>6, <1>7, <1>8 DEF One

\* What the count says about a call that holds an instance of its plugin.
LEMMA CountedMeansKnown ==
  ASSUME FactoryInv, NEW c \in Callers, call[c].at \in Counting
  PROVE  /\ call[c].id \in Plugins /\ call[c].id \in DOMAIN factories
         /\ factories[call[c].id] > 0 /\ factories[call[c].id] \in Nat
<1> DEFINE id == call[c].id
           S == {d \in Callers : call[d].at \in Counting /\ call[d].id = id}
<1>1. id \in Plugins
  BY DEF FactoryInv, FactoryTypeOK, Idle, Counting
<1>2. IsFiniteSet(S) /\ c \in S
  BY FiniteCallers, FS_Subset
<1>3. Cardinality(S) \in Nat /\ Cardinality(S) # 0
  BY <1>2, FS_CardinalityType, FS_EmptySet
<1>4. In(id, Counting) = Cardinality(S)
  BY DEF In
<1>5. held[id] \in Nat
  BY <1>1 DEF FactoryInv, FactoryTypeOK
<1>6. Existing(id) = held[id] + In(id, Counting)
  BY DEF Existing, Counting
<1>7. Existing(id) = IF id \in DOMAIN factories THEN factories[id] ELSE 0
  BY <1>1 DEF FactoryInv, InstancesAreCounted
<1> HIDE DEF S
<1>8. id \in DOMAIN factories => factories[id] \in Nat
  BY DEF FactoryInv, FactoryTypeOK
<1> QED BY <1>1, <1>3, <1>4, <1>5, <1>6, <1>7, <1>8

\* Release takes one instance of a counted plugin off.
LEMMA Released ==
  ASSUME FactoryInv, NEW id \in Plugins, id \in DOMAIN factories, factories[id] > 0, Release(id)
  PROVE  /\ DOMAIN factories' = DOMAIN factories
         /\ factories'[id] = factories[id] - 1
         /\ \A x \in DOMAIN factories \ {id} : factories'[x] = factories[x]
BY DEF Release

\* SetLifecycleState changes no set of plugins.
LEMMA LifecycleSet ==
  ASSUME NEW id, NEW state, SetLifecycleState(id, state)
  PROVE  DOMAIN registry' = DOMAIN registry
BY DEF SetLifecycleState

\* A step of a caller that keeps what is registered: it suffices that the instances it
\* gives up or takes balance what it does to the count and to the host's instances.
LEMMA CallNext ==
  ASSUME FactoryInv, NEW c \in Callers, NEW s \in {Idle} \cup [at : FactoryPlaces, id : Plugins],
         call' = [call EXCEPT ![c] = s],
         DOMAIN factories' = DOMAIN factories, DOMAIN registry' = DOMAIN registry,
         \A id \in DOMAIN factories : factories'[id] \in Nat,
         held' \in [Plugins -> Nat],
         \A id \in Plugins :
           held'[id] - held[id] + One(Counts(s, id)) - One(Counts(call[c], id)) =
             IF id \in DOMAIN factories THEN factories'[id] - factories[id] ELSE 0
  PROVE  FactoryInv'
<1>1. FactoryTypeOK'
  BY DEF FactoryInv, FactoryTypeOK
<1>2. RegistryAgrees' /\ OnlyCompatiblePlugins'
  BY DEF FactoryInv, RegistryAgrees, OnlyCompatiblePlugins
<1>3. ASSUME NEW id \in Plugins
      PROVE  Existing(id)' = IF id \in DOMAIN factories' THEN factories'[id] ELSE 0
  <2>1. /\ In(id, Counting) \in Nat /\ In(id, Counting)' \in Nat
        /\ In(id, Counting)' = In(id, Counting) - One(Counts(call[c], id)) + One(Counts(s, id))
    BY CallMoves, Zenon
  <2>2. Existing(id) = held[id] + In(id, Counting) /\ Existing(id)' = held'[id] + In(id, Counting)'
    BY DEF Existing, Counting
  <2>3. Existing(id) = IF id \in DOMAIN factories THEN factories[id] ELSE 0
    BY DEF FactoryInv, InstancesAreCounted
  <2>4. held[id] \in Nat /\ held'[id] \in Nat
    BY DEF FactoryInv, FactoryTypeOK
  <2>5. One(Counts(call[c], id)) \in Nat /\ One(Counts(s, id)) \in Nat
    BY DEF One
  <2>6. id \in DOMAIN factories => factories[id] \in Nat /\ factories'[id] \in Nat
    BY DEF FactoryInv, FactoryTypeOK
  <2>7. held'[id] - held[id] + One(Counts(s, id)) - One(Counts(call[c], id)) =
          IF id \in DOMAIN factories THEN factories'[id] - factories[id] ELSE 0
    OBVIOUS
  <2> QED BY <2>1, <2>2, <2>3, <2>4, <2>5, <2>6, <2>7
<1>4. InstancesAreCounted'
  BY <1>3 DEF InstancesAreCounted
<1> QED BY <1>1, <1>2, <1>4 DEF FactoryInv

-----------------------------------------------------------------------------
\* RegisterPlugin adds a compatible plugin to factory and registry.
LEMMA RegisterNext ==
  ASSUME FactoryInv, NEW id \in Plugins, RegisterPlugin(id)
  PROVE  FactoryInv'
<1>1. /\ id \notin DOMAIN factories /\ id \notin DOMAIN registry /\ held' = held /\ call' = call
      /\ IsCompatibleWith(Compatibility[id], ApiVersion)
      /\ factories' = Put(factories, id, 0) /\ registry' = Put(registry, id, "Registered")
  BY DEF RegisterPlugin, RegistryAdds
<1>2. /\ DOMAIN factories' = DOMAIN factories \cup {id}
      /\ DOMAIN registry' = DOMAIN registry \cup {id}
      /\ factories'[id] = 0 /\ \A x \in DOMAIN factories : factories'[x] = factories[x]
  BY <1>1 DEF Put
<1>3. FactoryTypeOK' /\ RegistryAgrees' /\ OnlyCompatiblePlugins'
  BY <1>1, <1>2 DEF FactoryInv, FactoryTypeOK, RegistryAgrees, OnlyCompatiblePlugins
<1>4. ASSUME NEW x \in Plugins
      PROVE  Existing(x)' = IF x \in DOMAIN factories' THEN factories'[x] ELSE 0
  <2>1. Existing(x)' = Existing(x)
    BY <1>1 DEF Existing, In
  <2>2. Existing(x) = IF x \in DOMAIN factories THEN factories[x] ELSE 0
    BY DEF FactoryInv, InstancesAreCounted
  <2> QED BY <2>1, <2>2, <1>1, <1>2
<1> QED BY <1>3, <1>4 DEF FactoryInv, InstancesAreCounted

\* UnregisterPlugin erases from both a plugin that has no instance.
LEMMA UnregisterNext ==
  ASSUME FactoryInv, NEW id \in Plugins, UnregisterPlugin(id)
  PROVE  FactoryInv'
<1>1. /\ id \in DOMAIN factories /\ factories[id] = 0 /\ held' = held /\ call' = call
      /\ factories' = Drop(factories, id) /\ registry' = Drop(registry, id)
  BY DEF UnregisterPlugin, RegistryRemoves
<1>2. /\ DOMAIN factories' = DOMAIN factories \ {id}
      /\ DOMAIN registry' = DOMAIN registry \ {id}
      /\ \A x \in DOMAIN factories \ {id} : factories'[x] = factories[x]
  BY <1>1 DEF Drop
<1>3. FactoryTypeOK' /\ RegistryAgrees' /\ OnlyCompatiblePlugins'
  BY <1>1, <1>2 DEF FactoryInv, FactoryTypeOK, RegistryAgrees, OnlyCompatiblePlugins
<1>4. ASSUME NEW x \in Plugins
      PROVE  Existing(x)' = IF x \in DOMAIN factories' THEN factories'[x] ELSE 0
  <2>1. Existing(x)' = Existing(x)
    BY <1>1 DEF Existing, In
  <2>2. Existing(x) = IF x \in DOMAIN factories THEN factories[x] ELSE 0
    BY DEF FactoryInv, InstancesAreCounted
  <2> QED BY <2>1, <2>2, <1>1, <1>2
<1> QED BY <1>3, <1>4 DEF FactoryInv, InstancesAreCounted

\* CreatePlugin counts the instance before it is created.
LEMMA CreateNext ==
  ASSUME FactoryInv, NEW c \in Callers, NEW id \in Plugins, CreatePlugin(c, id)
  PROVE  FactoryInv'
<1> DEFINE s == [at |-> "creating", id |-> id]
<1>1. /\ call[c].at = "idle" /\ id \in DOMAIN factories
      /\ factories' = [factories EXCEPT ![id] = @ + 1]
      /\ call' = [call EXCEPT ![c] = s] /\ registry' = registry /\ held' = held
  BY DEF CreatePlugin, Goes
<1>2. s \in [at : FactoryPlaces, id : Plugins]
  BY DEF FactoryPlaces, Counting
<1>3. /\ DOMAIN factories' = DOMAIN factories /\ factories'[id] = factories[id] + 1
      /\ \A x \in DOMAIN factories \ {id} : factories'[x] = factories[x]
      /\ \A x \in DOMAIN factories : factories[x] \in Nat
  BY <1>1 DEF FactoryInv, FactoryTypeOK
<1>4. \A x \in Plugins : One(Counts(call[c], x)) = 0 /\ One(Counts(s, x)) = One(x = id)
  BY <1>1 DEF One, Counts, Counting
<1>5. held \in [Plugins -> Nat]
  BY DEF FactoryInv, FactoryTypeOK
<1>6. \A x \in Plugins :
        held'[x] - held[x] + One(Counts(s, x)) - One(Counts(call[c], x)) =
          IF x \in DOMAIN factories THEN factories'[x] - factories[x] ELSE 0
  BY <1>1, <1>3, <1>4, <1>5 DEF One
<1>7. \A x \in DOMAIN factories : factories'[x] \in Nat
  BY <1>3
<1>8. call' = [call EXCEPT ![c] = s] /\ DOMAIN registry' = DOMAIN registry /\ held' = held
  BY <1>1
<1> HIDE DEF s
<1> QED BY <1>2, <1>3, <1>5, <1>6, <1>7, <1>8, CallNext, Zenon

\* DestroyPlugin keeps the instance counted until it is shut down.
LEMMA DestroyNext ==
  ASSUME FactoryInv, NEW c \in Callers, NEW id \in Plugins, DestroyPlugin(c, id)
  PROVE  FactoryInv'
<1> DEFINE s == [at |-> "shuttingDown", id |-> id]
<1>1. /\ call[c].at = "idle" /\ id \in DOMAIN factories /\ held[id] > 0
      /\ held' = [held EXCEPT ![id] = @ - 1]
      /\ call' = [call EXCEPT ![c] = s] /\ registry' = registry /\ factories' = factories
  BY DEF DestroyPlugin, Goes
<1>2. s \in [at : FactoryPlaces, id : Plugins]
  BY DEF FactoryPlaces, Counting
<1>3. \A x \in DOMAIN factories : factories[x] \in Nat
  BY DEF FactoryInv, FactoryTypeOK
<1>4. \A x \in Plugins : One(Counts(call[c], x)) = 0 /\ One(Counts(s, x)) = One(x = id)
  BY <1>1 DEF One, Counts, Counting
<1>5. held \in [Plugins -> Nat] /\ held' \in [Plugins -> Nat]
  BY <1>1 DEF FactoryInv, FactoryTypeOK
<1>6. \A x \in Plugins :
        held'[x] - held[x] + One(Counts(s, x)) - One(Counts(call[c], x)) =
          IF x \in DOMAIN factories THEN factories'[x] - factories[x] ELSE 0
  BY <1>1, <1>3, <1>4, <1>5 DEF One
<1> HIDE DEF s
<1> QED BY <1>1, <1>2, <1>3, <1>5, <1>6, CallNext, Zenon

\* The instance of a failed creation is counted out.
LEMMA ReleaseFailedNext ==
  ASSUME FactoryInv, NEW c \in Callers, ReleaseFailed(c)
  PROVE  FactoryInv'
<1> DEFINE id == call[c].id
           s == [at |-> "markingFailed", id |-> id]
<1>1. /\ call[c].at = "releasing" /\ Release(id) /\ registry' = registry
      /\ call' = [call EXCEPT ![c] = s] /\ held' = held
  BY DEF ReleaseFailed, Goes
<1>2. /\ id \in Plugins /\ id \in DOMAIN factories /\ factories[id] > 0 /\ factories[id] \in Nat
  BY <1>1, CountedMeansKnown DEF Counting
<1>3. /\ DOMAIN factories' = DOMAIN factories /\ factories'[id] = factories[id] - 1
      /\ \A x \in DOMAIN factories \ {id} : factories'[x] = factories[x]
  BY <1>1, <1>2, Released
<1>4. \A x \in DOMAIN factories : factories[x] \in Nat /\ factories'[x] \in Nat
  BY <1>2, <1>3 DEF FactoryInv, FactoryTypeOK
<1>5. s \in [at : FactoryPlaces, id : Plugins]
  BY <1>2 DEF FactoryPlaces, Counting
<1>6. \A x \in Plugins : One(Counts(call[c], x)) = One(x = id) /\ One(Counts(s, x)) = 0
  BY <1>1 DEF One, Counts, Counting
<1>7. held \in [Plugins -> Nat]
  BY DEF FactoryInv, FactoryTypeOK
<1>8. \A x \in Plugins :
        held'[x] - held[x] + One(Counts(s, x)) - One(Counts(call[c], x)) =
          IF x \in DOMAIN factories THEN factories'[x] - factories[x] ELSE 0
  BY <1>1, <1>2, <1>3, <1>4, <1>6, <1>7 DEF One
<1> HIDE DEF s, id
<1> QED BY <1>1, <1>3, <1>4, <1>5, <1>7, <1>8, CallNext, Zenon

\* The instance that was shut down is counted out.
LEMMA ReleaseDestroyedNext ==
  ASSUME FactoryInv, NEW c \in Callers, ReleaseDestroyed(c)
  PROVE  FactoryInv'
<1> DEFINE id == call[c].id
           s == [at |-> "markingShutdown", id |-> id]
<1>1. /\ call[c].at = "shutDown" /\ Release(id) /\ registry' = registry
      /\ call' = [call EXCEPT ![c] = s] /\ held' = held
  BY DEF ReleaseDestroyed, Goes
<1>2. /\ id \in Plugins /\ id \in DOMAIN factories /\ factories[id] > 0 /\ factories[id] \in Nat
  BY <1>1, CountedMeansKnown DEF Counting
<1>3. /\ DOMAIN factories' = DOMAIN factories /\ factories'[id] = factories[id] - 1
      /\ \A x \in DOMAIN factories \ {id} : factories'[x] = factories[x]
  BY <1>1, <1>2, Released
<1>4. \A x \in DOMAIN factories : factories[x] \in Nat /\ factories'[x] \in Nat
  BY <1>2, <1>3 DEF FactoryInv, FactoryTypeOK
<1>5. s \in [at : FactoryPlaces, id : Plugins]
  BY <1>2 DEF FactoryPlaces, Counting
<1>6. \A x \in Plugins : One(Counts(call[c], x)) = One(x = id) /\ One(Counts(s, x)) = 0
  BY <1>1 DEF One, Counts, Counting
<1>7. held \in [Plugins -> Nat]
  BY DEF FactoryInv, FactoryTypeOK
<1>8. \A x \in Plugins :
        held'[x] - held[x] + One(Counts(s, x)) - One(Counts(call[c], x)) =
          IF x \in DOMAIN factories THEN factories'[x] - factories[x] ELSE 0
  BY <1>1, <1>2, <1>3, <1>4, <1>6, <1>7 DEF One
<1> HIDE DEF s, id
<1> QED BY <1>1, <1>3, <1>4, <1>5, <1>7, <1>8, CallNext, Zenon

\* The registry shows the failed creation, ...
LEMMA MarkFailedNext ==
  ASSUME FactoryInv, NEW c \in Callers, MarkFailed(c)
  PROVE  FactoryInv'
<1> DEFINE id == call[c].id
           s == Idle
<1>1. /\ call[c].at = "markingFailed" /\ factories' = factories /\ SetLifecycleState(id, "Failed")
      /\ call' = [call EXCEPT ![c] = s] /\ held' = held
  BY DEF MarkFailed, Returns
<1>2. DOMAIN registry' = DOMAIN registry
  BY <1>1, LifecycleSet
<1>3. \A x \in DOMAIN factories : factories[x] \in Nat
  BY DEF FactoryInv, FactoryTypeOK
<1>4. \A x \in Plugins : One(Counts(call[c], x)) = 0 /\ One(Counts(s, x)) = 0
  BY <1>1 DEF One, Counts, Counting, Idle
<1>5. held \in [Plugins -> Nat]
  BY DEF FactoryInv, FactoryTypeOK
<1>6. \A x \in Plugins :
        held'[x] - held[x] + One(Counts(s, x)) - One(Counts(call[c], x)) =
          IF x \in DOMAIN factories THEN factories'[x] - factories[x] ELSE 0
  BY <1>1, <1>3, <1>4, <1>5
<1> HIDE DEF id
<1> QED BY <1>1, <1>2, <1>3, <1>5, <1>6, CallNext, Zenon

\* ... or the shutdown; both when the instance is no longer counted.
LEMMA MarkShutdownNext ==
  ASSUME FactoryInv, NEW c \in Callers, MarkShutdown(c)
  PROVE  FactoryInv'
<1> DEFINE id == call[c].id
           s == Idle
<1>1. /\ call[c].at = "markingShutdown" /\ factories' = factories /\ SetLifecycleState(id, "Shutdown")
      /\ call' = [call EXCEPT ![c] = s] /\ held' = held
  BY DEF MarkShutdown, Returns
<1>2. DOMAIN registry' = DOMAIN registry
  BY <1>1, LifecycleSet
<1>3. \A x \in DOMAIN factories : factories[x] \in Nat
  BY DEF FactoryInv, FactoryTypeOK
<1>4. \A x \in Plugins : One(Counts(call[c], x)) = 0 /\ One(Counts(s, x)) = 0
  BY <1>1 DEF One, Counts, Counting, Idle
<1>5. held \in [Plugins -> Nat]
  BY DEF FactoryInv, FactoryTypeOK
<1>6. \A x \in Plugins :
        held'[x] - held[x] + One(Counts(s, x)) - One(Counts(call[c], x)) =
          IF x \in DOMAIN factories THEN factories'[x] - factories[x] ELSE 0
  BY <1>1, <1>3, <1>4, <1>5
<1> HIDE DEF id
<1> QED BY <1>1, <1>2, <1>3, <1>5, <1>6, CallNext, Zenon

\* The creator's instance is counted whether it works or not.
LEMMA CreatorReturnsNext ==
  ASSUME FactoryInv, NEW c \in Callers, NEW ok \in BOOLEAN, CreatorReturns(c, ok)
  PROVE  FactoryInv'
<1> DEFINE id == call[c].id
           place == IF ok THEN "created" ELSE "releasing"
           s == [at |-> place, id |-> id]
<1>1. /\ call[c].at = "creating" /\ factories' = factories /\ registry' = registry
      /\ call' = [call EXCEPT ![c] = s] /\ held' = held
  BY DEF CreatorReturns, Goes
<1>2. id \in Plugins /\ place \in Counting
  BY <1>1, CountedMeansKnown DEF Counting
<1>3. \A x \in DOMAIN factories : factories[x] \in Nat
  BY DEF FactoryInv, FactoryTypeOK
<1>4. s \in [at : FactoryPlaces, id : Plugins]
  BY <1>2 DEF FactoryPlaces
<1>5. \A x \in Plugins : One(Counts(call[c], x)) = One(x = id) /\ One(Counts(s, x)) = One(x = id)
  BY <1>1, <1>2 DEF One, Counts, Counting
<1>6. held \in [Plugins -> Nat]
  BY DEF FactoryInv, FactoryTypeOK
<1>7. \A x \in Plugins :
        held'[x] - held[x] + One(Counts(s, x)) - One(Counts(call[c], x)) =
          IF x \in DOMAIN factories THEN factories'[x] - factories[x] ELSE 0
  BY <1>1, <1>3, <1>5, <1>6 DEF One
<1> HIDE DEF s, id
<1> QED BY <1>1, <1>3, <1>4, <1>6, <1>7, CallNext, Zenon

\* A call gives its instance to the host and returns.
LEMMA HandsOver ==
  ASSUME FactoryInv, NEW c \in Callers, call[c].at \in Counting, Returns(c),
         held' = [held EXCEPT ![call[c].id] = @ + 1], factories' = factories,
         DOMAIN registry' = DOMAIN registry
  PROVE  FactoryInv'
<1> DEFINE id == call[c].id
<1>1. call' = [call EXCEPT ![c] = Idle]
  BY DEF Returns
<1>2. id \in Plugins /\ id \in DOMAIN factories
  BY CountedMeansKnown
<1>3. \A x \in DOMAIN factories : factories[x] \in Nat
  BY DEF FactoryInv, FactoryTypeOK
<1>4. \A x \in Plugins : One(Counts(call[c], x)) = One(x = id) /\ One(Counts(Idle, x)) = 0
  BY DEF One, Counts, Counting, Idle
<1>5. held \in [Plugins -> Nat] /\ held' \in [Plugins -> Nat]
  BY <1>2 DEF FactoryInv, FactoryTypeOK
<1>6. \A x \in Plugins :
        held'[x] - held[x] + One(Counts(Idle, x)) - One(Counts(call[c], x)) =
          IF x \in DOMAIN factories THEN factories'[x] - factories[x] ELSE 0
  BY <1>2, <1>3, <1>4, <1>5 DEF One
<1> QED BY <1>1, <1>3, <1>5, <1>6, CallNext, Zenon

\* A created instance finds its plugin registered still, for its count kept
\* UnregisterPlugin away.
LEMMA MarkLoadedNext ==
  ASSUME FactoryInv, NEW c \in Callers, MarkLoaded(c)
  PROVE  FactoryInv'
<1>1. call[c].at = "created" /\ SetLifecycleState(call[c].id, "Loaded")
  BY DEF MarkLoaded
<1>2. call[c].id \in DOMAIN registry /\ call[c].at \in Counting
  BY <1>1, CountedMeansKnown DEF FactoryInv, RegistryAgrees, Counting
<1>3. /\ held' = [held EXCEPT ![call[c].id] = @ + 1] /\ Returns(c) /\ factories' = factories
  BY <1>2 DEF MarkLoaded
<1> QED BY <1>1, <1>2, <1>3, LifecycleSet, HandsOver, Zenon

\* Shutdown succeeds, or the instance stays with the host.
LEMMA ShutdownReturnsNext ==
  ASSUME FactoryInv, NEW c \in Callers, NEW outcome \in {"ok", "fails", "throws"},
         ShutdownReturns(c, outcome)
  PROVE  FactoryInv'
<1>1. call[c].at = "shuttingDown" /\ call[c].at \in Counting /\ factories' = factories
  BY DEF ShutdownReturns, Counting
<1>2. CASE outcome = "ok"
  <2> DEFINE id == call[c].id
             s == [at |-> "shutDown", id |-> id]
  <2>1. call' = [call EXCEPT ![c] = s] /\ registry' = registry /\ held' = held
    BY <1>2 DEF ShutdownReturns, Goes
  <2>2. id \in Plugins
    BY <1>1, CountedMeansKnown
  <2>3. \A x \in DOMAIN factories : factories[x] \in Nat
    BY DEF FactoryInv, FactoryTypeOK
  <2>4. s \in [at : FactoryPlaces, id : Plugins]
    BY <2>2 DEF FactoryPlaces, Counting
  <2>5. \A x \in Plugins : One(Counts(call[c], x)) = One(x = id) /\ One(Counts(s, x)) = One(x = id)
    BY <1>1 DEF One, Counts, Counting
  <2>6. held \in [Plugins -> Nat]
    BY DEF FactoryInv, FactoryTypeOK
  <2>7. \A x \in Plugins :
          held'[x] - held[x] + One(Counts(s, x)) - One(Counts(call[c], x)) =
            IF x \in DOMAIN factories THEN factories'[x] - factories[x] ELSE 0
    BY <1>1, <2>1, <2>3, <2>5, <2>6 DEF One
  <2> HIDE DEF s, id
  <2> QED BY <1>1, <2>1, <2>3, <2>4, <2>6, <2>7, CallNext, Zenon
<1>3. CASE outcome # "ok"
  <2>1. Returns(c) /\ held' = [held EXCEPT ![call[c].id] = @ + 1]
    BY <1>3 DEF ShutdownReturns
  <2>2. DOMAIN registry' = DOMAIN registry
    BY <1>3, LifecycleSet DEF ShutdownReturns
  <2> QED BY <1>1, <2>1, <2>2, HandsOver, Zenon
<1> QED BY <1>2, <1>3

-----------------------------------------------------------------------------
\* Nothing is registered, counted or called initially.
LEMMA FactoryInvInit == Init => FactoryInv
<1> SUFFICES ASSUME Init PROVE FactoryInv
  OBVIOUS
<1>1. DOMAIN factories = {} /\ DOMAIN registry = {}
  BY DEF Init
<1>2. \A c \in Callers : call[c] = Idle
  BY DEF Init
<1>3. FactoryTypeOK
  BY <1>1 DEF Init, FactoryTypeOK
<1>4. ASSUME NEW id \in Plugins PROVE Existing(id) = 0
  <2>1. {c \in Callers : call[c].at \in Counting /\ call[c].id = id} = {}
    BY <1>2 DEF Idle, Counting
  <2>2. In(id, Counting) = 0
    BY <2>1, FS_EmptySet, Zenon DEF In
  <2>3. held[id] = 0
    BY DEF Init
  <2> QED BY <2>2, <2>3 DEF Existing, Counting
<1> QED BY <1>1, <1>3, <1>4
        DEF FactoryInv, RegistryAgrees, InstancesAreCounted, OnlyCompatiblePlugins

\* Every operation of the factory keeps the invariant.
LEMMA FactoryInvNext == FactoryInv /\ [Next]_vars => FactoryInv'
<1> SUFFICES ASSUME FactoryInv, [Next]_vars PROVE FactoryInv'
  OBVIOUS
<1>1. CASE UNCHANGED vars
  BY <1>1 DEF vars, FactoryInv, FactoryTypeOK, RegistryAgrees, InstancesAreCounted, Existing, In,
              OnlyCompatiblePlugins
<1>2. ASSUME NEW id \in Plugins, RegisterPlugin(id) \/ UnregisterPlugin(id)
      PROVE  FactoryInv'
  BY <1>2, RegisterNext, UnregisterNext
<1>3. ASSUME NEW c \in Callers, NEW id \in Plugins, CreatePlugin(c, id) \/ DestroyPlugin(c, id)
      PROVE  FactoryInv'
  BY <1>3, CreateNext, DestroyNext
<1>4. ASSUME NEW c \in Callers, Step(c)
      PROVE  FactoryInv'
  BY <1>4, CreatorReturnsNext, ShutdownReturnsNext, ReleaseFailedNext, MarkFailedNext,
     MarkLoadedNext, ReleaseDestroyedNext, MarkShutdownNext
     DEF Step
<1> QED BY <1>1, <1>2, <1>3, <1>4 DEF Next

\* The factory's inductive invariant always holds.
LEMMA FactoryInvariance == Spec => []FactoryInv
BY FactoryInvInit, FactoryInvNext, PTL DEF Spec

-----------------------------------------------------------------------------
\* active_instances is exact between any two sections of CreatePlugin and DestroyPlugin,
\* whatever the creators and shutdowns that run outside the locks come to.
THEOREM InstancesCounted == Spec => []InstancesAreCounted
BY FactoryInvariance, PTL DEF FactoryInv

\* PluginFactory and PluginRegistry know the same plugins.
THEOREM FactoryAndRegistryAgree == Spec => []RegistryAgrees
BY FactoryInvariance, PTL DEF FactoryInv

\* The registry shows no plugin whose range excludes the framework's version.
THEOREM RegisteredAreCompatible == Spec => []OnlyCompatiblePlugins
BY FactoryInvariance, PTL DEF FactoryInv

\* What factory and registry say of the plugins is true after every step of any number of
\* concurrent callers.
THEOREM PluginsSound == Spec => []PluginsAreSound
<1>1. FactoryInv => PluginsAreSound
  BY Zenon DEF FactoryInv, PluginsAreSound
<1> QED BY <1>1, FactoryInvariance, PTL
=============================================================================

---------------------------- MODULE PlanningPipeline ----------------------------
(***************************************************************************)
(* src/planner/PlanningPipeline.cpp: one planning request at a time goes   *)
(* through the primary planner, perhaps the fallback planner, validation   *)
(* and the handoff to the behavior tree runtime.  The metrics have a lock  *)
(* of their own, so GetMetrics sees them between any two steps.            *)
(***************************************************************************)
EXTENDS Integers, FiniteSets

CONSTANTS
  Requesters,
  Options,       \* [validatePlan, enableFallback, submit : BOOLEAN]
  HasFallback,   \* whether a fallback planner was given
  HasRuntime,    \* whether a behavior tree runtime was given
  MaxRequests    \* bound on calls of Execute

VARIABLES
  metrics,     \* metrics_
  execution,   \* caller -> its call of Execute
  holder,      \* the caller that holds execution_mutex_, or None
  jobs,        \* trees given to the runtime, with what became of their plan
  thrown       \* executions that ended by an exception of ValidatePlan

planningVars == <<metrics, execution, holder, jobs, thrown>>

None == "none"
NotPlanning == [at |-> "idle"]

\* Callers are threads, and the options are PlanningPipelineOptions.
ASSUME PlanningAssumption ==
  /\ None \notin Requesters
  /\ Options \subseteq [validatePlan : BOOLEAN, enableFallback : BOOLEAN, submit : BOOLEAN]

\* PlanningPipelineMetrics
Fields == {"requests", "rejected", "primary", "fallback", "planned", "fallbackSucceeded",
           "validationFailures", "failed", "submissions", "submissionFailures"}
NewMetrics == [f \in Fields |-> 0]

\* What a planner's Plan comes to: IsPlanAccepted, not accepted (cancelled, failed,
\* or without a mission or a tree), or an exception.
Outcomes == {"accepted", "unaccepted", "throws"}

PlanningInit ==
  /\ metrics = NewMetrics /\ holder = None /\ jobs = {} /\ thrown = 0
  /\ execution = [c \in Requesters |-> NotPlanning]

Moves(c, state) == execution' = [execution EXCEPT ![c] = state]
At(c, place) == Moves(c, [execution[c] EXCEPT !.at = place])
With(c, result, place) == Moves(c, [execution[c] EXCEPT !.result = result, !.at = place])
Count(field) == metrics' = [metrics EXCEPT ![field] = @ + 1]

\* The caller returns and the lock of the execution is released.
Return(c) == Moves(c, NotPlanning) /\ holder' = None

-----------------------------------------------------------------------------

\* Execute takes the lock and counts the request.
Execute(c, valid, options) ==
  /\ execution[c].at = "idle" /\ holder = None /\ metrics.requests < MaxRequests
  /\ holder' = c /\ Count("requests")
  /\ Moves(c, [at |-> IF valid THEN "attempting" ELSE "rejecting", planner |-> "primary",
              options |-> options, result |-> None])
  /\ UNCHANGED <<jobs, thrown>>

IncrementRejected(c) ==
  /\ execution[c].at = "rejecting"
  /\ Count("rejected") /\ Return(c) /\ UNCHANGED <<jobs, thrown>>

\* run_planner: count the attempt, ...
Attempt(c) ==
  /\ execution[c].at = "attempting"
  /\ Count(execution[c].planner) /\ At(c, "planning")
  /\ UNCHANGED <<holder, jobs, thrown>>

\* run_planner returned an error: the fallback planner may be tried next.
Refused(c, result) ==
  IF execution[c].planner = "primary" /\ execution[c].options.enableFallback /\ HasFallback
  THEN Moves(c, [execution[c] EXCEPT !.planner = "fallback", !.at = "attempting"])
  ELSE With(c, result, "failing")

\* run_planner returned a plan: a plan of the fallback planner is counted.
Accepted(c, result) ==
  With(c, result, IF execution[c].planner = "fallback" THEN "fellBack" ELSE "handing")

\* ... call the planner, ...
PlannerReturns(c, outcome) ==
  /\ execution[c].at = "planning"
  /\ IF outcome # "accepted" THEN Refused(c, outcome)
     ELSE IF execution[c].options.validatePlan THEN At(c, "validating")
     ELSE Accepted(c, outcome)
  /\ UNCHANGED <<metrics, holder, jobs, thrown>>

\* ... and validate its plan; ValidatePlan is called outside the try block, so an
\* exception of it leaves Execute.
Validate(c, verdict) ==
  /\ execution[c].at = "validating"
  /\ CASE verdict = "valid" -> Accepted(c, verdict) /\ UNCHANGED <<holder, thrown>>
       [] verdict = "invalid" -> With(c, verdict, "invalid") /\ UNCHANGED <<holder, thrown>>
       [] verdict = "throws" -> Return(c) /\ thrown' = thrown + 1
  /\ UNCHANGED <<metrics, jobs>>

CountInvalid(c) ==
  /\ execution[c].at = "invalid"
  /\ Count("validationFailures") /\ Refused(c, execution[c].result)
  /\ UNCHANGED <<holder, jobs, thrown>>

CountFallback(c) ==
  /\ execution[c].at = "fellBack"
  /\ Count("fallbackSucceeded") /\ At(c, "handing")
  /\ UNCHANGED <<holder, jobs, thrown>>

\* Fault: the execution that fails is left out of the metrics.
FailsUncounted(c) ==
  /\ execution[c].at = "failing"
  /\ Return(c) /\ UNCHANGED <<metrics, jobs, thrown>>

IncrementFailure(c) ==
  /\ execution[c].at = "failing"
  /\ Count("failed") /\ Return(c) /\ UNCHANGED <<jobs, thrown>>

\* The handoff to the runtime, which may throw; no runtime is an error.
Submit(c, throws) ==
  /\ execution[c].at = "handing"
  /\ LET job == [request |-> metrics.requests, result |-> execution[c].result,
                 validated |-> execution[c].options.validatePlan] IN
     IF ~execution[c].options.submit THEN At(c, "finishing") /\ UNCHANGED jobs
     ELSE IF ~HasRuntime \/ throws THEN At(c, "unsubmitted") /\ UNCHANGED jobs
     ELSE At(c, "submitted") /\ jobs' = jobs \cup {job}
  /\ UNCHANGED <<metrics, holder, thrown>>

CountSubmission(c) ==
  /\ execution[c].at = "submitted"
  /\ Count("submissions") /\ At(c, "finishing")
  /\ UNCHANGED <<holder, jobs, thrown>>

CountSubmissionFailure(c) ==
  /\ execution[c].at = "unsubmitted"
  /\ Count("submissionFailures") /\ At(c, "failing")
  /\ UNCHANGED <<holder, jobs, thrown>>

Finish(c) ==
  /\ execution[c].at = "finishing"
  /\ Count("planned") /\ Return(c) /\ UNCHANGED <<jobs, thrown>>

PlanningStep(c) ==
  \/ IncrementRejected(c) \/ Attempt(c)
  \/ \E outcome \in Outcomes : PlannerReturns(c, outcome)
  \/ \E verdict \in {"valid", "invalid", "throws"} : Validate(c, verdict)
  \/ CountInvalid(c) \/ CountFallback(c) \/ IncrementFailure(c)
  \/ \E throws \in BOOLEAN : Submit(c, throws)
  \/ CountSubmission(c) \/ CountSubmissionFailure(c) \/ Finish(c)

PlanningNext ==
  \E c \in Requesters :
    (\E valid \in BOOLEAN, options \in Options : Execute(c, valid, options)) \/ PlanningStep(c)

PlanningSpec == PlanningInit /\ [][PlanningNext]_planningVars

-----------------------------------------------------------------------------
InPlace(place) == Cardinality({c \in Requesters : execution[c].at = place})
Running == Cardinality({c \in Requesters : execution[c].at # "idle"})

\* Every request is counted once as rejected, planned or failed when it is over, or
\* left by an exception of ValidatePlan.
RequestsAreAccountedFor ==
  metrics.requests = metrics.rejected + metrics.planned + metrics.failed + thrown + Running

\* GetMetrics is consistent at any moment: fallback attempts follow primary ones,
\* fallback plans follow fallback attempts, and the jobs the runtime was given are
\* the submissions counted, or about to be.
MetricsAreConsistent ==
  /\ metrics.fallback <= metrics.primary
  /\ metrics.fallbackSucceeded <= metrics.fallback
  /\ metrics.validationFailures <= metrics.primary + metrics.fallback
  /\ Cardinality(jobs) = metrics.submissions + InPlace("submitted")
  /\ metrics.submissions <= metrics.planned + InPlace("finishing")
  /\ metrics.submissionFailures <= metrics.failed + InPlace("failing")

\* The planners are never called by two executions at once.
PlanningIsSerialized == Running <= 1

\* A tree goes to the runtime only when its planner produced it and, where the
\* options ask for validation, found it valid, the fallback planner included.
OnlyAcceptedPlansAreSubmitted ==
  \A job \in jobs : job.result = IF job.validated THEN "valid" ELSE "accepted"

-----------------------------------------------------------------------------
(* The inductive invariant.  execution_mutex_ makes the holder the only    *)
(* execution, so what every count lacks is a matter of where the holder is. *)

Places == {"rejecting", "attempting", "planning", "validating", "invalid", "fellBack", "failing",
           "handing", "submitted", "unsubmitted", "finishing"}
Results == {None, "accepted", "unaccepted", "throws", "valid", "invalid"}
Executions == [at : Places, planner : {"primary", "fallback"}, options : Options, result : Results]

PlanningTypeOK ==
  /\ metrics \in [Fields -> Nat] /\ thrown \in Nat
  /\ execution \in [Requesters -> {NotPlanning} \cup Executions]
  /\ holder \in Requesters \cup {None}
  /\ IsFiniteSet(jobs)
  /\ \A job \in jobs : job.request \in Nat

\* Whoever is inside Execute holds execution_mutex_.
HolderExecutes == \A c \in Requesters : execution[c].at # "idle" <=> holder = c

\* What the holder has done already: it is in one of the places, perhaps with this planner.
Holds(places) == holder # None /\ execution[holder].at \in places
HoldsWith(planner, places) == Holds(places) /\ execution[holder].planner = planner

One(condition) == IF condition THEN 1 ELSE 0

AfterPrimary == {"planning", "validating", "invalid", "fellBack", "handing", "submitted",
                 "unsubmitted", "finishing"}
BeforeHandoff == {"attempting", "planning", "validating", "invalid", "fellBack", "handing"}

\* Each count and what the holder is about to add to it.
CountsFollow ==
  /\ metrics.requests = metrics.rejected + metrics.planned + metrics.failed + thrown
                        + One(holder # None)
  /\ metrics.fallback + One(\/ HoldsWith("primary", AfterPrimary)
                            \/ HoldsWith("fallback", {"attempting"})) <= metrics.primary
  /\ metrics.fallbackSucceeded
       + One(HoldsWith("fallback", {"planning", "validating", "invalid", "fellBack"}))
       <= metrics.fallback
  /\ metrics.validationFailures + One(Holds({"planning", "validating", "invalid"}))
       <= metrics.primary + metrics.fallback
  /\ metrics.submissions <= metrics.planned + One(Holds({"finishing"}))
  /\ metrics.submissionFailures <= metrics.failed + One(Holds({"failing"}))
  /\ Cardinality(jobs) = metrics.submissions + One(Holds({"submitted"}))

\* A request hands at most one tree over, and a tree that its planner accepted; only
\* a plan of the fallback planner is counted as one, and only a plan whose options
\* ask for it is validated.
JobsFollow ==
  /\ Holds({"validating"}) => execution[holder].options.validatePlan
  /\ Holds({"fellBack"}) => execution[holder].planner = "fallback"
  /\ \A job \in jobs : /\ job.request <= metrics.requests
                       /\ Holds(BeforeHandoff) => job.request < metrics.requests
  /\ Holds({"fellBack", "handing"}) =>
       execution[holder].result =
         IF execution[holder].options.validatePlan THEN "valid" ELSE "accepted"

PlanningInv ==
  /\ PlanningTypeOK /\ HolderExecutes /\ CountsFollow /\ JobsFollow
  /\ OnlyAcceptedPlansAreSubmitted

\* Execute serves one request at a time, counts each request under one outcome with
\* metrics that agree with one another, and submits only plans that were accepted and,
\* where asked, validated.
PlanningIsSound ==
  /\ PlanningIsSerialized /\ RequestsAreAccountedFor /\ MetricsAreConsistent
  /\ OnlyAcceptedPlansAreSubmitted
=============================================================================

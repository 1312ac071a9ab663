---------------------------- MODULE RuleBasedPlanner ----------------------------
(***************************************************************************)
(* src/planner/RuleBasedPlanner.cpp: the choice of a rule for a goal, the  *)
(* plan that is built from it, and a cancellation flag that is shared by   *)
(* the calls of Plan.                                                      *)
(***************************************************************************)
EXTENDS Integers, Sequences, FiniteSets, FiniteSetsExt, SequencesExt

CONSTANTS
  RuleSets,     \* the rule sets a planner may be constructed with
  Goals,        \* the goals it is asked to plan
  Callers,
  MaxId,        \* std::numeric_limits<std::uint64_t>::max()
  Scale,        \* kCommandIdScale
  MaxCancels    \* bound on calls of CancelPlan

ArithmeticAssumption == MaxId \in Nat /\ Scale \in Nat \ {0}

VARIABLES
  rules,      \* rules_
  cancel,     \* cancellationRequested_
  plan,       \* caller -> its call of Plan
  requests,   \* calls of CancelPlan
  cancelled   \* calls of Plan that were cancelled

vars == <<rules, cancel, plan, requests, cancelled>>

Idle == [at |-> "idle"]

\* GoalPriority and PriorityRank
PriorityRank == [Low |-> 0, Normal |-> 1, High |-> 2, Critical |-> 3]

\* RuleBasedPlannerRule: goalType, minimumPriority, commandSequence and fallback.
\* A rule without an id or without commands is not valid.
Rule(type, priority, commands, fallback) ==
  [goalType |-> type, minimumPriority |-> priority, commands |-> commands, fallback |-> fallback]

ValidRule(rule) == rule.commands # <<>>

DefaultFallbackRule == Rule("Custom", "Low", <<"Custom">>, TRUE)

DefaultRules ==
  <<Rule("Command", "Critical", <<"Stop">>, FALSE)>>
  \o [i \in 1..5 |-> Rule(<<"Mission", "BehaviorTree", "Command", "Inspection", "Interaction">>[i],
                          "Low", <<"Custom">>, FALSE)]
  \o <<DefaultFallbackRule>>

\* The constructor: invalid rules are dropped, a missing fallback is appended.
Construct(set) ==
  LET valid == SelectSeq(set, ValidRule)
  IN IF \E i \in DOMAIN valid : valid[i].fallback THEN valid
     ELSE Append(valid, DefaultFallbackRule)

Matches(rule, goal) ==
  /\ ~rule.fallback /\ rule.goalType = goal.type
  /\ PriorityRank[goal.priority] >= PriorityRank[rule.minimumPriority]

\* Fault: a later rule of the same priority wins.
SelectLast(set, goal) ==
  LET Better(rule, best) ==
        \/ best = <<>>
        \/ PriorityRank[rule.minimumPriority] >= PriorityRank[best[1].minimumPriority]
      Scan(found, rule) ==
        IF rule.fallback
        THEN [found EXCEPT !.fallback = IF @ = <<>> THEN <<rule>> ELSE @]
        ELSE IF Matches(rule, goal) /\ Better(rule, found.selected)
             THEN [found EXCEPT !.selected = <<rule>>] ELSE found
      found == FoldLeft(Scan, [selected |-> <<>>, fallback |-> <<>>], set)
  IN IF found.selected # <<>> THEN found.selected ELSE found.fallback

\* SelectRule: the loop over the rules; an optional is a sequence of at most one.
SelectRule(set, goal) ==
  LET Better(rule, best) ==
        \/ best = <<>>
        \/ PriorityRank[rule.minimumPriority] > PriorityRank[best[1].minimumPriority]
      Scan(found, rule) ==
        IF rule.fallback
        THEN [found EXCEPT !.fallback = IF @ = <<>> THEN <<rule>> ELSE @]
        ELSE IF Matches(rule, goal) /\ Better(rule, found.selected)
             THEN [found EXCEPT !.selected = <<rule>>] ELSE found
      found == FoldLeft(Scan, [selected |-> <<>>, fallback |-> <<>>], SelectSeq(set, ValidRule))
  IN IF found.selected # <<>> THEN found.selected ELSE found.fallback

DerivedId(seed, offset) ==
  IF seed # 0 /\ seed <= MaxId - offset THEN seed + offset
  ELSE IF offset = 0 THEN 1 ELSE offset

CommandSeed(id) == IF id # 0 /\ id <= MaxId \div Scale THEN id * Scale ELSE id

\* ToCommandPriority keeps the names.
MakeCommand(goal, command, step) ==
  [id |-> DerivedId(CommandSeed(goal.id), step), type |-> command, priority |-> goal.priority]

MakeMission(goal, rule) ==
  [id |-> goal.id,
   steps |-> [i \in DOMAIN rule.commands |->
                [id |-> i, command |-> MakeCommand(goal, rule.commands[i], i)]]]

\* MakeBehaviorTree: a sequence of one action per command.
MakeBehaviorTree(rule) == [node |-> "Sequence", children |-> rule.commands]

ValidMission(mission) ==
  /\ mission.id # 0 /\ mission.steps # <<>>
  /\ \A i \in DOMAIN mission.steps : mission.steps[i].id # 0 /\ mission.steps[i].command.id # 0

\* ValidatePlan
ValidatePlan(result) ==
  result.status = "Planned" /\ ValidMission(result.mission) /\ result.tree.children # <<>>

-----------------------------------------------------------------------------
Init ==
  /\ \E set \in RuleSets : rules = Construct(set)
  /\ cancel = FALSE /\ requests = 0 /\ cancelled = 0
  /\ plan = [c \in Callers |-> Idle]

Goes(c, state) == plan' = [plan EXCEPT ![c] = state]
Done(status) == [at |-> "done", result |-> [status |-> status]]

CancelPlan ==
  /\ requests < MaxCancels
  /\ requests' = requests + 1 /\ cancel' = TRUE
  /\ UNCHANGED <<rules, plan, cancelled>>

\* cancellationRequested_.exchange(false): the call that sees the flag is cancelled.
Exchange(c, next) ==
  /\ cancel' = FALSE /\ UNCHANGED <<rules, requests>>
  /\ IF cancel THEN Goes(c, Done("Cancelled")) /\ cancelled' = cancelled + 1
     ELSE Goes(c, next) /\ UNCHANGED cancelled

\* Plan: the first check and the validity of the request, ...
Plan(c, goal) ==
  /\ plan[c].at = "idle"
  /\ Exchange(c, IF goal.id = 0 THEN Done("Rejected") ELSE [at |-> "selecting", goal |-> goal])

\* ... the selection under the lock, ...
Select(c) ==
  /\ plan[c].at = "selecting"
  /\ LET rule == SelectRule(rules, plan[c].goal) IN
     Goes(c, IF rule = <<>> THEN Done("Failed")
             ELSE [at |-> "selected", goal |-> plan[c].goal, rule |-> rule[1]])
  /\ UNCHANGED <<rules, cancel, requests, cancelled>>

\* ... and the second check, after which the plan is built.
Build(c) ==
  /\ plan[c].at = "selected"
  /\ Exchange(c, [at |-> "done", result |->
       [status |-> "Planned", mission |-> MakeMission(plan[c].goal, plan[c].rule),
        tree |-> MakeBehaviorTree(plan[c].rule)]])

\* The caller takes the result.
Take(c) ==
  /\ plan[c].at = "done" /\ Goes(c, Idle)
  /\ UNCHANGED <<rules, cancel, requests, cancelled>>

Next ==
  \/ CancelPlan
  \/ \E c \in Callers : (\E goal \in Goals : Plan(c, goal)) \/ Select(c) \/ Build(c) \/ Take(c)

Spec == Init /\ [][Next]_vars

-----------------------------------------------------------------------------
\* The documented choice ("Rules match by goal type and minimum goal priority ... A
\* fallback rule is used only when no normal rule matches"): among the rules that
\* match, the first of those with the greatest minimum priority.
SelectsTheBestRule ==
  \A goal \in Goals :
    LET chosen == SelectRule(rules, goal)
        matching == {i \in DOMAIN rules : Matches(rules[i], goal)}
        Rank(i) == PriorityRank[rules[i].minimumPriority]
        best == {i \in matching : \A j \in matching : Rank(j) <= Rank(i)}
        eligible == IF matching # {} THEN best ELSE {i \in DOMAIN rules : rules[i].fallback}
    IN chosen = IF eligible = {} THEN <<>> ELSE <<rules[Min(eligible)]>>

\* A request that is valid and not cancelled is planned: whatever rules the planner
\* was given, there is one to use, and the plan passes the planner's own validation.
ValidRequestsArePlanned ==
  \A c \in Callers : plan[c].at = "done" =>
    /\ plan[c].result.status # "Failed"
    /\ plan[c].result.status = "Planned" => ValidatePlan(plan[c].result)

\* The commands of a mission have distinct ids up to the largest goal id, where the
\* scaled seed or the sum would not fit.
CommandIdsAreDistinct ==
  \A c \in Callers : plan[c].at = "done" /\ plan[c].result.status = "Planned" =>
    LET steps == plan[c].result.mission.steps IN
    \A i, j \in DOMAIN steps :
      /\ steps[i].command.id \in 1..MaxId
      /\ steps[i].command.id = steps[j].command.id => i = j

\* A call of CancelPlan cancels a call of Plan, now or later, and never two.
CancelsOnce ==
  /\ cancelled + (IF cancel THEN 1 ELSE 0) <= requests
  /\ requests > 0 => cancel \/ cancelled > 0
=============================================================================

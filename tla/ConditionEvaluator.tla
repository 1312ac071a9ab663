-------------------------- MODULE ConditionEvaluator --------------------------
(***************************************************************************)
(* src/mission/ConditionEvaluator.cpp, as MissionExecutor uses it: the     *)
(* conditions of a step are evaluated one after the other, each against a  *)
(* robot state (or a capability context) read at that moment, while the    *)
(* robot's state and the capabilities keep changing.                       *)
(*                                                                         *)
(* Battery levels and fault codes are small integers, NaN stands for a     *)
(* value that is not finite, and a Boolean is 0 or 1.                      *)
(***************************************************************************)
EXTENDS MissionModel

CONSTANTS
  NaN,            \* a battery level that is not finite
  Levels,         \* battery levels and fault codes
  Flags,          \* the state's flags that the conditions read
  Conditions,     \* [1..n -> condition]: the step's conditions
  HasStateManager \* the injected state manager is not null

NaNAssumption == NaN \in Int /\ NaN \notin Levels /\ {0, 1} \subseteq Levels

VARIABLES
  robot,      \* RobotStateManager's state
  context,    \* context_: the optional capabilities
  next,       \* the condition to be evaluated next, 0 when no evaluation runs
  results,    \* the results so far
  held        \* history: the conditions that held at some time of the evaluation

vars == <<robot, context, next, results, held>>

RobotStates ==
  [battery : Levels \cup {NaN}, fault : Levels, on : SUBSET Flags]

Contexts == {{}} \cup {{capabilities} : capabilities \in SUBSET {"Walk"}}

Init ==
  /\ robot = [battery |-> 0, fault |-> 0, on |-> {}]
  /\ context = {}
  /\ next = 0
  /\ results = <<>>
  /\ held = {}

\* IEEE comparison: an operand that is not a number only makes NotEqual true.
CompareFloat(actual, comparison, expected) ==
  IF NaN \in {actual, expected} THEN comparison = "NotEqual"
  ELSE \/ comparison \in {"Equal", "LessThanOrEqual", "GreaterThanOrEqual"} /\ actual = expected
       \/ comparison \in {"NotEqual", "LessThan", "LessThanOrEqual"} /\ actual < expected
       \/ comparison \in {"NotEqual", "GreaterThan", "GreaterThanOrEqual"} /\ actual > expected

CompareInteger(actual, comparison, expected) ==
  \/ comparison \in {"Equal", "LessThanOrEqual", "GreaterThanOrEqual"} /\ actual = expected
  \/ comparison \in {"NotEqual", "LessThan", "LessThanOrEqual"} /\ actual < expected
  \/ comparison \in {"NotEqual", "GreaterThan", "GreaterThanOrEqual"} /\ actual > expected

CompareBool(actual, comparison, expected) ==
  \/ comparison = "Equal" /\ actual = expected
  \/ comparison = "NotEqual" /\ actual # expected

Unavailable == "unavailable"

Evaluated(satisfied) == IF satisfied THEN "satisfied" ELSE "failed"

FlagOf(type) ==
  CASE type = "Connection" -> "connected"
    [] type = "RobotStanding" -> "standing"
    [] type = "RobotWalking" -> "walking"
    [] type = "RobotSitting" -> "sitting"
    [] type = "EmergencyStop" -> "emergencyStop"

\* Fault: a missing capability context counts as an empty one.
MissingIsEmpty(c, state, capabilities) ==
  Evaluated(CompareBool(\E set \in capabilities : c.commandType \in set, c.comparison, c.value = 1))

EvaluateCapability(c, state, capabilities) ==
  IF capabilities = {} THEN Unavailable
  ELSE Evaluated(CompareBool(\E set \in capabilities : c.commandType \in set, c.comparison,
                             c.value = 1))

\* Evaluate() against one snapshot of the state and one of the context.
Evaluate(c, state, capabilities) ==
  IF ~ConditionValid(c) THEN Unavailable
  ELSE IF c.type = "Capability" THEN EvaluateCapability(c, state, capabilities)
  ELSE IF ~HasStateManager THEN Unavailable
  ELSE IF c.type = "BatteryLevel"
       THEN IF state.battery = NaN THEN Unavailable
            ELSE Evaluated(CompareFloat(state.battery, c.comparison, c.value))
  ELSE IF c.type = "FaultCode"
       THEN Evaluated(CompareInteger(state.fault, c.comparison, c.value))
  ELSE IF c.type = "Unknown" THEN Unavailable
  ELSE Evaluated(CompareBool(FlagOf(c.type) \in state.on, c.comparison, c.value = 1))

\* The ordinary reading of a condition, where what it is about is available.
Truth(c, state, capabilities) ==
  LET flag == IF c.type = "Capability" THEN \E set \in capabilities : c.commandType \in set
              ELSE FlagOf(c.type) \in state.on
      number == IF c.type = "BatteryLevel" THEN state.battery ELSE state.fault
      below == IF c.type \in {"BatteryLevel", "FaultCode"} THEN number < c.value ELSE FALSE
      equal == IF c.type \in {"BatteryLevel", "FaultCode"} THEN number = c.value
               ELSE flag = (c.value = 1)
  IN CASE c.comparison = "Equal" -> equal
       [] c.comparison = "NotEqual" -> ~equal
       [] c.comparison = "LessThan" -> below
       [] c.comparison = "LessThanOrEqual" -> below \/ equal
       [] c.comparison = "GreaterThan" -> ~below /\ ~equal
       [] c.comparison = "GreaterThanOrEqual" -> ~below

HoldingNow(state, capabilities) ==
  {i \in DOMAIN Conditions :
     /\ Conditions[i].type = "Capability" => capabilities # {}
     /\ Conditions[i].type = "BatteryLevel" => state.battery # NaN
     /\ Truth(Conditions[i], state, capabilities)}

Observe(state, capabilities) ==
  held' = IF next = 0 THEN held ELSE held \cup HoldingNow(state, capabilities)

UpdateRobot ==
  /\ \E state \in RobotStates : robot' = state
  /\ Observe(robot', context)
  /\ UNCHANGED <<context, next, results>>

UpdateCapabilities ==
  /\ \E capabilities \in SUBSET {"Walk"} : context' = {capabilities}
  /\ Observe(robot, context')
  /\ UNCHANGED <<robot, next, results>>

ClearCapabilities ==
  /\ context' = {}
  /\ Observe(robot, context')
  /\ UNCHANGED <<robot, next, results>>

\* EvaluateStepConditions and EvaluateAll enter their loop.
Begin ==
  /\ next = 0
  /\ next' = 1
  /\ results' = <<>>
  /\ held' = HoldingNow(robot, context)
  /\ UNCHANGED <<robot, context>>

\* One Evaluate() of the loop, EvaluateAll's.
EvaluateNext ==
  /\ next > 0
  /\ results' = Append(results, Evaluate(Conditions[next], robot, context))
  /\ next' = IF next = Len(Conditions) THEN 0 ELSE next + 1
  /\ UNCHANGED <<robot, context, held>>

Next == UpdateRobot \/ UpdateCapabilities \/ ClearCapabilities \/ Begin \/ EvaluateNext

Spec == Init /\ [][Next]_vars

TypeOK ==
  /\ robot \in RobotStates
  /\ context \in Contexts
  /\ next \in 0..Len(Conditions)
  /\ results \in UNION {[1..n -> {"satisfied", "failed", "unavailable"}] : n \in 0..Len(Conditions)}
  /\ held \subseteq DOMAIN Conditions

\* Every condition found satisfied was satisfied, in the ordinary reading of
\* its comparison, in a state the robot was in and a context the evaluator had
\* while the list was evaluated, and what it is about was available there.
\* (Two conditions may have been satisfied in different states.)
VerdictsRestOnObservations ==
  \A i \in DOMAIN results : results[i] = "satisfied" => i \in held

Complement(comparison) ==
  CASE comparison = "Equal" -> "NotEqual" [] comparison = "NotEqual" -> "Equal"
    [] comparison = "LessThan" -> "GreaterThanOrEqual"
    [] comparison = "GreaterThanOrEqual" -> "LessThan"
    [] comparison = "GreaterThan" -> "LessThanOrEqual"
    [] comparison = "LessThanOrEqual" -> "GreaterThan"

\* A condition the validator accepts is decided whenever what it is about is
\* available: either it or the condition with the opposite comparison holds,
\* and never both.
ValidatedConditionsDecide ==
  \A i \in DOMAIN Conditions :
    LET c == Conditions[i]
        opposite == [c EXCEPT !.comparison = Complement(c.comparison)]
        answer == Evaluate(c, robot, context)
    IN ValidateCondition(c) /\ answer # Unavailable =>
         {answer, Evaluate(opposite, robot, context)} = {"satisfied", "failed"}
=============================================================================

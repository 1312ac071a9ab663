----------------------------- MODULE MissionModel -----------------------------
(***************************************************************************)
(* The mission value types of include/humanoid/mission/ and the pure code  *)
(* over them: the isValid() members, MissionValidator, and the timeout and *)
(* attempt arithmetic of MissionExecutor.cpp.                              *)
(*                                                                         *)
(* An optional is a set with at most one element; a name is present or not *)
(* (BOOLEAN); an enumerator outside its enumeration is "Unknown".          *)
(* Durations are integers, negative ones included.                         *)
(***************************************************************************)
EXTENDS Integers, FiniteSets, FiniteSetsExt, Sequences

CONSTANT MaxRetry    \* std::numeric_limits<MissionStepRetryCount>::max()

MaxRetryAssumption == MaxRetry \in Nat

CommandTypes ==
  {"Stand", "Sit", "Walk", "Stop", "Move", "Rotate", "Velocity", "EmergencyStop", "HandOpen",
   "HandClose", "Gesture", "PlayAudio", "StopAudio", "SetVolume", "MuteAudio", "Custom"}

CommandPriorities == {"Low", "Normal", "High", "Critical"}

ConditionTypes ==
  {"BatteryLevel", "Connection", "RobotStanding", "RobotWalking", "RobotSitting",
   "Capability", "FaultCode", "EmergencyStop"}

Comparisons ==
  {"Equal", "NotEqual", "LessThan", "LessThanOrEqual", "GreaterThan", "GreaterThanOrEqual"}

FailureActions == {"Skip", "Abort"}

MissionStatus == {"Pending", "Running", "Paused", "Completed", "Failed", "Cancelled"}

isTerminal(status) == status \in {"Completed", "Failed", "Cancelled"}

RetryPolicy == [maxAttempts |-> 1, delay |-> 0, onFailure |-> TRUE, onTimeout |-> TRUE]

LoopPolicy == [iterations |-> 1]

TimeoutPolicy == [timeout |-> 0, abort |-> TRUE]

MissionCondition ==
  [id |-> 1, name |-> TRUE, type |-> "Connection", comparison |-> "Equal", value |-> 1,
   commandType |-> "Custom", failureAction |-> "Abort"]

Command == [id |-> 1, type |-> "Custom", priority |-> "Normal", timeout |-> 0]

MissionStep ==
  [id |-> 1, name |-> TRUE, command |-> Command, timeout |-> 0, retry |-> 0,
   retryPolicy |-> RetryPolicy, loopPolicy |-> LoopPolicy, timeoutPolicy |-> TimeoutPolicy,
   wait |-> {}, delay |-> {}, skip |-> FALSE, abort |-> FALSE, conditions |-> <<>>,
   enabled |-> TRUE]

Mission == [id |-> 1, name |-> TRUE, version |-> TRUE, author |-> TRUE, steps |-> <<MissionStep>>]

RetryPolicyValid(p) == p.maxAttempts > 0 /\ p.delay >= 0

LoopPolicyValid(p) == p.iterations > 0

TimeoutPolicyValid(p) == p.timeout >= 0

TimeoutEnabled(p) == p.timeout > 0

WaitValid(wait) == \A d \in wait : d >= 0

DelayValid(delay) == \A d \in delay : d >= 0

ConditionValid(c) == c.id # 0

CommandValid(command) == command.id # 0 /\ command.timeout >= 0

IsCommandStep(s) == ~s.skip /\ ~s.abort /\ s.wait = {} /\ s.delay = {}

StepValid(s) ==
  /\ s.id # 0
  /\ s.timeout >= 0
  /\ RetryPolicyValid(s.retryPolicy)
  /\ LoopPolicyValid(s.loopPolicy)
  /\ TimeoutPolicyValid(s.timeoutPolicy)
  /\ WaitValid(s.wait)
  /\ DelayValid(s.delay)
  /\ \A i \in DOMAIN s.conditions : ConditionValid(s.conditions[i])
  /\ IsCommandStep(s) => CommandValid(s.command)

MissionValid(m) ==
  /\ \A i \in DOMAIN m.steps : m.steps[i].enabled => StepValid(m.steps[i])
  /\ m.id # 0
  /\ \E i \in DOMAIN m.steps : m.steps[i].enabled

\* MissionValidator.cpp's overloads of IsKnown.
KnownCommand(type) == type \in CommandTypes
KnownPriority(priority) == priority \in CommandPriorities
KnownCondition(type) == type \in ConditionTypes
KnownComparison(comparison) == comparison \in Comparisons
KnownAction(action) == action \in FailureActions

IsBooleanComparison(comparison) == comparison \in {"Equal", "NotEqual"}

ValidateCondition(c) ==
  /\ c.id # 0
  /\ c.name
  /\ KnownCondition(c.type)
  /\ KnownComparison(c.comparison)
  /\ KnownAction(c.failureAction)
  /\ c.type \notin {"BatteryLevel", "FaultCode"} => IsBooleanComparison(c.comparison)
  /\ c.type = "Capability" => KnownCommand(c.commandType)

\* A disabled step is accepted whatever it holds.
ValidateStep(s) ==
  ~s.enabled \/
    /\ s.id # 0
    /\ s.name
    /\ s.timeout >= 0
    /\ RetryPolicyValid(s.retryPolicy)
    /\ LoopPolicyValid(s.loopPolicy)
    /\ TimeoutPolicyValid(s.timeoutPolicy)
    /\ WaitValid(s.wait)
    /\ DelayValid(s.delay)
    /\ \A i \in DOMAIN s.conditions : ValidateCondition(s.conditions[i])
    /\ IsCommandStep(s) =>
         /\ s.command.id # 0
         /\ KnownCommand(s.command.type)
         /\ KnownPriority(s.command.priority)
         /\ s.command.timeout >= 0
         /\ CommandValid(s.command)

ValidateMission(m) ==
  /\ m.id # 0
  /\ m.name
  /\ m.version
  /\ m.author
  /\ m.steps # <<>>
  /\ \A i \in DOMAIN m.steps : ValidateStep(m.steps[i])
  /\ \E i \in DOMAIN m.steps : m.steps[i].enabled

hasTimeout(s) == s.timeout > 0

EffectiveTimeout(s) ==
  LET own == IF hasTimeout(s) THEN {s.timeout} ELSE {} IN
  IF TimeoutEnabled(s.timeoutPolicy) /\ \A t \in own : s.timeoutPolicy.timeout < t
  THEN {s.timeoutPolicy.timeout}
  ELSE own

PrepareCommand(s) ==
  LET shorter == {t \in EffectiveTimeout(s) : s.command.timeout <= 0 \/ t < s.command.timeout} IN
  IF shorter = {} THEN s.command ELSE [s.command EXCEPT !.timeout = Min(shorter)]

EffectiveMaxAttempts(s) ==
  LET legacy == IF s.retry = MaxRetry THEN s.retry ELSE s.retry + 1 IN
  IF s.retryPolicy.maxAttempts > legacy THEN s.retryPolicy.maxAttempts ELSE legacy
=============================================================================

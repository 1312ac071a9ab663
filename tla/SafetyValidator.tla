-------------------------- MODULE SafetyValidator --------------------------
(***************************************************************************)
(* humanoid::core::SafetyValidator (src/core/SafetyValidator.cpp,           *)
(* include/humanoid/core/SafetyValidator.h): the pure policy that decides   *)
(* whether a command may be forwarded to the robot.  A set of command types *)
(* stands for CommandCapabilitySet, whose flags are one per type; a fault   *)
(* code is reduced to whether it is nonzero, a battery level to an integer  *)
(* or NaN.                                                                  *)
(***************************************************************************)
EXTENDS Integers, FiniteSets

CommandTypes ==
  {"Stand", "Sit", "Walk", "Stop", "Move", "Rotate", "Velocity", "EmergencyStop",
   "HandOpen", "HandClose", "Gesture", "PlayAudio", "StopAudio", "SetVolume",
   "MuteAudio", "Custom"}

ActuatorCommands ==
  {"Stand", "Sit", "Walk", "Move", "Rotate", "Velocity", "HandOpen", "HandClose",
   "Gesture"}
BaseMotionCommands == {"Walk", "Move", "Rotate", "Velocity"}
LegacyAdapterDefaults ==
  {"Stand", "Walk", "Stop", "Move", "Rotate", "Velocity", "EmergencyStop"}

IsStopCommand(type) == type \in {"Stop", "EmergencyStop"}

\* The floating-point value that is not comparable to any other.
NaN == 1000
LessThan(a, b) == a # NaN /\ b # NaN /\ a < b

DefaultOptions ==
  [minimumBattery |-> 15, requireConnection |-> TRUE, requireBattery |-> TRUE,
   enforceBatteryRange |-> TRUE, rejectEmergencyStop |-> TRUE,
   allowStopDuringEmergencyStop |-> TRUE, rejectRobotFaults |-> TRUE,
   enforceMotionConsistency |-> TRUE, requireStanding |-> TRUE]

\* LegacySafetyValidator() of the dispatcher.
LegacyOptions ==
  [DefaultOptions EXCEPT !.requireBattery = FALSE, !.enforceBatteryRange = FALSE,
     !.rejectRobotFaults = FALSE, !.enforceMotionConsistency = FALSE,
     !.requireStanding = FALSE]

IsBatteryPercent(b) == b # NaN /\ 0 <= b /\ b <= 100

HasContradictoryMotionState(x) == x.sitting /\ (x.standing \/ x.walking)

-----------------------------------------------------------------------------
(* The reasons for which Validate rejects, in the order of the code.        *)

\* The command by itself.
MalformedCommand(c) ==
  \/ c.id = 0 \/ c.timeout < 0
  \/ c.type \notin CommandTypes \/ c.priority \notin 0..3
  \/ c.timeout > 0 /\ c.timestamp # "past"

\* Robot state, capabilities and connection.
Unreachable(c, x, o) ==
  \/ ~x.robotStateAvailable
  \/ ~x.capabilitiesAvailable
  \/ c.type \notin x.capabilities
  \/ o.requireConnection /\ ~x.connected

\* Emergency stop, faults, contradictory posture.
Unhealthy(c, x, o) ==
  \/ /\ o.rejectEmergencyStop /\ x.emergencyStop
     /\ ~(o.allowStopDuringEmergencyStop /\ IsStopCommand(c.type))
  \/ o.rejectRobotFaults /\ x.fault /\ ~IsStopCommand(c.type)
  \/ o.enforceMotionConsistency /\ HasContradictoryMotionState(x) /\ ~IsStopCommand(c.type)

\* Fault: the range check is dropped, so that only the threshold is compared.
BelowThreshold(c, x, o) ==
  /\ o.requireBattery
  /\ c.type \in ActuatorCommands
  /\ ~x.batteryStateAvailable \/ LessThan(x.battery, o.minimumBattery)

Unpowered(c, x, o) ==
  /\ o.requireBattery
  /\ c.type \in ActuatorCommands
  /\ \/ ~x.batteryStateAvailable
     \/ o.enforceBatteryRange /\ ~IsBatteryPercent(x.battery)
     \/ LessThan(x.battery, o.minimumBattery)

\* Base motion needs a standing robot, a posture change a robot at rest.
WrongPosture(c, x, o) ==
  \/ o.requireStanding /\ c.type \in BaseMotionCommands /\ (x.sitting \/ ~x.standing)
  \/ x.walking /\ c.type \in {"Stand", "Sit"}

\* Validate, `late` telling whether the command's timeout has elapsed.
Validate(c, late, x, o) ==
  IF MalformedCommand(c) THEN "Rejected"
  ELSE IF c.timeout > 0 /\ late THEN "Timeout"
  ELSE IF \/ Unreachable(c, x, o) \/ Unhealthy(c, x, o)
          \/ Unpowered(c, x, o) \/ WrongPosture(c, x, o)
    THEN "Rejected" ELSE "Completed"

-----------------------------------------------------------------------------
(* The command admission checks of src/core/CommandDispatcher.cpp: payload  *)
(* contract per command type (ValidatePayload) and the checks of the        *)
(* command itself (ValidateCommand).  A payload is a function from its keys *)
(* to values [kind, value]; a number is an integer or NaN, and FloatMax     *)
(* stands for the largest finite float.                                     *)

FloatMax == 500

\* std::variant<bool, std::int64_t, double, std::string>
IsNumber(v) == v.kind \in {"double", "int"}
IsString(v) == v.kind = "string"
IsFiniteFloat(n) == n # NaN /\ -FloatMax <= n /\ n <= FloatMax

HasValidNumber(p, key) ==
  key \in DOMAIN p /\ IsNumber(p[key]) /\ IsFiniteFloat(p[key].value)
HasString(p, key) == key \in DOMAIN p /\ IsString(p[key])

\* The command types by the payload they take.
NoParameters == {"Stand", "Sit", "Stop", "EmergencyStop", "HandOpen", "HandClose",
                 "MuteAudio"}
VelocityCommands == {"Walk", "Move", "Velocity"}
VelocityKeys == {"linear_x", "linear_y", "angular_z"}
AudioKeys == {"app_name", "stream_id", "pcm_data"}

\* ValidatePayload returns std::nullopt.
PayloadAccepted(type, p) ==
  \/ type \in NoParameters /\ DOMAIN p = {}
  \/ /\ type \in VelocityCommands /\ Cardinality(DOMAIN p) = 3
     /\ \A key \in VelocityKeys : HasValidNumber(p, key)
  \/ type = "Rotate" /\ Cardinality(DOMAIN p) = 1 /\ HasValidNumber(p, "angular_z")
  \/ type = "Gesture" /\ Cardinality(DOMAIN p) = 1 /\ HasString(p, "gesture")
  \/ type = "PlayAudio" /\ \A key \in AudioKeys : HasString(p, key)
  \/ type = "StopAudio" /\ Cardinality(DOMAIN p) = 1 /\ HasString(p, "app_name")
  \/ /\ type = "SetVolume" /\ DOMAIN p = {"volume"}
     /\ p["volume"].kind = "int" /\ p["volume"].value \in 0..100
  \/ type = "Custom"

\* The verdicts ValidateCommand can return, "Pending" standing for
\* std::nullopt: a timed command created in the past may have expired.
ValidateCommand(c) ==
  IF MalformedCommand(c) THEN {"Rejected"}
  ELSE (IF c.timeout > 0 THEN {"Timeout"} ELSE {})
       \cup {IF PayloadAccepted(c.type, c.payload) THEN "Pending" ELSE "Rejected"}
=============================================================================

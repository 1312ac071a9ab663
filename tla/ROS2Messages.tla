----------------------------- MODULE ROS2Messages -----------------------------
(***************************************************************************)
(* The commands that ROS 2 clients send (ros2/bridge/ROS2Bridge.cpp): names *)
(* of a type and a priority, and a payload of texts, converted to a typed   *)
(* Command and submitted to the dispatcher, whose payload contract is       *)
(* SafetyValidator.                                                         *)
(***************************************************************************)
EXTENDS SafetyValidator, TLC

CONSTANTS Messages,        \* the messages clients send
          HasDispatcher    \* FALSE when the bridge was built without a dispatcher

VARIABLES message, \* the message received
          reply    \* what SubmitCommand says before the dispatcher runs the command

vars == <<message, reply>>

\* The texts a payload field may hold, by the values from_chars reads in them.
IntegerTexts == "0" :> 0 @@ "1" :> 1 @@ "7" :> 7 @@ "150" :> 150

DoubleTexts == IntegerTexts @@ "2.5" :> 2 @@ "nan" :> NaN

BoolTexts == "true" :> TRUE @@ "1" :> TRUE @@ "false" :> FALSE @@ "0" :> FALSE

\* commandTypeFromName and commandPriorityFromName: an unknown name is not an error.
commandTypeFromName(name) ==
  IF name \in NoParameters \cup VelocityCommands
              \cup {"Rotate", "Gesture", "PlayAudio", "StopAudio", "SetVolume"}
  THEN name ELSE "Custom"

commandPriorityFromName(name) == IF name \in {"Low", "High", "Critical"} THEN name ELSE "Normal"

\* Fault: a text that begins with a number is read as that number.
parsePrefix(text) ==
  IF text \in DOMAIN BoolTexts THEN [kind |-> "bool", value |-> BoolTexts[text]]
  ELSE IF text = "2.5" THEN [kind |-> "int", value |-> 2]
  ELSE IF text \in DOMAIN IntegerTexts THEN [kind |-> "int", value |-> IntegerTexts[text]]
  ELSE IF text \in DOMAIN DoubleTexts THEN [kind |-> "double", value |-> DoubleTexts[text]]
  ELSE [kind |-> "string", value |-> text]

\* The first reading that takes the whole text wins: a truth value, an integer, a
\* number, and text itself.
parsePayloadValue(text) ==
  IF text \in DOMAIN BoolTexts THEN [kind |-> "bool", value |-> BoolTexts[text]]
  ELSE IF text \in DOMAIN IntegerTexts THEN [kind |-> "int", value |-> IntegerTexts[text]]
  ELSE IF text \in DOMAIN DoubleTexts THEN [kind |-> "double", value |-> DoubleTexts[text]]
  ELSE [kind |-> "string", value |-> text]

ToCommand(m) ==
  [type |-> commandTypeFromName(m.type), priority |-> commandPriorityFromName(m.priority),
   payload |-> [key \in DOMAIN m.payload |-> parsePayloadValue(m.payload[key])]]

Init == message \in Messages /\ reply = "none"

\* SubmitCommand: without a dispatcher the command is rejected; otherwise the
\* dispatcher's payload check is the first thing that depends on the conversion.
SubmitCommand ==
  /\ reply = "none"
  /\ reply' = IF HasDispatcher /\ PayloadAccepted(ToCommand(message).type, ToCommand(message).payload)
              THEN "Pending" ELSE "Rejected"
  /\ UNCHANGED message

Receive == reply # "none" /\ message' \in Messages /\ reply' = "none"

Next == SubmitCommand \/ Receive

Spec == Init /\ [][Next]_vars

-----------------------------------------------------------------------------
NumberKeys == VelocityKeys \cup {"volume"}

\* What the fields mean to the sender: numbers where the contract has numbers.
Meant(p) ==
  [key \in DOMAIN p |->
     IF key \notin NumberKeys THEN [kind |-> "string", value |-> p[key]]
     ELSE IF p[key] \in DOMAIN IntegerTexts THEN [kind |-> "int", value |-> IntegerTexts[p[key]]]
     ELSE IF p[key] \in DOMAIN DoubleTexts THEN [kind |-> "double", value |-> DoubleTexts[p[key]]]
     ELSE [kind |-> "string", value |-> p[key]]]

MeantAccepted == PayloadAccepted(commandTypeFromName(message.type), Meant(message.payload))

\* The conversion never makes a payload acceptable that was not: a command that
\* reaches the dispatcher's queue meets the contract as its sender wrote it.
AcceptedAsMeant == reply = "Pending" => MeantAccepted

\* The fields that look like something else than they are: the numbers 0 and 1,
\* which are read as truth values, and names that look like a number or a truth value.
Ambiguous(p) ==
  \E key \in DOMAIN p : IF key \in NumberKeys THEN p[key] \in DOMAIN BoolTexts
                         ELSE p[key] \in DOMAIN DoubleTexts \cup DOMAIN BoolTexts

\* What the conversion loses: of the commands whose payload is right, those with
\* an ambiguous field, a velocity component or a volume of 0 or 1 included, are
\* rejected, and only those.
OnlyAmbiguousLost ==
  reply # "none" /\ HasDispatcher /\ MeantAccepted /\ commandTypeFromName(message.type) # "Custom"
    => (reply = "Rejected" <=> Ambiguous(message.payload))
==============================================================================

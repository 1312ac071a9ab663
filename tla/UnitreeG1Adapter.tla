--------------------------- MODULE UnitreeG1Adapter ---------------------------
(***************************************************************************)
(* The Unitree G1 adapter (src/adapters/unitree/UnitreeG1Adapter.cpp) over *)
(* the facade LocoClientWrapper and the SDK wrapper.  The adapter adds a   *)
(* mutex held across a whole public call, including a join of the          *)
(* heartbeat worker, and two flags of its own that only its calls update.  *)
(*                                                                         *)
(* A call whose SDK part is one locked section is one step, since the      *)
(* flags it updates are guarded by the adapter's mutex.  Initialize,       *)
(* Connect, Disconnect, Shutdown and Update take the mutex, run their SDK  *)
(* steps, and give it back.                                                *)
(***************************************************************************)
EXTENDS SdkWrapper

CONSTANTS Timeout,         \* RobotConfig::timeout, in heartbeat units
          HasStateManager  \* TRUE when the adapter was given a state manager

VARIABLES adapter,  \* client_ exists, initialized_, connected_
          owner,    \* who holds the adapter's mutex
          stage     \* what the owner's call is doing

adapterVars == <<adapter, owner, stage>>

allVars == <<vars, adapterVars>>

AdapterInit == /\ Init
               /\ adapter = [client |-> FALSE, initialized |-> FALSE, connected |-> FALSE]
               /\ owner = Nobody /\ stage = "none"

\* LocoClientWrapper::StartCommunication derives the options from the timeout.
LocoOptions == [heartbeat_interval |-> Timeout, reconnect_interval |-> 2 * Timeout,
                connection_timeout |-> 3 * Timeout]

\* LocoClientWrapper::SetRobotStateManager installs a callback that updates it.
SetRobotStateManager(c) == SetStateUpdateCallback(c, TRUE)

MarkFailureIfNeeded(a, code) == IF Succeeded(code) THEN a ELSE [a EXCEPT !.connected = FALSE]

Locks(c, s) == owner = Nobody /\ owner' = c /\ stage' = s

Holds(c, s) == owner = c /\ stage = s /\ pc[c] = "idle"

Unlocks == owner' = Nobody /\ stage' = "none"

\* Initialize validates its configuration, which does not change, creates the
\* client on the first call and hands it the state manager ...
AdapterInitialize(c) ==
  /\ Locks(c, "initialize")
  /\ adapter' = [adapter EXCEPT !.client = TRUE]
  /\ IF HasStateManager THEN SetRobotStateManager(c) ELSE pc[c] = "idle" /\ UNCHANGED vars

\* ... and initializes it; the channel is created inside the same call.
AdapterInitializesClient(c) ==
  /\ Holds(c, "initialize")
  /\ Initialize(c)
  /\ stage' = "initialized" /\ UNCHANGED <<adapter, owner>>

AdapterInitialized(c) ==
  /\ Holds(c, "initialized")
  /\ adapter' = IF Succeeded(result[c])
                THEN [adapter EXCEPT !.initialized = TRUE, !.connected = FALSE]
                ELSE MarkFailureIfNeeded(adapter, result[c])
  /\ Unlocks /\ UNCHANGED vars

\* Connect verifies the link ...
AdapterConnect(c) ==
  /\ Locks(c, "connect") /\ adapter.client
  /\ Connect(c)
  /\ UNCHANGED adapter

\* ... and starts the heartbeat worker whatever the answer was; the call
\* succeeds only if both did.
AdapterStartsMonitoring(c) ==
  /\ Holds(c, "connect")
  /\ StartCommunication(c, LocoOptions) \/ StartCommunicationFails(c, LocoOptions)
  /\ LET code == IF Succeeded(result[c]) THEN result'[c] ELSE result[c]
     IN  adapter' = IF Succeeded(code)
                    THEN [adapter EXCEPT !.initialized = TRUE, !.connected = TRUE]
                    ELSE MarkFailureIfNeeded(adapter, code)
  /\ Unlocks

AdapterDisconnect(c) ==
  /\ Locks(c, "disconnect") /\ adapter.client
  /\ StopCommunication(c, "Disconnect")
  /\ UNCHANGED adapter

AdapterDisconnected(c) ==
  /\ Holds(c, "disconnect")
  /\ adapter' = [adapter EXCEPT !.connected = FALSE]
  /\ Unlocks /\ UNCHANGED vars

AdapterShutdown(c) ==
  /\ Locks(c, "shutdown") /\ adapter.client
  /\ StopCommunication(c, "Shutdown")
  /\ UNCHANGED adapter

AdapterShutDown(c) ==
  /\ Holds(c, "shutdown")
  /\ adapter' = [adapter EXCEPT !.initialized = FALSE, !.connected = FALSE]
  /\ Unlocks /\ UNCHANGED vars

\* One synchronization on the caller's thread; the flags are not touched.
AdapterUpdate(c) ==
  /\ Locks(c, "update") /\ adapter.client
  /\ Synchronize(c)
  /\ UNCHANGED adapter

AdapterUpdated(c) == Holds(c, "update") /\ Unlocks /\ UNCHANGED <<vars, adapter>>

\* A command needs the client and the mutex; a failure lowers the flag.
Executes(c, step) ==
  /\ owner = Nobody /\ adapter.client
  /\ step
  /\ adapter' = MarkFailureIfNeeded(adapter, result'[c])
  /\ UNCHANGED <<owner, stage>>

AdapterStandUp(c) == Executes(c, StandUp(c))

AdapterSit(c) == Executes(c, Sit(c))

AdapterBalanceStand(c) == Executes(c, BalanceStand(c))

\* Velocities that are not finite or exceed the limits never reach the client.
AdapterMove(c, velocity) == velocity = "within" /\ Executes(c, Move(c, TRUE))

AdapterStop(c) == Executes(c, Stop(c))

\* After an emergency stop the adapter is disconnected even if it succeeded.
AdapterEmergencyStop(c) ==
  /\ owner = Nobody /\ adapter.client
  /\ EmergencyStop(c)
  /\ adapter' = [adapter EXCEPT !.connected = FALSE]
  /\ UNCHANGED <<owner, stage>>

\* The framework's generic commands; the types that are not listed are
\* rejected without touching the adapter.
ExecuteCommand(c, type) ==
  \/ type = "Stand" /\ AdapterStandUp(c)
  \/ type = "Sit" /\ AdapterSit(c)
  \/ /\ type \in {"Walk", "Move", "Velocity", "Rotate"}
     /\ \E velocity \in {"within", "beyond", "nonfinite"} : AdapterMove(c, velocity)
  \/ type = "Stop" /\ AdapterStop(c)
  \/ type = "EmergencyStop" /\ AdapterEmergencyStop(c)

CommandTypes == {"Stand", "Sit", "Move", "Stop", "EmergencyStop", "Custom"}

\* The state the adapter itself reports.
GetRobotState == [connected |-> adapter.connected,
                  robotMode |-> IF adapter.initialized THEN 1 ELSE 0]

AdapterStep(c) ==
  \/ AdapterInitialize(c) \/ AdapterInitializesClient(c) \/ AdapterInitialized(c)
  \/ AdapterConnect(c) \/ AdapterStartsMonitoring(c)
  \/ AdapterDisconnect(c) \/ AdapterDisconnected(c)
  \/ AdapterShutdown(c) \/ AdapterShutDown(c)
  \/ AdapterUpdate(c) \/ AdapterUpdated(c) \/ AdapterBalanceStand(c)
  \/ \E type \in CommandTypes : ExecuteCommand(c, type)

AdapterNext == \/ \E c \in Clients : AdapterStep(c) \/ (Continues(c) /\ UNCHANGED adapterVars)
               \/ /\ (\E w \in Workers : WorkerStep(w)) \/ DdsStep \/ LinkChanges \/ Elapse
                  /\ UNCHANGED adapterVars

AdapterSpec == AdapterInit /\ [][AdapterNext]_allVars

\* The owner of the mutex finishes its call.
Returning(c) == \/ Continues(c) /\ UNCHANGED adapterVars
                \/ AdapterInitializesClient(c) \/ AdapterInitialized(c)
                \/ AdapterStartsMonitoring(c) \/ AdapterDisconnected(c) \/ AdapterShutDown(c)
                \/ AdapterUpdated(c)

(***************************************************************************)
(* Properties.                                                             *)
(***************************************************************************)

\* Between calls the adapter and the SDK wrapper agree on whether they are
\* initialized, however calls of several threads were ordered and failed.
AdapterAgreesOnLifecycle == owner = Nobody => adapter.initialized = impl.initialized

\* An adapter that reports a connection is monitored: the worker that notices
\* a lost link is running.
ConnectedIsMonitored ==
  (owner = Nobody /\ GetRobotState.connected) => impl.initialized /\ comm.running

\* The adapter's own flag follows the link: when the robot stays away and the
\* worker monitors it, the adapter ends up disconnected.
AdapterNoticesLoss == <>[](link = "down" /\ Monitoring) => <>[](~GetRobotState.connected)
==============================================================================

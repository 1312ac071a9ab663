------------------------------- MODULE MCSdk -------------------------------
(***************************************************************************)
(* Small instances of the Unitree SDK wrapper and of the two adapters built *)
(* on it.  In a behaviour the wrapper is called directly, for its life      *)
(* cycle or for commands, or through the adapter of src/adapters (A) or the *)
(* adapter of the G1 plugin (G); the variables of an adapter that is not    *)
(* used hold "unused".                                                      *)
(***************************************************************************)
EXTENDS SdkWrapper

VARIABLES part,   \* who calls the wrapper
          adapter, flags, latest_state, hand, audio, owner, stage, reached, stored, closed

CONSTANTS c1, c2, w1

Valid == [network_interface |-> TRUE, timeout |-> TRUE, domain_id |-> TRUE,
          interface_exists |-> TRUE, netlink |-> TRUE]

\* A good configuration and one with a non-positive timeout.
MCConfigurations == {Valid, [Valid EXCEPT !.timeout = FALSE]}

\* A timeout shorter than the heartbeat.
MCOptions == {[heartbeat_interval |-> 2, reconnect_interval |-> 1, connection_timeout |-> 1]}

Commands == {"Move", "Stop", "StandUp", "Sit", "BalanceStand", "EmergencyStop"}

\* Commands and low-state messages, one of which reports a motor fault.
C == INSTANCE SdkWrapper WITH
       Configurations <- {Valid}, Options <- {DefaultOptions}, CallbackAtStart <- FALSE,
       MotorFaults <- {0, 1},
       Calls <- Commands \cup {"Initialize", "Connect", "SynchronizeState", "Disconnect"}

\* A callback that comes and goes.
D == INSTANCE SdkWrapper WITH
       Configurations <- {Valid}, Options <- {}, CallbackAtStart <- FALSE, MotorFaults <- {},
       Calls <- {"Initialize", "Connect", "SetStateUpdateCallback", "SynchronizeState",
                 "Shutdown"}

\* Two threads call the adapter.
A == INSTANCE UnitreeG1Adapter WITH
       Clients <- {c1, c2}, Configurations <- {Valid}, Options <- {},
       CallbackAtStart <- FALSE, Timeout <- 1, HasStateManager <- FALSE,
       Calls <- {"Initialize", "Connect", "StartCommunication", "Disconnect", "Shutdown"}

\* A thread calls an adapter that was given a state manager.
M == INSTANCE UnitreeG1Adapter WITH
       Configurations <- {Valid}, Options <- {}, CallbackAtStart <- FALSE, Timeout <- 1,
       HasStateManager <- TRUE,
       Calls <- {"Initialize", "Connect", "StartCommunication", "Shutdown",
                 "SetStateUpdateCallback"}

\* One thread uses every operation of it.
B == INSTANCE UnitreeG1Adapter WITH
       Configurations <- {Valid}, Options <- {}, CallbackAtStart <- FALSE,
       Timeout <- 1, HasStateManager <- FALSE,
       Calls <- Commands \cup {"Initialize", "Connect", "StartCommunication",
                               "SynchronizeState"}

\* One thread calls the plugin's adapter, whose other clients may fail.
G == INSTANCE G1PluginAdapter WITH
       Configurations <- {Valid}, Options <- {}, CallbackAtStart <- FALSE, Timeout <- 1,
       HasStateManager <- FALSE, ClientBuilds <- {TRUE},
       Calls <- {"SetStateUpdateCallback", "Initialize", "Connect", "StartCommunication",
                 "Shutdown"}

\* The same on a host where the worker cannot be started, with every command, ...
H == INSTANCE G1PluginAdapter WITH
       Workers <- {}, Configurations <- {Valid}, Options <- {}, CallbackAtStart <- FALSE,
       Timeout <- 1, HasStateManager <- FALSE, ClientBuilds <- {TRUE},
       Calls <- Commands \cup {"SetStateUpdateCallback", "Initialize", "Connect",
                               "StartCommunication", "Disconnect", "Shutdown"}

\* ... and with updates and low-state messages that reach a state manager.
U == INSTANCE G1PluginAdapter WITH
       Workers <- {}, Configurations <- {Valid}, Options <- {}, CallbackAtStart <- FALSE,
       MotorFaults <- {0}, Timeout <- 1, HasStateManager <- TRUE, ClientBuilds <- {TRUE},
       Calls <- {"SetStateUpdateCallback", "Initialize", "Connect", "StartCommunication",
                 "Shutdown", "SynchronizeState"}

ASSUME MaxAgeAssumption

pluginVars == <<flags, latest_state, hand, audio, reached, stored, closed>>
allVars == <<part, vars, adapter, owner, stage, pluginVars>>

NoPlugin == /\ flags = "unused" /\ latest_state = "unused" /\ hand = "unused"
            /\ audio = "unused" /\ reached = "unused" /\ stored = "unused"
            /\ closed = "unused"

NoAdapter == adapter = "unused" /\ owner = "unused" /\ stage = "unused"

MCInit ==
  \/ part = "wrapper" /\ Init /\ NoAdapter /\ NoPlugin
  \/ part = "commands" /\ C!Init /\ NoAdapter /\ NoPlugin
  \/ part = "callback" /\ D!Init /\ NoAdapter /\ NoPlugin
  \/ part = "adapter" /\ A!AdapterInit /\ NoPlugin
  \/ part = "managed adapter" /\ M!AdapterInit /\ NoPlugin
  \/ part = "adapter commands" /\ B!AdapterInit /\ NoPlugin
  \/ part = "plugin" /\ G!PluginInit /\ adapter = "unused"
  \/ part = "plugin commands" /\ H!PluginInit /\ adapter = "unused"
  \/ part = "plugin updates" /\ U!PluginInit /\ adapter = "unused"

MCNext ==
  \/ part = "wrapper" /\ Next /\ UNCHANGED <<part, adapter, owner, stage, pluginVars>>
  \/ part = "commands" /\ C!Next /\ UNCHANGED <<part, adapter, owner, stage, pluginVars>>
  \/ part = "callback" /\ D!Next /\ UNCHANGED <<part, adapter, owner, stage, pluginVars>>
  \/ part = "adapter" /\ A!AdapterNext /\ UNCHANGED <<part, pluginVars>>
  \/ part = "managed adapter" /\ M!AdapterNext /\ UNCHANGED <<part, pluginVars>>
  \/ part = "adapter commands" /\ B!AdapterNext /\ UNCHANGED <<part, pluginVars>>
  \/ part = "plugin" /\ G!PluginNext /\ UNCHANGED <<part, adapter>>
  \/ part = "plugin commands" /\ H!PluginNext /\ UNCHANGED <<part, adapter>>
  \/ part = "plugin updates" /\ U!PluginNext /\ UNCHANGED <<part, adapter>>

MCSpec == MCInit /\ [][MCNext]_allVars

\* The worker is joined before the running flag falls, and there is only one,
\* whether one thread calls the wrapper directly or two call it through the
\* adapter, whose mutex serializes them.  (Two direct callers of StopCommunication
\* break it: the second finds no thread to join and lowers the flag.)
WorkerIsJoined ==
  part \notin {"plugin commands", "plugin updates"} => StoppedMeansJoined /\ OneWorker

\* Where no low-state messages come, the RobotStateManager hears of a Shutdown of
\* the wrapper last.
ShutdownIsPublishedLast == part = "wrapper" => ManagerSeesShutdown

\* UnitreeG1Adapter: between calls the adapter and the wrapper agree on whether
\* they are initialized.
AdapterAgreesOnLifecycle ==
  /\ part = "adapter" => A!AdapterAgreesOnLifecycle
  /\ part = "adapter commands" => B!AdapterAgreesOnLifecycle

\* UnitreeG1Adapter: an adapter that reports a connection is monitored by a worker.
ConnectedIsMonitored ==
  /\ part = "adapter" => A!ConnectedIsMonitored
  /\ part = "adapter commands" => B!ConnectedIsMonitored

\* G1PluginAdapter: a connected adapter advertises gestures and audio only when
\* those clients reached the robot.
CapabilitiesAreServed ==
  /\ part = "plugin" => G!CapabilitiesAreServed
  /\ part = "plugin commands" => H!CapabilitiesAreServed
  /\ part = "plugin updates" => U!CapabilitiesAreServed

\* G1PluginAdapter: an adapter that its one caller has shut down reports no
\* connection and owns no client.  (A Connect of a second thread can break it: it
\* checks initialized_ in one locked section and sets connected_ in a later one.)
InactiveOnceShutDown ==
  /\ part = "plugin" => G!InactiveOnceShutDown
  /\ part = "plugin commands" => H!InactiveOnceShutDown
  /\ part = "plugin updates" => U!InactiveOnceShutDown

\* SdkWrapper, called by one thread, directly or through the plugin's adapter, or by two
\* through the mutex of UnitreeG1Adapter: the worker is joined before the running flag
\* falls, released resources are closed, the wrapper is connected only on evidence of the
\* link and leaves a fault only on evidence, and the end of a Shutdown is the last state
\* published, though the worker and the middleware's reader run beside the callers.
\* (Calls of two threads that no mutex serializes break the first two: a second
\* StopCommunication lowers the flag while the first joins, and a Shutdown between the
\* two sections of Initialize leaves the channel open.)
WrapperIsSound ==
  /\ [](WorkerIsJoined /\ ReleasedMeansClosed /\ ConnectedOnEvidence /\ ShutdownIsPublishedLast)
  /\ FaultLeftOnEvidence

\* UnitreeG1Adapter and G1PluginAdapter: adapter and wrapper agree on their lifecycle, a
\* connection that is reported is monitored, the capabilities advertised are served, and
\* an adapter that was shut down reports and owns nothing.
AdaptersAreSound ==
  /\ AdapterAgreesOnLifecycle /\ ConnectedIsMonitored
  /\ CapabilitiesAreServed /\ InactiveOnceShutDown
=============================================================================

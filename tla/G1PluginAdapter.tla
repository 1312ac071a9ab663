--------------------------- MODULE G1PluginAdapter ---------------------------
(***************************************************************************)
(* The RobotAdapter of the Unitree G1 plugin                               *)
(* (plugins/unitree/g1/src/UnitreeG1Adapter.cpp, built with the SDK) over  *)
(* the SDK wrapper, the arm action client (HandAdapter.cpp) and the audio  *)
(* client (AudioAdapter.cpp).                                              *)
(*                                                                         *)
(* Unlike the adapter of src/adapters, this one holds its mutex across     *)
(* Initialize and ExecuteCommand only: Connect, Disconnect, Shutdown and   *)
(* Update call the SDK between two locked sections, and the state callback *)
(* that the heartbeat worker and the middleware run takes the same mutex.  *)
(* A call is a walk through stages; each step is one locked section of the *)
(* adapter or of one of its parts.                                         *)
(***************************************************************************)
EXTENDS SdkWrapper

CONSTANTS Timeout,        \* SdkConfiguration::timeout, in heartbeat units
          HasStateManager,\* FALSE when the adapter was built without a RobotStateManager
          ClientBuilds    \* whether the arm and audio clients can be built

VARIABLES flags,        \* initialized_, connected_, hand_available_, audio_available_
          latest_state, \* latest_state_, vendor independent
          hand, audio,  \* the flags of the two client adapters
          owner,        \* who holds mutex_ across several steps
          stage,        \* how far each client's call has come
          reached,      \* Connect's local hand_ and audio_ flags
          stored,       \* the threads between the two halves of the state callback
          closed        \* history: Disconnect returned, and no Connect was called since

pluginVars == <<flags, latest_state, hand, audio, owner, stage, reached, stored, closed>>

allVars == <<vars, pluginVars>>

NoState == ToCoreRobotState(NewState)

PluginInit ==
  /\ Init
  /\ flags = [initialized |-> FALSE, connected |-> FALSE, hand |-> FALSE, audio |-> FALSE]
  /\ latest_state = NoState
  /\ hand = LocoInit /\ audio = LocoInit
  /\ owner = Nobody /\ stored = {} /\ closed = FALSE
  /\ stage = [c \in Clients |-> "none"]
  /\ reached = [c \in Clients |-> [hand |-> FALSE, audio |-> FALSE]]

(***************************************************************************)
(* The arm and audio clients.  They validate, build and guard their vendor *)
(* client the way the locomotion adapter does.                             *)
(***************************************************************************)

HandInitialize(a, config, built) == LocoInitialize(a, config, built)

AudioInitialize(a, config, built) == LocoInitialize(a, config, built)

HandShutdown(a) == LocoInit

AudioShutdown(a) == LocoInit

\* A read-only query decides whether the client is connected: the list of arm
\* actions, ...
HandConnect(a, answer) == GetFsmId(a, answer)

\* ... and the volume.
AudioConnect(a, answer) == GetFsmId(a, answer)

\* Finger commands are not part of the vendor's arm client.
HandOpenClose == "Unknown"

Gesture(a, answer) == Guarded(RequireConnected(a), answer, "RobotFault")

\* Play, Stop, SetVolume and Mute look at their argument before the mutex.
AudioCommand(a, valid, answer) ==
  IF valid THEN Guarded(RequireConnected(a), answer, "RobotFault") ELSE "Unknown"

(***************************************************************************)
(* Lifecycle calls.                                                        *)
(***************************************************************************)

At(c, s) == stage[c] = s /\ pc[c] = "idle"

Goes(c, s) == stage' = [stage EXCEPT ![c] = s]

Unlocked == owner = Nobody

\* Initialize installs the state callback, ...
AdapterInitialize(c) ==
  /\ At(c, "none") /\ Unlocked /\ ~flags.initialized
  /\ SetStateUpdateCallback(c, TRUE)
  /\ owner' = c /\ Goes(c, "initialize")
  /\ UNCHANGED <<flags, latest_state, hand, audio, reached, stored, closed>>

\* ... initializes the wrapper, channel included, ...
AdapterInitializesWrapper(c) ==
  /\ At(c, "initialize")
  /\ Initialize(c)
  /\ Goes(c, "initialized")
  /\ UNCHANGED <<flags, latest_state, hand, audio, owner, reached, stored, closed>>

\* ... and the two other clients, which may fail.
AdapterInitialized(c) ==
  /\ At(c, "initialized")
  /\ IF Succeeded(result[c])
     THEN \E config \in Configurations, arm \in ClientBuilds, sound \in ClientBuilds :
            LET h == HandInitialize(hand, config, arm)
                a == AudioInitialize(audio, config, sound)
            IN  /\ hand' = h.loco /\ audio' = a.loco
                /\ flags' = [flags EXCEPT !.initialized = TRUE, !.hand = Succeeded(h.code),
                                          !.audio = Succeeded(a.code)]
     ELSE UNCHANGED <<flags, hand, audio>>
  /\ owner' = Nobody /\ Goes(c, "none")
  /\ UNCHANGED <<vars, latest_state, reached, stored, closed>>

\* Shutdown releases the wrapper, ...
AdapterShutdown(c) ==
  /\ At(c, "none")
  /\ StopCommunication(c, "Shutdown")
  /\ Goes(c, "shutdown")
  /\ UNCHANGED <<flags, latest_state, hand, audio, owner, reached, stored, closed>>

\* ... the other clients, ...
AdapterReleasesClients(c) ==
  /\ At(c, "shutdown")
  /\ hand' = HandShutdown(hand) /\ audio' = AudioShutdown(audio)
  /\ Goes(c, "released")
  /\ UNCHANGED <<vars, flags, latest_state, owner, reached, stored, closed>>

\* ... and then its own state.
AdapterShutDown(c) ==
  /\ At(c, "released") /\ owner \in {Nobody, c}
  /\ flags' = [initialized |-> FALSE, connected |-> FALSE, hand |-> FALSE, audio |-> FALSE]
  /\ latest_state' = NoState
  /\ owner' = Nobody /\ Goes(c, "none")
  /\ UNCHANGED <<vars, hand, audio, reached, stored, closed>>

\* Connect looks at initialized_, ...
AdapterConnect(c) ==
  /\ At(c, "none") /\ Unlocked /\ flags.initialized
  /\ closed' = FALSE /\ Goes(c, "connect")
  /\ UNCHANGED <<vars, flags, latest_state, hand, audio, owner, reached, stored>>

\* ... verifies the link, ...
AdapterConnectsWrapper(c) ==
  /\ At(c, "connect")
  /\ Connect(c)
  /\ Goes(c, "linked")
  /\ UNCHANGED <<flags, latest_state, hand, audio, owner, reached, stored, closed>>

CommunicationOptions == [heartbeat_interval |-> Timeout, reconnect_interval |-> 2 * Timeout,
                         connection_timeout |-> 3 * Timeout]

\* ... starts the heartbeat worker, ...
AdapterStartsWorker(c) ==
  /\ At(c, "linked") /\ Succeeded(result[c])
  /\ StartCommunication(c, CommunicationOptions) \/ StartCommunicationFails(c, CommunicationOptions)
  /\ Goes(c, IF Succeeded(result'[c]) THEN "monitored" ELSE "failed")
  /\ UNCHANGED <<flags, latest_state, hand, audio, owner, reached, stored, closed>>

\* A failed link or worker ends the call.
AdapterConnectFails(c) ==
  /\ At(c, "failed") \/ (At(c, "linked") /\ ~Succeeded(result[c]))
  /\ Unlocked
  /\ flags' = [flags EXCEPT !.connected = FALSE]
  /\ Goes(c, "none")
  /\ UNCHANGED <<vars, latest_state, hand, audio, owner, reached, stored, closed>>

\* ... reads which of the other clients there are, ...
AdapterReadsAvailable(c) ==
  /\ At(c, "monitored") /\ Unlocked
  /\ reached' = [reached EXCEPT ![c] = [hand |-> flags.hand, audio |-> flags.audio]]
  /\ Goes(c, "clients")
  /\ UNCHANGED <<vars, flags, latest_state, hand, audio, owner, stored, closed>>

\* Fault: the answers of the other clients are not looked at.
AdapterTrustsClients(c) ==
  /\ At(c, "clients")
  /\ \E arm \in Answers, sound \in Answers :
       LET h == HandConnect(hand, arm)
           a == AudioConnect(audio, sound)
       IN  /\ hand' = IF reached[c].hand THEN h.loco ELSE hand
           /\ audio' = IF reached[c].audio THEN a.loco ELSE audio
  /\ UNCHANGED reached
  /\ Goes(c, "reached")
  /\ UNCHANGED <<vars, flags, latest_state, owner, stored, closed>>

\* ... connects those, ...
AdapterConnectsClients(c) ==
  /\ At(c, "clients")
  /\ \E arm \in Answers, sound \in Answers :
       LET h == HandConnect(hand, arm)
           a == AudioConnect(audio, sound)
       IN  /\ hand' = IF reached[c].hand THEN h.loco ELSE hand
           /\ audio' = IF reached[c].audio THEN a.loco ELSE audio
           /\ reached' = [reached EXCEPT ![c] = [hand |-> @.hand /\ Succeeded(h.code),
                                                 audio |-> @.audio /\ Succeeded(a.code)]]
  /\ Goes(c, "reached")
  /\ UNCHANGED <<vars, flags, latest_state, owner, stored, closed>>

Publishes(state) ==
  /\ latest_state' = state
  /\ manager' = IF HasStateManager THEN state ELSE manager
  /\ UNCHANGED <<impl, latest, loco, comm, subscriber, callback, pc, snap, moved, op, result,
                 link, aborted>>

\* ... and records what it found, without looking at initialized_ again.
AdapterConnected(c) ==
  /\ At(c, "reached") /\ Unlocked
  /\ flags' = [flags EXCEPT !.hand = reached[c].hand, !.audio = reached[c].audio,
                            !.connected = TRUE]
  /\ Publishes([ToCoreRobotState(latest) EXCEPT !.connected = TRUE])
  /\ Goes(c, "none")
  /\ UNCHANGED <<hand, audio, owner, reached, stored, closed>>

\* Disconnect stops the worker and the link; the arm and audio clients stay.
AdapterDisconnect(c) ==
  /\ At(c, "none")
  /\ StopCommunication(c, "Disconnect")
  /\ Goes(c, "disconnect")
  /\ UNCHANGED <<flags, latest_state, hand, audio, owner, reached, stored, closed>>

AdapterDisconnected(c) ==
  /\ At(c, "disconnect") /\ Unlocked
  /\ flags' = [flags EXCEPT !.connected = FALSE]
  /\ Publishes([latest_state EXCEPT !.connected = FALSE])
  /\ closed' = TRUE /\ Goes(c, "none")
  /\ UNCHANGED <<hand, audio, owner, reached, stored>>

\* Update: a heartbeat on the caller's thread, and its outcome.
AdapterUpdate(c) ==
  /\ At(c, "none") /\ Unlocked /\ flags.initialized /\ "SynchronizeState" \in Calls
  /\ Goes(c, "update")
  /\ UNCHANGED <<vars, flags, latest_state, hand, audio, owner, reached, stored, closed>>

AdapterSynchronizes(c) ==
  /\ At(c, "update")
  /\ Synchronize(c)
  /\ Goes(c, "synchronized")
  /\ UNCHANGED <<flags, latest_state, hand, audio, owner, reached, stored, closed>>

\* The wrapper is asked for its state and then, once more, for its connection,
\* both under the adapter's mutex.
AdapterReadsState(c) ==
  /\ At(c, "synchronized") /\ Unlocked
  /\ latest_state' = ToCoreRobotState(latest)
  /\ owner' = c /\ Goes(c, "read")
  /\ UNCHANGED <<vars, flags, hand, audio, reached, stored, closed>>

AdapterUpdated(c) ==
  /\ At(c, "read")
  /\ Publishes([latest_state EXCEPT !.connected = impl.connected])
  /\ owner' = Nobody /\ Goes(c, "none")
  /\ UNCHANGED <<flags, hand, audio, reached, stored, closed>>

(***************************************************************************)
(* Commands and the state callback.                                        *)
(***************************************************************************)

\* A command of the arm or audio client, which leaves the wrapper alone.
ClientCommand(c, code) ==
  /\ ~aborted /\ Returns(c, code)
  /\ UNCHANGED <<impl, latest, loco, comm, subscriber, callback, pc, snap, moved, op, manager,
                 link, aborted>>

\* ExecuteCommand runs under the mutex.  A payload that lacks a field, an unknown
\* gesture and a custom command are rejected and change nothing.
ExecuteCommand(c) ==
  /\ At(c, "none") /\ Unlocked /\ flags.initialized
  /\ \/ /\ \/ StandUp(c) \/ Sit(c) \/ Stop(c)
           \/ \E finite \in BOOLEAN : Move(c, finite)
           \/ ClientCommand(c, HandOpenClose)
           \/ \E answer \in MotionAnswers : ClientCommand(c, Gesture(hand, answer))
           \/ \E valid \in BOOLEAN, answer \in MotionAnswers :
                ClientCommand(c, AudioCommand(audio, valid, answer))
        /\ UNCHANGED flags
     \/ EmergencyStop(c) /\ flags' = [flags EXCEPT !.connected = FALSE]
  /\ UNCHANGED <<latest_state, hand, audio, owner, stage, reached, stored, closed>>

\* The callback stores the state under the mutex, and updates the state manager
\* after it.
CallbackStores(a) ==
  /\ ~aborted /\ pc[a] = "publish" /\ snap[a] # Nobody /\ a \notin stored
  /\ Unlocked
  /\ latest_state' = ToCoreRobotState(snap[a])
  /\ stored' = stored \cup {a}
  /\ UNCHANGED <<vars, flags, hand, audio, owner, stage, reached, closed>>

CallbackEnds(a) ==
  /\ ~aborted /\ pc[a] = "publish"
  /\ pc' = [pc EXCEPT ![a] = IF a \in Workers THEN "check" ELSE "idle"]
  /\ snap' = [snap EXCEPT ![a] = Nobody]
  /\ op' = [c \in Clients |-> IF c = a THEN "none" ELSE op[c]]
  /\ UNCHANGED <<impl, latest, loco, comm, subscriber, callback, result, manager, link,
                 aborted, moved>>

CallbackUpdates(a) ==
  /\ snap[a] # Nobody => a \in stored
  /\ IF HasStateManager THEN Publish(a) ELSE CallbackEnds(a)
  /\ stored' = stored \ {a}
  /\ UNCHANGED <<flags, latest_state, hand, audio, owner, stage, reached, closed>>

Callback(a) == CallbackStores(a) \/ CallbackUpdates(a)

-----------------------------------------------------------------------------
\* The steps of a call that was begun.
Returning(c) ==
  \/ AdapterInitializesWrapper(c) \/ AdapterInitialized(c)
  \/ AdapterReleasesClients(c) \/ AdapterShutDown(c)
  \/ AdapterConnectsWrapper(c) \/ AdapterStartsWorker(c) \/ AdapterConnectFails(c)
  \/ AdapterReadsAvailable(c) \/ AdapterConnectsClients(c) \/ AdapterConnected(c)
  \/ AdapterDisconnected(c) \/ AdapterSynchronizes(c) \/ AdapterReadsState(c)
  \/ AdapterUpdated(c)
  \/ Callback(c)
  \/ /\ OpenChannel(c) \/ DropChannel(c) \/ StoreChannel(c) \/ JoinWorker(c) \/ LowerFlags(c)
        \/ Disconnect(c) \/ Shutdown(c)
     /\ UNCHANGED pluginVars

PluginWorkerStep(w) ==
  \/ Callback(w)
  \/ /\ WorkerEnds(w) \/ WorkerWaits(w) \/ WorkerTimesOut(w) \/ WorkerBeats(w)
     /\ UNCHANGED pluginVars

PluginNext ==
  \/ \E c \in Clients : \/ AdapterInitialize(c) \/ AdapterShutdown(c) \/ AdapterConnect(c)
                         \/ AdapterDisconnect(c) \/ AdapterUpdate(c) \/ ExecuteCommand(c)
                         \/ Returning(c)
  \/ \E w \in Workers : PluginWorkerStep(w)
  \/ Callback(Dds)
  \/ (LowStateArrives \/ LowStateHandler \/ LinkChanges \/ Elapse) /\ UNCHANGED pluginVars

PluginSpec == PluginInit /\ [][PluginNext]_allVars

(***************************************************************************)
(* Properties.                                                             *)
(***************************************************************************)

\* What GetCommandCapabilities advertises is served: on a connected adapter the
\* gesture and audio capabilities stand for clients that reached the robot.
CapabilitiesAreServed ==
  (\A c \in Clients : stage[c] = "none") /\ flags.connected
    => (flags.hand => hand.connected) /\ (flags.audio => audio.connected)

\* RobotAdapter::Shutdown "returns the adapter to an inactive state": an adapter
\* that is not initialized reports no connection and owns no client.
InactiveOnceShutDown ==
  (\A c \in Clients : stage[c] = "none") /\ ~flags.initialized
    => ~flags.connected /\ ~hand.initialized /\ ~audio.initialized /\ ~comm.running

\* The plugin's test of the adapter: the state it returns and IsConnected agree.
StateAgreesWithFlag ==
  (\A c \in Clients : stage[c] = "none") => latest_state.connected = flags.connected

\* Disconnect "disconnects robot communication": until the next Connect none of
\* the adapter's clients is connected.
DisconnectClosesAll ==
  (\A c \in Clients : stage[c] = "none") /\ closed
    => ~loco.connected /\ ~hand.connected /\ ~audio.connected
==============================================================================

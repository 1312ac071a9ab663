------------------------------ MODULE SdkWrapper ------------------------------
(***************************************************************************)
(* The vendor SDK boundary of the Unitree plugin                           *)
(* (plugins/unitree/sdk/SdkWrapper.cpp): the connection state machine, the *)
(* heartbeat worker with its timeout and reconnect rules, the low-state    *)
(* channel of the vendor's middleware, and the snapshots published to the  *)
(* RobotStateManager.                                                      *)
(*                                                                         *)
(* Every section under the wrapper's mutex is one step.  Publishing is a   *)
(* step of its own, since the callback runs after the mutex is released;   *)
(* so are joining the worker and creating the low-state channel.  Time is  *)
(* counted in heartbeat units; ages saturate at MaxAge.                    *)
(***************************************************************************)
EXTENDS Integers, FiniteSets

(* The locomotion adapter over the vendor's client                        *)
(* (plugins/unitree/sdk/LocoAdapter.cpp) and the call conventions of      *)
(* SdkClientSupport.h.  The adapter keeps two flags of its own: whether   *)
(* its client exists and whether the last query reached the robot.  Every *)
(* public function holds the adapter's mutex from beginning to end, so a  *)
(* call is a function from the flags and the vendor's answer to the new   *)
(* flags and a result code.  The vendor's client is external: all that is *)
(* seen of it is whether a call returned zero.                            *)

\* Result codes of the SDK boundary.
SdkErrorCode == {"Success", "SdkUnavailable", "ConnectionFailed", "Timeout",
                 "RobotFault", "Unknown"}

Succeeded(code) == code = "Success"

\* A vendor call returns zero, or anything else, or throws.
FromSdkReturn(zero, failure_code) == IF zero THEN "Success" ELSE failure_code

InvokeSdkCommand(answer, failure_code) == FromSdkReturn(answer, failure_code)

\* What a configuration can get wrong before the vendor's client is built.
SdkConfiguration == [network_interface : BOOLEAN, timeout : BOOLEAN, domain_id : BOOLEAN,
                     interface_exists : BOOLEAN, netlink : BOOLEAN]

\* The first fault in the order the checks are made decides the code.
ValidateSdkConfiguration(c) ==
  IF ~c.network_interface THEN "ConnectionFailed"
  ELSE IF ~c.timeout THEN "Timeout"
  ELSE IF ~c.domain_id \/ ~c.interface_exists \/ ~c.netlink THEN "ConnectionFailed"
  ELSE "Success"

LocoInit == [initialized |-> FALSE, connected |-> FALSE]

RequireInitialized(l) == IF l.initialized THEN "Success" ELSE "ConnectionFailed"

RequireConnected(l) == IF l.initialized /\ l.connected THEN "Success" ELSE "ConnectionFailed"

\* A vendor call behind a precondition.
Guarded(precondition, answer, failure_code) ==
  IF Succeeded(precondition) THEN InvokeSdkCommand(answer, failure_code) ELSE precondition

\* Building the client may throw; a failure leaves both flags down.
LocoInitialize(l, config, built) ==
  LET valid == ValidateSdkConfiguration(config)
      code == IF l.initialized THEN "Success"
              ELSE IF ~Succeeded(valid) THEN valid
              ELSE IF built THEN "Success" ELSE "ConnectionFailed"
  IN  [code |-> code,
       loco |-> IF l.initialized \/ ~Succeeded(valid) THEN l
                ELSE [initialized |-> built, connected |-> FALSE]]

LocoShutdown(l) == LocoInit

LocoDisconnect(l) == [l EXCEPT !.connected = FALSE]

\* The read-only query; its answer is the adapter's idea of the link.
GetFsmId(l, answer) ==
  LET code == Guarded(RequireInitialized(l), answer, "ConnectionFailed")
  IN  [code |-> code,
       loco |-> IF l.initialized THEN [l EXCEPT !.connected = Succeeded(code)] ELSE l]

Stand(l, answer) == Guarded(RequireConnected(l), answer, "RobotFault")

LocoBalanceStand(l, answer) == Guarded(RequireConnected(l), answer, "RobotFault")

LocoSit(l, answer) == Guarded(RequireConnected(l), answer, "RobotFault")

Walk(l, finite, answer) ==
  IF ~finite THEN "Unknown" ELSE Guarded(RequireConnected(l), answer, "RobotFault")

LocoStop(l, answer) == Guarded(RequireInitialized(l), answer, "RobotFault")

\* StopMove and then Damp, whatever the first answered; the first failure is
\* the result, and the link counts as lost either way.
LocoEmergencyStop(l, stopped, damped) ==
  [code |-> LET stop == Guarded(RequireInitialized(l), stopped, "RobotFault")
            IN  IF Succeeded(stop) THEN Guarded(RequireInitialized(l), damped, "RobotFault")
                ELSE stop,
   loco |-> LocoDisconnect(l)]

-----------------------------------------------------------------------------

CONSTANTS Clients,       \* threads that call the wrapper
          Workers,       \* identities of the heartbeat threads
          Dds,           \* the middleware's reader thread
          Nobody,        \* an empty thread handle, an empty snapshot
          Options,       \* option sets a client may pass, in heartbeat units
          Configurations,\* configurations a client may pass
          CallbackAtStart,\* TRUE when a callback is installed before the first call
          Calls,         \* the public operations the clients call
          MotorFaults,   \* fault codes low-state messages carry; none when silent
          MaxAge         \* age beyond which time points are not told apart

VARIABLES impl,        \* flags, states and time points of SdkWrapper::Impl
          latest,      \* latest_state_
          loco,        \* the locomotion adapter's flags
          comm,        \* communication_running_, stop_communication_requested_, thread
          subscriber,  \* low_state_subscriber_ holds an open channel
          callback,    \* a state update callback is installed
          pc,          \* where every thread is
          snap,        \* the snapshot a thread is about to publish
          moved,       \* the thread handle StopCommunication moved out of the wrapper
          op,          \* the public operation a client is inside
          result,      \* the code a client's last call returned
          manager,     \* the state held by the RobotStateManager
          link,        \* how the robot answers: up, down or flaky
          aborted      \* std::terminate was called

vars == <<impl, latest, loco, comm, subscriber, callback, pc, snap, moved, op, result,
          manager, link, aborted>>

\* The default timeout is told apart from anything older.
MaxAgeAssumption == MaxAge \in Nat /\ MaxAge >= 3

Never == -1

SdkConnectionState == {"Uninitialized", "Initialized", "Connected", "Disconnected",
                       "Shutdown", "Faulted"}

SdkMotionMode == {"Unknown", "Idle", "Standing", "Walking", "Sitting", "Faulted"}

SdkCommunicationOptions == [heartbeat_interval : 0 .. MaxAge, reconnect_interval : 0 .. MaxAge,
                            connection_timeout : 0 .. MaxAge]

SdkRobotState == [connection_state : SdkConnectionState, motion_mode : SdkMotionMode,
                  emergency_stop : BOOLEAN, fault_code : 0 .. 1, low_state_available : BOOLEAN]

DefaultOptions == [heartbeat_interval |-> 1, reconnect_interval |-> 2, connection_timeout |-> 3]

PositiveOrDefault(value, default) == IF value > 0 THEN value ELSE default

\* Non-positive intervals become the defaults; the link is never declared lost
\* before one heartbeat was due.
NormalizeCommunicationOptions(o) ==
  LET beat == PositiveOrDefault(o.heartbeat_interval, DefaultOptions.heartbeat_interval)
      timeout == PositiveOrDefault(o.connection_timeout, DefaultOptions.connection_timeout)
  IN  [heartbeat_interval |-> beat,
       reconnect_interval |-> PositiveOrDefault(o.reconnect_interval,
                                                DefaultOptions.reconnect_interval),
       connection_timeout |-> IF timeout < beat THEN beat ELSE timeout]

NewState == [connection_state |-> "Uninitialized", motion_mode |-> "Unknown",
             emergency_stop |-> FALSE, fault_code |-> 0, low_state_available |-> FALSE]

UpdateStateSample(state, connection, mode, emergency, fault) ==
  [state EXCEPT !.connection_state = connection, !.motion_mode = mode,
                !.emergency_stop = emergency, !.fault_code = fault]

UpdateStateAfterCommand(state, connection, mode, ok) ==
  UpdateStateSample(state, connection, mode, connection = "Faulted", IF ok THEN 0 ELSE 1)

\* A low-state message: the first motor fault becomes the fault code, and the
\* emergency flag is recomputed from it.
WithLowState(state, motor_fault) ==
  [state EXCEPT !.low_state_available = TRUE, !.fault_code = motor_fault,
                !.emergency_stop = motor_fault # 0]

\* The vendor-independent state a callback receives.
ToCoreRobotState(s) ==
  [connected |-> s.connection_state = "Connected", standing |-> s.motion_mode = "Standing",
   walking |-> s.motion_mode = "Walking", sitting |-> s.motion_mode = "Sitting",
   valid |-> s.low_state_available, emergencyStop |-> s.emergency_stop,
   faultCode |-> s.fault_code]

Impl == [initialized |-> FALSE, connected |-> FALSE, connection_state |-> "Uninitialized",
         motion_mode |-> "Unknown", last_successful_heartbeat |-> Never,
         last_reconnect_attempt |-> Never, options |-> DefaultOptions]

Actors == Clients \cup Workers \cup {Dds}

Init == /\ impl = Impl /\ latest = NewState /\ loco = LocoInit
        /\ comm = [running |-> FALSE, stop |-> FALSE, thread |-> Nobody]
        /\ subscriber = FALSE /\ callback = CallbackAtStart /\ aborted = FALSE
        /\ pc = [a \in Actors |-> IF a \in Workers THEN "unborn" ELSE "idle"]
        /\ snap = [a \in Actors |-> Nobody] /\ moved = [c \in Clients |-> Nobody]
        /\ op = [c \in Clients |-> "none"] /\ result = [c \in Clients |-> "Success"]
        /\ manager = ToCoreRobotState(NewState) /\ link = "up"

(***************************************************************************)
(* The robot and time.                                                     *)
(***************************************************************************)

\* What a vendor call may answer: a flaky link answers differently from one
\* call to the next.
Answers == CASE link = "up" -> {TRUE} [] link = "down" -> {FALSE} [] link = "flaky" -> BOOLEAN

\* A motion command may also be refused by a robot that is reached.
MotionAnswers == IF link = "down" THEN {FALSE} ELSE BOOLEAN

LinkChanges == /\ ~aborted
               /\ link' \in {"up", "down", "flaky"} \ {link}
               /\ UNCHANGED <<impl, latest, loco, comm, subscriber, callback, pc, snap, op,
                              result, manager, aborted, moved>>

Older(age) == IF age \in {Never, MaxAge} THEN age ELSE age + 1

Elapse == /\ ~aborted
          /\ impl' = [impl EXCEPT !.last_successful_heartbeat = Older(@),
                                  !.last_reconnect_attempt = Older(@)]
          /\ impl' # impl
          /\ UNCHANGED <<latest, loco, comm, subscriber, callback, pc, snap, op, result,
                         manager, link, aborted, moved>>

\* A thread left its locked section with a snapshot for the callback, copied
\* together with the callback itself.
Leaves(a, state) == /\ pc' = [pc EXCEPT ![a] = "publish"]
                    /\ snap' = [snap EXCEPT ![a] = IF callback THEN state ELSE Nobody]

Ready(c, call) == ~aborted /\ pc[c] = "idle" /\ call \in Calls

Returns(c, code) == result' = [result EXCEPT ![c] = code]

(***************************************************************************)
(* Public operations.                                                      *)
(***************************************************************************)

\* Initialize.  After a successful locked section the client creates the
\* low-state channel without the mutex.
Initialize(c) ==
  /\ Ready(c, "Initialize")
  /\ \E config \in Configurations, built \in BOOLEAN :
       LET init == LocoInitialize(loco, config, built)
       IN  /\ Returns(c, IF impl.initialized THEN "Success" ELSE init.code)
           /\ CASE impl.initialized -> UNCHANGED <<impl, latest, loco, pc>>
                [] ~impl.initialized /\ ~Succeeded(init.code) ->
                     /\ loco' = init.loco
                     /\ impl' = [impl EXCEPT !.connection_state = "Faulted"]
                     /\ latest' = UpdateStateSample(latest, "Faulted", impl.motion_mode, FALSE, 0)
                     /\ UNCHANGED pc
                [] ~impl.initialized /\ Succeeded(init.code) ->
                     /\ loco' = init.loco
                     /\ impl' = [impl EXCEPT !.initialized = TRUE, !.connected = FALSE,
                                             !.motion_mode = "Idle",
                                             !.connection_state = "Initialized"]
                     /\ latest' = UpdateStateSample(NewState, "Initialized", "Idle", FALSE, 0)
                     /\ pc' = [pc EXCEPT ![c] = "subscribe"]
  /\ UNCHANGED <<comm, subscriber, callback, snap, op, manager, link, aborted, moved>>

\* InitChannel succeeded: from here on messages arrive, although the wrapper
\* does not hold the channel yet.
OpenChannel(c) ==
  /\ ~aborted /\ pc[c] = "subscribe"
  /\ pc' = [pc EXCEPT ![c] = "subscribed"]
  /\ UNCHANGED <<impl, latest, loco, comm, subscriber, callback, snap, op, result, manager,
                 link, aborted, moved>>

StoreChannel(c) ==
  /\ ~aborted /\ pc[c] = "subscribed"
  /\ subscriber' = TRUE
  /\ pc' = [pc EXCEPT ![c] = "idle"]
  /\ UNCHANGED <<impl, latest, loco, comm, callback, snap, op, result, manager, link, aborted, moved>>

\* Creating the channel threw; Initialize still reports success.
DropChannel(c) ==
  /\ ~aborted /\ pc[c] = "subscribe"
  /\ subscriber' = FALSE
  /\ pc' = [pc EXCEPT ![c] = "idle"]
  /\ UNCHANGED <<impl, latest, loco, comm, callback, snap, op, result, manager, link, aborted, moved>>

\* A failed discovery changes the connection state but neither the connected
\* flag nor the sample.
DiscoverRobot(c) ==
  /\ Ready(c, "DiscoverRobot") /\ impl.initialized
  /\ \E answer \in Answers :
       LET query == GetFsmId(loco, answer)
       IN  /\ loco' = query.loco
           /\ impl' = IF Succeeded(query.code) THEN impl
                      ELSE [impl EXCEPT !.connection_state = "Faulted"]
           /\ Returns(c, query.code)
  /\ UNCHANGED <<latest, comm, subscriber, callback, pc, snap, op, manager, link, aborted, moved>>

Connect(c) ==
  /\ Ready(c, "Connect")
  /\ \E answer \in Answers :
       LET query == GetFsmId(loco, answer)
           ok == Succeeded(query.code)
           state == IF ok THEN "Connected" ELSE "Faulted"
       IN  IF ~impl.initialized
           THEN Returns(c, "ConnectionFailed") /\ UNCHANGED <<impl, latest, loco, pc, snap>>
           ELSE /\ loco' = query.loco
                /\ impl' = [impl EXCEPT !.connected = ok, !.connection_state = state,
                                        !.last_successful_heartbeat = IF ok THEN 0 ELSE @]
                /\ latest' = UpdateStateSample(latest, state, impl.motion_mode, ~ok,
                                               IF ok THEN 0 ELSE 1)
                /\ Returns(c, query.code)
                /\ Leaves(c, latest')
  /\ UNCHANGED <<comm, subscriber, callback, op, manager, link, aborted, moved>>

\* PublishStateUpdate, after the mutex was released: the callback replaces the
\* RobotStateManager's state.
Publish(a) ==
  /\ ~aborted /\ pc[a] = "publish"
  /\ manager' = IF snap[a] = Nobody THEN manager ELSE ToCoreRobotState(snap[a])
  /\ pc' = [pc EXCEPT ![a] = IF a \in Workers THEN "check" ELSE "idle"]
  /\ snap' = [snap EXCEPT ![a] = Nobody]
  /\ op' = [c \in Clients |-> IF c = a THEN "none" ELSE op[c]]
  /\ UNCHANGED <<impl, latest, loco, comm, subscriber, callback, result, link, aborted, moved>>

\* Starting a worker overwrites the thread handle; if it still owns a thread
\* the assignment terminates the process.
StartCommunication(c, options) ==
  /\ Ready(c, "StartCommunication")
  /\ IF ~impl.initialized \/ comm.running
     THEN /\ Returns(c, IF impl.initialized THEN "Success" ELSE "ConnectionFailed")
          /\ UNCHANGED <<impl, comm, pc, aborted>>
     ELSE \E w \in {v \in Workers : pc[v] = "unborn"} :
            /\ impl' = [impl EXCEPT !.options = NormalizeCommunicationOptions(options)]
            /\ comm' = [running |-> TRUE, stop |-> FALSE, thread |-> w]
            /\ aborted' = (comm.thread # Nobody)
            /\ pc' = [pc EXCEPT ![w] = "check"]
            /\ Returns(c, "Success")
  /\ UNCHANGED <<latest, loco, subscriber, callback, snap, op, manager, link, moved>>

\* std::thread could not be created.
StartCommunicationFails(c, options) ==
  /\ Ready(c, "StartCommunication") /\ impl.initialized /\ ~comm.running
  /\ impl' = [impl EXCEPT !.options = NormalizeCommunicationOptions(options)]
  /\ comm' = [comm EXCEPT !.running = FALSE, !.stop = FALSE]
  /\ Returns(c, "Unknown")
  /\ UNCHANGED <<latest, loco, subscriber, callback, pc, snap, op, manager, link, aborted, moved>>

\* Disconnect and Shutdown begin with StopCommunication and finish after it.
After(o) == IF o = "StopCommunication" THEN "idle" ELSE "finish"

\* The first locked section of StopCommunication: the request is raised and the
\* handle moves to the caller.
StopCommunication(c, o) ==
  /\ Ready(c, o)
  /\ IF ~comm.running
     THEN pc' = [pc EXCEPT ![c] = After(o)] /\ UNCHANGED <<comm, moved>>
     ELSE /\ comm' = [comm EXCEPT !.stop = TRUE, !.thread = Nobody]
          /\ moved' = [moved EXCEPT ![c] = comm.thread]
          /\ pc' = [pc EXCEPT ![c] = "join"]
  /\ op' = [op EXCEPT ![c] = IF comm.running \/ o # "StopCommunication" THEN o ELSE "none"]
  /\ Returns(c, "Success")
  /\ UNCHANGED <<impl, latest, loco, subscriber, callback, snap, manager, link, aborted>>

\* join returns once the thread it was given has ended, at once when there was
\* none; the second locked section lowers both flags.
JoinWorker(c) ==
  /\ ~aborted /\ pc[c] = "join"
  /\ moved[c] # Nobody => pc[moved[c]] = "ended"
  /\ moved' = [moved EXCEPT ![c] = Nobody]
  /\ pc' = [a \in Actors |-> IF a = c THEN "joined" ELSE IF a = moved[c] THEN "unborn" ELSE pc[a]]
  /\ UNCHANGED <<impl, latest, loco, comm, subscriber, callback, snap, op, result, manager, link,
                 aborted>>

LowerFlags(c) ==
  /\ ~aborted /\ pc[c] = "joined"
  /\ comm' = [comm EXCEPT !.running = FALSE, !.stop = FALSE]
  /\ pc' = [pc EXCEPT ![c] = After(op[c])]
  /\ op' = [op EXCEPT ![c] = IF @ = "StopCommunication" THEN "none" ELSE @]
  /\ UNCHANGED <<impl, latest, loco, subscriber, callback, snap, result, manager, link, aborted, moved>>

\* Fault: the connected flag survives.
DisconnectKeepsFlag(c) ==
  /\ ~aborted /\ pc[c] = "finish" /\ op[c] = "Disconnect"
  /\ loco' = LocoDisconnect(loco)
  /\ impl' = [impl EXCEPT !.motion_mode = "Idle",
                          !.connection_state = "Disconnected"]
  /\ latest' = UpdateStateSample(latest, "Disconnected", "Idle", FALSE, 0)
  /\ Leaves(c, latest')
  /\ UNCHANGED <<comm, subscriber, callback, op, result, manager, link, aborted, moved>>

Disconnect(c) ==
  /\ ~aborted /\ pc[c] = "finish" /\ op[c] = "Disconnect"
  /\ loco' = LocoDisconnect(loco)
  /\ impl' = [impl EXCEPT !.connected = FALSE, !.motion_mode = "Idle",
                          !.connection_state = "Disconnected"]
  /\ latest' = UpdateStateSample(latest, "Disconnected", "Idle", FALSE, 0)
  /\ Leaves(c, latest')
  /\ UNCHANGED <<comm, subscriber, callback, op, result, manager, link, aborted, moved>>

Shutdown(c) ==
  /\ ~aborted /\ pc[c] = "finish" /\ op[c] = "Shutdown"
  /\ loco' = LocoShutdown(loco)
  /\ subscriber' = FALSE
  /\ impl' = [impl EXCEPT !.connected = FALSE, !.initialized = FALSE, !.motion_mode = "Idle",
                          !.connection_state = "Shutdown", !.last_successful_heartbeat = Never,
                          !.last_reconnect_attempt = Never]
  /\ latest' = UpdateStateSample(latest, "Shutdown", "Idle", FALSE, 0)
  /\ Leaves(c, latest')
  /\ UNCHANGED <<comm, callback, op, result, manager, link, aborted, moved>>

\* One heartbeat, as both the worker and a client's call run it: query, decide
\* whether the link timed out, and query again when a reconnect is due.
SynchronizeState(first, second) ==
  LET query == GetFsmId(loco, first)
      again == GetFsmId(query.loco, second)
      good == Succeeded(query.code)
      timed_out == \/ impl.last_successful_heartbeat = Never
                   \/ impl.last_successful_heartbeat >= impl.options.connection_timeout
      reconnect_due == \/ impl.last_reconnect_attempt = Never
                       \/ impl.last_reconnect_attempt >= impl.options.reconnect_interval
      retried == ~good /\ reconnect_due
      restored == retried /\ Succeeded(again.code)
      lost == ~good /\ ~restored /\ timed_out
  IN  [code |-> IF good \/ restored THEN "Success" ELSE IF timed_out THEN "Timeout" ELSE query.code,
       loco |-> IF retried THEN again.loco ELSE query.loco,
       impl |-> [impl EXCEPT
                   !.connected = IF good \/ restored THEN TRUE ELSE IF lost THEN FALSE ELSE @,
                   !.connection_state = IF good \/ restored THEN "Connected"
                                        ELSE IF lost THEN "Disconnected" ELSE @,
                   !.last_successful_heartbeat = IF good \/ restored THEN 0 ELSE @,
                   !.last_reconnect_attempt = IF retried THEN 0 ELSE @],
       latest |-> IF good \/ restored
                  THEN UpdateStateSample(latest, "Connected", impl.motion_mode, FALSE, 0)
                  ELSE IF lost
                  THEN UpdateStateSample(latest, "Disconnected", impl.motion_mode, FALSE, 0)
                  ELSE latest]

Synchronized(a, sync) == /\ impl' = sync.impl /\ loco' = sync.loco /\ latest' = sync.latest
                         /\ Leaves(a, latest')

Synchronize(c) ==
  /\ Ready(c, "SynchronizeState")
  /\ \E first \in Answers, second \in Answers :
       LET sync == SynchronizeState(first, second)
       IN  IF impl.initialized THEN Synchronized(c, sync) /\ Returns(c, sync.code)
           ELSE Returns(c, "ConnectionFailed") /\ UNCHANGED <<impl, loco, latest, pc, snap>>
  /\ UNCHANGED <<comm, subscriber, callback, op, manager, link, aborted, moved>>

\* The common end of the motion commands.
Commanded(c, code, mode) ==
  LET ok == Succeeded(code)
      state == IF ok THEN impl.connection_state ELSE "Faulted"
      motion == IF ok THEN mode ELSE "Faulted"
  IN  /\ impl' = [impl EXCEPT !.motion_mode = motion, !.connection_state = state]
      /\ latest' = UpdateStateAfterCommand(latest, state, motion, ok)
      /\ Returns(c, code)

Refused(c) == Returns(c, "ConnectionFailed") /\ UNCHANGED <<impl, latest>>

CommandsLeave == <<comm, subscriber, callback, pc, snap, moved, op, manager, link, aborted>>

Move(c, finite) ==
  /\ Ready(c, "Move")
  /\ IF impl.initialized /\ impl.connected
     THEN \E answer \in MotionAnswers : Commanded(c, Walk(loco, finite, answer), "Walking")
     ELSE Refused(c)
  /\ UNCHANGED loco /\ UNCHANGED CommandsLeave

Stop(c) ==
  /\ Ready(c, "Stop")
  /\ IF impl.initialized
     THEN \E answer \in MotionAnswers : Commanded(c, LocoStop(loco, answer), "Idle")
     ELSE Refused(c)
  /\ UNCHANGED loco /\ UNCHANGED CommandsLeave

StandUp(c) ==
  /\ Ready(c, "StandUp")
  /\ IF impl.initialized /\ impl.connected
     THEN \E answer \in MotionAnswers : Commanded(c, Stand(loco, answer), "Standing")
     ELSE Refused(c)
  /\ UNCHANGED loco /\ UNCHANGED CommandsLeave

Sit(c) ==
  /\ Ready(c, "Sit")
  /\ IF impl.initialized /\ impl.connected
     THEN \E answer \in MotionAnswers : Commanded(c, LocoSit(loco, answer), "Sitting")
     ELSE Refused(c)
  /\ UNCHANGED loco /\ UNCHANGED CommandsLeave

BalanceStand(c) ==
  /\ Ready(c, "BalanceStand")
  /\ IF impl.initialized /\ impl.connected
     THEN \E answer \in MotionAnswers : Commanded(c, LocoBalanceStand(loco, answer), "Standing")
     ELSE Refused(c)
  /\ UNCHANGED loco /\ UNCHANGED CommandsLeave

\* The sample records the emergency stop but nothing is published.
EmergencyStop(c) ==
  /\ Ready(c, "EmergencyStop")
  /\ IF impl.initialized
     THEN \E stopped \in MotionAnswers, damped \in MotionAnswers :
            LET stop == LocoEmergencyStop(loco, stopped, damped)
            IN  /\ loco' = stop.loco
                /\ impl' = [impl EXCEPT !.connected = FALSE, !.motion_mode = "Faulted",
                                        !.connection_state = "Faulted"]
                /\ latest' = UpdateStateSample(latest, "Faulted", "Faulted", TRUE, 1)
                /\ Returns(c, stop.code)
     ELSE Refused(c) /\ UNCHANGED loco
  /\ UNCHANGED CommandsLeave

\* A callback is installed, as LocoClientWrapper does for a RobotStateManager,
\* or removed.
SetStateUpdateCallback(c, installed) ==
  /\ Ready(c, "SetStateUpdateCallback")
  /\ callback' = installed
  /\ UNCHANGED <<impl, latest, loco, comm, subscriber, pc, snap, moved, op, result, manager,
                 link, aborted>>

(***************************************************************************)
(* The heartbeat worker and the middleware's reader.                       *)
(***************************************************************************)

\* RunCommunicationLoop: leave when a stop was requested, seen either before
\* the wait or through its predicate, ...
WorkerEnds(w) ==
  /\ ~aborted /\ pc[w] \in {"check", "wait"} /\ comm.stop
  /\ pc' = [pc EXCEPT ![w] = "ended"]
  /\ UNCHANGED <<impl, latest, loco, comm, subscriber, callback, snap, moved, op, result,
                 manager, link, aborted>>

WorkerWaits(w) ==
  /\ ~aborted /\ pc[w] = "check" /\ ~comm.stop
  /\ pc' = [pc EXCEPT ![w] = "wait"]
  /\ UNCHANGED <<impl, latest, loco, comm, subscriber, callback, snap, moved, op, result,
                 manager, link, aborted>>

\* ... or the interval passes with no stop requested; the mutex is released
\* between the wait and the heartbeat.
WorkerTimesOut(w) ==
  /\ ~aborted /\ pc[w] = "wait" /\ ~comm.stop
  /\ pc' = [pc EXCEPT ![w] = "beat"]
  /\ UNCHANGED <<impl, latest, loco, comm, subscriber, callback, snap, moved, op, result,
                 manager, link, aborted>>

WorkerBeats(w) ==
  /\ ~aborted /\ pc[w] = "beat"
  /\ \E first \in Answers, second \in Answers :
       IF impl.initialized THEN Synchronized(w, SynchronizeState(first, second))
       ELSE pc' = [pc EXCEPT ![w] = "check"] /\ UNCHANGED <<impl, loco, latest, snap>>
  /\ UNCHANGED <<comm, subscriber, callback, moved, op, result, manager, link, aborted>>

\* A message is delivered while a channel is open; its handler may still be
\* waiting for the mutex when the channel is closed.
LowStateArrives ==
  /\ ~aborted /\ pc[Dds] = "idle" /\ MotorFaults # {}
  /\ subscriber \/ \E c \in Clients : pc[c] = "subscribed"
  /\ pc' = [pc EXCEPT ![Dds] = "received"]
  /\ UNCHANGED <<impl, latest, loco, comm, subscriber, callback, snap, moved, op, result,
                 manager, link, aborted>>

LowStateHandler ==
  /\ ~aborted /\ pc[Dds] = "received"
  /\ \E motor_fault \in MotorFaults : latest' = WithLowState(latest, motor_fault)
  /\ Leaves(Dds, latest')
  /\ UNCHANGED <<impl, loco, comm, subscriber, callback, moved, op, result, manager, link,
                 aborted>>

ClientStep(c) == \/ Initialize(c) \/ OpenChannel(c) \/ StoreChannel(c) \/ DropChannel(c)
                 \/ DiscoverRobot(c) \/ Connect(c) \/ Publish(c)
                 \/ \E options \in Options : \/ StartCommunication(c, options)
                                             \/ StartCommunicationFails(c, options)
                 \/ \E o \in {"StopCommunication", "Disconnect", "Shutdown"} :
                      StopCommunication(c, o)
                 \/ JoinWorker(c) \/ LowerFlags(c) \/ Disconnect(c) \/ Shutdown(c)
                 \/ Synchronize(c) \/ \E finite \in BOOLEAN : Move(c, finite)
                 \/ Stop(c) \/ StandUp(c) \/ Sit(c) \/ BalanceStand(c) \/ EmergencyStop(c)
                 \/ \E installed \in BOOLEAN : SetStateUpdateCallback(c, installed)

WorkerStep(w) == \/ WorkerEnds(w) \/ WorkerWaits(w) \/ WorkerTimesOut(w) \/ WorkerBeats(w)
                 \/ Publish(w)

DdsStep == LowStateArrives \/ LowStateHandler \/ Publish(Dds)

Next == \/ \E c \in Clients : ClientStep(c)
        \/ \E w \in Workers : WorkerStep(w)
        \/ DdsStep \/ LinkChanges \/ Elapse

Spec == Init /\ [][Next]_vars

\* A client that entered an operation runs it to its end; the worker, the
\* middleware's handler and the clock keep going.  Nobody has to make a call,
\* and nothing is assumed of the link.
Continues(c) == \/ OpenChannel(c) \/ DropChannel(c) \/ StoreChannel(c) \/ Publish(c)
                \/ JoinWorker(c) \/ LowerFlags(c) \/ Disconnect(c) \/ Shutdown(c)

FairSpec == /\ Spec
            /\ \A c \in Clients : WF_vars(Continues(c))
            /\ \A w \in Workers : WF_vars(WorkerStep(w))
            /\ WF_vars(LowStateHandler \/ Publish(Dds))
            /\ WF_vars(Elapse)

(***************************************************************************)
(* Properties.                                                             *)
(***************************************************************************)

\* The variables have their types.
TypeOK ==
  /\ impl \in [initialized : BOOLEAN, connected : BOOLEAN,
               connection_state : SdkConnectionState, motion_mode : SdkMotionMode,
               last_successful_heartbeat : Never .. MaxAge,
               last_reconnect_attempt : Never .. MaxAge, options : SdkCommunicationOptions]
  /\ latest \in SdkRobotState
  /\ comm \in [running : BOOLEAN, stop : BOOLEAN, thread : Workers \cup {Nobody}]
  /\ \A c \in Clients : result[c] \in SdkErrorCode

Alive(w) == pc[w] \notin {"unborn", "ended"}

\* StopCommunication joins the thread before it lowers the flag: while the
\* status says that no worker runs, no worker is alive, so that nothing queries
\* the robot or publishes behind a stopped wrapper.
StoppedMeansJoined == ~comm.running => \A w \in Workers : ~Alive(w)

\* At most one heartbeat thread exists, and StartCommunication never overwrites
\* a handle that still owns one (which would terminate the process).
OneWorker == ~aborted /\ Cardinality({w \in Workers : Alive(w)}) <= 1

\* Shutdown releases everything Initialize and Connect acquired: a wrapper that
\* is not initialized has no client, no channel, no link and no worker, in
\* whatever order one thread made the calls before.  (Of two threads, a Shutdown
\* that runs while the other's Initialize has unlocked to create the channel finds
\* nothing to close, and the channel is stored, and stays open, after it.)
ReleasedMeansClosed ==
  ~impl.initialized => /\ ~loco.initialized /\ ~loco.connected /\ ~impl.connected
                       /\ ~subscriber /\ ~comm.running

\* The wrapper counts as connected only on the strength of a heartbeat it still
\* remembers, and never while its sample says that it was shut down or is
\* disconnected.
ConnectedOnEvidence ==
  impl.connected => /\ impl.last_successful_heartbeat # Never
                    /\ impl.connection_state \in {"Connected", "Faulted"}
                    /\ latest.connection_state \in {"Connected", "Faulted"}

\* The connected flag follows the latest heartbeat: while it is up, the
\* locomotion adapter accepts commands.
ConnectedIsVerified == impl.connected => loco.connected

\* A faulted link counts as connected again only because a query reached the
\* robot at that very step: no motion command that happens to work lifts it.
FaultLeftOnEvidence ==
  [][impl.connection_state = "Faulted" /\ impl'.connection_state = "Connected"
       => impl'.connected /\ loco'.connected /\ impl'.last_successful_heartbeat = 0]_vars

\* The RobotStateManager hears of the shutdown last: once the call returned, no
\* snapshot taken earlier can still replace the disconnected state.
ManagerSeesShutdown ==
  (impl.connection_state = "Shutdown" /\ callback /\ \A a \in Clients : pc[a] = "idle")
    => ~manager.connected

\* StopCommunication, Disconnect and Shutdown return: the worker notices the
\* request wherever it is, in the wait, in a heartbeat or in the callback.  The
\* table of docs/thread_safety.md calls the public methods thread-safe: two threads
\* may make these calls.
StopReturns == \A c \in Clients : pc[c] = "join" ~> pc[c] = "idle"

Monitoring == impl.initialized /\ comm.running /\ ~comm.stop

\* While the worker monitors a link that stays down, the wrapper ends up
\* disconnected: a failed reconnect never renews the lease on the link.
LossNoticed == <>[](link = "down" /\ Monitoring) => <>[](~impl.connected)

\* While the worker monitors a link that stays up, the wrapper is connected
\* again and again, whatever faults and emergency stops come between.
LinkRecovers == <>[](link = "up" /\ Monitoring) => []<>impl.connected

\* The RobotStateManager learns of every emergency stop, since the safety
\* validator reads it there.
EmergencyStopReachesManager ==
  (callback /\ latest.motion_mode = "Faulted" /\ latest.emergency_stop) ~> manager.emergencyStop

==============================================================================

------------------------------ MODULE ROS2Bridge ------------------------------
(***************************************************************************)
(* humanoid::ros2::bridge::ROS2Bridge (ros2/bridge/ROS2Bridge.cpp) as a     *)
(* listener of the telemetry service.  Start subscribes while it holds the  *)
(* bridge's mutex; Stop gives up the subscription under the mutex and       *)
(* unsubscribes after it; the callback stores the state under the mutex.    *)
(* Every subscription of the service is the bridge's.                       *)
(***************************************************************************)
EXTENDS TelemetryService

CONSTANT BridgeClients   \* threads that call Start and Stop

VARIABLES running,                \* running_
          telemetry_subscription, \* telemetry_subscription_, NoSubscription when empty
          stopping,               \* the subscription a Stop call is about to cancel
          last_telemetry_state,   \* last_telemetry_state_
          destroyed,              \* the destructor has finished
          orphaned                \* history: a callback ran after that

NoSubscription == 0

bridgeVars == <<running, telemetry_subscription, stopping, last_telemetry_state, destroyed,
                orphaned>>

allVars == <<vars, bridgeVars>>

BridgeInit ==
  /\ Init
  /\ running = FALSE /\ telemetry_subscription = NoSubscription
  /\ stopping = [c \in BridgeClients |-> NoSubscription]
  /\ last_telemetry_state = 0 /\ destroyed = FALSE /\ orphaned = FALSE

Idle(c) == ~destroyed /\ stopping[c] = NoSubscription

BridgeStart(c) ==
  /\ Idle(c) /\ ~running
  /\ running' = TRUE
  /\ Subscribe
  /\ telemetry_subscription' = IF id'[subscribed'] # kInvalidSubscriptionId
                               THEN subscribed' ELSE telemetry_subscription
  /\ UNCHANGED <<stopping, last_telemetry_state, destroyed, orphaned>>

BridgeStop(c) ==
  /\ Idle(c) /\ (running \/ telemetry_subscription # NoSubscription)
  /\ running' = FALSE
  /\ telemetry_subscription' = NoSubscription
  /\ stopping' = [stopping EXCEPT ![c] = telemetry_subscription]
  /\ UNCHANGED <<vars, last_telemetry_state, destroyed, orphaned>>

BridgeUnsubscribes(c) ==
  /\ stopping[c] # NoSubscription
  /\ Unsubscribe(stopping[c])
  /\ stopping' = [stopping EXCEPT ![c] = NoSubscription]
  /\ UNCHANGED <<running, telemetry_subscription, last_telemetry_state, destroyed, orphaned>>

\* The destructor calls Stop, which is BridgeStop and BridgeUnsubscribes, and
\* releases the members once that has returned.
Destroy ==
  /\ ~destroyed /\ ~running /\ telemetry_subscription = NoSubscription
  /\ \A c \in BridgeClients : stopping[c] = NoSubscription
  /\ destroyed' = TRUE
  /\ UNCHANGED <<vars, running, telemetry_subscription, stopping, last_telemetry_state, orphaned>>

\* The callback of a subscription, as the service's worker runs it.
TelemetryCallback(w, s) ==
  /\ Deliver(w, s)
  /\ last_telemetry_state' = IF destroyed THEN last_telemetry_state ELSE snapshot[w]
  /\ orphaned' = (orphaned \/ destroyed)
  /\ UNCHANGED <<running, telemetry_subscription, stopping, destroyed>>

\* Everything else the service does.
ServiceStep ==
  /\ \/ UpdateState
     \/ \E t \in Clients : Start(t) \/ StartFailsOrStopIdle(t) \/ Stop(t) \/ Joined(t)
     \/ \E w \in Threads : \/ WorkerCheck(w) \/ ReadState(w) \/ CopyListeners(w)
                           \/ WorkerWait(w) \/ WorkerWake(w)
  /\ UNCHANGED bridgeVars

BridgeNext ==
  \/ \E c \in BridgeClients : BridgeStart(c) \/ BridgeStop(c) \/ BridgeUnsubscribes(c)
  \/ Destroy
  \/ \E w \in Threads, s \in Subs : TelemetryCallback(w, s)
  \/ ServiceStep

BridgeSpec == BridgeInit /\ [][BridgeNext]_allVars

-----------------------------------------------------------------------------
\* No subscription leaks: each one the service holds for the bridge is the
\* current one or about to be cancelled by a Stop, in whatever order threads
\* start and stop the bridge.  A stopped bridge has none.
NoSubscriptionLeaks ==
  live = ({telemetry_subscription} \cup {stopping[c] : c \in BridgeClients}) \ {NoSubscription}

\* LastTelemetryState never goes back to an older state, also when a callback of
\* an earlier subscription is still under way after the bridge was restarted.
LastStateInOrder == [][last_telemetry_state' >= last_telemetry_state]_allVars

\* The destructor "stops the bridge and releases telemetry subscriptions": no
\* callback runs on a destroyed bridge.
NoCallbackAfterDestruction == ~orphaned
==============================================================================

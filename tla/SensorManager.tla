----------------------------- MODULE SensorManager -----------------------------
(***************************************************************************)
(* src/perception/SensorManager.cpp: the registry of active sensors, their *)
(* lifecycle and frame reads, and the routing of frames to listeners.      *)
(*                                                                         *)
(* An operation looks an entry up under the manager's lock, then works on  *)
(* it under the entry's own lock, and routes frames under neither.  Each   *)
(* critical section is an action; between two of them other callers run.   *)
(***************************************************************************)
EXTENDS Integers, Sequences, FiniteSets, FiniteSetsExt, SequencesExt

CONSTANTS
  Callers,        \* threads that use the manager
  SensorIds,
  Operations,     \* the lifecycle operations and queries that are called
  MaxEntries,     \* bound on registrations
  MaxReads,       \* bound on calls of ReadFrame
  MaxListeners    \* bound on subscriptions

OperationsAssumption ==
  Operations \subseteq {"Initialize", "Start", "Stop", "Shutdown", "Health"}
BoundsAssumption == {MaxEntries, MaxReads, MaxListeners} \subseteq Nat

VARIABLES
  entries,        \* every Entry ever made, in order of registration
  sensors,        \* sensors_: id -> index of its entry
  listeners,      \* listeners_: ids of the subscriptions
  nextListener,   \* next_subscription_id_
  statistics,     \* statistics_
  call,           \* caller -> what it is doing
  delivered       \* listener -> frames it was given, as <<entry, frame>>

vars == <<entries, sensors, listeners, nextListener, statistics, call, delivered>>

Idle == [at |-> "idle"]

\* Entry: what the manager records of a sensor, and whether the device itself is
\* running ("up") as its own Start, Stop and Shutdown left it.
NewEntry(id) ==
  [id |-> id, lifecycle |-> "Created", removed |-> FALSE, produced |-> 0, errors |-> 0,
   latest |-> 0, device |-> "down", health |-> "Unknown"]

NewStatistics ==
  [registrations |-> 0, unregistrations |-> 0, routed |-> 0, failures |-> 0,
   callbacks |-> 0, listenerFailures |-> 0]

Init ==
  /\ entries = <<>> /\ sensors = <<>> /\ listeners = {} /\ nextListener = 1
  /\ statistics = NewStatistics
  /\ call = [c \in Callers |-> Idle]
  /\ delivered = [l \in 1..MaxListeners |-> <<>>]

Begins(c) == call[c].at = "idle"
Goes(c, state) == call' = [call EXCEPT ![c] = state]
Returns(c) == Goes(c, Idle)
Count(field, n) == statistics' = [statistics EXCEPT ![field] = @ + n]

-----------------------------------------------------------------------------
\* Registration, under the manager's lock.
RegisterSensor(c, id) ==
  /\ Begins(c) /\ Len(entries) < MaxEntries
  /\ id \notin DOMAIN sensors
  /\ entries' = Append(entries, NewEntry(id))
  /\ sensors' = [i \in DOMAIN sensors \cup {id} |-> IF i = id THEN Len(entries) + 1 ELSE sensors[i]]
  /\ Count("registrations", 1)
  /\ UNCHANGED <<listeners, nextListener, call, delivered>>

Without(id) == [i \in DOMAIN sensors \ {id} |-> sensors[i]]

UnregisterSensor(c, id) ==
  /\ Begins(c) /\ id \in DOMAIN sensors
  /\ sensors' = Without(id)
  /\ Count("unregistrations", 1)
  /\ Goes(c, [at |-> "removing", left |-> <<sensors[id]>>, all |-> FALSE])
  /\ UNCHANGED <<entries, listeners, nextListener, delivered>>

Shutdown(c) ==
  /\ Begins(c)
  /\ Goes(c, [at |-> "removing", left |-> SetToSeq({sensors[id] : id \in DOMAIN sensors}), all |-> TRUE])
  /\ Count("unregistrations", Cardinality(DOMAIN sensors))
  /\ sensors' = <<>>
  /\ UNCHANGED <<entries, listeners, nextListener, delivered>>

\* MarkRemovedAndShutdown, under the entry's lock: stop and shut the device down,
\* which leaves it as it was when both calls throw.
MarkRemovedAndShutdown(c) ==
  /\ call[c].at = "removing" /\ call[c].left # <<>>
  /\ LET e == Head(call[c].left) IN
     \E d \in {"down", entries[e].device} :
       entries' = [entries EXCEPT ![e].removed = TRUE, ![e].lifecycle = "Shutdown", ![e].device = d]
  /\ Goes(c, [call[c] EXCEPT !.left = Tail(@)])
  /\ UNCHANGED <<sensors, listeners, nextListener, statistics, delivered>>

\* Unregister returns; Shutdown clears the listeners first.
Removed(c) ==
  /\ call[c].at = "removing" /\ call[c].left = <<>>
  /\ listeners' = IF call[c].all THEN {} ELSE listeners
  /\ Returns(c)
  /\ UNCHANGED <<entries, sensors, nextListener, statistics, delivered>>

-----------------------------------------------------------------------------
Sum(f(_), S) == FoldSet(LAMBDA e, n : n + f(e), 0, S)

\* The calls of ReadFrame so far, those under way included.
Reads ==
  LET Done(e) == entries[e].produced + entries[e].errors
  IN Sum(Done, DOMAIN entries) + Cardinality({c \in Callers : call[c].at = "Read"})

\* FindEntry: later sections work on the entry that was found.
FindEntry(c, operation, id) ==
  /\ Begins(c) /\ id \in DOMAIN sensors
  /\ operation = "Read" => Reads < MaxReads
  /\ Goes(c, [at |-> operation, entry |-> sensors[id]])
  /\ UNCHANGED <<entries, sensors, listeners, nextListener, statistics, delivered>>

LifecycleAfter(operation) ==
  CASE operation = "Initialize" -> "Initialized" [] operation = "Start" -> "Running"
    [] operation = "Stop" -> "Stopped" [] operation = "Shutdown" -> "Shutdown"

\* InvokeLifecycle, under the entry's lock: the sensor's operation succeeds, is
\* refused or throws.  A device that threw at Start may be up or not.
InvokeLifecycle(c, outcome) ==
  /\ call[c].at \in Operations \ {"Health"}
  /\ LET e == call[c].entry
         operation == call[c].at
         effect == IF operation = "Start" THEN "up" ELSE "down"
     IN IF entries[e].removed THEN UNCHANGED entries
        ELSE \/ /\ outcome = "ok"
                /\ entries' = [entries EXCEPT ![e].lifecycle = LifecycleAfter(operation),
                                 ![e].device = IF operation = "Initialize" THEN @ ELSE effect]
             \/ outcome = "refused" /\ UNCHANGED entries
             \/ /\ outcome = "throws"
                /\ \E d \in {entries[e].device, effect} :
                     entries' = [entries EXCEPT ![e].lifecycle = "Faulted",
                                   ![e].device = IF operation = "Initialize" THEN @ ELSE d]
  /\ Returns(c)
  /\ UNCHANGED <<sensors, listeners, nextListener, statistics, delivered>>

\* Health, under the entry's lock: the answer is stored, that of a sensor which was
\* removed meanwhile too; a query that throws leaves no trace.
Health(c, answer) ==
  /\ call[c].at = "Health"
  /\ entries' = [entries EXCEPT ![call[c].entry].health = IF answer = "throws" THEN @ ELSE answer]
  /\ Returns(c)
  /\ UNCHANGED <<sensors, listeners, nextListener, statistics, delivered>>

\* The part of ReadFrame under the entry's lock.
ReadFrame(c, outcome) ==
  /\ call[c].at = "Read"
  /\ LET e == call[c].entry
         frame == entries[e].produced + 1
     IN IF entries[e].removed THEN Returns(c) /\ UNCHANGED entries
        ELSE IF outcome = "ok"
             THEN /\ entries' = [entries EXCEPT ![e].produced = frame, ![e].latest = frame]
                  /\ Goes(c, [at |-> "routing", entry |-> e, frame |-> frame])
        ELSE /\ entries' = [entries EXCEPT ![e].errors = @ + 1]
             /\ Goes(c, [at |-> "failed"])
  /\ UNCHANGED <<sensors, listeners, nextListener, statistics, delivered>>

RecordReadFailure(c) ==
  /\ call[c].at = "failed"
  /\ Count("failures", 1) /\ Returns(c)
  /\ UNCHANGED <<entries, sensors, listeners, nextListener, delivered>>

\* RouteFrame: copy the listeners under the lock, ...
RouteFrame(c) ==
  /\ call[c].at = "routing"
  /\ Count("routed", 1)
  /\ Goes(c, [at |-> "calling", entry |-> call[c].entry, frame |-> call[c].frame,
              to |-> listeners, left |-> listeners, called |-> 0, threw |-> 0])
  /\ UNCHANGED <<entries, sensors, listeners, nextListener, delivered>>

\* ... call them in the order of their ids, under no lock, ...
CallListener(c, throws) ==
  /\ call[c].at = "calling" /\ call[c].left # {}
  /\ LET l == Min(call[c].left) IN
     /\ delivered' = [delivered EXCEPT ![l] = Append(@, <<call[c].entry, call[c].frame>>)]
     /\ Goes(c, [call[c] EXCEPT !.left = @ \ {l}, !.called = IF throws THEN @ ELSE @ + 1,
                   !.threw = IF throws THEN @ + 1 ELSE @])
  /\ UNCHANGED <<entries, sensors, listeners, nextListener, statistics>>

\* Fault: a call that threw is not counted.
CountsReturned(c) ==
  /\ call[c].at = "calling" /\ call[c].left = {}
  /\ statistics' = [statistics EXCEPT !.callbacks = @ + call[c].called]
  /\ Returns(c)
  /\ UNCHANGED <<entries, sensors, listeners, nextListener, delivered>>

\* ... and add up the calls under the lock.
RecordCallbacks(c) ==
  /\ call[c].at = "calling" /\ call[c].left = {}
  /\ statistics' = [statistics EXCEPT !.callbacks = @ + call[c].called,
                                      !.listenerFailures = @ + call[c].threw]
  /\ Returns(c)
  /\ UNCHANGED <<entries, sensors, listeners, nextListener, delivered>>

-----------------------------------------------------------------------------
Subscribe(c) ==
  /\ Begins(c) /\ nextListener <= MaxListeners
  /\ listeners' = listeners \cup {nextListener} /\ nextListener' = nextListener + 1
  /\ UNCHANGED <<entries, sensors, statistics, call, delivered>>

Unsubscribe(c, l) ==
  /\ Begins(c) /\ l \in listeners
  /\ listeners' = listeners \ {l}
  /\ UNCHANGED <<entries, sensors, nextListener, statistics, call, delivered>>

\* The steps of an operation after its first.
Continues(c) ==
  \/ MarkRemovedAndShutdown(c) \/ Removed(c)
  \/ \E outcome \in {"ok", "refused", "throws"} : InvokeLifecycle(c, outcome)
  \/ \E answer \in {"Healthy", "throws"} : Health(c, answer)
  \/ \E outcome \in {"ok", "fails"} : ReadFrame(c, outcome)
  \/ RecordReadFailure(c) \/ RouteFrame(c)
  \/ \E throws \in BOOLEAN : CallListener(c, throws)
  \/ RecordCallbacks(c)

Next ==
  \E c \in Callers :
    \/ \E id \in SensorIds : RegisterSensor(c, id) \/ UnregisterSensor(c, id)
    \/ Shutdown(c)
    \/ \E id \in SensorIds, operation \in Operations \cup {"Read"} : FindEntry(c, operation, id)
    \/ Subscribe(c)
    \/ \E l \in listeners : Unsubscribe(c, l)
    \/ Continues(c)

\* An operation that began goes on: its locks are held for one section only, and
\* sensors and listeners return.
Spec == Init /\ [][Next]_vars /\ \A c \in Callers : WF_vars(Continues(c))

-----------------------------------------------------------------------------
\* GetStatistics is consistent: over any history of registrations, removals and
\* shutdowns, the sensors that are registered are the difference of the counts.
RegistrationsBalance ==
  statistics.registrations - statistics.unregistrations = Cardinality(DOMAIN sensors)

\* Every frame that was read is routed once, and every failed read counted once,
\* whatever is unregistered between the read and the routing.
FramesAreAccountedFor ==
  LET Produced(e) == entries[e].produced
      Failed(e) == entries[e].errors
      In(at) == Cardinality({c \in Callers : call[c].at = at})
  IN /\ Sum(Produced, DOMAIN entries) = statistics.routed + In("routing")
     /\ Sum(Failed, DOMAIN entries) = statistics.failures + In("failed")

\* A removed sensor is left alone: an operation that had found its entry before
\* the removal neither starts the device again nor reads a frame from it, and it is
\* shut down once even when UnregisterSensor and Shutdown race.  Only Health still
\* asks it.
RemovedSensorsAreLeftAlone ==
  [][\A e \in DOMAIN entries : entries[e].removed =>
       entries'[e] = [entries[e] EXCEPT !.health = entries'[e].health]]_vars

\* LatestFrame is the newest frame that was read, although routing is not ordered.
LatestIsNewest == \A e \in DOMAIN entries : entries[e].latest = entries[e].produced

\* Listeners are not given a frame twice, and the calls made are the calls counted.
DeliveriesAreCounted ==
  LET Given(l) == Len(delivered[l])
      Pending(c) == IF call[c].at = "calling" THEN call[c].called + call[c].threw ELSE 0
  IN /\ \A l \in DOMAIN delivered : \A i, j \in DOMAIN delivered[l] :
          delivered[l][i] = delivered[l][j] => i = j
     /\ Sum(Given, DOMAIN delivered) =
          statistics.callbacks + statistics.listenerFailures + Sum(Pending, Callers)

\* Routing reaches every listener it copied: one whose call throws, or that was
\* unsubscribed meanwhile, does not keep the frame from the others.
RoutingReachesAll ==
  \A c \in Callers : call[c].at = "calling" =>
    \A l \in call[c].to \ call[c].left :
      \E i \in DOMAIN delivered[l] : delivered[l][i] = <<call[c].entry, call[c].frame>>

=============================================================================

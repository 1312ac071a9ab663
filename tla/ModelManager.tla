------------------------------ MODULE ModelManager ------------------------------
(***************************************************************************)
(* src/perception/ModelManager.cpp and include/humanoid/perception/        *)
(* SensorFactory.h: registries whose entries are called outside the lock.  *)
(* An engine, or a creator, is copied under the lock and then runs, while  *)
(* the registry changes.                                                   *)
(***************************************************************************)
EXTENDS Integers, FiniteSets

CONSTANTS
  Engines,      \* engine ids
  Models,       \* model ids
  Sensors,      \* sensor ids of the factory
  Callers,
  MaxObjects    \* bound on engine and creator objects

VARIABLES
  engines,        \* engines_: id -> engine object
  capabilities,   \* engine_capabilities_: id -> the object they were asked of
  models,         \* models_: id -> engine id
  entries,        \* SensorFactory's entries_: id -> creator object
  objects,        \* objects made so far
  call            \* caller -> what it is doing

vars == <<engines, capabilities, models, entries, objects, call>>

Idle == [at |-> "idle"]
Empty == <<>>

Put(f, k, v) == [x \in DOMAIN f \cup {k} |-> IF x = k THEN v ELSE f[x]]
Drop(f, k) == [x \in DOMAIN f \ {k} |-> f[x]]

\* The registries hold objects that were made, and so do the calls under way, which
\* copied theirs under the lock.
TypeOK ==
  /\ DOMAIN engines \subseteq Engines /\ DOMAIN models \subseteq Models
  /\ \A id \in DOMAIN engines : engines[id] \in 1..objects
  /\ \A m \in DOMAIN models : models[m] \in Engines
  /\ \A s \in DOMAIN entries : entries[s] \in 1..objects
  /\ \A c \in Callers : call[c].at # "idle" => call[c].object \in 1..objects

Init ==
  /\ engines = Empty /\ capabilities = Empty /\ models = Empty /\ entries = Empty
  /\ objects = 0 /\ call = [c \in Callers |-> Idle]

Goes(c, state) == call' = [call EXCEPT ![c] = state]

\* RegisterEngine asks the new engine for its capabilities before it takes the lock, ...
QueryCapabilities(c, id) ==
  /\ call[c].at = "idle" /\ objects < MaxObjects
  /\ objects' = objects + 1
  /\ Goes(c, [at |-> "registering", id |-> id, object |-> objects + 1])
  /\ UNCHANGED <<engines, capabilities, models, entries>>

\* Fault: the capabilities are stored although the id was taken.
StoresCapabilities(c) ==
  /\ call[c].at = "registering"
  /\ LET id == call[c].id IN
     /\ engines' = IF id \in DOMAIN engines THEN engines ELSE Put(engines, id, call[c].object)
     /\ capabilities' = Put(capabilities, id, call[c].object)
  /\ Goes(c, Idle)
  /\ UNCHANGED <<models, entries, objects>>

\* ... and emplaces both; an id that was taken meanwhile is an error.
RegisterEngine(c) ==
  /\ call[c].at = "registering"
  /\ LET id == call[c].id IN
     IF id \in DOMAIN engines THEN UNCHANGED <<engines, capabilities>>
     ELSE /\ engines' = Put(engines, id, call[c].object)
          /\ capabilities' = IF id \in DOMAIN capabilities THEN capabilities
                             ELSE Put(capabilities, id, call[c].object)
  /\ Goes(c, Idle)
  /\ UNCHANGED <<models, entries, objects>>

UnregisterEngine(id) ==
  /\ id \in DOMAIN engines
  /\ engines' = Drop(engines, id) /\ capabilities' = Drop(capabilities, id)
  /\ UNCHANGED <<models, entries, objects, call>>

RegisterModel(m, id) ==
  /\ id \in DOMAIN engines /\ m \notin DOMAIN models
  /\ models' = Put(models, m, id)
  /\ UNCHANGED <<engines, capabilities, entries, objects, call>>

UnregisterModel(m) ==
  /\ m \in DOMAIN models
  /\ models' = Drop(models, m)
  /\ UNCHANGED <<engines, capabilities, entries, objects, call>>

\* RunInference: the engine is found under the lock, ...
RunInference(c, m) ==
  /\ call[c].at = "idle" /\ m \in DOMAIN models /\ models[m] \in DOMAIN engines
  /\ Goes(c, [at |-> "running", model |-> m, object |-> engines[models[m]]])
  /\ UNCHANGED <<engines, capabilities, models, entries, objects>>

\* ... and runs outside it, even when it has been unregistered.
InferenceReturns(c) ==
  /\ call[c].at = "running" /\ Goes(c, Idle)
  /\ UNCHANGED <<engines, capabilities, models, entries, objects>>

\* SensorFactory
RegisterSensor(s) ==
  /\ s \notin DOMAIN entries /\ objects < MaxObjects
  /\ objects' = objects + 1 /\ entries' = Put(entries, s, objects + 1)
  /\ UNCHANGED <<engines, capabilities, models, call>>

UnregisterSensor(s) ==
  /\ s \in DOMAIN entries /\ entries' = Drop(entries, s)
  /\ UNCHANGED <<engines, capabilities, models, objects, call>>

\* CreateSensor copies the creator under the lock and calls it outside.
CreateSensor(c, s) ==
  /\ call[c].at = "idle" /\ s \in DOMAIN entries
  /\ Goes(c, [at |-> "creating", sensor |-> s, object |-> entries[s]])
  /\ UNCHANGED <<engines, capabilities, models, entries, objects>>

SensorCreated(c) ==
  /\ call[c].at = "creating" /\ Goes(c, Idle)
  /\ UNCHANGED <<engines, capabilities, models, entries, objects>>

Returns(c) == RegisterEngine(c) \/ InferenceReturns(c) \/ SensorCreated(c)

Next ==
  \/ \E c \in Callers :
       \/ \E id \in Engines : QueryCapabilities(c, id)
       \/ \E m \in Models : RunInference(c, m)
       \/ \E s \in Sensors : CreateSensor(c, s)
       \/ Returns(c)
  \/ \E id \in Engines : UnregisterEngine(id) \/ \E m \in Models : RegisterModel(m, id)
  \/ \E m \in Models : UnregisterModel(m)
  \/ \E s \in Sensors : RegisterSensor(s) \/ UnregisterSensor(s)

Spec == Init /\ [][Next]_vars

-----------------------------------------------------------------------------
\* EnumerateEngines describes the engines that are registered: two callers that
\* register the same id at once leave the capabilities of the engine that won.
CapabilitiesAreCurrent == capabilities = engines
=============================================================================

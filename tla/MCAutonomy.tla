------------------------------ MODULE MCAutonomy ------------------------------
(***************************************************************************)
(* Small instances of what runs above the command path: the documents and   *)
(* other inputs of MCDocuments, the plugin factory and the planning pipeline *)
(* (plain names), the sensor manager, for its life cycle (L) and its routing *)
(* (R), the perception pipeline, for its graph and the frame sets (G) and    *)
(* for its executions (E), the model manager (M) and the cancellation of the *)
(* rule-based planner (K).  In a behaviour one of them is used and the       *)
(* others stay as they were constructed.                                    *)
(***************************************************************************)
EXTENDS MCDocuments, PluginFactory, PlanningPipeline

\* One plugin accepts the framework's version and one does not.
Api == Version(1, 0, 0)
Ranges ==
  [arm |-> [minimum |-> Api, maximum |-> Api],
   hand |-> [minimum |-> Version(0, 9, 0), maximum |-> Version(0, 9, 9)]]

AllOptions == [validatePlan : BOOLEAN, enableFallback : BOOLEAN, submit : BOOLEAN]

CONSTANTS c1, c2, c3

VARIABLES s_entries, s_sensors, s_listeners, s_nextListener, s_statistics, s_call,
          s_delivered
L == INSTANCE SensorManager WITH
       Callers <- {c1, c2}, SensorIds <- {"camera"}, Operations <- {"Initialize",
       "Start", "Stop", "Shutdown", "Health"}, MaxEntries <- 2, MaxReads <- 1,
       MaxListeners <- 0, entries <- s_entries, sensors <- s_sensors, listeners <-
       s_listeners, nextListener <- s_nextListener, statistics <- s_statistics, call
       <- s_call, delivered <- s_delivered
sVars == <<s_entries, s_sensors, s_listeners, s_nextListener, s_statistics, s_call,
  s_delivered>>
R == INSTANCE SensorManager WITH
       Callers <- {c1, c2}, SensorIds <- {"camera"}, Operations <- {}, MaxEntries <-
       2, MaxReads <- 2, MaxListeners <- 2, entries <- s_entries, sensors <-
       s_sensors, listeners <- s_listeners, nextListener <- s_nextListener, statistics
       <- s_statistics, call <- s_call, delivered <- s_delivered

VARIABLES g_stages, g_execution, g_holder, g_executions, f_policy, f_frames, f_answer
G == INSTANCE PerceptionPipeline WITH
       Stages <- {1, 2, 3}, MaxDependencies <- 2, Callers <- {c1}, MaxExecutions <- 0,
       SensorTypes <- {"Camera", "Imu"}, MaxTime <- 2, MaxFrames <- 3, stages <-
       g_stages, execution <- g_execution, holder <- g_holder, executions <-
       g_executions, policy <- f_policy, frames <- f_frames, answer <- f_answer
gVars == <<g_stages, g_execution, g_holder, g_executions>>
fVars == <<f_policy, f_frames, f_answer>>
E == INSTANCE PerceptionPipeline WITH
       Stages <- {1, 2}, MaxDependencies <- 1, Callers <- {c1, c2}, MaxExecutions <-
       2, SensorTypes <- {"Camera"}, MaxTime <- 0, MaxFrames <- 0, stages <- g_stages,
       execution <- g_execution, holder <- g_holder, executions <- g_executions,
       policy <- f_policy, frames <- f_frames, answer <- f_answer

VARIABLES m_engines, m_capabilities, m_models, m_entries, m_objects, m_call
M == INSTANCE ModelManager WITH
       Engines <- {"onnx", "tensorrt"}, Models <- {"detector"}, Sensors <- {"camera"},
       Callers <- {c1, c2}, MaxObjects <- 4, engines <- m_engines, capabilities <-
       m_capabilities, models <- m_models, entries <- m_entries, objects <- m_objects,
       call <- m_call
mVars == <<m_engines, m_capabilities, m_models, m_entries, m_objects, m_call>>

K == INSTANCE RuleBasedPlanner WITH
       RuleSets <- {<<[goalType |-> "Command", minimumPriority |-> "Low", commands |->
       <<"Stop", "Custom">>, fallback |-> FALSE]>>}, Goals <- [id : {0, 1}, type :
       {"Command"}, priority : {"Low"}], Callers <- {c1, c2, c3}, MaxId <- 12, Scale
       <- 4, MaxCancels <- 3, rules <- b_rules, cancel <- b_cancel, plan <- b_plan,
       requests <- b_requests, cancelled <- b_cancelled

ASSUME L!OperationsAssumption /\ L!BoundsAssumption /\ R!BoundsAssumption
ASSUME K!ArithmeticAssumption

componentVars == <<vars, planningVars, sVars, gVars, mVars, fVars>>
allVars == <<part, componentVars, documentVars, bVars>>

Documents == {"json", "tree", "mission", "values", "command", "messages", "rules"}

MCInit ==
  /\ part \in Documents \cup {"plugins", "planning", "lifecycle", "routing", "graph",
                              "executions", "frames", "models", "cancels"}
  /\ DocumentsInit
  /\ Init /\ PlanningInit /\ M!Init
  /\ IF part = "cancels" THEN K!Init
     ELSE B!Init /\ (part # "rules" => b_rules = <<B!DefaultFallbackRule>>)
  /\ IF part = "routing" THEN R!Init ELSE L!Init
  /\ IF part = "executions" THEN E!Init ELSE G!Init
  /\ G!FusionInit /\ (part # "frames" => f_policy = [maximumSkew |-> 0, required |-> {}])

ComponentsNext ==
  \/ part = "plugins" /\ Next
     /\ UNCHANGED <<part, planningVars, sVars, gVars, mVars, bVars, fVars>>
  \/ part = "planning" /\ PlanningNext
     /\ UNCHANGED <<part, vars, sVars, gVars, mVars, bVars, fVars>>
  \/ part \in {"planning", "models"} /\ UNCHANGED <<part, componentVars, bVars>>
  \/ part = "lifecycle" /\ L!Next
     /\ UNCHANGED <<part, vars, planningVars, gVars, mVars, bVars, fVars>>
  \/ part = "routing" /\ R!Next
     /\ UNCHANGED <<part, vars, planningVars, gVars, mVars, bVars, fVars>>
  \/ part = "graph" /\ G!Next
     /\ UNCHANGED <<part, vars, planningVars, sVars, mVars, bVars, fVars>>
  \/ part = "executions" /\ E!Next
     /\ UNCHANGED <<part, vars, planningVars, sVars, mVars, bVars, fVars>>
  \/ part = "frames" /\ G!FusionNext
     /\ UNCHANGED <<part, vars, planningVars, sVars, gVars, mVars, bVars>>
  \/ part = "models" /\ M!Next
     /\ UNCHANGED <<part, vars, planningVars, sVars, gVars, bVars, fVars>>
  \/ part = "cancels" /\ K!Next
     /\ UNCHANGED <<part, vars, planningVars, sVars, gVars, mVars, fVars>>

MCNext == \/ DocumentsNext /\ UNCHANGED componentVars
          \/ ComponentsNext /\ UNCHANGED documentVars

MCSpec == MCInit /\ [][MCNext]_allVars

-----------------------------------------------------------------------------
\* SensorManager: the sensors that are registered are the registrations less the
\* removals, over any history of them and of shutdowns.
RegistrationsBalance == L!RegistrationsBalance

\* SensorManager: every frame that was read is routed once and every failed read counted
\* once, whatever is unregistered between the read and the routing.
FramesAreAccountedFor == part = "routing" => R!FramesAreAccountedFor

\* SensorManager: LatestFrame is the newest frame read, although routing is not ordered.
LatestIsNewest == L!LatestIsNewest

\* SensorManager: listeners are not given a frame twice, and the calls made are counted.
DeliveriesAreCounted == part = "routing" => R!DeliveriesAreCounted

\* SensorManager: routing reaches every listener it copied, though another one throws or
\* unsubscribes.
RoutingReachesAll == part = "routing" => R!RoutingReachesAll

\* SensorManager: an operation that found the entry of a sensor before its removal neither
\* starts nor reads the device after it.
RemovedSensorsAreLeftAlone ==
  [][\A e \in DOMAIN s_entries : s_entries[e].removed =>
       s_entries'[e] = [s_entries[e] EXCEPT !.health = s_entries'[e].health]]_sVars

\* PerceptionPipeline: BuildExecutionOrder fails exactly for a missing dependency or a
\* cycle, and otherwise lists every stage once, after the stages it depends on.
OrderIsTopological == part = "graph" => G!OrderIsTopological

\* PerceptionPipeline: a graph that could be executed still can when a stage is gone.
UnregisterKeepsTheGraphExecutable ==
  [][part = "graph" =>
       \A s \in DOMAIN g_stages :
         DOMAIN g_stages' = DOMAIN g_stages \ {s} /\ G!BuildExecutionOrder(g_stages).error = G!None
           => G!BuildExecutionOrder(g_stages').error = G!None]_gVars

\* PerceptionPipeline: the stages of two executions never interleave.
ExecutionsAreSerialized == part = "executions" => E!ExecutionsAreSerialized

\* PerceptionPipeline: a stage runs when the enabled dependencies it had in the copied
\* graph have succeeded, whatever was edited since.
DependenciesRanFirst == part = "executions" => E!DependenciesRanFirst

\* FrameSynchronizer: a set is synchronized exactly when it holds a frame of every
\* required type, all its frames have a time stamp and no two are further apart than
\* the policy allows.
SetsAreSynchronized == part = "frames" => G!SetsAreSynchronized

\* ModelManager: two callers that register an id at once leave the capabilities of the
\* engine that won.
CapabilitiesAreCurrent == M!CapabilitiesAreCurrent

\* RuleBasedPlanner: a call of CancelPlan cancels one call of Plan, now or later.
CancelsOnce == part = "cancels" => K!CancelsOnce

-----------------------------------------------------------------------------
\* SensorManager: registrations balance, every frame read is routed and every failed read
\* counted once, LatestFrame is the newest, routing reaches every listener it copied and
\* counts the calls, and a removed sensor is neither started nor read.
SensorsAreSound ==
  /\ [](/\ RegistrationsBalance /\ FramesAreAccountedFor /\ LatestIsNewest
        /\ DeliveriesAreCounted /\ RoutingReachesAll)
  /\ RemovedSensorsAreLeftAlone

\* PerceptionPipeline: the execution order is topological whenever there is one and stays
\* so when a stage is unregistered, executions do not interleave, and a stage runs after
\* the dependencies it had in the copied graph.
StagesRunInOrder ==
  /\ [](OrderIsTopological /\ ExecutionsAreSerialized /\ DependenciesRanFirst)
  /\ UnregisterKeepsTheGraphExecutable

\* ModelManager and RuleBasedPlanner: a race between two callers is settled once: the
\* capabilities kept are those of the engine that won, and a CancelPlan cancels one Plan.
RacesAreSettledOnce == CapabilitiesAreCurrent /\ CancelsOnce
=============================================================================

--------------------------- MODULE PerceptionPipeline ---------------------------
(***************************************************************************)
(* src/perception/PerceptionPipeline.cpp: a graph of stages that callers   *)
(* edit while others execute it.  Execute orders a copy of the graph and   *)
(* then runs the stages of the copy, one execution at a time.              *)
(* src/perception/SensorFusion.cpp: grouping frames by time stamp under a  *)
(* policy that may be replaced meanwhile (fusionVars, FusionSpec).         *)
(***************************************************************************)
EXTENDS Integers, Sequences, FiniteSets, FiniteSetsExt, SequencesExt

CONSTANTS
  Stages,           \* stage ids, naturals: a std::map walks them in order
  MaxDependencies,  \* bound on the dependencies a stage names
  Callers,          \* threads that call Execute
  MaxExecutions,    \* bound on executions
  SensorTypes,
  MaxTime,          \* bound on time stamps; 0 is the unset time stamp
  MaxFrames         \* bound on the frames of a set

VARIABLES
  stages,      \* stages_: id -> descriptor
  execution,   \* caller -> its execution
  holder,      \* the caller that holds execution_mutex_, or None
  executions,  \* executions begun
  policy,      \* the synchronizer's policy
  frames,      \* the frames that arrived
  answer       \* the status of the last answer

vars == <<stages, execution, holder, executions>>
fusionVars == <<policy, frames, answer>>

None == "none"
Idle == [at |-> "idle"]

\* PerceptionStageDescriptor: dependencies is a vector and may repeat an id, name
\* an unknown one, or the stage itself.
Descriptor == [dependencies : BoundedSeq(Stages, MaxDependencies), enabled : BOOLEAN]

Init ==
  /\ stages = <<>> /\ holder = None /\ executions = 0
  /\ execution = [c \in Callers |-> Idle]

-----------------------------------------------------------------------------
\* BuildExecutionOrder.  The edges that enter a stage, one per dependency named.
Incoming(graph) == [s \in DOMAIN graph |-> Len(graph[s].dependencies)]

\* dependents[d]: the stages that name d, once for each time they do.
Dependents(graph, d) ==
  LET Ordered == SetToSortSeq(DOMAIN graph, <)
      Named(s) == SelectSeq(graph[s].dependencies, LAMBDA x : x = d)
  IN FlattenSeq([i \in DOMAIN Ordered |-> [k \in DOMAIN Named(Ordered[i]) |-> Ordered[i]]])

\* Cross the edge to dependent: it is ready when that was the last one.
Cross(state, dependent) ==
  IF state.incoming[dependent] = 0 THEN state
  ELSE [incoming |-> [state.incoming EXCEPT ![dependent] = @ - 1],
        ready |-> IF state.incoming[dependent] = 1 THEN Append(state.ready, dependent)
                  ELSE state.ready]

RECURSIVE Drain(_, _, _)
\* The loop over the deque of ready stages.
Drain(graph, state, order) ==
  IF state.ready = <<>> THEN order
  ELSE LET s == Head(state.ready) IN
       Drain(graph, FoldLeft(Cross, [state EXCEPT !.ready = Tail(@)], Dependents(graph, s)),
             Append(order, s))

BuildExecutionOrder(graph) ==
  IF \E s \in DOMAIN graph : ~(Range(graph[s].dependencies) \subseteq DOMAIN graph)
  THEN [error |-> "missing", order |-> <<>>]
  ELSE LET incoming == Incoming(graph)
           first == SetToSortSeq({s \in DOMAIN graph : incoming[s] = 0}, <)
           order == Drain(graph, [incoming |-> incoming, ready |-> first], <<>>)
       IN [error |-> IF Len(order) # Cardinality(DOMAIN graph) THEN "cycle" ELSE None,
           order |-> order]

-----------------------------------------------------------------------------
\* RegisterStage: nothing is asked of the dependencies but a non-empty id.
RegisterStage(s, descriptor) ==
  /\ s \notin DOMAIN stages
  /\ stages' = [x \in DOMAIN stages \cup {s} |-> IF x = s THEN descriptor ELSE stages[x]]
  /\ UNCHANGED <<execution, holder, executions>>

\* UnregisterStage also takes the stage out of the dependencies of the others.
UnregisterStage(s) ==
  /\ s \in DOMAIN stages
  /\ stages' = [x \in DOMAIN stages \ {s} |-> [stages[x] EXCEPT !.dependencies =
                  SelectSeq(@, LAMBDA d : d # s)]]
  /\ UNCHANGED <<execution, holder, executions>>

SetStageEnabled(s, enabled) ==
  /\ s \in DOMAIN stages /\ stages[s].enabled # enabled
  /\ stages' = [stages EXCEPT ![s].enabled = enabled]
  /\ UNCHANGED <<execution, holder, executions>>

Clear ==
  /\ stages # <<>> /\ stages' = <<>>
  /\ UNCHANGED <<execution, holder, executions>>

Goes(c, state) == execution' = [execution EXCEPT ![c] = state]

\* Execute orders a copy of the stages, ...
Execute(c) ==
  /\ execution[c].at = "idle" /\ executions < MaxExecutions
  /\ executions' = executions + 1
  /\ LET built == BuildExecutionOrder(stages) IN
     IF built.error # None THEN UNCHANGED execution
     ELSE Goes(c, [at |-> "waiting", graph |-> stages, left |-> built.order, executed |-> <<>>])
  /\ UNCHANGED <<stages, holder>>

\* ... takes execution_mutex_, ...
Lock(c) ==
  /\ execution[c].at = "waiting" /\ holder = None
  /\ holder' = c /\ Goes(c, [execution[c] EXCEPT !.at = "running"])
  /\ UNCHANGED <<stages, executions>>

\* Fault: a stage that fails is passed over.
SkipsFailures(c, outcome) ==
  /\ execution[c].at = "running" /\ execution[c].left # <<>>
  /\ LET s == Head(execution[c].left) IN
     Goes(c, [execution[c] EXCEPT !.left = Tail(@),
        !.executed = IF outcome = "ok" /\ execution[c].graph[s].enabled THEN Append(@, s) ELSE @])
  /\ UNCHANGED <<stages, holder, executions>>

\* ... and runs the enabled stages until one fails or throws.
Process(c, outcome) ==
  /\ execution[c].at = "running" /\ execution[c].left # <<>>
  /\ LET s == Head(execution[c].left)
         next == [execution[c] EXCEPT !.left = Tail(@)]
     IN CASE ~execution[c].graph[s].enabled -> Goes(c, next) /\ UNCHANGED holder
          [] execution[c].graph[s].enabled /\ outcome = "ok" ->
               Goes(c, [next EXCEPT !.executed = Append(@, s)]) /\ UNCHANGED holder
          [] execution[c].graph[s].enabled /\ outcome # "ok" ->
               Goes(c, Idle) /\ holder' = None
  /\ UNCHANGED <<stages, executions>>

Finish(c) ==
  /\ execution[c].at = "running" /\ execution[c].left = <<>>
  /\ Goes(c, Idle) /\ holder' = None
  /\ UNCHANGED <<stages, executions>>

Executes(c) ==
  Lock(c) \/ (\E outcome \in {"ok", "fails"} : Process(c, outcome)) \/ Finish(c)

Next ==
  \/ \E s \in Stages : (\E d \in Descriptor : RegisterStage(s, d)) \/ UnregisterStage(s)
                       \/ \E enabled \in BOOLEAN : SetStageEnabled(s, enabled)
  \/ Clear
  \/ \E c \in Callers : Execute(c) \/ Executes(c)

\* A running execution goes on, and one that waits gets the lock in the end: the
\* other callers execute a bounded number of times.
Spec == Init /\ [][Next]_vars /\ \A c \in Callers : WF_vars(Executes(c))

-----------------------------------------------------------------------------
(* FrameSynchronizer                                                       *)

\* SensorFrame: the members synchronization reads.
SensorFrame == [sensorType : SensorTypes, timestamp : 0..MaxTime]

\* FrameSynchronizationPolicy; a negative skew is not valid.
Policy == [maximumSkew : -1..MaxTime, required : SUBSET SensorTypes]

ValidPolicy(p) == p.maximumSkew >= 0

\* SynchronizedFrameSet
FrameSet(status, set, first, last) ==
  [status |-> status, frames |-> set, earliest |-> first, latest |-> last]

ContainsSensorType(set, type) == \E i \in DOMAIN set : set[i].sensorType = type

\* Fault: the spread is taken between the first and the last frame of the vector.
SynchronizeInOrder(p, set) ==
  LET first == Head(set).timestamp
      last == Last(set).timestamp
  IN IF ~ValidPolicy(p) \/ set = <<>> THEN FrameSet("InvalidArgument", <<>>, 0, 0)
     ELSE IF \E type \in p.required : ~ContainsSensorType(set, type)
          THEN FrameSet("FailedPrecondition", <<>>, 0, 0)
     ELSE IF first = 0 \/ last = 0 THEN FrameSet("InvalidArgument", <<>>, 0, 0)
     ELSE IF last - first > p.maximumSkew THEN FrameSet("FailedPrecondition", <<>>, first, last)
     ELSE FrameSet("Ok", set, first, last)

Synchronize(p, set) ==
  LET times == {set[i].timestamp : i \in DOMAIN set}
  IN IF ~ValidPolicy(p) \/ set = <<>> THEN FrameSet("InvalidArgument", <<>>, 0, 0)
     ELSE IF \E type \in p.required : ~ContainsSensorType(set, type)
          THEN FrameSet("FailedPrecondition", <<>>, 0, 0)
     ELSE IF Min(times) = 0 \/ Max(times) = 0 THEN FrameSet("InvalidArgument", <<>>, 0, 0)
     ELSE IF Max(times) - Min(times) > p.maximumSkew
          THEN FrameSet("FailedPrecondition", <<>>, Min(times), Max(times))
     ELSE FrameSet("Ok", set, Min(times), Max(times))

\* A synchronizer is made with any policy, an unusable one included.
FusionInit == policy \in Policy /\ frames = <<>> /\ answer = "none"

SetPolicy(p) ==
  /\ ValidPolicy(p)
  /\ policy' = p /\ UNCHANGED <<frames, answer>>

\* Frames arrive from the sensors.
Arrive(f) ==
  /\ Len(frames) < MaxFrames
  /\ frames' = Append(frames, f) /\ UNCHANGED <<policy, answer>>

Ask ==
  /\ answer' = Synchronize(policy, frames).status
  /\ frames' = <<>> /\ UNCHANGED policy

FusionNext ==
  \/ \E p \in Policy : SetPolicy(p)
  \/ \E f \in SensorFrame : Arrive(f)
  \/ Ask

FusionSpec == FusionInit /\ [][FusionNext]_fusionVars

-----------------------------------------------------------------------------
Edge(graph, d, s) == d \in Range(graph[s].dependencies)

\* Some stages of the graph each wait for another of them.
Cyclic(graph) ==
  \E S \in SUBSET DOMAIN graph \ {{}} : \A s \in S : \E d \in S : Edge(graph, d, s)

\* BuildExecutionOrder against its reference, over every graph the edits reach,
\* repeated and self dependencies included: it fails exactly when a dependency is
\* missing or there is a cycle, and otherwise lists every stage once, after all
\* the stages it depends on.
OrderIsTopological ==
  LET built == BuildExecutionOrder(stages)
      missing == \E s \in DOMAIN stages : ~(Range(stages[s].dependencies) \subseteq DOMAIN stages)
  IN /\ built.error # None <=> missing \/ Cyclic(stages)
     /\ built.error = None =>
          /\ Range(built.order) = DOMAIN stages /\ Len(built.order) = Cardinality(DOMAIN stages)
          /\ \A i, j \in DOMAIN built.order :
               Edge(stages, built.order[i], built.order[j]) => i < j

\* Unregistering a stage leaves no dependency on it behind: a graph that could be
\* executed still can.
UnregisterKeepsTheGraphExecutable ==
  [][\A s \in DOMAIN stages : DOMAIN stages' = DOMAIN stages \ {s}
       /\ BuildExecutionOrder(stages).error = None
       => BuildExecutionOrder(stages').error = None]_vars

\* Stages of two executions never interleave: at most one execution runs.
ExecutionsAreSerialized ==
  \A c, d \in Callers : execution[c].at = "running" /\ execution[d].at = "running" => c = d

\* A stage runs only when every enabled dependency it had in the graph that this
\* execution copied has succeeded, whatever was edited since.
DependenciesRanFirst ==
  \A c \in Callers : execution[c].at = "running" =>
    LET e == execution[c] IN
    \A i \in DOMAIN e.executed : \A d \in Range(e.graph[e.executed[i]].dependencies) :
      e.graph[d].enabled => \E j \in 1..i - 1 : e.executed[j] = d

\* A set is synchronized exactly when it holds a frame of every required type, all
\* its frames have a time stamp and no two are further apart than the policy that
\* is in force allows; the frames are then returned as they came.
SetsAreSynchronized ==
  LET reply == Synchronize(policy, frames)
      pairs == \A i, j \in DOMAIN frames :
                 frames[i].timestamp - frames[j].timestamp <= policy.maximumSkew
      stamped == \A i \in DOMAIN frames : frames[i].timestamp # 0
      complete == \A type \in policy.required : ContainsSensorType(frames, type)
  IN /\ (reply.status = "Ok") <=> (frames # <<>> /\ pairs /\ stamped /\ complete)
     /\ reply.status = "Ok" => reply.frames = frames
     /\ reply.status = "Ok" => \A i \in DOMAIN frames :
          frames[i].timestamp \in reply.earliest..reply.latest

=============================================================================

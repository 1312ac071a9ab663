------------------------------ MODULE PluginFactory ------------------------------
(***************************************************************************)
(* plugins/src/PluginFactory.cpp and PluginRegistry.cpp: plugin types that *)
(* are registered in a factory and in the registry it was given, instances *)
(* that the factory counts, and the lifecycle state the registry shows.    *)
(* Creators and Shutdown run outside the locks.                            *)
(***************************************************************************)
EXTENDS Integers, FiniteSets

(* plugins/include/humanoid/plugins/PluginVersionCompatibility.hpp: the *)
(* range of framework versions that a plugin accepts.                   *)
\* SemanticVersion
Version(major, minor, patch) == [major |-> major, minor |-> minor, patch |-> patch]

Compare(lhs, rhs) ==
  LET Order(a, b) == IF a < b THEN -1 ELSE 1
  IN IF lhs.major # rhs.major THEN Order(lhs.major, rhs.major)
     ELSE IF lhs.minor # rhs.minor THEN Order(lhs.minor, rhs.minor)
     ELSE IF lhs.patch # rhs.patch THEN Order(lhs.patch, rhs.patch)
     ELSE 0

\* A range is [minimum, maximum], both inclusive.
IsValid(range) == Compare(range.minimum, range.maximum) <= 0

IsCompatibleWith(range, framework) ==
  Compare(range.minimum, framework) <= 0 /\ Compare(framework, range.maximum) <= 0

CONSTANTS
  Plugins,        \* plugin ids
  Compatibility,  \* plugin id -> the range of its metadata
  ApiVersion,     \* humanoid::common::apiVersion()
  Callers,
  MaxInstances    \* bound on instances of a plugin

ASSUME FiniteCallers == IsFiniteSet(Callers)

VARIABLES
  factories,   \* factories_: id -> active_instances
  registry,    \* PluginRegistry's plugins_: id -> lifecycle state
  held,        \* id -> instances in the hands of the host
  call         \* caller -> what it is doing

vars == <<factories, registry, held, call>>

Idle == [at |-> "idle"]

Put(f, k, v) == [x \in DOMAIN f \cup {k} |-> IF x = k THEN v ELSE f[x]]
Drop(f, k) == [x \in DOMAIN f \ {k} |-> f[x]]
Goes(c, place, id) == call' = [call EXCEPT ![c] = [at |-> place, id |-> id]]
Returns(c) == call' = [call EXCEPT ![c] = Idle]

Init ==
  /\ factories = <<>> /\ registry = <<>>
  /\ held = [id \in Plugins |-> 0] /\ call = [c \in Callers |-> Idle]

\* PluginRegistry: RegisterPlugin, UnregisterPlugin and SetLifecycleState
RegistryAdds(id) ==
  /\ IsCompatibleWith(Compatibility[id], ApiVersion) /\ id \notin DOMAIN registry
  /\ registry' = Put(registry, id, "Registered")

RegistryRemoves(id) == id \in DOMAIN registry /\ registry' = Drop(registry, id)

SetLifecycleState(id, state) ==
  registry' = IF id \in DOMAIN registry THEN [registry EXCEPT ![id] = state] ELSE registry

\* release_active_instance, also the end of DestroyPlugin
Release(id) ==
  factories' = IF id \in DOMAIN factories /\ factories[id] > 0
               THEN [factories EXCEPT ![id] = @ - 1] ELSE factories

-----------------------------------------------------------------------------

\* RegisterPlugin, with PluginRegistry::RegisterPlugin inside.
RegisterPlugin(id) ==
  /\ IsValid(Compatibility[id]) /\ id \notin DOMAIN factories
  /\ RegistryAdds(id)
  /\ factories' = Put(factories, id, 0)
  /\ UNCHANGED <<held, call>>

\* UnregisterPlugin, with PluginRegistry::UnregisterPlugin inside.
UnregisterPlugin(id) ==
  /\ id \in DOMAIN factories /\ factories[id] = 0
  /\ RegistryRemoves(id)
  /\ factories' = Drop(factories, id)
  /\ UNCHANGED <<held, call>>

\* CreatePlugin counts the instance before it exists, ...
CreatePlugin(c, id) ==
  /\ call[c].at = "idle" /\ id \in DOMAIN factories /\ factories[id] < MaxInstances
  /\ factories' = [factories EXCEPT ![id] = @ + 1]
  /\ Goes(c, "creating", id) /\ UNCHANGED <<registry, held>>

\* ... calls the creator, which throws, returns null or another plugin, or works, ...
CreatorReturns(c, ok) ==
  /\ call[c].at = "creating"
  /\ Goes(c, IF ok THEN "created" ELSE "releasing", call[c].id)
  /\ UNCHANGED <<factories, registry, held>>

ReleaseFailed(c) ==
  /\ call[c].at = "releasing"
  /\ Release(call[c].id) /\ Goes(c, "markingFailed", call[c].id)
  /\ UNCHANGED <<registry, held>>

\* ... and shows the result in the registry.
MarkFailed(c) ==
  /\ call[c].at = "markingFailed"
  /\ SetLifecycleState(call[c].id, "Failed") /\ Returns(c)
  /\ UNCHANGED <<factories, held>>

MarkLoaded(c) ==
  /\ call[c].at = "created"
  /\ SetLifecycleState(call[c].id, "Loaded")
  /\ IF call[c].id \in DOMAIN registry
     THEN held' = [held EXCEPT ![call[c].id] = @ + 1] /\ Returns(c) /\ UNCHANGED factories
     ELSE Release(call[c].id) /\ Returns(c) /\ UNCHANGED held

\* DestroyPlugin: the instance is checked under the lock and shut down outside it, ...
DestroyPlugin(c, id) ==
  /\ call[c].at = "idle" /\ held[id] > 0
  /\ id \in DOMAIN factories /\ factories[id] > 0
  /\ held' = [held EXCEPT ![id] = @ - 1]
  /\ Goes(c, "shuttingDown", id) /\ UNCHANGED <<factories, registry>>

\* Fault: an instance whose shutdown failed is counted out.
ForgetsFailed(c, outcome) ==
  /\ call[c].at = "shuttingDown"
  /\ IF outcome = "ok" THEN Goes(c, "shutDown", call[c].id) /\ UNCHANGED <<factories, registry, held>>
     ELSE /\ SetLifecycleState(call[c].id, "Failed") /\ Returns(c)
          /\ held' = [held EXCEPT ![call[c].id] = @ + 1]
          /\ Release(call[c].id)

\* ... stays with its owner when the shutdown fails, or throws out of DestroyPlugin, ...
ShutdownReturns(c, outcome) ==
  /\ call[c].at = "shuttingDown"
  /\ IF outcome = "ok" THEN Goes(c, "shutDown", call[c].id) /\ UNCHANGED <<registry, held>>
     ELSE /\ IF outcome = "fails" THEN SetLifecycleState(call[c].id, "Failed")
             ELSE UNCHANGED registry
          /\ Returns(c) /\ held' = [held EXCEPT ![call[c].id] = @ + 1]
  /\ UNCHANGED factories

\* ... and is counted out before the registry shows its shutdown.
ReleaseDestroyed(c) ==
  /\ call[c].at = "shutDown"
  /\ Release(call[c].id) /\ Goes(c, "markingShutdown", call[c].id)
  /\ UNCHANGED <<registry, held>>

MarkShutdown(c) ==
  /\ call[c].at = "markingShutdown"
  /\ SetLifecycleState(call[c].id, "Shutdown") /\ Returns(c)
  /\ UNCHANGED <<factories, held>>

Step(c) ==
  \/ \E ok \in BOOLEAN : CreatorReturns(c, ok)
  \/ \E outcome \in {"ok", "fails", "throws"} : ShutdownReturns(c, outcome)
  \/ ReleaseFailed(c) \/ MarkFailed(c) \/ MarkLoaded(c)
  \/ ReleaseDestroyed(c) \/ MarkShutdown(c)

Next ==
  \/ \E id \in Plugins : RegisterPlugin(id) \/ UnregisterPlugin(id)
  \/ \E c \in Callers : Step(c) \/ \E id \in Plugins : CreatePlugin(c, id) \/ DestroyPlugin(c, id)

Spec == Init /\ [][Next]_vars

-----------------------------------------------------------------------------
In(id, places) == Cardinality({c \in Callers : call[c].at \in places /\ call[c].id = id})

\* The instances that exist, being created or shut down included.
Existing(id) == held[id] + In(id, {"creating", "created", "releasing", "shuttingDown", "shutDown"})

\* active_instances is exact at any moment, failed creations and failed shutdowns
\* included; so UnregisterPlugin fails while instances are active, as documented.
InstancesAreCounted ==
  \A id \in Plugins : Existing(id) = IF id \in DOMAIN factories THEN factories[id] ELSE 0

\* Factory and registry agree on what is registered, although each has its own lock.
RegistryAgrees == DOMAIN factories = DOMAIN registry

\* An incompatible plugin never becomes visible.
OnlyCompatiblePlugins ==
  \A id \in DOMAIN registry : IsCompatibleWith(Compatibility[id], ApiVersion)

\* What the factory and the registry say of a plugin is true between any two steps of
\* concurrent creations and destructions: the instances counted exist, both know the
\* same plugins, and only compatible ones.
PluginsAreSound == InstancesAreCounted /\ RegistryAgrees /\ OnlyCompatiblePlugins
=============================================================================

SPECIFICATION MCSpec
CONSTANTS
  MaxRetry = 7
  UInt32Max = 7
  Int32Max = 3
  UInt64Max = 31
  Int64Max = 15
  Exact = 8
  KnownTexts <- MCKnownTexts
  Caller = c1
  Plugins = {"arm", "hand"}
  Compatibility <- Ranges
  ApiVersion <- Api
  Callers = {c1, c2, c3}
  MaxInstances = 3
  Requesters = {c1, c2}
  Options <- AllOptions
  HasFallback = TRUE
  HasRuntime = TRUE
  MaxRequests = 2
  c1 = c1
  c2 = c2
  c3 = c3
INVARIANTS
  TreeDocumentsAreFaithful
  MissionDocumentsAreFaithful
  CommandsAreSafe
  PayloadsAreReadAsMeant
  PlansFollowTheRules
  PluginsAreSound
  PlanningIsSound
  SetsAreSynchronized
  RacesAreSettledOnce
PROPERTIES
  SensorsAreSound
  StagesRunInOrder

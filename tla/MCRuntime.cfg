SPECIFICATION MCSpec
CONSTANTS
  Parts = {"resources", "pipeline", "scheduler", "cancellation", "telemetry",
           "bridge", "blackboard"}
  PipelineClients = {"c1"}
  TelemetryClients = {c1}
  Clients = {"c1"}
  Workers = {"w1", "w2"}
  Jobs = {1, 2}
  Priority <- MCPriority
  Sequential = {2}
  CallbackStates = {"Completed", "throw", "Running"}
  MaximumQueueSize = 1
  MaximumCompletedHistorySize = 1
  MaxRefusals = 1
  MaxThrows = 1
  JobsMayShutDown = TRUE
  Cancellers = {"t1", "t2"}
  Roots = {"root"}
  Children = {"child", "grandchild"}
  Parent <- MCParent
  UserCallbacks = {"c1", "c2"}
  MaxRequests = 1
  Namespaces = {"n1", "n2"}
  Keys = {"k1", "k2"}
  Values <- MCValues
  Acquirers = {t1, t2, t3}
  Resources = {r1}
  Blockers = {t1, t2, t3}
  MaxLeases = 3
  CancelDuringShutdown = FALSE
INVARIANTS
  LeasesAreSound
  JobsAreSound
PROPERTIES
  WritersPreferred
  ImplementsLeaseTable
  ExecutionsAreSound
  CallbacksAreSound
  TelemetryIsSound
  ImplementsSharedStore

SPECIFICATION MCFairSpec
CONSTANTS
  Parts = {"dispatcher", "queue", "pipeline", "scheduler"}
  Callers = {c1, c2}
  Workers = {w1}
  Commands <- MCLiveCommands
  ExecutorResults = {"Completed", "Rejected", "Timeout", "Failed"}
  MaximumQueueSize = 2
  MaxTasks = 1
  AdapterPresent = TRUE
  AdapterResults = {"Completed"}
  AdapterMayShutdown = FALSE
  StateManager = TRUE
  CapabilitiesOverridden = TRUE
  Capabilities <- MCCapabilities
  Policy <- MCDefaultOptions
  RobotStates <- MCQuietRobot
INVARIANTS
  ShutdownQuiescesDispatch
PROPERTIES
  EveryShutdownReturns
  EverythingAcceptedResolves

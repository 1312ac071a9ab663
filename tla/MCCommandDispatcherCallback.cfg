SPECIFICATION MCFairSpec
CONSTANTS
  Parts = {"dispatcher"}
  Callers = {c1, c2}
  Workers = {w1}
  Commands <- MCLiveCommands
  ExecutorResults = {"Completed", "Rejected", "Timeout", "Failed"}
  MaximumQueueSize = 2
  MaxTasks = 1
  AdapterPresent = TRUE
  AdapterResults = {"Completed"}
  AdapterMayShutdown = TRUE
  StateManager = TRUE
  CapabilitiesOverridden = TRUE
  Capabilities <- MCCapabilities
  Policy <- MCDefaultOptions
  RobotStates <- MCQuietRobot
PROPERTY
  CallbackShutdownReturns
CHECK_DEADLOCK FALSE

SPECIFICATION MCSpec
CONSTANTS
  Parts = {"dispatcher"}
  Callers = {c1, c2}
  Workers = {w1}
  Commands <- MCCommands
  ExecutorResults = {"Completed", "Rejected", "Timeout", "Failed"}
  MaximumQueueSize = 2
  MaxTasks = 1
  AdapterPresent = TRUE
  AdapterResults = {"Completed"}
  AdapterMayShutdown = TRUE
  StateManager = FALSE
  CapabilitiesOverridden = FALSE
  Capabilities <- MCCapabilities
  Policy <- MCLegacyOptions
  RobotStates <- MCStoppingRobot
SYMMETRY MCSymmetry
INVARIANTS
  DispatchesAreConsistent
  AtMostOneLateStart
PROPERTIES
  ImplementsQueue
CHECK_DEADLOCK FALSE

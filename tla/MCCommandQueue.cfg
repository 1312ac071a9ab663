SPECIFICATION Spec
CONSTANTS
  Callers = {c1, c2}
  Workers = {w1, w2}
  Commands <- MCCommands
  ExecutorResults = {"Completed", "Running"}
  MaximumQueueSize = 2
  MaxTasks = 3
CONSTRAINT MCThirdTask
SYMMETRY MCSymmetry
INVARIANTS
  StoreIsConsistent
  EveryPromiseHasOneOwner
  StatisticsAreExact
  ShutdownIsQuiescent
PROPERTIES
  DescendingPriorityFifo
  ResolvedNeverStarts

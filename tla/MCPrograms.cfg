SPECIFICATION MCSpec
CONSTANTS
  Trees <- MCTrees
  Outcomes = {"Idle", "Running", "Success", "Failure", "Aborted"}
INVARIANTS
  VerdictsRestOnObservations
  LoadedTreeIsTheDocument
PROPERTIES
  TreesAreSound
  TreeJobsAreSound
  MissionsAreSound

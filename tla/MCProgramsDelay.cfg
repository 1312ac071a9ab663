SPECIFICATION MCSpec
CONSTANTS
  Trees <- DelayTrees
  Outcomes = {"Running", "Success", "Failure"}
PROPERTIES
   DelayStaysElapsed

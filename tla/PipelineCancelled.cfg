\* Cancel against the worker that starts the stage.
SPECIFICATION Spec
CONSTANTS
  MaxRuns = 3
  MaxOps = 1
  MaxCrashes = 0
  MaxStale = 0
  FastRuns = FALSE
  UserOps = {"cancel"}
  FirstStages = {2}
\* A finished pipeline has nothing left to do.
CHECK_DEADLOCK FALSE
PROPERTIES
  CancelledStays

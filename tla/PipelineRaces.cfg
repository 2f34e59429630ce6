\* Pause or cancel at any moment, a stale kill of a live run, very fast runs.
SPECIFICATION Spec
CONSTANTS
  MaxRuns = 3
  MaxOps = 1
  MaxCrashes = 0
  MaxStale = 1
  FastRuns = TRUE
  UserOps = {"pause", "cancel"}
  FirstStages = {1, 2}
\* A finished pipeline has nothing left to do.
CHECK_DEADLOCK FALSE
INVARIANTS
  EvidenceBacked
  VerdictBacked
  FailedNotDeploy
PROPERTIES
  PausedHolds

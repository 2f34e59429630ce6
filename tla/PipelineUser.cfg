\* Restart, pause, resume, skip and one crash, any two of them at any step.
SPECIFICATION Spec
CONSTANTS
  MaxRuns = 2
  MaxOps = 2
  MaxCrashes = 1
  MaxStale = 0
  FastRuns = FALSE
  UserOps = {"restart", "pause", "resume", "skip"}
  FirstStages = {2}
\* A finished pipeline has nothing left to do.
CHECK_DEADLOCK FALSE
INVARIANTS
  TypeOK
  ResultsReal
  DeploySound
  RejectedNotDeploy

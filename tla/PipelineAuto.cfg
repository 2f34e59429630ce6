\* A pipeline left to itself: runs may fail, nobody interferes.
SPECIFICATION FairSpec
CONSTANTS
  MaxRuns = 4
  MaxOps = 0
  MaxCrashes = 0
  MaxStale = 0
  FastRuns = FALSE
  UserOps = {}
  FirstStages = {1, 2}
\* A finished pipeline has nothing left to do.
CHECK_DEADLOCK FALSE
INVARIANTS
  OneRunOfCurrentStage
  NeverAbandoned
PROPERTIES
  Forward
  Finishes

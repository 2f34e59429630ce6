\* Any call, a crash and an outage, any two of them at any step.
SPECIFICATION FairSpec
CONSTANTS
  MaxErrors = 1
  MaxRetries = 1
  RecoverAfter = 0
  FailAfter = 1
  UserOps = {"start", "pause", "resume", "stop", "update"}
  MaxOps = 1
  MaxCrashes = 1
  MaxEvents = 2
INVARIANTS
  TypeOK
  EndNotLost
PROPERTIES
  ActiveTicks
  OutageEnds
  EndIsTold

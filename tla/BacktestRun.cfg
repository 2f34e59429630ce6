\* Two worker slots, both types, any two faults.
SPECIFICATION FairSpec
CONSTANTS
  NumBars = 4
  Interval = 2
  Types = {"HISTORICAL", "LIVE_REPLAY"}
  Workers = {w1, w2}
  MaxResumes = 1
  MaxOps = 2
  Faults = {"crash", "stop", "error", "db", "redis", "stall"}
  MaxFaults = 2
INVARIANTS
  TypeOK
  CheckpointBacked
PROPERTIES
  Implements
  Settles
CHECK_DEADLOCK FALSE

SPECIFICATION FairSpec
CONSTANTS
  Specs <- OneOffSpecs
  Bodies = {"good", "failed"}
  Failed = "failed"
  MaxCalls = 3
  MaxGen = 2
  MaxFaults = 1
CHECK_DEADLOCK FALSE
INVARIANTS TypeOK Accounted
PROPERTIES AttemptsCapped OneOffEnds FailureSurfaces

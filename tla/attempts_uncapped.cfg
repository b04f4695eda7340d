SPECIFICATION Spec
CONSTANTS
  Specs <- UnjudgedSpecs
  Bodies = {"good", "failed"}
  Failed = "failed"
  MaxCalls = 3
  MaxGen = 1
  MaxFaults = 0
CHECK_DEADLOCK FALSE
PROPERTIES AttemptsCapped

SPECIFICATION Spec
CONSTANTS
  Families <- AbandonSpecs
  Payloads = {"p", "q"}
  Imports = {0}
  MaxOps = 2
  MaxGen = 2
  MaxFaults = 1
CHECK_DEADLOCK FALSE
INVARIANTS NothingOrphaned

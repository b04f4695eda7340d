SPECIFICATION Spec
CONSTANTS
  Families <- PostedRemove
  Payloads = {"p", "q"}
  Imports = {0}
  MaxOps = 2
  MaxGen = 1
  MaxFaults = 2
CHECK_DEADLOCK FALSE
INVARIANTS NothingOrphaned

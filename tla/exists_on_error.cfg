SPECIFICATION Spec
CONSTANTS
  Families <- ExistsSpecs
  Payloads = {"p", "q"}
  Imports = {0}
  MaxOps = 2
  MaxGen = 1
  MaxFaults = 1
CHECK_DEADLOCK FALSE
INVARIANTS NoDuplicate

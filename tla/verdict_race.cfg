SPECIFICATION Spec
CONSTANTS
  Families <- OneSpec
  Payloads = {"p", "q"}
  Imports = {0}
  MaxOps = 2
  MaxGen = 2
  MaxFaults = 0
CHECK_DEADLOCK FALSE
INVARIANTS VerdictOnCurrentSpec

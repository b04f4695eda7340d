SPECIFICATION Spec
CONSTANTS
  Families <- PlainRemove
  Payloads = {"p", "q"}
  Imports = {0}
  MaxOps = 3
  MaxGen = 2
  MaxFaults = 0
CHECK_DEADLOCK FALSE
INVARIANTS OperationsTracked

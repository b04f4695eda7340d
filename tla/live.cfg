SPECIFICATION FairSpec
CONSTANTS
  Families <- LiveOnly
  Payloads = {"p", "q"}
  Imports = {0}
  MaxOps = 4
  MaxGen = 2
  MaxFaults = 1
CHECK_DEADLOCK FALSE
PROPERTIES ImplementsOperation DeletionEnds OperationNoticed Converges

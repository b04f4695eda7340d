SPECIFICATION Spec
CONSTANTS
  Families <- Everything
  Payloads = {"p", "q"}
  Imports = {0, 1}
  MaxOps = 3
  MaxGen = 3
  MaxFaults = 2
CHECK_DEADLOCK FALSE
INVARIANTS TypeOK OperationsTracked NoDuplicate NothingOrphaned AnchorPolicy PollsAgainstAClock
PROPERTIES TerminalIsQuiet IdentityStable

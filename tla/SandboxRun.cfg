SPECIFICATION FairSpec
CONSTANTS
  Clients = {c1, c2}
  Statuses = {"3", "signal"}
  None = None
INVARIANTS
  TypeOK
  OwnFilesOnly
  ExitCodeKept
PROPERTIES
  CleanExit
  ClosedConsoleEnds
CHECK_DEADLOCK FALSE

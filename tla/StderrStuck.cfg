\* One byte of stderr.
SPECIFICATION ExitingSpec
CONSTANTS
  Cap = 4
  MaxQueued = 2
  MaxIO = 1
  StdinTotal = 0
  MaxAttach = 1
  Tty = FALSE
  TermFails = FALSE
  LocalFails = FALSE
  StreamFails = FALSE
  WantTtys = {FALSE}
  PipeCap = 2
  OutTotal = 0
  ErrTotal = 1
  Statuses = {0}
  HasOrphan = FALSE
  AppCloses = FALSE
  RunFails = FALSE
  HostHangs = FALSE
PROPERTY StoppingFinishes
CHECK_DEADLOCK FALSE

\* The application ends while input is being sent.
SPECIFICATION Spec
CONSTANTS
  Cap = 4
  MaxQueued = 1
  MaxIO = 1
  StdinTotal = 1
  MaxAttach = 1
  Tty = FALSE
  TermFails = FALSE
  LocalFails = FALSE
  StreamFails = FALSE
  WantTtys = {FALSE}
  PipeCap = 2
  OutTotal = 0
  ErrTotal = 0
  Statuses = {0}
  HasOrphan = FALSE
  AppCloses = FALSE
  RunFails = FALSE
  HostHangs = FALSE
INVARIANT ToGuestFramed
CHECK_DEADLOCK FALSE

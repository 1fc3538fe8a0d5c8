\* Input and output through both ends, with failing streams on the host.
SPECIFICATION Spec
CONSTANTS
  Cap = 2
  MaxQueued = 1
  MaxIO = 2
  StdinTotal = 2
  MaxAttach = 1
  Tty = FALSE
  TermFails = FALSE
  LocalFails = TRUE
  StreamFails = TRUE
  WantTtys = {FALSE}
  PipeCap = 2
  OutTotal = 2
  ErrTotal = 1
  Statuses = {0, 1}
  HasOrphan = FALSE
  AppCloses = TRUE
  RunFails = FALSE
  HostHangs = FALSE
INVARIANTS OutputInOnePlace InputInOnePlace HandshakeAgrees
PROPERTY KeepsPromise
CHECK_DEADLOCK FALSE

\* An application that ends, with a device that can take all of the input.
SPECIFICATION ExitingSpec
CONSTANTS
  Cap = 4
  MaxQueued = 1
  MaxIO = 1
  StdinTotal = 1
  MaxAttach = 1
  Tty = FALSE
  TermFails = FALSE
  LocalFails = FALSE
  StreamFails = FALSE
  WantTtys = {FALSE}
  PipeCap = 2
  OutTotal = 2
  ErrTotal = 0
  Statuses = {1}
  HasOrphan = TRUE
  AppCloses = FALSE
  RunFails = FALSE
  HostHangs = FALSE
PROPERTIES HandshakeCompletes ExitEndsSession
CHECK_DEADLOCK FALSE

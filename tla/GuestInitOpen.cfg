\* The guest's loop with an application on pipes or on a tty, against an
\* arbitrary host.
SPECIFICATION Spec
CONSTANTS
  Cap = 2
  WantTtys = {FALSE, TRUE}
  PipeCap = 1
  OutTotal = 2
  ErrTotal = 1
  Statuses = {1}
  HasOrphan = TRUE
  AppCloses = FALSE
  RunFails = TRUE
  HostHangs = TRUE
  PeerMax = 4
  MaxSeen = 20
INVARIANTS TypeOK OutputConserved ExitIsLast SyncThenPackets
CHECK_DEADLOCK FALSE

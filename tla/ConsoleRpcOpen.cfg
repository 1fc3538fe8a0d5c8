\* One session of the host end against an arbitrary peer, with every failure.
SPECIFICATION Spec
CONSTANTS
  Cap = 2
  MaxQueued = 2
  MaxIO = 1
  StdinTotal = 1
  MaxAttach = 1
  Tty = TRUE
  TermFails = TRUE
  LocalFails = TRUE
  StreamFails = FALSE
  PeerMax = 5
  PayloadMax = 2
INVARIANTS TypeOK NeverStranded QueuesBounded QuitAfterDrained AwaitsOnlyWhatItCanTake
PROPERTY DataOnlyAfterSync
CHECK_DEADLOCK FALSE

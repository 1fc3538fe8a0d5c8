SPECIFICATION Spec
CONSTANTS
  BufferLength = 2
  StdinTotal = 4
  ConsoleTotal = 4
  MaxAttach = 2
  MaxClosed = 2
  TermFails = TRUE
INVARIANTS
  TypeOK
  StreamForwards
  StreamNeverStranded
PROPERTIES
  StreamClosesOnce
  DetachedIsQuiet
CHECK_DEADLOCK FALSE

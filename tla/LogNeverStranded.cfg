SPECIFICATION Spec
CONSTANTS
  BufferLength = 2
  StdinTotal = 4
  ConsoleTotal = 4
  MaxAttach = 2
  MaxClosed = 2
  TermFails = FALSE
INVARIANT LogNeverStranded
CHECK_DEADLOCK FALSE

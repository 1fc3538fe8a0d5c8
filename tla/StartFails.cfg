SPECIFICATION Spec
CONSTANTS
  Clients = {c1}
  Statuses = {"3", "signal"}
  None = None
INVARIANT FailureIsReported
CHECK_DEADLOCK FALSE

SPECIFICATION Spec
CONSTANTS
  Contexts = {c1, c2}
  Builders = {"machine", "container"}
  MaxCalls = 5
  None = None
INVARIANTS
  TypeOK
  DefinitionIntact
  BootsWhatWasDefined
PROPERTIES
  UndefineSaysTrue
CHECK_DEADLOCK FALSE

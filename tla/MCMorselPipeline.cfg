SPECIFICATION Spec
CONSTANTS
  Devices = {d1, d2}
  Selections = 3
  Rows = 4
  Pack = 2
  None = None
INVARIANTS
  TypeOK
  TimelyResultsAreRight
  EndedAreWhole
PROPERTIES
  TimelyOperationsEnd
CHECK_DEADLOCK FALSE

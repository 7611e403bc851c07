SPECIFICATION Spec
CHECK_DEADLOCK FALSE
CONSTANTS
  LastYear = 9999
INVARIANTS
  DaysCounted

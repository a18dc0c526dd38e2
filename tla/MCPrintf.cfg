SPECIFICATION Spec
CONSTANTS
  LONG = 16
  BUFFER = 8
  Calls <- MCCalls
INVARIANTS
  FieldRight
  ArrayEnds
CHECK_DEADLOCK FALSE

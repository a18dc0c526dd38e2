SPECIFICATION FairSpec
CONSTANTS
  SERIAL_PORT = 1016
  Machines <- MCMachines
  FIFO = 2
  LOG_LENGTH = 2
  MAX_LENGTH = 3
  MAX_CALLS = 4
  MAX_INPUT = 1
INVARIANTS
  WrittenIsSent
PROPERTIES
  CallsEnd
CHECK_DEADLOCK FALSE

SPECIFICATION Spec
CONSTANTS
  MaxWrites = 2
  MaxFlows = 1
  Window = 1
  Interval = TRUE
  MaxChunks = 3
  MaxFaults = 0
CHECK_DEADLOCK FALSE
INVARIANTS ExceptionIsReported

SPECIFICATION FairSpec
CONSTANTS
  MaxWrites = 2
  MaxFlows = 2
  Window = 0
  Interval = TRUE
  MaxChunks = 3
  MaxFaults = 1
CHECK_DEADLOCK FALSE
INVARIANTS TypeOK AcceptedIsSent WaitsForNothing DoneIsLast
PROPERTIES ImplementsOrderedStream ClosedIsReceived

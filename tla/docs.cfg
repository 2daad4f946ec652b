SPECIFICATION FairSpec
CONSTANTS
  d1 = d1
  d2 = d2
  u1 = u1
  u2 = u2
  Inputs <- MCInputs
  Docs = {d1, d2}
  Users = {u1, u2}
  Me = u1
  MaxVectors = 2
  MaxWrites = 2
  BATCH_SIZE = 1
  RAG_BATCH_SIZE = 2
  Sockets = {1, 2}
  MaxBuffer = 2
  MaxFaults = 1
INVARIANTS TypeOK ClosedIsCleanWithoutPerms
PROPERTIES Replicates CatchesUp StartEnds RequestsSettle
CHECK_DEADLOCK FALSE

SPECIFICATION FairSpec
CONSTANTS
  e1 = e1
  e2 = e2
  w1 = w1
  w2 = w2
  Experts = {e1,e2}
  Workers = {w1,w2}
  NoWorker = NoWorker
  Takes <- TakeTyped
  Seed = {"enabled"}
  Edits = {}
  MaxEdits = 0
  MaxConn = 2
  MaxPending = 4
  MaxRestarts = 1
  MaxFaults = 1
  MaxInst = 2
  MaxAsks = 3
  Crashable = {w1}
  Breakable = {}
  Overlap = FALSE
  CanFail = {e1}
  Slow = {}
INVARIANTS WorkerTypeOK
PROPERTIES EnabledIsServed

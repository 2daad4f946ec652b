SPECIFICATION Spec
CONSTANTS
  e1 = e1
  w1 = w1
  w2 = w2
  Experts = {e1}
  Workers = {w1,w2}
  NoWorker = NoWorker
  Takes <- TakeAll
  Seed = {"enabled"}
  Edits = {"disabled","enabled"}
  MaxEdits = 2
  MaxConn = 1
  MaxPending = 3
  MaxRestarts = 0
  MaxFaults = 1
  MaxInst = 2
  MaxAsks = 2
  Crashable = {}
  Breakable = {}
  Overlap = FALSE
  CanFail = {}
  Slow = {e1}
INVARIANTS JobLoopAlive TrackedIsRunning StartedIsRecoverable
PROPERTY ImplementsScheduler

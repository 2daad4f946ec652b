SPECIFICATION FairSpec
CONSTANTS
  e1 = e1
  w1 = w1
  w2 = w2
  Experts = {e1}
  Workers = {w1,w2}
  NoWorker = NoWorker
  Takes <- TakeAll
  Seed = {"enabled"}
  Edits = {}
  MaxEdits = 0
  MaxConn = 3
  MaxPending = 4
  MaxRestarts = 0
  MaxFaults = 1
  MaxInst = 2
  MaxAsks = 3
  Crashable = {w1}
  Breakable = {w1}
  Overlap = FALSE
  CanFail = {}
  Slow = {}
INVARIANTS RunningIsTracked StartingIsTimed StartedIsRecoverable
  OnlyQueuedInQueue EnabledIsTracked
PROPERTIES HandedOverThroughQueue EnabledIsServed ImplementsScheduler

SPECIFICATION BoundedSpec
CONSTANTS
  e1 = e1
  w1 = w1
  w2 = w2
  Experts = {e1}
  Workers = {w1, w2}
  NoWorker = NoWorker
  Takes <- TakeAll
  Seed = {"enabled", "disabled"}
  Edits = {"enabled", "disabled", "absent"}
  MaxEdits = 1
  MaxConn = 1
  MaxPending = 9
  MaxRestarts = 0
  MaxDown = 0
  MaxQueue = 1
  MaxTimers = 1
INVARIANTS TypeOK QueuedIsInQueue OwnedWhenActive ReconnOnlyWhenGone

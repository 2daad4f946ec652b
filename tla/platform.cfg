SPECIFICATION FairSpec
CONSTANTS
  u1 = u1
  u2 = u2
  e1 = e1
  e2 = e2
  Users = {u1, u2}
  Owner = u1
  Own = e1
  Test = Test
  Names = {"main", "w"}
  Experts = {e1, e2}
  LIMIT = 1
  Jobs <- MCJobs
  MaxJobs = 2
  MaxFaults = 1
  MaxClock = 4
INVARIANTS TypeOK TablesAgree UsersStay
PROPERTIES ChangesAreSeen
CHECK_DEADLOCK FALSE

SPECIFICATION Spec
CONSTANTS
  r1 = r1
  r2 = r2
  r3 = r3
  Idle = Idle
  Runs <- Two
  Watched <- One
  Capacity = 1
  MaxPolls = 2
  MaxCrashes = 0
CHECK_DEADLOCK FALSE
INVARIANT CanceledRunsLeaveARecord

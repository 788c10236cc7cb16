SPECIFICATION FairSpec
CONSTANTS
  r1 = r1
  r2 = r2
  r3 = r3
  Idle = Idle
  Runs <- Three
  Watched <- One
  Capacity = 2
  MaxPolls = 1
  MaxCrashes = 1
CHECK_DEADLOCK FALSE
INVARIANTS
  PermitsAccounted
  StreamDoneIsFinal
PROPERTIES
  RowsFollowLifecycle
  QueuedRunsEnd

SPECIFICATION BenchSpec
CONSTANTS
  call1 = call1
  call2 = call2
  key1 = key1
  key2 = key2
  Ids <- TwoIds
  MaxCalls = 2
  MaxTurns = 3
  MaxRequests = 3
  Keys <- TwoKeys
  Ttl = 2
  MaxClock = 2
CONSTRAINT Within
CHECK_DEADLOCK FALSE
INVARIANTS
  ToolLoopTypeOK
  EveryCallIsReplied
  NoContradictionIsRead
PROPERTIES
  UsedKeysWereVetted
  CachedListsAreYoung
  ModelRunsEnd

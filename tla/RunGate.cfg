SPECIFICATION FairSpec
CONSTANTS
  absent = absent
  Absent = absent
  Manifest <- GateScenario
  Actions <- GateActions
  ShellClass <- MCShellClass
  Limits <- Limits323
  Seeds <- SomeDraws
  TokenReadings = {0}
  CostReadings = {0}
  ClockReadings = {FALSE}
  SnapshotInterval = 2
  Par = 2
  MaxFileCount = 2
  MaxFileSize = 2
  MaxPerturbedTurns = 3
INVARIANTS
  TypeOK
  ReplayAgrees
  TrackerMatchesLog
  TurnsAreWhole
  FlagsAreDeniedAttempts
  FactsMatchTracker
  FactsAreTrue
  FindingsAreEvidenced
PROPERTIES
  ImplementsRunLifecycle
  LogOnlyGrows
  RunEnds

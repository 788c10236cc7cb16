SPECIFICATION Spec
CONSTANTS
  absent = absent
  Absent = absent
  Manifest <- StrictScenario
  Actions <- StudiousActions
  ShellClass <- MCShellClass
  Limits <- Limits423
  Seeds <- NoDraws
  TokenReadings = {0, 2}
  CostReadings = {0, 2}
  ClockReadings = {FALSE, TRUE}
  SnapshotInterval = 2
  Par = 4
  MaxFileCount = 2
  MaxFileSize = 2
  MaxPerturbedTurns = 3
INVARIANTS
  NoOvershoot
  LimitReasonIsTrue
  ScoredRunsAreJudgeable
  RowFollowsLog
  FullScoreHidesNothing

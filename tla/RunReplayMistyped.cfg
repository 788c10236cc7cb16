SPECIFICATION Spec
CONSTANTS
  absent = absent
  Absent = absent
  Manifest <- MistypedScenario
  Actions <- FewActions
  ShellClass <- MCShellClass
  Limits <- Limits322
  Seeds <- NoDraws
  TokenReadings = {0}
  CostReadings = {0}
  ClockReadings = {FALSE}
  SnapshotInterval = 2
  Par = 2
  MaxFileCount = 2
  MaxFileSize = 2
  MaxPerturbedTurns = 3
INVARIANT ReplayAgrees

SPECIFICATION Spec
CONSTANTS
  ActionTypes = {"fs.patch", "test.run"}
  Packages <- MCPackages
  Configs = {one, two, leaky}
  Secrets = {leaky}
  Rank <- MCRank
  Nothing = Nothing
  Hash <- MCHash
  Genesis = Genesis
  Writers = {r1, r2}
  Runs = {r1, r2}
  Contents = {state, patch}
  States = {state}
  Patches = {patch}
  MaxOps = 4
SYMMETRY MCSymmetry
INVARIANTS
  WorkspaceTypeOK
  ReferencedArtifactsAreWhole
  UndamagedLogsVerify
  VerifiedLogsAreTrue
  ReplayTellsTheTruth
  RegisteredRunsAreJudgeable
PROPERTIES
  ImplementsArtifactPromise
  NamesMoveForward
CHECK_DEADLOCK FALSE

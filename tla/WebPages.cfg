SPECIFICATION FairSpec
CONSTANTS
  m1 = m1
  m2 = m2
  all = all
  solved = solved
  run1 = run1
  Routes <- FewRoutes
  Models <- TwoModels
  MaxSelected = 1
  MaxRenders = 2
  MaxBatches = 2
  MaxFailures = 1
  MaxNavigations = 2
INVARIANT WebTypeOK
PROPERTIES
  PagesAreOfTheHash
  PolledPagesCatchUp

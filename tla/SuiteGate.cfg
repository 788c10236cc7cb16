SPECIFICATION Spec
CONSTANTS
  b1 = b1
  b2 = b2
  c1 = c1
  c2 = c2
  c3 = c3
  old = old
  new = new
  stable = stable
  trial = trial
  k1 = k1
  k2 = k2
  Jobs <- AllJobs
  Suites <- AllSuites
  SuiteOf <- SuiteOfJob
  RevisionOf <- RevisionOfSuite
  KeyOf <- KeyOfJob
  Baseline = old
  Candidate = trial
  MaxConcurrency <- Concurrency
  ListLimit = 3
  Outcomes <- MCOutcomes
  DropPercent = 3
  MaxAdded = 1
SYMMETRY Alike
CHECK_DEADLOCK FALSE
INVARIANTS
  SummaryMatchesRows
  SafetyIsNotAveraged
  TheFirstRunsDecide

SPECIFICATION FairSpec
CONSTANTS
  c1 = c1
  c2 = c2
  Jobs <- TwoJobs
  Calls = {c1, c2}
  MinConfs = 2
  MaxRuns = 1
  MaxHeight = 1
  MaxConnects = 1
  MaxCrashes = 1
CHECK_DEADLOCK FALSE
INVARIANTS
  TypeOK
  OneTransactionPerTask
  CompletedMeansAll
PROPERTIES
  EndedIsFinal
  RunsEnd

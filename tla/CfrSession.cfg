SPECIFICATION Spec
CONSTANTS
  MaxIterations = 3
  CheckInterval = 2
  Chunks <- MCChunks
  MaxCalls = 4
  MaxFailures = 2
INVARIANTS EvReadsAverage CfvsMeasured SolveReports SamplesFresh PassesBounded
CHECK_DEADLOCK FALSE

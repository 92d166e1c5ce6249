SPECIFICATION DataSpec
CONSTANTS
  Samples <- MCSamples
  Datasets <- MCDatasets
  Massless <- MCMassless
  Arguments <- MCArguments
  MaxCrashes = 3
INVARIANT FinishedRunComplete
CHECK_DEADLOCK FALSE

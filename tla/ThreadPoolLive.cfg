SPECIFICATION FairSpec
CONSTANTS
  Workers = {w1, w2}
  Caller = caller
  Counts <- MCCounts
  Grains <- MCGrains
  MaxCalls = 1
PROPERTIES EveryCallReturns DestructorEnds ImplementsParallelFor

SPECIFICATION Spec
CONSTANTS
  Workers = {w1, w2}
  Caller = caller
  Counts <- MCCounts
  Grains <- MCGrains
  MaxCalls = 2
SYMMETRY Symmetry
INVARIANTS TypeOK BarrierHolds ExactlyOnce ExceptionReported SkippedOnlyInThrowingChunk ChunkAccounting
PROPERTIES TaskNotWrittenWhileRead

SPECIFICATION Spec
CONSTANTS
  Trees <- MCTrees
  IntRange = 64
  Passes <- MCPasses
  Threads = 2
INVARIANTS BlocksDisjoint NoConflict ReachesOfPath ValuesOfLeaves
CHECK_DEADLOCK FALSE

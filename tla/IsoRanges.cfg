SPECIFICATION Spec
CONSTANTS
  NumRanks = 3
  NumSuits = 3
  FlopCards = 2
  Unit = 6
  Strength <- MCStrength
  Roots <- MCRoots
  Beliefs <- MCBelief
  TakenAt <- MCTakenAt
  Payoffs <- MCPayoffs
  MaxActions = 1
INVARIANTS OnlyRootsRefused RunoutIsChance EquitiesAddUp
PROPERTY PlaysRawHands
CHECK_DEADLOCK FALSE

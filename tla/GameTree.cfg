SPECIFICATION Spec
CONSTANTS
  Games <- MCGames
  Deck <- MCDeck
  ActorAt <- MCActor
  ActionsAt <- MCActions
INVARIANTS ShapeKept EveryPositionOnce HistoryFindsNode
CHECK_DEADLOCK FALSE

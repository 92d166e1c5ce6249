SPECIFICATION ResponseSpec
CONSTANTS
  Unit = 2
  Games <- MCGames
INVARIANTS ResponseIsBest CurrentIsEarned AgreesWithEnumeration
CHECK_DEADLOCK FALSE

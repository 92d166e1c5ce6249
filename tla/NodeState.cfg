SPECIFICATION FairSpec
CONSTANTS
  Deck <- MCDeck
  Roots <- MCRoots
  RoundBets <- MCRoundBets
  DonkBets <- MCDonkBets
  BetRounding = 1
  MinRaiseSize = 2
  BetToAllInPercent = 75
  AddAllInPercent = 100
  MergingPercent = 20
  RakePercent = 5
  RakeCap = 1
INVARIANTS TypeOK ChipsConserved BetsClosed OfferedBetsLegal NeverStuck MergingKeepsSpread PayoffsSettle
PROPERTIES BettingEnds

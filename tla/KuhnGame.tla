------------------------------ MODULE KuhnGame ------------------------------
(***************************************************************************)
(* The three-card game of src/csrc/src/game/kuhn.cc, and what              *)
(* src/csrc/src/algorithm/cfr.cc computes on it: the value of a strategy,  *)
(* and a player's best response by trying every pure strategy.  After the  *)
(* deal a state is its cards (one per player) and its bets.  Probabilities *)
(* are multiples of 1 / Unit; a player acts at most twice, so values in    *)
(* units of 1 / Scale^2 are whole.                                         *)
(***************************************************************************)
EXTENDS Integers, Sequences, FiniteSets, FiniteSetsExt

CONSTANT Unit           \* the whole probability of an information state

ASSUME UnitAssumption == Unit \in Nat \ {0}

Scale == Unit * Unit

Players == {0, 1}
Cards == 0 .. 2
LegalActions == {0, 1}  \* pass, bet

CurrentPlayer(bets) == Len(bets) % 2
BetsOf(player, bets) ==
  Cardinality({i \in 1 .. Len(bets) : bets[i] = 1 /\ (i - 1) % 2 = player})
Pot(player, bets) == 1 + BetsOf(player, bets)

IsTerminal(bets) ==
  \/ Pot(0, bets) = 2 /\ Pot(1, bets) = 2
  \/ Len(bets) = 2 /\ bets[2] = 0
  \/ Len(bets) = 3

\* The bets of every state, from the first one on.
Lines == {bets \in UNION {[1 .. n -> LegalActions] : n \in 0 .. 3} :
            \A n \in 0 .. Len(bets) - 1 : ~IsTerminal(SubSeq(bets, 1, n))}
Decisions == {bets \in Lines : ~IsTerminal(bets)}

\* Returns of player 0; player 1 pays them.
Winnings(cards, bets) ==
  LET most == IF Pot(0, bets) < Pot(1, bets) THEN Pot(0, bets) ELSE Pot(1, bets)
      wins == Pot(0, bets) > Pot(1, bets) \/ (Pot(0, bets) = Pot(1, bets) /\ cards[1] > cards[2])
  IN  IF wins THEN most ELSE -most
Returns(player, cards, bets) == IF player = 0 THEN Winnings(cards, bets) ELSE -Winnings(cards, bets)

Deals == {cards \in Cards \X Cards : cards[1] /= cards[2]}

\* InformationStateString: the actor's card and the bets so far.
InfoStates == Cards \X Decisions
CollectInfoStates(player) == {s \in InfoStates : CurrentPlayer(s[2]) = player}

\* A strategy gives the probability of betting in every information state.
Probability(strategy, card, bets, action) ==
  IF action = 1 THEN strategy[<<card, bets>>] ELSE Unit - strategy[<<card, bets>>]

\* What a share of something of this size is; whole by the choice of Scale.
Share(size, probability) == (size * probability) \div Unit

\* The probability that the players bet so, from either hand, times Scale^2.
LineProbability(strategy, cards, bets) ==
  LET at[n \in 0 .. Len(bets)] ==
        IF n = 0 THEN Scale * Scale
        ELSE LET before == SubSeq(bets, 1, n - 1)
             IN  Share(at[n - 1], Probability(strategy, cards[1 + CurrentPlayer(before)],
                                              before, bets[n]))
  IN  at[Len(bets)]

\* How a game can go: its cards, and the bets to its end.
Outcomes == {<<cards, bets>> : cards \in Deals, bets \in Lines \ Decisions}

\* PolicyValue times Scale^2 and the number of deals.
PolicyValue(strategy, player) ==
  MapThenSumSet(LAMBDA p : LineProbability(strategy, p[1], p[2]) * Returns(player, p[1], p[2]),
                Outcomes)

With(strategy, pure) ==
  [s \in InfoStates |-> IF s \in DOMAIN pure THEN Unit * pure[s] ELSE strategy[s]]

BestResponseValueByEnumeration(strategy, player) ==
  Max({PolicyValue(With(strategy, pure), player) :
         pure \in [CollectInfoStates(player) -> LegalActions]})
=============================================================================

--------------------------- MODULE TerminalValues ----------------------------
(***************************************************************************)
(* The values of terminal nodes                                            *)
(* (src/csrc/src/game/poker/terminal_cfv_calculator.cc and                 *)
(* terminal_win_prob_matrix.cc) and the equities of ranges                 *)
(* (hand_equity_calculator.cc), computed from the opponent's reach of iso  *)
(* hands.  Arithmetic is exact: a reach is a multiple of its hand's size,  *)
(* probabilities are multiplied by the number of runouts, and equities by  *)
(* two.                                                                    *)
(***************************************************************************)
EXTENDS HandClasses

CONSTANTS
  Strength(_),    \* the evaluator: the strength of a hand with a river board
  Unit            \* a common multiple of the sizes of iso hands

\* To the evaluator, one suit is as good as another.
ASSUME StrengthAssumption ==
  \A cards \in kSubset(RiverCards + 2, Cards) :
    /\ Strength(cards) \in Int
    /\ \A names \in Bijection(Suits, Suits) : Strength(Renamed(cards, names)) = Strength(cards)

\* The reach of a raw hand: its part of the iso hand's.
RawReach(mapping, reach) ==
  [h \in UNION mapping |->
     LET iso == IsoOf(mapping, h) IN reach[iso] \div Cardinality(iso)]

(***************************************************************************)
(* ReachStats and RiverMassStats: sums that give the mass of the hands     *)
(* without a card of a given hand.                                         *)
(***************************************************************************)

Stats(mass) ==
  [total |-> SumOver(DOMAIN mass, LAMBDA h : mass[h]),
   byCard |-> [c \in Cards |-> SumOver({h \in DOMAIN mass : c \in h}, LAMBDA h : mass[h])]]

\* Fault: hands that share both cards are taken off twice.
ExcludingTwice(stats, hand, self) == stats.total - SumOver(hand, LAMBDA c : stats.byCard[c])

Excluding(stats, hand, self) == stats.total - SumOver(hand, LAMBDA c : stats.byCard[c]) + self

\* The average over an iso hand.
PerHand(mapping, Value(_)) ==
  [iso \in mapping |-> SumOver(iso, Value) \div Cardinality(iso)]

ValidMass(mapping, reach) ==
  LET raw == RawReach(mapping, reach)
      stats == Stats(raw)
  IN  PerHand(mapping, LAMBDA h : Excluding(stats, h, raw[h]))

CalculateFold(mapping, reach, payoff, folded) ==
  LET valid == ValidMass(mapping, reach)
  IN  [iso \in mapping |-> (IF folded THEN payoff.lose ELSE payoff.win) * valid[iso]]

(***************************************************************************)
(* The river: one pass over the hands from the weakest, in groups of equal *)
(* strength; a hand's mass is its reach times the payoff against it.       *)
(***************************************************************************)

StrengthOn(board, hand) == Strength(ToSet(board) \cup hand)

StrengthGroups(board, hands) ==
  LET strengths == {StrengthOn(board, h) : h \in hands}
      place == [s \in strengths |-> Cardinality({t \in strengths : t <= s})]
  IN  [g \in 1 .. Cardinality(strengths) |->
         {h \in hands : place[StrengthOn(board, h)] = g}]

Add(mass, group, raw, payoff) ==
  [h \in DOMAIN mass |-> IF h \in group THEN mass[h] + raw[h] * payoff ELSE mass[h]]

CalculateRiverShowdown(board, mapping, reach, payoff) ==
  LET raw == RawReach(mapping, reach)
      groups == StrengthGroups(board, UNION mapping)
      tied[g \in 1 .. Len(groups)] ==
        Add(IF g = 1 THEN [h \in UNION mapping |-> raw[h] * payoff.lose]
            ELSE Add(tied[g - 1], groups[g - 1], raw, payoff.win - payoff.chop),
            groups[g], raw, payoff.chop - payoff.lose)
      stats == [g \in 1 .. Len(groups) |-> Stats(tied[g])]
      GroupOf(h) == CHOOSE g \in 1 .. Len(groups) : h \in groups[g]
  IN  PerHand(mapping, LAMBDA h : Excluding(stats[GroupOf(h)], h, raw[h] * payoff.chop))

(***************************************************************************)
(* Before the river: how often a hand of the hero's bucket beats those of  *)
(* the opponent's, over all ways to deal the rest.                         *)
(***************************************************************************)

Runouts(board) == kSubset(RiverCards - Len(board), NextCards(board))
RunoutsOfPair(board) == Cardinality(kSubset(RiverCards - Len(board), 1 .. ChanceCards(board)))

\* The hand that stands for its bucket.
Representative(iso) == CHOOSE hand \in iso : TRUE

WinProbMatrix(board, mapping) ==
  LET runouts == Runouts(board)
      Wins(hero, opponent) ==
        Cardinality({cards \in runouts :
          /\ cards \cap (hero \cup opponent) = {}
          /\ StrengthOn(board, cards \cup hero) > StrengthOn(board, cards \cup opponent)})
  IN  [hero \in mapping |-> [opponent \in mapping |->
         SumOver({o \in opponent : o \cap Representative(hero) = {}},
                 LAMBDA o : (Wins(Representative(hero), o) * Unit) \div Cardinality(opponent))]]

\* Fault: losses are counted in the hero's row.
EquityDeltaOfRow(win, hero, opponent) == 2 * win[hero][opponent] - Unit

\* Losing is winning for the other hand.
EquityDelta(win, hero, opponent) == win[hero][opponent] - win[opponent][hero]

DeltaMass(win, mapping, reach) ==
  [hero \in mapping |->
     SumOver(mapping, LAMBDA o : reach[o] * EquityDelta(win, hero, o)) \div Unit]

\* A win is worth as much more than a chop as a chop is more than a loss.
CalculateRunoutShowdown(board, mapping, reach, payoff) ==
  LET valid == ValidMass(mapping, reach)
      delta == DeltaMass(WinProbMatrix(board, mapping), mapping, reach)
  IN  [iso \in mapping |->
         payoff.chop * RunoutsOfPair(board) * valid[iso]
           + (payoff.win - payoff.chop) * delta[iso]]

CalculateShowdown(board, mapping, reach, payoff) ==
  IF Len(board) = RiverCards THEN CalculateRiverShowdown(board, mapping, reach, payoff)
                             ELSE CalculateRunoutShowdown(board, mapping, reach, payoff)

(***************************************************************************)
(* HandEquityCalculator: the same sweeps with half a point for a chop.     *)
(***************************************************************************)

EquityMass(board, mapping, reach) ==
  CalculateShowdown(board, mapping, reach, [lose |-> 0, chop |-> 1, win |-> 2])

\* Numerator and denominator of a range's equity.
RangeEquity(board, mapping, own, reach) ==
  LET mass == EquityMass(board, mapping, reach)
      valid == ValidMass(mapping, reach)
  IN  [numerator |-> SumOver(mapping, LAMBDA iso : own[iso] * mass[iso]),
       denominator |-> SumOver(mapping, LAMBDA iso :
                                 2 * RunoutsOfPair(board) * own[iso] * valid[iso])]
==============================================================================

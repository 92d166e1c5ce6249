---------------------------- MODULE MCNodeState ------------------------------
(***************************************************************************)
(* Positions and bet sizes on which TLC checks NodeState: small stacks,    *)
(* equal and unequal, on every street, with every kind of abstracted bet.  *)
(***************************************************************************)
EXTENDS NodeState, TLC

MCDeck == 1 .. 6
Flop   == 1 .. 3
Turn   == 1 .. 4
River  == 1 .. 5

Size(type, amount)     == [type |-> type, amount |-> amount, cap |-> NoCap]
Geometric(streets, cap) == [type |-> "geometric", amount |-> streets, cap |-> cap]

\* The open bets of the street count in the players' totals.
Position(board, pot, stacks0, stacks1, bet0, bet1, actor, aggressor, raises) ==
  [board |-> board, pot |-> pot,
   stacks |-> [p \in Player |-> IF p = 0 THEN stacks0 ELSE stacks1],
   bet |-> [p \in Player |-> IF p = 0 THEN bet0 ELSE bet1],
   betTotal |-> [p \in Player |-> 2 + IF p = 0 THEN bet0 ELSE bet1],
   actor |-> actor, lastAggressor |-> aggressor, raises |-> raises]

MCRoots ==
  {Position(Flop, pot, s0, s1, 0, 0, 0, aggressor, 0) :
     pot \in {0, 5}, s0 \in {0, 3, 12}, s1 \in {0, 3, 9, 12}, aggressor \in {-1, 0, 1}}
  \cup {Position(board, 7, s0, s1, 0, 0, ChancePlayer, 1, 0) :
          board \in {Flop, Turn}, s0 \in {0, 8}, s1 \in {8, 20}}
  \cup {Position(board, 6, s0, s1, b0, 4, 0, 1, 1) :
          board \in {Turn, River}, s0 \in {1, 3, 15}, s1 \in {0, 9, 15}, b0 \in {0, 2}}
  \cup {Position(River, 6, 10, 10, 3, 3, 1, -1, 0)}

MCRoundBets ==
  (3 :> << {Size("percent", 33), Size("percent", 75), Geometric(0, NoCap)},
           {Size("multiplier", 3), Size("percent", 50)} >>)
  @@ (4 :> << {Size("bb", 2), Size("bb", 4), Size("bb", 5), Size("bb", 6), Size("allin", 0)},
              {Geometric(2, 100), Size("allin", 0)} >>)
  @@ (5 :> << {Size("percent", 50), Size("percent", 60), Size("percent", 70)},
              {Size("percent", 100)} >>)

MCDonkBets ==
  (3 :> {Size("percent", 50)}) @@ (4 :> {}) @@ (5 :> {Size("bb", 1), Size("geometric", 1)})
==============================================================================

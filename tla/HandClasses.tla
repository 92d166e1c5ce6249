---------------------------- MODULE HandClasses ------------------------------
(***************************************************************************)
(* Isomorphic hands (src/csrc/src/game/poker/isomorphic_mapping.cc): on a  *)
(* board, hands that differ only by a renaming of suits the board does not *)
(* notice are one iso hand.  An iso hand is the set of its raw hands here, *)
(* and a mapping the set of the iso hands of a board; the compact numbers  *)
(* the code gives them are left out.                                       *)
(***************************************************************************)
EXTENDS Integers, Sequences, FiniteSets, FiniteSetsExt, SequencesExt

CONSTANTS
  NumRanks, NumSuits,   \* the deck
  FlopCards             \* how many cards are dealt at once; then one, and one

ASSUME DeckAssumption ==
  /\ NumRanks \in Nat \ {0} /\ NumSuits \in Nat \ {0} /\ FlopCards \in Nat \ {0}
  /\ NumRanks * NumSuits >= FlopCards + 6

Player == {0, 1}
Cards == 0 .. NumRanks * NumSuits - 1
Hands == kSubset(2, Cards)
RiverCards == FlopCards + 2

SumOver(S, Op(_)) == MapThenSumSet(Op, S)

\* Boards are sequences, in the order the cards came.
NextCards(board) == Cards \ ToSet(board)
LiveHands(board) == {h \in Hands : h \cap ToSet(board) = {}}

(***************************************************************************)
(* The index library's equivalence, dealt in rounds: the flop, the turn,   *)
(* the river, the hand.                                                    *)
(***************************************************************************)

Suits == 0 .. NumSuits - 1
Renamed(cards, names) == {(c \div NumSuits) * NumSuits + names[c % NumSuits] : c \in cards}

\* Fault: the board as one round.
RenamingsOfSet(board) ==
  {names \in Bijection(Suits, Suits) : Renamed(ToSet(board), names) = ToSet(board)}

\* Renamings that leave each round of a board as it is.
Renamings(board) ==
  {names \in Bijection(Suits, Suits) :
     /\ Renamed(ToSet(SubSeq(board, 1, FlopCards)), names) = ToSet(SubSeq(board, 1, FlopCards))
     /\ \A i \in FlopCards + 1 .. Len(board) : Renamed({board[i]}, names) = {board[i]}}

Bucket(board, hand) == {Renamed(hand, names) : names \in Renamings(board)}

(***************************************************************************)
(* The mapping of a board for a set of hands possible at the root.         *)
(***************************************************************************)

Mapping(board, possible) ==
  LET renamings == Renamings(board)
  IN  {{Renamed(h, names) : names \in renamings} : h \in possible \cap LiveHands(board)}

\* The constructor refuses half-possible buckets and boards without a hand.
Accepts(board, possible) ==
  /\ possible \cap LiveHands(board) # {}
  /\ UNION Mapping(board, possible) \subseteq possible

IsoOf(mapping, hand) == CHOOSE iso \in mapping : hand \in iso

\* BuildRootPossibleHands: possible for one of the players.
RootPossibleHands(belief) == {h \in Hands : \E p \in Player : belief[p][h] > 0}

(***************************************************************************)
(* The transition to a board with one more card.                           *)
(***************************************************************************)

\* Fault: the weight is the share of the child's hand that comes from the
\* parent's.
WeightOfChild(parentIso, childIso, value) ==
  (value * Cardinality(parentIso \cap childIso)) \div Cardinality(childIso)

\* A value times an edge's weight: the share of the parent's hands that the
\* child's are.
Weighted(parentIso, childIso, value) ==
  (value * Cardinality(parentIso \cap childIso)) \div Cardinality(parentIso)

Edges(parent, child) == {edge \in parent \X child : edge[1] \cap edge[2] # {}}

PropagateChanceReach(parent, child, reach) ==
  [iso \in child |->
     SumOver({edge \in Edges(parent, child) : edge[2] = iso},
             LAMBDA edge : Weighted(edge[1], edge[2], reach[edge[1]]))]

\* One child's part in the values of a chance node, but for its probability.
BackwardChanceNode(parent, child, cfv) ==
  [iso \in parent |->
     SumOver({edge \in Edges(parent, child) : edge[1] = iso},
             LAMBDA edge : cfv[edge[2]] * Cardinality(edge[1] \cap edge[2]))]

\* The number of cards that may come for two hands, by which chance divides.
ChanceCards(board) == Cardinality(Cards) - Len(board) - 4
==============================================================================

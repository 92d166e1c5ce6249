------------------------------ MODULE RawRanges ------------------------------
(***************************************************************************)
(* What ranges and their values are, hand by hand and card by card: the    *)
(* players' ranges over raw hands along one line of play, and the values   *)
(* of a terminal node as sums over the opponent's hands and the runouts.   *)
(***************************************************************************)
EXTENDS Integers, Sequences, FiniteSets, FiniteSetsExt, SequencesExt

CONSTANTS
  Hands, RiverCards,
  Alike(_, _),      \* the hands that a board does not tell from a hand
  NextCards(_),     \* the cards that may come on a board
  Strength(_),      \* of a hand with a river board
  Payoffs           \* a player's [lose, chop, win] at a terminal node

VARIABLES
  belief,   \* the root's, by player and hand
  board,
  live,     \* the hands somebody may hold
  range,    \* by player and hand
  value     \* by hand, while a terminal node is being looked at

rawVars == <<belief, board, live, range, value>>

Players == {0, 1}
NoValue == [h \in {} |-> 0]

SumOf(f, S) == MapThenSumSet(LAMBDA h : f[h], S)

\* The root's hands that are alike are equally likely.
InitRaw ==
  /\ value = NoValue
  /\ live \subseteq Hands /\ range \in [Players -> [live -> Nat]]
  /\ \A p \in Players, h \in live :
       Cardinality(Alike(board, h)) * range[p][h] = SumOf(belief[p], Alike(board, h))

\* A player keeps the hands that take the action.
Act(p) ==
  /\ value = NoValue
  /\ DOMAIN range' = Players /\ DOMAIN range'[p] = live
  /\ \A h \in live : range'[p][h] \in {0, range[p][h]}
  /\ range'[1 - p] = range[1 - p]
  /\ UNCHANGED <<belief, board, live, value>>

\* The hands with the card are gone, and the others are as likely as before.
Deal(card) ==
  /\ value = NoValue /\ card \in NextCards(board)
  /\ board' = Append(board, card)
  /\ live' = {h \in live : card \notin h}
  /\ range' = [p \in Players |-> [h \in live' |-> range[p][h]]]
  /\ UNCHANGED <<belief, value>>

Fold(p, folder) ==
  /\ value = NoValue
  /\ \E payoff \in Payoffs :
       value' = [h \in live |->
                   MapThenSumSet(LAMBDA o : range[1 - p][o]
                                   * (IF folder = p THEN payoff.lose ELSE payoff.win),
                                 {o \in live : o \cap h = {}})]
  /\ UNCHANGED <<belief, board, live, range>>

\* Summed over the runouts.
Showdown(p) ==
  /\ value = NoValue
  /\ \E payoff \in Payoffs :
       LET runouts == kSubset(RiverCards - Len(board), NextCards(board))
           Of(h, o, cards) ==
             LET mine == Strength(ToSet(board) \cup cards \cup h)
                 theirs == Strength(ToSet(board) \cup cards \cup o)
             IN  IF mine > theirs THEN payoff.win ELSE IF mine = theirs THEN payoff.chop ELSE payoff.lose
       IN  value' = [h \in live |->
             MapThenSumSet(LAMBDA o : range[1 - p][o]
                 * MapThenSumSet(LAMBDA cards : Of(h, o, cards),
                                 {cards \in runouts : cards \cap (h \cup o) = {}}),
               {o \in live : o \cap h = {} /\ range[1 - p][o] > 0})]
  /\ UNCHANGED <<belief, board, live, range>>

NextRaw ==
  \/ \E p \in Players : Act(p) \/ (\E folder \in Players : Fold(p, folder)) \/ Showdown(p)
  \/ \E card \in NextCards(board) : Deal(card)

RawSpec == InitRaw /\ [][NextRaw]_rawVars
==============================================================================

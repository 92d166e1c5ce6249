------------------------------ MODULE IsoRanges ------------------------------
(***************************************************************************)
(* The ranges of both players over iso hands along one line of play, as    *)
(* the solver computes them from the root down                             *)
(* (src/csrc/src/algorithm/poker_cfr_solver.cc), and the values of the     *)
(* terminal node at its end.                                               *)
(***************************************************************************)
EXTENDS TerminalValues

CONSTANTS
  Roots,          \* the boards a tree may start from
  Beliefs,        \* the root beliefs: a weight for each player and hand
  TakenAt(_),     \* the sets of hands that may take an action on a board
  Payoffs,        \* a player's [lose, chop, win] at a terminal node
  MaxActions      \* actions on a line

\* IsomorphicMapping takes boards from the flop on.
ASSUME RootsAssumption ==
  \A b \in Roots : b \in Seq(Cards) /\ IsInjective(b) /\ Len(b) \in FlopCards .. RiverCards

\* Reaches are multiples of their hands' sizes.
ASSUME BeliefsAssumption ==
  /\ Unit \in Nat \ {0}
  /\ \A weights \in Beliefs :
       /\ weights \in [Player -> [Hands -> Nat]]
       /\ \A p \in Player, h \in Hands : weights[p][h] % Unit = 0

LaterCards(b) == UNION {[1 .. n -> Cards] : n \in 0 .. RiverCards - Len(b)}

\* The unit is a common multiple of the sizes of iso hands.
ASSUME UnitAssumption ==
  \A b \in Roots : \A later \in LaterCards(b), h \in Hands :
    Unit % Cardinality(Bucket(b \o later, h)) = 0

\* A showdown wins or loses half the pot; rake comes off a win, half of it off a
\* chop (NodeState::BuildTerminalPayoff).  Fold values do not use the chop, which
\* the code sets to zero at a fold.
ASSUME PayoffsAssumption ==
  \A payoff \in Payoffs :
    /\ payoff.lose \in Int /\ payoff.chop \in Int /\ payoff.win \in Int
    /\ payoff.win - payoff.chop = payoff.chop - payoff.lose

VARIABLES
  status,         \* "playing", "refused" or "valued"
  belief,         \* the root's
  board, possible, mapping, reach,
  cfv, actions

isoVars == <<status, belief, board, possible, mapping, reach, cfv, actions>>

\* SubgameSetup takes the board's cards out of a belief.
RootBelief(weights) ==
  [p \in Player |-> [h \in Hands |-> IF h \in LiveHands(board) THEN weights[p][h] ELSE 0]]

InitializeRootReach ==
  [p \in Player |-> [iso \in mapping |-> SumOver(iso, LAMBDA h : belief[p][h])]]

NoCfv == [iso \in {} |-> 0]

Init ==
  /\ board \in Roots
  /\ \E weights \in Beliefs : belief = RootBelief(weights)
  /\ possible = RootPossibleHands(belief)
  /\ status = IF Accepts(board, possible) THEN "playing" ELSE "refused"
  /\ mapping = Mapping(board, possible)
  /\ reach = InitializeRootReach
  /\ cfv = NoCfv /\ actions = 0

\* PropagatePlayerReach with a strategy that plays an action or not.
PlayAction(p) ==
  /\ status = "playing" /\ actions < MaxActions
  /\ \E taken \in TakenAt(board) :
       reach' = [reach EXCEPT ![p] =
                   [iso \in mapping |-> IF iso \subseteq taken THEN @[iso] ELSE 0]]
  /\ actions' = actions + 1
  /\ UNCHANGED <<status, belief, board, possible, mapping, cfv>>

\* A chance node's child; its mapping is made when the tree is.
DealCard(card) ==
  /\ status = "playing" /\ Len(board) < RiverCards
  /\ card \notin ToSet(board)
  /\ board' = Append(board, card)
  /\ status' = IF Accepts(board', possible) THEN "playing" ELSE "refused"
  /\ mapping' = Mapping(board', possible)
  /\ reach' = [p \in Player |-> PropagateChanceReach(mapping, mapping', reach[p])]
  /\ UNCHANGED <<belief, possible, cfv, actions>>

FoldTerminal(p, folder) ==
  /\ status = "playing"
  /\ \E payoff \in Payoffs : cfv' = CalculateFold(mapping, reach[1 - p], payoff, folder = p)
  /\ status' = "valued"
  /\ UNCHANGED <<belief, board, possible, mapping, reach, actions>>

ShowdownTerminal(p) ==
  /\ status = "playing"
  /\ \E payoff \in Payoffs : cfv' = CalculateShowdown(board, mapping, reach[1 - p], payoff)
  /\ status' = "valued"
  /\ UNCHANGED <<belief, board, possible, mapping, reach, actions>>

Next ==
  \/ \E p \in Player : PlayAction(p) \/ ShowdownTerminal(p)
  \/ \E p, folder \in Player : FoldTerminal(p, folder)
  \/ \E card \in Cards : DealCard(card)

Spec == Init /\ [][Next]_isoVars

(***************************************************************************)
(* Properties                                                              *)
(***************************************************************************)

\* Iso hands stand for raw hands: spread evenly over its raw hands, a reach is
\* what play and cards make of each hand's range, and a value is the sum over
\* the opponent's hands and the runouts.
ByHand(f) == [h \in UNION mapping |-> f[IsoOf(mapping, h)]]
SpreadReach == [p \in Player |-> RawReach(mapping, reach[p])]
RawHandsOf ==
  INSTANCE RawRanges WITH
    Alike <- Bucket, live <- UNION mapping, range <- SpreadReach,
    value <- IF status = "valued" THEN ByHand(cfv) ELSE [h \in {} |-> 0]
PlaysRawHands == RawHandsOf!RawSpec

\* A root the mapping accepts has no board the mapping refuses, but for boards
\* that leave no hand: their refusal would end the solver's construction.
OnlyRootsRefused ==
  status = "refused" => board \in Roots \/ possible \cap LiveHands(board) = {}

\* Who is all-in gets what a chance node over the next card gives whoever is
\* all-in after it: the runouts, the transitions and the chance probability
\* agree.
RunoutIsChance ==
  status = "playing" /\ Len(board) < RiverCards /\ board \in Roots =>
    \A p \in Player, payoff \in Payoffs :
      LET now == CalculateShowdown(board, mapping, reach[1 - p], payoff)
          After(card) ==
            LET child == Mapping(Append(board, card), possible)
            IN  BackwardChanceNode(mapping, child,
                  CalculateShowdown(Append(board, card), child,
                    PropagateChanceReach(mapping, child, reach[1 - p]), payoff))
          after == [card \in NextCards(board) |-> After(card)]
      IN  \A iso \in mapping :
            now[iso] * Cardinality(iso) * (RiverCards - Len(board))
              = SumOver(NextCards(board), LAMBDA card : after[card][iso])

\* Both players' equities share every pot: they add up to one, over the same
\* mass.
EquitiesAddUp ==
  status = "playing" =>
    LET first == RangeEquity(board, mapping, reach[0], reach[1])
        second == RangeEquity(board, mapping, reach[1], reach[0])
    IN  /\ first.denominator = second.denominator
        /\ first.numerator + second.numerator = first.denominator
==============================================================================

------------------------------ MODULE NodeState ------------------------------
(***************************************************************************)
(* A walk down the betting tree: NodeState::CommitAction and               *)
(* CommitChanceAction (src/csrc/src/game/poker/node_state.cc) from the     *)
(* roots SubgameSetup builds.  A NodeState is an immutable value: each     *)
(* action makes the record of the child node.  PokerTree expands every     *)
(* valid action and every card of every node, so the reachable values of   *)
(* node are the nodes of the tree.                                         *)
(***************************************************************************)
EXTENDS ActionResolver

CONSTANTS
  Deck,           \* the cards
  Roots,          \* the positions SubgameSetup is asked to solve
  RakePercent, RakeCap

VARIABLES
  node,           \* the current NodeState
  root            \* the position the walk started from

vars == <<node, root>>

\* What SubgameSetup's constructor checks of a position.
SetupAccepts(r) ==
  /\ r.board \subseteq Deck /\ Cardinality(r.board) \in 3 .. 5
  /\ r.pot \in Nat
  /\ r.stacks \in [Player -> Nat] /\ r.bet \in [Player -> Nat] /\ r.betTotal \in [Player -> Nat]
  /\ \A p \in Player : r.bet[p] <= r.betTotal[p]
  /\ r.actor \in Player \cup {ChancePlayer}
  /\ r.lastAggressor \in Player \cup {-1}
  /\ r.raises \in Nat
  /\ r.actor = ChancePlayer =>
       /\ Cardinality(r.board) \in {3, 4}
       /\ \A p \in Player : r.bet[p] = 0
       /\ r.raises = 0

\* What it does not check and a position of a game satisfies: the player to
\* act does not lead the betting, and has chips when facing a bet.
FromAGame(r) ==
  r.actor \in Player =>
    /\ r.bet[r.actor] <= r.bet[1 - r.actor]
    /\ r.bet[r.actor] < r.bet[1 - r.actor] => r.stacks[r.actor] > 0

ASSUME RootsAssumption == \A r \in Roots : SetupAccepts(r) /\ FromAGame(r)
ASSUME DeckAssumption  == IsFiniteSet(Deck)
ASSUME RakeAssumption == RakePercent \in 0 .. 100 /\ RakeCap \in Nat

\* SubgameSetup::GetRootNodeState.
RootNode(r) ==
  [board |-> r.board, pot |-> r.pot, stacks |-> r.stacks, betTotal |-> r.betTotal,
   bet |-> r.bet, actor |-> r.actor, lastAggressor |-> r.lastAggressor,
   raises |-> r.raises, folded |-> [p \in Player |-> FALSE], status |-> "live"]

Init ==
  /\ root \in Roots
  /\ node = RootNode(root)

IsRiver == Cardinality(node.board) = 5

\* The guard of CommitAction: it throws on an action that is not valid.
Commits(action) ==
  /\ node.actor \in Player
  /\ action \in Resolve(node)
  /\ UNCHANGED root

ToShowdown(n) == [n EXCEPT !.actor = TerminalPlayer, !.status = "showdown"]
ToChance(n)   == [n EXCEPT !.actor = ChancePlayer]

CommitFold ==
  /\ Commits(Fold)
  /\ node' = [node EXCEPT !.folded[node.actor] = TRUE,
                          !.actor = TerminalPlayer, !.status = "fold"]

\* Fault: the second check of a street is taken for the first.
CommitCheckAlways ==
  /\ Commits(Check)
  /\ node' = [node EXCEPT !.actor = 1 - @]

CommitCheck ==
  /\ Commits(Check)
  /\ node' = IF node.actor = 0 THEN [node EXCEPT !.actor = 1]
             ELSE IF IsRiver THEN ToShowdown(node) ELSE ToChance(node)

\* The node after the actor put chips in, up to its bet of target.
Paid(n, target) ==
  LET a == n.actor  chips == target - n.bet[a]
  IN  [n EXCEPT !.stacks[a] = @ - chips, !.bet[a] = target, !.betTotal[a] = @ + chips]

\* Fault: a short stack calls the whole bet.
CallTargetUncapped(n) == OpponentBet(n)

\* A call matches the opponent's bet, or is all-in for less.
CallTarget(n) == OwnBet(n) + Least(OpponentBet(n) - OwnBet(n), n.stacks[n.actor])

\* Fault: only an all-in bettor ends the betting, not an all-in caller.
CommitCallDealsOn ==
  /\ Commits(Call)
  /\ LET paid == Paid(node, CallTarget(node))
     IN  node' = IF paid.stacks[1 - node.actor] = 0 \/ IsRiver
                 THEN ToShowdown(paid) ELSE ToChance(paid)

CommitCall ==
  /\ Commits(Call)
  /\ LET paid == Paid(node, CallTarget(node))
     IN  node' = IF paid.stacks[0] = 0 \/ paid.stacks[1] = 0 \/ IsRiver
                 THEN ToShowdown(paid) ELSE ToChance(paid)

CommitBet(target) ==
  /\ Commits(Bet(target))
  /\ target > OwnBet(node)
  /\ target - OwnBet(node) <= node.stacks[node.actor]
  /\ node' = [Paid(node, target) EXCEPT !.actor = 1 - @, !.lastAggressor = node.actor,
                                        !.raises = @ + 1]

\* Fault: the bets stay in front of the players when the card is dealt.
CommitChanceKeepingBets(card) ==
  /\ node.actor = ChancePlayer /\ node.status = "live"
  /\ ~IsRiver
  /\ card \in Deck \ node.board
  /\ node' = [node EXCEPT !.board = @ \cup {card},
                          !.pot = @ + node.bet[0] + node.bet[1],
                          !.actor = 0, !.raises = 0]
  /\ UNCHANGED root

CommitChance(card) ==
  /\ node.actor = ChancePlayer /\ node.status = "live"
  /\ ~IsRiver
  /\ card \in Deck \ node.board
  /\ node' = [node EXCEPT !.board = @ \cup {card},
                          !.pot = @ + node.bet[0] + node.bet[1],
                          !.bet = [p \in Player |-> 0],
                          !.actor = 0, !.raises = 0]
  /\ UNCHANGED root

\* A terminal node is a leaf of the tree.
Leaf == node.status # "live" /\ UNCHANGED vars

Next ==
  \/ CommitFold
  \/ CommitCheck
  \/ CommitCall
  \/ node.actor \in Player /\ \E target \in OfferedBets(node) : CommitBet(target)
  \/ \E card \in Deck : CommitChance(card)
  \/ Leaf

Spec == Init /\ [][Next]_vars

\* PokerTree expands every node it creates, so a walk goes on to a leaf.
FairSpec == Spec /\ WF_vars(Next)

(***************************************************************************)
(* BuildTerminalPayoff, in hundredths of a chip and doubled, so that half  *)
(* a pot and half a rake are integers: what the winner, the loser and a    *)
(* player who splits gain over an even share of the root's pot.            *)
(***************************************************************************)

\* Fault: a bet nobody called is played for.
ContestedPotWithUncalled(n) == n.pot + n.bet[0] + n.bet[1]

ContestedPot(n) == n.pot + 2 * Least(n.bet[0], n.bet[1])
Rake(n) == Least(ContestedPot(n) * RakePercent, 100 * RakeCap)
Win(n)  == 100 * ContestedPot(n) - 2 * Rake(n)
Lose(n) == -100 * ContestedPot(n)
Chop(n) == IF n.status = "showdown" THEN -Rake(n) ELSE 0

(***************************************************************************)
(* Properties                                                              *)
(***************************************************************************)

\* The fields have their types and pass the checks NodeState::Validate makes of
\* every node, so no constructor call throws while the tree is built.
TypeOK ==
  /\ root \in Roots
  /\ node \in [board : SUBSET Deck, pot : Nat, stacks : [Player -> Nat],
               betTotal : [Player -> Nat], bet : [Player -> Nat],
               actor : Player \cup {ChancePlayer, TerminalPlayer},
               lastAggressor : Player \cup {-1}, raises : Nat,
               folded : [Player -> BOOLEAN], status : {"live", "fold", "showdown"}]
  /\ Cardinality(node.board) \in 3 .. 5
  /\ \A p \in Player : node.bet[p] <= node.betTotal[p]
  /\ node.status = "live" <=> node.actor # TerminalPlayer
  /\ node.status = "fold" => node.folded[0] # node.folded[1]

\* No chip appears or vanishes on the way down the tree: pot, open bets and
\* stacks add up to the root's, and what a player bet in all left its stack.
ChipsConserved ==
  /\ node.pot + node.bet[0] + node.bet[1] + node.stacks[0] + node.stacks[1]
       = root.pot + root.bet[0] + root.bet[1] + root.stacks[0] + root.stacks[1]
  /\ \A p \in Player :
       node.stacks[p] + node.betTotal[p] = root.stacks[p] + root.betTotal[p]

\* A street ends with its bets matched.  The player to act never leads the
\* betting; a card is dealt over equal bets (what SampleTurnChanceNodes throws
\* on, poker_cfr_solver.cc:1529); at a showdown the shorter bet is an all-in,
\* and the board is complete or somebody is all-in; who folded faced a bet.
BetsClosed ==
  /\ node.actor \in Player => OwnBet(node) <= OpponentBet(node)
  /\ node.actor = ChancePlayer => node.bet[0] = node.bet[1]
  /\ node.status = "showdown" =>
       /\ IsRiver \/ \E p \in Player : node.stacks[p] = 0
       /\ \A p \in Player : node.bet[p] < node.bet[1 - p] => node.stacks[p] = 0
  /\ node.status = "fold" =>
       \A p \in Player : node.folded[p] <=> node.bet[p] < node.bet[1 - p]

\* Every bet the resolver offers is one CommitAction takes: more than both bets
\* in front, no more than the actor has, a full raise unless it is all-in, and
\* made against an opponent who can still answer it.
OfferedBetsLegal ==
  node.actor \in Player =>
    \A target \in OfferedBets(node) :
      /\ target > OwnBet(node) /\ target > OpponentBet(node)
      /\ target <= OwnBet(node) + node.stacks[node.actor]
      /\ target = AllInTarget(node)
           \/ target >= MinRaiseSize + (IF NeedsCall(node) THEN OpponentBet(node) ELSE 0)
      /\ node.stacks[1 - node.actor] > 0

\* Every live node can be expanded: a player has an action (CfrStorage throws
\* on a player node without children) and a chance node has a street to deal.
NeverStuck ==
  /\ node.actor \in Player => Resolve(node) # {}
  /\ node.actor = ChancePlayer => ~IsRiver

\* The bets merging keeps are pairwise further apart than the threshold, the
\* largest bet is among them, and a dropped bet is close to a larger kept one.
MergingKeepsSpread ==
  (node.actor \in Player /\ MergingPercent > 0) =>
    LET all  == BetTargets(node)
        kept == OfferedBets(node)
    IN  /\ \A s, t \in kept : s < t => FarApart(t, s, node)
        /\ \A t \in all : \E s \in kept : s >= t /\ (t \in kept \/ ~FarApart(s, t, node))

\* What player p would own after the hand, in the units of the payoffs, if it
\* takes share of the contested pot; the uncalled bet goes back to its owner.
Wealth(p, share) ==
  200 * (node.stacks[p] + node.bet[p] - Least(node.bet[0], node.bet[1])) + share

\* The payoffs of a terminal node are what the players win and lose over the
\* whole walk, street by street: wealth at the end less wealth at the root,
\* where the root's pot counts half for each.  A pot is split at showdowns only;
\* after a fold nobody is paid the chop.
PayoffsSettle ==
  node.status # "live" =>
    \A p \in Player :
      LET before == 200 * (root.stacks[p] + root.bet[p]) + 100 * root.pot
      IN  /\ Win(node)  = Wealth(p, 200 * ContestedPot(node) - 2 * Rake(node)) - before
          /\ Lose(node) = Wealth(p, 0) - before
          /\ node.status = "showdown" =>
               Chop(node) = Wealth(p, 100 * ContestedPot(node) - Rake(node)) - before

\* Every walk down the tree ends: raises run out of chips and streets of cards,
\* so PokerTree's expansion loop terminates.
BettingEnds == <>(node.status # "live")
==============================================================================

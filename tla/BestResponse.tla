---------------------------- MODULE BestResponse ----------------------------
(***************************************************************************)
(* The exploitability of an average strategy: FinalizeAverageStrategy      *)
(* (src/csrc/src/algorithm/poker_cfr_solver.cc) and BestResponseCalculator *)
(* (best_response_calculator.cc) on any tree.  Values of hands go from the *)
(* terminal nodes to the root, node by node in reverse order, against an   *)
(* opponent whose strategy is in the reaches.                              *)
(*                                                                         *)
(* Numbers are whole: a probability is a multiple of 1 / unit, and what it *)
(* multiplies is counted in a unit so much smaller.  The chance of a card, *)
(* the same for all children of a node, and the mass that range values are *)
(* divided by, the same for all strategies, are parts of the units.  A     *)
(* strategy is a function on moves, which are named by their child.        *)
(***************************************************************************)
EXTENDS TreeShape, FiniteSets, FiniteSetsExt

CONSTANT Games   \* trees with their transitions, beliefs, payoffs and average strategies

Total(f) == MapThenSumSet(LAMBDA x : f[x], DOMAIN f)

HandsOf(tree, n) == 0 .. tree.hands[n] - 1
Matrix(tree, m, n) == [HandsOf(tree, m) -> [HandsOf(tree, n) -> Int]]

\* The moves of a player.
MovesIn(tree, p) == {c \in NodeIds(tree) \ {0} : tree.actor[tree.parent[c]] = p}

\* Every hand's probabilities add up to one at each of the player's nodes.
IsStrategy(g, p, s) ==
  /\ DOMAIN s = MovesIn(g.tree, p)
  /\ \A c \in DOMAIN s : s[c] \in [HandsOf(g.tree, c) -> Nat]
  /\ \A n \in NodeIds(g.tree) : g.tree.actor[n] = p => \A h \in HandsOf(g.tree, n) :
       Total([c \in Children(g.tree, n) |-> s[c][h]]) = g.unit

\* The storage takes no player's node without actions.
IsGame(g) ==
  /\ IsTree(g.tree)
  /\ \A n \in NodeIds(g.tree) : IsPlayerNode(g.tree, n) => g.tree.count[n] > 0
  /\ g.unit \in Nat \ {0}
  /\ \A p \in Player :
       /\ g.belief[p] \in [HandsOf(g.tree, 0) -> Nat]
       /\ \A n \in NodeIds(g.tree) :
            g.tree.actor[n] = TerminalPlayer => g.pays[p][n] \in Matrix(g.tree, n, n)
       /\ \A s \in g.strategies : IsStrategy(g, p, s[p])
  /\ \A c \in MovesIn(g.tree, ChancePlayer) :
       /\ g.weight[c] \in Matrix(g.tree, g.tree.parent[c], c)
       /\ \A h \in HandsOf(g.tree, g.tree.parent[c]), k \in HandsOf(g.tree, c) : g.weight[c][h][k] >= 0

ASSUME GamesAssumption == \A g \in Games : IsGame(g)

VARIABLES
  game,
  average,                    \* the players' average strategies
  stage, hero,                \* what is computed, and for whom
  left,                       \* the running pass has still to handle the nodes below this one
  averageReach, averageCfv,   \* the storage's tables, by player
  workspace,                  \* the hero's values
  policy,                     \* action_by_node_hand
  currentEv, bestResponseEv

tableVars == <<averageReach, averageCfv>>
resultVars == <<policy, currentEv, bestResponseEv>>
responseVars == <<game, average, stage, hero, left, tableVars, workspace, resultVars>>

NoAction == -1

Nodes == NodeIds(game.tree)
Actor(n) == game.tree.actor[n]
ParentOf(n) == game.tree.parent[n]
ChildrenOf(n) == Children(game.tree, n)
HandsAt(n) == HandsOf(game.tree, n)
TerminalNodes == {n \in Nodes : Actor(n) = TerminalPlayer}
Zeros == [n \in Nodes |-> [h \in HandsAt(n) |-> 0]]

InitResponse ==
  /\ game \in Games /\ average \in game.strategies
  /\ stage = "reach" /\ hero = 0 /\ left = 0
  /\ averageReach = [p \in Player |-> Zeros] /\ averageCfv = [p \in Player |-> Zeros]
  /\ workspace = Zeros
  /\ policy = [n \in Nodes |-> [h \in HandsAt(n) |-> NoAction]]
  /\ currentEv = [p \in Player |-> 0] /\ bestResponseEv = [p \in Player |-> 0]

(***************************************************************************)
(* FinalizeAverageStrategy                                                 *)
(***************************************************************************)

\* The reach of a hand: its weight in the belief, times the transitions to it,
\* times the player's own actions.
ReachOf(p, strategy) ==
  LET reach[n \in Nodes] ==
        IF n = 0 THEN game.belief[p]
        ELSE LET before == reach[ParentOf(n)]
             IN  [k \in HandsAt(n) |->
                    IF Actor(ParentOf(n)) = ChancePlayer
                    THEN Total([h \in HandsAt(ParentOf(n)) |-> before[h] * game.weight[n][h][k]])
                    ELSE IF Actor(ParentOf(n)) = p THEN before[k] * strategy[n][k] ELSE before[k]]
  IN  [n \in Nodes |-> reach[n]]

FinalizeReaches ==
  /\ stage = "reach" /\ stage' = "terminal"
  /\ averageReach' = [p \in Player |-> ReachOf(p, average[p])]
  /\ UNCHANGED <<game, average, hero, left, averageCfv, workspace, resultVars>>

\* Fault: a player's values come from its own reach.
TerminalCfvOfOwn(p, n) ==
  [h \in HandsAt(n) |->
     Total([o \in HandsAt(n) |-> averageReach[p][n][o] * game.pays[p][n][h][o]])]

\* What the opponent's hands pay.
TerminalCfv(p, n) ==
  [h \in HandsAt(n) |->
     Total([o \in HandsAt(n) |-> averageReach[1 - p][n][o] * game.pays[p][n][h][o]])]

FinalizeTerminals ==
  /\ stage = "terminal" /\ stage' = "average"
  /\ averageCfv' = [p \in Player |-> [n \in Nodes |->
       IF n \in TerminalNodes THEN TerminalCfv(p, n) ELSE averageCfv[p][n]]]
  /\ left' = game.tree.size
  /\ UNCHANGED <<game, average, hero, averageReach, workspace, resultVars>>

Node == left - 1
Handles(s) == stage = s /\ left > 0 /\ left' = left - 1 /\ UNCHANGED <<game, average, stage, hero>>

OverCards(values, n) ==
  [h \in HandsAt(n) |->
     Total([c \in ChildrenOf(n) |->
              Total([k \in HandsAt(c) |-> values[c][k] * game.weight[c][h][k]])])]
OverActions(values, n) ==
  [h \in HandsAt(n) |-> Total([c \in ChildrenOf(n) |-> values[c][h]])]
ByStrategy(values, n) ==
  [h \in HandsAt(n) |-> Total([c \in ChildrenOf(n) |-> average[Actor(n)][c][h] * values[c][h]])]

SetAverageCfv(values) ==
  /\ averageCfv' = [p \in Player |-> [averageCfv[p] EXCEPT ![Node] = values[p]]]
  /\ UNCHANGED <<averageReach, workspace, resultVars>>

\* BackwardChanceNode for both players; a terminal node has its values.
FinalizeChanceNode ==
  /\ Handles("average") /\ Actor(Node) = ChancePlayer
  /\ SetAverageCfv([p \in Player |-> OverCards(averageCfv[p], Node)])

FinalizeTerminalNode ==
  /\ Handles("average") /\ Node \in TerminalNodes
  /\ UNCHANGED <<tableVars, workspace, resultVars>>

\* Fault: the strategy weighs the values of the player who does not act.
FinalizeOtherPlayerNode ==
  /\ Handles("average") /\ Actor(Node) \in Player
  /\ SetAverageCfv([p \in Player |->
       IF Actor(Node) = p THEN OverActions(averageCfv[p], Node)
                          ELSE ByStrategy(averageCfv[p], Node)])

\* BackwardAveragePlayerNode.
FinalizePlayerNode ==
  /\ Handles("average") /\ Actor(Node) \in Player
  /\ SetAverageCfv([p \in Player |->
       IF Actor(Node) = p THEN ByStrategy(averageCfv[p], Node)
                          ELSE OverActions(averageCfv[p], Node)])

\* NodeEv at the root, and ComputeRootEv.
RangeEv(p, values) == Total([h \in HandsAt(0) |-> averageReach[p][0][h] * values[0][h]])

CurrentEv ==
  /\ stage = "average" /\ left = 0
  /\ currentEv' = [p \in Player |-> RangeEv(p, averageCfv[p])]
  /\ stage' = "response" /\ hero' = 0 /\ left' = game.tree.size /\ workspace' = Zeros
  /\ UNCHANGED <<game, average, tableVars, policy, bestResponseEv>>

(***************************************************************************)
(* ComputeBestResponseCfv                                                  *)
(***************************************************************************)

SetCfv(values) == workspace' = [workspace EXCEPT ![Node] = values]
UnchangedTables == UNCHANGED <<tableVars, currentEv, bestResponseEv>>

TerminalNode ==
  /\ Handles("response") /\ Node \in TerminalNodes
  /\ SetCfv(averageCfv[hero][Node])
  /\ UnchangedTables /\ UNCHANGED policy

ChanceNode ==
  /\ Handles("response") /\ Actor(Node) = ChancePlayer
  /\ SetCfv(OverCards(workspace, Node))
  /\ UnchangedTables /\ UNCHANGED policy

\* The first action with the most value for a hand.
ChildOf(n, a) == game.tree.offset[n] + a
IsBest(n, h, a) ==
  /\ \A b \in 0 .. game.tree.count[n] - 1 :
       workspace[ChildOf(n, b)][h] <= workspace[ChildOf(n, a)][h]
  /\ \A b \in 0 .. a - 1 : workspace[ChildOf(n, b)][h] < workspace[ChildOf(n, a)][h]
BestAction(n, h) == CHOOSE a \in 0 .. game.tree.count[n] - 1 : IsBest(n, h, a)

\* A sure action has the whole probability.
HeroNode ==
  /\ Handles("response") /\ Actor(Node) = hero
  /\ policy' = [policy EXCEPT ![Node] = [h \in HandsAt(Node) |-> BestAction(Node, h)]]
  /\ SetCfv([h \in HandsAt(Node) |->
               game.unit * workspace[ChildOf(Node, BestAction(Node, h))][h]])
  /\ UnchangedTables

\* Fault: the opponent's strategy, which is in the reaches, counts again.
OpponentNodeWeighs ==
  /\ Handles("response") /\ Actor(Node) = 1 - hero
  /\ SetCfv([h \in HandsAt(Node) |-> ByStrategy(workspace, Node)[h] \div game.unit])
  /\ UnchangedTables /\ UNCHANGED policy

OpponentNode ==
  /\ Handles("response") /\ Actor(Node) = 1 - hero
  /\ SetCfv(OverActions(workspace, Node))
  /\ UnchangedTables /\ UNCHANGED policy

\* The other player's turn, in a workspace of its own.
RootEv ==
  /\ stage = "response" /\ left = 0
  /\ bestResponseEv' = [bestResponseEv EXCEPT ![hero] = RangeEv(hero, workspace)]
  /\ IF hero = 0 THEN hero' = 1 /\ left' = game.tree.size /\ workspace' = Zeros /\ UNCHANGED stage
                 ELSE stage' = "done" /\ UNCHANGED <<hero, left, workspace>>
  /\ UNCHANGED <<game, average, tableVars, policy, currentEv>>

NextResponse ==
  \/ FinalizeReaches \/ FinalizeTerminals
  \/ FinalizeTerminalNode \/ FinalizeChanceNode \/ FinalizePlayerNode \/ CurrentEv
  \/ TerminalNode \/ ChanceNode \/ HeroNode \/ OpponentNode \/ RootEv

ResponseSpec == InitResponse /\ [][NextResponse]_responseVars

(***************************************************************************)
(* Properties                                                              *)
(***************************************************************************)

\* What a player with these reaches earns: over the ends of the game and both
\* hands, what the hand is paid as often as both players get there.
Earned(p, reach) ==
  Total([n \in TerminalNodes |-> Total([h \in HandsAt(n) |-> reach[n][h] *
           Total([o \in HandsAt(n) |-> averageReach[1 - p][n][o] * game.pays[p][n][h][o]])])])

\* The ways to play: an action for every hand at each of the player's nodes.
MovesOf(p) == MovesIn(game.tree, p)
Spots(p) == UNION {{<<n, h>> : h \in HandsAt(n)} : n \in {m \in Nodes : Actor(m) = p}}
MostActions == Max({game.tree.count[n] : n \in Nodes})
Plays(p) ==
  {f \in [Spots(p) -> 0 .. MostActions - 1] : \A s \in Spots(p) : f[s] < game.tree.count[s[1]]}
Pure(p, f) ==
  [c \in MovesOf(p) |-> [h \in HandsAt(c) |->
     IF c = ChildOf(ParentOf(c), f[<<ParentOf(c), h>>]) THEN game.unit ELSE 0]]
Response(p) == [s \in Spots(p) |-> policy[s[1]][s[2]]]

\* Hand by hand and node by node, the calculator finds a way to play that
\* earns its value, and no way to play earns more.
ResponseIsBest ==
  stage = "done" =>
    \A p \in Player :
      /\ Response(p) \in Plays(p)
      /\ bestResponseEv[p] = Earned(p, ReachOf(p, Pure(p, Response(p))))
      /\ \A f \in Plays(p) : Earned(p, ReachOf(p, Pure(p, f))) <= bestResponseEv[p]

\* The value of the average strategy is what it earns against itself, so its
\* exploitability is not negative, for either player.
CurrentIsEarned ==
  stage = "done" =>
    \A p \in Player :
      /\ currentEv[p] = Earned(p, averageReach[p])
      /\ currentEv[p] <= bestResponseEv[p]
=============================================================================

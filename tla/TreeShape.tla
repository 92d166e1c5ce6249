------------------------------ MODULE TreeShape ------------------------------
(***************************************************************************)
(* The shape of a PokerTree (src/csrc/include/game/poker/poker_tree.h) as  *)
(* its users rely on it: its size and functions on the node ids 0, 1, ...  *)
(* GameTree shows that building a tree gives this shape; CfrStorage,       *)
(* LevelSweep and BestResponse assume it of theirs.                        *)
(***************************************************************************)
EXTENDS Integers

Player == {0, 1}
ChancePlayer == -1
TerminalPlayer == -2
NoNode == -1

NodeIds(tree) == 0 .. tree.size - 1

\* ChildNodeIdAt for every child index.
Children(tree, n) == tree.offset[n] .. tree.offset[n] + tree.count[n] - 1

\* Every node but the root has its parent before it, one level up.
ParentsFirst(tree) ==
  \A n \in NodeIds(tree) :
    IF n = 0 THEN tree.parent[n] = NoNode /\ tree.depth[n] = 0
             ELSE /\ tree.parent[n] \in 0 .. n - 1
                  /\ tree.depth[n] = tree.depth[tree.parent[n]] + 1

\* A node's children are exactly the ids of its range.
ChildrenContiguous(tree) ==
  \A n \in NodeIds(tree) :
    /\ tree.count[n] >= 0
    /\ Children(tree, n) = {m \in NodeIds(tree) : tree.parent[m] = n}

\* Levels are intervals of ids.
LevelsInOrder(tree) ==
  \A n \in NodeIds(tree) : n + 1 \in NodeIds(tree) =>
    tree.depth[n + 1] \in {tree.depth[n], tree.depth[n] + 1}

WellFormed(tree) ==
  /\ tree.size >= 1
  /\ ParentsFirst(tree) /\ ChildrenContiguous(tree) /\ LevelsInOrder(tree)

(***************************************************************************)
(* The solver's trees: who acts at each node, and how many hands it has.   *)
(***************************************************************************)

IsPlayerNode(tree, n) == tree.actor[n] \in Player

\* A terminal node is never expanded, and an action leaves the board as it is,
\* which gives the number of hands.
ExpandedByBoard(tree) ==
  \A n \in NodeIds(tree) :
    /\ tree.actor[n] = TerminalPlayer => tree.count[n] = 0
    /\ n # 0 /\ IsPlayerNode(tree, tree.parent[n]) => tree.hands[n] = tree.hands[tree.parent[n]]

IsTree(tree) ==
  /\ tree.size \in Nat \ {0}
  /\ tree.parent \in [NodeIds(tree) -> Int] /\ tree.depth \in [NodeIds(tree) -> Nat]
  /\ tree.offset \in [NodeIds(tree) -> Int] /\ tree.count \in [NodeIds(tree) -> Nat]
  /\ tree.actor \in [NodeIds(tree) -> Player \cup {ChancePlayer, TerminalPlayer}]
  /\ tree.hands \in [NodeIds(tree) -> Nat]
  /\ WellFormed(tree) /\ ExpandedByBoard(tree)
==============================================================================

----------------------------- MODULE CfrStorage ------------------------------
(***************************************************************************)
(* CfrStorage (src/csrc/src/algorithm/cfr_storage.cc): the layout of the   *)
(* solver's flat tables over the nodes of a tree, one action per node.     *)
(* The strategy, regret and strategy-sum tables have one layout, the       *)
(* action table here.  Sizes are exact (size_t), offsets are int.          *)
(***************************************************************************)
EXTENDS TreeShape

CONSTANTS
  Trees,        \* trees, each with the actor and the number of hands of every node
  IntRange      \* the number of values of an int

ASSUME TreesAssumption == \A t \in Trees : IsTree(t)
ASSUME IntAssumption == IntRange \in Nat \ {0}

VARIABLES tree, layout, sizes, next, status

storageVars == <<tree, layout, sizes, next, status>>

NoOffset == -1

\* static_cast<int> of a size.
ToInt(size) ==
  LET low == size % IntRange
  IN  IF 2 * low < IntRange THEN low ELSE low - IntRange

InitStorage ==
  /\ tree \in Trees
  /\ layout = [n \in {} |-> <<>>]
  /\ sizes = [cfv |-> 0, reach |-> 0, action |-> 0]
  /\ next = 0 /\ status = "laying"

\* Fault: a child shares whatever its parent's block has room for.
SharesAnyReach(n, p) == n # 0 /\ tree.hands[tree.parent[n]] >= tree.hands[n]

\* A child of a player's node shares the reach block of who does not act there.
SharesReach(n, p) ==
  /\ n # 0
  /\ IsPlayerNode(tree, tree.parent[n]) /\ p # tree.actor[tree.parent[n]]
  /\ tree.hands[tree.parent[n]] = tree.hands[n]

\* The blocks a node adds to the reach table come player 0 first.
NewReach(n) ==
  LET hands == tree.hands[n]
      second == IF SharesReach(n, 0) THEN sizes.reach ELSE sizes.reach + hands
      Offset(p, size) == IF SharesReach(n, p) THEN layout[tree.parent[n]].reach[p]
                                              ELSE ToInt(size)
  IN  [offsets |-> [p \in Player |-> Offset(p, IF p = 0 THEN sizes.reach ELSE second)],
       size |-> IF SharesReach(n, 1) THEN second ELSE second + hands]

Refuse ==
  /\ status = "laying" /\ next < tree.size
  /\ tree.hands[next] = 0 \/ (IsPlayerNode(tree, next) /\ tree.count[next] = 0)
  /\ status' = "refused"
  /\ UNCHANGED <<tree, layout, sizes, next>>

LayOutNode ==
  /\ status = "laying" /\ next < tree.size
  /\ tree.hands[next] > 0
  /\ IsPlayerNode(tree, next) => tree.count[next] > 0
  /\ LET hands == tree.hands[next]
         reach == NewReach(next)
         actions == IF IsPlayerNode(tree, next) THEN tree.count[next] ELSE 0
     IN  /\ layout' = [n \in 0 .. next |->
                         IF n < next THEN layout[n]
                         ELSE [cfv |-> ToInt(sizes.cfv), reach |-> reach.offsets,
                               action |-> IF actions = 0 THEN NoOffset ELSE ToInt(sizes.action)]]
         /\ sizes' = [cfv |-> sizes.cfv + 2 * hands, reach |-> reach.size,
                      action |-> sizes.action + actions * hands]
  /\ next' = next + 1
  /\ status' = IF next' = tree.size THEN "ready" ELSE "laying"
  /\ UNCHANGED tree

(***************************************************************************)
(* Access.  The accessors throw on a negative offset.                      *)
(***************************************************************************)

Laid == 0 .. next - 1
Acting == {n \in Laid : IsPlayerNode(tree, n)}
ReachBlockOffset(n, p) == layout[n].reach[p]
PlayerBlockOffset(n, p) == layout[n].cfv + p * tree.hands[n]

Block(offset, length) == offset .. offset + length - 1
ReachBlock(n, p) == Block(ReachBlockOffset(n, p), tree.hands[n])
CfvBlock(n, p) == Block(PlayerBlockOffset(n, p), tree.hands[n])
ActionBlock(n) == Block(layout[n].action, tree.count[n] * tree.hands[n])

\* The blocks that can be had: the accessors throw on a negative offset, and the
\* start of player 1's values is an int again, undefined where none holds it.
CfvFound(n, p) == layout[n].cfv >= 0 /\ 2 * PlayerBlockOffset(n, p) < IntRange
ReachFound(n, p) == ReachBlockOffset(n, p) >= 0
ActionFound(n) == layout[n].action >= 0

(***************************************************************************)
(* Properties                                                              *)
(***************************************************************************)

Disjoint(blockA, blockB) == blockA \cap blockB = {}

\* Two reach blocks are apart, or are one block of one player, which every node
\* on the way up from both keeps until it comes to the node they share it with.
ReachBlocksApart(m, n) ==
  \A p, q \in Player : (m # n \/ p # q) =>
    \/ Disjoint(ReachBlock(m, p), ReachBlock(n, q))
    \/ /\ p = q /\ ReachBlock(m, p) = ReachBlock(n, p)
       /\ \E k \in {m, n} \ {0} :
            /\ tree.actor[tree.parent[k]] = 1 - p
            /\ ReachBlock(tree.parent[k], p) = ReachBlock(k, p)

\* While an int counts a table, every block of it is found.
BlocksFound ==
  /\ 2 * sizes.cfv <= IntRange => \A n \in Laid, p \in Player : CfvFound(n, p)
  /\ 2 * sizes.reach <= IntRange => \A n \in Laid, p \in Player : ReachFound(n, p)
  /\ 2 * sizes.action <= IntRange => \A n \in Acting : ActionFound(n)

\* In a table that outgrows an int, up to twice that, a block that is found is
\* still the right one: it lies in the table and holds nobody else's values.
FoundBlocksApart ==
  /\ sizes.cfv <= IntRange =>
       \A m, n \in Laid, p, q \in Player : CfvFound(m, p) /\ CfvFound(n, q) =>
         /\ CfvBlock(m, p) \subseteq 0 .. sizes.cfv - 1
         /\ (m # n \/ p # q) => Disjoint(CfvBlock(m, p), CfvBlock(n, q))
  /\ sizes.action <= IntRange =>
       \A m, n \in Acting : ActionFound(m) /\ ActionFound(n) =>
         /\ ActionBlock(m) \subseteq 0 .. sizes.action - 1
         /\ m # n => Disjoint(ActionBlock(m), ActionBlock(n))
  /\ sizes.reach <= IntRange =>
       \A m, n \in Laid :
         (\A p \in Player : ReachFound(m, p) /\ ReachFound(n, p)) =>
           /\ \A p \in Player : ReachBlock(m, p) \subseteq 0 .. sizes.reach - 1
           /\ ReachBlocksApart(m, n)

\* No part of a table stands for two nodes' or players' numbers, except the reach
\* blocks shared on purpose, neither while its offsets fit an int nor when they
\* have overflowed once: until a table is twice as large as an int counts, a
\* wrong block is not had without an exception.
BlocksDisjoint == BlocksFound /\ FoundBlocksApart
==============================================================================

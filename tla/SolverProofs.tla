---------------------------- MODULE SolverProofs -----------------------------
(***************************************************************************)
(* The solver, for every tree of the right shape.                          *)
(*                                                                         *)
(* The passes over its tables (LevelSweep), for every size of the tables   *)
(* that an int can address, every sequence of passes and number of         *)
(* threads: the blocks of the tables are disjoint except where they are    *)
(* shared on purpose, the tasks of a level do not disturb each other,      *)
(* every node gets the reaches of its own way from the root, and a         *)
(* finished pass has summed every leaf once.                               *)
(*                                                                         *)
(* The best response (BestResponse), for every game and average strategy:  *)
(* no strategy, pure or mixed, earns more than its value, the recorded     *)
(* actions earn it, and the value of the average strategy is what that     *)
(* strategy earns.                                                         *)
(***************************************************************************)
EXTENDS LevelSweep, BestResponse, SumProofs


(***************************************************************************)
(* The layout                                                              *)
(***************************************************************************)

Owns(n, p) == ~SharesReach(n, p)
Before(m, q, n, p) == m < n \/ (m = n /\ q < p)
Extent(n) == tree.count[n] * tree.hands[n]

StorageTypeOK ==
  /\ tree \in Trees
  /\ next \in Nat /\ next <= tree.size
  /\ status \in {"laying", "ready", "refused"}
  /\ status = "ready" => next = tree.size
  /\ sizes \in [cfv : Nat, reach : Nat, action : Nat]
  /\ layout \in [Laid -> [cfv : Int, reach : [Player -> Int], action : Int]]

\* No node without hands or moves was laid out.
HandsOK ==
  \A n \in Laid : tree.hands[n] > 0 /\ (IsPlayerNode(tree, n) => tree.count[n] > 0)

\* Blocks follow one another in a table up to twice the size that fits an int,
\* where the offset did not turn negative, and in one that fits none did.
CfvOK ==
  sizes.cfv <= IntRange =>
    \A n \in Laid : layout[n].cfv >= 0 =>
      /\ layout[n].cfv + 2 * tree.hands[n] <= sizes.cfv
      /\ \A m \in Laid : layout[m].cfv >= 0 /\ m < n =>
           layout[m].cfv + 2 * tree.hands[m] <= layout[n].cfv

CfvNotNegative == 2 * sizes.cfv <= IntRange => \A n \in Laid : layout[n].cfv >= 0

ActionOK ==
  sizes.action <= IntRange =>
    \A n \in Acting : layout[n].action >= 0 =>
      /\ layout[n].action + Extent(n) <= sizes.action
      /\ \A m \in Acting : layout[m].action >= 0 /\ m < n =>
           layout[m].action + Extent(m) <= layout[n].action

ActionNotNegative == 2 * sizes.action <= IntRange => \A n \in Acting : layout[n].action >= 0

\* So do the reach blocks of those that own theirs.
ReachOK ==
  sizes.reach <= IntRange =>
    \A n \in Laid, p \in Player :
      Owns(n, p) /\ ReachBlockOffset(n, p) >= 0 =>
        /\ ReachBlockOffset(n, p) + tree.hands[n] <= sizes.reach
        /\ \A m \in Laid, q \in Player :
             Owns(m, q) /\ ReachBlockOffset(m, q) >= 0 /\ Before(m, q, n, p) =>
               ReachBlockOffset(m, q) + tree.hands[m] <= ReachBlockOffset(n, p)

ReachNotNegative ==
  2 * sizes.reach <= IntRange => \A n \in Laid, p \in Player : ReachBlockOffset(n, p) >= 0

\* Whose block a node uses: its own, or one of a node above it.
OwnerOK ==
  \A n \in Laid, p \in Player :
    \E k \in Laid :
      /\ Owns(k, p) /\ tree.depth[k] <= tree.depth[n] /\ tree.hands[k] = tree.hands[n]
      /\ ReachBlockOffset(k, p) = ReachBlockOffset(n, p)

SharedOK ==
  \A n \in Laid, p \in Player :
    SharesReach(n, p) => ReachBlockOffset(n, p) = ReachBlockOffset(tree.parent[n], p)

StorageOK ==
  /\ StorageTypeOK /\ HandsOK /\ CfvOK /\ CfvNotNegative /\ ActionOK /\ ActionNotNegative
  /\ ReachOK /\ ReachNotNegative /\ OwnerOK /\ SharedOK

\* What the assumption on trees says of each, node by node.
LEMMA TreeFacts ==
  ASSUME tree \in Trees, NEW n \in NodeIds(tree)
  PROVE  /\ tree.size \in Nat \ {0}
         /\ tree.hands[n] \in Nat /\ tree.count[n] \in Nat /\ tree.depth[n] \in Nat
         /\ tree.offset[n] \in Int
         /\ tree.actor[n] \in Player \cup {ChancePlayer, TerminalPlayer}
         /\ n /= 0 => /\ tree.parent[n] \in 0 .. n - 1
                      /\ tree.depth[n] = tree.depth[tree.parent[n]] + 1
         /\ Children(tree, n) = {m \in NodeIds(tree) : tree.parent[m] = n}
  BY TreesAssumption DEF IsTree, WellFormed, ParentsFirst, ChildrenContiguous, NodeIds, Player

\* A size that fits an int is its own offset; a larger one, up to twice that,
\* gives a negative offset.
LEMMA ToIntFacts ==
  ASSUME NEW s \in Nat
  PROVE  /\ ToInt(s) \in Int
         /\ 2 * s < IntRange => ToInt(s) = s
         /\ s < IntRange /\ ToInt(s) >= 0 => ToInt(s) = s
<1>1. IntRange \in Nat /\ IntRange > 0
  BY IntAssumption
<1>2. s % IntRange \in Nat
  BY <1>1
<1>3. s < IntRange => s % IntRange = s
  BY <1>1
<1>4. QED
  BY <1>1, <1>2, <1>3 DEF ToInt

LEMMA InitStorageOK == InitStorage => StorageOK
<1> SUFFICES ASSUME InitStorage PROVE StorageOK
  OBVIOUS
<1>1. Laid = {} /\ tree \in Trees
  BY DEF InitStorage, Laid
<1>2. tree.size \in Nat
  BY <1>1, TreesAssumption DEF IsTree
<1>3. QED
  BY <1>1, <1>2
  DEF InitStorage, StorageOK, StorageTypeOK, HandsOK, CfvOK, CfvNotNegative, ActionOK,
      ActionNotNegative, ReachOK,
      ReachNotNegative, OwnerOK, SharedOK, Acting

\* Where the new node's own block of a player begins, if it has one.
ReachStart(n, p) ==
  IF p = 0 \/ SharesReach(n, 0) THEN sizes.reach ELSE sizes.reach + tree.hands[n]

\* What laying out a node does.
LEMMA LayOutFacts ==
  ASSUME StorageOK, LayOutNode
  PROVE  /\ next \in NodeIds(tree) /\ tree' = tree /\ next' = next + 1
         /\ Laid' = Laid \cup {next} /\ next \notin Laid /\ Laid \subseteq NodeIds(tree)
         /\ tree.hands[next] \in Nat \ {0}
         /\ IsPlayerNode(tree, next) => tree.count[next] > 0
         /\ \A n \in Laid : layout'[n] = layout[n]
         /\ layout'[next].cfv = ToInt(sizes.cfv)
         /\ IsPlayerNode(tree, next) => layout'[next].action = ToInt(sizes.action)
         /\ \A p \in Player :
              layout'[next].reach[p] = IF SharesReach(next, p)
                                       THEN ReachBlockOffset(tree.parent[next], p)
                                       ELSE ToInt(ReachStart(next, p))
         /\ sizes'.cfv = sizes.cfv + 2 * tree.hands[next]
         /\ sizes'.action = sizes.action
                              + (IF IsPlayerNode(tree, next) THEN Extent(next) ELSE 0)
         /\ sizes'.reach = sizes.reach + (IF SharesReach(next, 0) THEN 0 ELSE tree.hands[next])
                                       + (IF SharesReach(next, 1) THEN 0 ELSE tree.hands[next])
         /\ StorageTypeOK'
<1> USE DEF StorageOK, StorageTypeOK
<1>1. next \in NodeIds(tree) /\ tree.size \in Nat /\ tree \in Trees
  BY TreesAssumption DEF LayOutNode, NodeIds, IsTree
<1>2. tree.hands[next] \in Nat /\ tree.count[next] \in Nat
  BY <1>1, TreeFacts
<1>3. /\ tree' = tree /\ next' = next + 1 /\ tree.hands[next] > 0
      /\ IsPlayerNode(tree, next) => tree.count[next] > 0
      /\ status' = IF next' = tree.size THEN "ready" ELSE "laying"
  BY DEF LayOutNode
<1>4. /\ Laid' = Laid \cup {next} /\ next \notin Laid /\ Laid \subseteq NodeIds(tree)
      /\ Laid' = 0 .. next
  BY <1>1, <1>3 DEF Laid, NodeIds
<1> DEFINE added == NewReach(next)
           actions == IF IsPlayerNode(tree, next) THEN tree.count[next] ELSE 0
           new == [cfv |-> ToInt(sizes.cfv), reach |-> added.offsets,
                   action |-> IF actions = 0 THEN NoOffset ELSE ToInt(sizes.action)]
<1>5. /\ layout' = [n \in 0 .. next |-> IF n < next THEN layout[n] ELSE new]
      /\ sizes' = [cfv |-> sizes.cfv + 2 * tree.hands[next], reach |-> added.size,
                   action |-> sizes.action + actions * tree.hands[next]]
  BY DEF LayOutNode
<1>6. actions \in Nat /\ (IsPlayerNode(tree, next) => actions /= 0 /\ actions = tree.count[next])
  BY <1>2, <1>3
<1>7. \A n \in Laid : layout'[n] = layout[n] /\ n < next
  BY <1>5 DEF Laid
<1>8. layout'[next] = new
  BY <1>5
<1>9. \A p \in Player :
        added.offsets[p] = IF SharesReach(next, p) THEN ReachBlockOffset(tree.parent[next], p)
                           ELSE ToInt(ReachStart(next, p))
  BY DEF NewReach, ReachStart, ReachBlockOffset, Player
<1>10. added.size = sizes.reach + (IF SharesReach(next, 0) THEN 0 ELSE tree.hands[next])
                                + (IF SharesReach(next, 1) THEN 0 ELSE tree.hands[next])
  BY <1>2 DEF NewReach
<1>11. actions * tree.hands[next] = IF IsPlayerNode(tree, next) THEN Extent(next) ELSE 0
  BY <1>2, <1>6 DEF Extent
<1>12. Extent(next) \in Nat
  BY <1>2 DEF Extent
<1>13. sizes' \in [cfv : Nat, reach : Nat, action : Nat]
  <2>1. sizes.cfv \in Nat /\ sizes.reach \in Nat /\ sizes.action \in Nat
    OBVIOUS
  <2> DEFINE c == sizes.cfv + 2 * tree.hands[next]
             r == added.size
             a == sizes.action + actions * tree.hands[next]
  <2>2. c \in Nat
    BY <1>2, <2>1
  <2>3. r \in Nat
    BY <1>2, <1>10, <2>1
  <2>4. a \in Nat
    BY <1>11, <1>12, <2>1
  <2>5. sizes' = [cfv |-> c, reach |-> r, action |-> a]
    BY <1>5
  <2> HIDE DEF c, r, a
  <2>6. QED
    BY <2>2, <2>3, <2>4, <2>5
<1>14. added.offsets \in [Player -> Int]
  <2>1. \A p \in Player : added.offsets[p] \in Int
    <3> TAKE p \in Player
    <3>1. CASE SharesReach(next, p)
      <4>1. next /= 0
        BY <3>1 DEF SharesReach
      <4>2. tree.parent[next] \in Laid
        BY <1>1, <4>1, TreeFacts DEF Laid
      <4>3. ReachBlockOffset(tree.parent[next], p) \in Int
        BY <4>2 DEF ReachBlockOffset
      <4>4. QED
        BY <1>9, <3>1, <4>3
    <3>2. CASE ~SharesReach(next, p)
      <4>1. ReachStart(next, p) \in Nat
        BY <1>2 DEF ReachStart
      <4>2. QED
        BY <1>9, <3>2, <4>1, ToIntFacts
    <3>3. QED
      BY <3>1, <3>2
  <2>2. added.offsets = [p \in Player |-> added.offsets[p]]
    BY DEF NewReach
  <2>3. QED
    BY <2>1, <2>2
<1>15. new \in [cfv : Int, reach : [Player -> Int], action : Int]
  <2>1. ToInt(sizes.cfv) \in Int /\ ToInt(sizes.action) \in Int /\ NoOffset \in Int
    BY ToIntFacts DEF NoOffset
  <2>2. QED
    BY <1>14, <2>1
<1>16. layout' \in [Laid' -> [cfv : Int, reach : [Player -> Int], action : Int]]
  <2>1. \A n \in 0 .. next : n < next => n \in Laid
    BY DEF Laid
  <2>2. QED
    BY <1>4, <1>5, <1>15, <2>1
<1>17. StorageTypeOK'
  BY <1>1, <1>3, <1>13, <1>16 DEF NodeIds
<1>18. /\ layout'[next].cfv = ToInt(sizes.cfv)
       /\ layout'[next].reach = added.offsets
       /\ layout'[next].action = IF actions = 0 THEN NoOffset ELSE ToInt(sizes.action)
  BY <1>8
<1>19. /\ sizes'.cfv = sizes.cfv + 2 * tree.hands[next]
       /\ sizes'.reach = added.size
       /\ sizes'.action = sizes.action + actions * tree.hands[next]
  BY <1>5
<1> HIDE DEF actions, new, added
<1>20. \A p \in Player :
        layout'[next].reach[p] = IF SharesReach(next, p)
                                 THEN ReachBlockOffset(tree.parent[next], p)
                                 ELSE ToInt(ReachStart(next, p))
  BY <1>9, <1>18
<1>21. IsPlayerNode(tree, next) => layout'[next].action = ToInt(sizes.action)
  BY <1>6, <1>18
<1>22. /\ sizes'.action = sizes.action
                            + (IF IsPlayerNode(tree, next) THEN Extent(next) ELSE 0)
       /\ sizes'.reach = sizes.reach + (IF SharesReach(next, 0) THEN 0 ELSE tree.hands[next])
                                     + (IF SharesReach(next, 1) THEN 0 ELSE tree.hands[next])
  BY <1>10, <1>11, <1>19
<1>23. tree.hands[next] \in Nat \ {0} /\ (IsPlayerNode(tree, next) => tree.count[next] > 0)
  BY <1>2, <1>3
<1> HIDE DEF StorageOK, StorageTypeOK
<1>24. QED
  BY ONLY <1>1, <1>3, <1>4, <1>7, <1>17, <1>18, <1>19, <1>20, <1>21, <1>22, <1>23

\* No table loses what was laid out in it, and the new blocks follow.
LEMMA LayOutTables ==
  ASSUME StorageOK, LayOutNode
  PROVE  HandsOK' /\ CfvOK' /\ CfvNotNegative' /\ ActionOK' /\ ActionNotNegative'
<1> DEFINE hands == tree.hands[next]
<1>1. /\ sizes.cfv \in Nat /\ sizes.action \in Nat /\ sizes'.cfv \in Nat /\ sizes'.action \in Nat
      /\ next \in Nat /\ IntRange \in Nat
  BY LayOutFacts, IntAssumption DEF StorageOK, StorageTypeOK
<1>2. \A n \in Laid : layout[n].cfv \in Int /\ layout[n].action \in Int
  BY DEF StorageOK, StorageTypeOK
<1>3. \A n \in Laid' : tree.hands[n] \in Nat /\ tree.count[n] \in Nat /\ Extent(n) \in Nat
  <2>1. Laid' \subseteq NodeIds(tree) /\ tree \in Trees
    BY LayOutFacts DEF StorageOK, StorageTypeOK
  <2>2. \A n \in Laid' : tree.hands[n] \in Nat /\ tree.count[n] \in Nat
    BY <2>1, TreeFacts
  <2>3. QED
    BY <2>2 DEF Extent
<1>4. \A n \in Laid : n < next
  BY <1>1 DEF Laid
<1>5. HandsOK'
  BY LayOutFacts DEF HandsOK, StorageOK, IsPlayerNode
<1>6. ASSUME sizes'.cfv <= IntRange, NEW n \in Laid', layout'[n].cfv >= 0
      PROVE  /\ layout'[n].cfv + 2 * tree.hands[n] <= sizes'.cfv
             /\ \A m \in Laid' : layout'[m].cfv >= 0 /\ m < n =>
                  layout'[m].cfv + 2 * tree.hands[m] <= layout'[n].cfv
  <2>1. hands \in Nat \ {0} /\ sizes'.cfv = sizes.cfv + 2 * hands
    BY LayOutFacts
  <2>2. sizes.cfv < IntRange
    BY <1>1, <1>6, <2>1
  <2>3. \A m \in Laid : layout[m].cfv >= 0 =>
          /\ layout[m].cfv + 2 * tree.hands[m] <= sizes.cfv
          /\ \A k \in Laid : layout[k].cfv >= 0 /\ k < m =>
               layout[k].cfv + 2 * tree.hands[k] <= layout[m].cfv
    BY <1>1, <2>2 DEF StorageOK, CfvOK
  <2>4. layout'[next].cfv >= 0 => layout'[next].cfv = sizes.cfv
    BY <1>1, <2>2, LayOutFacts, ToIntFacts
  <2>5. CASE n = next
    <3>1. \A m \in Laid' : m < n => m \in Laid /\ layout'[m] = layout[m]
      BY <1>1, <2>5, LayOutFacts
    <3>2. layout'[n].cfv = sizes.cfv /\ tree.hands[n] = hands
      BY <1>6, <2>4, <2>5
    <3>3. layout'[n].cfv + 2 * tree.hands[n] <= sizes'.cfv
      BY <1>1, <2>1, <3>2
    <3>4. \A m \in Laid' : layout'[m].cfv >= 0 /\ m < n =>
            layout'[m].cfv + 2 * tree.hands[m] <= layout'[n].cfv
      BY <2>3, <3>1, <3>2
    <3>5. QED
      BY <3>3, <3>4
  <2>6. CASE n \in Laid
    <3>1. \A m \in Laid' : m < n => m \in Laid /\ layout'[m] = layout[m]
      BY <1>1, <1>4, <2>6, LayOutFacts DEF Laid
    <3>2. layout'[n] = layout[n] /\ tree.hands[n] \in Nat
      BY <1>3, <2>6, LayOutFacts
    <3>3. QED
      BY <1>1, <1>2, <1>6, <2>1, <2>3, <2>6, <3>1, <3>2
  <2>7. QED
    BY <2>5, <2>6, LayOutFacts
<1>7. CfvOK'
  BY <1>6, LayOutFacts DEF CfvOK
<1>8. CfvNotNegative'
  <2>1. ASSUME 2 * sizes'.cfv <= IntRange, NEW n \in Laid'
        PROVE  layout'[n].cfv >= 0
    <3>0. hands \in Nat \ {0} /\ sizes'.cfv = sizes.cfv + 2 * hands
      BY LayOutFacts
    <3>1. 2 * sizes.cfv < IntRange
      BY <1>1, <2>1, <3>0
    <3>2. \A m \in Laid : layout[m].cfv >= 0
      BY <1>1, <3>1 DEF StorageOK, CfvNotNegative
    <3>3. layout'[next].cfv = sizes.cfv
      BY <1>1, <3>1, LayOutFacts, ToIntFacts
    <3>4. QED
      BY <1>1, <3>2, <3>3, LayOutFacts
  <2>2. QED
    BY <2>1 DEF CfvNotNegative
<1>9. Acting' = IF IsPlayerNode(tree, next) THEN Acting \cup {next} ELSE Acting
  BY LayOutFacts DEF Acting, IsPlayerNode
<1>10. /\ \A m \in Acting : m \in Laid /\ m < next /\ layout'[m] = layout[m]
       /\ sizes'.action >= sizes.action
  BY <1>1, <1>3, <1>4, LayOutFacts DEF Acting
<1>11. ASSUME next \in Acting', sizes'.action <= IntRange
       PROVE  /\ Extent(next) > 0 /\ sizes'.action = sizes.action + Extent(next)
              /\ sizes.action < IntRange /\ (2 * sizes'.action <= IntRange => 2 * sizes.action < IntRange)
              /\ layout'[next].action = ToInt(sizes.action)
  <2>1. IsPlayerNode(tree, next)
    BY <1>9, <1>10, <1>11, LayOutFacts
  <2>2. Extent(next) > 0 /\ Extent(next) \in Nat
    BY <1>3, <2>1, LayOutFacts DEF Extent
  <2>3. sizes'.action = sizes.action + Extent(next)
    BY <2>1, LayOutFacts
  <2>4. QED
    BY <1>1, <1>11, <2>1, <2>2, <2>3, LayOutFacts
<1>12. ASSUME sizes'.action <= IntRange, NEW n \in Acting', layout'[n].action >= 0
       PROVE  /\ layout'[n].action + Extent(n) <= sizes'.action
              /\ \A m \in Acting' : layout'[m].action >= 0 /\ m < n =>
                   layout'[m].action + Extent(m) <= layout'[n].action
  <2>1. \A m \in Acting : layout[m].action >= 0 =>
          /\ layout[m].action + Extent(m) <= sizes.action
          /\ \A k \in Acting : layout[k].action >= 0 /\ k < m =>
               layout[k].action + Extent(k) <= layout[m].action
    BY <1>1, <1>10, <1>12 DEF StorageOK, ActionOK
  <2>2. CASE n = next
    <3>1. sizes'.action = sizes.action + Extent(next) /\ layout'[next].action = sizes.action
      BY <1>1, <1>11, <1>12, <2>2, ToIntFacts
    <3>2. \A m \in Acting' : m < n => m \in Acting
      BY <1>1, <1>9, <2>2
    <3>3. QED
      BY <1>1, <1>10, <2>1, <2>2, <3>1, <3>2
  <2>3. CASE n \in Acting
    <3>1. \A m \in Acting' : m < n => m \in Acting
      BY <1>1, <1>9, <1>10, <2>3 DEF Acting, Laid
    <3>2. n \in Laid /\ Extent(n) \in Nat
      BY <1>3, <1>10, <2>3, LayOutFacts
    <3>3. QED
      BY <1>1, <1>2, <1>10, <1>12, <2>1, <2>3, <3>1, <3>2
  <2>4. QED
    BY <1>9, <2>2, <2>3
<1>13. ActionOK'
  BY <1>12, LayOutFacts DEF ActionOK, Extent
<1>14. ActionNotNegative'
  <2>1. ASSUME 2 * sizes'.action <= IntRange, NEW n \in Acting'
        PROVE  layout'[n].action >= 0
    <3>1. 2 * sizes.action <= IntRange /\ sizes'.action <= IntRange
      BY <1>1, <1>10, <2>1
    <3>2. \A m \in Acting : layout'[m].action >= 0
      BY <1>10, <3>1 DEF StorageOK, ActionNotNegative
    <3>3. CASE n = next
      BY <1>1, <1>11, <2>1, <3>1, <3>3, ToIntFacts
    <3>4. QED
      BY <1>9, <3>2, <3>3
  <2>2. QED
    BY <2>1 DEF ActionNotNegative
<1>15. QED
  BY <1>5, <1>7, <1>8, <1>13, <1>14

\* So is the reach table, and who shares a block gets its parent's.
LEMMA LayOutReach ==
  ASSUME StorageOK, LayOutNode
  PROVE  ReachOK' /\ ReachNotNegative' /\ OwnerOK' /\ SharedOK'
<1> DEFINE hands == tree.hands[next]
           New(n, p) == layout'[n].reach[p]
           After(p) == IF SharesReach(next, p) THEN 0 ELSE hands
<1>1. sizes.reach \in Nat /\ next \in Nat /\ IntRange \in Nat /\ hands \in Nat \ {0}
  BY LayOutFacts, IntAssumption DEF StorageOK, StorageTypeOK
<1>2. sizes'.reach = sizes.reach + After(0) + After(1)
  BY LayOutFacts
<1>3. Laid' = Laid \cup {next} /\ (\A n \in Laid : n < next)
  BY <1>1, LayOutFacts DEF Laid
<1>4. \A n \in Laid, p \in Player : ReachBlockOffset(n, p) \in Int /\ tree.hands[n] \in Nat
  <2>1. \A n \in Laid : tree.hands[n] \in Nat
    BY LayOutFacts, TreeFacts DEF StorageOK, StorageTypeOK
  <2>2. QED
    BY <2>1 DEF StorageOK, StorageTypeOK, ReachBlockOffset
<1>5. \A n \in Laid, p \in Player : New(n, p) = ReachBlockOffset(n, p)
  BY LayOutFacts DEF ReachBlockOffset
<1>6. \A n, p : SharesReach(n, p)' = SharesReach(n, p) /\ Owns(n, p)' = Owns(n, p)
  BY LayOutFacts DEF SharesReach, Owns, IsPlayerNode
<1>7. \A p \in Player :
        /\ SharesReach(next, p) =>
             /\ next # 0 /\ tree.parent[next] \in Laid /\ tree.hands[tree.parent[next]] = hands
             /\ tree.depth[tree.parent[next]] \in Nat
             /\ tree.depth[next] = tree.depth[tree.parent[next]] + 1
             /\ New(next, p) = ReachBlockOffset(tree.parent[next], p)
        /\ Owns(next, p) => New(next, p) = ToInt(ReachStart(next, p))
  <2>1. next # 0 => /\ tree.parent[next] \in Laid
                    /\ tree.depth[tree.parent[next]] \in Nat
                    /\ tree.depth[next] = tree.depth[tree.parent[next]] + 1
    BY LayOutFacts, TreeFacts DEF Laid, StorageOK, StorageTypeOK
  <2>2. QED
    BY <2>1, LayOutFacts DEF SharesReach, Owns, ReachBlockOffset
<1>8. \A p \in Player : Owns(next, p) =>
        /\ ReachStart(next, p) \in Nat
        /\ sizes.reach <= ReachStart(next, p) /\ ReachStart(next, p) + hands <= sizes'.reach
  BY <1>1, <1>2 DEF ReachStart, Owns, Player
<1>9. sizes.reach <= sizes'.reach /\ sizes'.reach \in Nat
  BY <1>1, <1>2
<1>10. ASSUME sizes'.reach <= IntRange, NEW p \in Player,
              Owns(next, p), New(next, p) >= 0
       PROVE  New(next, p) = ReachStart(next, p)
  <2>1. ReachStart(next, p) < IntRange
    BY <1>1, <1>8, <1>9, <1>10
  <2>2. QED
    BY <1>7, <1>8, <1>10, <2>1, ToIntFacts
<1>11. ASSUME sizes'.reach <= IntRange, NEW n \in Laid', NEW p \in Player,
              Owns(n, p), New(n, p) >= 0
       PROVE  /\ New(n, p) + tree.hands[n] <= sizes'.reach
              /\ \A m \in Laid', q \in Player :
                   Owns(m, q) /\ New(m, q) >= 0 /\ Before(m, q, n, p) =>
                     New(m, q) + tree.hands[m] <= New(n, p)
  <2>1. \A m \in Laid, q \in Player : Owns(m, q) /\ ReachBlockOffset(m, q) >= 0 =>
          /\ ReachBlockOffset(m, q) + tree.hands[m] <= sizes.reach
          /\ \A k \in Laid, r \in Player :
               Owns(k, r) /\ ReachBlockOffset(k, r) >= 0 /\ Before(k, r, m, q) =>
                 ReachBlockOffset(k, r) + tree.hands[k] <= ReachBlockOffset(m, q)
    <3>1. sizes.reach <= IntRange
      BY <1>1, <1>9, <1>11
    <3>2. QED
      BY <3>1 DEF StorageOK, ReachOK
  <2>2. CASE n \in Laid
    <3>1. \A m \in Laid', q \in Player : Before(m, q, n, p) => m \in Laid
      BY <1>1, <1>3, <2>2 DEF Before, Laid
    <3>2. New(n, p) + tree.hands[n] <= sizes'.reach
      BY <1>1, <1>4, <1>5, <1>9, <1>11, <2>1, <2>2
    <3>3. QED
      BY <1>5, <1>11, <2>1, <2>2, <3>1, <3>2
  <2>3. CASE n = next
    <3>1. New(n, p) = ReachStart(next, p)
      BY <1>10, <1>11, <2>3
    <3>2. New(n, p) + tree.hands[n] <= sizes'.reach
      BY <1>8, <1>11, <2>3, <3>1
    <3>3. ASSUME NEW m \in Laid', NEW q \in Player,
                 Owns(m, q), New(m, q) >= 0, Before(m, q, n, p)
          PROVE  New(m, q) + tree.hands[m] <= New(n, p)
      <4>1. CASE m \in Laid
        <5>1. ReachBlockOffset(m, q) + tree.hands[m] <= sizes.reach
          BY <1>5, <2>1, <3>3, <4>1
        <5>2. sizes.reach <= ReachStart(next, p) /\ ReachStart(next, p) \in Nat
          BY <1>8, <1>11, <2>3
        <5>3. QED
          BY <1>1, <1>4, <1>5, <3>1, <4>1, <5>1, <5>2
      <4>2. CASE m = next
        <5>1. q = 0 /\ p = 1
          BY <1>1, <2>3, <3>3, <4>2 DEF Before, Player
        <5>2. New(m, q) = ReachStart(next, 0)
          BY <1>10, <1>11, <3>3, <4>2, <5>1
        <5>3. ReachStart(next, 0) = sizes.reach /\ ReachStart(next, 1) = sizes.reach + hands
          BY <3>3, <4>2, <5>1 DEF ReachStart, Owns
        <5>4. QED
          BY <1>1, <3>1, <4>2, <5>1, <5>2, <5>3
      <4>3. QED
        BY <1>3, <4>1, <4>2
    <3>4. QED
      BY <3>2, <3>3
  <2>4. QED
    BY <1>3, <2>2, <2>3
<1>12. ReachOK'
  BY <1>6, <1>11, LayOutFacts DEF ReachOK, Before, ReachBlockOffset
<1>13. ASSUME 2 * sizes'.reach <= IntRange, NEW n \in Laid', NEW p \in Player
       PROVE  New(n, p) >= 0
  <2>1. \A m \in Laid : ReachBlockOffset(m, p) >= 0
    BY <1>1, <1>9, <1>13 DEF StorageOK, ReachNotNegative
  <2>2. CASE n \in Laid
    BY <1>5, <2>1, <2>2
  <2>3. CASE n = next /\ SharesReach(next, p)
    BY <1>7, <2>1, <2>3
  <2>4. CASE n = next /\ Owns(next, p)
    <3>1. 2 * ReachStart(next, p) < IntRange /\ ReachStart(next, p) \in Nat
      BY <1>1, <1>8, <1>9, <1>13, <2>4
    <3>2. ToInt(ReachStart(next, p)) >= 0
      BY <3>1, ToIntFacts
    <3>3. QED
      BY <1>7, <2>4, <3>2
  <2>5. QED
    BY <1>3, <2>2, <2>3, <2>4 DEF Owns
<1>14. ReachNotNegative'
  BY <1>13 DEF ReachNotNegative, ReachBlockOffset
<1>15. ASSUME NEW n \in Laid', NEW p \in Player
       PROVE  \E k \in Laid' :
                /\ Owns(k, p) /\ tree.depth[k] <= tree.depth[n] /\ tree.hands[k] = tree.hands[n]
                /\ New(k, p) = New(n, p)
  <2>1. \A m \in Laid : \E k \in Laid :
          /\ Owns(k, p) /\ tree.depth[k] <= tree.depth[m] /\ tree.hands[k] = tree.hands[m]
          /\ ReachBlockOffset(k, p) = ReachBlockOffset(m, p)
    BY DEF StorageOK, OwnerOK
  <2>2. CASE n \in Laid
    BY <1>3, <1>5, <2>1, <2>2
  <2>3. CASE n = next /\ SharesReach(next, p)
    <3>1. PICK k \in Laid :
            /\ Owns(k, p) /\ tree.depth[k] <= tree.depth[tree.parent[next]]
            /\ tree.hands[k] = tree.hands[tree.parent[next]]
            /\ ReachBlockOffset(k, p) = ReachBlockOffset(tree.parent[next], p)
      BY <1>7, <2>1, <2>3
    <3>2. tree.depth[k] \in Nat
      BY LayOutFacts, TreeFacts DEF StorageOK, StorageTypeOK
    <3>3. tree.depth[k] <= tree.depth[next]
      BY <1>7, <2>3, <3>1, <3>2
    <3>4. QED
      BY <1>3, <1>5, <1>7, <2>3, <3>1, <3>3
  <2>4. CASE n = next /\ Owns(next, p)
    <3>1. tree.depth[next] \in Nat
      BY LayOutFacts, TreeFacts DEF StorageOK, StorageTypeOK
    <3>2. QED
      BY <1>3, <2>4, <3>1
  <2>5. QED
    BY <1>3, <2>2, <2>3, <2>4 DEF Owns
<1>16. OwnerOK'
  BY <1>6, <1>15, LayOutFacts DEF OwnerOK, ReachBlockOffset
<1>17. ASSUME NEW n \in Laid', NEW p \in Player, SharesReach(n, p)
       PROVE  New(n, p) = New(tree.parent[n], p)
  <2>1. CASE n \in Laid
    <3>1. tree.parent[n] \in Laid
      <4>1. tree.parent[n] \in 0 .. n - 1
        BY <1>17, <2>1, LayOutFacts, TreeFacts DEF StorageOK, StorageTypeOK, SharesReach
      <4>2. QED
        BY <1>1, <2>1, <4>1 DEF Laid
    <3>2. ReachBlockOffset(n, p) = ReachBlockOffset(tree.parent[n], p)
      BY <1>17, <2>1 DEF StorageOK, SharedOK
    <3>3. QED
      BY <1>5, <2>1, <3>1, <3>2
  <2>2. CASE n = next
    BY <1>5, <1>7, <1>17, <2>2
  <2>3. QED
    BY <1>3, <2>1, <2>2
<1>18. SharedOK'
  BY <1>6, <1>17, LayOutFacts DEF SharedOK, ReachBlockOffset
<1>19. QED
  BY <1>12, <1>14, <1>16, <1>18

LEMMA StorageStep == StorageOK /\ [LayOutNode \/ Refuse]_storageVars => StorageOK'
<1> SUFFICES ASSUME StorageOK, [LayOutNode \/ Refuse]_storageVars PROVE StorageOK'
  OBVIOUS
<1>1. CASE LayOutNode
  BY <1>1, LayOutFacts, LayOutTables, LayOutReach DEF StorageOK
<1>2. CASE Refuse
  BY <1>2
  DEF Refuse, StorageOK, StorageTypeOK, HandsOK, CfvOK, CfvNotNegative, ActionOK,
      ActionNotNegative, ReachOK, ReachNotNegative,
      OwnerOK, SharedOK, Laid, Acting, Owns, SharesReach, IsPlayerNode, ReachBlockOffset,
      Before, Extent
<1>3. CASE UNCHANGED storageVars
  BY <1>3
  DEF storageVars, StorageOK, StorageTypeOK, HandsOK, CfvOK, CfvNotNegative, ActionOK,
      ActionNotNegative, ReachOK,
      ReachNotNegative, OwnerOK, SharedOK, Laid, Acting, Owns, SharesReach, IsPlayerNode,
      ReachBlockOffset, Before, Extent
<1>4. QED
  BY <1>1, <1>2, <1>3

\* A node's reach block is the one its owner was given: it lies in the table,
\* and two owners' blocks are apart.
LEMMA OwnBlocks ==
  ASSUME StorageOK, sizes.reach <= IntRange,
         NEW m \in Laid, NEW n \in Laid, NEW p \in Player, NEW q \in Player,
         Owns(m, p), Owns(n, q), ReachBlockOffset(m, p) >= 0, ReachBlockOffset(n, q) >= 0
  PROVE  /\ ReachBlock(m, p) \subseteq 0 .. sizes.reach - 1
         /\ m # n \/ p # q => /\ Disjoint(ReachBlock(m, p), ReachBlock(n, q))
                              /\ ReachBlockOffset(m, p) # ReachBlockOffset(n, q)
<1>1. /\ ReachBlockOffset(m, p) \in Int /\ ReachBlockOffset(n, q) \in Int
      /\ m \in Nat /\ n \in Nat /\ sizes.reach \in Nat
  BY DEF StorageOK, StorageTypeOK, ReachBlockOffset, Laid
<1>2. tree.hands[m] \in Nat \ {0} /\ tree.hands[n] \in Nat \ {0}
  <2>1. Laid \subseteq NodeIds(tree) /\ tree \in Trees
    <3>1. tree \in Trees /\ next \in Nat /\ next <= tree.size /\ tree.size \in Nat
      BY TreesAssumption DEF StorageOK, StorageTypeOK, IsTree
    <3>2. QED
      BY <3>1 DEF Laid, NodeIds
  <2>2. QED
    BY <2>1, TreeFacts DEF StorageOK, HandsOK
<1>3. ReachBlockOffset(m, p) + tree.hands[m] <= sizes.reach
  BY DEF StorageOK, ReachOK
<1>4. Before(m, p, n, q) => ReachBlockOffset(m, p) + tree.hands[m] <= ReachBlockOffset(n, q)
  BY DEF StorageOK, ReachOK
<1>5. Before(n, q, m, p) => ReachBlockOffset(n, q) + tree.hands[n] <= ReachBlockOffset(m, p)
  BY DEF StorageOK, ReachOK
<1>6. m # n \/ p # q => Before(m, p, n, q) \/ Before(n, q, m, p)
  BY <1>1 DEF Before, Player
<1>7. QED
  BY <1>1, <1>2, <1>3, <1>4, <1>5, <1>6 DEF ReachBlock, Block, Disjoint

LEMMA StorageBlocks == StorageOK => BlocksDisjoint
<1> SUFFICES ASSUME StorageOK PROVE BlocksDisjoint
  OBVIOUS
<1>1. /\ tree \in Trees /\ Laid \subseteq NodeIds(tree) /\ Laid \subseteq Nat
      /\ sizes.cfv \in Nat /\ sizes.reach \in Nat /\ sizes.action \in Nat /\ IntRange \in Nat
  <2>1. tree \in Trees /\ next \in Nat /\ next <= tree.size /\ tree.size \in Nat
    BY TreesAssumption DEF StorageOK, StorageTypeOK, IsTree
  <2>2. QED
    BY <2>1, IntAssumption DEF Laid, NodeIds, StorageOK, StorageTypeOK
<1>2. \A n \in Laid :
        /\ tree.hands[n] \in Nat \ {0} /\ tree.count[n] \in Nat /\ Extent(n) \in Nat
        /\ layout[n].cfv \in Int /\ layout[n].action \in Int
        /\ \A p \in Player : ReachBlockOffset(n, p) \in Int
  <2>1. \A n \in Laid : tree.hands[n] \in Nat \ {0} /\ tree.count[n] \in Nat
    BY <1>1, TreeFacts DEF StorageOK, HandsOK
  <2>2. QED
    BY <2>1 DEF Extent, StorageOK, StorageTypeOK, ReachBlockOffset
<1>3. ASSUME sizes.cfv <= IntRange, NEW m \in Laid, NEW n \in Laid,
             NEW p \in Player, NEW q \in Player, CfvFound(m, p), CfvFound(n, q)
      PROVE  /\ CfvBlock(m, p) \subseteq 0 .. sizes.cfv - 1
             /\ (m # n \/ p # q) => Disjoint(CfvBlock(m, p), CfvBlock(n, q))
  <2>1. /\ layout[m].cfv >= 0 /\ layout[m].cfv + 2 * tree.hands[m] <= sizes.cfv
        /\ n < m => layout[n].cfv + 2 * tree.hands[n] <= layout[m].cfv
        /\ m < n => layout[m].cfv + 2 * tree.hands[m] <= layout[n].cfv
    BY <1>3 DEF StorageOK, CfvOK, CfvFound
  <2>2. m < n \/ n < m \/ m = n
    BY <1>1
  <2> DEFINE hm == tree.hands[m]  hn == tree.hands[n]
             om == layout[m].cfv  on == layout[n].cfv
  <2>3. hm \in Nat \ {0} /\ hn \in Nat \ {0} /\ om \in Int /\ on \in Int
    BY <1>2
  <2>4. /\ CfvBlock(m, p) = (IF p = 0 THEN om ELSE om + hm) .. (IF p = 0 THEN om ELSE om + hm) + hm - 1
        /\ CfvBlock(n, q) = (IF q = 0 THEN on ELSE on + hn) .. (IF q = 0 THEN on ELSE on + hn) + hn - 1
    BY <2>3 DEF CfvBlock, Block, PlayerBlockOffset, Player
  <2>5. m = n => om = on /\ hm = hn
    OBVIOUS
  <2> HIDE DEF hm, hn, om, on
  <2>6. /\ om >= 0 /\ om + 2 * hm <= sizes.cfv
        /\ n < m => on + 2 * hn <= om
        /\ m < n => om + 2 * hm <= on
    BY <2>1 DEF hm, hn, om, on
  <2>7. CfvBlock(m, p) \subseteq 0 .. sizes.cfv - 1
    BY <1>1, <2>3, <2>4, <2>6
  <2>8. CASE m < n
    BY <2>3, <2>4, <2>6, <2>7, <2>8 DEF Disjoint
  <2>9. CASE n < m
    BY <2>3, <2>4, <2>6, <2>7, <2>9 DEF Disjoint
  <2>10. CASE m = n
    BY <2>3, <2>4, <2>5, <2>7, <2>10 DEF Disjoint, Player
  <2>11. QED
    BY <2>2, <2>8, <2>9, <2>10
<1>4. ASSUME sizes.action <= IntRange, NEW m \in Acting, NEW n \in Acting,
             ActionFound(m), ActionFound(n)
      PROVE  /\ ActionBlock(m) \subseteq 0 .. sizes.action - 1
             /\ m # n => Disjoint(ActionBlock(m), ActionBlock(n))
  <2>1. m \in Laid /\ n \in Laid
    BY DEF Acting
  <2>2. /\ layout[m].action >= 0 /\ layout[m].action + Extent(m) <= sizes.action
        /\ n < m => layout[n].action + Extent(n) <= layout[m].action
        /\ m < n => layout[m].action + Extent(m) <= layout[n].action
    BY <1>4 DEF StorageOK, ActionOK, ActionFound
  <2>3. /\ ActionBlock(m) = layout[m].action .. layout[m].action + Extent(m) - 1
        /\ ActionBlock(n) = layout[n].action .. layout[n].action + Extent(n) - 1
    BY DEF ActionBlock, Block, Extent
  <2>4. m < n \/ n < m \/ m = n
    BY <1>1, <2>1
  <2> DEFINE om == layout[m].action  on == layout[n].action
             em == Extent(m)  en == Extent(n)
  <2>5. om \in Int /\ on \in Int /\ em \in Nat /\ en \in Nat
    BY <1>2, <2>1
  <2>6. /\ ActionBlock(m) = om .. om + em - 1 /\ ActionBlock(n) = on .. on + en - 1
        /\ om >= 0 /\ om + em <= sizes.action
        /\ n < m => on + en <= om
        /\ m < n => om + em <= on
    BY <2>2, <2>3
  <2> HIDE DEF om, on, em, en
  <2>7. ActionBlock(m) \subseteq 0 .. sizes.action - 1
    BY <1>1, <2>5, <2>6
  <2>8. m # n => Disjoint(ActionBlock(m), ActionBlock(n))
    BY <2>4, <2>5, <2>6 DEF Disjoint
  <2>9. QED
    BY <2>7, <2>8
<1>5. ASSUME sizes.reach <= IntRange, NEW m \in Laid, NEW n \in Laid,
             \A p \in Player : ReachFound(m, p) /\ ReachFound(n, p),
             NEW p \in Player, NEW q \in Player
      PROVE  /\ ReachBlock(m, p) \subseteq 0 .. sizes.reach - 1
             /\ (m # n \/ p # q) =>
                  \/ Disjoint(ReachBlock(m, p), ReachBlock(n, q))
                  \/ /\ p = q /\ ReachBlock(m, p) = ReachBlock(n, p)
                     /\ \E k \in {m, n} \ {0} :
                          /\ tree.actor[tree.parent[k]] = 1 - p
                          /\ ReachBlock(tree.parent[k], p) = ReachBlock(k, p)
  <2>1. PICK k \in Laid : /\ Owns(k, p) /\ tree.hands[k] = tree.hands[m]
                          /\ ReachBlockOffset(k, p) = ReachBlockOffset(m, p)
    BY DEF StorageOK, OwnerOK
  <2>2. PICK l \in Laid : /\ Owns(l, q) /\ tree.hands[l] = tree.hands[n]
                          /\ ReachBlockOffset(l, q) = ReachBlockOffset(n, q)
    BY DEF StorageOK, OwnerOK
  <2>3. ReachBlockOffset(k, p) >= 0 /\ ReachBlockOffset(l, q) >= 0
    BY <1>5, <2>1, <2>2 DEF ReachFound
  <2>4. ReachBlock(k, p) = ReachBlock(m, p) /\ ReachBlock(l, q) = ReachBlock(n, q)
    BY <2>1, <2>2 DEF ReachBlock
  <2>5. ReachBlock(m, p) \subseteq 0 .. sizes.reach - 1
    BY <1>5, <2>1, <2>2, <2>3, <2>4, OwnBlocks
  <2>6. CASE k # l \/ p # q
    BY <1>5, <2>1, <2>2, <2>3, <2>4, <2>5, <2>6, OwnBlocks
  <2>7. CASE k = l /\ p = q /\ m # n
    <3>1. ReachBlock(m, p) = ReachBlock(n, p) /\ ReachBlockOffset(m, p) = ReachBlockOffset(n, p)
      BY <2>1, <2>2, <2>4, <2>7
    <3>2. ASSUME NEW j \in {m, n}, j # k
          PROVE  /\ j # 0 /\ tree.actor[tree.parent[j]] = 1 - p
                 /\ ReachBlock(tree.parent[j], p) = ReachBlock(j, p)
      <4>1. j \in Laid /\ ReachBlockOffset(j, p) = ReachBlockOffset(k, p)
        BY <2>1, <2>2, <2>7, <3>1, <3>2
      <4>2. SharesReach(j, p)
        BY <1>5, <2>1, <2>3, <3>2, <4>1, OwnBlocks DEF Owns
      <4>3. ReachBlockOffset(j, p) = ReachBlockOffset(tree.parent[j], p)
        BY <4>1, <4>2 DEF StorageOK, SharedOK
      <4>4. tree.actor[tree.parent[j]] \in Player
        BY <4>2 DEF SharesReach, IsPlayerNode
      <4>5. QED
        BY <4>2, <4>3, <4>4 DEF SharesReach, ReachBlock, Player
    <3>3. QED
      BY <2>5, <2>7, <3>1, <3>2
  <2>8. QED
    BY <2>5, <2>6, <2>7
<1>6. FoundBlocksApart
  <2>1. sizes.cfv <= IntRange =>
          \A m, n \in Laid, p, q \in Player : CfvFound(m, p) /\ CfvFound(n, q) =>
            /\ CfvBlock(m, p) \subseteq 0 .. sizes.cfv - 1
            /\ (m # n \/ p # q) => Disjoint(CfvBlock(m, p), CfvBlock(n, q))
    BY <1>3
  <2>2. sizes.action <= IntRange =>
          \A m, n \in Acting : ActionFound(m) /\ ActionFound(n) =>
            /\ ActionBlock(m) \subseteq 0 .. sizes.action - 1
            /\ m # n => Disjoint(ActionBlock(m), ActionBlock(n))
    BY <1>4
  <2>3. sizes.reach <= IntRange =>
          \A m, n \in Laid :
            (\A p \in Player : ReachFound(m, p) /\ ReachFound(n, p)) =>
              /\ \A p \in Player : ReachBlock(m, p) \subseteq 0 .. sizes.reach - 1
              /\ ReachBlocksApart(m, n)
    BY <1>5 DEF ReachBlocksApart
  <2>4. QED
    BY <2>1, <2>2, <2>3 DEF FoundBlocksApart
<1>7. ASSUME 2 * sizes.cfv <= IntRange, NEW n \in Laid, NEW p \in Player
      PROVE  CfvFound(n, p)
  <2>1. /\ layout[n].cfv \in Int /\ tree.hands[n] \in Nat \ {0}
        /\ layout[n].cfv >= 0 /\ layout[n].cfv + 2 * tree.hands[n] <= sizes.cfv
    BY <1>1, <1>2, <1>7 DEF StorageOK, CfvOK, CfvNotNegative
  <2>2. layout[n].cfv + p * tree.hands[n] \in Int
        /\ layout[n].cfv + p * tree.hands[n] < layout[n].cfv + 2 * tree.hands[n]
    BY <2>1 DEF Player
  <2>3. QED
    BY <1>1, <1>7, <2>1, <2>2 DEF CfvFound, PlayerBlockOffset
<1>8. BlocksFound
  BY <1>7 DEF BlocksFound, ReachFound, ActionFound, StorageOK, ReachNotNegative, ActionNotNegative
<1>9. QED
  BY <1>6, <1>8 DEF BlocksDisjoint

(***************************************************************************)
(* The sweeps                                                              *)
(***************************************************************************)

Fits == 2 * sizes.cfv <= IntRange /\ 2 * sizes.reach <= IntRange /\ 2 * sizes.action <= IntRange

\* Tasks are begun only on the level of the running sweep, and only once the
\* tables are laid out and fit.
SweepOK ==
  /\ phase \in {"layout", "root", "forward", "terminal", "backward", "end"}
  /\ pass \in 1 .. Len(Passes)
  /\ phase # "layout" => status = "ready" /\ Fits
  /\ Sweeping => todo \subseteq Inner(depth) /\ DOMAIN running \subseteq Inner(depth)
  /\ ~Sweeping => DOMAIN running = {}

SweepInv == StorageOK /\ SweepOK

LEMMA InitSweepInv == Init => SweepInv
<1> SUFFICES ASSUME Init PROVE SweepInv
  OBVIOUS
<1>1. StorageOK
  BY InitStorageOK DEF Init
<1>2. Passes \in Seq(Player \cup {Average}) /\ Len(Passes) \in Nat /\ Len(Passes) >= 1
  BY PassesAssumption
<1>3. SweepOK
  BY <1>2 DEF Init, SweepOK, Sweeping
<1>4. QED
  BY <1>1, <1>3 DEF SweepInv

\* Nothing but the layout changes the tree and the layout.
LEMMA StorageOfStep ==
  ASSUME [Next]_vars
  PROVE  \/ UNCHANGED storageVars
         \/ phase = "layout" /\ (LayOutNode \/ Refuse) /\ UNCHANGED sweepVars
<1>1. ASSUME NEW n \in NodeIds(tree), Task(n) PROVE UNCHANGED storageVars
  BY <1>1 DEF Task, BeginTask, PropagateReach, EndForward, AddChildValues, EndBackward,
              ContinueTask, EndTask
<1>2. CASE Layout
  BY <1>2 DEF Layout
<1>3. CASE BeginPasses \/ InitializeRootReach \/ DownOneLevel \/ ComputeTerminalCfvs
             \/ UpOneLevel \/ NextPass
  BY <1>3 DEF BeginPasses, InitializeRootReach, DownOneLevel, ComputeTerminalCfvs, UpOneLevel,
              NextPass
<1>4. CASE UNCHANGED vars
  BY <1>4 DEF vars
<1>5. QED
  BY <1>1, <1>2, <1>3, <1>4 DEF Next

LEMMA SweepStep == SweepInv /\ [Next]_vars => SweepInv'
<1> SUFFICES ASSUME SweepInv, [Next]_vars PROVE SweepInv'
  OBVIOUS
<1> USE DEF SweepInv
<1>1. StorageOK'
  BY StorageOfStep, StorageStep
<1>2. CASE phase = "layout" /\ (LayOutNode \/ Refuse) /\ UNCHANGED sweepVars
  BY <1>1, <1>2 DEF SweepOK, sweepVars, Sweeping
<1>3. CASE UNCHANGED storageVars
  <2>1. /\ Fits' = Fits /\ status' = status /\ LastDepth' = LastDepth
        /\ \A d : Inner(d)' = Inner(d)
    BY <1>3 DEF storageVars, Fits, Inner, Level, NodeIds, LastDepth
  <2>2. ASSUME NEW n \in NodeIds(tree), Task(n) PROVE SweepOK'
    <3>1. UNCHANGED <<phase, pass, depth>>
      BY <2>2 DEF Task, BeginTask, PropagateReach, EndForward, AddChildValues, EndBackward,
                  ContinueTask, EndTask
    <3>2. Sweeping
      BY <2>2 DEF Task, BeginTask, PropagateReach, EndForward, AddChildValues, EndBackward,
                  Sweeping
    <3>3. todo \subseteq Inner(depth) /\ DOMAIN running \subseteq Inner(depth)
      BY <3>2 DEF SweepOK
    <3>4. todo' \subseteq todo /\ DOMAIN running' \subseteq DOMAIN running \cup todo
      <4>1. CASE BeginTask(n)
        BY <4>1 DEF BeginTask
      <4>2. CASE PropagateReach(n) \/ AddChildValues(n)
        BY <4>2 DEF PropagateReach, AddChildValues, ContinueTask
      <4>3. CASE EndForward(n) \/ EndBackward(n)
        BY <4>3 DEF EndForward, EndBackward, EndTask
      <4>4. QED
        BY <2>2, <4>1, <4>2, <4>3 DEF Task
    <3>5. todo' \subseteq Inner(depth)' /\ DOMAIN running' \subseteq Inner(depth)'
      <4>1. Inner(depth)' = Inner(depth)
        BY <1>3, <3>1 DEF storageVars, Inner, Level, NodeIds
      <4>2. QED
        BY <3>3, <3>4, <4>1
    <3>6. Sweeping'
      BY <3>1, <3>2 DEF Sweeping
    <3>7. QED
      BY <2>1, <3>1, <3>5, <3>6 DEF SweepOK
  <2>3. CASE Layout
    BY <1>1, <2>1, <2>3 DEF Layout, sweepVars, SweepOK, Sweeping
  <2>4. CASE BeginPasses
    <3>1. Fits
      <4>1. DOMAIN sizes = {"cfv", "reach", "action"}
        BY DEF StorageOK, StorageTypeOK
      <4>2. QED
        BY <2>4, <4>1 DEF BeginPasses, Fits
    <3>2. QED
      BY <1>1, <2>1, <2>4, <3>1 DEF BeginPasses, SweepOK, Sweeping
  <2>5. CASE InitializeRootReach
    <3>1. DOMAIN running' = {} /\ todo' = Inner(0) /\ depth' = 0
      BY <2>5 DEF InitializeRootReach, SweepOK, Sweeping
    <3>2. todo' \subseteq Inner(depth)'
      BY <1>3, <3>1 DEF storageVars, Inner, Level, NodeIds
    <3>3. QED
      BY <1>1, <2>1, <2>5, <3>1, <3>2 DEF InitializeRootReach, SweepOK, Sweeping
  <2>6. CASE DownOneLevel
    <3>1. DOMAIN running' = {} /\ Sweeping /\ UNCHANGED pass
      BY <2>6 DEF DownOneLevel, LevelDone, Sweeping
    <3>2. CASE depth < LastDepth
      <4>1. todo' = Inner(depth + 1) /\ depth' = depth + 1 /\ phase' = phase
        BY <2>6, <3>2 DEF DownOneLevel
      <4>2. todo' \subseteq Inner(depth)'
        BY <1>3, <4>1 DEF storageVars, Inner, Level, NodeIds
      <4>3. QED
        BY <1>1, <2>1, <3>1, <4>1, <4>2 DEF SweepOK, Sweeping
    <3>3. CASE ~(depth < LastDepth)
      BY <1>1, <2>1, <2>6, <3>1, <3>3 DEF DownOneLevel, SweepOK, Sweeping
    <3>4. QED
      BY <3>2, <3>3
  <2>7. CASE ComputeTerminalCfvs
    <3>1. DOMAIN running' = {} /\ todo' = Inner(LastDepth) /\ depth' = LastDepth
      BY <2>7 DEF ComputeTerminalCfvs, SweepOK, Sweeping
    <3>2. todo' \subseteq Inner(depth)'
      BY <1>3, <3>1 DEF storageVars, Inner, Level, NodeIds, LastDepth
    <3>3. QED
      BY <1>1, <2>1, <2>7, <3>1, <3>2 DEF ComputeTerminalCfvs, SweepOK, Sweeping
  <2>8. CASE UpOneLevel
    <3>1. DOMAIN running' = {} /\ Sweeping /\ UNCHANGED pass
      BY <2>8 DEF UpOneLevel, LevelDone, Sweeping
    <3>2. CASE depth > 0
      <4>1. todo' = Inner(depth - 1) /\ depth' = depth - 1 /\ phase' = phase
        BY <2>8, <3>2 DEF UpOneLevel
      <4>2. todo' \subseteq Inner(depth)'
        BY <1>3, <4>1 DEF storageVars, Inner, Level, NodeIds
      <4>3. QED
        BY <1>1, <2>1, <3>1, <4>1, <4>2 DEF SweepOK, Sweeping
    <3>3. CASE ~(depth > 0)
      BY <1>1, <2>1, <2>8, <3>1, <3>3 DEF UpOneLevel, SweepOK, Sweeping
    <3>4. QED
      BY <3>2, <3>3
  <2>9. CASE NextPass
    <3>1. Len(Passes) \in Nat
      BY PassesAssumption
    <3>2. QED
      BY <1>1, <2>1, <2>9, <3>1 DEF NextPass, SweepOK, Sweeping
  <2>10. CASE UNCHANGED vars
    BY <1>1, <2>1, <2>10 DEF vars, sweepVars, SweepOK, Sweeping, storageVars, Inner, Level, NodeIds
  <2>11. QED
    BY <1>1, <2>2, <2>3, <2>4, <2>5, <2>6, <2>7, <2>8, <2>9, <2>10 DEF Next
<1>4. QED
  BY <1>1, <1>2, <1>3, StorageOfStep

\* Different nodes' values of the players begin at different offsets.
LEMMA ValueOffsets ==
  ASSUME StorageOK, Fits, NEW m \in Laid, NEW n \in Laid, NEW p \in Player, NEW q \in Player,
         m # n
  PROVE  PlayerBlockOffset(m, p) # PlayerBlockOffset(n, q)
<1>1. Disjoint(CfvBlock(m, p), CfvBlock(n, q))
  <2>1. sizes.cfv <= IntRange
    BY IntAssumption DEF StorageOK, StorageTypeOK, Fits
  <2>2. CfvFound(m, p) /\ CfvFound(n, q)
    BY StorageBlocks DEF BlocksDisjoint, BlocksFound, Fits
  <2>3. QED
    BY <2>1, <2>2, StorageBlocks DEF BlocksDisjoint, FoundBlocksApart
<1>2. \A k \in {m, n} : tree.hands[k] \in Nat \ {0} /\ layout[k].cfv \in Int
  <2>1. tree \in Trees /\ next \in Nat /\ next <= tree.size /\ tree.size \in Nat
    BY TreesAssumption DEF StorageOK, StorageTypeOK, IsTree
  <2>2. m \in NodeIds(tree) /\ n \in NodeIds(tree)
    BY <2>1 DEF Laid, NodeIds
  <2>3. QED
    BY <2>1, <2>2, TreeFacts DEF StorageOK, StorageTypeOK, HandsOK
<1>3. /\ PlayerBlockOffset(m, p) \in Int /\ PlayerBlockOffset(n, q) \in Int
  BY <1>2 DEF PlayerBlockOffset, Player
<1>4. /\ PlayerBlockOffset(m, p) \in CfvBlock(m, p)
      /\ PlayerBlockOffset(n, q) \in CfvBlock(n, q)
  BY <1>2, <1>3 DEF CfvBlock, Block
<1>5. QED
  BY <1>1, <1>4 DEF Disjoint

LEMMA SweepNoConflict == SweepInv => NoConflict
<1> SUFFICES ASSUME SweepInv, NEW m \in DOMAIN running, NEW n \in DOMAIN running, m # n
             PROVE  TaskWrites(m) \cap (TaskWrites(n) \cup TaskReads(n)) = {}
  BY DEF NoConflict
<1>1. Sweeping /\ StorageOK
  BY DEF SweepInv, SweepOK
<1>2. status = "ready" /\ Fits /\ m \in Inner(depth) /\ n \in Inner(depth)
  BY <1>1 DEF SweepInv, SweepOK, Sweeping
<1>3. tree \in Trees /\ Laid = NodeIds(tree) /\ IntRange \in Nat /\ sizes.reach \in Nat
  <2>1. tree \in Trees /\ next = tree.size
    BY <1>1, <1>2 DEF StorageOK, StorageTypeOK
  <2>2. QED
    BY <1>1, <2>1, IntAssumption DEF Laid, NodeIds, StorageOK, StorageTypeOK
<1>4. /\ m \in Laid /\ n \in Laid /\ tree.depth[m] = tree.depth[n] /\ tree.depth[m] \in Nat
      /\ tree.actor[m] \in Player \cup {ChancePlayer}
      /\ tree.actor[n] \in Player \cup {ChancePlayer}
  BY <1>2, <1>3, TreeFacts DEF Inner, Level
<1>5. \A k \in {m, n} : \A c \in Children(tree, k) :
        /\ c \in Laid /\ c # 0 /\ tree.parent[c] = k /\ tree.depth[c] = tree.depth[m] + 1
  <2> TAKE k \in {m, n}
  <2>1. k \in NodeIds(tree) /\ tree.depth[k] = tree.depth[m]
    BY <1>3, <1>4
  <2> TAKE c \in Children(tree, k)
  <2>2. c \in NodeIds(tree) /\ tree.parent[c] = k
    BY <1>3, <2>1, TreeFacts
  <2>3. c # 0
    <3>1. k # NoNode
      BY <2>1 DEF NodeIds, NoNode
    <3>2. tree.parent[0] = NoNode
      BY <1>3, <2>2, TreesAssumption DEF IsTree, WellFormed, ParentsFirst, NodeIds
    <3>3. QED
      BY <2>2, <3>1, <3>2
  <2>4. tree.depth[c] = tree.depth[k] + 1
    BY <1>3, <2>2, <2>3, TreeFacts
  <2>5. QED
    BY <1>3, <2>1, <2>2, <2>3, <2>4
<1>6. \A k \in {m, n} : Movers(k) \subseteq Player
  BY <1>4 DEF Movers, Player, ChancePlayer
<1>7. \A k \in {m, n} : \A c \in Children(tree, k), p \in Movers(k) : Owns(c, p)
  BY <1>5 DEF Owns, SharesReach, Movers, IsPlayerNode, Player, ChancePlayer
<1>8. sizes.reach <= IntRange
  BY <1>2, <1>3 DEF Fits
<1>9. \A k \in Laid, p \in Player : ReachBlockOffset(k, p) >= 0
  BY <1>1, <1>2 DEF StorageOK, ReachNotNegative, Fits
<1>10. Mode \in Player \cup {Average} /\ Heroes \subseteq Player
  <2>1. Mode \in Player \cup {Average}
    BY PassesAssumption DEF SweepInv, SweepOK, Mode
  <2>2. QED
    BY <2>1 DEF Heroes
<1>11. ASSUME tree.actor[m] = Mode, tree.actor[n] = Mode
       PROVE  layout[m].action # layout[n].action
  <2>1. m \in Acting /\ n \in Acting
    BY <1>4, <1>10, <1>11 DEF Acting, IsPlayerNode, Player, Average, ChancePlayer
  <2>2. \A k \in {m, n} :
          /\ layout[k].action \in Int /\ tree.count[k] \in Nat \ {0}
          /\ tree.hands[k] \in Nat \ {0}
    BY <1>1, <1>3, <1>4, <2>1, TreeFacts DEF StorageOK, StorageTypeOK, HandsOK, Acting
  <2>3. \A k \in {m, n} : Extent(k) \in Nat \ {0}
    BY <2>2 DEF Extent
  <2>4. /\ m < n => layout[m].action + Extent(m) <= layout[n].action
        /\ n < m => layout[n].action + Extent(n) <= layout[m].action
    <3>1. sizes.action <= IntRange
      BY <1>1, <1>2, IntAssumption DEF StorageOK, StorageTypeOK, Fits
    <3>2. layout[m].action >= 0 /\ layout[n].action >= 0
      BY <1>1, <1>2, <2>1 DEF StorageOK, ActionNotNegative, Fits
    <3>3. QED
      BY <1>1, <2>1, <3>1, <3>2 DEF StorageOK, ActionOK
  <2>5. m < n \/ n < m
    BY <1>3, <1>4 DEF NodeIds
  <2>6. QED
    BY <2>2, <2>3, <2>4, <2>5
<1>12. CASE phase = "forward"
  <2>1. ASSUME NEW c \in Children(tree, m), NEW p \in Movers(m),
               NEW d \in Children(tree, n), NEW q \in Movers(n)
        PROVE  ReachBlockOffset(c, p) # ReachBlockOffset(d, q)
    <3>1. c \in Laid /\ d \in Laid /\ c # d /\ p \in Player /\ q \in Player
      BY <1>5, <1>6
    <3>2. QED
      BY <1>1, <1>7, <1>8, <1>9, <3>1, OwnBlocks
  <2>2. ASSUME NEW c \in Children(tree, m), NEW p \in Movers(m), NEW q \in Movers(n)
        PROVE  ReachBlockOffset(c, p) # ReachBlockOffset(n, q)
    <3>1. c \in Laid /\ p \in Player /\ q \in Player
      BY <1>5, <1>6
    <3>2. PICK k \in Laid : /\ Owns(k, q) /\ tree.depth[k] <= tree.depth[n]
                            /\ ReachBlockOffset(k, q) = ReachBlockOffset(n, q)
      BY <1>1, <1>4, <3>1 DEF StorageOK, OwnerOK
    <3>3. c # k
      <4>1. tree.depth[k] \in Nat
        BY <1>3, TreeFacts
      <4>2. QED
        BY <1>4, <1>5, <3>2, <4>1
    <3>4. QED
      BY <1>1, <1>7, <1>8, <1>9, <3>1, <3>2, <3>3, OwnBlocks
  <2>3. QED
    BY <1>11, <1>12, <2>1, <2>2 DEF TaskWrites, TaskReads
<1>13. CASE phase = "backward"
  <2>1. ASSUME NEW p \in Heroes, NEW q \in Heroes
        PROVE  PlayerBlockOffset(m, p) # PlayerBlockOffset(n, q)
    BY <1>1, <1>2, <1>4, <1>10, ValueOffsets
  <2>2. ASSUME NEW p \in Heroes, NEW q \in Heroes, NEW d \in Children(tree, n)
        PROVE  PlayerBlockOffset(m, p) # PlayerBlockOffset(d, q)
    <3>1. d \in Laid /\ d # m
      BY <1>4, <1>5
    <3>2. QED
      BY <1>1, <1>2, <1>4, <1>10, <3>1, ValueOffsets
  <2>3. phase # "forward"
    BY <1>13
  <2>4. QED
    BY <1>11, <2>1, <2>2, <2>3 DEF TaskWrites, TaskReads, BackwardCfvs
<1>14. QED
  BY <1>1, <1>12, <1>13 DEF Sweeping

\* The tasks of a level that run at once never touch a block another one
\* writes, for every tree, every range of an int the tables fit into, every
\* sequence of passes and every number of threads.
THEOREM SpecNoConflict == Spec => []NoConflict
<1>1. SweepInv => NoConflict
  BY SweepNoConflict
<1>2. QED
  BY InitSweepInv, SweepStep, <1>1, PTL DEF Spec

\* The layout gives every table disjoint blocks that lie in it, but for the
\* reach blocks that a child of a player's node shares with it.
THEOREM SpecBlocksDisjoint == Spec => []BlocksDisjoint
<1>1. SweepInv => BlocksDisjoint
  BY StorageBlocks DEF SweepInv
<1>2. QED
  BY InitSweepInv, SweepStep, <1>1, PTL DEF Spec

(***************************************************************************)
(* The way from the root to a node                                         *)
(***************************************************************************)

\* The sets of nodes that hold with a node its parent, and what they all hold.
UpwardClosed(C) == \A k \in C \ {0} : tree.parent[k] \in C
Above(n) ==
  {k \in NodeIds(tree) \ {0} : \A C \in SUBSET NodeIds(tree) : n \in C /\ UpwardClosed(C) => k \in C}

LEMMA AboveIsPath ==
  ASSUME tree \in Trees, NEW n \in NodeIds(tree)
  PROVE  Above(n) = IF n = 0 THEN {} ELSE Above(tree.parent[n]) \cup {n}
<1>1. CASE n = 0
  <2>1. {0} \in SUBSET NodeIds(tree) /\ UpwardClosed({0})
    BY <1>1 DEF UpwardClosed
  <2>2. QED
    BY <1>1, <2>1 DEF Above
<1>2. CASE n # 0
  <2> DEFINE up == tree.parent[n]
  <2>1. up \in NodeIds(tree)
    BY <1>2, TreeFacts DEF NodeIds
  <2>2. n \in Above(n)
    BY <1>2 DEF Above
  <2>3. ASSUME NEW k \in Above(up) PROVE k \in Above(n)
    BY <1>2, <2>3 DEF Above, UpwardClosed
  <2>4. ASSUME NEW k \in Above(n), k # n PROVE k \in Above(up)
    <3> SUFFICES ASSUME NEW C \in SUBSET NodeIds(tree), up \in C, UpwardClosed(C) PROVE k \in C
      BY DEF Above
    <3>1. C \cup {n} \in SUBSET NodeIds(tree) /\ UpwardClosed(C \cup {n})
      BY DEF UpwardClosed
    <3>2. QED
      BY <2>4, <3>1 DEF Above
  <2>5. QED
    BY <1>2, <2>2, <2>3, <2>4
<1>3. QED
  BY <1>1, <1>2

\* The path of a node is its parent's and itself.
LEMMA PathOfParent ==
  ASSUME tree \in Trees
  PROVE  \A n \in NodeIds(tree) :
           PathTo[n] = IF n = 0 THEN {} ELSE PathTo[tree.parent[n]] \cup {n}
<1> DEFINE Equation(f) ==
      f = [n \in NodeIds(tree) |-> IF n = 0 THEN {} ELSE f[tree.parent[n]] \cup {n}]
    above == [n \in NodeIds(tree) |-> Above(n)]
<1>1. \A n \in NodeIds(tree) : n # 0 => tree.parent[n] \in NodeIds(tree)
  BY TreeFacts DEF NodeIds
<1>2. Equation(above)
  BY <1>1, AboveIsPath
<1>3. PathTo = CHOOSE f : Equation(f)
  BY DEF PathTo
<1>4. Equation(PathTo)
  <2> HIDE DEF above, Equation
  <2>1. QED
    BY <1>2, <1>3
<1>5. QED
  BY <1>4

\* A path holds with a node its parent, and below every node on it a child, but
\* for the last.
LEMMA PathFacts ==
  ASSUME tree \in Trees
  PROVE  \A n \in NodeIds(tree) :
           /\ PathTo[n] \subseteq NodeIds(tree) \ {0}
           /\ \A k \in PathTo[n] : tree.parent[k] \in PathTo[n] \cup {0}
           /\ \A k \in PathTo[n] \cup {0} :
                k = n \/ \E c \in NodeIds(tree) \ {0} : tree.parent[c] = k /\ c \in PathTo[n]
<1> DEFINE Good(n) ==
           /\ PathTo[n] \subseteq NodeIds(tree) \ {0}
           /\ \A k \in PathTo[n] : tree.parent[k] \in PathTo[n] \cup {0}
           /\ \A k \in PathTo[n] \cup {0} :
                k = n \/ \E c \in NodeIds(tree) \ {0} : tree.parent[c] = k /\ c \in PathTo[n]
    S == {i \in Nat : \A n \in NodeIds(tree) : n <= i => Good(n)}
<1>0. tree.size \in Nat /\ NodeIds(tree) \subseteq Nat
  BY TreesAssumption DEF IsTree, NodeIds
<1>1. 0 \in S
  <2>1. 0 \in NodeIds(tree) => PathTo[0] = {}
    BY PathOfParent
  <2>2. 0 \in NodeIds(tree) => Good(0)
    BY <2>1
  <2> HIDE DEF Good
  <2>3. QED
    BY <1>0, <2>2
<1>2. ASSUME NEW i \in Nat, i \in S PROVE i + 1 \in S
  <2>1. ASSUME NEW n \in NodeIds(tree), n <= i + 1 PROVE Good(n)
    <3>1. CASE n <= i
      <4> HIDE DEF Good
      <4>1. QED
        BY <1>2, <3>1
    <3>2. CASE n = i + 1
      <4> DEFINE up == tree.parent[n]
      <4>1. n # 0 /\ up \in NodeIds(tree) /\ up <= i
        BY <1>0, <3>2, TreeFacts DEF NodeIds
      <4>2. Good(up)
        <5> HIDE DEF Good, up
        <5>1. QED
          BY <1>2, <4>1
      <4>3. PathTo[n] = PathTo[up] \cup {n}
        BY <4>1, PathOfParent
      <4>4. up \in PathTo[up] \cup {0}
        BY <4>1, PathOfParent
      <4>5. PathTo[n] \subseteq NodeIds(tree) \ {0}
        BY <4>1, <4>2, <4>3
      <4>6. \A k \in PathTo[n] : tree.parent[k] \in PathTo[n] \cup {0}
        BY <4>2, <4>3, <4>4
      <4>7. ASSUME NEW k \in PathTo[n] \cup {0}, k # n
            PROVE  \E c \in NodeIds(tree) \ {0} : tree.parent[c] = k /\ c \in PathTo[n]
        <5>1. k \in PathTo[up] \cup {0}
          BY <4>3, <4>7
        <5>2. CASE k = up
          BY <4>1, <4>3, <5>2
        <5>3. CASE k # up
          BY <4>2, <4>3, <5>1, <5>3
        <5>4. QED
          BY <5>2, <5>3
      <4>8. QED
        BY <4>5, <4>6, <4>7
    <3>3. QED
      BY <1>0, <2>1, <3>1, <3>2
  <2> HIDE DEF Good
  <2>2. QED
    BY <2>1
<1>3. Nat \subseteq S
  <2> HIDE DEF S
  <2>1. QED
    BY <1>1, <1>2, NatInduct
<1> HIDE DEF Good
<1>4. \A n \in NodeIds(tree) : Good(n)
  BY <1>0, <1>3
<1>5. QED
  BY <1>4 DEF Good

\* The moves on the way to a node are those to its parent, and the one that
\* leads to it from there.
LEMMA MovesOfParent ==
  ASSUME tree \in Trees, NEW n \in NodeIds(tree), NEW p \in Player
  PROVE  MovesTo(n, p) =
           IF n = 0 THEN {}
           ELSE MovesTo(tree.parent[n], p) \cup
                  (IF tree.actor[tree.parent[n]] \in {p, ChancePlayer}
                   THEN {<<n, IF tree.actor[tree.parent[n]] = ChancePlayer THEN 0
                              ELSE IF Mode = Average THEN ByAverage ELSE UpdatesBefore(p)>>}
                   ELSE {})
<1>1. PathTo[n] = IF n = 0 THEN {} ELSE PathTo[tree.parent[n]] \cup {n}
  BY PathOfParent
<1>2. QED
  BY <1>1 DEF MovesTo

LEMMA LeavesOfChildren ==
  ASSUME tree \in Trees, NEW n \in NodeIds(tree)
  PROVE  {l \in Leaves : n \in PathTo[l] \cup {0}} =
           IF n \in Leaves THEN {n}
           ELSE UNION {{l \in Leaves : c \in PathTo[l] \cup {0}} : c \in Children(tree, n)}
<1> DEFINE Below(k) == {l \in Leaves : k \in PathTo[l] \cup {0}}
<1>1. Children(tree, n) = {m \in NodeIds(tree) : tree.parent[m] = n}
  BY TreeFacts
<1>2. 0 \notin Children(tree, n) /\ tree.size \in Nat
  <2>1. n # NoNode /\ tree.size \in Nat
    BY TreesAssumption DEF NodeIds, NoNode, IsTree
  <2>2. 0 \in NodeIds(tree) => tree.parent[0] = NoNode
    BY TreesAssumption DEF IsTree, WellFormed, ParentsFirst
  <2>3. QED
    BY <1>1, <2>1, <2>2
<1>3. n \in Leaves => Children(tree, n) = {}
  <2>1. n \in Leaves => tree.count[n] = 0 /\ tree.offset[n] \in Int
    BY TreesAssumption, TreeFacts DEF Leaves, IsTree, ExpandedByBoard
  <2>2. QED
    BY <2>1 DEF Children
<1>4. ASSUME NEW l \in Leaves, n \in PathTo[l] \cup {0}
      PROVE  l = n \/ \E c \in Children(tree, n) : c \in PathTo[l]
  <2>1. l \in NodeIds(tree)
    BY DEF Leaves
  <2>2. QED
    BY <1>1, <1>4, <2>1, PathFacts
<1>5. ASSUME NEW l \in Leaves, NEW c \in Children(tree, n), c \in PathTo[l]
      PROVE  n \in PathTo[l] \cup {0}
  <2>1. l \in NodeIds(tree) /\ tree.parent[c] = n
    BY <1>1, <1>5 DEF Leaves
  <2>2. QED
    BY <1>5, <2>1, PathFacts
<1>6. n \in PathTo[n] \cup {0}
  BY PathOfParent
<1>7. CASE n \in Leaves
  BY <1>3, <1>4, <1>6, <1>7
<1>8. CASE n \notin Leaves
  BY <1>2, <1>4, <1>5, <1>8
<1>9. QED
  BY <1>7, <1>8

(***************************************************************************)
(* The contents of the tables                                              *)
(***************************************************************************)

Ended(n) == n \notin todo /\ n \notin DOMAIN running

\* The nodes down to this level, and the children its tasks have reached.
Reached(n) ==
  \/ tree.depth[n] <= depth
  \/ /\ tree.depth[n] = depth + 1
     /\ \/ Ended(tree.parent[n])
        \/ tree.parent[n] \in DOMAIN running /\ n < Child(tree.parent[n])

HasReach(n) == \A p \in Player : reach[ReachBlockOffset(n, p)] = MovesTo(n, p)
Averaged(n) ==
  tree.actor[n] \in Player /\ tree.actor[n] = Mode =>
    <<UpdatesBefore(Mode), MovesTo(n, Mode)>> \in sum[n]

\* The nodes of the levels behind the sweep up, and those of its own that are done.
Valued(n) == tree.depth[n] > depth \/ (tree.depth[n] = depth /\ Ended(n))

LeavesBelow(n) == {l \in Leaves : n \in PathTo[l] \cup {0}}
ValuesOf(leaves, p) == {<<l, MovesTo(l, 1 - p)>> : l \in leaves}
AddedBelow(n) == UNION {LeavesBelow(c) : c \in tree.offset[n] .. Child(n) - 1}
Updates(n) == UpdatesBefore(tree.actor[n])
Learns(n) == IF tree.actor[n] = Mode THEN 1 ELSE 0

TasksOK ==
  /\ phase = "layout" => pass = 1
  /\ todo \cap DOMAIN running = {}
  /\ Sweeping => /\ depth \in 0 .. LastDepth
                 /\ \A n \in DOMAIN running : running[n] \in 0 .. tree.count[n]

\* Down a level at a time: what is reached has its path's moves.
ForwardOK ==
  phase = "forward" =>
    \A n \in NodeIds(tree) :
      /\ Reached(n) => HasReach(n)
      /\ tree.depth[n] < depth \/ (tree.depth[n] = depth /\ Ended(n)) => Averaged(n)

ReachesOK ==
  phase \in {"terminal", "backward", "end"} => \A n \in NodeIds(tree) : HasReach(n) /\ Averaged(n)

\* Up a level at a time: who is done has the leaves below it, a running task
\* those below the children it has added.
BackwardOK ==
  phase = "backward" =>
    \A n \in NodeIds(tree), p \in Heroes :
      /\ n \in Leaves \/ Valued(n) =>
           cfv[PlayerBlockOffset(n, p)] = ValuesOf(LeavesBelow(n), p)
      /\ n \in DOMAIN running => cfv[PlayerBlockOffset(n, p)] = ValuesOf(AddedBelow(n), p)

EndOK ==
  phase = "end" =>
    \A n \in NodeIds(tree), p \in Heroes :
      cfv[PlayerBlockOffset(n, p)] = ValuesOf(LeavesBelow(n), p)

\* A player's strategies are as old as its passes, and those behind the sweep up
\* one newer.
VersionOK ==
  phase # "layout" =>
    /\ DOMAIN sum = NodeIds(tree)
    /\ version \in [NodeIds(tree) -> Nat]
    /\ \A n \in NodeIds(tree) : tree.actor[n] \in Player =>
         version[n] =
           IF phase = "end" \/ (phase = "backward" /\ Valued(n))
           THEN Updates(n) + Learns(n) ELSE Updates(n)

TablesOK == TasksOK /\ ForwardOK /\ ReachesOK /\ BackwardOK /\ EndOK /\ VersionOK

\* Nothing below the last node's level.
LEMMA DeepestLevel ==
  ASSUME tree \in Trees
  PROVE  LastDepth \in Nat /\ \A n \in NodeIds(tree) : tree.depth[n] \in 0 .. LastDepth
<1>1. tree.size \in Nat \ {0} /\ \A n \in NodeIds(tree) : tree.depth[n] \in Nat
  BY TreesAssumption DEF IsTree
<1>2. tree.size - 1 \in NodeIds(tree) /\ LastDepth \in Nat
  BY <1>1 DEF NodeIds, LastDepth
<1> DEFINE S == {i \in Nat : i < tree.size => tree.depth[tree.size - 1 - i] <= LastDepth}
<1>3. 0 \in S
  BY <1>1, <1>2 DEF LastDepth
<1>4. ASSUME NEW i \in Nat, i \in S PROVE i + 1 \in S
  <2> SUFFICES ASSUME i + 1 < tree.size
               PROVE  tree.depth[tree.size - 1 - (i + 1)] <= LastDepth
    OBVIOUS
  <2> DEFINE n == tree.size - 1 - (i + 1)
  <2>1. n \in NodeIds(tree) /\ n + 1 \in NodeIds(tree) /\ n + 1 = tree.size - 1 - i
    BY <1>1 DEF NodeIds
  <2>2. tree.depth[n + 1] <= LastDepth
    <3>1. tree.depth[tree.size - 1 - i] <= LastDepth
      BY <1>1, <1>4
    <3>2. QED
      BY <2>1, <3>1
  <2>3. tree.depth[n + 1] \in {tree.depth[n], tree.depth[n] + 1}
    BY <2>1, TreesAssumption DEF IsTree, WellFormed, LevelsInOrder
  <2> HIDE DEF n
  <2>4. tree.depth[n] <= LastDepth
    BY <1>1, <1>2, <2>1, <2>2, <2>3
  <2>5. QED
    BY <2>4 DEF n
<1>5. Nat \subseteq S
  <2> HIDE DEF S
  <2>1. QED
    BY <1>3, <1>4, NatInduct
<1>6. ASSUME NEW n \in NodeIds(tree) PROVE tree.depth[n] <= LastDepth
  <2> DEFINE i == tree.size - 1 - n
  <2>1. i \in Nat /\ i < tree.size /\ tree.size - 1 - i = n
    BY <1>1 DEF NodeIds
  <2>2. i \in S
    BY <1>5, <2>1
  <2>3. QED
    BY <2>1, <2>2
<1>7. QED
  BY <1>1, <1>2, <1>6

\* A finished pass of a player updated its strategies once more.
LEMMA UpdatesOfPass ==
  ASSUME pass \in 1 .. Len(Passes), pass' = pass + 1, NEW p
  PROVE  UpdatesBefore(p)' = UpdatesBefore(p) + (IF Mode = p THEN 1 ELSE 0)
<1> DEFINE S == {i \in 1 .. pass - 1 : Passes[i] = p}
<1>1. pass \in Nat /\ Len(Passes) \in Nat
  BY PassesAssumption
<1>2. IsFiniteSet(S) /\ pass \notin S
  <2>1. IsFiniteSet(1 .. pass - 1)
    BY <1>1, FS_Interval
  <2>2. QED
    BY <1>1, <2>1, FS_Subset
<1>3. {i \in 1 .. pass' - 1 : Passes[i] = p} = IF Mode = p THEN S \cup {pass} ELSE S
  BY <1>1 DEF Mode
<1>4. Cardinality(S) \in Nat
  BY <1>2, FS_CardinalityType
<1>5. Cardinality(S \cup {pass}) = Cardinality(S) + 1
  BY <1>2, FS_AddElement
<1>6. UpdatesBefore(p) = Cardinality(S) /\ UpdatesBefore(p)' = Cardinality(IF Mode = p THEN S \cup {pass} ELSE S)
  BY <1>3 DEF UpdatesBefore
<1> HIDE DEF S
<1>7. QED
  BY <1>4, <1>5, <1>6

LEMMA UpdatesType ==
  ASSUME pass \in 1 .. Len(Passes), NEW p
  PROVE  UpdatesBefore(p) \in Nat
<1>1. Len(Passes) \in Nat
  BY PassesAssumption
<1>2. IsFiniteSet(1 .. pass - 1)
  BY <1>1, FS_Interval
<1>3. IsFiniteSet({i \in 1 .. pass - 1 : Passes[i] = p})
  BY <1>2, FS_Subset
<1>4. QED
  BY <1>3, FS_CardinalityType DEF UpdatesBefore

\* What holds of the tree and the blocks once the passes have begun.
LEMMA Begun ==
  ASSUME SweepInv, phase # "layout"
  PROVE  /\ tree \in Trees /\ Laid = NodeIds(tree) /\ StorageOK /\ Fits
         /\ Mode \in Player \cup {Average} /\ Heroes \subseteq Player
         /\ sizes.reach <= IntRange
         /\ \A n \in NodeIds(tree), p \in Player : ReachBlockOffset(n, p) >= 0
<1>1. StorageOK /\ status = "ready" /\ Fits
  BY DEF SweepInv, SweepOK
<1>2. tree \in Trees /\ next = tree.size
  BY <1>1 DEF StorageOK, StorageTypeOK
<1>3. Laid = NodeIds(tree)
  BY <1>2 DEF Laid, NodeIds
<1>4. Mode \in Player \cup {Average}
  BY PassesAssumption DEF SweepInv, SweepOK, Mode
<1>5. Heroes \subseteq Player
  BY <1>4 DEF Heroes
<1>6. sizes.reach <= IntRange
  BY <1>1, IntAssumption DEF Fits, StorageOK, StorageTypeOK
<1>7. QED
  BY <1>1, <1>2, <1>3, <1>4, <1>5, <1>6 DEF StorageOK, ReachNotNegative, Fits

\* The block a node uses was made for it or for a node above it.
LEMMA OwnerAbove ==
  ASSUME SweepInv, phase # "layout", NEW n \in NodeIds(tree), NEW p \in Player
  PROVE  \E k \in NodeIds(tree) :
           /\ Owns(k, p) /\ ReachBlockOffset(k, p) = ReachBlockOffset(n, p)
           /\ k = n \/ tree.depth[k] < tree.depth[n]
<1>1. tree \in Trees /\ Laid = NodeIds(tree) /\ StorageOK
  BY Begun
<1>2. CASE Owns(n, p)
  BY <1>2
<1>3. CASE SharesReach(n, p)
  <2> DEFINE up == tree.parent[n]
  <2>1. n # 0 /\ up \in NodeIds(tree) /\ tree.depth[n] = tree.depth[up] + 1 /\ tree.depth[up] \in Nat
    BY <1>1, <1>3, TreeFacts DEF SharesReach, NodeIds
  <2>2. ReachBlockOffset(n, p) = ReachBlockOffset(up, p)
    BY <1>1, <1>3 DEF StorageOK, SharedOK
  <2>3. PICK k \in NodeIds(tree) : /\ Owns(k, p) /\ tree.depth[k] <= tree.depth[up]
                                   /\ ReachBlockOffset(k, p) = ReachBlockOffset(up, p)
    BY <1>1, <2>1 DEF StorageOK, OwnerOK
  <2>4. tree.depth[k] \in Nat
    BY <1>1, TreeFacts
  <2>5. QED
    BY <2>1, <2>2, <2>3, <2>4
<1>4. QED
  BY <1>2, <1>3 DEF Owns

\* A block a move fills is used by nobody else down to the child's level.
LEMMA FreshBlock ==
  ASSUME SweepInv, phase # "layout",
         NEW c \in NodeIds(tree), NEW p \in Player, Owns(c, p),
         NEW n \in NodeIds(tree), NEW q \in Player, n # c \/ q # p,
         tree.depth[n] <= tree.depth[c]
  PROVE  ReachBlockOffset(n, q) # ReachBlockOffset(c, p)
<1>1. /\ tree \in Trees /\ Laid = NodeIds(tree) /\ StorageOK /\ sizes.reach <= IntRange
      /\ \A m \in NodeIds(tree), r \in Player : ReachBlockOffset(m, r) >= 0
  BY Begun
<1>2. PICK k \in NodeIds(tree) :
        /\ Owns(k, q) /\ ReachBlockOffset(k, q) = ReachBlockOffset(n, q)
        /\ k = n \/ tree.depth[k] < tree.depth[n]
  BY OwnerAbove
<1>3. tree.depth[k] \in Nat /\ tree.depth[n] \in Nat /\ tree.depth[c] \in Nat
  BY <1>1, TreeFacts
<1>4. k # c \/ q # p
  BY <1>2, <1>3
<1>5. QED
  BY <1>1, <1>2, <1>4, OwnBlocks

\* A child of a player's node has the reach of who does not act there.
LEMMA KeptBlock ==
  ASSUME SweepInv, phase # "layout", NEW n \in NodeIds(tree), n # 0, NEW p \in Player,
         IsPlayerNode(tree, tree.parent[n]), tree.actor[tree.parent[n]] # p
  PROVE  ReachBlockOffset(n, p) = ReachBlockOffset(tree.parent[n], p)
<1>1. tree \in Trees /\ Laid = NodeIds(tree) /\ StorageOK
  BY Begun
<1>2. SharesReach(n, p)
  BY <1>1, TreesAssumption DEF SharesReach, IsTree, ExpandedByBoard
<1>3. QED
  BY <1>1, <1>2 DEF StorageOK, SharedOK

\* The two players' values of a node, and the values of two nodes, are apart.
LEMMA ApartValues ==
  ASSUME SweepInv, phase # "layout",
         NEW m \in NodeIds(tree), NEW p \in Player, NEW n \in NodeIds(tree), NEW q \in Player,
         PlayerBlockOffset(m, p) = PlayerBlockOffset(n, q)
  PROVE  m = n /\ p = q
<1>1. tree \in Trees /\ Laid = NodeIds(tree) /\ StorageOK /\ Fits
  BY Begun
<1>2. m = n
  BY <1>1, ValueOffsets
<1>3. tree.hands[n] \in Nat \ {0} /\ layout[n].cfv \in Int
  BY <1>1, TreeFacts DEF StorageOK, StorageTypeOK, HandsOK
<1> DEFINE h == tree.hands[n]
           b == layout[n].cfv
<1>4. h \in Nat \ {0} /\ b \in Int /\ b + p * h = b + q * h
  BY <1>2, <1>3 DEF PlayerBlockOffset
<1> HIDE DEF h, b
<1>5. p \in {0, 1} /\ q \in {0, 1} /\ 0 * h = 0 /\ 1 * h = h
  BY <1>4 DEF Player
<1>6. p = q
  <2>1. CASE p = 0 /\ q = 1
    BY <1>4, <1>5, <2>1
  <2>2. CASE p = 1 /\ q = 0
    BY <1>4, <1>5, <2>2
  <2>3. QED
    BY <1>5, <2>1, <2>2
<1>7. QED
  BY <1>2, <1>6

\* What a step that changes neither the tree nor the pass leaves as it is.
LEMMA SamePass ==
  ASSUME UNCHANGED storageVars, pass' = pass
  PROVE  /\ NodeIds(tree)' = NodeIds(tree) /\ Leaves' = Leaves /\ LastDepth' = LastDepth
         /\ Mode' = Mode /\ Heroes' = Heroes
         /\ \A p : UpdatesBefore(p)' = UpdatesBefore(p)
         /\ \A n, p : /\ ReachBlockOffset(n, p)' = ReachBlockOffset(n, p)
                      /\ PlayerBlockOffset(n, p)' = PlayerBlockOffset(n, p)
                      /\ MovesTo(n, p)' = MovesTo(n, p)
         /\ \A n : /\ LeavesBelow(n)' = LeavesBelow(n)
                   /\ Updates(n)' = Updates(n) /\ Learns(n)' = Learns(n)
         /\ \A leaves, p : ValuesOf(leaves, p)' = ValuesOf(leaves, p)
         /\ \A d : Inner(d)' = Inner(d)
<1>1. UNCHANGED <<tree, layout, sizes, next, status>>
  BY DEF storageVars
<1>2. NodeIds(tree)' = NodeIds(tree)
  BY <1>1
<1>3. PathTo' = PathTo
  BY <1>1, <1>2 DEF PathTo
<1>4. Mode' = Mode /\ Heroes' = Heroes
  BY DEF Mode, Heroes
<1>5. \A p : UpdatesBefore(p)' = UpdatesBefore(p)
  BY DEF UpdatesBefore
<1>6. Leaves' = Leaves /\ LastDepth' = LastDepth /\ \A d : Inner(d)' = Inner(d)
  BY <1>1 DEF Leaves, LastDepth, Inner, Level
<1>7. \A n, p : /\ ReachBlockOffset(n, p)' = ReachBlockOffset(n, p)
                /\ PlayerBlockOffset(n, p)' = PlayerBlockOffset(n, p)
  BY <1>1 DEF ReachBlockOffset, PlayerBlockOffset
<1>8. \A n, p : MovesTo(n, p)' = MovesTo(n, p)
  BY <1>1, <1>3, <1>4, <1>5 DEF MovesTo
<1>9. \A n : LeavesBelow(n)' = LeavesBelow(n)
  BY <1>3, <1>6 DEF LeavesBelow
<1>10. \A n : Updates(n)' = Updates(n) /\ Learns(n)' = Learns(n)
  BY <1>1, <1>4, <1>5 DEF Updates, Learns
<1>11. \A leaves, p : ValuesOf(leaves, p)' = ValuesOf(leaves, p)
  BY <1>8 DEF ValuesOf
<1>12. QED
  BY ONLY <1>2, <1>4, <1>5, <1>6, <1>7, <1>8, <1>9, <1>10, <1>11

LEMMA InitTables == Init => TablesOK
<1> SUFFICES ASSUME Init PROVE TablesOK
  OBVIOUS
<1>1. phase = "layout" /\ pass = 1 /\ todo = {} /\ DOMAIN running = {}
  BY DEF Init
<1>2. QED
  BY <1>1 DEF TablesOK, TasksOK, ForwardOK, ReachesOK, BackwardOK, EndOK, VersionOK, Sweeping

\* What a running task and its next child are.
LEMMA NextChild ==
  ASSUME SweepInv, TablesOK, Sweeping, NEW n \in DOMAIN running, running[n] < tree.count[n]
  PROVE  /\ n \in Inner(depth) /\ n \in NodeIds(tree) /\ tree.depth[n] = depth
         /\ tree.actor[n] \in Player \cup {ChancePlayer}
         /\ Child(n) \in Children(tree, n) /\ Child(n) \in NodeIds(tree) /\ Child(n) # 0
         /\ tree.parent[Child(n)] = n /\ tree.depth[Child(n)] = depth + 1
<1>1. phase # "layout"
  BY DEF Sweeping
<1>2. tree \in Trees /\ n \in Inner(depth)
  BY <1>1, Begun DEF SweepInv, SweepOK
<1>3. n \in NodeIds(tree) /\ tree.depth[n] = depth /\ tree.actor[n] \in Player \cup {ChancePlayer}
  BY <1>2, TreeFacts DEF Inner, Level
<1>4. tree.offset[n] \in Int /\ tree.count[n] \in Nat /\ running[n] \in 0 .. tree.count[n]
  BY <1>2, <1>3, TreeFacts DEF TablesOK, TasksOK
<1>5. Child(n) \in Children(tree, n)
  BY <1>4 DEF Children, Child
<1>6. Child(n) \in NodeIds(tree) /\ tree.parent[Child(n)] = n
  BY <1>2, <1>3, <1>5, TreeFacts
<1>7. Child(n) # 0
  <2>1. tree.parent[0] = NoNode /\ n # NoNode
    BY <1>2, <1>3, TreesAssumption DEF IsTree, WellFormed, ParentsFirst, NodeIds, NoNode
  <2>2. QED
    BY <1>6, <2>1
<1>8. tree.depth[Child(n)] = depth + 1
  BY <1>2, <1>3, <1>6, <1>7, TreeFacts
<1>9. QED
  BY <1>2, <1>3, <1>5, <1>6, <1>7, <1>8

\* What a move writes, and that it writes nothing else a node down to the
\* child's level uses.
LEMMA PropagatedReach ==
  ASSUME SweepInv, TablesOK, NEW m \in NodeIds(tree), PropagateReach(m)
  PROVE  /\ \A p \in Movers(m) :
              reach'[ReachBlockOffset(Child(m), p)] =
                reach[ReachBlockOffset(m, p)] \cup
                  {<<Child(m), IF tree.actor[m] = ChancePlayer THEN 0 ELSE Played(m)>>}
         /\ \A n \in NodeIds(tree), q \in Player :
              tree.depth[n] <= depth + 1 /\ (n # Child(m) \/ q \notin Movers(m)) =>
                reach'[ReachBlockOffset(n, q)] = reach[ReachBlockOffset(n, q)]
<1> DEFINE c == Child(m)
           move == {<<c, IF tree.actor[m] = ChancePlayer THEN 0 ELSE Played(m)>>}
           written == {ReachBlockOffset(c, p) : p \in Movers(m)}
           Source(b) == CHOOSE p \in Movers(m) : ReachBlockOffset(c, p) = b
<1>1. /\ phase = "forward" /\ m \in DOMAIN running /\ running[m] < tree.count[m]
      /\ reach' = [b \in ReachOffsets |->
                     IF b \in written THEN reach[ReachBlockOffset(m, Source(b))] \cup move
                                      ELSE reach[b]]
  BY DEF PropagateReach, ContinueTask
<1>2. /\ c \in NodeIds(tree) /\ c # 0 /\ tree.parent[c] = m /\ tree.depth[c] = depth + 1
      /\ tree.actor[m] \in Player \cup {ChancePlayer}
  BY <1>1, NextChild DEF Sweeping
<1>3. Movers(m) \subseteq Player
  BY <1>2 DEF Movers, Player, ChancePlayer
<1>4. \A p \in Movers(m) : Owns(c, p)
  BY <1>2 DEF Owns, SharesReach, Movers, IsPlayerNode, Player, ChancePlayer
<1>5. \A n \in NodeIds(tree), q \in Player : ReachBlockOffset(n, q) \in ReachOffsets
  BY DEF ReachOffsets
<1> HIDE DEF c, move
<1>6. ASSUME NEW p \in Movers(m)
      PROVE  reach'[ReachBlockOffset(c, p)] = reach[ReachBlockOffset(m, p)] \cup move
  <2>1. \A q \in Movers(m) : ReachBlockOffset(c, q) = ReachBlockOffset(c, p) => q = p
    <3> SUFFICES ASSUME NEW q \in Movers(m), q # p
                 PROVE  ReachBlockOffset(c, q) # ReachBlockOffset(c, p)
      OBVIOUS
    <3>1. tree.depth[c] <= tree.depth[c]
      <4>1. tree.depth[c] \in Nat
        BY <1>1, <1>2, Begun, TreeFacts
      <4>2. QED
        BY <4>1
    <3>2. QED
      BY <1>1, <1>2, <1>3, <1>4, <3>1, FreshBlock
  <2>2. Source(ReachBlockOffset(c, p)) = p
    BY <2>1
  <2>3. QED
    BY <1>1, <1>2, <1>3, <1>5, <2>2
<1>7. ASSUME NEW n \in NodeIds(tree), NEW q \in Player,
             tree.depth[n] <= depth + 1, n # c \/ q \notin Movers(m)
      PROVE  reach'[ReachBlockOffset(n, q)] = reach[ReachBlockOffset(n, q)]
  <2>1. \A p \in Movers(m) : ReachBlockOffset(n, q) # ReachBlockOffset(c, p)
    BY <1>1, <1>2, <1>3, <1>4, <1>7, FreshBlock
  <2>2. ReachBlockOffset(n, q) \notin written
    BY <2>1
  <2>3. QED
    BY <1>1, <1>5, <2>2
<1>8. QED
  BY <1>6, <1>7 DEF c, move

LEMMA PropagateTables ==
  ASSUME SweepInv, TablesOK, NEW m \in NodeIds(tree), PropagateReach(m)
  PROVE  TablesOK'
<1> DEFINE c == Child(m)
<1>1. /\ phase = "forward" /\ m \in DOMAIN running /\ running[m] < tree.count[m]
      /\ running' = [running EXCEPT ![m] = @ + 1]
      /\ UNCHANGED storageVars
      /\ pass' = pass /\ phase' = phase /\ depth' = depth /\ todo' = todo /\ sum' = sum
      /\ version' = version
  BY DEF PropagateReach, ContinueTask
<1>2. /\ m \in Inner(depth) /\ tree.depth[m] = depth
      /\ c \in NodeIds(tree) /\ c # 0 /\ tree.parent[c] = m /\ tree.depth[c] = depth + 1
      /\ tree.actor[m] \in Player \cup {ChancePlayer}
  BY <1>1, NextChild DEF Sweeping
<1>3. tree \in Trees /\ Mode \in Player \cup {Average}
  BY <1>1, Begun
<1>4. /\ DOMAIN running' = DOMAIN running /\ running'[m] = running[m] + 1
      /\ \A n \in DOMAIN running : n # m => running'[n] = running[n]
  BY <1>1
<1>5. \A n : Ended(n)' <=> Ended(n)
  BY <1>1, <1>4 DEF Ended
<1>6. tree.offset[m] \in Int /\ running[m] \in 0 .. tree.count[m] /\ tree.count[m] \in Nat
  BY <1>1, <1>3, TreeFacts DEF TablesOK, TasksOK, Sweeping
<1>7. depth \in Nat /\ \A n \in NodeIds(tree) : tree.depth[n] \in Nat
  <2>1. depth \in 0 .. LastDepth
    BY <1>1 DEF TablesOK, TasksOK, Sweeping
  <2>2. QED
    BY <1>3, <2>1, TreeFacts, DeepestLevel
<1>8. UNCHANGED tree
  BY <1>1 DEF storageVars
<1>9. ASSUME NEW n \in NodeIds(tree), Reached(n)' PROVE Reached(n) \/ n = c
  <2>1. n \in Int
    BY DEF NodeIds
  <2>2. Child(m)' = Child(m) + 1 /\ Child(m) \in Int
    BY <1>4, <1>6, <1>8 DEF Child
  <2>3. \A k \in DOMAIN running : k # m => Child(k)' = Child(k)
    BY <1>4, <1>8 DEF Child
  <2>4. QED
    BY <1>1, <1>4, <1>5, <1>8, <1>9, <2>1, <2>2, <2>3 DEF Reached
<1>10. \A n \in NodeIds(tree) : Reached(n) \/ n = c => tree.depth[n] <= depth + 1
  BY <1>2, <1>7 DEF Reached
<1>11. HasReach(m)
  <2>1. Reached(m)
    BY <1>2, <1>7 DEF Reached
  <2>2. QED
    BY <1>1, <2>1 DEF TablesOK, ForwardOK
<1>12. ASSUME NEW p \in Player
       PROVE  reach'[ReachBlockOffset(c, p)] = MovesTo(c, p)
  <2> DEFINE move == {<<c, IF tree.actor[m] = ChancePlayer THEN 0 ELSE Played(m)>>}
  <2>1. MovesTo(c, p) = MovesTo(m, p) \cup
          (IF tree.actor[m] \in {p, ChancePlayer}
           THEN {<<c, IF tree.actor[m] = ChancePlayer THEN 0
                      ELSE IF Mode = Average THEN ByAverage ELSE UpdatesBefore(p)>>}
           ELSE {})
    BY <1>2, <1>3, MovesOfParent
  <2>2. reach[ReachBlockOffset(m, p)] = MovesTo(m, p)
    BY <1>11 DEF HasReach
  <2>3. CASE p \in Movers(m)
    <3>1. tree.actor[m] = ChancePlayer \/ tree.actor[m] = p
      BY <1>2, <2>3 DEF Movers
    <3>2. tree.actor[m] # ChancePlayer => Played(m) = IF Mode = Average THEN ByAverage ELSE UpdatesBefore(p)
      <4> SUFFICES ASSUME tree.actor[m] # ChancePlayer
                   PROVE  version[m] = UpdatesBefore(p)
        BY DEF Played
      <4>1. tree.actor[m] \in Player /\ tree.actor[m] = p
        BY <1>2, <3>1
      <4>2. version[m] = Updates(m)
        BY <1>1, <4>1 DEF TablesOK, VersionOK
      <4>3. QED
        BY <4>1, <4>2 DEF Updates
    <3>3. reach'[ReachBlockOffset(c, p)] = reach[ReachBlockOffset(m, p)] \cup move
      BY <2>3, PropagatedReach
    <3>4. QED
      BY <2>1, <2>2, <3>1, <3>2, <3>3
  <2>4. CASE p \notin Movers(m)
    <3>1. tree.actor[m] \in Player /\ tree.actor[m] # p /\ tree.actor[m] # ChancePlayer
      BY <1>2, <2>4 DEF Movers, Player, ChancePlayer
    <3>2. ReachBlockOffset(c, p) = ReachBlockOffset(m, p)
      BY <1>1, <1>2, <3>1, KeptBlock DEF IsPlayerNode
    <3>3. reach'[ReachBlockOffset(m, p)] = reach[ReachBlockOffset(m, p)]
      <4>1. tree.depth[m] <= depth + 1
        BY <1>2, <1>7
      <4>2. QED
        BY <2>4, <4>1, PropagatedReach
    <3>4. QED
      BY <2>1, <2>2, <3>1, <3>2, <3>3
  <2>5. QED
    BY <2>3, <2>4
<1>13. ASSUME NEW n \in NodeIds(tree), Reached(n)', NEW p \in Player
       PROVE  reach'[ReachBlockOffset(n, p)] = MovesTo(n, p)
  <2>1. CASE n = c
    BY <1>12, <2>1
  <2>2. CASE n # c
    <3>1. Reached(n) /\ tree.depth[n] <= depth + 1
      BY <1>9, <1>10, <1>13, <2>2
    <3>2. reach[ReachBlockOffset(n, p)] = MovesTo(n, p)
      BY <1>1, <3>1 DEF TablesOK, ForwardOK, HasReach
    <3>3. QED
      BY <2>2, <3>1, <3>2, PropagatedReach
  <2>3. QED
    BY <2>1, <2>2
<1>14. ForwardOK'
  <2>1. \A n \in NodeIds(tree) : Reached(n)' => HasReach(n)'
    BY <1>1, <1>13, SamePass DEF HasReach
  <2>2. \A n \in NodeIds(tree) : Averaged(n)' <=> Averaged(n)
    BY <1>1, <1>8, SamePass DEF Averaged
  <2>3. QED
    BY <1>1, <1>5, <1>8, <2>1, <2>2, SamePass DEF TablesOK, ForwardOK
<1>15. TasksOK'
  <2>1. \A n \in DOMAIN running' : running'[n] \in 0 .. tree.count[n]
    BY <1>1, <1>4, <1>6 DEF TablesOK, TasksOK, Sweeping
  <2>2. QED
    BY <1>1, <1>4, <1>8, <2>1, SamePass DEF TablesOK, TasksOK, Sweeping
<1>16. VersionOK'
  BY <1>1, <1>8, SamePass DEF TablesOK, VersionOK
<1>17. QED
  BY <1>1, <1>14, <1>15, <1>16 DEF TablesOK, ReachesOK, BackwardOK, EndOK

\* What every step of a task leaves as it is.
LEMMA TaskFrame ==
  ASSUME SweepInv, NEW n \in NodeIds(tree), Task(n)
  PROVE  /\ UNCHANGED storageVars /\ UNCHANGED tree /\ pass' = pass /\ phase' = phase
         /\ depth' = depth /\ phase # "layout" /\ Sweeping
         /\ tree \in Trees /\ Mode \in Player \cup {Average} /\ Heroes \subseteq Player
<1>1. UNCHANGED <<storageVars, pass, phase, depth>> /\ Sweeping
  BY DEF Task, BeginTask, PropagateReach, EndForward, AddChildValues, EndBackward,
         ContinueTask, EndTask, Sweeping
<1>2. phase # "layout"
  BY <1>1 DEF Sweeping
<1>3. QED
  BY <1>1, <1>2, Begun DEF storageVars

\* Where the tables keep the values of a node's heroes, and what a hero is.
LEMMA OwnValues ==
  ASSUME SweepInv, phase # "layout", NEW n \in NodeIds(tree), NEW p \in Heroes,
         NEW b, b = PlayerBlockOffset(n, p)
  PROVE  /\ b \in CfvOffsets /\ b \in BackwardCfvs(n)
         /\ \A m \in NodeIds(tree) : b \in BackwardCfvs(m) => m = n
         /\ \A q \in Heroes : PlayerBlockOffset(n, q) = b => q = p
<1>1. Heroes \subseteq Player
  BY Begun
<1>2. QED
  BY <1>1, ApartValues DEF CfvOffsets, BackwardCfvs

LEMMA BeginTables ==
  ASSUME SweepInv, TablesOK, NEW m \in NodeIds(tree), BeginTask(m)
  PROVE  TablesOK'
<1>1. /\ Sweeping /\ m \in todo /\ todo' = todo \ {m}
      /\ running' = [n \in DOMAIN running \cup {m} |-> IF n = m THEN 0 ELSE running[n]]
      /\ cfv' = [b \in CfvOffsets |-> IF phase = "backward" /\ b \in BackwardCfvs(m) THEN {} ELSE cfv[b]]
      /\ UNCHANGED <<reach, sum, version>>
  BY DEF BeginTask
<1>2. /\ UNCHANGED storageVars /\ UNCHANGED tree /\ pass' = pass /\ phase' = phase
      /\ depth' = depth /\ phase # "layout"
      /\ tree \in Trees /\ Mode \in Player \cup {Average} /\ Heroes \subseteq Player
  BY TaskFrame DEF Task
<1>3. /\ DOMAIN running' = DOMAIN running \cup {m} /\ running'[m] = 0 /\ m \notin DOMAIN running
      /\ \A n \in DOMAIN running : running'[n] = running[n]
  BY <1>1 DEF TablesOK, TasksOK
<1>4. \A n : Ended(n)' <=> Ended(n)
  BY <1>1, <1>3 DEF Ended
<1>5. m \in Inner(depth) /\ tree.depth[m] = depth /\ tree.offset[m] \in Int /\ tree.count[m] \in Nat
  BY <1>1, <1>2, TreeFacts DEF SweepInv, SweepOK, Inner, Level
<1>6. TasksOK'
  <2>1. \A n \in DOMAIN running' : running'[n] \in 0 .. tree.count[n]
    BY <1>1, <1>3, <1>5 DEF TablesOK, TasksOK
  <2>2. QED
    BY <1>1, <1>2, <1>3, <2>1, SamePass DEF TablesOK, TasksOK, Sweeping
<1>7. Child(m)' = tree.offset[m]
  BY <1>2, <1>3, <1>5 DEF Child
<1>8. ASSUME NEW n \in NodeIds(tree), Reached(n)' PROVE Reached(n)
  <2>1. \A k \in DOMAIN running : Child(k)' = Child(k)
    BY <1>2, <1>3 DEF Child
  <2>2. CASE tree.parent[n] = m /\ tree.depth[n] = depth + 1
    <3>1. n \in Children(tree, m)
      BY <1>2, <2>2, TreeFacts
    <3>2. n >= tree.offset[m]
      BY <1>5, <3>1 DEF Children
    <3>3. n \in Int
      BY DEF NodeIds
    <3>4. ~(n < tree.offset[m])
      BY <1>5, <3>2, <3>3
    <3>5. QED
      BY <1>2, <1>3, <1>4, <1>7, <1>8, <2>2, <3>4 DEF Reached
  <2>3. CASE ~(tree.parent[n] = m /\ tree.depth[n] = depth + 1)
    BY <1>2, <1>3, <1>4, <1>8, <2>1, <2>3 DEF Reached
  <2>4. QED
    BY <2>2, <2>3
<1>9. \A n \in NodeIds(tree) : (HasReach(n)' <=> HasReach(n)) /\ (Averaged(n)' <=> Averaged(n))
  BY <1>1, <1>2, SamePass DEF HasReach, Averaged
<1>10. ForwardOK'
  BY <1>2, <1>4, <1>8, <1>9, SamePass DEF TablesOK, ForwardOK
<1>11. ReachesOK'
  BY <1>2, <1>9, SamePass DEF TablesOK, ReachesOK
<1>12. \A n : Valued(n)' <=> Valued(n)
  BY <1>2, <1>4 DEF Valued
<1>13. VersionOK'
  BY <1>1, <1>2, <1>12, SamePass DEF TablesOK, VersionOK
<1>14. EndOK'
  BY <1>1, <1>2 DEF EndOK, Sweeping
<1>15. BackwardOK'
  <2> SUFFICES ASSUME phase = "backward", NEW n \in NodeIds(tree), NEW p \in Heroes
               PROVE  /\ n \in Leaves \/ Valued(n) =>
                           cfv'[PlayerBlockOffset(n, p)] = ValuesOf(LeavesBelow(n), p)
                      /\ n \in DOMAIN running' =>
                           cfv'[PlayerBlockOffset(n, p)] = ValuesOf(AddedBelow(n)', p)
    BY <1>2, <1>12, SamePass DEF BackwardOK
  <2>1. CASE n = m
    <3>1. n \notin Leaves /\ ~Valued(n)
      <4>1. depth \in Nat
        BY <1>2, <1>5, TreeFacts
      <4>2. QED
        BY <1>1, <1>5, <2>1, <4>1 DEF Inner, Level, Leaves, Valued, Ended
    <3>2. AddedBelow(n)' = {}
      <4>1. tree'.offset[m] .. Child(m)' - 1 = {}
        BY <1>2, <1>5, <1>7
      <4>2. QED
        BY <2>1, <4>1 DEF AddedBelow
    <3>3. cfv'[PlayerBlockOffset(n, p)] = {}
      BY <1>1, <1>2, <2>1, OwnValues
    <3>4. QED
      BY <3>1, <3>2, <3>3 DEF ValuesOf
  <2>2. CASE n # m
    <3>1. cfv'[PlayerBlockOffset(n, p)] = cfv[PlayerBlockOffset(n, p)]
      BY <1>1, <1>2, <2>2, OwnValues
    <3>2. n \in DOMAIN running => AddedBelow(n)' = AddedBelow(n)
      <4>1. n \in DOMAIN running => Child(n)' = Child(n)
        BY <1>2, <1>3 DEF Child
      <4>2. QED
        BY <1>2, <4>1, SamePass DEF AddedBelow
    <3>3. QED
      BY <1>3, <2>2, <3>1, <3>2 DEF TablesOK, BackwardOK
  <2>3. QED
    BY <2>1, <2>2
<1>16. QED
  BY <1>6, <1>10, <1>11, <1>13, <1>14, <1>15 DEF TablesOK

LEMMA AddTables ==
  ASSUME SweepInv, TablesOK, NEW m \in NodeIds(tree), AddChildValues(m)
  PROVE  TablesOK'
<1> DEFINE Hero(b) == CHOOSE p \in Heroes : PlayerBlockOffset(m, p) = b
<1>1. /\ phase = "backward" /\ m \in DOMAIN running /\ running[m] < tree.count[m]
      /\ running' = [running EXCEPT ![m] = @ + 1]
      /\ todo' = todo /\ UNCHANGED <<reach, sum, version>>
      /\ cfv' = [b \in CfvOffsets |->
                   IF b \in BackwardCfvs(m) THEN cfv[b] \cup cfv[PlayerBlockOffset(Child(m), Hero(b))]
                                            ELSE cfv[b]]
  BY DEF AddChildValues, ContinueTask
<1>2. /\ UNCHANGED storageVars /\ UNCHANGED tree /\ pass' = pass /\ phase' = phase
      /\ depth' = depth /\ phase # "layout"
      /\ tree \in Trees /\ Mode \in Player \cup {Average} /\ Heroes \subseteq Player
  BY TaskFrame DEF Task
<1>3. /\ DOMAIN running' = DOMAIN running /\ running'[m] = running[m] + 1
      /\ \A n \in DOMAIN running : n # m => running'[n] = running[n]
  BY <1>1
<1>4. \A n : (Ended(n)' <=> Ended(n)) /\ (Valued(n)' <=> Valued(n))
  BY <1>1, <1>2, <1>3 DEF Ended, Valued
<1>5. /\ m \in Inner(depth) /\ tree.depth[m] = depth
      /\ Child(m) \in NodeIds(tree) /\ tree.depth[Child(m)] = depth + 1
      /\ tree.offset[m] \in Int /\ running[m] \in 0 .. tree.count[m] /\ tree.count[m] \in Nat
      /\ depth \in Nat
  BY <1>1, <1>2, NextChild, TreeFacts DEF TablesOK, TasksOK, Sweeping
<1>6. TasksOK'
  <2>1. \A n \in DOMAIN running' : running'[n] \in 0 .. tree.count[n]
    BY <1>1, <1>3, <1>5 DEF TablesOK, TasksOK, Sweeping
  <2>2. QED
    BY <1>1, <1>2, <1>3, <2>1, SamePass DEF TablesOK, TasksOK, Sweeping
<1>7. \A n \in NodeIds(tree) : (HasReach(n)' <=> HasReach(n)) /\ (Averaged(n)' <=> Averaged(n))
  BY <1>1, <1>2, SamePass DEF HasReach, Averaged
<1>8. ForwardOK' /\ EndOK'
  BY <1>1, <1>2 DEF ForwardOK, EndOK
<1>9. ReachesOK'
  BY <1>2, <1>7, SamePass DEF TablesOK, ReachesOK
<1>10. VersionOK'
  BY <1>1, <1>2, <1>4, SamePass DEF TablesOK, VersionOK
<1>11. BackwardOK'
  <2> SUFFICES ASSUME NEW n \in NodeIds(tree), NEW p \in Heroes
               PROVE  /\ n \in Leaves \/ Valued(n) =>
                           cfv'[PlayerBlockOffset(n, p)] = ValuesOf(LeavesBelow(n), p)
                      /\ n \in DOMAIN running' =>
                           cfv'[PlayerBlockOffset(n, p)] = ValuesOf(AddedBelow(n)', p)
    BY <1>2, <1>4, SamePass DEF BackwardOK
  <2>1. CASE n = m
    <3>1. n \notin Leaves /\ ~Valued(n)
      BY <1>1, <1>5, <2>1 DEF Inner, Level, Leaves, Valued, Ended
    <3>2. AddedBelow(m)' = AddedBelow(m) \cup LeavesBelow(Child(m))
      <4>1. Child(m) \in Int /\ Child(m)' = Child(m) + 1 /\ Child(m) >= tree.offset[m]
        BY <1>2, <1>3, <1>5 DEF Child
      <4>2. tree'.offset[m] .. Child(m)' - 1 = (tree.offset[m] .. Child(m) - 1) \cup {Child(m)}
        BY <1>2, <1>5, <4>1
      <4>3. QED
        BY <1>2, <4>2, SamePass DEF AddedBelow
    <3>3. cfv'[PlayerBlockOffset(m, p)]
            = cfv[PlayerBlockOffset(m, p)] \cup cfv[PlayerBlockOffset(Child(m), p)]
      <4> DEFINE b == PlayerBlockOffset(m, p)
      <4>1. b \in CfvOffsets /\ b \in BackwardCfvs(m) /\ Hero(b) = p
        <5>1. \A q \in Heroes : PlayerBlockOffset(m, q) = b => q = p
          BY <1>2, OwnValues
        <5>2. QED
          BY <1>2, <5>1, OwnValues
      <4> HIDE DEF b, Hero
      <4>2. cfv'[b] = cfv[b] \cup cfv[PlayerBlockOffset(Child(m), Hero(b))]
        BY <1>1, <4>1
      <4>3. QED
        BY <4>1, <4>2 DEF b
    <3>4. cfv[PlayerBlockOffset(Child(m), p)] = ValuesOf(LeavesBelow(Child(m)), p)
      BY <1>1, <1>5 DEF TablesOK, BackwardOK, Valued
    <3>5. cfv[PlayerBlockOffset(m, p)] = ValuesOf(AddedBelow(m), p)
      BY <1>1 DEF TablesOK, BackwardOK
    <3>6. ValuesOf(AddedBelow(m) \cup LeavesBelow(Child(m)), p)
            = ValuesOf(AddedBelow(m), p) \cup ValuesOf(LeavesBelow(Child(m)), p)
      BY DEF ValuesOf
    <3>7. QED
      BY <2>1, <3>1, <3>2, <3>3, <3>4, <3>5, <3>6
  <2>2. CASE n # m
    <3>1. cfv'[PlayerBlockOffset(n, p)] = cfv[PlayerBlockOffset(n, p)]
      <4> DEFINE b == PlayerBlockOffset(n, p)
      <4>1. b \in CfvOffsets /\ b \notin BackwardCfvs(m)
        BY <1>2, <2>2, OwnValues
      <4> HIDE DEF b, Hero
      <4>2. cfv'[b] = cfv[b]
        BY <1>1, <4>1
      <4>3. QED
        BY <4>2 DEF b
    <3>2. n \in DOMAIN running => AddedBelow(n)' = AddedBelow(n)
      <4>1. n \in DOMAIN running => Child(n)' = Child(n)
        BY <1>2, <1>3, <2>2 DEF Child
      <4>2. QED
        BY <1>2, <4>1, SamePass DEF AddedBelow
    <3>3. QED
      BY <1>1, <1>3, <2>2, <3>1, <3>2 DEF TablesOK, BackwardOK
  <2>3. QED
    BY <2>1, <2>2
<1>12. QED
  BY <1>6, <1>8, <1>9, <1>10, <1>11 DEF TablesOK

\* The end of a task, down or up: who is done and what it reached.
LEMMA EndFacts ==
  ASSUME SweepInv, TablesOK, NEW m \in NodeIds(tree), EndTask(m), Task(m)
  PROVE  /\ m \in DOMAIN running /\ m \notin todo /\ m \in Inner(depth) /\ tree.depth[m] = depth
         /\ DOMAIN running' = DOMAIN running \ {m}
         /\ \A n \in DOMAIN running' : running'[n] = running[n]
         /\ \A n \in NodeIds(tree) : Ended(n)' <=> Ended(n) \/ n = m
         /\ tree.offset[m] .. Child(m) - 1 = Children(tree, m)
         /\ TasksOK'
<1>1. /\ m \in DOMAIN running /\ running[m] = tree.count[m] /\ todo' = todo
      /\ running' = [n \in DOMAIN running \ {m} |-> running[n]]
  BY DEF EndTask
<1>2. /\ UNCHANGED storageVars /\ UNCHANGED tree /\ pass' = pass /\ phase' = phase
      /\ depth' = depth /\ phase # "layout" /\ Sweeping
  BY TaskFrame
<1>3. m \notin todo /\ m \in Inner(depth) /\ tree.depth[m] = depth
  BY <1>1, <1>2 DEF SweepInv, SweepOK, TablesOK, TasksOK, Inner, Level
<1>4. /\ DOMAIN running' = DOMAIN running \ {m}
      /\ \A n \in DOMAIN running' : running'[n] = running[n]
  BY <1>1
<1>5. \A n \in NodeIds(tree) : Ended(n)' <=> Ended(n) \/ n = m
  BY <1>1, <1>3, <1>4 DEF Ended
<1>6. tree.offset[m] .. Child(m) - 1 = Children(tree, m)
  <2>1. Child(m) = tree.offset[m] + tree.count[m]
    BY <1>1 DEF Child
  <2>2. tree.offset[m] \in Int /\ tree.count[m] \in Int
    BY <1>2, Begun, TreeFacts
  <2>3. QED
    BY <2>1, <2>2 DEF Children
<1>7. TasksOK'
  BY <1>1, <1>2, <1>4, SamePass DEF TablesOK, TasksOK, Sweeping
<1>8. QED
  BY <1>1, <1>3, <1>4, <1>5, <1>6, <1>7

LEMMA EndForwardTables ==
  ASSUME SweepInv, TablesOK, NEW m \in NodeIds(tree), EndForward(m)
  PROVE  TablesOK'
<1>1. /\ phase = "forward" /\ EndTask(m) /\ UNCHANGED <<reach, version>>
      /\ sum' = IF tree.actor[m] = Mode
                THEN [sum EXCEPT ![m] = @ \cup {<<version[m], reach[ReachBlockOffset(m, Mode)]>>}]
                ELSE sum
  BY DEF EndForward, EndTask
<1>2. /\ UNCHANGED storageVars /\ UNCHANGED tree /\ pass' = pass /\ phase' = phase
      /\ depth' = depth /\ phase # "layout"
      /\ tree \in Trees /\ Mode \in Player \cup {Average}
  BY TaskFrame DEF Task
<1>3. /\ m \in DOMAIN running /\ m \notin todo /\ m \in Inner(depth) /\ tree.depth[m] = depth
      /\ DOMAIN running' = DOMAIN running \ {m}
      /\ \A n \in DOMAIN running' : running'[n] = running[n]
      /\ \A n \in NodeIds(tree) : Ended(n)' <=> Ended(n) \/ n = m
      /\ tree.offset[m] .. Child(m) - 1 = Children(tree, m)
      /\ TasksOK'
  BY <1>1, EndFacts DEF Task
<1>4. depth \in Nat /\ DOMAIN sum = NodeIds(tree)
  BY <1>2, <1>3, TreeFacts DEF TablesOK, VersionOK
<1>5. ASSUME NEW n \in NodeIds(tree), Reached(n)' PROVE Reached(n)
  <2>1. \A k \in DOMAIN running' : Child(k)' = Child(k)
    BY <1>2, <1>3 DEF Child
  <2>2. CASE tree.parent[n] = m /\ tree.depth[n] = depth + 1
    <3>1. n # 0
      <4>1. m # NoNode /\ tree.parent[0] = NoNode
        BY <1>2, TreesAssumption DEF NodeIds, NoNode, IsTree, WellFormed, ParentsFirst
      <4>2. QED
        BY <2>2, <4>1
    <3>2. n \in tree.offset[m] .. Child(m) - 1
      BY <1>2, <1>3, <2>2, TreeFacts
    <3>3. n < Child(m)
      <4>1. tree.offset[m] \in Int /\ Child(m) \in Int
        <5>1. running[m] = tree.count[m]
          BY <1>1 DEF EndTask
        <5>2. QED
          BY <1>2, <5>1, TreeFacts DEF Child
      <4>2. QED
        BY <3>2, <4>1
    <3>4. QED
      BY <1>3, <2>2, <3>3 DEF Reached
  <2>3. CASE ~(tree.parent[n] = m /\ tree.depth[n] = depth + 1)
    <3>1. CASE tree.depth[n] <= depth
      BY <3>1 DEF Reached
    <3>2. CASE tree.depth[n] = depth + 1 /\ tree.parent[n] # m
      <4>1. n # 0 /\ tree.parent[n] \in NodeIds(tree)
        <5>1. n # 0
          BY <1>2, <1>4, <3>2, TreesAssumption DEF IsTree, WellFormed, ParentsFirst
        <5>2. QED
          BY <1>2, <5>1, TreeFacts DEF NodeIds
      <4>2. QED
        BY <1>2, <1>3, <1>5, <2>1, <3>2, <4>1 DEF Reached
    <3>3. QED
      BY <1>2, <1>5, <2>3, <3>1, <3>2 DEF Reached
  <2>4. QED
    BY <2>2, <2>3
<1>6. \A n \in NodeIds(tree) : HasReach(n)' <=> HasReach(n)
  BY <1>1, <1>2, SamePass DEF HasReach
<1>7. \A n \in NodeIds(tree) : Averaged(n) => Averaged(n)'
  <2>1. \A n \in NodeIds(tree) : sum[n] \subseteq sum'[n]
    BY <1>1, <1>4
  <2>2. QED
    BY <1>2, <2>1, SamePass DEF Averaged
<1>8. Averaged(m)'
  <2> SUFFICES ASSUME tree.actor[m] \in Player, tree.actor[m] = Mode
               PROVE  <<UpdatesBefore(Mode), MovesTo(m, Mode)>> \in sum'[m]
    BY <1>2, SamePass DEF Averaged
  <2>1. version[m] = UpdatesBefore(Mode)
    BY <1>1 DEF TablesOK, VersionOK, Updates
  <2>2. reach[ReachBlockOffset(m, Mode)] = MovesTo(m, Mode)
    <3>1. Reached(m)
      BY <1>3, <1>4 DEF Reached
    <3>2. QED
      BY <1>1, <3>1 DEF TablesOK, ForwardOK, HasReach
  <2>3. QED
    BY <1>1, <1>4, <2>1, <2>2
<1>9. ForwardOK'
  BY <1>1, <1>2, <1>3, <1>5, <1>6, <1>7, <1>8, SamePass DEF TablesOK, ForwardOK
<1>10. VersionOK'
  <2>1. DOMAIN sum' = NodeIds(tree)
    BY <1>1, <1>4
  <2>2. QED
    BY <1>1, <1>2, <2>1, SamePass DEF TablesOK, VersionOK
<1>11. QED
  BY <1>1, <1>2, <1>3, <1>9, <1>10 DEF TablesOK, ReachesOK, BackwardOK, EndOK

LEMMA EndBackwardTables ==
  ASSUME SweepInv, TablesOK, NEW m \in NodeIds(tree), EndBackward(m)
  PROVE  TablesOK'
<1>1. /\ phase = "backward" /\ EndTask(m) /\ UNCHANGED <<reach, cfv, sum>>
      /\ version' = IF tree.actor[m] = Mode THEN [version EXCEPT ![m] = @ + 1] ELSE version
  BY DEF EndBackward, EndTask
<1>2. /\ UNCHANGED storageVars /\ UNCHANGED tree /\ pass' = pass /\ phase' = phase
      /\ depth' = depth /\ phase # "layout"
      /\ tree \in Trees /\ Mode \in Player \cup {Average} /\ Heroes \subseteq Player
  BY TaskFrame DEF Task
<1>3. /\ m \in DOMAIN running /\ m \notin todo /\ m \in Inner(depth) /\ tree.depth[m] = depth
      /\ DOMAIN running' = DOMAIN running \ {m}
      /\ \A n \in DOMAIN running' : running'[n] = running[n]
      /\ \A n \in NodeIds(tree) : Ended(n)' <=> Ended(n) \/ n = m
      /\ tree.offset[m] .. Child(m) - 1 = Children(tree, m)
      /\ TasksOK'
  BY <1>1, EndFacts DEF Task
<1>4. depth \in Nat /\ m \notin Leaves
  BY <1>2, <1>3, TreeFacts DEF Inner, Level, Leaves
<1>5. \A n \in NodeIds(tree) : Valued(n)' <=> Valued(n) \/ n = m
  BY <1>2, <1>3 DEF Valued
<1>6. ~Valued(m)
  BY <1>3, <1>4 DEF Valued, Ended
<1>7. \A n \in NodeIds(tree) : (HasReach(n)' <=> HasReach(n)) /\ (Averaged(n)' <=> Averaged(n))
  BY <1>1, <1>2, SamePass DEF HasReach, Averaged
<1>8. ReachesOK'
  BY <1>2, <1>7, SamePass DEF TablesOK, ReachesOK
<1>9. LeavesBelow(m) = AddedBelow(m)
  BY <1>2, <1>3, <1>4, LeavesOfChildren DEF LeavesBelow, AddedBelow
<1>10. BackwardOK'
  <2> SUFFICES ASSUME NEW n \in NodeIds(tree), NEW p \in Heroes
               PROVE  /\ n \in Leaves \/ Valued(n)' =>
                           cfv[PlayerBlockOffset(n, p)] = ValuesOf(LeavesBelow(n), p)
                      /\ n \in DOMAIN running' =>
                           cfv[PlayerBlockOffset(n, p)] = ValuesOf(AddedBelow(n)', p)
    BY <1>1, <1>2, SamePass DEF BackwardOK
  <2>1. n \in DOMAIN running' => AddedBelow(n)' = AddedBelow(n)
    <3>1. n \in DOMAIN running' => Child(n)' = Child(n)
      BY <1>2, <1>3 DEF Child
    <3>2. QED
      BY <1>2, <3>1, SamePass DEF AddedBelow
  <2>2. QED
    BY <1>1, <1>3, <1>5, <1>9, <2>1 DEF TablesOK, BackwardOK
<1>11. VersionOK'
  <2>1. /\ DOMAIN sum = NodeIds(tree) /\ version \in [NodeIds(tree) -> Nat]
        /\ \A n \in NodeIds(tree) : tree.actor[n] \in Player =>
             version[n] = IF Valued(n) THEN Updates(n) + Learns(n) ELSE Updates(n)
    BY <1>1, <1>2 DEF TablesOK, VersionOK
  <2>2. version' \in [NodeIds(tree) -> Nat]
    BY <1>1, <2>1
  <2>3. ASSUME NEW n \in NodeIds(tree), tree.actor[n] \in Player
        PROVE  version'[n] = IF Valued(n) \/ n = m THEN Updates(n) + Learns(n) ELSE Updates(n)
    <3>1. Updates(n) \in Nat
      BY UpdatesType DEF Updates, SweepInv, SweepOK
    <3>2. CASE n = m
      BY <1>1, <1>6, <2>1, <2>3, <3>1, <3>2 DEF Learns
    <3>3. CASE n # m
      BY <1>1, <2>1, <2>3, <3>3
    <3>4. QED
      BY <3>2, <3>3
  <2>4. QED
    BY <1>1, <1>2, <1>5, <2>1, <2>2, <2>3, SamePass DEF VersionOK
<1>12. QED
  BY <1>1, <1>2, <1>3, <1>8, <1>10, <1>11 DEF TablesOK, ForwardOK, EndOK

\* A finished level: nothing of it is left.
LEMMA LevelEnded ==
  ASSUME LevelDone
  PROVE  \A n : Ended(n)
  BY DEF LevelDone, Ended

LEMMA BeginPassesTables ==
  ASSUME SweepInv, TablesOK, BeginPasses
  PROVE  TablesOK'
<1>1. /\ phase = "layout" /\ phase' = "root"
      /\ sum' = [n \in NodeIds(tree) |-> {}] /\ version' = [n \in NodeIds(tree) |-> 0]
      /\ UNCHANGED <<storageVars, pass, depth, todo, running>>
  BY DEF BeginPasses
<1>2. UNCHANGED tree /\ pass = 1
  BY <1>1 DEF storageVars, TablesOK, TasksOK
<1>3. \A p : UpdatesBefore(p) = 0
  BY <1>2, FS_EmptySet DEF UpdatesBefore
<1>4. VersionOK'
  <2>1. DOMAIN sum' = NodeIds(tree) /\ version' \in [NodeIds(tree) -> Nat]
    BY <1>1
  <2>2. \A n \in NodeIds(tree) : version'[n] = Updates(n)
    BY <1>1, <1>3 DEF Updates
  <2>3. QED
    BY <1>1, <1>2, <2>1, <2>2, SamePass DEF VersionOK
<1>5. TasksOK'
  BY <1>1 DEF TablesOK, TasksOK, Sweeping
<1>6. QED
  BY <1>1, <1>4, <1>5 DEF TablesOK, ForwardOK, ReachesOK, BackwardOK, EndOK

LEMMA RootTables ==
  ASSUME SweepInv, TablesOK, InitializeRootReach
  PROVE  TablesOK'
<1>1. /\ phase = "root" /\ phase' = "forward" /\ depth' = 0 /\ todo' = Inner(0)
      /\ UNCHANGED <<storageVars, pass, running, cfv, sum, version>>
      /\ reach' = [b \in ReachOffsets |-> IF b \in DOMAIN RootReach THEN RootReach[b] ELSE reach[b]]
  BY DEF InitializeRootReach
<1>2. UNCHANGED tree /\ tree \in Trees /\ tree.size \in Nat \ {0} /\ Mode \in Player \cup {Average}
  BY <1>1, Begun, TreesAssumption DEF storageVars, IsTree
<1>3. 0 \in NodeIds(tree) /\ tree.depth[0] = 0
  BY <1>2, TreesAssumption DEF IsTree, WellFormed, ParentsFirst, NodeIds
<1>4. DOMAIN running' = {} /\ DOMAIN running = {}
  BY <1>1 DEF SweepInv, SweepOK, Sweeping
<1>5. \A n \in NodeIds(tree) : tree.depth[n] \in Nat
  BY <1>2, TreeFacts
<1>6. ASSUME NEW n \in NodeIds(tree), n # 0
      PROVE  tree.depth[n] >= 1 /\ tree.parent[n] \in NodeIds(tree)
  BY <1>2, <1>5, <1>6, TreeFacts DEF NodeIds
<1>7. ASSUME NEW n \in NodeIds(tree), Reached(n)' PROVE n = 0
  <2> SUFFICES ASSUME n # 0 PROVE FALSE
    OBVIOUS
  <2>1. tree.depth[n] = 1 /\ Ended(tree.parent[n])'
    BY <1>1, <1>2, <1>4, <1>5, <1>6, <1>7 DEF Reached
  <2>2. tree.parent[n] \in NodeIds(tree) /\ tree.depth[tree.parent[n]] = 0
    <3>1. tree.parent[n] \in NodeIds(tree) /\ tree.depth[n] = tree.depth[tree.parent[n]] + 1
      BY <1>2, <1>6, TreeFacts
    <3>2. QED
      BY <1>5, <2>1, <3>1
  <2>3. tree.parent[n] \notin Inner(0)
    BY <1>1, <1>2, <2>1 DEF Ended
  <2>4. tree.parent[n] \in Leaves
    BY <2>2, <2>3 DEF Inner, Level, Leaves
  <2>5. tree.count[tree.parent[n]] = 0 /\ tree.offset[tree.parent[n]] \in Int
    BY <1>2, <2>2, <2>4, TreesAssumption, TreeFacts DEF IsTree, ExpandedByBoard, Leaves
  <2>6. n \in Children(tree, tree.parent[n])
    BY <1>2, <2>2, TreeFacts
  <2>7. QED
    BY <2>5, <2>6 DEF Children
<1>8. \A p \in Player : reach'[ReachBlockOffset(0, p)] = MovesTo(0, p)
  <2> TAKE p \in Player
  <2>1. ReachBlockOffset(0, p) \in ReachOffsets
    BY <1>3 DEF ReachOffsets
  <2>2. ReachBlockOffset(0, p) \in DOMAIN RootReach /\ RootReach[ReachBlockOffset(0, p)] = {}
    BY DEF RootReach
  <2>3. MovesTo(0, p) = {}
    BY <1>2, <1>3, MovesOfParent
  <2> HIDE DEF RootReach
  <2>4. QED
    BY <1>1, <2>1, <2>2, <2>3
<1>9. \A n \in NodeIds(tree) : Reached(n)' => HasReach(n)'
  BY <1>1, <1>7, <1>8, SamePass DEF HasReach
<1>10. \A n \in NodeIds(tree) :
         tree.depth[n] < 0 \/ (tree.depth[n] = 0 /\ Ended(n)') => Averaged(n)'
  <2> SUFFICES ASSUME NEW n \in NodeIds(tree), tree.depth[n] = 0, Ended(n)' PROVE Averaged(n)'
    BY <1>5
  <2>1. n \notin Inner(0)
    BY <1>1 DEF Ended
  <2>2. tree.actor[n] = TerminalPlayer
    BY <2>1 DEF Inner, Level
  <2>3. QED
    BY <1>2, <2>2 DEF Averaged, Player, TerminalPlayer
<1>11. ForwardOK'
  BY <1>1, <1>2, <1>9, <1>10, SamePass DEF ForwardOK
<1>12. TasksOK'
  <2>1. 0 \in 0 .. LastDepth
    BY <1>2, DeepestLevel
  <2>2. QED
    BY <1>1, <1>2, <1>4, <2>1, SamePass DEF TasksOK, Sweeping
<1>13. VersionOK'
  BY <1>1, <1>2, SamePass DEF TablesOK, VersionOK
<1>14. QED
  BY <1>1, <1>11, <1>12, <1>13 DEF TablesOK, ReachesOK, BackwardOK, EndOK

LEMMA DownTables ==
  ASSUME SweepInv, TablesOK, DownOneLevel
  PROVE  TablesOK'
<1>1. /\ phase = "forward" /\ LevelDone
      /\ UNCHANGED <<storageVars, pass, running, reach, cfv, sum, version>>
      /\ IF depth < LastDepth
         THEN depth' = depth + 1 /\ todo' = Inner(depth + 1) /\ phase' = phase
         ELSE phase' = "terminal" /\ depth' = depth /\ todo' = todo
  BY DEF DownOneLevel
<1>2. UNCHANGED tree /\ tree \in Trees /\ Mode \in Player \cup {Average}
  BY <1>1, Begun DEF storageVars
<1>3. \A n : Ended(n)
  BY <1>1, LevelEnded
<1>4. DOMAIN running = {} /\ DOMAIN running' = {}
  BY <1>1 DEF LevelDone
<1>5. depth \in 0 .. LastDepth /\ LastDepth \in Nat /\ \A n \in NodeIds(tree) : tree.depth[n] \in 0 .. LastDepth
  BY <1>1, <1>2, DeepestLevel DEF TablesOK, TasksOK, Sweeping
<1>6. \A n \in NodeIds(tree) :
        (HasReach(n)' <=> HasReach(n)) /\ (Averaged(n)' <=> Averaged(n))
  BY <1>1, <1>2, SamePass DEF HasReach, Averaged
<1>7. \A n \in NodeIds(tree) : tree.depth[n] <= depth + 1 => Reached(n)
  BY <1>3, <1>5 DEF Reached
<1>8. \A n \in NodeIds(tree) : /\ tree.depth[n] <= depth + 1 => HasReach(n)
                               /\ tree.depth[n] <= depth => Averaged(n)
  BY <1>1, <1>3, <1>5, <1>7 DEF TablesOK, ForwardOK
<1>9. VersionOK'
  BY <1>1, <1>2, SamePass DEF TablesOK, VersionOK
<1>10. CASE depth < LastDepth
  <2>1. ASSUME NEW n \in NodeIds(tree), Reached(n)' PROVE tree.depth[n] <= depth + 1
    <3> SUFFICES ASSUME tree.depth[n] = depth + 2 PROVE FALSE
      BY <1>1, <1>2, <1>5, <1>10, <2>1 DEF Reached
    <3>1. Ended(tree.parent[n])'
      BY <1>1, <1>2, <1>4, <1>5, <1>10, <2>1 DEF Reached
    <3>2. n # 0
      BY <1>2, <1>5, TreesAssumption DEF IsTree, WellFormed, ParentsFirst
    <3>3. /\ tree.parent[n] \in NodeIds(tree) /\ tree.depth[n] = tree.depth[tree.parent[n]] + 1
      BY <1>2, <3>2, TreeFacts DEF NodeIds
    <3>4. tree.depth[tree.parent[n]] = depth + 1
      BY <1>5, <3>3
    <3>5. tree.parent[n] \notin Inner(depth + 1)
      BY <1>1, <1>2, <1>10, <3>1 DEF Ended
    <3>6. tree.parent[n] \in Leaves
      BY <3>3, <3>4, <3>5 DEF Inner, Level, Leaves
    <3>7. tree.count[tree.parent[n]] = 0 /\ tree.offset[tree.parent[n]] \in Int
      BY <1>2, <3>3, <3>6, TreesAssumption, TreeFacts DEF IsTree, ExpandedByBoard, Leaves
    <3>8. n \in Children(tree, tree.parent[n])
      BY <1>2, <3>3, TreeFacts
    <3>9. QED
      BY <3>7, <3>8 DEF Children
  <2>2. ASSUME NEW n \in NodeIds(tree),
               tree.depth[n] < depth + 1 \/ (tree.depth[n] = depth + 1 /\ Ended(n)')
        PROVE  Averaged(n)
    <3>1. CASE tree.depth[n] < depth + 1
      BY <1>5, <1>8, <3>1
    <3>2. CASE tree.depth[n] = depth + 1 /\ Ended(n)'
      <4>1. n \notin Inner(depth + 1)
        BY <1>1, <1>10, <3>2 DEF Ended
      <4>2. tree.actor[n] = TerminalPlayer
        BY <3>2, <4>1 DEF Inner, Level
      <4>3. QED
        BY <4>2 DEF Averaged, Player, TerminalPlayer
    <3>3. QED
      BY <2>2, <3>1, <3>2
  <2>3. ForwardOK'
    BY <1>1, <1>2, <1>6, <1>8, <1>10, <2>1, <2>2, SamePass DEF ForwardOK
  <2>4. TasksOK'
    BY <1>1, <1>2, <1>4, <1>5, <1>10, SamePass DEF TasksOK, Sweeping
  <2>5. QED
    BY <1>1, <1>9, <1>10, <2>3, <2>4 DEF TablesOK, ReachesOK, BackwardOK, EndOK
<1>11. CASE ~(depth < LastDepth)
  <2>1. \A n \in NodeIds(tree) : HasReach(n) /\ Averaged(n)
    BY <1>5, <1>8, <1>11
  <2>2. ReachesOK'
    BY <1>1, <1>2, <1>6, <2>1, SamePass DEF ReachesOK
  <2>3. TasksOK'
    BY <1>1, <1>4, <1>11 DEF TasksOK, Sweeping
  <2>4. QED
    BY <1>1, <1>9, <1>11, <2>2, <2>3 DEF TablesOK, ForwardOK, BackwardOK, EndOK
<1>12. QED
  BY <1>10, <1>11

LEMMA TerminalTables ==
  ASSUME SweepInv, TablesOK, ComputeTerminalCfvs
  PROVE  TablesOK'
<1> DEFINE Leaf(b) == CHOOSE n \in Leaves : \E p \in Heroes : PlayerBlockOffset(n, p) = b
           Hero(b) == CHOOSE p \in Heroes : PlayerBlockOffset(Leaf(b), p) = b
           written == {PlayerBlockOffset(n, p) : n \in Leaves, p \in Heroes}
<1>1. /\ phase = "terminal" /\ phase' = "backward" /\ depth' = LastDepth /\ todo' = Inner(LastDepth)
      /\ cfv' = [b \in CfvOffsets |->
                   IF b \in written
                   THEN {<<Leaf(b), reach[ReachBlockOffset(Leaf(b), 1 - Hero(b))]>>} ELSE cfv[b]]
      /\ UNCHANGED <<storageVars, pass, running, reach, sum, version>>
  BY DEF ComputeTerminalCfvs
<1>2. /\ UNCHANGED tree /\ tree \in Trees /\ Mode \in Player \cup {Average} /\ Heroes \subseteq Player
      /\ phase # "layout"
  BY <1>1, Begun DEF storageVars
<1>3. DOMAIN running = {} /\ DOMAIN running' = {}
  BY <1>1 DEF SweepInv, SweepOK, Sweeping
<1>4. LastDepth \in Nat /\ \A n \in NodeIds(tree) : tree.depth[n] \in 0 .. LastDepth
  BY <1>2, DeepestLevel
<1>5. \A n \in NodeIds(tree) : n \in Leaves \/ ~Valued(n)'
  <2>1. \A n \in NodeIds(tree) : ~(tree.depth[n] > LastDepth)
    BY <1>4
  <2>2. \A n \in NodeIds(tree) : tree.depth[n] = LastDepth /\ n \notin Leaves => n \in todo'
    BY <1>1 DEF Inner, Level, Leaves
  <2>3. QED
    BY <1>1, <1>2, <2>1, <2>2 DEF Valued, Ended
<1>6. ASSUME NEW n \in Leaves, NEW p \in Heroes
      PROVE  cfv'[PlayerBlockOffset(n, p)] = ValuesOf(LeavesBelow(n), p)
  <2> DEFINE b == PlayerBlockOffset(n, p)
  <2>1. n \in NodeIds(tree) /\ Leaves \subseteq NodeIds(tree)
    BY DEF Leaves
  <2>2. b \in CfvOffsets /\ b \in written
    BY <1>2, <2>1 DEF CfvOffsets
  <2>3. \A m \in Leaves, q \in Heroes : PlayerBlockOffset(m, q) = b => m = n /\ q = p
    BY <1>2, <2>1, ApartValues
  <2>4. Leaf(b) = n
    BY <2>3
  <2>5. Hero(b) = p
    <3> HIDE DEF Leaf, b
    <3>1. Hero(b) = CHOOSE q \in Heroes : PlayerBlockOffset(n, q) = b
      BY <2>4
    <3>2. QED
      BY <2>3, <3>1 DEF b
  <2> HIDE DEF Leaf, Hero, written
  <2>6. cfv'[b] = {<<n, reach[ReachBlockOffset(n, 1 - p)]>>}
    BY <1>1, <2>2, <2>4, <2>5
  <2>7. reach[ReachBlockOffset(n, 1 - p)] = MovesTo(n, 1 - p)
    <3>1. 1 - p \in Player
      BY <1>2 DEF Player
    <3>2. QED
      BY <1>1, <2>1, <3>1 DEF TablesOK, ReachesOK, HasReach
  <2>8. LeavesBelow(n) = {n}
    BY <1>2, <2>1, LeavesOfChildren DEF LeavesBelow
  <2>9. QED
    BY <2>6, <2>7, <2>8 DEF ValuesOf
<1>7. BackwardOK'
  <2>1. \A n \in NodeIds(tree), p \in Heroes :
          n \in Leaves \/ Valued(n)' => cfv'[PlayerBlockOffset(n, p)] = ValuesOf(LeavesBelow(n), p)
    BY <1>5, <1>6
  <2>2. UNCHANGED storageVars /\ pass' = pass /\ UNCHANGED tree
    BY <1>1, <1>2
  <2> HIDE DEF written, Leaf, Hero
  <2>3. SUFFICES ASSUME NEW n \in NodeIds(tree), NEW p \in Heroes
        PROVE  /\ n \in Leaves \/ Valued(n)' =>
                    cfv'[PlayerBlockOffset(n, p)] = ValuesOf(LeavesBelow(n), p)
               /\ n \in DOMAIN running' =>
                    cfv'[PlayerBlockOffset(n, p)] = ValuesOf(AddedBelow(n)', p)
    BY <2>2, SamePass DEF BackwardOK
  <2>4. n \notin DOMAIN running'
    BY <1>3
  <2>5. QED
    BY <2>1, <2>4
<1>8. ReachesOK'
  <2>1. \A n \in NodeIds(tree) : (HasReach(n)' <=> HasReach(n)) /\ (Averaged(n)' <=> Averaged(n))
    BY <1>1, <1>2, SamePass DEF HasReach, Averaged
  <2>2. QED
    BY <1>1, <1>2, <2>1, SamePass DEF TablesOK, ReachesOK
<1>9. TasksOK'
  BY <1>1, <1>2, <1>3, <1>4, SamePass DEF TasksOK, Sweeping
<1>10. VersionOK'
  <2>1. \A n \in NodeIds(tree) : tree.actor[n] \in Player => ~Valued(n)'
    BY <1>5 DEF Leaves, Player, TerminalPlayer
  <2>2. QED
    BY <1>1, <1>2, <2>1, SamePass DEF TablesOK, VersionOK
<1>11. QED
  BY <1>1, <1>7, <1>8, <1>9, <1>10 DEF TablesOK, ForwardOK, EndOK

LEMMA UpTables ==
  ASSUME SweepInv, TablesOK, UpOneLevel
  PROVE  TablesOK'
<1>1. /\ phase = "backward" /\ LevelDone
      /\ UNCHANGED <<storageVars, pass, running, reach, cfv, sum, version>>
      /\ IF depth > 0
         THEN depth' = depth - 1 /\ todo' = Inner(depth - 1) /\ phase' = phase
         ELSE phase' = "end" /\ depth' = depth /\ todo' = todo
  BY DEF UpOneLevel
<1>2. UNCHANGED tree /\ tree \in Trees /\ Mode \in Player \cup {Average} /\ Heroes \subseteq Player
  BY <1>1, Begun DEF storageVars
<1>3. \A n : Ended(n)
  BY <1>1, LevelEnded
<1>4. DOMAIN running = {} /\ DOMAIN running' = {}
  BY <1>1 DEF LevelDone
<1>5. depth \in 0 .. LastDepth /\ LastDepth \in Nat /\ \A n \in NodeIds(tree) : tree.depth[n] \in 0 .. LastDepth
  BY <1>1, <1>2, DeepestLevel DEF TablesOK, TasksOK, Sweeping
<1>6. \A n \in NodeIds(tree) : (HasReach(n)' <=> HasReach(n)) /\ (Averaged(n)' <=> Averaged(n))
  BY <1>1, <1>2, SamePass DEF HasReach, Averaged
<1>7. ReachesOK'
  BY <1>1, <1>2, <1>6, SamePass DEF TablesOK, ReachesOK
<1>8. \A n \in NodeIds(tree) : tree.depth[n] >= depth => Valued(n)
  BY <1>3, <1>5 DEF Valued
<1>9. \A n \in NodeIds(tree) : Valued(n) => tree.depth[n] >= depth
  BY <1>5 DEF Valued
<1>10. CASE depth > 0
  <2>1. ASSUME NEW n \in NodeIds(tree), n \notin Leaves PROVE Valued(n)' <=> Valued(n)
    <3>1. tree.depth[n] = depth - 1 => n \in todo'
      BY <1>1, <1>10, <2>1 DEF Inner, Level, Leaves
    <3>2. Valued(n)' <=> tree.depth[n] > depth - 1
      BY <1>1, <1>2, <1>10, <3>1 DEF Valued, Ended
    <3>3. QED
      BY <1>5, <1>8, <1>9, <3>2
  <2>2. BackwardOK'
    BY <1>1, <1>2, <1>4, <1>10, <2>1, SamePass DEF TablesOK, BackwardOK
  <2>3. VersionOK'
    <3>1. \A n \in NodeIds(tree) : tree.actor[n] \in Player => (Valued(n)' <=> Valued(n))
      BY <2>1 DEF Leaves, Player, TerminalPlayer
    <3>2. QED
      BY <1>1, <1>2, <1>10, <3>1, SamePass DEF TablesOK, VersionOK
  <2>4. TasksOK'
    BY <1>1, <1>2, <1>4, <1>5, <1>10, SamePass DEF TasksOK, Sweeping
  <2>5. QED
    BY <1>1, <1>7, <1>10, <2>2, <2>3, <2>4 DEF TablesOK, ForwardOK, EndOK
<1>11. CASE ~(depth > 0)
  <2>1. \A n \in NodeIds(tree) : Valued(n)
    BY <1>5, <1>8, <1>11
  <2>2. EndOK'
    BY <1>1, <1>2, <2>1, SamePass DEF TablesOK, BackwardOK, EndOK
  <2>3. VersionOK'
    BY <1>1, <1>2, <1>11, <2>1, SamePass DEF TablesOK, VersionOK
  <2>4. TasksOK'
    BY <1>1, <1>4, <1>11 DEF TasksOK, Sweeping
  <2>5. QED
    BY <1>1, <1>7, <1>11, <2>2, <2>3, <2>4 DEF TablesOK, ForwardOK, BackwardOK
<1>12. QED
  BY <1>10, <1>11

LEMMA NextPassTables ==
  ASSUME SweepInv, TablesOK, NextPass
  PROVE  TablesOK'
<1>1. /\ phase = "end" /\ phase' = "root" /\ pass' = pass + 1
      /\ UNCHANGED <<storageVars, depth, todo, running, reach, cfv, sum, version>>
  BY DEF NextPass
<1>2. UNCHANGED tree /\ pass \in 1 .. Len(Passes)
  BY <1>1 DEF storageVars, SweepInv, SweepOK
<1>3. \A p : UpdatesBefore(p)' = UpdatesBefore(p) + (IF Mode = p THEN 1 ELSE 0)
  BY <1>1, <1>2, UpdatesOfPass
<1>4. \A n \in NodeIds(tree) : Updates(n)' = Updates(n) + Learns(n)
  BY <1>2, <1>3 DEF Updates, Learns
<1>5. VersionOK'
  BY <1>1, <1>2, <1>4 DEF TablesOK, VersionOK
<1>6. TasksOK'
  BY <1>1 DEF TablesOK, TasksOK, Sweeping
<1>7. QED
  BY <1>1, <1>5, <1>6 DEF TablesOK, ForwardOK, ReachesOK, BackwardOK, EndOK

LEMMA TablesStep == SweepInv /\ TablesOK /\ [Next]_vars => TablesOK'
<1> SUFFICES ASSUME SweepInv, TablesOK, [Next]_vars PROVE TablesOK'
  OBVIOUS
<1>1. CASE Layout
  <2>1. phase = "layout" /\ UNCHANGED sweepVars
    BY <1>1 DEF Layout
  <2>2. QED
    BY <2>1 DEF sweepVars, TablesOK, TasksOK, ForwardOK, ReachesOK, BackwardOK, EndOK, VersionOK, Sweeping
<1>2. ASSUME NEW n \in NodeIds(tree), Task(n) PROVE TablesOK'
  BY <1>2, BeginTables, PropagateTables, EndForwardTables, AddTables, EndBackwardTables DEF Task
<1>3. CASE BeginPasses \/ InitializeRootReach \/ DownOneLevel
  BY <1>3, BeginPassesTables, RootTables, DownTables
<1>4. CASE ComputeTerminalCfvs \/ UpOneLevel \/ NextPass
  BY <1>4, TerminalTables, UpTables, NextPassTables
<1>5. CASE UNCHANGED vars
  <2>1. /\ UNCHANGED storageVars /\ UNCHANGED tree
        /\ UNCHANGED <<pass, phase, depth, todo, running, reach, cfv, sum, version>>
    BY <1>5 DEF vars, sweepVars, storageVars
  <2>2. \A n : (Ended(n)' <=> Ended(n)) /\ (Valued(n)' <=> Valued(n)) /\ Child(n)' = Child(n)
    BY <2>1 DEF Ended, Valued, Child
  <2>3. ASSUME NEW n PROVE Reached(n)' <=> Reached(n)
    <3>1. /\ Child(tree.parent[n])' = Child(tree.parent[n])
          /\ Ended(tree.parent[n])' <=> Ended(tree.parent[n])
      BY <2>1, <2>2
    <3>2. QED
      BY <2>1, <3>1 DEF Reached
  <2>4. ASSUME NEW n
        PROVE  /\ (HasReach(n)' <=> HasReach(n)) /\ (Averaged(n)' <=> Averaged(n))
               /\ AddedBelow(n)' = AddedBelow(n)
    <3>1. (HasReach(n)' <=> HasReach(n)) /\ (Averaged(n)' <=> Averaged(n))
      BY <2>1, SamePass DEF HasReach, Averaged
    <3>2. AddedBelow(n)' = AddedBelow(n)
      BY <2>1, <2>2, SamePass DEF AddedBelow
    <3>3. QED
      BY <3>1, <3>2
  <2>5. TasksOK' /\ ForwardOK' /\ ReachesOK'
    <3>1. TasksOK'
      BY <2>1, SamePass DEF TablesOK, TasksOK, Sweeping
    <3>2. ForwardOK'
      BY <2>1, <2>2, <2>3, <2>4, SamePass DEF TablesOK, ForwardOK
    <3>3. ReachesOK'
      BY <2>1, <2>4, SamePass DEF TablesOK, ReachesOK
    <3>4. QED
      BY <3>1, <3>2, <3>3
  <2>6. BackwardOK' /\ EndOK'
    BY <2>1, <2>2, <2>4, SamePass DEF TablesOK, BackwardOK, EndOK
  <2>7. VersionOK'
    BY <2>1, <2>2, SamePass DEF TablesOK, VersionOK
  <2>8. QED
    BY <2>5, <2>6, <2>7 DEF TablesOK
<1>6. QED
  BY <1>1, <1>2, <1>3, <1>4, <1>5 DEF Next

LEMMA TablesReaches == SweepInv /\ TablesOK => ReachesOfPath
<1> SUFFICES ASSUME SweepInv, TablesOK, phase \in {"terminal", "backward", "end"},
                    NEW n \in NodeIds(tree), NEW p \in Player
             PROVE  /\ reach[ReachBlockOffset(n, p)] = MovesTo(n, p)
                    /\ tree.actor[n] = p /\ p = Mode => <<UpdatesBefore(p), MovesTo(n, p)>> \in sum[n]
  BY DEF ReachesOfPath
<1>1. HasReach(n) /\ Averaged(n)
  BY DEF TablesOK, ReachesOK
<1>2. QED
  BY <1>1 DEF HasReach, Averaged

LEMMA TablesValues == SweepInv /\ TablesOK => ValuesOfLeaves
<1> SUFFICES ASSUME SweepInv, TablesOK, phase = "end", NEW n \in NodeIds(tree)
             PROVE  /\ \A p \in Heroes :
                         cfv[PlayerBlockOffset(n, p)] =
                           {<<l, MovesTo(l, 1 - p)>> : l \in {k \in Leaves : n \in PathTo[k] \cup {0}}}
                    /\ tree.actor[n] \in Player =>
                         version[n] = UpdatesBefore(tree.actor[n]) + (IF tree.actor[n] = Mode THEN 1 ELSE 0)
  BY DEF ValuesOfLeaves
<1>1. \A p \in Heroes : cfv[PlayerBlockOffset(n, p)] = ValuesOf(LeavesBelow(n), p)
  BY DEF TablesOK, EndOK
<1>2. tree.actor[n] \in Player => version[n] = Updates(n) + Learns(n)
  BY DEF TablesOK, VersionOK
<1>3. QED
  BY <1>1, <1>2 DEF ValuesOf, LeavesBelow, Updates, Learns

\* On its way back every pass finds each node's reaches as the moves on its own
\* way from the root make them, for every tree, in whatever blocks they are,
\* for every sequence of passes, number of threads and order of the tasks.
THEOREM SpecReachesOfPath == Spec => []ReachesOfPath
<1>1. Init => SweepInv /\ TablesOK
  BY InitSweepInv, InitTables
<1>2. SweepInv /\ TablesOK /\ [Next]_vars => SweepInv' /\ TablesOK'
  BY SweepStep, TablesStep
<1>3. QED
  BY <1>1, <1>2, TablesReaches, PTL DEF Spec

\* A finished pass has summed every leaf below a node once, each with the
\* opponent's reach of this pass, and the hero's nodes alone have learnt.
THEOREM SpecValuesOfLeaves == Spec => []ValuesOfLeaves
<1>1. Init => SweepInv /\ TablesOK
  BY InitSweepInv, InitTables
<1>2. SweepInv /\ TablesOK /\ [Next]_vars => SweepInv' /\ TablesOK'
  BY SweepStep, TablesStep
<1>3. QED
  BY <1>1, <1>2, TablesValues, PTL DEF Spec

-----------------------------------------------------------------------------
(***************************************************************************)
(* The best response: the game.                                            *)
(***************************************************************************)
\* Total is a sum over the domain.
LEMMA TotalIs == \A f : Total(f) = Sum(f, DOMAIN f)
BY DEF Total, Sum, MapThenSumSet, MapThenFoldSet

\* What the shape of the tree says in terms of its nodes.
LEMMA GameTreeFacts ==
  ASSUME game \in Games
  PROVE  /\ 0 \in Nodes /\ Nodes \subseteq Nat /\ IsFiniteSet(Nodes)
         /\ game.tree.size \in Nat \ {0} /\ Nodes = 0 .. game.tree.size - 1
         /\ \A n \in Nodes \ {0} :
              ParentOf(n) \in Nodes /\ ParentOf(n) < n /\ n \in ChildrenOf(ParentOf(n))
         /\ \A n \in Nodes :
              /\ IsFiniteSet(ChildrenOf(n)) /\ IsFiniteSet(HandsAt(n))
              /\ ChildrenOf(n) \subseteq Nodes \ {0}
              /\ \A c \in ChildrenOf(n) : ParentOf(c) = n /\ c > n
              /\ Actor(n) \in Player \cup {ChancePlayer, TerminalPlayer}
              /\ Actor(n) = TerminalPlayer => ChildrenOf(n) = {}
              /\ Actor(n) \in Player => \A c \in ChildrenOf(n) : HandsAt(c) = HandsAt(n)
              /\ game.tree.count[n] \in Nat /\ game.tree.offset[n] \in Int
              /\ Actor(n) \in Player => game.tree.count[n] > 0
<1>1. IsTree(game.tree) /\ IsGame(game)
  BY GamesAssumption DEF IsGame
<1>2. game.tree.size \in Nat \ {0} /\ Nodes = 0 .. game.tree.size - 1
  BY <1>1 DEF IsTree, Nodes, NodeIds
<1>3. 0 \in Nodes /\ Nodes \subseteq Nat /\ IsFiniteSet(Nodes)
  <2>1. \A k \in Nat : IsFiniteSet(0 .. k - 1)
    BY FS_Interval
  <2> QED BY <1>2, <2>1
<1>4. \A n \in Nodes :
        /\ game.tree.count[n] \in Nat /\ game.tree.offset[n] \in Int /\ game.tree.hands[n] \in Nat
        /\ Actor(n) \in Player \cup {ChancePlayer, TerminalPlayer}
        /\ Actor(n) \in Player => game.tree.count[n] > 0
  BY <1>1, <1>2 DEF IsTree, IsGame, Nodes, Actor, IsPlayerNode
<1>5. \A n \in Nodes : ChildrenOf(n) = {m \in Nodes : ParentOf(m) = n}
  BY <1>1 DEF IsTree, WellFormed, ChildrenContiguous, ChildrenOf, Nodes, ParentOf
<1>6. \A n \in Nodes : IF n = 0 THEN ParentOf(n) = NoNode ELSE ParentOf(n) \in 0 .. n - 1
  BY <1>1 DEF IsTree, WellFormed, ParentsFirst, Nodes, ParentOf
<1>7. \A n \in Nodes \ {0} :
              ParentOf(n) \in Nodes /\ ParentOf(n) < n /\ n \in ChildrenOf(ParentOf(n))
  <2> TAKE n \in Nodes \ {0}
  <2>1. ParentOf(n) \in 0 .. n - 1
    BY <1>6
  <2>2. ParentOf(n) \in Nodes
    BY <1>2, <2>1
  <2> QED BY <1>2, <1>5, <2>1, <2>2
<1>8. \A n \in Nodes : ChildrenOf(n) \subseteq Nodes \ {0} /\ \A c \in ChildrenOf(n) : ParentOf(c) = n /\ c > n
  BY <1>2, <1>3, <1>5, <1>6 DEF NoNode
<1>9. \A n \in Nodes : IsFiniteSet(ChildrenOf(n)) /\ IsFiniteSet(HandsAt(n))
  <2>1. \A k \in Nat : IsFiniteSet(0 .. k - 1)
    BY FS_Interval
  <2>2. \A n \in Nodes : IsFiniteSet(ChildrenOf(n))
    BY <1>3, <1>8, FS_Subset
  <2> QED BY <1>4, <2>1, <2>2 DEF HandsAt, HandsOf
<1>10. ASSUME NEW n \in Nodes, Actor(n) = TerminalPlayer PROVE ChildrenOf(n) = {}
  <2>1. game.tree.count[n] = 0
    BY <1>1, <1>10 DEF IsTree, ExpandedByBoard, Nodes, Actor
  <2> QED BY <1>4, <2>1 DEF ChildrenOf, Children
<1>11. ASSUME NEW n \in Nodes, Actor(n) \in Player, NEW c \in ChildrenOf(n)
       PROVE  HandsAt(c) = HandsAt(n)
  <2>1. c \in Nodes \ {0} /\ ParentOf(c) = n
    BY <1>8
  <2>2. game.tree.hands[c] = game.tree.hands[n]
    BY <1>1, <1>11, <2>1 DEF IsTree, ExpandedByBoard, Nodes, Actor, ParentOf, IsPlayerNode
  <2> QED BY <2>2 DEF HandsAt, HandsOf
<1> QED BY <1>2, <1>3, <1>4, <1>7, <1>8, <1>9, <1>10, <1>11

\* The types of what a game gives to each node.
LEMMA GameTableFacts ==
  ASSUME game \in Games
  PROVE  /\ game.unit \in Nat \ {0}
         /\ \A p \in Player : game.belief[p] \in [HandsAt(0) -> Nat]
         /\ \A p \in Player : \A n \in TerminalNodes :
              game.pays[p][n] \in [HandsAt(n) -> [HandsAt(n) -> Int]]
         /\ \A n \in Nodes : Actor(n) = ChancePlayer => \A c \in ChildrenOf(n) :
              /\ game.weight[c] \in [HandsAt(n) -> [HandsAt(c) -> Int]]
              /\ \A h \in HandsAt(n), k \in HandsAt(c) : game.weight[c][h][k] \in Nat
<1>1. IsGame(game)
  BY GamesAssumption
<1>2. \A p \in Player : \A n \in TerminalNodes :
              game.pays[p][n] \in [HandsAt(n) -> [HandsAt(n) -> Int]]
  BY <1>1 DEF IsGame, TerminalNodes, Matrix, HandsAt, Nodes, Actor
<1>3. ASSUME NEW n \in Nodes, Actor(n) = ChancePlayer, NEW c \in ChildrenOf(n)
      PROVE  /\ game.weight[c] \in [HandsAt(n) -> [HandsAt(c) -> Int]]
             /\ \A h \in HandsAt(n), k \in HandsAt(c) : game.weight[c][h][k] \in Nat
  <2>1. c \in Nodes \ {0} /\ ParentOf(c) = n
    BY <1>3, GameTreeFacts
  <2>2. c \in MovesIn(game.tree, ChancePlayer)
    BY <1>3, <2>1 DEF MovesIn, Nodes, ParentOf, Actor
  <2>3. game.weight[c] \in Matrix(game.tree, n, c)
    BY <1>1, <2>1, <2>2 DEF IsGame, ParentOf
  <2>4. \A h \in HandsAt(n), k \in HandsAt(c) : game.weight[c][h][k] >= 0
    BY <1>1, <2>1, <2>2 DEF IsGame, ParentOf, HandsAt
  <2>5. game.weight[c] \in [HandsAt(n) -> [HandsAt(c) -> Int]]
    BY <2>3 DEF Matrix, HandsAt
  <2> QED BY <2>4, <2>5
<1>4. game.unit \in Nat \ {0} /\ \A p \in Player : game.belief[p] \in [HandsAt(0) -> Nat]
  BY <1>1 DEF IsGame, HandsAt
<1> QED BY <1>2, <1>3, <1>4

\* What comes down to the ends of a tree is at least what was at the root, if
\* at no node more comes down than is there.
LEMMA Telescope ==
  ASSUME game \in Games, NEW P \in [Nodes -> Int],
         \A n \in Nodes \ TerminalNodes : Sum(P, ChildrenOf(n)) <= P[n]
  PROVE  Sum(P, TerminalNodes) <= P[0]
<1> DEFINE inner == Nodes \ TerminalNodes
           below == {ChildrenOf(n) : n \in inner}
           byChildren == [n \in inner |-> Sum(P, ChildrenOf(n))]
           bySet == [i \in below |-> Sum(P, i)]
           used == {n \in inner : ChildrenOf(n) # {}}
<1>1. IsFiniteSet(inner) /\ IsFiniteSet(TerminalNodes) /\ inner \cap TerminalNodes = {}
      /\ Nodes = inner \cup TerminalNodes
  BY GameTreeFacts, FS_Subset DEF TerminalNodes
<1>2. \A n \in Nodes : IsFiniteSet(ChildrenOf(n)) /\ ChildrenOf(n) \subseteq Nodes \ {0}
  BY GameTreeFacts
<1>3. \A m, n \in Nodes : ChildrenOf(m) \cap ChildrenOf(n) # {} => m = n
  BY GameTreeFacts
<1>4. Nodes \ {0} = UNION {ChildrenOf(n) : n \in used}
  <2>1. ASSUME NEW c \in Nodes \ {0} PROVE \E n \in used : c \in ChildrenOf(n)
    <3>1. ParentOf(c) \in Nodes /\ c \in ChildrenOf(ParentOf(c))
      BY GameTreeFacts
    <3>2. ParentOf(c) \in used
      BY <3>1, GameTreeFacts DEF TerminalNodes
    <3> QED BY <3>1, <3>2
  <2> QED BY <1>2, <2>1
<1>5. IsFiniteSet(used) /\ used \subseteq inner
  BY <1>1, FS_Subset
<1>6. \A n \in Nodes : Sum(P, ChildrenOf(n)) \in Int
  BY <1>2, SumInt
<1>7. Sum(P, Nodes \ {0}) = Sum(byChildren, used)
  <2> DEFINE b == [n \in used |-> ChildrenOf(n)]
             R == {ChildrenOf(n) : n \in used}
             f == [i \in R |-> Sum(P, i)]
  <2>1. \A n \in used : b[n] \in R /\ f[b[n]] \in Int /\ byChildren[n] = f[b[n]]
    BY <1>6
  <2>2. \A m, n \in used : b[m] = b[n] => m = n
    BY <1>3
  <2>3. \A i \in R : \E n \in used : b[n] = i
    OBVIOUS
  <2> HIDE DEF b, f, byChildren
  <2>4. IsFiniteSet(R) /\ Sum(f, R) = Sum(byChildren, used)
    <3> HIDE DEF used, R
    <3> QED BY <1>5, <2>1, <2>2, <2>3, SumReindex
  <2>5. \A i \in R : IsFiniteSet(i) /\ f[i] = Sum(P, i) /\ \A x \in i : P[x] \in Int
    BY <1>2 DEF f
  <2>6. \A i, j \in R : i \cap j # {} => i = j
    BY <1>3
  <2>7. Sum(P, UNION R) = Sum(f, R)
    <3> HIDE DEF used, R
    <3> QED BY <2>4, <2>5, <2>6, SumParts
  <2> QED BY <1>4, <2>4, <2>7
<1>8. Sum(byChildren, inner) = Sum(byChildren, used)
  <2>1. \A n \in used : byChildren[n] \in Int
    BY <1>6
  <2>2. \A n \in inner \ used : byChildren[n] = 0
    BY SumEmpty
  <2> HIDE DEF byChildren, used, inner
  <2> QED BY <1>1, <1>5, <2>1, <2>2, SumWhere
<1>9. Sum(byChildren, inner) <= Sum(P, inner)
  <2>1. \A n \in inner : byChildren[n] \in Int /\ P[n] \in Int /\ byChildren[n] <= P[n]
    BY <1>6
  <2> HIDE DEF byChildren, inner
  <2> QED BY <1>1, <2>1, SumMono
<1>10. Sum(P, Nodes) = Sum(P, inner) + Sum(P, TerminalNodes)
  <2>1. \A n \in inner \cup TerminalNodes : P[n] \in Int
    BY <1>1
  <2> HIDE DEF inner
  <2> QED BY <1>1, <2>1, SumUnion
<1>11. Sum(P, Nodes) = P[0] + Sum(P, Nodes \ {0})
  BY GameTreeFacts, SumTake
<1>12. Sum(P, inner) \in Int /\ Sum(P, TerminalNodes) \in Int /\ Sum(P, Nodes \ {0}) \in Int /\ P[0] \in Int
  <2>1. IsFiniteSet(Nodes \ {0}) /\ 0 \in Nodes
    BY GameTreeFacts, FS_Subset
  <2>2. inner \subseteq Nodes /\ TerminalNodes \subseteq Nodes
    BY <1>1
  <2> HIDE DEF inner
  <2> QED BY <1>1, <2>1, <2>2, SumInt
<1> HIDE DEF inner, byChildren, used
<1> QED BY <1>7, <1>8, <1>9, <1>10, <1>11, <1>12

-----------------------------------------------------------------------------
(***************************************************************************)
(* Sums over hands and children.                                           *)
(***************************************************************************)

\* Two vectors multiplied.
Dot(x, v, S) == Sum([h \in S |-> x[h] * v[h]], S)

\* A product of integers is one.
LEMMA ProductInt ==
  ASSUME NEW a \in Int, NEW b \in Int
  PROVE  a * b \in Int
OBVIOUS

\* So is a product of vectors.
LEMMA DotInt ==
  ASSUME NEW S, IsFiniteSet(S), NEW x \in [S -> Int], NEW v \in [S -> Int]
  PROVE  Dot(x, v, S) \in Int
<1> DEFINE f == [h \in S |-> x[h] * v[h]]
<1>1. \A h \in S : f[h] \in Int
  BY ProductInt
<1> HIDE DEF f
<1>2. Sum(f, S) \in Int
  BY <1>1, SumInt
<1> QED BY <1>2 DEF f, Dot

\* A number times a sum.
LEMMA TimesSum ==
  ASSUME NEW k \in Int, NEW S, IsFiniteSet(S), NEW f, \A x \in S : f[x] \in Int
  PROVE  k * Sum(f, S) = Sum([x \in S |-> k * f[x]], S)
<1> DEFINE h == [x \in S |-> k * f[x]]
<1>1. \A x \in S : f[x] \in Int /\ h[x] = k * f[x]
  OBVIOUS
<1> HIDE DEF h
<1>2. Sum(h, S) = k * Sum(f, S)
  BY <1>1, SumTimes
<1> QED BY <1>2 DEF h

\* A matrix that carries reaches down carries values up.
Carried(x, w, y, S, T) == \A k \in T : y[k] = Sum([h \in S |-> x[h] * w[h][k]], S)
CarriedUp(v, w, e, S, T) == \A h \in S : e[h] = Sum([k \in T |-> v[k] * w[h][k]], T)

LEMMA Adjoint ==
  ASSUME NEW S, NEW T, IsFiniteSet(S), IsFiniteSet(T),
         NEW x \in [S -> Int], NEW v \in [T -> Int], NEW w \in [S -> [T -> Int]],
         NEW y, NEW e, Carried(x, w, y, S, T), CarriedUp(v, w, e, S, T)
  PROVE  Dot(x, e, S) = Dot(y, v, T)
<1> USE DEF Carried, CarriedUp
<1> DEFINE m == [h \in S |-> [k \in T |-> x[h] * (v[k] * w[h][k])]]
           t == [k \in T |-> [h \in S |-> v[k] * (x[h] * w[h][k])]]
           rows == [h \in S |-> x[h] * e[h]]
           cols == [k \in T |-> y[k] * v[k]]
<1>1. ASSUME NEW h \in S, NEW k \in T
      PROVE  m[h][k] \in Int /\ t[k][h] = m[h][k]
  <2>1. x[h] \in Int /\ v[k] \in Int /\ w[h][k] \in Int
    OBVIOUS
  <2>2. \A a, b, c \in Int : a * (b * c) \in Int /\ b * (a * c) = a * (b * c)
    OBVIOUS
  <2> QED BY <2>1, <2>2
<1>2. ASSUME NEW h \in S PROVE rows[h] = Sum(m[h], T)
  <2> DEFINE f == [k \in T |-> v[k] * w[h][k]]
  <2>1. x[h] \in Int /\ \A k \in T : f[k] \in Int
    BY ProductInt
  <2>2. e[h] = Sum(f, T)
    OBVIOUS
  <2>3. m[h] = [k \in T |-> x[h] * f[k]]
    OBVIOUS
  <2> HIDE DEF f, m
  <2>4. x[h] * Sum(f, T) = Sum([k \in T |-> x[h] * f[k]], T)
    BY <2>1, TimesSum
  <2> QED BY <2>2, <2>3, <2>4
<1>3. ASSUME NEW k \in T PROVE cols[k] = Sum(t[k], S)
  <2> DEFINE f == [h \in S |-> x[h] * w[h][k]]
  <2>1. v[k] \in Int /\ \A h \in S : f[h] \in Int
    BY ProductInt
  <2>2. y[k] = Sum(f, S)
    OBVIOUS
  <2>3. t[k] = [h \in S |-> v[k] * f[h]]
    OBVIOUS
  <2>5. cols[k] = y[k] * v[k]
    OBVIOUS
  <2> HIDE DEF f, t, cols
  <2>4. v[k] * Sum(f, S) = Sum([h \in S |-> v[k] * f[h]], S)
    BY <2>1, TimesSum
  <2>6. Sum(f, S) \in Int
    BY <2>1, SumInt
  <2>7. \A a, b \in Int : a * b = b * a
    OBVIOUS
  <2> QED BY <2>1, <2>2, <2>3, <2>4, <2>5, <2>6, <2>7
<1> HIDE DEF m, t, rows, cols
<1>4. IsTable(m, t, rows, cols, S, T)
  BY <1>1, <1>2, <1>3 DEF IsTable
<1>5. Sum(rows, S) = Sum(cols, T)
  BY <1>4, SumSwap
<1> QED BY <1>5 DEF rows, cols, Dot

\* Row by row or column by column.
AreRows(x, v, rows, S, C) ==
  \A h \in S : rows[h] = Sum([c \in C |-> x[c][h] * v[c][h]], C)

LEMMA SwapDots ==
  ASSUME NEW S, NEW C, IsFiniteSet(S), IsFiniteSet(C), NEW x, NEW v, NEW rows,
         \A c \in C, h \in S : x[c][h] \in Int /\ v[c][h] \in Int,
         AreRows(x, v, rows, S, C)
  PROVE  Sum(rows, S) = Sum([c \in C |-> Dot(x[c], v[c], S)], C)
<1> DEFINE m == [h \in S |-> [c \in C |-> x[c][h] * v[c][h]]]
           t == [c \in C |-> [h \in S |-> x[c][h] * v[c][h]]]
           cols == [c \in C |-> Dot(x[c], v[c], S)]
<1>1. \A h \in S, c \in C : m[h][c] \in Int /\ t[c][h] = m[h][c]
  BY ProductInt
<1>2. \A h \in S : rows[h] = Sum(m[h], C)
  BY DEF AreRows
<1>3. \A c \in C : cols[c] = Sum(t[c], S)
  BY DEF Dot
<1> HIDE DEF m, t, cols
<1>4. IsTable(m, t, rows, cols, S, C)
  BY <1>1, <1>2, <1>3 DEF IsTable
<1>5. Sum(rows, S) = Sum(cols, C)
  BY <1>4, SumSwap
<1> QED BY <1>5 DEF cols

-----------------------------------------------------------------------------
(***************************************************************************)
(* Plans: the reaches of a player who plays in some way, whatever it is.   *)
(***************************************************************************)
IsReach(x) == \A n \in Nodes : x[n] \in [HandsAt(n) -> Nat]
IsValue(v) == \A n \in Nodes : v[n] \in [HandsAt(n) -> Int]

IsPlan(p, x) ==
  /\ IsReach(x)
  /\ x[0] = game.belief[p]
  /\ \A n \in Nodes, c \in Nodes : c \in ChildrenOf(n) =>
       /\ Actor(n) = ChancePlayer => \A k \in HandsAt(c) :
            x[c][k] = Sum([h \in HandsAt(n) |-> x[n][h] * game.weight[c][h][k]], HandsAt(n))
       /\ Actor(n) = 1 - p => \A h \in HandsAt(n) : x[c][h] = x[n][h]
  /\ \A n \in Nodes : Actor(n) = p => \A h \in HandsAt(n) :
       Sum([c \in ChildrenOf(n) |-> x[c][h]], ChildrenOf(n)) = game.unit * x[n][h]

Worth(x, v, n) == Dot(x[n], v[n], HandsAt(n))
Weighed(x, v, n, h) == Sum([c \in ChildrenOf(n) |-> x[c][h] * v[c][h]], ChildrenOf(n))
WorthBelow(x, v, n) == Sum([c \in ChildrenOf(n) |-> Worth(x, v, c)], ChildrenOf(n))

\* The values of the passes as sums.
LEMMA CfvsAre ==
  \A v : \A n \in Nodes : \A h \in HandsAt(n) :
    /\ OverCards(v, n)[h] =
         Sum([c \in ChildrenOf(n) |->
               Sum([k \in HandsAt(c) |-> v[c][k] * game.weight[c][h][k]], HandsAt(c))], ChildrenOf(n))
    /\ OverActions(v, n)[h] = Sum([c \in ChildrenOf(n) |-> v[c][h]], ChildrenOf(n))
    /\ ByStrategy(v, n)[h] =
         Sum([c \in ChildrenOf(n) |-> average[Actor(n)][c][h] * v[c][h]], ChildrenOf(n))
BY DEF OverCards, OverActions, ByStrategy, Total, Sum, MapThenSumSet, MapThenFoldSet

\* A plan is worth a whole number.
LEMMA WorthInt ==
  ASSUME game \in Games, NEW x, NEW v, IsReach(x), IsValue(v), NEW n \in Nodes
  PROVE  Worth(x, v, n) \in Int
<1>1. IsFiniteSet(HandsAt(n)) /\ x[n] \in [HandsAt(n) -> Int] /\ v[n] \in [HandsAt(n) -> Int]
  BY GameTreeFacts DEF IsReach, IsValue
<1> QED BY <1>1, DotInt DEF Worth

\* After an action, hand by hand.
LEMMA WeighedIs ==
  ASSUME game \in Games, NEW x, NEW v, IsReach(x), IsValue(v), NEW n \in Nodes, Actor(n) \in Player
  PROVE  /\ \A h \in HandsAt(n) : Weighed(x, v, n, h) \in Int
         /\ Sum([h \in HandsAt(n) |-> Weighed(x, v, n, h)], HandsAt(n)) = WorthBelow(x, v, n)
<1> DEFINE S == HandsAt(n)
           C == ChildrenOf(n)
           rows == [h \in S |-> Weighed(x, v, n, h)]
<1>1. IsFiniteSet(S) /\ IsFiniteSet(C) /\ \A c \in C : c \in Nodes /\ HandsAt(c) = S
  BY GameTreeFacts
<1>2. \A c \in C, h \in S : x[c][h] \in Int /\ v[c][h] \in Int
  BY <1>1 DEF IsReach, IsValue
<1>3. \A h \in S : rows[h] = Sum([c \in C |-> x[c][h] * v[c][h]], C)
  BY DEF Weighed
<1>0. AreRows(x, v, rows, S, C)
  BY <1>3 DEF AreRows
<1>4. ASSUME NEW h \in S PROVE Weighed(x, v, n, h) \in Int
  <2> DEFINE f == [c \in C |-> x[c][h] * v[c][h]]
  <2>1. \A c \in C : f[c] \in Int
    BY <1>2, ProductInt
  <2> HIDE DEF f
  <2>2. Sum(f, C) \in Int
    BY <1>1, <2>1, SumInt
  <2> QED BY <2>2 DEF f, Weighed
<1>5. Sum(rows, S) = Sum([c \in C |-> Dot(x[c], v[c], S)], C)
  <2> HIDE DEF rows, S, C
  <2> QED BY <1>0, <1>1, <1>2, SwapDots
<1>6. [c \in C |-> Dot(x[c], v[c], S)] = [c \in C |-> Worth(x, v, c)]
  BY <1>1 DEF Worth
<1> QED BY <1>4, <1>5, <1>6 DEF WorthBelow

\* Where the other player acts, the moves share the value.
LEMMA WorthOfOther ==
  ASSUME game \in Games, NEW p \in Player, NEW x, NEW v, IsPlan(p, x), IsValue(v),
         NEW n \in Nodes, Actor(n) = 1 - p, v[n] = OverActions(v, n)
  PROVE  Worth(x, v, n) = WorthBelow(x, v, n)
<1> DEFINE S == HandsAt(n)
           C == ChildrenOf(n)
<1>1. IsFiniteSet(S) /\ IsFiniteSet(C) /\ \A c \in C : c \in Nodes /\ HandsAt(c) = S
  BY GameTreeFacts DEF Player
<1>2. Actor(n) \in Player /\ IsReach(x)
  BY DEF Player, IsPlan
<1>3. ASSUME NEW h \in S PROVE x[n][h] * v[n][h] = Weighed(x, v, n, h)
  <2> DEFINE f == [c \in C |-> v[c][h]]
  <2>1. x[n][h] \in Int /\ \A c \in C : f[c] \in Int
    BY <1>1 DEF IsPlan, IsReach, IsValue
  <2>2. v[n][h] = Sum(f, C)
    BY CfvsAre
  <2>3. \A c \in C : x[n][h] * f[c] = x[c][h] * v[c][h]
    BY <1>1 DEF IsPlan
  <2>4. [c \in C |-> x[n][h] * f[c]] = [c \in C |-> x[c][h] * v[c][h]]
    BY <2>3
  <2> HIDE DEF f
  <2>5. x[n][h] * Sum(f, C) = Sum([c \in C |-> x[n][h] * f[c]], C)
    BY <1>1, <2>1, TimesSum
  <2> QED BY <2>2, <2>4, <2>5 DEF Weighed
<1>4. [h \in S |-> x[n][h] * v[n][h]] = [h \in S |-> Weighed(x, v, n, h)]
  BY <1>3
<1> QED BY <1>2, <1>4, WeighedIs DEF Worth, Dot

\* A card carries reaches down as it carries values up.
LEMMA WorthOfChance ==
  ASSUME game \in Games, NEW p \in Player, NEW x, NEW v, IsPlan(p, x), IsValue(v),
         NEW n \in Nodes, Actor(n) = ChancePlayer, v[n] = OverCards(v, n)
  PROVE  Worth(x, v, n) = WorthBelow(x, v, n)
<1> DEFINE S == HandsAt(n)
           C == ChildrenOf(n)
           w(c) == game.weight[c]
           part == [c \in C |-> [h \in S |->
                      Sum([k \in HandsAt(c) |-> v[c][k] * game.weight[c][h][k]], HandsAt(c))]]
           xs == [c \in C |-> x[n]]
           rows == [h \in S |-> x[n][h] * v[n][h]]
<1>1. IsFiniteSet(S) /\ IsFiniteSet(C) /\ \A c \in C : c \in Nodes /\ IsFiniteSet(HandsAt(c))
  BY GameTreeFacts
<1>2. \A c \in C : game.weight[c] \in [S -> [HandsAt(c) -> Int]]
  BY GameTableFacts
<1>3. x[n] \in [S -> Int] /\ \A c \in C : x[c] \in [HandsAt(c) -> Int] /\ v[c] \in [HandsAt(c) -> Int]
  BY <1>1 DEF IsPlan, IsReach, IsValue
<1>4. ASSUME NEW c \in C, NEW h \in S PROVE part[c][h] \in Int
  <2> DEFINE T == HandsAt(c)
             f == [k \in T |-> v[c][k] * game.weight[c][h][k]]
  <2>1. \A k \in T : f[k] \in Int
    BY <1>2, <1>3, ProductInt
  <2>2. IsFiniteSet(T)
    BY <1>1
  <2> HIDE DEF f, T
  <2>3. Sum(f, T) \in Int
    BY <2>1, <2>2, SumInt
  <2> QED BY <2>3 DEF f, T
<1>5. ASSUME NEW h \in S PROVE rows[h] = Sum([c \in C |-> xs[c][h] * part[c][h]], C)
  <2> DEFINE f == [c \in C |-> part[c][h]]
  <2>1. x[n][h] \in Int /\ \A c \in C : f[c] \in Int
    BY <1>3, <1>4
  <2>2. v[n][h] = Sum(f, C)
    <3>1. f = [c \in C |-> Sum([k \in HandsAt(c) |-> v[c][k] * game.weight[c][h][k]], HandsAt(c))]
      OBVIOUS
    <3>2. v[n][h] = OverCards(v, n)[h]
      OBVIOUS
    <3> HIDE DEF f, part, xs, rows
    <3> QED BY <3>1, <3>2, CfvsAre
  <2>3. [c \in C |-> xs[c][h] * part[c][h]] = [c \in C |-> x[n][h] * f[c]]
    OBVIOUS
  <2> HIDE DEF f
  <2>4. x[n][h] * Sum(f, C) = Sum([c \in C |-> x[n][h] * f[c]], C)
    BY <1>1, <2>1, TimesSum
  <2> QED BY <2>2, <2>3, <2>4
<1>6. Sum(rows, S) = Sum([c \in C |-> Dot(xs[c], part[c], S)], C)
  <2>0. AreRows(xs, part, rows, S, C)
    BY <1>5 DEF AreRows
  <2>1. \A c \in C, h \in S : xs[c][h] \in Int /\ part[c][h] \in Int
    BY <1>3, <1>4
  <2> HIDE DEF rows, S, C, xs, part
  <2> QED BY <1>1, <2>0, <2>1, SwapDots
<1>7. ASSUME NEW c \in C PROVE Dot(xs[c], part[c], S) = Worth(x, v, c)
  <2> DEFINE T == HandsAt(c)
             m == game.weight[c]
             e == part[c]
             y == x[c]
             u == v[c]
             z == x[n]
  <2>1. Carried(z, m, y, S, T)
    BY <1>1 DEF IsPlan, Carried
  <2>2. CarriedUp(u, m, e, S, T)
    BY DEF CarriedUp
  <2>3. IsFiniteSet(S) /\ IsFiniteSet(T) /\ z \in [S -> Int] /\ u \in [T -> Int] /\ m \in [S -> [T -> Int]]
    BY <1>1, <1>2, <1>3
  <2>4. xs[c] = z
    OBVIOUS
  <2> HIDE DEF S, T, m, e, y, u, z, xs, part
  <2>5. Dot(z, e, S) = Dot(y, u, T)
    BY <2>1, <2>2, <2>3, Adjoint
  <2> QED BY <2>4, <2>5 DEF e, y, u, T, Worth
<1>8. [c \in C |-> Dot(xs[c], part[c], S)] = [c \in C |-> Worth(x, v, c)]
  BY <1>7
<1> QED BY <1>6, <1>8 DEF Worth, WorthBelow, Dot

\* Where the player follows a strategy, as its average does.
LEMMA WorthOfStrategy ==
  ASSUME game \in Games, NEW p \in Player, NEW x, NEW v, IsReach(x), IsValue(v),
         NEW n \in Nodes, Actor(n) = p, v[n] = ByStrategy(v, n),
         \A c \in ChildrenOf(n), h \in HandsAt(n) :
           average[p][c][h] \in Nat /\ x[c][h] = x[n][h] * average[p][c][h]
  PROVE  Worth(x, v, n) = WorthBelow(x, v, n)
<1> DEFINE S == HandsAt(n)
           C == ChildrenOf(n)
<1>1. IsFiniteSet(S) /\ IsFiniteSet(C) /\ \A c \in C : c \in Nodes /\ HandsAt(c) = S
  BY GameTreeFacts
<1>3. ASSUME NEW h \in S PROVE x[n][h] * v[n][h] = Weighed(x, v, n, h)
  <2> DEFINE f == [c \in C |-> average[Actor(n)][c][h] * v[c][h]]
  <2>0. x[n][h] \in Int /\ \A c \in C : average[p][c][h] \in Int /\ v[c][h] \in Int
    BY <1>1 DEF IsReach, IsValue
  <2>1. \A c \in C : f[c] \in Int
    BY <2>0, ProductInt
  <2>2. v[n][h] = Sum(f, C)
    BY CfvsAre
  <2>3. ASSUME NEW c \in C PROVE x[n][h] * f[c] = x[c][h] * v[c][h]
    <3>1. \A a, b, d \in Int : a * (b * d) = (a * b) * d
      OBVIOUS
    <3>2. f[c] = average[p][c][h] * v[c][h] /\ x[c][h] = x[n][h] * average[p][c][h]
      OBVIOUS
    <3> HIDE DEF f
    <3> QED BY <2>0, <3>1, <3>2
  <2>4. [c \in C |-> x[n][h] * f[c]] = [c \in C |-> x[c][h] * v[c][h]]
    BY <2>3
  <2> HIDE DEF f
  <2>5. x[n][h] * Sum(f, C) = Sum([c \in C |-> x[n][h] * f[c]], C)
    BY <1>1, <2>0, <2>1, TimesSum
  <2> QED BY <2>2, <2>4, <2>5 DEF Weighed
<1>4. [h \in S |-> x[n][h] * v[n][h]] = [h \in S |-> Weighed(x, v, n, h)]
  BY <1>3
<1> QED BY <1>4, WeighedIs DEF Worth, Dot

\* The values of a node where every hand takes its best action, as recorded.
RespondsAt(v, n) ==
  \A h \in HandsAt(n) :
    /\ policy[n][h] \in 0 .. game.tree.count[n] - 1
    /\ v[n][h] = game.unit * v[ChildOf(n, policy[n][h])][h]
    /\ \A c \in ChildrenOf(n) : v[c][h] <= v[ChildOf(n, policy[n][h])][h]
FollowsAt(x, n) ==
  \A h \in HandsAt(n), c \in ChildrenOf(n) : c # ChildOf(n, policy[n][h]) => x[c][h] = 0

\* No way to share a hand among the actions is worth more than the best action.
LEMMA WorthOfBest ==
  ASSUME game \in Games, NEW p \in Player, NEW x, NEW v, IsPlan(p, x), IsValue(v),
         NEW n \in Nodes, Actor(n) = p, RespondsAt(v, n)
  PROVE  /\ WorthBelow(x, v, n) <= Worth(x, v, n)
         /\ FollowsAt(x, n) => WorthBelow(x, v, n) = Worth(x, v, n)
<1> DEFINE S == HandsAt(n)
           C == ChildrenOf(n)
           f == [h \in S |-> Weighed(x, v, n, h)]
           g == [h \in S |-> x[n][h] * v[n][h]]
<1>1. IsFiniteSet(S) /\ IsFiniteSet(C) /\ \A c \in C : c \in Nodes /\ HandsAt(c) = S
  BY GameTreeFacts
<1>2. IsReach(x) /\ game.unit \in Nat
  BY GameTableFacts DEF IsPlan
<1>3. \A h \in S : ChildOf(n, policy[n][h]) \in C
  BY GameTreeFacts DEF RespondsAt, ChildOf, ChildrenOf, Children
<1>4. ASSUME NEW h \in S
      PROVE  /\ f[h] \in Int /\ g[h] \in Int /\ f[h] <= g[h]
             /\ FollowsAt(x, n) => f[h] = g[h]
  <2> DEFINE best == v[ChildOf(n, policy[n][h])][h]
             own == [c \in C |-> x[c][h]]
             most == [c \in C |-> best * own[c]]
             part == [c \in C |-> x[c][h] * v[c][h]]
  <2>1. /\ best \in Int /\ x[n][h] \in Int
        /\ \A c \in C : own[c] \in Nat /\ x[c][h] = own[c] /\ v[c][h] \in Int
    BY <1>1, <1>2, <1>3 DEF IsReach, IsValue
  <2>2. g[h] = x[n][h] * (game.unit * best) /\ \A c \in C : v[c][h] <= best
    BY DEF RespondsAt
  <2>3. Sum(own, C) = game.unit * x[n][h]
    BY DEF IsPlan
  <2>4. Sum(most, C) = best * Sum(own, C)
    <3>1. \A c \in C : own[c] \in Int
      BY <2>1
    <3> HIDE DEF best, own
    <3> QED BY <1>1, <2>1, <3>1, TimesSum
  <2>5. \A c \in C : part[c] = own[c] * v[c][h] /\ most[c] = best * own[c]
    OBVIOUS
  <2>6. ASSUME NEW c \in C
        PROVE  part[c] \in Int /\ most[c] \in Int /\ part[c] <= most[c]
    <3>1. \A a \in Nat : \A b, d \in Int : b <= d => a * b \in Int /\ d * a \in Int /\ a * b <= d * a
      OBVIOUS
    <3> HIDE DEF part, own, most, best
    <3> QED BY <2>1, <2>2, <2>5, <3>1
  <2>7. ASSUME FollowsAt(x, n), NEW c \in C PROVE part[c] = most[c]
    <3>1. CASE c = ChildOf(n, policy[n][h])
      <4>1. v[c][h] = best
        BY <3>1
      <4>2. \A a, b \in Int : a * b = b * a
        OBVIOUS
      <4> HIDE DEF part, own, most, best
      <4> QED BY <2>1, <2>5, <4>1, <4>2
    <3>2. CASE c # ChildOf(n, policy[n][h])
      <4>1. own[c] = 0
        BY <2>7, <3>2 DEF FollowsAt
      <4>2. \A a \in Int : 0 * a = 0 /\ a * 0 = 0
        OBVIOUS
      <4> HIDE DEF part, own, most, best
      <4> QED BY <2>1, <2>5, <4>1, <4>2
    <3> QED BY <3>1, <3>2
  <2>8. f[h] = Sum(part, C) /\ f[h] \in Int
    BY <1>2, WeighedIs DEF Weighed
  <2>9. g[h] \in Int /\ g[h] = Sum(most, C)
    <3>1. \A a, b, d \in Int : a * (b * d) \in Int /\ d * (b * a) = a * (b * d)
      OBVIOUS
    <3> HIDE DEF part, own, most, best, g
    <3> QED BY <1>2, <2>1, <2>2, <2>3, <2>4, <3>1
  <2>10. Sum(part, C) <= Sum(most, C)
    <3> HIDE DEF part, most, C
    <3> QED BY <1>1, <2>6, SumMono
  <2>11. FollowsAt(x, n) => Sum(part, C) = Sum(most, C)
    <3> HIDE DEF part, most, C
    <3> QED BY <1>1, <2>6, <2>7, SumSame
  <2> HIDE DEF f, g, part, most
  <2> QED BY <2>8, <2>9, <2>10, <2>11
<1>5. Sum(f, S) <= Sum(g, S)
  <2> HIDE DEF f, g, S
  <2> QED BY <1>1, <1>4, SumMono
<1>6. FollowsAt(x, n) => Sum(f, S) = Sum(g, S)
  <2> HIDE DEF f, g, S
  <2> QED BY <1>1, <1>4, SumSame
<1>7. Sum(f, S) = WorthBelow(x, v, n)
  BY <1>2, WeighedIs
<1> QED BY <1>5, <1>6, <1>7 DEF Worth, Dot

-----------------------------------------------------------------------------
(***************************************************************************)
(* What a plan earns.                                                      *)
(***************************************************************************)
\* What is earned is what the plan is worth at the ends.
LEMMA EarnedIs ==
  ASSUME NEW p \in Player, NEW x, NEW v, \A n \in TerminalNodes : v[n] = TerminalCfv(p, n)
  PROVE  Earned(p, x) = Sum([n \in TerminalNodes |-> Worth(x, v, n)], TerminalNodes)
<1>1. \A n \in TerminalNodes : \A h \in HandsAt(n) :
        v[n][h] = Total([o \in HandsAt(n) |-> averageReach[1 - p][n][o] * game.pays[p][n][h][o]])
  BY DEF TerminalCfv
<1>2. \A n \in TerminalNodes :
        Total([h \in HandsAt(n) |-> x[n][h] *
          Total([o \in HandsAt(n) |-> averageReach[1 - p][n][o] * game.pays[p][n][h][o]])])
        = Worth(x, v, n)
  <2> TAKE n \in TerminalNodes
  <2> DEFINE f == [h \in HandsAt(n) |-> x[n][h] *
          Total([o \in HandsAt(n) |-> averageReach[1 - p][n][o] * game.pays[p][n][h][o]])]
  <2>1. f = [h \in HandsAt(n) |-> x[n][h] * v[n][h]]
    BY <1>1
  <2>2. DOMAIN f = HandsAt(n)
    OBVIOUS
  <2> HIDE DEF f
  <2>3. Total(f) = Sum([h \in HandsAt(n) |-> x[n][h] * v[n][h]], HandsAt(n))
    BY <2>1, <2>2, TotalIs
  <2> QED BY <2>3 DEF f, Worth, Dot
<1> DEFINE e == [n \in TerminalNodes |-> Total([h \in HandsAt(n) |-> x[n][h] *
          Total([o \in HandsAt(n) |-> averageReach[1 - p][n][o] * game.pays[p][n][h][o]])])]
<1>3. e = [n \in TerminalNodes |-> Worth(x, v, n)] /\ DOMAIN e = TerminalNodes
  BY <1>2
<1>4. Earned(p, x) = Total(e)
  BY DEF Earned
<1> HIDE DEF e
<1> QED BY <1>3, <1>4, TotalIs

\* At most what it is worth at the root, if no move is worth more than before it.
LEMMA EarnsAtMost ==
  ASSUME game \in Games, NEW p \in Player, NEW x, NEW v, IsReach(x), IsValue(v),
         \A n \in TerminalNodes : v[n] = TerminalCfv(p, n),
         \A n \in Nodes \ TerminalNodes : WorthBelow(x, v, n) <= Worth(x, v, n)
  PROVE  Earned(p, x) <= Worth(x, v, 0)
<1> DEFINE P == [n \in Nodes |-> Worth(x, v, n)]
<1>1. P \in [Nodes -> Int] /\ 0 \in Nodes
  BY WorthInt, GameTreeFacts
<1>2. ASSUME NEW n \in Nodes PROVE WorthBelow(x, v, n) = Sum(P, ChildrenOf(n))
  <2> DEFINE f == [c \in ChildrenOf(n) |-> Worth(x, v, c)]
  <2>1. IsFiniteSet(ChildrenOf(n)) /\ \A c \in ChildrenOf(n) : P[c] \in Int /\ f[c] = P[c]
    BY <1>1, GameTreeFacts
  <2> HIDE DEF f, P
  <2>2. Sum(f, ChildrenOf(n)) = Sum(P, ChildrenOf(n))
    BY <2>1, SumSame
  <2> QED BY <2>2 DEF f, WorthBelow
<1>3. Earned(p, x) = Sum(P, TerminalNodes)
  <2> DEFINE f == [n \in TerminalNodes |-> Worth(x, v, n)]
  <2>1. IsFiniteSet(TerminalNodes) /\ \A n \in TerminalNodes : P[n] \in Int /\ f[n] = P[n]
    BY <1>1, GameTreeFacts, FS_Subset DEF TerminalNodes
  <2>2. Earned(p, x) = Sum(f, TerminalNodes)
    BY EarnedIs
  <2> HIDE DEF f, P
  <2> QED BY <2>1, <2>2, SumSame
<1>4. \A n \in Nodes \ TerminalNodes : Sum(P, ChildrenOf(n)) <= P[n]
  BY <1>2
<1>5. P[0] = Worth(x, v, 0)
  BY <1>1
<1> HIDE DEF P
<1>6. Sum(P, TerminalNodes) <= P[0]
  BY <1>1, <1>4, Telescope
<1> QED BY <1>3, <1>5, <1>6

\* Exactly that, if every move is worth what was there before it.
LEMMA EarnsExactly ==
  ASSUME game \in Games, NEW p \in Player, NEW x, NEW v, IsReach(x), IsValue(v),
         \A n \in TerminalNodes : v[n] = TerminalCfv(p, n),
         \A n \in Nodes \ TerminalNodes : WorthBelow(x, v, n) = Worth(x, v, n)
  PROVE  Earned(p, x) = Worth(x, v, 0)
<1> DEFINE P == [n \in Nodes |-> Worth(x, v, n)]
           Q == [n \in Nodes |-> -Worth(x, v, n)]
           minus == -1
<1>1. P \in [Nodes -> Int] /\ Q \in [Nodes -> Int] /\ 0 \in Nodes /\ \A n \in Nodes : Q[n] = -P[n]
  BY WorthInt, GameTreeFacts
<1>2. ASSUME NEW S \in SUBSET Nodes PROVE Sum(Q, S) = -Sum(P, S) /\ Sum(P, S) \in Int
  <2>1. IsFiniteSet(S)
    BY GameTreeFacts, FS_Subset
  <2>2. \A n \in S : P[n] \in Int /\ Q[n] = minus * P[n]
    BY <1>1
  <2>3. minus \in Int /\ \A a \in Int : minus * a = -a
    OBVIOUS
  <2> HIDE DEF P, Q, minus
  <2>4. Sum(Q, S) = minus * Sum(P, S) /\ Sum(P, S) \in Int
    BY <2>1, <2>2, <2>3, SumTimes, SumInt
  <2> QED BY <2>3, <2>4
<1>3. ASSUME NEW n \in Nodes \ TerminalNodes PROVE Sum(P, ChildrenOf(n)) = P[n]
  <2> DEFINE f == [c \in ChildrenOf(n) |-> Worth(x, v, c)]
  <2>1. IsFiniteSet(ChildrenOf(n)) /\ \A c \in ChildrenOf(n) : P[c] \in Int /\ f[c] = P[c]
    BY <1>1, GameTreeFacts
  <2>2. P[n] = Worth(x, v, n)
    OBVIOUS
  <2> HIDE DEF f, P
  <2>3. Sum(f, ChildrenOf(n)) = Sum(P, ChildrenOf(n))
    BY <2>1, SumSame
  <2> QED BY <2>2, <2>3 DEF f, WorthBelow
<1>4. ASSUME NEW n \in Nodes \ TerminalNodes PROVE Sum(Q, ChildrenOf(n)) <= Q[n]
  <2>1. ChildrenOf(n) \in SUBSET Nodes
    BY GameTreeFacts
  <2>2. Sum(Q, ChildrenOf(n)) = -Sum(P, ChildrenOf(n)) /\ Q[n] = -P[n] /\ P[n] \in Int
    <3> HIDE DEF P, Q
    <3> QED BY <1>1, <1>2, <2>1
  <2> HIDE DEF P, Q
  <2> QED BY <1>1, <1>3, <2>2
<1>5. P[0] = Worth(x, v, 0)
  BY <1>1
<1> HIDE DEF P, Q
<1>6. Sum(Q, TerminalNodes) <= Q[0]
  BY <1>1, <1>4, Telescope
<1>7. Sum(Q, TerminalNodes) = -Sum(P, TerminalNodes) /\ Sum(P, TerminalNodes) \in Int
  BY <1>2 DEF TerminalNodes
<1>8. Sum(P, TerminalNodes) <= P[0]
  <2>1. \A n \in Nodes \ TerminalNodes : Sum(P, ChildrenOf(n)) <= P[n]
    BY <1>1, <1>3
  <2> QED BY <1>1, <2>1, Telescope
<1>9. Sum(P, TerminalNodes) = P[0]
  BY <1>1, <1>6, <1>7, <1>8
<1>10. Earned(p, x) = Sum(P, TerminalNodes)
  <2> DEFINE f == [n \in TerminalNodes |-> Worth(x, v, n)]
  <2>1. IsFiniteSet(TerminalNodes) /\ \A n \in TerminalNodes : P[n] \in Int /\ f[n] = P[n]
    BY <1>1, GameTreeFacts, FS_Subset DEF TerminalNodes, P
  <2>2. Earned(p, x) = Sum(f, TerminalNodes)
    BY EarnedIs
  <2> HIDE DEF f
  <2> QED BY <2>1, <2>2, SumSame
<1> QED BY <1>5, <1>9, <1>10

-----------------------------------------------------------------------------
(***************************************************************************)
(* The reaches of a strategy.                                              *)
(***************************************************************************)
OverCard(before, n, k) ==
  Total([h \in HandsAt(ParentOf(n)) |-> before[h] * game.weight[n][h][k]])
ReachAfter(before, p, s, n) ==
  [k \in HandsAt(n) |->
     IF Actor(ParentOf(n)) = ChancePlayer THEN OverCard(before, n, k)
     ELSE IF Actor(ParentOf(n)) = p THEN before[k] * s[n][k] ELSE before[k]]
ReachAt(reaches, p, s, n) ==
  IF n = 0 THEN game.belief[p] ELSE ReachAfter(reaches[ParentOf(n)], p, s, n)

\* The recursion from parents to children has a solution.
LEMMA ReachEquation ==
  ASSUME game \in Games, NEW p \in Player, NEW s
  PROVE  \A n \in Nodes : ReachOf(p, s)[n] = ReachAt(ReachOf(p, s), p, s, n)
<1> DEFINE Body(f, n) == ReachAt(f, p, s, n)
           Upto == {i \in Nat : \E f : \A n \in Nodes : n <= i => f[n] = Body(f, n)}
           Equation(f) == f = [n \in Nodes |-> Body(f, n)]
<1>1. \A f, g : \A n \in Nodes : (n # 0 => f[ParentOf(n)] = g[ParentOf(n)]) => Body(f, n) = Body(g, n)
  BY DEF ReachAt
<1>2. \A n \in Nodes : n \in Nat /\ (n # 0 => ParentOf(n) \in Nodes /\ ParentOf(n) < n)
  BY GameTreeFacts
<1>3. 0 \in Upto
  <2> DEFINE f == [n \in Nodes |-> game.belief[p]]
  <2>1. \A n \in Nodes : n <= 0 => f[n] = Body(f, n)
    BY <1>2 DEF ReachAt
  <2> HIDE DEF f, Body
  <2> QED BY <2>1
<1>4. ASSUME NEW i \in Nat, i \in Upto PROVE i + 1 \in Upto
  <2>1. PICK f : \A n \in Nodes : n <= i => f[n] = Body(f, n)
    BY <1>4
  <2> DEFINE g == [n \in Nodes |-> IF n <= i THEN f[n] ELSE Body(f, n)]
  <2> HIDE DEF Body, Upto
  <2>2. ASSUME NEW n \in Nodes, n <= i + 1 PROVE g[n] = Body(g, n)
    <3>1. n # 0 => g[ParentOf(n)] = f[ParentOf(n)]
      BY <1>2, <2>2
    <3>2. Body(g, n) = Body(f, n)
      <4> HIDE DEF g
      <4> QED BY <1>1, <3>1
    <3> QED BY <2>1, <3>2
  <2>3. \E h : \A n \in Nodes : n <= i + 1 => h[n] = Body(h, n)
    <3> HIDE DEF g
    <3> QED BY <2>2
  <2> QED BY <2>3 DEF Upto
<1>5. Nat \subseteq Upto
  <2> HIDE DEF Upto
  <2> QED BY <1>3, <1>4, NatInduct
<1>6. \E f : Equation(f)
  <2>1. game.tree.size \in Upto /\ \A n \in Nodes : n <= game.tree.size
    BY <1>5, GameTreeFacts
  <2>2. PICK f : \A n \in Nodes : n <= game.tree.size => f[n] = Body(f, n)
    BY <2>1
  <2> DEFINE g == [n \in Nodes |-> f[n]]
  <2> HIDE DEF Body, Upto
  <2>3. ASSUME NEW n \in Nodes PROVE g[n] = Body(g, n)
    <3>1. n # 0 => g[ParentOf(n)] = f[ParentOf(n)]
      BY <1>2
    <3>2. Body(g, n) = Body(f, n)
      <4> HIDE DEF g
      <4> QED BY <1>1, <3>1
    <3> QED BY <2>1, <2>2, <3>2
  <2>4. g = [n \in Nodes |-> g[n]]
    OBVIOUS
  <2>5. Equation(g)
    <3> HIDE DEF g
    <3> QED BY <2>3, <2>4
  <2> HIDE DEF Equation
  <2> QED BY <2>5
<1> DEFINE r == CHOOSE f : Equation(f)
<1>7. Equation(r)
  <2> HIDE DEF Equation
  <2> QED BY <1>6
<1>8. ReachOf(p, s) = [n \in Nodes |-> r[n]]
  BY DEF ReachOf, ReachAt, ReachAfter, OverCard
<1>9. ReachOf(p, s) = r
  <2> HIDE DEF r, Body
  <2>1. r = [n \in Nodes |-> Body(r, n)]
    BY <1>7
  <2> QED BY <1>8, <2>1
<1> HIDE DEF r, Body
<1>10. r = [n \in Nodes |-> Body(r, n)]
  BY <1>7
<1>11. \A n \in Nodes : r[n] = Body(r, n)
  BY <1>10
<1> QED BY <1>9, <1>11 DEF Body

\* What being a strategy says of each node's children.
LEMMA StrategyFacts ==
  ASSUME game \in Games, NEW p \in Player, NEW s, IsStrategy(game, p, s)
  PROVE  \A n \in Nodes : Actor(n) = p =>
           /\ \A c \in ChildrenOf(n) : s[c] \in [HandsAt(c) -> Nat]
           /\ \A h \in HandsAt(n) :
                Sum([c \in ChildrenOf(n) |-> s[c][h]], ChildrenOf(n)) = game.unit
<1> SUFFICES ASSUME NEW n \in Nodes, Actor(n) = p
             PROVE  /\ \A c \in ChildrenOf(n) : s[c] \in [HandsAt(c) -> Nat]
                    /\ \A h \in HandsAt(n) :
                         Sum([c \in ChildrenOf(n) |-> s[c][h]], ChildrenOf(n)) = game.unit
  OBVIOUS
<1>1. \A c \in ChildrenOf(n) : c \in MovesIn(game.tree, p)
  <2> TAKE c \in ChildrenOf(n)
  <2>1. c \in Nodes \ {0} /\ ParentOf(c) = n
    BY GameTreeFacts
  <2> QED BY <2>1 DEF MovesIn, Nodes, ParentOf, Actor
<1>2. \A c \in ChildrenOf(n) : s[c] \in [HandsAt(c) -> Nat]
  BY <1>1 DEF IsStrategy, HandsAt
<1>3. \A h \in HandsAt(n) : Total([c \in ChildrenOf(n) |-> s[c][h]]) = game.unit
  BY DEF IsStrategy, HandsAt, Nodes, Actor, ChildrenOf
<1>4. ASSUME NEW h \in HandsAt(n)
      PROVE  Sum([c \in ChildrenOf(n) |-> s[c][h]], ChildrenOf(n)) = game.unit
  <2> DEFINE f == [c \in ChildrenOf(n) |-> s[c][h]]
  <2>1. DOMAIN f = ChildrenOf(n) /\ Total(f) = game.unit
    BY <1>3
  <2> HIDE DEF f
  <2>2. Sum(f, ChildrenOf(n)) = game.unit
    BY <2>1, TotalIs
  <2> QED BY <2>2 DEF f
<1> QED BY <1>2, <1>4

\* The reaches of a strategy are a plan, which follows it.
LEMMA ReachIsPlan ==
  ASSUME game \in Games, NEW p \in Player, NEW s, IsStrategy(game, p, s)
  PROVE  /\ IsPlan(p, ReachOf(p, s))
         /\ \A n \in Nodes : Actor(n) = p => \A c \in ChildrenOf(n), h \in HandsAt(n) :
              ReachOf(p, s)[c][h] = ReachOf(p, s)[n][h] * s[c][h]
<1> DEFINE x == ReachOf(p, s)
           Upto == {i \in Nat : \A n \in Nodes : n <= i => x[n] \in [HandsAt(n) -> Nat]}
<1>1. \A n \in Nodes : x[n] = ReachAt(x, p, s, n)
  BY ReachEquation
<1> HIDE DEF x
<1>2. x[0] = game.belief[p]
  BY <1>1, GameTreeFacts DEF ReachAt
<1>3. ASSUME NEW n \in Nodes, NEW c \in ChildrenOf(n)
      PROVE  /\ c \in Nodes \ {0} /\ ParentOf(c) = n
             /\ x[c] = ReachAfter(x[n], p, s, c)
             /\ x[c] = [k \in HandsAt(c) |-> x[c][k]]
  <2>1. c \in Nodes \ {0} /\ ParentOf(c) = n
    BY GameTreeFacts
  <2>2. x[c] = ReachAfter(x[n], p, s, c)
    BY <1>1, <2>1 DEF ReachAt
  <2> QED BY <2>1, <2>2 DEF ReachAfter
<1>4. ASSUME NEW n \in Nodes, Actor(n) = ChancePlayer, NEW c \in ChildrenOf(n), NEW k \in HandsAt(c)
      PROVE  x[c][k] = Sum([h \in HandsAt(n) |-> x[n][h] * game.weight[c][h][k]], HandsAt(n))
  <2> DEFINE f == [h \in HandsAt(n) |-> x[n][h] * game.weight[c][h][k]]
  <2>0. x[c] = ReachAfter(x[n], p, s, c) /\ ParentOf(c) = n
    BY <1>3
  <2>3. x[c][k] = OverCard(x[n], c, k)
    BY <1>4, <2>0 DEF ReachAfter
  <2>1. x[c][k] = Total(f) /\ DOMAIN f = HandsAt(n)
    BY <2>0, <2>3 DEF OverCard
  <2> HIDE DEF f
  <2>2. x[c][k] = Sum(f, HandsAt(n))
    BY <2>1, TotalIs
  <2> QED BY <2>2 DEF f
<1>5. ASSUME NEW n \in Nodes, Actor(n) \in Player, NEW c \in ChildrenOf(n), NEW h \in HandsAt(n)
      PROVE  x[c][h] = IF Actor(n) = p THEN x[n][h] * s[c][h] ELSE x[n][h]
  <2>1. HandsAt(c) = HandsAt(n)
    BY <1>5, GameTreeFacts
  <2>2. Actor(n) # ChancePlayer
    BY <1>5 DEF Player, ChancePlayer
  <2>3. h \in HandsAt(c)
    BY <2>1
  <2>4. x[c] = ReachAfter(x[n], p, s, c) /\ ParentOf(c) = n
    BY <1>3
  <2> QED BY <2>2, <2>3, <2>4 DEF ReachAfter
<1>6. ASSUME NEW i \in Nat, i \in Upto PROVE i + 1 \in Upto
  <2>1. ASSUME NEW c \in Nodes, c <= i + 1 PROVE x[c] \in [HandsAt(c) -> Nat]
    <3>1. CASE c = 0
      BY <1>2, <3>1, GameTableFacts
    <3>2. CASE c # 0
      <4> DEFINE n == ParentOf(c)
      <4>1. n \in Nodes /\ n < c /\ c \in ChildrenOf(n) /\ n \in Nat /\ c \in Nat
        BY <3>2, GameTreeFacts
      <4>2. x[n] \in [HandsAt(n) -> Nat]
        BY <1>6, <2>1, <4>1
      <4>3. Actor(n) \in Player \cup {ChancePlayer}
        BY <4>1, GameTreeFacts
      <4> HIDE DEF n
      <4>4. x[c] = [k \in HandsAt(c) |-> x[c][k]]
        BY <1>3, <4>1
      <4>5. ASSUME NEW k \in HandsAt(c) PROVE x[c][k] \in Nat
        <5>1. CASE Actor(n) = ChancePlayer
          <6> DEFINE f == [h \in HandsAt(n) |-> x[n][h] * game.weight[c][h][k]]
          <6>0. \A a, b \in Nat : a * b \in Nat
            OBVIOUS
          <6>1. \A h \in HandsAt(n) : x[n][h] \in Nat /\ game.weight[c][h][k] \in Nat
            BY <4>1, <4>2, <5>1, GameTableFacts
          <6>2. IsFiniteSet(HandsAt(n)) /\ \A h \in HandsAt(n) : f[h] \in Nat
            BY <4>1, <6>0, <6>1, GameTreeFacts
          <6>3. x[c][k] = Sum(f, HandsAt(n))
            BY <1>4, <4>1, <5>1
          <6> HIDE DEF f
          <6> QED BY <6>2, <6>3, SumNat
        <5>2. CASE Actor(n) \in Player
          <6>1. HandsAt(c) = HandsAt(n)
            BY <4>1, <5>2, GameTreeFacts
          <6>2. x[n][k] \in Nat
            BY <4>2, <6>1
          <6>3. Actor(n) = p => s[c][k] \in Nat
            BY <4>1, StrategyFacts
          <6>4. \A a, b \in Nat : a * b \in Nat
            OBVIOUS
          <6> QED BY <1>5, <4>1, <5>2, <6>1, <6>2, <6>3, <6>4
        <5> QED BY <4>3, <5>1, <5>2
      <4> QED BY <4>4, <4>5
    <3> QED BY <3>1, <3>2
  <2> QED BY <2>1
<1>7. IsReach(x)
  <2>1. 0 \in Upto
    BY <1>2, GameTableFacts, GameTreeFacts
  <2>2. Nat \subseteq Upto
    <3> HIDE DEF Upto
    <3> QED BY <1>6, <2>1, NatInduct
  <2> QED BY <2>2, GameTreeFacts DEF IsReach
<1>8. ASSUME NEW n \in Nodes, Actor(n) = p, NEW h \in HandsAt(n)
      PROVE  Sum([c \in ChildrenOf(n) |-> x[c][h]], ChildrenOf(n)) = game.unit * x[n][h]
  <2> DEFINE C == ChildrenOf(n)
             f == [c \in C |-> s[c][h]]
  <2>1. IsFiniteSet(C) /\ x[n][h] \in Int /\ \A c \in C : f[c] \in Int /\ x[c][h] = x[n][h] * f[c]
    BY <1>5, <1>7, <1>8, StrategyFacts, GameTreeFacts DEF IsReach
  <2>2. Sum(f, C) = game.unit /\ game.unit \in Int
    BY <1>8, StrategyFacts, GameTableFacts
  <2>3. [c \in C |-> x[c][h]] = [c \in C |-> x[n][h] * f[c]]
    BY <2>1
  <2> HIDE DEF f, C
  <2>4. x[n][h] * Sum(f, C) = Sum([c \in C |-> x[n][h] * f[c]], C)
    BY <2>1, TimesSum
  <2>5. x[n][h] * game.unit = game.unit * x[n][h]
    BY <2>1, <2>2
  <2> QED BY <2>2, <2>3, <2>4, <2>5 DEF C
<1>9. \A n \in Nodes : Actor(n) = p => \A c \in ChildrenOf(n), h \in HandsAt(n) :
        x[c][h] = x[n][h] * s[c][h]
  BY <1>5
<1>10. \A n \in Nodes : Actor(n) = 1 - p => \A c \in ChildrenOf(n), h \in HandsAt(n) :
        x[c][h] = x[n][h]
  BY <1>5 DEF Player
<1> QED BY <1>2, <1>4, <1>7, <1>8, <1>9, <1>10 DEF x, IsPlan

-----------------------------------------------------------------------------
(***************************************************************************)
(* The first of the most.                                                  *)
(***************************************************************************)
\* Among finitely many numbers one is the first that no other exceeds.
LEMMA FirstMost ==
  ASSUME NEW m \in Nat \ {0}, NEW f, \A b \in 0 .. m - 1 : f[b] \in Int
  PROVE  \E a \in 0 .. m - 1 : /\ \A b \in 0 .. m - 1 : f[b] <= f[a]
                               /\ \A b \in 0 .. a - 1 : f[b] < f[a]
<1> DEFINE First(a, k) == /\ a \in 0 .. k - 1
                          /\ \A b \in 0 .. k - 1 : f[b] <= f[a]
                          /\ \A b \in 0 .. a - 1 : f[b] < f[a]
           N == {k \in Nat : k \in 1 .. m => \E a \in 0 .. k - 1 : First(a, k)}
<1>1. 0 \in N
  OBVIOUS
<1>2. ASSUME NEW k \in Nat, k \in N PROVE k + 1 \in N
  <2> SUFFICES ASSUME k + 1 \in 1 .. m PROVE \E a \in 0 .. k : First(a, k + 1)
    OBVIOUS
  <2>0. \A b \in 0 .. k : f[b] \in Int
    OBVIOUS
  <2>1. CASE k = 0
    <3>1. First(0, k + 1)
      BY <2>0, <2>1
    <3> QED BY <3>1
  <2>2. CASE k # 0
    <3>1. PICK a \in 0 .. k - 1 : First(a, k)
      BY <1>2, <2>2
    <3>2. CASE f[k] <= f[a]
      <4>1. First(a, k + 1)
        BY <2>0, <3>1, <3>2
      <4> QED BY <4>1
    <3>3. CASE f[a] < f[k]
      <4>1. First(k, k + 1)
        BY <2>0, <3>1, <3>3
      <4> QED BY <4>1
    <3>4. f[k] <= f[a] \/ f[a] < f[k]
      BY <2>0, <3>1
    <3> QED BY <3>2, <3>3, <3>4
  <2> QED BY <2>1, <2>2
<1>3. m \in N
  <2> HIDE DEF N
  <2> QED BY <1>1, <1>2, NatInduct
<1> QED BY <1>3

-----------------------------------------------------------------------------
(***************************************************************************)
(* Ways to play.                                                           *)
(***************************************************************************)
\* No node has more actions than MostActions.
LEMMA MostIsMost ==
  ASSUME game \in Games
  PROVE  MostActions \in Nat /\ \A n \in Nodes : game.tree.count[n] <= MostActions
<1> DEFINE S == {game.tree.count[n] : n \in Nodes}
<1>1. /\ game.tree.size \in Nat \ {0} /\ Nodes = 0 .. game.tree.size - 1
      /\ \A n \in Nodes : game.tree.count[n] \in Nat
  BY GameTreeFacts
<1>2. PICK a \in 0 .. game.tree.size - 1 :
        \A b \in 0 .. game.tree.size - 1 : game.tree.count[b] <= game.tree.count[a]
  <2>1. \A b \in 0 .. game.tree.size - 1 : game.tree.count[b] \in Int
    BY <1>1
  <2> QED BY <1>1, <2>1, FirstMost
<1>3. \E x \in S : \A y \in S : x >= y
  BY <1>1, <1>2
<1>4. MostActions \in S /\ \A y \in S : MostActions >= y
  BY <1>3 DEF MostActions, Max
<1> QED BY <1>1, <1>4

\* A sure action at every spot is a strategy.
LEMMA PureIsStrategy ==
  ASSUME game \in Games, NEW p \in Player, NEW f \in Plays(p)
  PROVE  /\ IsStrategy(game, p, Pure(p, f))
         /\ \A n \in Nodes : Actor(n) = p => \A c \in ChildrenOf(n), h \in HandsAt(n) :
              c # ChildOf(n, f[<<n, h>>]) => Pure(p, f)[c][h] = 0
<1> DEFINE s == Pure(p, f)
<1>1. DOMAIN s = MovesOf(p)
  BY DEF Pure
<1>2. game.unit \in Nat
  BY GameTableFacts
<1>3. \A c \in MovesOf(p) : s[c] = [h \in HandsAt(c) |->
        IF c = ChildOf(ParentOf(c), f[<<ParentOf(c), h>>]) THEN game.unit ELSE 0]
  BY DEF Pure
<1>4. \A c \in MovesOf(p) : s[c] \in [HandsAt(c) -> Nat]
  <2> TAKE c \in MovesOf(p)
  <2> DEFINE r == [h \in HandsAt(c) |->
                    IF c = ChildOf(ParentOf(c), f[<<ParentOf(c), h>>]) THEN game.unit ELSE 0]
  <2>1. r \in [HandsAt(c) -> Nat]
    BY <1>2
  <2>2. s[c] = r
    BY <1>3
  <2> HIDE DEF r, s
  <2> QED BY <2>1, <2>2
<1>5. ASSUME NEW n \in Nodes, Actor(n) = p, NEW h \in HandsAt(n), NEW c \in ChildrenOf(n)
      PROVE  c \in MovesOf(p) /\ s[c][h] = IF c = ChildOf(n, f[<<n, h>>]) THEN game.unit ELSE 0
  <2>1. c \in Nodes \ {0} /\ ParentOf(c) = n /\ HandsAt(c) = HandsAt(n)
    BY <1>5, GameTreeFacts
  <2>2. c \in MovesOf(p)
    BY <1>5, <2>1 DEF MovesOf, MovesIn, Nodes, ParentOf, Actor
  <2> HIDE DEF s
  <2> QED BY <1>3, <2>1, <2>2
<1>6. ASSUME NEW n \in Nodes, Actor(n) = p, NEW h \in HandsAt(n)
      PROVE  Total([c \in ChildrenOf(n) |-> s[c][h]]) = game.unit
  <2> DEFINE e == ChildOf(n, f[<<n, h>>])
             t == [c \in ChildrenOf(n) |-> s[c][h]]
  <2>1. <<n, h>> \in Spots(p)
    BY <1>6 DEF Spots
  <2>2. f[<<n, h>>] \in Nat /\ f[<<n, h>>] < game.tree.count[n]
    BY <2>1, MostIsMost DEF Plays
  <2>3. e \in ChildrenOf(n)
    BY <2>2, GameTreeFacts DEF ChildOf, ChildrenOf, Children
  <2>4. t[e] = game.unit /\ \A c \in ChildrenOf(n) \ {e} : t[c] = 0
    BY <1>5, <1>6, <2>3
  <2>5. DOMAIN t = ChildrenOf(n) /\ IsFiniteSet(ChildrenOf(n))
    BY GameTreeFacts
  <2> HIDE DEF t, e
  <2>6. Sum(t, ChildrenOf(n)) = game.unit
    BY <1>2, <2>3, <2>4, <2>5, SumOne
  <2>7. Total(t) = game.unit
    BY <2>5, <2>6, TotalIs
  <2> QED BY <2>7 DEF t
<1>7. \A n \in Nodes : Actor(n) = p => \A c \in ChildrenOf(n), h \in HandsAt(n) :
        c # ChildOf(n, f[<<n, h>>]) => s[c][h] = 0
  BY <1>5
<1> HIDE DEF s
<1>8. IsStrategy(game, p, s)
  BY <1>1, <1>4, <1>6 DEF IsStrategy, MovesOf, HandsAt, Nodes, Actor, ChildrenOf
<1> QED BY <1>7, <1>8 DEF s

-----------------------------------------------------------------------------
(***************************************************************************)
(* The values of a node as functions of the game and the tables.           *)
(***************************************************************************)
TerminalsOf(g, reaches, p, n) ==
  [h \in HandsOf(g.tree, n) |->
     Total([o \in HandsOf(g.tree, n) |-> reaches[1 - p][n][o] * g.pays[p][n][h][o]])]
CardOf(g, values, c, h) == Total([k \in HandsOf(g.tree, c) |-> values[k] * g.weight[c][h][k]])
CardsOf(g, v, n) ==
  [h \in HandsOf(g.tree, n) |-> Total([c \in Children(g.tree, n) |-> CardOf(g, v[c], c, h)])]
ActionsOf(g, v, n) ==
  [h \in HandsOf(g.tree, n) |-> Total([c \in Children(g.tree, n) |-> v[c][h]])]
StrategyOf(g, s, v, n) ==
  [h \in HandsOf(g.tree, n) |-> Total([c \in Children(g.tree, n) |-> s[c][h] * v[c][h]])]
RespondsIn(g, pol, v, n) ==
  \A h \in HandsOf(g.tree, n) :
    /\ pol[n][h] \in 0 .. g.tree.count[n] - 1
    /\ v[n][h] = g.unit * v[g.tree.offset[n] + pol[n][h]][h]
    /\ \A c \in Children(g.tree, n) : v[c][h] <= v[g.tree.offset[n] + pol[n][h]][h]
EarnedOf(g, reaches, p, x) ==
  LET ends == {n \in NodeIds(g.tree) : g.tree.actor[n] = TerminalPlayer}
  IN  Total([n \in ends |-> Total([h \in HandsOf(g.tree, n) |-> x[n][h] *
        Total([o \in HandsOf(g.tree, n) |-> reaches[1 - p][n][o] * g.pays[p][n][h][o]])])])

\* The operators of BestResponse are these functions.
LEMMA ValuesAre ==
  /\ \A p, n : TerminalCfv(p, n) = TerminalsOf(game, averageReach, p, n)
  /\ \A v, n : OverCards(v, n) = CardsOf(game, v, n)
  /\ \A v, n : OverActions(v, n) = ActionsOf(game, v, n)
  /\ \A v, n : ByStrategy(v, n) = StrategyOf(game, average[Actor(n)], v, n)
  /\ \A v, n : RespondsAt(v, n) <=> RespondsIn(game, policy, v, n)
  /\ \A p, x : Earned(p, x) = EarnedOf(game, averageReach, p, x)
<1> USE DEF HandsAt, ChildrenOf
<1>1. \A p, n : TerminalCfv(p, n) = TerminalsOf(game, averageReach, p, n)
  BY DEF TerminalCfv, TerminalsOf
<1>2. \A v, n : OverCards(v, n) = CardsOf(game, v, n)
  BY DEF OverCards, CardsOf, CardOf
<1>3. \A v, n : OverActions(v, n) = ActionsOf(game, v, n)
  BY DEF OverActions, ActionsOf
<1>4. \A v, n : ByStrategy(v, n) = StrategyOf(game, average[Actor(n)], v, n)
  BY DEF ByStrategy, StrategyOf
<1>5. \A v, n : RespondsAt(v, n) <=> RespondsIn(game, policy, v, n)
  BY DEF RespondsAt, RespondsIn, ChildOf
<1>6. \A p, x : Earned(p, x) = EarnedOf(game, averageReach, p, x)
  BY DEF Earned, EarnedOf, TerminalNodes, Nodes, Actor
<1> QED BY <1>1, <1>2, <1>3, <1>4, <1>5, <1>6

\* A node's values come from its children's.
LEMMA ValuesLocal ==
  ASSUME NEW g, NEW n, NEW v, NEW w, \A c \in Children(g.tree, n) : v[c] = w[c]
  PROVE  /\ CardsOf(g, v, n) = CardsOf(g, w, n)
         /\ ActionsOf(g, v, n) = ActionsOf(g, w, n)
         /\ \A s : StrategyOf(g, s, v, n) = StrategyOf(g, s, w, n)
<1>1. \A h : [c \in Children(g.tree, n) |-> CardOf(g, v[c], c, h)]
           = [c \in Children(g.tree, n) |-> CardOf(g, w[c], c, h)]
  OBVIOUS
<1>2. \A h : [c \in Children(g.tree, n) |-> v[c][h]] = [c \in Children(g.tree, n) |-> w[c][h]]
  OBVIOUS
<1>3. \A s, h : [c \in Children(g.tree, n) |-> s[c][h] * v[c][h]]
              = [c \in Children(g.tree, n) |-> s[c][h] * w[c][h]]
  OBVIOUS
<1>4. CardsOf(g, v, n) = CardsOf(g, w, n)
  BY <1>1 DEF CardsOf
<1>5. ActionsOf(g, v, n) = ActionsOf(g, w, n)
  BY <1>2 DEF ActionsOf
<1>6. \A s : StrategyOf(g, s, v, n) = StrategyOf(g, s, w, n)
  BY <1>3 DEF StrategyOf
<1> QED BY <1>4, <1>5, <1>6

\* Sums of whole values are whole.
LEMMA ValuesInt ==
  ASSUME game \in Games, average \in game.strategies, NEW v, IsValue(v), NEW n \in Nodes
  PROVE  /\ Actor(n) = ChancePlayer => OverCards(v, n) \in [HandsAt(n) -> Int]
         /\ Actor(n) \in Player => OverActions(v, n) \in [HandsAt(n) -> Int]
         /\ Actor(n) \in Player => ByStrategy(v, n) \in [HandsAt(n) -> Int]
<1>1. IsFiniteSet(ChildrenOf(n)) /\ \A c \in ChildrenOf(n) : c \in Nodes /\ IsFiniteSet(HandsAt(c))
  BY GameTreeFacts
<1>2. ASSUME Actor(n) = ChancePlayer, NEW h \in HandsAt(n) PROVE OverCards(v, n)[h] \in Int
  <2> DEFINE f == [c \in ChildrenOf(n) |->
                    Sum([k \in HandsAt(c) |-> v[c][k] * game.weight[c][h][k]], HandsAt(c))]
  <2>1. ASSUME NEW c \in ChildrenOf(n) PROVE f[c] \in Int
    <3> DEFINE e == [k \in HandsAt(c) |-> v[c][k] * game.weight[c][h][k]]
    <3>1. \A k \in HandsAt(c) : v[c][k] \in Int /\ game.weight[c][h][k] \in Int
      BY <1>1, <1>2, GameTableFacts DEF IsValue
    <3>2. \A k \in HandsAt(c) : e[k] \in Int
      BY <3>1, ProductInt
    <3>3. f[c] = Sum(e, HandsAt(c))
      OBVIOUS
    <3> HIDE DEF e, f
    <3> QED BY <1>1, <3>2, <3>3, SumInt
  <2>2. OverCards(v, n)[h] = Sum(f, ChildrenOf(n))
    BY CfvsAre
  <2> HIDE DEF f
  <2> QED BY <1>1, <2>1, <2>2, SumInt
<1>3. ASSUME Actor(n) \in Player, NEW h \in HandsAt(n) PROVE OverActions(v, n)[h] \in Int
  <2> DEFINE f == [c \in ChildrenOf(n) |-> v[c][h]]
  <2>1. \A c \in ChildrenOf(n) : f[c] \in Int
    BY <1>1, <1>3, GameTreeFacts DEF IsValue
  <2>2. OverActions(v, n)[h] = Sum(f, ChildrenOf(n))
    BY CfvsAre
  <2> HIDE DEF f
  <2> QED BY <1>1, <2>1, <2>2, SumInt
<1>4. ASSUME Actor(n) \in Player, NEW h \in HandsAt(n) PROVE ByStrategy(v, n)[h] \in Int
  <2> DEFINE f == [c \in ChildrenOf(n) |-> average[Actor(n)][c][h] * v[c][h]]
  <2>0. \A c \in ChildrenOf(n) : h \in HandsAt(c)
    BY <1>4, GameTreeFacts
  <2>1. \A c \in ChildrenOf(n) : v[c][h] \in Int
    BY <1>1, <2>0 DEF IsValue
  <2>2. IsStrategy(game, Actor(n), average[Actor(n)])
    BY <1>4, GamesAssumption DEF IsGame
  <2>3. \A c \in ChildrenOf(n) : average[Actor(n)][c][h] \in Int
    BY <1>4, <2>0, <2>2, StrategyFacts
  <2>4. \A c \in ChildrenOf(n) : f[c] \in Int
    BY <2>1, <2>3, ProductInt
  <2>5. ByStrategy(v, n)[h] = Sum(f, ChildrenOf(n))
    BY CfvsAre
  <2> HIDE DEF f
  <2> QED BY <1>1, <2>4, <2>5, SumInt
<1>5. OverCards(v, n) = [h \in HandsAt(n) |-> OverCards(v, n)[h]]
  BY DEF OverCards
<1>6. OverActions(v, n) = [h \in HandsAt(n) |-> OverActions(v, n)[h]]
  BY DEF OverActions
<1>7. ByStrategy(v, n) = [h \in HandsAt(n) |-> ByStrategy(v, n)[h]]
  BY DEF ByStrategy
<1> QED BY <1>2, <1>3, <1>4, <1>5, <1>6, <1>7

\* So are the values of the ends.
LEMMA TerminalInt ==
  ASSUME game \in Games, NEW p \in Player, IsReach(averageReach[1 - p]), NEW n \in TerminalNodes
  PROVE  TerminalCfv(p, n) \in [HandsAt(n) -> Int]
<1>1. n \in Nodes /\ IsFiniteSet(HandsAt(n))
  BY GameTreeFacts DEF TerminalNodes
<1>2. ASSUME NEW h \in HandsAt(n)
      PROVE  Total([o \in HandsAt(n) |-> averageReach[1 - p][n][o] * game.pays[p][n][h][o]]) \in Int
  <2> DEFINE f == [o \in HandsAt(n) |-> averageReach[1 - p][n][o] * game.pays[p][n][h][o]]
  <2>1. \A o \in HandsAt(n) : averageReach[1 - p][n][o] \in Int /\ game.pays[p][n][h][o] \in Int
    BY <1>1, GameTableFacts DEF IsReach
  <2>2. DOMAIN f = HandsAt(n) /\ \A o \in HandsAt(n) : f[o] \in Int
    BY <2>1, ProductInt
  <2> HIDE DEF f
  <2>3. Total(f) \in Int
    BY <1>1, <2>2, TotalIs, SumInt
  <2> QED BY <2>3 DEF f
<1> QED BY <1>2 DEF TerminalCfv

-----------------------------------------------------------------------------
(***************************************************************************)
(* What the two passes compute, when they are through.                     *)
(***************************************************************************)
PlanIn(g, p, x) ==
  /\ \A n \in NodeIds(g.tree) : x[n] \in [HandsOf(g.tree, n) -> Nat]
  /\ x[0] = g.belief[p]
  /\ \A n \in NodeIds(g.tree), c \in NodeIds(g.tree) : c \in Children(g.tree, n) =>
       /\ g.tree.actor[n] = ChancePlayer => \A k \in HandsOf(g.tree, c) :
            x[c][k] = Sum([h \in HandsOf(g.tree, n) |-> x[n][h] * g.weight[c][h][k]],
                          HandsOf(g.tree, n))
       /\ g.tree.actor[n] = 1 - p => \A h \in HandsOf(g.tree, n) : x[c][h] = x[n][h]
  /\ \A n \in NodeIds(g.tree) : g.tree.actor[n] = p => \A h \in HandsOf(g.tree, n) :
       Sum([c \in Children(g.tree, n) |-> x[c][h]], Children(g.tree, n)) = g.unit * x[n][h]
KeepsTo(g, p, s, x) ==
  \A n \in NodeIds(g.tree) : g.tree.actor[n] = p =>
    \A c \in Children(g.tree, n), h \in HandsOf(g.tree, n) : x[c][h] = x[n][h] * s[c][h]
RootValue(g, p, v) == Dot(g.belief[p], v[0], HandsOf(g.tree, 0))

\* The equations of a node's values, in the average and in the response pass.
AveragesIn(g, reaches, s, p, v, n) ==
  /\ g.tree.actor[n] = TerminalPlayer => v[n] = TerminalsOf(g, reaches, p, n)
  /\ g.tree.actor[n] = ChancePlayer => v[n] = CardsOf(g, v, n)
  /\ g.tree.actor[n] = 1 - p => v[n] = ActionsOf(g, v, n)
  /\ g.tree.actor[n] = p => v[n] = StrategyOf(g, s, v, n)
AnswersIn(g, reaches, pol, p, v, n) ==
  /\ g.tree.actor[n] = TerminalPlayer => v[n] = TerminalsOf(g, reaches, p, n)
  /\ g.tree.actor[n] = ChancePlayer => v[n] = CardsOf(g, v, n)
  /\ g.tree.actor[n] = 1 - p => v[n] = ActionsOf(g, v, n)
  /\ g.tree.actor[n] = p => RespondsIn(g, pol, v, n)

\* The two ways to say that reaches are a plan agree.
LEMMA PlanIs == \A p, x : IsPlan(p, x) <=> PlanIn(game, p, x)
BY DEF IsPlan, PlanIn, IsReach, Nodes, HandsAt, ChildrenOf, Actor

\* Every plan starts from the belief.
LEMMA RootValues ==
  ASSUME game \in Games, NEW p \in Player, NEW x, IsPlan(p, x), NEW v, IsValue(v)
  PROVE  /\ RootValue(game, p, v) \in Int
         /\ Worth(x, v, 0) = RootValue(game, p, v)
         /\ averageReach[p] = x => RangeEv(p, v) = RootValue(game, p, v)
<1>1. Worth(x, v, 0) = RootValue(game, p, v)
  BY DEF Worth, RootValue, IsPlan, HandsAt
<1>2. Worth(x, v, 0) \in Int
  BY WorthInt, GameTreeFacts DEF IsPlan
<1>3. ASSUME averageReach[p] = x PROVE RangeEv(p, v) = Worth(x, v, 0)
  <2> DEFINE f == [h \in HandsAt(0) |-> x[0][h] * v[0][h]]
  <2>1. RangeEv(p, v) = Total(f) /\ Worth(x, v, 0) = Sum(f, HandsAt(0)) /\ DOMAIN f = HandsAt(0)
    BY <1>3 DEF RangeEv, Worth, Dot
  <2> HIDE DEF f
  <2> QED BY <2>1, TotalIs
<1> QED BY <1>1, <1>2, <1>3

\* No plan earns more than the response's value, and one that follows the
\* response earns it.
LEMMA BestAnswer ==
  ASSUME game \in Games, NEW p \in Player, NEW v, IsValue(v), NEW x, IsPlan(p, x),
         \A n \in Nodes : AnswersIn(game, averageReach, policy, p, v, n)
  PROVE  /\ Earned(p, x) <= RootValue(game, p, v)
         /\ (\A n \in Nodes : Actor(n) = p => FollowsAt(x, n)) => Earned(p, x) = RootValue(game, p, v)
<1>1. \A n \in TerminalNodes : v[n] = TerminalCfv(p, n)
  BY ValuesAre DEF AnswersIn, TerminalNodes, Actor
<1>2. ASSUME NEW n \in Nodes \ TerminalNodes
      PROVE  /\ WorthBelow(x, v, n) <= Worth(x, v, n)
             /\ (Actor(n) = p => FollowsAt(x, n)) => WorthBelow(x, v, n) = Worth(x, v, n)
  <2>1. Actor(n) \in {ChancePlayer, p, 1 - p}
    BY GameTreeFacts DEF Player, TerminalNodes
  <2>2. Worth(x, v, n) \in Int
    BY WorthInt DEF IsPlan
  <2>3. AnswersIn(game, averageReach, policy, p, v, n)
    OBVIOUS
  <2>4. CASE Actor(n) = ChancePlayer
    <3>1. v[n] = OverCards(v, n)
      BY <2>3, <2>4, ValuesAre DEF AnswersIn, Actor
    <3> QED BY <2>2, <2>4, <3>1, WorthOfChance
  <2>5. CASE Actor(n) = 1 - p
    <3>1. v[n] = OverActions(v, n)
      BY <2>3, <2>5, ValuesAre DEF AnswersIn, Actor
    <3> QED BY <2>2, <2>5, <3>1, WorthOfOther
  <2>6. CASE Actor(n) = p
    <3>1. RespondsAt(v, n)
      BY <2>3, <2>6, ValuesAre DEF AnswersIn, Actor
    <3> QED BY <2>6, <3>1, WorthOfBest
  <2> QED BY <2>1, <2>4, <2>5, <2>6
<1>3. IsReach(x)
  BY DEF IsPlan
<1>4. Earned(p, x) <= Worth(x, v, 0)
  BY <1>1, <1>2, <1>3, EarnsAtMost
<1>5. (\A n \in Nodes : Actor(n) = p => FollowsAt(x, n)) => Earned(p, x) = Worth(x, v, 0)
  BY <1>1, <1>2, <1>3, EarnsExactly
<1> QED BY <1>4, <1>5, RootValues

\* A plan that keeps to the average strategy earns the value of that strategy.
LEMMA AverageAnswer ==
  ASSUME game \in Games, average \in game.strategies, NEW p \in Player, NEW v, IsValue(v),
         NEW x, IsPlan(p, x), KeepsTo(game, p, average[p], x),
         \A n \in Nodes : AveragesIn(game, averageReach, average[p], p, v, n)
  PROVE  Earned(p, x) = RootValue(game, p, v)
<1>1. \A n \in TerminalNodes : v[n] = TerminalCfv(p, n)
  BY ValuesAre DEF AveragesIn, TerminalNodes, Actor
<1>3. IsReach(x)
  BY DEF IsPlan
<1>2. ASSUME NEW n \in Nodes \ TerminalNodes
      PROVE  WorthBelow(x, v, n) = Worth(x, v, n)
  <2>1. Actor(n) \in {ChancePlayer, p, 1 - p}
    BY GameTreeFacts DEF Player, TerminalNodes
  <2>3. AveragesIn(game, averageReach, average[p], p, v, n)
    OBVIOUS
  <2>4. CASE Actor(n) = ChancePlayer
    <3>1. v[n] = OverCards(v, n)
      BY <2>3, <2>4, ValuesAre DEF AveragesIn, Actor
    <3> QED BY <2>4, <3>1, WorthOfChance
  <2>5. CASE Actor(n) = 1 - p
    <3>1. v[n] = OverActions(v, n)
      BY <2>3, <2>5, ValuesAre DEF AveragesIn, Actor
    <3> QED BY <2>5, <3>1, WorthOfOther
  <2>6. CASE Actor(n) = p
    <3>1. v[n] = ByStrategy(v, n)
      BY <2>3, <2>6, ValuesAre DEF AveragesIn, Actor
    <3>2. IsStrategy(game, p, average[p])
      BY GamesAssumption DEF IsGame
    <3>3. \A c \in ChildrenOf(n), h \in HandsAt(n) : x[c][h] = x[n][h] * average[p][c][h]
      BY <2>6 DEF KeepsTo, Nodes, Actor, ChildrenOf, HandsAt
    <3>4. \A c \in ChildrenOf(n) : average[p][c] \in [HandsAt(c) -> Nat] /\ HandsAt(c) = HandsAt(n)
      BY <2>6, <3>2, StrategyFacts, GameTreeFacts
    <3>5. \A c \in ChildrenOf(n), h \in HandsAt(n) :
            average[p][c][h] \in Nat /\ x[c][h] = x[n][h] * average[p][c][h]
      BY <3>3, <3>4
    <3> QED BY <1>3, <2>6, <3>1, <3>5, WorthOfStrategy
  <2> QED BY <2>1, <2>4, <2>5, <2>6
<1>4. Earned(p, x) = Worth(x, v, 0)
  BY <1>1, <1>2, <1>3, EarnsExactly
<1> QED BY <1>4, RootValues

-----------------------------------------------------------------------------
(***************************************************************************)
(* The invariant: what each pass has done so far.                          *)
(***************************************************************************)
ValuesIn(g, v) ==
  /\ DOMAIN v = NodeIds(g.tree)
  /\ \A n \in NodeIds(g.tree) : v[n] \in [HandsOf(g.tree, n) -> Int]

TypesOk ==
  /\ game \in Games /\ average \in game.strategies
  /\ stage \in {"reach", "terminal", "average", "response", "done"}
  /\ hero \in Player /\ left \in 0 .. game.tree.size
  /\ \A p \in Player : ValuesIn(game, averageCfv[p])
  /\ ValuesIn(game, workspace)
  /\ DOMAIN policy = NodeIds(game.tree)
  /\ currentEv \in [Player -> Int] /\ bestResponseEv \in [Player -> Int]

ReachesDone ==
  stage # "reach" => \A p \in Player :
    PlanIn(game, p, averageReach[p]) /\ KeepsTo(game, p, average[p], averageReach[p])

TerminalsDone ==
  stage \notin {"reach", "terminal"} =>
    \A p \in Player : \A n \in NodeIds(game.tree) :
      game.tree.actor[n] = TerminalPlayer => averageCfv[p][n] = TerminalsOf(game, averageReach, p, n)

AveragesDone ==
  stage = "average" => \A p \in Player : \A n \in NodeIds(game.tree) :
    n >= left => AveragesIn(game, averageReach, average[p], p, averageCfv[p], n)

Measured ==
  stage \in {"response", "done"} =>
    \A p \in Player : currentEv[p] = EarnedOf(game, averageReach, p, averageReach[p])

Answering ==
  stage = "response" => \A n \in NodeIds(game.tree) :
    n >= left => AnswersIn(game, averageReach, policy, hero, workspace, n)

AnswerOf(g, reaches, pol, p, ev) ==
  \E v : /\ ValuesIn(g, v)
         /\ \A n \in NodeIds(g.tree) : AnswersIn(g, reaches, pol, p, v, n)
         /\ ev = RootValue(g, p, v)

Answered ==
  \A p \in Player : stage = "done" \/ (stage = "response" /\ p < hero) =>
    AnswerOf(game, averageReach, policy, p, bestResponseEv[p])

ResponseInv ==
  TypesOk /\ ReachesDone /\ TerminalsDone /\ AveragesDone /\ Measured /\ Answering /\ Answered

LEMMA ResponseInitInv == InitResponse => ResponseInv
<1> SUFFICES ASSUME InitResponse PROVE ResponseInv
  OBVIOUS
<1> USE DEF InitResponse
<1>1. ValuesIn(game, Zeros)
  BY DEF ValuesIn, Zeros, Nodes, HandsAt
<1>2. TypesOk
  <2>1. game.tree.size \in Nat /\ 0 \in Player
    BY GameTreeFacts DEF Player
  <2>2. \A p \in Player : averageCfv[p] = Zeros
    OBVIOUS
  <2>3. DOMAIN policy = NodeIds(game.tree)
    BY DEF Nodes
  <2>4. currentEv \in [Player -> Int] /\ bestResponseEv \in [Player -> Int]
    OBVIOUS
  <2> HIDE DEF Zeros
  <2> QED BY <1>1, <2>1, <2>2, <2>3, <2>4 DEF TypesOk
<1>3. stage = "reach"
  OBVIOUS
<1> QED BY <1>2, <1>3
        DEF ResponseInv, ReachesDone, TerminalsDone, AveragesDone, Measured, Answering, Answered

LEMMA InvFacts ==
  ASSUME TypesOk
  PROVE  /\ game \in Games /\ average \in game.strategies
         /\ \A p \in Player : IsValue(averageCfv[p]) /\ DOMAIN averageCfv[p] = Nodes
         /\ IsValue(workspace) /\ DOMAIN workspace = Nodes /\ DOMAIN policy = Nodes
         /\ \A p \in Player : IsStrategy(game, p, average[p])
         /\ left \in Nat /\ left <= game.tree.size
         /\ left > 0 => Node \in Nodes
<1>1. \A p \in Player : IsStrategy(game, p, average[p])
  BY GamesAssumption DEF TypesOk, IsGame
<1>2. game.tree.size \in Nat /\ Nodes = 0 .. game.tree.size - 1
  BY GameTreeFacts DEF TypesOk
<1> QED BY <1>1, <1>2 DEF TypesOk, ValuesIn, IsValue, Nodes, HandsAt, Node

LEMMA ReachesStep ==
  ASSUME ResponseInv, FinalizeReaches
  PROVE  ResponseInv'
<1> USE DEF FinalizeReaches, ResponseInv
<1>1. TypesOk'
  <2>1. TypesOk /\ UNCHANGED <<game, average, hero, left, averageCfv, workspace, policy, currentEv, bestResponseEv>>
    BY DEF resultVars
  <2>2. stage' = "terminal"
    OBVIOUS
  <2> QED BY ONLY <2>1, <2>2 DEF TypesOk
<1>2. \A p \in Player : PlanIn(game, p, averageReach'[p])
                        /\ KeepsTo(game, p, average[p], averageReach'[p])
  <2> TAKE p \in Player
  <2>1. IsStrategy(game, p, average[p]) /\ game \in Games
    BY InvFacts
  <2>2. averageReach'[p] = ReachOf(p, average[p])
    OBVIOUS
  <2>3. IsPlan(p, averageReach'[p])
    BY <2>1, <2>2, ReachIsPlan
  <2>4. KeepsTo(game, p, average[p], averageReach'[p])
    BY <2>1, <2>2, ReachIsPlan DEF KeepsTo, Nodes, Actor, ChildrenOf, HandsAt
  <2> QED BY <2>3, <2>4, PlanIs
<1>3. game' = game /\ average' = average /\ stage' = "terminal"
  OBVIOUS
<1>4. ReachesDone'
  BY <1>2, <1>3 DEF ReachesDone
<1> QED BY <1>1, <1>3, <1>4
        DEF TerminalsDone, AveragesDone, Measured, Answering, Answered

LEMMA TerminalsStep ==
  ASSUME ResponseInv, FinalizeTerminals
  PROVE  ResponseInv'
<1> USE DEF FinalizeTerminals, ResponseInv
<1>1. UNCHANGED <<game, average, hero, averageReach, workspace, policy, currentEv, bestResponseEv>>
      /\ stage' = "average" /\ stage = "terminal" /\ left' = game.tree.size
  BY DEF resultVars
<1>2. ASSUME NEW p \in Player
      PROVE  /\ DOMAIN averageCfv'[p] = Nodes
             /\ \A n \in Nodes : averageCfv'[p][n] =
                  IF n \in TerminalNodes THEN TerminalCfv(p, n) ELSE averageCfv[p][n]
  OBVIOUS
<1>3. game \in Games /\ \A p \in Player : 1 - p \in Player
  BY InvFacts DEF Player
<1>4. \A p \in Player : IsReach(averageReach[1 - p])
  BY <1>1, <1>3, PlanIs DEF ReachesDone, IsPlan
<1>5. \A p \in Player : ValuesIn(game, averageCfv'[p])
  <2> TAKE p \in Player
  <2>1. IsValue(averageCfv[p])
    BY InvFacts
  <2>2. ASSUME NEW n \in Nodes PROVE averageCfv'[p][n] \in [HandsAt(n) -> Int]
    <3>1. CASE n \in TerminalNodes
      <4>1. TerminalCfv(p, n) \in [HandsAt(n) -> Int]
        BY <1>3, <1>4, <3>1, TerminalInt
      <4> QED BY <1>2, <3>1, <4>1
    <3>2. CASE n \notin TerminalNodes
      BY <1>2, <2>1, <3>2 DEF IsValue
    <3> QED BY <3>1, <3>2
  <2> QED BY <1>2, <2>2 DEF ValuesIn, Nodes, HandsAt
<1>6. TypesOk'
  <2>1. TypesOk /\ game.tree.size \in Nat
    BY <1>3, GameTreeFacts
  <2>2. left' \in 0 .. game.tree.size
    BY <1>1, <2>1
  <2> QED BY ONLY <1>1, <1>5, <2>1, <2>2 DEF TypesOk
<1>7. TerminalsDone'
  <2>1. \A p \in Player : \A n \in NodeIds(game.tree) : game.tree.actor[n] = TerminalPlayer =>
          averageCfv'[p][n] = TerminalsOf(game, averageReach, p, n)
    BY <1>2, ValuesAre DEF TerminalNodes, Nodes, Actor
  <2> QED BY ONLY <1>1, <2>1 DEF TerminalsDone
<1>8. AveragesDone'
  <2>1. \A n \in NodeIds(game.tree) : ~(n >= game.tree.size)
    BY <1>3, GameTreeFacts DEF Nodes
  <2> QED BY ONLY <1>1, <2>1 DEF AveragesDone
<1>9. ReachesDone'
  <2>1. ReachesDone
    OBVIOUS
  <2> QED BY ONLY <1>1, <2>1 DEF ReachesDone
<1> QED BY <1>1, <1>6, <1>7, <1>8, <1>9 DEF Measured, Answering, Answered

ChoosesChild(g, pol, n) ==
  \A h \in HandsOf(g.tree, n) : g.tree.offset[n] + pol[n][h] \in Children(g.tree, n)

\* The equations of a node speak of the node and its children.
LEMMA AveragesLocal ==
  ASSUME NEW g, NEW reaches, NEW s, NEW p, NEW n, NEW v, NEW w, v[n] = w[n],
         \A c \in Children(g.tree, n) : v[c] = w[c],
         AveragesIn(g, reaches, s, p, v, n)
  PROVE  AveragesIn(g, reaches, s, p, w, n)
BY ValuesLocal DEF AveragesIn

\* So do those of the response pass, of which the record is another part.
LEMMA AnswersLocal ==
  ASSUME NEW g, NEW reaches, NEW pol, NEW record, NEW p, NEW n, NEW v, NEW w, v[n] = w[n],
         \A c \in Children(g.tree, n) : v[c] = w[c],
         g.tree.actor[n] = p => record[n] = pol[n] /\ ChoosesChild(g, pol, n),
         AnswersIn(g, reaches, pol, p, v, n)
  PROVE  AnswersIn(g, reaches, record, p, w, n)
<1>1. ASSUME g.tree.actor[n] = p PROVE RespondsIn(g, record, w, n)
  <2>1. RespondsIn(g, pol, v, n)
    BY <1>1 DEF AnswersIn
  <2> QED BY <1>1, <2>1 DEF RespondsIn, ChoosesChild
<1>2. CardsOf(g, v, n) = CardsOf(g, w, n) /\ ActionsOf(g, v, n) = ActionsOf(g, w, n)
  BY ValuesLocal
<1> QED BY <1>1, <1>2 DEF AnswersIn

\* A recorded action leads to a child.
LEMMA ChosenIsChild ==
  ASSUME game \in Games, NEW n \in Nodes, NEW pol, NEW v, RespondsIn(game, pol, v, n)
  PROVE  ChoosesChild(game, pol, n)
<1>1. game.tree.offset[n] \in Int /\ game.tree.count[n] \in Nat
  BY GameTreeFacts
<1>2. \A h \in HandsOf(game.tree, n) : pol[n][h] \in 0 .. game.tree.count[n] - 1
  BY DEF RespondsIn
<1> QED BY <1>1, <1>2 DEF Children, ChoosesChild

\* One node of the average pass: only its own values change, and they satisfy
\* its equation.
LEMMA AverageNode ==
  ASSUME ResponseInv, Handles("average"),
         UNCHANGED <<averageReach, workspace, policy, currentEv, bestResponseEv>>,
         \A p \in Player :
           /\ DOMAIN averageCfv'[p] = Nodes
           /\ \A n \in Nodes \ {Node} : averageCfv'[p][n] = averageCfv[p][n]
           /\ Node \in TerminalNodes => averageCfv'[p][Node] = averageCfv[p][Node]
           /\ averageCfv'[p][Node] \in [HandsAt(Node) -> Int]
           /\ AveragesIn(game, averageReach, average[p], p, averageCfv'[p], Node)
  PROVE  ResponseInv'
<1> USE DEF Handles, ResponseInv
<1>1. UNCHANGED <<game, average, hero, averageReach, workspace, policy, currentEv, bestResponseEv>>
      /\ stage' = "average" /\ stage = "average" /\ left' = left - 1 /\ left > 0
  OBVIOUS
<1>2. game \in Games /\ Node \in Nodes /\ left \in Nat /\ left <= game.tree.size /\ Node = left - 1
      /\ Nodes \subseteq Nat
  BY <1>1, InvFacts, GameTreeFacts DEF Node
<1>3. \A p \in Player : ValuesIn(game, averageCfv'[p])
  <2> TAKE p \in Player
  <2>1. IsValue(averageCfv[p])
    BY InvFacts
  <2>2. \A n \in Nodes : averageCfv'[p][n] \in [HandsAt(n) -> Int]
    BY <2>1 DEF IsValue
  <2> QED BY <2>2 DEF ValuesIn, Nodes, HandsAt
<1>4. TypesOk'
  <2>1. TypesOk /\ game.tree.size \in Nat
    BY <1>2, GameTreeFacts
  <2>2. left' \in 0 .. game.tree.size
    BY <1>1, <1>2, <2>1
  <2> QED BY ONLY <1>1, <1>3, <2>1, <2>2 DEF TypesOk
<1>5. ReachesDone'
  <2>1. ReachesDone
    OBVIOUS
  <2> QED BY ONLY <1>1, <2>1 DEF ReachesDone
<1>6. TerminalsDone'
  <2>1. ASSUME NEW p \in Player, NEW n \in NodeIds(game.tree), game.tree.actor[n] = TerminalPlayer
        PROVE  averageCfv'[p][n] = TerminalsOf(game, averageReach, p, n)
    <3>1. averageCfv[p][n] = TerminalsOf(game, averageReach, p, n)
      BY <1>1, <2>1 DEF TerminalsDone
    <3>2. n \in TerminalNodes /\ n \in Nodes
      BY <2>1 DEF TerminalNodes, Nodes, Actor
    <3> QED BY <3>1, <3>2
  <2> QED BY ONLY <1>1, <2>1 DEF TerminalsDone
<1>7. AveragesDone'
  <2>1. ASSUME NEW p \in Player, NEW n \in NodeIds(game.tree), n >= left - 1
        PROVE  AveragesIn(game, averageReach, average[p], p, averageCfv'[p], n)
    <3>1. CASE n = Node
      BY <3>1
    <3>2. CASE n # Node
      <4>1. n \in Nodes /\ n > Node /\ n >= left
        BY <1>2, <2>1, <3>2 DEF Nodes
      <4>2. AveragesIn(game, averageReach, average[p], p, averageCfv[p], n)
        BY <1>1, <4>1 DEF AveragesDone
      <4>3. averageCfv[p][n] = averageCfv'[p][n]
        BY <3>2, <4>1
      <4>4. \A c \in Children(game.tree, n) : averageCfv[p][c] = averageCfv'[p][c]
        <5>1. \A c \in ChildrenOf(n) : c \in Nodes /\ c > n
          BY <1>2, <4>1, GameTreeFacts
        <5>2. \A c \in ChildrenOf(n) : c \in Nodes \ {Node}
          BY <1>2, <4>1, <5>1
        <5> QED BY <5>2 DEF ChildrenOf
      <4> DEFINE v == averageCfv[p]
                 w == averageCfv'[p]
      <4>5. v[n] = w[n] /\ \A c \in Children(game.tree, n) : v[c] = w[c]
        BY <4>3, <4>4
      <4> HIDE DEF v, w
      <4>6. AveragesIn(game, averageReach, average[p], p, v, n)
        BY <4>2 DEF v
      <4>7. AveragesIn(game, averageReach, average[p], p, w, n)
        BY <4>5, <4>6, AveragesLocal
      <4> QED BY <4>7 DEF w
    <3> QED BY <3>1, <3>2
  <2> QED BY ONLY <1>1, <2>1 DEF AveragesDone
<1> QED BY <1>1, <1>4, <1>5, <1>6, <1>7 DEF Measured, Answering, Answered

\* The children of the node at hand have their values already.
LEMMA ChildrenKept ==
  ASSUME game \in Games, NEW v, NEW w, Node \in Nodes,
         \A n \in Nodes \ {Node} : w[n] = v[n]
  PROVE  /\ OverCards(v, Node) = CardsOf(game, w, Node)
         /\ OverActions(v, Node) = ActionsOf(game, w, Node)
         /\ ByStrategy(v, Node) = StrategyOf(game, average[Actor(Node)], w, Node)
<1> DEFINE n == Node
<1>1. n \in Nodes /\ \A c \in ChildrenOf(n) : c \in Nodes /\ c > n
  BY GameTreeFacts
<1>2. \A c \in Children(game.tree, n) : v[c] = w[c]
  BY <1>1, GameTreeFacts DEF ChildrenOf
<1> HIDE DEF n
<1>3. /\ CardsOf(game, v, n) = CardsOf(game, w, n)
      /\ ActionsOf(game, v, n) = ActionsOf(game, w, n)
      /\ \A s : StrategyOf(game, s, v, n) = StrategyOf(game, s, w, n)
  BY <1>2, ValuesLocal
<1> QED BY <1>3, ValuesAre DEF n

LEMMA AverageStep ==
  ASSUME ResponseInv, FinalizeChanceNode \/ FinalizeTerminalNode \/ FinalizePlayerNode
  PROVE  ResponseInv'
<1>1. game \in Games /\ average \in game.strategies
      /\ \A p \in Player : IsValue(averageCfv[p]) /\ DOMAIN averageCfv[p] = Nodes
  BY InvFacts DEF ResponseInv
<1>2. CASE FinalizeTerminalNode
  <2>1. Handles("average") /\ Node \in TerminalNodes /\ Node \in Nodes
        /\ UNCHANGED <<averageReach, averageCfv, workspace, policy, currentEv, bestResponseEv>>
    BY <1>2 DEF FinalizeTerminalNode, tableVars, resultVars, TerminalNodes
  <2>2. \A p \in Player : AveragesIn(game, averageReach, average[p], p, averageCfv[p], Node)
    <3>1. game.tree.actor[Node] = TerminalPlayer /\ stage = "average" /\ TerminalsDone
      BY <2>1 DEF TerminalNodes, Actor, Handles, ResponseInv
    <3>2. \A p \in Player : averageCfv[p][Node] = TerminalsOf(game, averageReach, p, Node)
      BY <2>1, <3>1 DEF TerminalsDone, Nodes
    <3> QED BY <3>1, <3>2 DEF AveragesIn, Player, ChancePlayer, TerminalPlayer
  <2>3. \A p \in Player : /\ DOMAIN averageCfv'[p] = Nodes
                          /\ averageCfv'[p][Node] \in [HandsAt(Node) -> Int]
    BY <1>1, <2>1 DEF IsValue
  <2> QED BY <2>1, <2>2, <2>3, AverageNode
<1>3. ASSUME FinalizeChanceNode \/ FinalizePlayerNode,
             NEW p \in Player
      PROVE  /\ Handles("average") /\ Node \in Nodes /\ Node \notin TerminalNodes
             /\ UNCHANGED <<averageReach, workspace, policy, currentEv, bestResponseEv>>
             /\ DOMAIN averageCfv'[p] = Nodes
             /\ \A n \in Nodes \ {Node} : averageCfv'[p][n] = averageCfv[p][n]
             /\ averageCfv'[p][Node] \in [HandsAt(Node) -> Int]
             /\ AveragesIn(game, averageReach, average[p], p, averageCfv'[p], Node)
  <2> DEFINE v == averageCfv[p]
             w == averageCfv'[p]
             e == IF Actor(Node) = ChancePlayer THEN OverCards(v, Node)
                  ELSE IF Actor(Node) = p THEN ByStrategy(v, Node) ELSE OverActions(v, Node)
  <2>1. /\ Handles("average") /\ Actor(Node) \in Player \cup {ChancePlayer}
        /\ UNCHANGED <<averageReach, workspace, policy, currentEv, bestResponseEv>>
    BY <1>3 DEF FinalizeChanceNode, FinalizePlayerNode, SetAverageCfv, resultVars
  <2>2. Node \in Nodes /\ Node \notin TerminalNodes
    BY <2>1, InvFacts DEF Handles, ResponseInv, TerminalNodes, Player, ChancePlayer, TerminalPlayer
  <2>3. averageCfv'[p] = [v EXCEPT ![Node] = e]
    <3>1. CASE FinalizeChanceNode
      BY <3>1 DEF FinalizeChanceNode, SetAverageCfv
    <3>2. CASE FinalizePlayerNode
      <4>1. Actor(Node) # ChancePlayer
        BY <3>2 DEF FinalizePlayerNode, Player, ChancePlayer
      <4> QED BY <3>2, <4>1 DEF FinalizePlayerNode, SetAverageCfv
    <3> QED BY <1>3, <3>1, <3>2
  <2>4. IsValue(v) /\ DOMAIN v = Nodes
    BY <1>1
  <2>5. e \in [HandsAt(Node) -> Int]
    BY <1>1, <2>1, <2>2, <2>4, ValuesInt
  <2>6. DOMAIN w = Nodes /\ w[Node] = e /\ \A n \in Nodes \ {Node} : w[n] = v[n]
    <3> HIDE DEF e, v
    <3> QED BY <2>2, <2>3, <2>4
  <2>7. AveragesIn(game, averageReach, average[p], p, w, Node)
    <3>1. /\ OverCards(v, Node) = CardsOf(game, w, Node)
          /\ OverActions(v, Node) = ActionsOf(game, w, Node)
          /\ ByStrategy(v, Node) = StrategyOf(game, average[Actor(Node)], w, Node)
      <4> HIDE DEF v, w, e
      <4> QED BY <1>1, <2>2, <2>6, ChildrenKept
    <3>2. /\ Actor(Node) = ChancePlayer => w[Node] = CardsOf(game, w, Node)
          /\ Actor(Node) = p => w[Node] = StrategyOf(game, average[p], w, Node)
          /\ Actor(Node) = 1 - p => w[Node] = ActionsOf(game, w, Node)
      <4> HIDE DEF v, w
      <4> QED BY <2>6, <3>1 DEF Player, ChancePlayer
    <3> HIDE DEF w
    <3> QED BY <2>1, <3>2 DEF AveragesIn, Actor, Player, ChancePlayer, TerminalPlayer
  <2> QED BY <2>1, <2>2, <2>5, <2>6, <2>7
<1>4. CASE FinalizeChanceNode \/ FinalizePlayerNode
  <2>1. 0 \in Player
    BY DEF Player
  <2>2. Handles("average") /\ Node \in Nodes /\ Node \notin TerminalNodes
        /\ UNCHANGED <<averageReach, workspace, policy, currentEv, bestResponseEv>>
    BY <1>3, <1>4, <2>1
  <2>3. \A p \in Player :
             /\ DOMAIN averageCfv'[p] = Nodes
             /\ \A n \in Nodes \ {Node} : averageCfv'[p][n] = averageCfv[p][n]
             /\ averageCfv'[p][Node] \in [HandsAt(Node) -> Int]
             /\ AveragesIn(game, averageReach, average[p], p, averageCfv'[p], Node)
    BY <1>3, <1>4
  <2> QED BY <2>2, <2>3, AverageNode
<1> QED BY <1>2, <1>4

LEMMA CurrentEvStep ==
  ASSUME ResponseInv, CurrentEv
  PROVE  ResponseInv'
<1> USE DEF CurrentEv, ResponseInv
<1>1. /\ UNCHANGED <<game, average, averageReach, averageCfv, policy, bestResponseEv>>
      /\ stage = "average" /\ left = 0 /\ stage' = "response"
      /\ hero' = 0 /\ left' = game.tree.size /\ workspace' = Zeros
  BY DEF tableVars
<1>2. game \in Games /\ average \in game.strategies /\ \A p \in Player : IsValue(averageCfv[p])
  BY InvFacts
<1>3. ASSUME NEW p \in Player
      PROVE  /\ currentEv'[p] \in Int
             /\ currentEv'[p] = EarnedOf(game, averageReach, p, averageReach[p])
  <2> DEFINE x == averageReach[p]
             v == averageCfv[p]
  <2>1. PlanIn(game, p, x) /\ KeepsTo(game, p, average[p], x)
    BY <1>1 DEF ReachesDone
  <2>2. IsPlan(p, x) /\ IsValue(v)
    BY <1>2, <2>1, PlanIs
  <2>3. \A n \in Nodes : AveragesIn(game, averageReach, average[p], p, v, n)
    BY <1>1, <1>2, GameTreeFacts DEF AveragesDone, Nodes
  <2>4. currentEv'[p] = RangeEv(p, v)
    OBVIOUS
  <2>5. averageReach[p] = x
    OBVIOUS
  <2> HIDE DEF x, v
  <2>6. RangeEv(p, v) = RootValue(game, p, v) /\ RootValue(game, p, v) \in Int
    BY <1>2, <2>2, <2>5, RootValues
  <2>7. Earned(p, x) = RootValue(game, p, v)
    BY <1>2, <2>1, <2>2, <2>3, AverageAnswer
  <2> QED BY <2>4, <2>5, <2>6, <2>7, ValuesAre
<1>4. TypesOk'
  <2>1. ValuesIn(game, workspace')
    BY <1>1 DEF ValuesIn, Zeros, Nodes, HandsAt
  <2>2. TypesOk /\ game.tree.size \in Nat
    BY <1>2, GameTreeFacts
  <2>3. currentEv' \in [Player -> Int]
    BY <1>3
  <2>4. left' \in 0 .. game.tree.size /\ hero' \in Player
    BY <1>1, <2>2 DEF Player
  <2> QED BY ONLY <1>1, <2>1, <2>2, <2>3, <2>4 DEF TypesOk
<1>5. ReachesDone'
  <2>1. ReachesDone
    OBVIOUS
  <2> QED BY ONLY <1>1, <2>1 DEF ReachesDone
<1>6. TerminalsDone'
  <2>1. TerminalsDone
    OBVIOUS
  <2> QED BY ONLY <1>1, <2>1 DEF TerminalsDone
<1>7. Measured'
  BY ONLY <1>1, <1>3 DEF Measured
<1>8. Answering'
  <2>1. \A n \in NodeIds(game.tree) : ~(n >= game.tree.size)
    BY <1>2, GameTreeFacts DEF Nodes
  <2> QED BY ONLY <1>1, <2>1 DEF Answering
<1>9. Answered'
  <2>1. \A p \in Player : ~(p < 0)
    BY DEF Player
  <2> QED BY ONLY <1>1, <2>1 DEF Answered
<1> QED BY <1>1, <1>4, <1>5, <1>6, <1>7, <1>8, <1>9 DEF AveragesDone

\* One node of the response pass: only its own values and actions change, and
\* they satisfy its equation.
LEMMA AnswerNode ==
  ASSUME ResponseInv, Handles("response"),
         UNCHANGED <<averageReach, averageCfv, currentEv, bestResponseEv>>,
         DOMAIN workspace' = Nodes,
         \A n \in Nodes \ {Node} : workspace'[n] = workspace[n],
         workspace'[Node] \in [HandsAt(Node) -> Int],
         DOMAIN policy' = Nodes,
         \A n \in Nodes : n # Node \/ Actor(n) # hero => policy'[n] = policy[n],
         AnswersIn(game, averageReach, policy', hero, workspace', Node)
  PROVE  ResponseInv'
<1> USE DEF Handles, ResponseInv
<1>1. UNCHANGED <<game, average, hero, averageReach, averageCfv, currentEv, bestResponseEv>>
      /\ stage' = "response" /\ stage = "response" /\ left' = left - 1 /\ left > 0
  OBVIOUS
<1>2. game \in Games /\ Node \in Nodes /\ left \in Nat /\ left <= game.tree.size /\ Node = left - 1
      /\ Nodes \subseteq Nat
  BY <1>1, InvFacts, GameTreeFacts DEF Node
<1>3. ValuesIn(game, workspace')
  <2>1. IsValue(workspace)
    BY InvFacts
  <2>2. \A n \in Nodes : workspace'[n] \in [HandsAt(n) -> Int]
    BY <2>1 DEF IsValue
  <2> QED BY <2>2 DEF ValuesIn, Nodes, HandsAt
<1>4. TypesOk'
  <2>1. TypesOk /\ game.tree.size \in Nat
    BY <1>2, GameTreeFacts
  <2>2. left' \in 0 .. game.tree.size
    BY <1>1, <1>2, <2>1
  <2>3. DOMAIN policy' = NodeIds(game.tree)
    BY DEF Nodes
  <2> QED BY ONLY <1>1, <1>3, <2>1, <2>2, <2>3 DEF TypesOk
<1>5. ReachesDone'
  <2>1. ReachesDone
    OBVIOUS
  <2> QED BY ONLY <1>1, <2>1 DEF ReachesDone
<1>6. TerminalsDone'
  <2>1. TerminalsDone
    OBVIOUS
  <2> QED BY ONLY <1>1, <2>1 DEF TerminalsDone
<1>7. Measured'
  <2>1. Measured
    OBVIOUS
  <2> QED BY ONLY <1>1, <2>1 DEF Measured
<1>8. Answering'
  <2>1. ASSUME NEW n \in NodeIds(game.tree), n >= left - 1
        PROVE  AnswersIn(game, averageReach, policy', hero, workspace', n)
    <3>1. CASE n = Node
      BY <3>1
    <3>2. CASE n # Node
      <4>1. n \in Nodes /\ n > Node /\ n >= left
        BY <1>2, <2>1, <3>2 DEF Nodes
      <4> DEFINE v == workspace
                 w == workspace'
                 record == policy'
      <4>2. AnswersIn(game, averageReach, policy, hero, v, n)
        BY <1>1, <4>1 DEF Answering
      <4>3. v[n] = w[n] /\ record[n] = policy[n]
        BY <3>2, <4>1
      <4>4. \A c \in Children(game.tree, n) : v[c] = w[c]
        <5>1. \A c \in ChildrenOf(n) : c \in Nodes /\ c > n
          BY <1>2, <4>1, GameTreeFacts
        <5>2. \A c \in ChildrenOf(n) : c \in Nodes \ {Node}
          BY <1>2, <4>1, <5>1
        <5> QED BY <5>2 DEF ChildrenOf
      <4> HIDE DEF v, w, record
      <4>5. game.tree.actor[n] = hero => ChoosesChild(game, policy, n)
        BY <1>2, <4>1, <4>2, ChosenIsChild DEF AnswersIn
      <4>6. AnswersIn(game, averageReach, record, hero, w, n)
        BY <4>2, <4>3, <4>4, <4>5, AnswersLocal
      <4> QED BY <4>6 DEF w, record
    <3> QED BY <3>1, <3>2
  <2> QED BY ONLY <1>1, <2>1 DEF Answering
<1>9. Answered'
  <2>1. ASSUME NEW p \in Player, p < hero
        PROVE  AnswerOf(game, averageReach, policy', p, bestResponseEv[p])
    <3>1. AnswerOf(game, averageReach, policy, p, bestResponseEv[p])
      BY <1>1, <2>1 DEF Answered
    <3>2. PICK v : /\ ValuesIn(game, v)
                   /\ \A n \in NodeIds(game.tree) : AnswersIn(game, averageReach, policy, p, v, n)
                   /\ bestResponseEv[p] = RootValue(game, p, v)
      BY <3>1 DEF AnswerOf
    <3> DEFINE record == policy'
    <3>3. ASSUME NEW n \in NodeIds(game.tree)
          PROVE  AnswersIn(game, averageReach, record, p, v, n)
      <4>1. n \in Nodes /\ AnswersIn(game, averageReach, policy, p, v, n)
        BY <3>2 DEF Nodes
      <4>2. hero \in Player
        BY DEF TypesOk
      <4>3. game.tree.actor[n] = p => record[n] = policy[n]
        BY <2>1, <4>1, <4>2 DEF Actor, Player
      <4>4. game.tree.actor[n] = p => ChoosesChild(game, policy, n)
        BY <1>2, <4>1, ChosenIsChild DEF AnswersIn
      <4> HIDE DEF record
      <4> QED BY <4>1, <4>3, <4>4, AnswersLocal
    <3> HIDE DEF record
    <3>4. AnswerOf(game, averageReach, record, p, bestResponseEv[p])
      BY <3>2, <3>3 DEF AnswerOf
    <3> QED BY <3>4 DEF record
  <2> QED BY ONLY <1>1, <2>1 DEF Answered
<1> QED BY <1>1, <1>4, <1>5, <1>6, <1>7, <1>8, <1>9 DEF AveragesDone

\* The calculator's choice exists and is a best action.
LEMMA BestActionIs ==
  ASSUME game \in Games, IsValue(workspace), NEW n \in Nodes, Actor(n) \in Player, NEW h \in HandsAt(n)
  PROVE  /\ BestAction(n, h) \in 0 .. game.tree.count[n] - 1
         /\ ChildOf(n, BestAction(n, h)) \in ChildrenOf(n)
         /\ \A c \in ChildrenOf(n) : workspace[c][h] <= workspace[ChildOf(n, BestAction(n, h))][h]
<1> DEFINE m == game.tree.count[n]
           f == [b \in 0 .. m - 1 |-> workspace[ChildOf(n, b)][h]]
<1>1. m \in Nat \ {0} /\ game.tree.offset[n] \in Int
  BY GameTreeFacts
<1>2. \A b \in 0 .. m - 1 : ChildOf(n, b) \in ChildrenOf(n)
  BY <1>1 DEF ChildOf, ChildrenOf, Children
<1>3. \A c \in ChildrenOf(n) : \E b \in 0 .. m - 1 : c = ChildOf(n, b)
  <2> TAKE c \in ChildrenOf(n)
  <2>1. c \in game.tree.offset[n] .. game.tree.offset[n] + m - 1
    BY DEF ChildrenOf, Children
  <2>2. c - game.tree.offset[n] \in 0 .. m - 1 /\ c = game.tree.offset[n] + (c - game.tree.offset[n])
    BY <1>1, <2>1
  <2> QED BY <2>2 DEF ChildOf
<1>4. \A b \in 0 .. m - 1 : f[b] \in Int
  BY <1>2, GameTreeFacts DEF IsValue
<1>5. PICK a \in 0 .. m - 1 : /\ \A b \in 0 .. m - 1 : f[b] <= f[a]
                              /\ \A b \in 0 .. a - 1 : f[b] < f[a]
  <2> HIDE DEF f, m
  <2> QED BY <1>1, <1>4, FirstMost
<1>6. IsBest(n, h, a)
  <2>1. \A b \in 0 .. a - 1 : b \in 0 .. m - 1
    BY <1>1
  <2> QED BY <1>5, <2>1 DEF IsBest
<1>7. BestAction(n, h) \in 0 .. m - 1 /\ IsBest(n, h, BestAction(n, h))
  BY <1>6 DEF BestAction
<1>8. \A c \in ChildrenOf(n) : workspace[c][h] <= workspace[ChildOf(n, BestAction(n, h))][h]
  BY <1>3, <1>7 DEF IsBest
<1> QED BY <1>2, <1>7, <1>8

LEMMA AnswerStep ==
  ASSUME ResponseInv, TerminalNode \/ ChanceNode \/ HeroNode \/ OpponentNode
  PROVE  ResponseInv'
<1> USE DEF UnchangedTables, tableVars
<1>1. /\ game \in Games /\ average \in game.strategies /\ hero \in Player
      /\ IsValue(workspace) /\ DOMAIN workspace = Nodes /\ DOMAIN policy = Nodes
      /\ \A p \in Player : IsValue(averageCfv[p])
  BY InvFacts DEF ResponseInv, TypesOk
<1>2. /\ Handles("response")
      /\ UNCHANGED <<averageReach, averageCfv, currentEv, bestResponseEv>>
  BY DEF TerminalNode, ChanceNode, HeroNode, OpponentNode
<1>3. Node \in Nodes /\ stage = "response"
  BY <1>2, InvFacts DEF Handles, ResponseInv
<1> DEFINE w == workspace'
           record == policy'
<1>4. ASSUME NEW e, w = [workspace EXCEPT ![Node] = e]
      PROVE  DOMAIN w = Nodes /\ w[Node] = e /\ \A n \in Nodes \ {Node} : w[n] = workspace[n]
  <2> HIDE DEF w
  <2> QED BY <1>1, <1>3, <1>4
<1>5. ASSUME NEW e, w = [workspace EXCEPT ![Node] = e]
      PROVE  /\ OverCards(workspace, Node) = CardsOf(game, w, Node)
             /\ OverActions(workspace, Node) = ActionsOf(game, w, Node)
  <2> HIDE DEF w
  <2> QED BY <1>1, <1>3, <1>4, <1>5, ChildrenKept
<1>6. CASE TerminalNode
  <2> DEFINE e == averageCfv[hero][Node]
  <2>1. w = [workspace EXCEPT ![Node] = e] /\ policy' = policy /\ Node \in TerminalNodes
    BY <1>6 DEF TerminalNode, SetCfv
  <2>2. e \in [HandsAt(Node) -> Int]
    BY <1>1, <1>3 DEF IsValue
  <2>3. game.tree.actor[Node] = TerminalPlayer
    BY <2>1 DEF TerminalNodes, Actor
  <2>4. e = TerminalsOf(game, averageReach, hero, Node)
    BY <1>1, <1>3, <2>3 DEF ResponseInv, TerminalsDone, Nodes
  <2> HIDE DEF e, w
  <2>5. w[Node] = e /\ DOMAIN w = Nodes /\ \A n \in Nodes \ {Node} : w[n] = workspace[n]
    BY <1>4, <2>1
  <2>6. AnswersIn(game, averageReach, policy', hero, w, Node)
    BY <1>1, <2>3, <2>4, <2>5 DEF AnswersIn, Player, ChancePlayer, TerminalPlayer
  <2> QED BY <1>1, <1>2, <2>1, <2>2, <2>5, <2>6, AnswerNode DEF w
<1>7. CASE ChanceNode
  <2> DEFINE e == OverCards(workspace, Node)
  <2>1. w = [workspace EXCEPT ![Node] = e] /\ policy' = policy /\ Actor(Node) = ChancePlayer
    BY <1>7 DEF ChanceNode, SetCfv
  <2>2. e \in [HandsAt(Node) -> Int]
    BY <1>1, <1>3, <2>1, ValuesInt
  <2>3. e = CardsOf(game, w, Node)
    BY <1>5, <2>1
  <2> HIDE DEF e, w
  <2>5. w[Node] = e /\ DOMAIN w = Nodes /\ \A n \in Nodes \ {Node} : w[n] = workspace[n]
    BY <1>4, <2>1
  <2>6. AnswersIn(game, averageReach, policy', hero, w, Node)
    BY <1>1, <2>1, <2>3, <2>5 DEF AnswersIn, Actor, Player, ChancePlayer, TerminalPlayer
  <2> QED BY <1>1, <1>2, <2>1, <2>2, <2>5, <2>6, AnswerNode DEF w
<1>8. CASE OpponentNode
  <2> DEFINE e == OverActions(workspace, Node)
  <2>1. w = [workspace EXCEPT ![Node] = e] /\ policy' = policy /\ Actor(Node) = 1 - hero
    BY <1>8 DEF OpponentNode, SetCfv
  <2>2. e \in [HandsAt(Node) -> Int]
    BY <1>1, <1>3, <2>1, ValuesInt DEF Player
  <2>3. e = ActionsOf(game, w, Node)
    BY <1>5, <2>1
  <2> HIDE DEF e, w
  <2>5. w[Node] = e /\ DOMAIN w = Nodes /\ \A n \in Nodes \ {Node} : w[n] = workspace[n]
    BY <1>4, <2>1
  <2>6. AnswersIn(game, averageReach, policy', hero, w, Node)
    BY <1>1, <2>1, <2>3, <2>5 DEF AnswersIn, Actor, Player, ChancePlayer, TerminalPlayer
  <2> QED BY <1>1, <1>2, <2>1, <2>2, <2>5, <2>6, AnswerNode DEF w
<1>9. CASE HeroNode
  <2> DEFINE best == [h \in HandsAt(Node) |-> BestAction(Node, h)]
             e == [h \in HandsAt(Node) |-> game.unit * workspace[ChildOf(Node, BestAction(Node, h))][h]]
  <2>1. /\ w = [workspace EXCEPT ![Node] = e] /\ record = [policy EXCEPT ![Node] = best]
        /\ Actor(Node) = hero
    BY <1>9 DEF HeroNode, SetCfv
  <2>2. ASSUME NEW h \in HandsAt(Node)
        PROVE  /\ best[h] \in 0 .. game.tree.count[Node] - 1
               /\ ChildOf(Node, best[h]) \in ChildrenOf(Node)
               /\ \A c \in ChildrenOf(Node) : workspace[c][h] <= workspace[ChildOf(Node, best[h])][h]
               /\ e[h] = game.unit * workspace[ChildOf(Node, best[h])][h]
    BY <1>1, <1>3, <2>1, BestActionIs
  <2>3. \A c \in ChildrenOf(Node) : c \in Nodes \ {Node} /\ HandsAt(c) = HandsAt(Node)
    BY <1>1, <1>3, <2>1, GameTreeFacts
  <2>4. e \in [HandsAt(Node) -> Int]
    <3>1. \A h \in HandsAt(Node) : e[h] \in Int
      <4> TAKE h \in HandsAt(Node)
      <4>1. workspace[ChildOf(Node, best[h])][h] \in Int /\ game.unit \in Int
        BY <1>1, <2>2, <2>3, GameTableFacts DEF IsValue
      <4> HIDE DEF best, e
      <4> QED BY <2>2, <4>1, ProductInt
    <3>2. e = [h \in HandsAt(Node) |-> e[h]]
      OBVIOUS
    <3> HIDE DEF e
    <3> QED BY <3>1, <3>2
  <2> HIDE DEF e, w, best, record
  <2>5. w[Node] = e /\ DOMAIN w = Nodes /\ \A n \in Nodes \ {Node} : w[n] = workspace[n]
    BY <1>4, <2>1
  <2>6. record[Node] = best /\ DOMAIN record = Nodes /\ \A n \in Nodes \ {Node} : record[n] = policy[n]
    BY <1>1, <1>3, <2>1
  <2>7. RespondsIn(game, record, w, Node)
    BY <2>2, <2>3, <2>5, <2>6 DEF RespondsIn, ChildOf, HandsAt, ChildrenOf
  <2>8. AnswersIn(game, averageReach, record, hero, w, Node)
    BY <1>1, <2>1, <2>7 DEF AnswersIn, Actor, Player, ChancePlayer, TerminalPlayer
  <2>9. \A n \in Nodes : n # Node \/ Actor(n) # hero => record[n] = policy[n]
    BY <2>1, <2>6
  <2> QED BY <1>2, <2>4, <2>5, <2>6, <2>8, <2>9, AnswerNode DEF w, record
<1> QED BY <1>6, <1>7, <1>8, <1>9

LEMMA RootEvStep ==
  ASSUME ResponseInv, RootEv
  PROVE  ResponseInv'
<1> USE DEF RootEv, ResponseInv
<1>1. /\ UNCHANGED <<game, average, averageReach, averageCfv, policy, currentEv>>
      /\ stage = "response" /\ left = 0
      /\ bestResponseEv' = [bestResponseEv EXCEPT ![hero] = RangeEv(hero, workspace)]
  BY DEF tableVars
<1>2. \/ hero = 0 /\ hero' = 1 /\ left' = game.tree.size /\ workspace' = Zeros /\ stage' = "response"
      \/ hero = 1 /\ stage' = "done" /\ UNCHANGED <<hero, left, workspace>>
  BY <1>1 DEF TypesOk, Player
<1>3. game \in Games /\ IsValue(workspace) /\ hero \in Player /\ game.tree.size \in Nat
  BY InvFacts, GameTreeFacts DEF TypesOk
<1>4. bestResponseEv'[hero] = RootValue(game, hero, workspace)
      /\ RootValue(game, hero, workspace) \in Int
  <2> DEFINE x == averageReach[hero]
             v == workspace
  <2>1. PlanIn(game, hero, x)
    BY <1>1, <1>3 DEF ReachesDone
  <2>2. IsPlan(hero, x) /\ IsValue(v) /\ averageReach[hero] = x
    BY <1>3, <2>1, PlanIs
  <2>3. bestResponseEv'[hero] = RangeEv(hero, v)
    BY <1>1, <1>3 DEF TypesOk
  <2> HIDE DEF x, v
  <2>4. RangeEv(hero, v) = RootValue(game, hero, v) /\ RootValue(game, hero, v) \in Int
    BY <1>3, <2>2, RootValues
  <2> QED BY <2>3, <2>4 DEF v
<1>5. bestResponseEv' \in [Player -> Int] /\ \A p \in Player \ {hero} : bestResponseEv'[p] = bestResponseEv[p]
  <2>1. bestResponseEv \in [Player -> Int]
    BY DEF TypesOk
  <2>2. \A p \in Player : bestResponseEv'[p] \in Int
    BY <1>1, <1>4, <2>1
  <2> QED BY <1>1, <2>1, <2>2
<1>6. AnswerOf(game, averageReach, policy, hero, bestResponseEv'[hero])
  <2>1. ValuesIn(game, workspace)
    BY DEF TypesOk
  <2>2. \A n \in NodeIds(game.tree) : AnswersIn(game, averageReach, policy, hero, workspace, n)
    BY <1>1, <1>3, GameTreeFacts DEF Answering, Nodes
  <2> QED BY <1>4, <2>1, <2>2 DEF AnswerOf
<1>7. TypesOk'
  <2>1. ValuesIn(game, workspace')
    <3>1. ValuesIn(game, Zeros)
      BY DEF ValuesIn, Zeros, Nodes, HandsAt
    <3>2. TypesOk
      OBVIOUS
    <3> QED BY <1>2, <3>1, <3>2 DEF TypesOk
  <2>2. TypesOk
    OBVIOUS
  <2>3. left' \in 0 .. game.tree.size /\ hero' \in Player
    BY <1>2, <1>3, <2>2 DEF TypesOk, Player
  <2>4. stage' \in {"reach", "terminal", "average", "response", "done"}
    BY <1>2
  <2> QED BY ONLY <1>1, <1>5, <2>1, <2>2, <2>3, <2>4 DEF TypesOk
<1>8. ReachesDone' /\ TerminalsDone' /\ Measured'
  <2>1. ReachesDone /\ TerminalsDone /\ Measured
    OBVIOUS
  <2>2. stage' \in {"response", "done"}
    BY <1>2
  <2> QED BY ONLY <1>1, <2>1, <2>2 DEF ReachesDone, TerminalsDone, Measured
<1>9. Answering'
  <2>1. \A n \in NodeIds(game.tree) : ~(n >= game.tree.size)
    BY <1>3, GameTreeFacts DEF Nodes
  <2> QED BY ONLY <1>1, <1>2, <2>1 DEF Answering
<1>10. Answered'
  <2>1. ASSUME NEW p \in Player, stage' = "done" \/ (stage' = "response" /\ p < hero')
        PROVE  AnswerOf(game, averageReach, policy, p, bestResponseEv'[p])
    <3>1. CASE p = hero
      BY <1>6, <3>1
    <3>2. CASE p # hero
      <4>1. p < hero
        BY <1>2, <1>3, <2>1, <3>2 DEF Player
      <4>2. AnswerOf(game, averageReach, policy, p, bestResponseEv[p])
        BY <1>1, <4>1 DEF Answered
      <4> QED BY <1>5, <3>2, <4>2
    <3> QED BY <3>1, <3>2
  <2> QED BY ONLY <1>1, <2>1 DEF Answered
<1>11. AveragesDone'
  BY ONLY <1>2 DEF AveragesDone
<1> QED BY <1>7, <1>8, <1>9, <1>10, <1>11

LEMMA ResponseInvStep == ResponseInv /\ [NextResponse]_responseVars => ResponseInv'
<1> SUFFICES ASSUME ResponseInv, [NextResponse]_responseVars PROVE ResponseInv'
  OBVIOUS
<1>1. CASE UNCHANGED responseVars
  <2>1. UNCHANGED <<game, average, stage, hero, left, averageReach, averageCfv, workspace,
                    policy, currentEv, bestResponseEv>>
    BY <1>1 DEF responseVars, tableVars, resultVars
  <2>2. ResponseInv
    OBVIOUS
  <2> QED BY ONLY <2>1, <2>2
      DEF ResponseInv, TypesOk, ReachesDone, TerminalsDone, AveragesDone, Measured, Answering, Answered
<1>2. CASE NextResponse
  <2>1. CASE FinalizeReaches
    BY <2>1, ReachesStep
  <2>2. CASE FinalizeTerminals
    BY <2>2, TerminalsStep
  <2>3. CASE FinalizeTerminalNode \/ FinalizeChanceNode \/ FinalizePlayerNode
    BY <2>3, AverageStep
  <2>4. CASE CurrentEv
    BY <2>4, CurrentEvStep
  <2>5. CASE TerminalNode \/ ChanceNode \/ HeroNode \/ OpponentNode
    BY <2>5, AnswerStep
  <2>6. CASE RootEv
    BY <2>6, RootEvStep
  <2> QED BY <1>2, <2>1, <2>2, <2>3, <2>4, <2>5, <2>6 DEF NextResponse
<1> QED BY <1>1, <1>2

\* FinalizeAverageStrategy and ComputeBestResponseCfv go from the last node to
\* the root, and wherever they have been the values satisfy the equations of
\* their nodes; what a pass has found stays valid in the passes after it.
THEOREM ResponseInvHolds == ResponseSpec => []ResponseInv
BY ResponseInitInv, ResponseInvStep, PTL DEF ResponseSpec

-----------------------------------------------------------------------------
\* When it is done, no plan earns a player more than the response's value, and
\* a plan that follows the recorded actions earns it.
LEMMA DoneIsBest ==
  ASSUME ResponseInv, stage = "done", NEW p \in Player
  PROVE  /\ \A n \in Nodes : Actor(n) = p => \A h \in HandsAt(n) :
              policy[n][h] \in 0 .. game.tree.count[n] - 1
         /\ \A x : IsPlan(p, x) =>
              /\ Earned(p, x) <= bestResponseEv[p]
              /\ (\A n \in Nodes : Actor(n) = p => FollowsAt(x, n)) => Earned(p, x) = bestResponseEv[p]
<1>1. game \in Games
  BY DEF ResponseInv, TypesOk
<1>2. PICK v : /\ ValuesIn(game, v)
               /\ \A n \in NodeIds(game.tree) : AnswersIn(game, averageReach, policy, p, v, n)
               /\ bestResponseEv[p] = RootValue(game, p, v)
  BY DEF ResponseInv, Answered, AnswerOf
<1>3. IsValue(v) /\ \A n \in Nodes : AnswersIn(game, averageReach, policy, p, v, n)
  BY <1>2 DEF ValuesIn, IsValue, Nodes, HandsAt
<1>4. \A n \in Nodes : Actor(n) = p => RespondsIn(game, policy, v, n)
  BY <1>3 DEF AnswersIn, Actor
<1> QED BY <1>1, <1>2, <1>3, <1>4, BestAnswer DEF RespondsIn, HandsAt

\* The response is a way to play.
LEMMA ResponseIsPlay ==
  ASSUME game \in Games, NEW p \in Player,
         \A n \in Nodes : Actor(n) = p => \A h \in HandsAt(n) :
              policy[n][h] \in 0 .. game.tree.count[n] - 1
  PROVE  Response(p) \in Plays(p)
<1>1. \A s \in Spots(p) : s[1] \in Nodes /\ Actor(s[1]) = p /\ s[2] \in HandsAt(s[1])
  BY DEF Spots
<1>2. ASSUME NEW s \in Spots(p)
      PROVE  policy[s[1]][s[2]] \in 0 .. MostActions - 1 /\ policy[s[1]][s[2]] < game.tree.count[s[1]]
  <2>1. game.tree.count[s[1]] \in Nat /\ game.tree.count[s[1]] <= MostActions /\ MostActions \in Nat
    BY <1>1, MostIsMost, GameTreeFacts
  <2>2. policy[s[1]][s[2]] \in 0 .. game.tree.count[s[1]] - 1
    BY <1>1
  <2> QED BY <2>1, <2>2
<1> QED BY <1>2 DEF Response, Plays

\* What BestResponseCalculator records at each node for each hand is a way to
\* play the whole game; it earns the value the calculator returns, and no other
\* way to play earns more.
THEOREM ResponseBest == ResponseSpec => []ResponseIsBest
<1>1. ResponseInv => ResponseIsBest
  <2> SUFFICES ASSUME ResponseInv, stage = "done", NEW p \in Player
               PROVE  /\ Response(p) \in Plays(p)
                      /\ bestResponseEv[p] = Earned(p, ReachOf(p, Pure(p, Response(p))))
                      /\ \A f \in Plays(p) : Earned(p, ReachOf(p, Pure(p, f))) <= bestResponseEv[p]
    BY DEF ResponseIsBest
  <2>1. game \in Games
    BY DEF ResponseInv, TypesOk
  <2>2. Response(p) \in Plays(p)
    BY <2>1, DoneIsBest, ResponseIsPlay
  <2>3. ASSUME NEW f \in Plays(p)
        PROVE  IsPlan(p, ReachOf(p, Pure(p, f)))
    BY <2>1, PureIsStrategy, ReachIsPlan
  <2>4. ASSUME NEW n \in Nodes, Actor(n) = p
        PROVE  FollowsAt(ReachOf(p, Pure(p, Response(p))), n)
    <3> DEFINE f == Response(p)
               x == ReachOf(p, Pure(p, f))
    <3>1. ASSUME NEW h \in HandsAt(n), NEW c \in ChildrenOf(n), c # ChildOf(n, policy[n][h])
          PROVE  x[c][h] = 0
      <4>1. f[<<n, h>>] = policy[n][h]
        BY <2>4 DEF Response, Spots
      <4> HIDE DEF f
      <4>2. Pure(p, f)[c][h] = 0
        BY <2>1, <2>2, <2>4, <3>1, <4>1, PureIsStrategy DEF f
      <4>3. IsStrategy(game, p, Pure(p, f)) /\ f \in Plays(p)
        BY <2>1, <2>2, PureIsStrategy DEF f
      <4>4. x[c][h] = x[n][h] * Pure(p, f)[c][h]
        BY <2>1, <2>4, <4>3, ReachIsPlan
      <4>5. x[n][h] \in Int
        BY <2>3, <4>3 DEF IsPlan, IsReach
      <4>6. \A a \in Int : a * 0 = 0
        OBVIOUS
      <4> HIDE DEF x
      <4> QED BY <4>2, <4>4, <4>5, <4>6
    <3> QED BY <3>1 DEF FollowsAt
  <2> QED BY <2>2, <2>3, <2>4, DoneIsBest
<1> QED BY <1>1, ResponseInvHolds, PTL

\* Mixing actions does not help either: the value that BestResponseCalculator
\* returns bounds what any strategy earns.
MixedIsNoBetter ==
  stage = "done" => \A p \in Player : \A s : IsStrategy(game, p, s) =>
    Earned(p, ReachOf(p, s)) <= bestResponseEv[p]

\* The best response, which takes one action per hand, is best among all strategies.
THEOREM ResponseBestOfMixed == ResponseSpec => []MixedIsNoBetter
<1>1. ResponseInv => MixedIsNoBetter
  BY ReachIsPlan, DoneIsBest DEF MixedIsNoBetter, ResponseInv, TypesOk
<1> QED BY <1>1, ResponseInvHolds, PTL

\* The value FinalizeAverageStrategy gives a player is what its average strategy
\* earns, at most what the best response earns: no exploitability is negative.
THEOREM CurrentEarned == ResponseSpec => []CurrentIsEarned
<1>1. ResponseInv => CurrentIsEarned
  <2> SUFFICES ASSUME ResponseInv, stage = "done", NEW p \in Player
               PROVE  /\ currentEv[p] = Earned(p, averageReach[p])
                      /\ currentEv[p] <= bestResponseEv[p]
    BY DEF CurrentIsEarned
  <2>1. currentEv[p] = Earned(p, averageReach[p])
    BY ValuesAre DEF ResponseInv, Measured
  <2>2. IsPlan(p, averageReach[p])
    BY PlanIs DEF ResponseInv, ReachesDone
  <2> QED BY <2>1, <2>2, DoneIsBest
<1> QED BY <1>1, ResponseInvHolds, PTL
==============================================================================

---------------------------- MODULE MCLevelSweep -----------------------------
(***************************************************************************)
(* All trees of a few nodes, and some larger ones, with every choice of    *)
(* who acts.  A card may change the number of hands, an action never does. *)
(***************************************************************************)
EXTENDS LevelSweep

\* The trees whose node n has parent parents[n + 1].
Tree(parents, actors, hands) ==
  LET last == Len(parents) - 1
      parent == [n \in 0 .. last |-> parents[n + 1]]
      level[n \in 0 .. last] == IF n = 0 THEN 0 ELSE level[parent[n]] + 1
      child(n) == {m \in 0 .. last : parent[m] = n}
  IN  [size |-> last + 1, parent |-> parent, depth |-> level,
       offset |-> [n \in 0 .. last |-> IF child(n) = {} THEN NoNode
                                       ELSE CHOOSE m \in child(n) : \A k \in child(n) : m <= k],
       count |-> [n \in 0 .. last |-> Cardinality(child(n))],
       actor |-> actors, hands |-> hands]

InnerOf(parents) == {parents[i] : i \in 2 .. Len(parents)}

Actors(parents) ==
  {a \in [0 .. Len(parents) - 1 -> Player \cup {ChancePlayer, TerminalPlayer}] :
     \A n \in DOMAIN a : (a[n] = TerminalPlayer) <=> (n \notin InnerOf(parents))}

\* A card leaves one hand of the root's two, or both.
HandsAfter(parents, actors, fewer) ==
  [n \in 0 .. Len(parents) - 1 |->
     LET path[k \in 0 .. Len(parents) - 1] ==
           IF k = 0 THEN 2 ELSE IF actors[parents[k + 1]] = ChancePlayer /\ k \in fewer
                                THEN 1 ELSE path[parents[k + 1]]
     IN  path[n]]

TreesOf(parents) ==
  {Tree(parents, a, HandsAfter(parents, a, fewer)) : a \in Actors(parents), fewer \in {{}, {1, 4}}}

\* The same tree with more hands, too many for the offsets.
Crowded(t, factor) == [t EXCEPT !.hands = [n \in NodeIds(t) |-> factor * @[n]]]

\* A card that leaves no hand.
Emptied(t, n) == [t EXCEPT !.hands = [k \in NodeIds(t) |-> IF n \in {k, t.parent[k]} THEN 0 ELSE @[k]]]

MCTrees ==
  LET trees == UNION {TreesOf(parents) : parents \in {<<-1, 0, 0, 1, 1, 2, 2>>,
                                                      <<-1, 0, 1, 1, 3, 3>>,
                                                      <<-1, 0, 0, 0, 1, 1, 3, 6>>}}
  IN  trees \cup {Crowded(t, factor) : t \in TreesOf(<<-1, 0, 1, 1, 3, 3>>), factor \in 2 .. 6}
            \cup UNION {{Emptied(t, n) : n \in {k \in 1 .. 3 : t.actor[t.parent[k]] = ChancePlayer}} :
                       t \in TreesOf(<<-1, 0, 1, 1>>)}

MCPasses == <<0, 1, Average, 0>>
==============================================================================

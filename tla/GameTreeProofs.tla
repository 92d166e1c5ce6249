---------------------------- MODULE GameTreeProofs ----------------------------
(***************************************************************************)
(* Proofs, for every game and every deck, that breadth-first building keeps *)
(* the shape CfrStorage and LevelSweep assume of their trees, that a built  *)
(* tree has every position once, and that histories find their nodes.  Of   *)
(* the rules of the game, the shape needs that the valid actions form a     *)
(* sequence, the rest what GameRules says.                                  *)
(***************************************************************************)
EXTENDS GameTree, FiniteSetTheorems, SequenceTheorems, TLAPS

(***************************************************************************)
(* The inductive invariant.                                                *)
(***************************************************************************)
\* Every node of the vector has its fields.
NodesInv ==
  /\ DOMAIN nodes = 1 .. Len(nodes) /\ Len(nodes) \in Nat \ {0}
  /\ \A n \in Ids :
       /\ NodeAt(n) = [path   |-> NodeAt(n).path,   parent |-> NodeAt(n).parent,
                       depth  |-> NodeAt(n).depth,  offset |-> NodeAt(n).offset,
                       count  |-> NodeAt(n).count]
       /\ NodeAt(n).depth \in Nat /\ NodeAt(n).offset \in Int /\ NodeAt(n).count \in Nat

\* Nodes are expanded in the order of their ids.
QueueInv ==
  /\ queue = [i \in 1 .. Len(nodes) |-> i - 1]
  /\ next \in 1 .. Len(nodes) + 1

\* Parents come first, and only the expanded nodes are parents.
ParentsInv ==
  \A n \in Ids :
    IF n = 0 THEN NodeAt(n).parent = NoNode /\ NodeAt(n).depth = 0
             ELSE /\ NodeAt(n).parent \in 0 .. n - 1
                  /\ NodeAt(n).parent < next - 1
                  /\ NodeAt(n).depth = NodeAt(NodeAt(n).parent).depth + 1

\* The range of an expanded node holds its children; the others have none.
ChildrenInv ==
  \A n \in Ids :
    /\ n >= next - 1 => NodeAt(n).offset = NoNode /\ NodeAt(n).count = 0
    /\ \A m \in Int :
         (NodeAt(n).offset <= m /\ m < NodeAt(n).offset + NodeAt(n).count)
           <=> (m \in Ids /\ NodeAt(m).parent = n)

\* Depth grows with the id, and the nodes that wait for their expansion lie on
\* two levels at most.
DepthInv ==
  /\ \A m, n \in Ids : m <= n => NodeAt(m).depth <= NodeAt(n).depth
  /\ \A n \in Ids : n + 1 \in Ids => NodeAt(n + 1).depth <= NodeAt(n).depth + 1
  /\ \A n, m \in Ids : n >= next - 1 => NodeAt(m).depth <= NodeAt(n).depth + 1

IInv == NodesInv /\ QueueInv /\ ParentsInv /\ ChildrenInv /\ DepthInv

\* The root alone.
LEMMA InitIInv == Init => IInv
<1> SUFFICES ASSUME Init PROVE IInv
  OBVIOUS
<1> DEFINE root == NewNode(<<>>, NoNode, 0)
<1>1. /\ nodes = <<root>> /\ Len(nodes) = 1 /\ DOMAIN nodes = 1 .. 1
      /\ Ids = {0} /\ NodeAt(0) = root /\ queue = <<0>> /\ next = 1
  BY DEF Init, Ids, NodeAt
<1>2. root = [path |-> root.path, parent |-> NoNode, depth |-> 0, offset |-> NoNode, count |-> 0]
  BY DEF NewNode
<1>3. /\ root.parent = -1 /\ root.depth = 0 /\ root.offset = -1 /\ root.count = 0
  BY DEF NewNode, NoNode
<1> HIDE DEF root
<1>4. NodesInv
  BY <1>1, <1>2, <1>3 DEF NodesInv, NoNode
<1>5. QueueInv
  BY <1>1 DEF QueueInv
<1>6. ParentsInv /\ ChildrenInv /\ DepthInv
  BY <1>1, <1>3 DEF ParentsInv, ChildrenInv, DepthInv, NoNode
<1> QED BY <1>4, <1>5, <1>6 DEF IInv

\* What the node at the head of the queue is.
LEMMA HeadFacts ==
  ASSUME IInv, next <= Len(queue)
  PROVE  /\ Head1 = next - 1 /\ Head1 \in Ids /\ Head1 \in Nat
         /\ Len(queue) = Len(nodes) /\ next \in Nat /\ next <= Len(nodes)
<1>1. Len(queue) = Len(nodes) /\ Len(nodes) \in Nat
  BY DEF IInv, NodesInv, QueueInv
<1>2. next \in 1 .. Len(nodes)
  BY <1>1 DEF IInv, QueueInv
<1>3. queue[next] = next - 1
  BY <1>2 DEF IInv, QueueInv
<1> QED BY <1>1, <1>2, <1>3 DEF Head1, Ids

\* A terminal node stays without children.
LEMMA SkipIInv == ASSUME IInv, SkipTerminalNode PROVE IInv'
<1>1. /\ next' = next + 1 /\ nodes' = nodes /\ queue' = queue /\ next <= Len(queue)
  BY DEF SkipTerminalNode, Expanding
<1>2. Ids' = Ids /\ \A n : NodeAt(n)' = NodeAt(n)
  BY <1>1 DEF Ids, NodeAt
<1>3. next \in Nat /\ next <= Len(nodes) /\ Len(nodes) \in Nat
  BY <1>1, HeadFacts DEF IInv, NodesInv
<1>4. NodesInv' /\ QueueInv'
  BY <1>1, <1>2, <1>3 DEF IInv, NodesInv, QueueInv
<1>5. ParentsInv'
  BY <1>1, <1>2, <1>3 DEF IInv, ParentsInv, Ids
<1>6. ChildrenInv' /\ DepthInv'
  BY <1>1, <1>2, <1>3 DEF IInv, ChildrenInv, DepthInv, Ids
<1> QED BY <1>4, <1>5, <1>6 DEF IInv

-----------------------------------------------------------------------------
\* What joins two sequences.
LEMMA Joined ==
  ASSUME NEW T, NEW a \in Seq(T), NEW b \in Seq(T)
  PROVE  /\ a \o b \in Seq(T) /\ Len(a \o b) = Len(a) + Len(b)
         /\ \A i \in 1 .. Len(a) : (a \o b)[i] = a[i]
         /\ \A i \in 1 .. Len(b) : (a \o b)[Len(a) + i] = b[i]
OBVIOUS

\* Expanding the head: the nodes there are keep everything but the range of the
\* head, and the new ones are children of the head.
LEMMA AddChildrenFacts ==
  ASSUME IInv, next <= Len(queue), NEW moves, Len(moves) \in Nat, AddChildren(moves),
         NEW h, h = Head1
  PROVE  /\ Len(nodes') = Len(nodes) + Len(moves)
         /\ DOMAIN nodes' = 1 .. Len(nodes) + Len(moves)
         /\ queue' = [i \in 1 .. Len(nodes) + Len(moves) |-> i - 1]
         /\ \A n \in Ids : n # h => NodeAt(n)' = NodeAt(n)
         /\ NodeAt(h)' = SetChildrenRange(h, Len(nodes), Len(moves))
         /\ \A n \in Len(nodes) .. Len(nodes) + Len(moves) - 1 :
              NodeAt(n)' = NewNode(Append(HeadPath, moves[n + 1 - Len(nodes)]), h,
                                   NodeAt(h).depth + 1)
<1> DEFINE first == Len(nodes)
           count == Len(moves)
           child(i) == NewNode(Append(HeadPath, moves[i]), h, NodeAt(h).depth + 1)
           head == SetChildrenRange(h, first, count)
           S == {nodes[i] : i \in 1 .. first} \cup {head} \cup {child(i) : i \in 1 .. count}
           kept == ReplaceAt(nodes, h + 1, head)
           added == [i \in 1 .. count |-> child(i)]
           ids == [i \in 1 .. count |-> first + i - 1]
<1>1. nodes' = kept \o added /\ queue' = queue \o ids
  BY DEF AddChildren
<1>2. /\ first \in Nat \ {0} /\ count \in Nat /\ h + 1 \in 1 .. first
      /\ DOMAIN nodes = 1 .. first /\ Len(queue) = first
  BY HeadFacts DEF IInv, NodesInv, Ids
<1> HIDE DEF first, count, child, head
<1>3. /\ kept \in Seq(S) /\ Len(kept) = first
      /\ kept[h + 1] = head
      /\ \A i \in 1 .. first : i # h + 1 => kept[i] = nodes[i]
  <2> DEFINE f == [i \in 1 .. first |-> IF i = h + 1 THEN head ELSE nodes[i]]
  <2>1. kept = f
    BY <1>2 DEF ReplaceAt
  <2>2. f \in Seq(S) /\ Len(f) = first
    BY <1>2
  <2> QED BY <1>2, <2>1, <2>2
<1>4. added \in Seq(S) /\ Len(added) = count
  BY <1>2
<1>5. queue \in Seq(Nat) /\ ids \in Seq(Nat) /\ Len(ids) = count
  <2>1. queue = [i \in 1 .. first |-> i - 1]
    BY DEF IInv, QueueInv, first
  <2> QED BY <1>2, <2>1
<1>6. /\ Len(nodes') = first + count /\ nodes' \in Seq(S)
      /\ \A i \in 1 .. first : nodes'[i] = kept[i]
      /\ \A i \in 1 .. count : nodes'[first + i] = child(i)
  <2>1. \A i \in 1 .. count : added[i] = child(i)
    OBVIOUS
  <2> HIDE DEF kept, added, S
  <2>2. /\ kept \o added \in Seq(S) /\ Len(kept \o added) = first + count
        /\ \A i \in 1 .. first : (kept \o added)[i] = kept[i]
        /\ \A i \in 1 .. count : (kept \o added)[first + i] = added[i]
    <3>1. /\ kept \o added \in Seq(S) /\ Len(kept \o added) = Len(kept) + Len(added)
          /\ \A i \in 1 .. Len(kept) : (kept \o added)[i] = kept[i]
          /\ \A i \in 1 .. Len(added) : (kept \o added)[Len(kept) + i] = added[i]
      <4>1. kept \in Seq(S) /\ added \in Seq(S) BY <1>3, <1>4
      <4> QED BY ONLY <4>1, Joined
    <3> QED BY <1>3, <1>4, <3>1
  <2> QED BY <1>1, <2>1, <2>2
<1>7. queue' = [i \in 1 .. first + count |-> i - 1]
  <2>1. \A i \in 1 .. first : queue[i] = i - 1
    BY DEF IInv, QueueInv, first
  <2>2. queue' \in Seq(Nat) /\ Len(queue') = first + count
    <3> HIDE DEF ids
    <3> QED BY <1>1, <1>2, <1>5, Joined
  <2>3. ASSUME NEW i \in 1 .. first + count PROVE queue'[i] = i - 1
    <3>1. CASE i <= first
      BY <1>1, <1>2, <1>5, <2>1, <3>1
    <3>2. CASE i > first
      <4>1. i - first \in 1 .. count /\ (queue \o ids)[i] = ids[i - first]
        BY <1>2, <1>5, <3>2
      <4> QED BY <1>1, <1>2, <4>1
    <3> QED BY <1>2, <3>1, <3>2
  <2> QED BY <1>2, <2>2, <2>3
<1>8. ASSUME NEW n \in Ids, n # h PROVE NodeAt(n)' = NodeAt(n)
  <2>1. n + 1 \in 1 .. first /\ n + 1 # h + 1
    BY <1>2, <1>8, HeadFacts DEF Ids, first
  <2> QED BY <1>3, <1>6, <2>1 DEF NodeAt
<1>9. ASSUME NEW n \in first .. first + count - 1
      PROVE  NodeAt(n)' = child(n + 1 - first)
  <2>1. n + 1 - first \in 1 .. count /\ first + (n + 1 - first) = n + 1
    BY <1>2
  <2> QED BY <1>6, <2>1 DEF NodeAt
<1>10. DOMAIN nodes' = 1 .. first + count
  <2> HIDE DEF S
  <2> QED BY <1>2, <1>6
<1>11. NodeAt(h)' = head
  BY <1>2, <1>3, <1>6 DEF NodeAt
<1> QED BY <1>6, <1>7, <1>8, <1>9, <1>10, <1>11 DEF first, count, head, child

\* So the shape is kept: the new nodes are the head's children, one level below
\* it, and come last.
LEMMA ExpandIInv ==
  ASSUME IInv, next <= Len(queue), NEW moves, Len(moves) \in Nat, AddChildren(moves),
         next' = next + 1
  PROVE  IInv'
<1>0. PICK h, first, count, level :
        h = Head1 /\ first = Len(nodes) /\ count = Len(moves) /\ level = NodeAt(Head1).depth
  OBVIOUS
<1> DEFINE New == first .. first + count - 1
           Offset == IF count = 0 THEN NoNode ELSE first
<1>1. /\ first \in Nat \ {0} /\ count \in Nat /\ h \in 0 .. first - 1
      /\ Ids = 0 .. first - 1 /\ h = next - 1 /\ next' = h + 2 /\ level \in Nat
      /\ Offset \in Int
  BY <1>0, HeadFacts DEF IInv, NodesInv, Ids, NoNode
<1>2. /\ Len(nodes') = first + count /\ DOMAIN nodes' = 1 .. first + count
      /\ queue' = [i \in 1 .. first + count |-> i - 1]
      /\ \A n \in Ids : n # h => NodeAt(n)' = NodeAt(n)
      /\ NodeAt(h)' = SetChildrenRange(h, first, count)
      /\ \A n \in New : \E path : NodeAt(n)' = NewNode(path, h, level + 1)
  BY <1>0, AddChildrenFacts
<1>3. Ids' = 0 .. first + count - 1 /\ Ids' = Ids \cup New
  BY <1>1, <1>2 DEF Ids
\* Every node as a record of its fields.
<1>4. ASSUME NEW n \in Ids
      PROVE  /\ NodeAt(n)' = [path |-> NodeAt(n)'.path, parent |-> NodeAt(n)'.parent,
                  depth |-> NodeAt(n)'.depth, offset |-> NodeAt(n)'.offset,
                  count |-> NodeAt(n)'.count]
             /\ NodeAt(n)'.parent = NodeAt(n).parent /\ NodeAt(n)'.depth = NodeAt(n).depth
             /\ NodeAt(n)'.offset = (IF n = h THEN Offset ELSE NodeAt(n).offset)
             /\ NodeAt(n)'.count = (IF n = h THEN count ELSE NodeAt(n).count)
  <2>1. NodeAt(n) = [path |-> NodeAt(n).path, parent |-> NodeAt(n).parent,
                     depth |-> NodeAt(n).depth, offset |-> NodeAt(n).offset,
                     count |-> NodeAt(n).count]
    BY DEF IInv, NodesInv
  <2>2. CASE n # h
    <3>1. NodeAt(n)' = NodeAt(n)
      BY <1>2, <2>2
    <3> QED BY ONLY <2>1, <2>2, <3>1
  <2>3. CASE n = h
    <3>1. NodeAt(n)' = [NodeAt(n) EXCEPT !.offset = Offset, !.count = count]
      BY <1>2, <2>3 DEF SetChildrenRange
    <3> DEFINE node == NodeAt(n)
               changed == NodeAt(n)'
    <3>2. /\ node = [path |-> node.path, parent |-> node.parent, depth |-> node.depth,
                     offset |-> node.offset, count |-> node.count]
          /\ changed = [node EXCEPT !.offset = Offset, !.count = count]
      BY <2>1, <3>1
    <3> HIDE DEF node, changed, Offset
    <3>3. /\ changed = [path |-> changed.path, parent |-> changed.parent, depth |-> changed.depth,
                        offset |-> changed.offset, count |-> changed.count]
          /\ changed.parent = node.parent /\ changed.depth = node.depth
          /\ changed.offset = Offset /\ changed.count = count
      BY ONLY <3>2
    <3> QED BY <2>3, <3>3 DEF node, changed
  <2> QED BY <2>2, <2>3
<1>5. ASSUME NEW n \in New
      PROVE  /\ NodeAt(n)' = [path |-> NodeAt(n)'.path, parent |-> NodeAt(n)'.parent,
                  depth |-> NodeAt(n)'.depth, offset |-> NodeAt(n)'.offset,
                  count |-> NodeAt(n)'.count]
             /\ NodeAt(n)'.parent = h /\ NodeAt(n)'.depth = level + 1
             /\ NodeAt(n)'.offset = NoNode /\ NodeAt(n)'.count = 0
  BY <1>2 DEF NewNode
<1>6. NodeAt(h).depth = level /\ NodeAt(h).offset = NoNode /\ NodeAt(h).count = 0
  BY <1>0, <1>1 DEF IInv, ChildrenInv
<1>7. NodesInv'
  <2>1. ASSUME NEW n \in Ids'
        PROVE  /\ NodeAt(n)' = [path |-> NodeAt(n)'.path, parent |-> NodeAt(n)'.parent,
                    depth |-> NodeAt(n)'.depth, offset |-> NodeAt(n)'.offset,
                    count |-> NodeAt(n)'.count]
               /\ NodeAt(n)'.depth \in Nat /\ NodeAt(n)'.offset \in Int /\ NodeAt(n)'.count \in Nat
    <3>1. CASE n \in Ids
      <4>1. NodeAt(n).depth \in Nat /\ NodeAt(n).offset \in Int /\ NodeAt(n).count \in Nat
        BY <3>1 DEF IInv, NodesInv
      <4> QED BY <1>1, <1>4, <3>1, <4>1
    <3>2. CASE n \in New
      BY <1>1, <1>5, <3>2 DEF NoNode
    <3> QED BY <1>3, <3>1, <3>2
  <2> QED BY <1>1, <1>2, <2>1 DEF NodesInv
<1>8. QueueInv'
  BY <1>1, <1>2 DEF QueueInv
<1>9. ParentsInv'
  <2>1. ASSUME NEW n \in Ids', NEW p, p = NodeAt(n)'.parent
        PROVE  IF n = 0 THEN p = NoNode /\ NodeAt(n)'.depth = 0
               ELSE /\ p \in 0 .. n - 1 /\ p < h + 1
                    /\ NodeAt(n)'.depth = NodeAt(p)'.depth + 1
    <3>1. CASE n \in Ids
      <4>1. p = NodeAt(n).parent /\ NodeAt(n)'.depth = NodeAt(n).depth
        BY <1>4, <2>1, <3>1
      <4>2. IF n = 0 THEN p = NoNode /\ NodeAt(n).depth = 0
            ELSE /\ p \in 0 .. n - 1 /\ p < h
                 /\ NodeAt(n).depth = NodeAt(p).depth + 1
        BY <1>1, <3>1, <4>1 DEF IInv, ParentsInv
      <4>3. CASE n # 0
        <5>1. p \in Ids
          BY <1>1, <3>1, <4>2, <4>3
        <5>2. NodeAt(p)'.depth = NodeAt(p).depth
          BY <1>4, <5>1
        <5> QED BY <1>1, <3>1, <4>1, <4>2, <4>3, <5>1, <5>2
      <4> QED BY <4>1, <4>2, <4>3
    <3>2. CASE n \in New
      <4>1. NodeAt(h)'.depth = level
        BY <1>1, <1>4, <1>6
      <4> QED BY <1>1, <1>5, <2>1, <3>2, <4>1
    <3> QED BY <1>3, <3>1, <3>2
  <2> QED BY <1>1, <2>1 DEF ParentsInv, NodeAt
<1>10. ChildrenInv'
  <2>1. ASSUME NEW n \in Ids', n >= next' - 1
        PROVE  NodeAt(n)'.offset = NoNode /\ NodeAt(n)'.count = 0
    <3>1. CASE n \in Ids
      <4>1. n # h /\ n >= next - 1
        BY <1>1, <2>1, <3>1
      <4> QED BY <1>4, <3>1, <4>1 DEF IInv, ChildrenInv
    <3>2. CASE n \in New
      BY <1>5, <3>2
    <3> QED BY <1>3, <3>1, <3>2
  \* The parent of an old node is an old node before the head.
  <2>2. ASSUME NEW m \in Ids
        PROVE  NodeAt(m)'.parent = NodeAt(m).parent /\ NodeAt(m).parent < h
    BY <1>1, <1>4 DEF IInv, ParentsInv, NoNode
  <2>3. ASSUME NEW n \in Ids', NEW m \in Int
        PROVE  (NodeAt(n)'.offset <= m /\ m < NodeAt(n)'.offset + NodeAt(n)'.count)
                 <=> (m \in Ids' /\ NodeAt(m)'.parent = n)
    <3>1. CASE n \in Ids /\ n # h
      <4>1. NodeAt(n)'.offset = NodeAt(n).offset /\ NodeAt(n)'.count = NodeAt(n).count
        BY <1>4, <3>1
      <4>2. (NodeAt(n).offset <= m /\ m < NodeAt(n).offset + NodeAt(n).count)
              <=> (m \in Ids /\ NodeAt(m).parent = n)
        BY <3>1 DEF IInv, ChildrenInv
      <4>3. m \in New => NodeAt(m)'.parent # n
        BY <1>5, <3>1
      <4> QED BY <1>3, <2>2, <4>1, <4>2, <4>3
    <3>2. CASE n = h
      <4>1. NodeAt(n)'.offset = Offset /\ NodeAt(n)'.count = count
        BY <1>1, <1>4, <3>2
      <4>2. (m \in Ids' /\ NodeAt(m)'.parent = n) <=> m \in New
        BY <1>1, <1>3, <1>5, <2>2, <3>2
      <4>3. m \in New <=> (Offset <= m /\ m < Offset + count)
        BY <1>1 DEF NoNode
      <4> QED BY <4>1, <4>2, <4>3
    <3>3. CASE n \in New
      <4>1. NodeAt(n)'.offset = -1 /\ NodeAt(n)'.count = 0
        BY <1>5, <3>3 DEF NoNode
      <4>2. ~(m \in Ids' /\ NodeAt(m)'.parent = n)
        BY <1>1, <1>3, <1>5, <2>2, <3>3
      <4> QED BY <4>1, <4>2
    <3> QED BY <1>3, <3>1, <3>2, <3>3
  <2> QED BY <2>1, <2>3 DEF ChildrenInv, NodeAt
<1>11. DepthInv'
  <2>1. ASSUME NEW n \in Ids
        PROVE  NodeAt(n)'.depth = NodeAt(n).depth /\ NodeAt(n).depth \in Nat
               /\ NodeAt(n).depth <= level + 1
               /\ (n >= h => level <= NodeAt(n).depth)
    <3>1. NodeAt(n).depth \in Nat /\ NodeAt(n)'.depth = NodeAt(n).depth
      BY <1>4 DEF IInv, NodesInv
    <3>2. NodeAt(n).depth <= NodeAt(h).depth + 1
      BY <1>1 DEF IInv, DepthInv
    <3>3. n >= h => NodeAt(h).depth <= NodeAt(n).depth
      BY <1>1 DEF IInv, DepthInv
    <3> QED BY <1>6, <3>1, <3>2, <3>3
  <2>2. ASSUME NEW m \in Ids', NEW n \in Ids', m <= n
        PROVE  NodeAt(m)'.depth <= NodeAt(n)'.depth
    <3>1. CASE n \in Ids
      <4>1. m \in Ids
        BY <1>1, <1>3, <2>2, <3>1
      <4> QED BY <2>1, <2>2, <3>1, <4>1 DEF IInv, DepthInv
    <3>2. CASE n \in New
      <4>1. NodeAt(n)'.depth = level + 1
        BY <1>5, <3>2
      <4>2. CASE m \in Ids BY ONLY <1>1, <2>1, <4>1, <4>2
      <4>3. CASE m \in New BY ONLY <1>1, <1>5, <4>1, <4>3
      <4> QED BY <1>3, <4>2, <4>3
    <3> QED BY <1>3, <3>1, <3>2
  <2>3. ASSUME NEW n \in Ids', n + 1 \in Ids'
        PROVE  NodeAt(n + 1)'.depth <= NodeAt(n)'.depth + 1
    <3>1. CASE n + 1 \in Ids
      <4>1. n \in Ids
        BY <1>1, <1>3, <2>3, <3>1
      <4> QED BY <2>1, <3>1, <4>1 DEF IInv, DepthInv
    <3>2. CASE n + 1 \in New /\ n \in Ids
      <4>1. n >= h
        BY <1>1, <3>2
      <4>2. NodeAt(n + 1)'.depth = level + 1
        BY <1>5, <3>2
      <4>3. NodeAt(n)'.depth \in Nat /\ level <= NodeAt(n)'.depth
        BY <2>1, <3>2, <4>1
      <4> QED BY ONLY <1>1, <4>2, <4>3
    <3>3. CASE n + 1 \in New /\ n \in New
      <4>1. NodeAt(n + 1)'.depth = level + 1 /\ NodeAt(n)'.depth = level + 1
        BY <1>5, <3>3
      <4> QED BY ONLY <1>1, <4>1
    <3> QED BY <1>3, <2>3, <3>1, <3>2, <3>3
  <2>4. ASSUME NEW n \in Ids', NEW m \in Ids', n >= next' - 1
        PROVE  NodeAt(m)'.depth <= NodeAt(n)'.depth + 1
    <3>1. NodeAt(m)'.depth \in Nat /\ NodeAt(m)'.depth <= level + 1
      <4>1. CASE m \in Ids BY <2>1, <4>1
      <4>2. CASE m \in New BY <1>1, <1>5, <4>2
      <4> QED BY <1>3, <4>1, <4>2
    <3>2. NodeAt(n)'.depth \in Nat /\ level <= NodeAt(n)'.depth
      <4>1. CASE n \in Ids
        <5>1. n >= h BY <1>1, <2>4, <4>1
        <5> QED BY <2>1, <4>1, <5>1
      <4>2. CASE n \in New BY <1>1, <1>5, <4>2
      <4> QED BY <1>3, <4>1, <4>2
    <3> QED BY <1>1, <3>1, <3>2
  <2> QED BY <2>2, <2>3, <2>4 DEF DepthInv, NodeAt
<1> QED BY <1>7, <1>8, <1>9, <1>10, <1>11 DEF IInv

-----------------------------------------------------------------------------
\* The cards that can still come form a sequence.
LEMMA FreeCardsCounted == ASSUME NEW path PROVE Len(FreeCards(path)) \in Nat
<1> DEFINE free == {i \in 1 .. Len(Deck) : Deck[i] \notin Board(path)}
<1>1. Len(Deck) \in Nat
  BY DeckAssumption
<1>2. IsFiniteSet(free)
  <2>1. IsFiniteSet(1 .. Len(Deck)) BY <1>1, FS_Interval
  <2> QED BY <2>1, FS_Subset
<1>3. Cardinality(free) \in Nat
  BY <1>2, FS_CardinalityType
<1> QED BY <1>3 DEF FreeCards

\* Every step of building keeps the invariant.
LEMMA NextIInv ==
  ASSUME IInv, [Next]_vars, ExpandPlayerNode => Len(ActionsAt(game, HeadPath)) \in Nat
  PROVE  IInv'
<1>1. CASE SkipTerminalNode
  BY <1>1, SkipIInv
<1>2. CASE ExpandPlayerNode
  <2> QED BY <1>2, ExpandIInv DEF ExpandPlayerNode, Expanding
<1>3. CASE ExpandChanceNode
  BY <1>3, FreeCardsCounted, ExpandIInv DEF ExpandChanceNode, Expanding
<1>4. CASE UNCHANGED vars
  BY <1>4 DEF vars, IInv, NodesInv, QueueInv, ParentsInv, ChildrenInv, DepthInv, Ids, NodeAt
<1> QED BY <1>1, <1>2, <1>3, <1>4 DEF Next

\* The invariant is the shape, node by node.
LEMMA IInvShape == IInv => ShapeKept
<1> SUFFICES ASSUME IInv PROVE WellFormed(Tree)
  BY DEF ShapeKept
<1>1. /\ Tree.size = Len(nodes) /\ NodeIds(Tree) = Ids /\ Len(nodes) >= 1 /\ Len(nodes) \in Nat
      /\ \A n \in Ids : /\ Tree.parent[n] = NodeAt(n).parent /\ Tree.depth[n] = NodeAt(n).depth
                         /\ Tree.offset[n] = NodeAt(n).offset /\ Tree.count[n] = NodeAt(n).count
  BY DEF Tree, NodeIds, Ids, IInv, NodesInv
<1>2. \A n \in Ids : n \in Nat /\ NodeAt(n).depth \in Nat /\ NodeAt(n).offset \in Int
                     /\ NodeAt(n).count \in Nat
  BY <1>1 DEF Ids, IInv, NodesInv
<1>3. ParentsFirst(Tree)
  <2>1. \A n \in Ids : n # 0 => NodeAt(n).parent \in Ids
    BY <1>1 DEF Ids, IInv, ParentsInv
  <2> HIDE DEF Ids
  <2> QED BY <1>1, <1>2, <2>1 DEF ParentsFirst, IInv, ParentsInv
<1>4. ChildrenContiguous(Tree)
  <2> SUFFICES ASSUME NEW n \in Ids
               PROVE  /\ Tree.count[n] >= 0
                      /\ Children(Tree, n) = {m \in Ids : Tree.parent[m] = n}
    BY <1>1 DEF ChildrenContiguous
  <2>1. Children(Tree, n) = NodeAt(n).offset .. NodeAt(n).offset + NodeAt(n).count - 1
    BY <1>1 DEF Children
  <2>2. \A m \in Int : m \in Children(Tree, n) <=> (m \in Ids /\ NodeAt(m).parent = n)
    BY <1>2, <2>1 DEF IInv, ChildrenInv
  <2>3. Children(Tree, n) \subseteq Int /\ Ids \subseteq Int
    BY <1>2, <2>1
  <2>4. Tree.count[n] >= 0
    BY <1>1, <1>2
  <2>5. \A m \in Ids : Tree.parent[m] = NodeAt(m).parent
    BY <1>1
  <2>6. Children(Tree, n) = {m \in Ids : Tree.parent[m] = n}
    BY ONLY <2>2, <2>3, <2>5
  <2> QED BY <2>4, <2>6
<1>5. LevelsInOrder(Tree)
  <2> SUFFICES ASSUME NEW n \in Ids, n + 1 \in Ids
               PROVE  NodeAt(n + 1).depth \in {NodeAt(n).depth, NodeAt(n).depth + 1}
    BY <1>1 DEF LevelsInOrder
  <2>1. NodeAt(n).depth <= NodeAt(n + 1).depth /\ NodeAt(n + 1).depth <= NodeAt(n).depth + 1
    BY <1>2 DEF IInv, DepthInv
  <2> QED BY <1>2, <2>1
<1> QED BY <1>1, <1>3, <1>4, <1>5 DEF WellFormed

\* Whatever the game and the deck, a tree has at every moment of its building
\* the shape that storage and sweeps rely on: parents before their children, the
\* children of a node in one range of ids, levels in one interval of ids.
THEOREM SpecShapeKept ==
  ASSUME NEW CONSTANT Actions, \A g, path : ActionsAt(g, path) \in Seq(Actions)
  PROVE  Spec => []ShapeKept
<1>1. Init => IInv
  BY InitIInv
<1>2. IInv /\ [Next]_vars => IInv'
  <2>1. ActionsAt(game, HeadPath) \in Seq(Actions)
    OBVIOUS
  <2>2. Len(ActionsAt(game, HeadPath)) \in Nat
    BY <2>1
  <2> QED BY <2>2, NextIInv
<1>3. IInv => ShapeKept
  BY IInvShape
<1> QED BY <1>1, <1>2, <1>3, PTL DEF Spec

(***************************************************************************)
(* The positions of the nodes                                              *)
(***************************************************************************)

\* What is used of the rules: the valid actions are distinct and no cards.
GameRules(Actions) ==
  /\ Actions \cap Cards = {}
  /\ \A g \in Games : g.history \in Seq(Actions \cup {ChanceAction})
  /\ \A g \in Games, path \in Seq(Actions \cup Cards) :
       /\ ActorAt(g, path) \in Player \cup {ChancePlayer, TerminalPlayer}
       /\ ActionsAt(g, path) \in Seq(Actions)
       /\ \A i, j \in 1 .. Len(ActionsAt(g, path)) :
            ActionsAt(g, path)[i] = ActionsAt(g, path)[j] => i = j

MovesAt(path) == IF ActorAt(game, path) = ChancePlayer THEN FreeCards(path) ELSE ActionsAt(game, path)
PathOf(n) == NodeAt(n).path
\* The move of its parent's that a node stands for.
PlaceOf(n) == n - NodeAt(NodeAt(n).parent).offset + 1

\* Every node's path is its parent's and one more move.
StepsInv ==
  \A n \in Ids :
    IF n = 0 THEN PathOf(n) = <<>>
    ELSE LET up == NodeAt(n).parent
         IN  /\ Actor(up) # TerminalPlayer
             /\ PlaceOf(n) \in 1 .. Len(MovesAt(PathOf(up)))
             /\ PathOf(n) = Append(PathOf(up), MovesAt(PathOf(up))[PlaceOf(n)])

\* Every expanded node has a child for every move.
CountsInv ==
  \A n \in Ids : n < next - 1 =>
    NodeAt(n).count = IF Actor(n) = TerminalPlayer THEN 0 ELSE Len(MovesAt(PathOf(n)))

DistinctInv == \A m, n \in Ids : PathOf(m) = PathOf(n) => m = n

\* The nodes on the way to a node.
IsAncestor(m, n, i) == Len(PathOf(m)) = i /\ \A j \in 1 .. i : PathOf(m)[j] = PathOf(n)[j]
PrefixInv == \A n \in Ids : \A i \in 0 .. Len(PathOf(n)) : \E m \in Ids : IsAncestor(m, n, i)

PathsInv(Moves) ==
  /\ game \in Games
  /\ \A n \in Ids : PathOf(n) \in Seq(Moves)
  /\ StepsInv /\ CountsInv /\ DistinctInv /\ PrefixInv

\* Ranks: the cards that can still come, each once.
LEMMA FreeCardsFacts ==
  ASSUME NEW path
  PROVE  /\ FreeCards(path) \in Seq(Cards)
         /\ \A i, j \in 1 .. Len(FreeCards(path)) : FreeCards(path)[i] = FreeCards(path)[j] => i = j
         /\ {FreeCards(path)[i] : i \in 1 .. Len(FreeCards(path))} = Cards \ Board(path)
<1> DEFINE free == {i \in 1 .. Len(Deck) : Deck[i] \notin Board(path)}
           UpTo(i) == {j \in free : j <= i}
           Place(i) == Cardinality(UpTo(i))
           n == Cardinality(free)
           nth(k) == CHOOSE i \in free : Place(i) = k
           f == [i \in free |-> Place(i)]
<1>1. Len(Deck) \in Nat /\ \A i \in 1 .. Len(Deck) : Deck[i] \in Cards
  BY DeckAssumption
<1>2. IsFiniteSet(free) /\ n \in Nat
  <2>1. IsFiniteSet(1 .. Len(Deck))
    BY <1>1, FS_Interval
  <2> QED BY <2>1, FS_Subset, FS_CardinalityType
<1>3. free \subseteq Nat
  BY <1>1
<1>4. ASSUME NEW i \in free
      PROVE  IsFiniteSet(UpTo(i)) /\ Place(i) \in 1 .. n
  <2>1. UpTo(i) \in SUBSET free /\ i \in UpTo(i)
    BY <1>3
  <2>2. IsFiniteSet(UpTo(i)) /\ Place(i) <= n
    BY <1>2, <2>1, FS_Subset
  <2>3. Place(i) \in Nat /\ Place(i) # 0
    BY <2>1, <2>2, FS_CardinalityType, FS_EmptySet
  <2> QED BY <1>2, <2>2, <2>3
<1>5. ASSUME NEW i \in free, NEW j \in free, i < j PROVE Place(i) # Place(j)
  <2>1. UpTo(i) \in SUBSET UpTo(j) /\ j \in UpTo(j) /\ j \notin UpTo(i)
    BY <1>3, <1>5
  <2> HIDE DEF UpTo
  <2> QED BY <1>4, <2>1, FS_Subset
<1>6. \A i, j \in free : Place(i) = Place(j) => i = j
  <2> SUFFICES ASSUME NEW i \in free, NEW j \in free, i # j PROVE Place(i) # Place(j)
    OBVIOUS
  <2>1. i < j \/ j < i
    BY <1>3
  <2> HIDE DEF Place
  <2> QED BY <1>5, <2>1
<1> HIDE DEF Place
<1>7. \A k \in 1 .. n : \E i \in free : Place(i) = k
  <2>1. f \in Injection(free, 1 .. n)
    BY <1>4, <1>6 DEF Injection, IsInjective
  <2>2. IsFiniteSet(1 .. n) /\ Cardinality(1 .. n) = n
    BY <1>2, FS_Interval
  <2>3. f \in Surjection(free, 1 .. n)
    <3> HIDE DEF f, free
    <3> QED BY <2>1, <2>2, FS_Injection
  <2> QED BY <2>3 DEF Surjection
<1>8. \A k \in 1 .. n : nth(k) \in free /\ Place(nth(k)) = k
  BY <1>7
<1>9. \A i \in free : nth(Place(i)) = i
  BY <1>6
<1>10. FreeCards(path) = [k \in 1 .. n |-> Deck[nth(k)]]
  BY DEF FreeCards, Place
<1> DEFINE s == FreeCards(path)
<1>11. Len(s) = n /\ DOMAIN s = 1 .. n /\ \A k \in 1 .. n : s[k] = Deck[nth(k)]
  <2> HIDE DEF nth, n
  <2> QED BY <1>2, <1>10
<1>12. \A k \in 1 .. n : s[k] \in Cards
  BY <1>1, <1>8, <1>11
<1>13. s \in Seq(Cards)
  <2> HIDE DEF nth, n
  <2> QED BY <1>2, <1>10, <1>11, <1>12
<1>14. ASSUME NEW k \in 1 .. n, NEW l \in 1 .. n, s[k] = s[l] PROVE k = l
  <2>1. nth(k) \in 1 .. Len(Deck) /\ nth(l) \in 1 .. Len(Deck) /\ Deck[nth(k)] = Deck[nth(l)]
    BY <1>8, <1>11, <1>14
  <2>2. nth(k) = nth(l)
    <3> HIDE DEF nth
    <3> QED BY <2>1, DeckAssumption
  <2>3. Place(nth(k)) = k /\ Place(nth(l)) = l
    BY <1>8
  <2> HIDE DEF nth
  <2> QED BY <2>2, <2>3
<1>15. ASSUME NEW c \in Cards \ Board(path) PROVE \E k \in 1 .. n : s[k] = c
  <2>1. PICK i \in 1 .. Len(Deck) : Deck[i] = c
    BY DEF Cards
  <2>2. i \in free
    BY <2>1
  <2>3. Place(i) \in 1 .. n /\ nth(Place(i)) = i
    BY <1>4, <1>9, <2>2 DEF Place
  <2>4. s[Place(i)] = c
    <3> HIDE DEF nth
    <3> QED BY <1>11, <2>1, <2>3
  <2> QED BY <2>3, <2>4
<1>16. \A k \in 1 .. n : s[k] \notin Board(path)
  BY <1>8, <1>11
<1> HIDE DEF s, n, nth
<1>17. {s[i] : i \in 1 .. n} = Cards \ Board(path)
  BY <1>12, <1>15, <1>16
<1> QED BY <1>11, <1>13, <1>14, <1>17 DEF s

\* The moves of a node are distinct, and there is one child for each.
LEMMA MovesFacts ==
  ASSUME NEW Actions, GameRules(Actions), game \in Games, NEW path \in Seq(Actions \cup Cards)
  PROVE  /\ MovesAt(path) \in Seq(Actions \cup Cards) /\ Len(MovesAt(path)) \in Nat
         /\ \A i \in 1 .. Len(MovesAt(path)) : MovesAt(path)[i] \in Actions \cup Cards
         /\ \A i, j \in 1 .. Len(MovesAt(path)) : MovesAt(path)[i] = MovesAt(path)[j] => i = j
         /\ \A i \in 1 .. Len(MovesAt(path)) :
              MovesAt(path)[i] \in Cards <=> ActorAt(game, path) = ChancePlayer
<1>1. CASE ActorAt(game, path) = ChancePlayer
  <2>1. /\ FreeCards(path) \in Seq(Cards)
        /\ \A i, j \in 1 .. Len(FreeCards(path)) : FreeCards(path)[i] = FreeCards(path)[j] => i = j
    BY FreeCardsFacts
  <2>2. MovesAt(path) = FreeCards(path)
    BY <1>1 DEF MovesAt
  <2>3. Len(FreeCards(path)) \in Nat /\ \A i \in 1 .. Len(FreeCards(path)) : FreeCards(path)[i] \in Cards
    BY <2>1
  <2>4. FreeCards(path) \in Seq(Actions \cup Cards)
    BY <2>1, SeqMonotonic
  <2> QED BY <1>1, <2>1, <2>2, <2>3, <2>4
<1>2. CASE ActorAt(game, path) # ChancePlayer
  <2> DEFINE acts == ActionsAt(game, path)
  <2>1. acts \in Seq(Actions) /\ \A i, j \in 1 .. Len(acts) : acts[i] = acts[j] => i = j
    BY DEF GameRules
  <2>2. MovesAt(path) = acts
    BY <1>2 DEF MovesAt
  <2> HIDE DEF acts
  <2>3. Len(acts) \in Nat /\ \A i \in 1 .. Len(acts) : acts[i] \in Actions
    BY <2>1
  <2>4. acts \in Seq(Actions \cup Cards)
    BY <2>1, SeqMonotonic
  <2>5. Actions \cap Cards = {}
    BY DEF GameRules
  <2> QED BY <1>2, <2>1, <2>2, <2>3, <2>4, <2>5
<1> QED BY <1>1, <1>2

LEMMA InitPaths ==
  ASSUME NEW Actions, Init
  PROVE  PathsInv(Actions \cup Cards)
<1>1. /\ nodes = <<NewNode(<<>>, NoNode, 0)>> /\ Len(nodes) = 1 /\ Ids = {0}
      /\ PathOf(0) = <<>> /\ game \in Games /\ next = 1
  BY DEF Init, Ids, NodeAt, PathOf, NewNode
<1>2. Len(<<>>) = 0 /\ <<>> \in Seq(Actions \cup Cards)
  OBVIOUS
<1>3. StepsInv /\ CountsInv /\ DistinctInv
  BY <1>1 DEF StepsInv, CountsInv, DistinctInv
<1>4. PrefixInv
  BY <1>1, <1>2 DEF PrefixInv, IsAncestor
<1> QED BY <1>1, <1>2, <1>3, <1>4 DEF PathsInv

LEMMA SkipPaths ==
  ASSUME NEW Moves, IInv, PathsInv(Moves), SkipTerminalNode
  PROVE  PathsInv(Moves)'
<1>1. /\ next' = next + 1 /\ nodes' = nodes /\ game' = game /\ next <= Len(queue)
      /\ Actor(Head1) = TerminalPlayer
  BY DEF SkipTerminalNode, Expanding, Actor, HeadPath
<1>2. Head1 = next - 1 /\ Head1 \in Ids /\ next \in Nat
  BY <1>1, HeadFacts
<1>3. Ids' = Ids /\ (\A n : NodeAt(n)' = NodeAt(n) /\ PathOf(n)' = PathOf(n) /\ Actor(n)' = Actor(n))
  BY <1>1 DEF Ids, NodeAt, PathOf, Actor
<1>4. (\A path : MovesAt(path)' = MovesAt(path)) /\ \A n : PlaceOf(n)' = PlaceOf(n)
  BY <1>1, <1>3 DEF MovesAt, FreeCards, Board, PlaceOf
<1>5. CountsInv'
  <2> SUFFICES ASSUME NEW n \in Ids, n < next
               PROVE  NodeAt(n).count = IF Actor(n) = TerminalPlayer THEN 0 ELSE Len(MovesAt(PathOf(n)))
    BY <1>1, <1>2, <1>3, <1>4 DEF CountsInv
  <2>1. CASE n < next - 1
    BY <2>1 DEF PathsInv, CountsInv
  <2>2. CASE n = next - 1
    <3>1. NodeAt(n).count = 0
      BY <1>2, <2>2 DEF IInv, ChildrenInv
    <3> QED BY <1>1, <1>2, <2>2, <3>1
  <2>3. n \in Int
    BY DEF Ids
  <2> QED BY <1>2, <2>1, <2>2, <2>3
<1>6. StepsInv'
  <2> SUFFICES ASSUME NEW n \in Ids, NEW up, up = NodeAt(n).parent
               PROVE  IF n = 0 THEN PathOf(n) = <<>>
                      ELSE /\ Actor(up) # TerminalPlayer
                           /\ PlaceOf(n) \in 1 .. Len(MovesAt(PathOf(up)))
                           /\ PathOf(n) = Append(PathOf(up), MovesAt(PathOf(up))[PlaceOf(n)])
    BY <1>3, <1>4 DEF StepsInv
  <2> QED BY DEF PathsInv, StepsInv
<1>7. DistinctInv' /\ PrefixInv'
  BY <1>3 DEF PathsInv, DistinctInv, PrefixInv, IsAncestor
<1> QED BY <1>1, <1>3, <1>5, <1>6, <1>7 DEF PathsInv

LEMMA ExpandPaths ==
  ASSUME NEW Actions, GameRules(Actions), IInv, PathsInv(Actions \cup Cards),
         next <= Len(queue), Actor(Head1) # TerminalPlayer,
         AddChildren(MovesAt(HeadPath)), next' = next + 1, game' = game
  PROVE  PathsInv(Actions \cup Cards)'
<1>0. PICK h, first, count, moves :
        /\ h = Head1 /\ first = Len(nodes) /\ moves = MovesAt(HeadPath) /\ count = Len(moves)
  OBVIOUS
<1> DEFINE New == first .. first + count - 1
           Moves == Actions \cup Cards
<1>1. /\ first \in Nat \ {0} /\ h \in 0 .. first - 1 /\ Ids = 0 .. first - 1
      /\ h \in Ids /\ h = next - 1 /\ next \in Nat /\ HeadPath = PathOf(h) /\ game \in Games
  BY <1>0, HeadFacts DEF IInv, NodesInv, Ids, PathOf, HeadPath, PathsInv
<1>2. /\ \A n \in Ids : PathOf(n) \in Seq(Moves)
      /\ PathOf(h) \in Seq(Moves) /\ Len(PathOf(h)) \in Nat
  BY <1>1 DEF PathsInv
<1>3. /\ moves \in Seq(Moves) /\ count \in Nat
      /\ \A i \in 1 .. count : moves[i] \in Moves
      /\ \A i, j \in 1 .. count : moves[i] = moves[j] => i = j
  BY <1>0, <1>1, <1>2, MovesFacts
<1>4. /\ Len(nodes') = first + count
      /\ \A n \in Ids : n # h => NodeAt(n)' = NodeAt(n)
      /\ NodeAt(h)' = SetChildrenRange(h, first, count)
      /\ \A n \in New : NodeAt(n)' = NewNode(Append(PathOf(h), moves[n + 1 - first]), h,
                                             NodeAt(h).depth + 1)
  <2>1. AddChildren(moves) /\ Len(moves) \in Nat
    BY <1>0, <1>3
  <2>2. /\ Len(nodes') = Len(nodes) + Len(moves)
        /\ \A n \in Ids : n # h => NodeAt(n)' = NodeAt(n)
        /\ NodeAt(h)' = SetChildrenRange(h, Len(nodes), Len(moves))
        /\ \A n \in Len(nodes) .. Len(nodes) + Len(moves) - 1 :
             NodeAt(n)' = NewNode(Append(HeadPath, moves[n + 1 - Len(nodes)]), h,
                                  NodeAt(h).depth + 1)
    BY <1>0, <2>1, AddChildrenFacts
  <2> QED BY <1>0, <1>1, <2>2
<1>5. Ids' = 0 .. first + count - 1 /\ Ids' = Ids \cup New
  BY <1>1, <1>3, <1>4 DEF Ids
<1>6. /\ PathOf(h)' = PathOf(h) /\ NodeAt(h)'.parent = NodeAt(h).parent
      /\ NodeAt(h)'.count = count /\ (count # 0 => NodeAt(h)'.offset = first)
  <2>1. NodeAt(h) = [path   |-> NodeAt(h).path,   parent |-> NodeAt(h).parent,
                     depth  |-> NodeAt(h).depth,  offset |-> NodeAt(h).offset,
                     count  |-> NodeAt(h).count]
    BY <1>1 DEF IInv, NodesInv
  <2> DEFINE node == NodeAt(h)
             changed == NodeAt(h)'
             Offset == IF count = 0 THEN NoNode ELSE first
  <2>2. /\ node = [path |-> node.path, parent |-> node.parent, depth |-> node.depth,
                   offset |-> node.offset, count |-> node.count]
        /\ changed = [node EXCEPT !.offset = Offset, !.count = count]
    BY <1>4, <2>1 DEF SetChildrenRange
  <2> HIDE DEF node, changed, Offset
  <2>3. /\ changed.path = node.path /\ changed.parent = node.parent
        /\ changed.count = count /\ changed.offset = Offset
    BY ONLY <2>2
  <2>4. PathOf(h)' = changed.path /\ PathOf(h) = node.path
    BY DEF PathOf, NodeAt, node, changed
  <2> QED BY <2>3, <2>4 DEF changed, node, Offset
<1>7. ASSUME NEW n \in Ids
      PROVE  /\ PathOf(n)' = PathOf(n) /\ NodeAt(n)'.parent = NodeAt(n).parent
             /\ n # h => NodeAt(n)'.offset = NodeAt(n).offset /\ NodeAt(n)'.count = NodeAt(n).count
  <2>1. CASE n = h
    BY <1>6, <2>1
  <2>2. CASE n # h
    <3>1. NodeAt(n)' = NodeAt(n)
      BY <1>4, <2>2
    <3>2. PathOf(n)' = NodeAt(n)'.path /\ PathOf(n) = NodeAt(n).path
      BY DEF PathOf, NodeAt
    <3> QED BY <3>1, <3>2
  <2> QED BY <2>1, <2>2
<1>8. ASSUME NEW n \in New
      PROVE  /\ n + 1 - first \in 1 .. count
             /\ PathOf(n)' = Append(PathOf(h), moves[n + 1 - first]) /\ NodeAt(n)'.parent = h
  <2>1. n + 1 - first \in 1 .. count
    BY <1>1, <1>3
  <2>2. PathOf(n)' = NodeAt(n)'.path
    BY DEF PathOf, NodeAt
  <2> QED BY <1>4, <2>1, <2>2 DEF NewNode
<1>9. ASSUME NEW n \in Ids, n # 0
      PROVE  NodeAt(n).parent \in Ids /\ NodeAt(n).parent < h
  BY <1>1, <1>9 DEF IInv, ParentsInv
<1>10. /\ \A path : MovesAt(path)' = MovesAt(path)
       /\ \A n \in Ids : Actor(n)' = Actor(n)
  <2>1. \A path : MovesAt(path)' = MovesAt(path)
    BY DEF MovesAt, FreeCards, Board
  <2>2. \A n : (Actor(n) = ActorAt(game, PathOf(n))) /\ (Actor(n)' = ActorAt(game', PathOf(n)'))
    BY DEF Actor, PathOf, NodeAt
  <2> QED BY <1>7, <2>1, <2>2
<1>11. \A n \in New : /\ PathOf(n)' \in Seq(Moves)
                      /\ Len(PathOf(n)') = Len(PathOf(h)) + 1 /\ PathOf(n)' # <<>>
                      /\ \A j \in 1 .. Len(PathOf(h)) : PathOf(n)'[j] = PathOf(h)[j]
  <2> TAKE n \in New
  <2>1. moves[n + 1 - first] \in Moves /\ PathOf(n)' = Append(PathOf(h), moves[n + 1 - first])
    BY <1>3, <1>8
  <2> HIDE DEF Moves
  <2> QED BY <1>2, <2>1, AppendProperties
<1>12. \A n \in Ids' : PathOf(n)' \in Seq(Moves)
  BY <1>2, <1>5, <1>7, <1>11
<1>13. StepsInv'
  <2> SUFFICES ASSUME NEW n \in Ids', NEW up, up = NodeAt(n)'.parent
               PROVE  IF n = 0 THEN PathOf(n)' = <<>>
                      ELSE /\ Actor(up)' # TerminalPlayer
                           /\ PlaceOf(n)' \in 1 .. Len(MovesAt(PathOf(up)'))
                           /\ PathOf(n)' = Append(PathOf(up)', MovesAt(PathOf(up)')[PlaceOf(n)'])
    BY <1>10 DEF StepsInv, NodeAt
  <2>1. CASE n \in Ids /\ n = 0
    BY <1>7, <2>1 DEF PathsInv, StepsInv
  <2>2. CASE n \in Ids /\ n # 0
    <3>1. up = NodeAt(n).parent /\ up \in Ids /\ up # h
      BY <1>1, <1>7, <1>9, <2>2
    <3>2. PlaceOf(n)' = PlaceOf(n)
      BY <1>7, <2>2, <3>1 DEF PlaceOf, NodeAt
    <3>3. PathOf(n)' = PathOf(n) /\ PathOf(up)' = PathOf(up) /\ Actor(up)' = Actor(up)
      BY <1>7, <1>10, <2>2, <3>1
    <3>4. /\ Actor(up) # TerminalPlayer
          /\ PlaceOf(n) \in 1 .. Len(MovesAt(PathOf(up)))
          /\ PathOf(n) = Append(PathOf(up), MovesAt(PathOf(up))[PlaceOf(n)])
      BY <2>2, <3>1 DEF PathsInv, StepsInv
    <3> QED BY <2>2, <3>2, <3>3, <3>4
  <2>3. CASE n \in New
    <3>1. up = h /\ PathOf(up)' = PathOf(h) /\ Actor(up)' = Actor(h) /\ n # 0
      BY <1>1, <1>6, <1>8, <1>10, <2>3
    <3>2. count # 0
      BY <1>1, <1>3, <2>3
    <3>3. PlaceOf(n)' = n - first + 1
      BY <1>6, <1>8, <2>3, <3>2 DEF PlaceOf, NodeAt
    <3>4. n - first + 1 = n + 1 - first
      BY <1>1, <1>3, <2>3
    <3>5. MovesAt(PathOf(h)) = moves
      BY <1>0, <1>1
    <3> QED BY <1>0, <1>8, <2>3, <3>1, <3>3, <3>4, <3>5
  <2> QED BY <1>5, <2>1, <2>2, <2>3
<1>14. CountsInv'
  <2> SUFFICES ASSUME NEW n \in Ids', n < h + 1
               PROVE  NodeAt(n)'.count = IF Actor(n)' = TerminalPlayer THEN 0
                                         ELSE Len(MovesAt(PathOf(n)'))
    BY <1>1, <1>10 DEF CountsInv
  <2>1. n \in Ids
    BY <1>1, <1>3, <1>5
  <2>2. CASE n = h
    BY <1>0, <1>1, <1>6, <1>10, <2>1, <2>2
  <2>3. CASE n # h
    <3>1. n < next - 1
      BY <1>1, <2>1, <2>3
    <3>2. NodeAt(n)'.count = NodeAt(n).count
      BY <1>7, <2>1, <2>3
    <3> QED BY <1>7, <1>10, <2>1, <3>1, <3>2 DEF PathsInv, CountsInv
  <2> QED BY <2>2, <2>3
<1>15. ASSUME NEW m \in Ids, NEW n \in New PROVE PathOf(m) # PathOf(n)'
  <2>1. CASE m = 0
    <3>1. PathOf(m) = <<>>
      BY <2>1 DEF PathsInv, StepsInv
    <3> QED BY <1>11, <3>1
  <2>2. CASE m # 0
    <3> DEFINE up == NodeAt(m).parent
               mine == MovesAt(PathOf(up))[PlaceOf(m)]
    <3>1. up \in Ids /\ up # h
      BY <1>1, <1>9, <2>2
    <3>2. PathOf(m) = Append(PathOf(up), mine) /\ PlaceOf(m) \in 1 .. Len(MovesAt(PathOf(up)))
      BY <2>2 DEF PathsInv, StepsInv
    <3>3. PathOf(up) \in Seq(Moves) /\ mine \in Moves
      BY <1>1, <1>2, <3>1, <3>2, MovesFacts
    <3>4. PathOf(up) # PathOf(h)
      BY <1>1, <3>1 DEF PathsInv, DistinctInv
    <3>5. moves[n + 1 - first] \in Moves /\ PathOf(n)' = Append(PathOf(h), moves[n + 1 - first])
      BY <1>3, <1>8
    <3> HIDE DEF mine, up, Moves
    <3> QED BY <1>2, <3>2, <3>3, <3>4, <3>5, AppendInjective
  <2> QED BY <2>1, <2>2
<1>16. ASSUME NEW m \in New, NEW n \in New, PathOf(m)' = PathOf(n)' PROVE m = n
  <2>1. /\ m + 1 - first \in 1 .. count /\ n + 1 - first \in 1 .. count
        /\ PathOf(m)' = Append(PathOf(h), moves[m + 1 - first])
        /\ PathOf(n)' = Append(PathOf(h), moves[n + 1 - first])
    BY <1>8
  <2>2. moves[m + 1 - first] \in Moves /\ moves[n + 1 - first] \in Moves
    BY <1>3, <2>1
  <2>3. moves[m + 1 - first] = moves[n + 1 - first]
    <3> DEFINE a == moves[m + 1 - first]
               b == moves[n + 1 - first]
    <3>1. a \in Moves /\ b \in Moves /\ Append(PathOf(h), a) = Append(PathOf(h), b)
      BY <1>16, <2>1, <2>2
    <3> HIDE DEF Moves, a, b
    <3>2. a = b
      BY <1>2, <3>1, AppendInjective
    <3> QED BY <3>2 DEF a, b
  <2>4. m + 1 - first = n + 1 - first
    BY <1>3, <2>1, <2>3
  <2> QED BY <1>1, <1>3, <2>4
<1>17. DistinctInv'
  <2> SUFFICES ASSUME NEW m \in Ids', NEW n \in Ids', PathOf(m)' = PathOf(n)' PROVE m = n
    BY DEF DistinctInv
  <2>1. CASE m \in Ids /\ n \in Ids
    BY <1>7, <2>1 DEF PathsInv, DistinctInv
  <2>2. CASE m \in Ids /\ n \in New
    BY <1>7, <1>15, <2>2
  <2>3. CASE m \in New /\ n \in Ids
    BY <1>7, <1>15, <2>3
  <2>4. CASE m \in New /\ n \in New
    BY <1>16, <2>4
  <2> QED BY <1>5, <2>1, <2>2, <2>3, <2>4
<1>18. PrefixInv'
  <2> SUFFICES ASSUME NEW n \in Ids', NEW i \in 0 .. Len(PathOf(n)')
               PROVE  \E m \in Ids' : /\ Len(PathOf(m)') = i
                                      /\ \A j \in 1 .. i : PathOf(m)'[j] = PathOf(n)'[j]
    BY DEF PrefixInv, IsAncestor
  <2>1. CASE n \in Ids
    <3>1. PICK m \in Ids : IsAncestor(m, n, i)
      BY <1>7, <2>1 DEF PathsInv, PrefixInv
    <3> QED BY <1>5, <1>7, <2>1, <3>1 DEF IsAncestor
  <2>2. CASE n \in New /\ i <= Len(PathOf(h))
    <3>1. i \in 0 .. Len(PathOf(h))
      BY <1>2, <1>11, <2>2
    <3>2. PICK m \in Ids : IsAncestor(m, h, i)
      BY <1>1, <3>1 DEF PathsInv, PrefixInv
    <3>3. \A j \in 1 .. i : PathOf(m)[j] = PathOf(n)'[j]
      <4>1. \A j \in 1 .. i : j \in 1 .. Len(PathOf(h))
        BY <1>2, <3>1
      <4> QED BY <1>11, <2>2, <3>2, <4>1 DEF IsAncestor
    <3> QED BY <1>5, <1>7, <3>2, <3>3 DEF IsAncestor
  <2>3. CASE n \in New /\ ~(i <= Len(PathOf(h)))
    <3>1. Len(PathOf(n)') = i
      BY <1>2, <1>11, <2>3
    <3> QED BY <1>5, <2>3, <3>1
  <2> QED BY <1>5, <2>1, <2>2, <2>3
<1> QED BY <1>1, <1>12, <1>13, <1>14, <1>17, <1>18 DEF PathsInv

LEMMA NextPaths ==
  ASSUME NEW Actions, GameRules(Actions), IInv, PathsInv(Actions \cup Cards), [Next]_vars
  PROVE  PathsInv(Actions \cup Cards)'
<1>1. CASE SkipTerminalNode
  BY <1>1, SkipPaths
<1>2. CASE ExpandPlayerNode
  <2>1. ActorAt(game, HeadPath) \in Player /\ next <= Len(queue)
    BY <1>2 DEF ExpandPlayerNode, Expanding
  <2>2. MovesAt(HeadPath) = ActionsAt(game, HeadPath) /\ Actor(Head1) # TerminalPlayer
    BY <2>1 DEF MovesAt, Actor, HeadPath, Player, ChancePlayer, TerminalPlayer
  <2> QED BY <1>2, <2>1, <2>2, ExpandPaths DEF ExpandPlayerNode
<1>3. CASE ExpandChanceNode
  <2>1. ActorAt(game, HeadPath) = ChancePlayer /\ next <= Len(queue)
    BY <1>3 DEF ExpandChanceNode, Expanding
  <2>2. MovesAt(HeadPath) = FreeCards(HeadPath) /\ Actor(Head1) # TerminalPlayer
    BY <2>1 DEF MovesAt, Actor, HeadPath, ChancePlayer, TerminalPlayer
  <2> QED BY <1>3, <2>1, <2>2, ExpandPaths DEF ExpandChanceNode
<1>4. CASE UNCHANGED vars
  <2>1. UNCHANGED <<game, nodes, queue, next>>
    BY <1>4 DEF vars
  <2>2. Ids' = Ids /\ (\A n : NodeAt(n)' = NodeAt(n) /\ PathOf(n)' = PathOf(n) /\ Actor(n)' = Actor(n))
    BY <2>1 DEF Ids, NodeAt, PathOf, Actor
  <2>3. (\A path : MovesAt(path)' = MovesAt(path)) /\ \A n : PlaceOf(n)' = PlaceOf(n)
    BY <2>1, <2>2 DEF MovesAt, FreeCards, Board, PlaceOf
  <2>4. StepsInv'
    <3> SUFFICES ASSUME NEW n \in Ids, NEW up, up = NodeAt(n).parent
                 PROVE  IF n = 0 THEN PathOf(n) = <<>>
                        ELSE /\ Actor(up) # TerminalPlayer
                             /\ PlaceOf(n) \in 1 .. Len(MovesAt(PathOf(up)))
                             /\ PathOf(n) = Append(PathOf(up), MovesAt(PathOf(up))[PlaceOf(n)])
      BY <2>2, <2>3 DEF StepsInv
    <3> QED BY DEF PathsInv, StepsInv
  <2> QED BY <2>1, <2>2, <2>3, <2>4 DEF PathsInv, CountsInv, DistinctInv, PrefixInv, IsAncestor
<1> QED BY <1>1, <1>2, <1>3, <1>4 DEF Next

\* In a built tree, the i-th child of a node is where its i-th move leads.
LEMMA BuiltChild ==
  ASSUME NEW Actions, GameRules(Actions), IInv, PathsInv(Actions \cup Cards), Built,
         NEW n \in Ids
  PROVE  /\ PathOf(n) \in Seq(Actions \cup Cards)
         /\ Children(Tree, n) = {m \in Ids : NodeAt(m).parent = n}
         /\ Actor(n) = TerminalPlayer => Children(Tree, n) = {}
         /\ Actor(n) # TerminalPlayer =>
              \A i \in 1 .. Len(MovesAt(PathOf(n))) :
                /\ NodeAt(n).offset + i - 1 \in Children(Tree, n)
                /\ PathOf(NodeAt(n).offset + i - 1) = Append(PathOf(n), MovesAt(PathOf(n))[i])
         /\ \A m \in Children(Tree, n) :
              /\ Actor(n) # TerminalPlayer
              /\ m \in Ids /\ PlaceOf(m) \in 1 .. Len(MovesAt(PathOf(n)))
              /\ m = NodeAt(n).offset + PlaceOf(m) - 1
              /\ PathOf(m) = Append(PathOf(n), MovesAt(PathOf(n))[PlaceOf(m)])
<1>1. /\ Len(queue) = Len(nodes) /\ Len(nodes) \in Nat /\ next \in Nat /\ next > Len(queue)
  BY DEF IInv, NodesInv, QueueInv, Built
<1>2. n < next - 1 /\ n \in Int /\ NodeAt(n).offset \in Int /\ NodeAt(n).count \in Nat
  BY <1>1 DEF Ids, IInv, NodesInv
<1>3. NodeAt(n).count = IF Actor(n) = TerminalPlayer THEN 0 ELSE Len(MovesAt(PathOf(n)))
  BY <1>2 DEF PathsInv, CountsInv
<1>4. PathOf(n) \in Seq(Actions \cup Cards) /\ game \in Games
  BY DEF PathsInv
<1>5. Len(MovesAt(PathOf(n))) \in Nat
  BY <1>4, MovesFacts
<1>6. Children(Tree, n) = NodeAt(n).offset .. NodeAt(n).offset + NodeAt(n).count - 1
  BY DEF Tree, Children
<1>7. \A m \in Int : m \in Children(Tree, n) <=> (m \in Ids /\ NodeAt(m).parent = n)
  BY <1>2, <1>6 DEF IInv, ChildrenInv
<1>8. Children(Tree, n) = {m \in Ids : NodeAt(m).parent = n}
  <2>1. Children(Tree, n) \subseteq Int /\ Ids \subseteq Int
    BY <1>2, <1>6 DEF Ids
  <2> QED BY ONLY <1>7, <2>1
<1>9. ASSUME NEW m \in Children(Tree, n)
      PROVE  /\ Actor(n) # TerminalPlayer
             /\ m \in Ids /\ PlaceOf(m) \in 1 .. Len(MovesAt(PathOf(n)))
             /\ m = NodeAt(n).offset + PlaceOf(m) - 1
             /\ PathOf(m) = Append(PathOf(n), MovesAt(PathOf(n))[PlaceOf(m)])
  <2>1. m \in Ids /\ NodeAt(m).parent = n /\ m \in Int
    BY <1>8 DEF Ids
  <2>2. m # 0
    <3>1. n # NoNode
      BY DEF Ids, NoNode
    <3> QED BY <2>1, <3>1 DEF IInv, ParentsInv
  <2>3. m = NodeAt(n).offset + PlaceOf(m) - 1
    BY <1>2, <2>1 DEF PlaceOf
  <2> QED BY <2>1, <2>2, <2>3 DEF PathsInv, StepsInv
<1>10. ASSUME Actor(n) # TerminalPlayer, NEW i \in 1 .. Len(MovesAt(PathOf(n)))
       PROVE  /\ NodeAt(n).offset + i - 1 \in Children(Tree, n)
              /\ PathOf(NodeAt(n).offset + i - 1) = Append(PathOf(n), MovesAt(PathOf(n))[i])
  <2> DEFINE m == NodeAt(n).offset + i - 1
  <2>1. m \in Children(Tree, n) /\ m \in Int
    BY <1>2, <1>3, <1>5, <1>6, <1>10
  <2>2. PlaceOf(m) = i
    <3>1. m = NodeAt(n).offset + PlaceOf(m) - 1 /\ PlaceOf(m) \in 1 .. Len(MovesAt(PathOf(n)))
      BY <1>9, <2>1
    <3> QED BY <1>2, <1>5, <3>1
  <2> HIDE DEF m
  <2>3. PathOf(m) = Append(PathOf(n), MovesAt(PathOf(n))[i])
    BY <1>9, <2>1, <2>2
  <2> QED BY <2>1, <2>3 DEF m
<1>11. Actor(n) = TerminalPlayer => Children(Tree, n) = {}
  BY <1>9
<1> QED BY <1>4, <1>8, <1>9, <1>10, <1>11

\* A lookup among distinct choices.
LEMMA FoundChild ==
  ASSUME NEW n, NEW choices, NEW choice,
         \A i, j \in 1 .. Len(choices) : choices[i] = choices[j] => i = j
  PROVE  /\ \A i \in 1 .. Len(choices) :
              choices[i] = choice => ChildAt(n, choices, choice) = NodeAt(n).offset + i - 1
         /\ (\A i \in 1 .. Len(choices) : choices[i] # choice) => ChildAt(n, choices, choice) = NoNode
<1>1. ASSUME NEW i \in 1 .. Len(choices), choices[i] = choice
      PROVE  ChildAt(n, choices, choice) = NodeAt(n).offset + i - 1
  <2>1. (CHOOSE j \in 1 .. Len(choices) : choices[j] = choice) = i
    BY <1>1
  <2> QED BY <1>1, <2>1 DEF ChildAt
<1> QED BY <1>1 DEF ChildAt

\* The moves of a node as the property names them.
MovesFrom(n) ==
  CASE Actor(n) = TerminalPlayer -> {}
    [] Actor(n) = ChancePlayer -> Cards \ Board(PathOf(n))
    [] OTHER -> ToSet(ActionsAt(game, PathOf(n)))
FindMove(n, move) == IF move \in Cards THEN FindChanceChild(n, move) ELSE FindChild(n, move)

LEMMA MovesFromFacts ==
  ASSUME NEW Actions, GameRules(Actions), game \in Games, NEW n, PathOf(n) \in Seq(Actions \cup Cards)
  PROVE  /\ Actor(n) \in Player \cup {ChancePlayer, TerminalPlayer}
         /\ Actor(n) # TerminalPlayer =>
              MovesFrom(n) = {MovesAt(PathOf(n))[i] : i \in 1 .. Len(MovesAt(PathOf(n)))}
         /\ Actor(n) = TerminalPlayer => MovesFrom(n) = {}
<1>1. Actor(n) = ActorAt(game, PathOf(n))
  BY DEF Actor, PathOf
<1>2. Actor(n) \in Player \cup {ChancePlayer, TerminalPlayer}
  BY <1>1 DEF GameRules
<1>3. CASE Actor(n) = TerminalPlayer
  BY <1>2, <1>3 DEF MovesFrom, ChancePlayer, TerminalPlayer
<1>4. CASE Actor(n) = ChancePlayer
  <2>1. MovesAt(PathOf(n)) = FreeCards(PathOf(n)) /\ MovesFrom(n) = Cards \ Board(PathOf(n))
    BY <1>1, <1>4 DEF MovesAt, MovesFrom, ChancePlayer, TerminalPlayer
  <2> QED BY <1>2, <1>4, <2>1, FreeCardsFacts DEF ChancePlayer, TerminalPlayer
<1>5. CASE Actor(n) \in Player
  <2> DEFINE acts == ActionsAt(game, PathOf(n))
  <2>1. MovesAt(PathOf(n)) = acts /\ MovesFrom(n) = ToSet(acts)
    BY <1>1, <1>5 DEF MovesAt, MovesFrom, Player, ChancePlayer, TerminalPlayer
  <2>2. acts \in Seq(Actions)
    BY DEF GameRules
  <2> HIDE DEF acts
  <2>3. DOMAIN acts = 1 .. Len(acts)
    BY <2>2
  <2> QED BY <1>2, <1>5, <2>1, <2>3 DEF ToSet, Player, TerminalPlayer
<1> QED BY <1>2, <1>3, <1>4, <1>5

\* What the lookups find for a move, and for anything else a move may be.
LEMMA FoundMove ==
  ASSUME NEW Actions, GameRules(Actions), IInv, PathsInv(Actions \cup Cards), Built,
         NEW n \in Ids, NEW move
  PROVE  /\ \A i \in 1 .. Len(MovesAt(PathOf(n))) :
              Actor(n) # TerminalPlayer /\ MovesAt(PathOf(n))[i] = move =>
                FindMove(n, move) = NodeAt(n).offset + i - 1
         /\ move \notin MovesFrom(n) => FindMove(n, move) = NoNode
<1> DEFINE moves == MovesAt(PathOf(n))
<1>1. /\ PathOf(n) \in Seq(Actions \cup Cards) /\ game \in Games
      /\ Actor(n) = ActorAt(game, PathOf(n)) /\ PathOf(n) = NodeAt(n).path
  BY DEF PathsInv, Actor, PathOf
<1>2. /\ \A i, j \in 1 .. Len(moves) : moves[i] = moves[j] => i = j
      /\ \A i \in 1 .. Len(moves) : moves[i] \in Cards <=> Actor(n) = ChancePlayer
  BY <1>1, MovesFacts
<1>3. /\ Actor(n) \in Player \cup {ChancePlayer, TerminalPlayer}
      /\ Actor(n) # TerminalPlayer => MovesFrom(n) = {moves[i] : i \in 1 .. Len(moves)}
      /\ Actor(n) = TerminalPlayer => MovesFrom(n) = {}
  BY <1>1, MovesFromFacts
<1>4. CASE Actor(n) = TerminalPlayer
  BY <1>3, <1>4 DEF FindMove, FindChild, FindChanceChild, Player, ChancePlayer, TerminalPlayer
<1>5. CASE Actor(n) = ChancePlayer
  <2>1. moves = FreeCards(PathOf(n))
    BY <1>1, <1>5 DEF MovesAt
  <2>2. FindMove(n, move) = IF move \in Cards THEN ChildAt(n, moves, move) ELSE NoNode
    BY <1>1, <1>5, <2>1 DEF FindMove, FindChild, FindChanceChild, Player, ChancePlayer
  <2> HIDE DEF moves
  <2>3. ASSUME NEW i \in 1 .. Len(moves), moves[i] = move
        PROVE  FindMove(n, move) = NodeAt(n).offset + i - 1
    BY <1>2, <1>5, <2>2, <2>3, FoundChild
  <2>4. ASSUME move \notin MovesFrom(n) PROVE FindMove(n, move) = NoNode
    <3>1. \A i \in 1 .. Len(moves) : moves[i] # move
      BY <1>3, <1>5, <2>4 DEF ChancePlayer, TerminalPlayer
    <3> QED BY <1>2, <2>2, <3>1, FoundChild
  <2> QED BY <2>3, <2>4 DEF moves
<1>6. CASE Actor(n) \in Player
  <2>1. moves = ActionsAt(game, PathOf(n)) /\ Actor(n) # ChancePlayer /\ Actor(n) # TerminalPlayer
    BY <1>1, <1>6 DEF MovesAt, Player, ChancePlayer, TerminalPlayer
  <2>2. FindMove(n, move) = IF move \in Cards THEN NoNode ELSE ChildAt(n, moves, move)
    BY <1>1, <1>6, <2>1 DEF FindMove, FindChild, FindChanceChild
  <2> HIDE DEF moves
  <2>3. ASSUME NEW i \in 1 .. Len(moves), moves[i] = move
        PROVE  FindMove(n, move) = NodeAt(n).offset + i - 1
    BY <1>2, <2>1, <2>2, <2>3, FoundChild
  <2>4. ASSUME move \notin MovesFrom(n) PROVE FindMove(n, move) = NoNode
    <3>1. \A i \in 1 .. Len(moves) : moves[i] # move
      BY <1>3, <2>1, <2>4
    <3> QED BY <1>2, <2>2, <3>1, FoundChild
  <2> QED BY <2>3, <2>4 DEF moves
<1> QED BY <1>3, <1>4, <1>5, <1>6

LEMMA PathsPosition ==
  ASSUME NEW Actions, GameRules(Actions), IInv, PathsInv(Actions \cup Cards)
  PROVE  EveryPositionOnce
<1> SUFFICES ASSUME Built PROVE EveryPositionOnce
  BY DEF EveryPositionOnce
<1>1. \A m, n \in Ids : NodeAt(m).path = NodeAt(n).path => m = n
  BY DEF PathsInv, DistinctInv, PathOf
<1>2. ASSUME NEW n \in Ids
      PROVE  /\ {NodeAt(m).path : m \in Children(Tree, n)}
                  = {Append(PathOf(n), move) : move \in MovesFrom(n)}
             /\ \A move \in MovesFrom(n) : NodeAt(FindMove(n, move)).path = Append(PathOf(n), move)
             /\ \A move : move \notin MovesFrom(n) => FindMove(n, move) = NoNode
  <2> DEFINE moves == MovesAt(PathOf(n))
  <2>1. /\ PathOf(n) \in Seq(Actions \cup Cards) /\ game \in Games
        /\ Actor(n) = TerminalPlayer => Children(Tree, n) = {}
        /\ Actor(n) # TerminalPlayer =>
             \A i \in 1 .. Len(moves) :
               /\ NodeAt(n).offset + i - 1 \in Children(Tree, n)
               /\ PathOf(NodeAt(n).offset + i - 1) = Append(PathOf(n), moves[i])
        /\ \A m \in Children(Tree, n) :
             /\ Actor(n) # TerminalPlayer /\ PlaceOf(m) \in 1 .. Len(moves)
             /\ PathOf(m) = Append(PathOf(n), moves[PlaceOf(m)])
    BY BuiltChild DEF PathsInv
  <2>2. /\ Actor(n) # TerminalPlayer => MovesFrom(n) = {moves[i] : i \in 1 .. Len(moves)}
        /\ Actor(n) = TerminalPlayer => MovesFrom(n) = {}
    BY <2>1, MovesFromFacts
  <2>3. \A move : /\ \A i \in 1 .. Len(moves) :
                       Actor(n) # TerminalPlayer /\ moves[i] = move =>
                         FindMove(n, move) = NodeAt(n).offset + i - 1
                  /\ move \notin MovesFrom(n) => FindMove(n, move) = NoNode
    BY FoundMove
  <2>4. \A m : NodeAt(m).path = PathOf(m)
    BY DEF PathOf
  <2> HIDE DEF moves
  <2>5. ASSUME NEW m \in Children(Tree, n)
        PROVE  \E move \in MovesFrom(n) : PathOf(m) = Append(PathOf(n), move)
    BY <2>1, <2>2
  <2>6. ASSUME NEW move \in MovesFrom(n)
        PROVE  /\ PathOf(FindMove(n, move)) = Append(PathOf(n), move)
               /\ FindMove(n, move) \in Children(Tree, n)
    <3>1. Actor(n) # TerminalPlayer
      BY <2>2, <2>6
    <3>2. PICK i \in 1 .. Len(moves) : moves[i] = move
      BY <2>2, <3>1
    <3> QED BY <2>1, <2>3, <3>1, <3>2
  <2>7. {NodeAt(m).path : m \in Children(Tree, n)} = {Append(PathOf(n), move) : move \in MovesFrom(n)}
    BY <2>4, <2>5, <2>6
  <2> QED BY <2>3, <2>4, <2>6, <2>7
<1>3. ASSUME NEW n \in Ids
      PROVE  LET path == NodeAt(n).path
                 Find(move) == IF move \in Cards THEN FindChanceChild(n, move) ELSE FindChild(n, move)
                 moves == CASE Actor(n) = TerminalPlayer -> {}
                            [] Actor(n) = ChancePlayer -> Cards \ Board(path)
                            [] OTHER -> ToSet(ActionsAt(game, path))
             IN  /\ {NodeAt(m).path : m \in Children(Tree, n)} = {Append(path, move) : move \in moves}
                 /\ \A move \in moves : NodeAt(Find(move)).path = Append(path, move)
                 /\ \A move \in (Cards \cup ToSet(ActionsAt(game, path))) \ moves : Find(move) = NoNode
  BY <1>2 DEF MovesFrom, FindMove, PathOf
<1> QED BY <1>1, <1>3 DEF EveryPositionOnce

(***************************************************************************)
(* Searching by history                                                    *)
(***************************************************************************)

\* Induction over the natural numbers, with a set for the predicate.
LEMMA NatInduct ==
  ASSUME NEW S, 0 \in S, \A n \in Nat : n \in S => n + 1 \in S
  PROVE  Nat \subseteq S
<1> SUFFICES ASSUME NEW k \in Nat, k \notin S PROVE FALSE
  OBVIOUS
<1> DEFINE T == {0 .. n : n \in Nat \ S}
           R == StrictSubsetOrdering(Nat)
           F == FiniteSubsetsOf(Nat)
<1>1. IsWellFoundedOn(R, F)
  BY FS_StrictSubsetOrderingWellFounded
<1>2. T \subseteq F /\ T # {}
  <2>1. \A n \in Nat : IsFiniteSet(0 .. n)
    BY FS_Interval
  <2> QED BY <2>1 DEF FiniteSubsetsOf
<1>3. \E x \in T : \A y \in T : ~ (<<y, x>> \in R)
  <2> HIDE DEF T, R, F
  <2> QED BY <1>1, <1>2, WFMin
<1>4. PICK m \in Nat \ S : \A y \in T : ~ (<<y, 0 .. m>> \in R)
  BY <1>3
<1>5. m # 0 /\ m - 1 \in Nat \ S
  <2>1. m # 0
    OBVIOUS
  <2>2. m - 1 \in Nat /\ (m - 1) + 1 = m
    BY <2>1
  <2> QED BY <2>1, <2>2
<1>6. 0 .. m - 1 \in T
  BY <1>5
<1>7. <<0 .. m - 1, 0 .. m>> \in R
  <2>1. 0 .. m - 1 \subseteq 0 .. m /\ m \in 0 .. m /\ m \notin 0 .. m - 1
    BY <1>5
  <2>2. 0 .. m - 1 \in SUBSET Nat /\ 0 .. m \in SUBSET Nat
    OBVIOUS
  <2> QED BY <2>1, <2>2 DEF StrictSubsetOrdering
<1> QED BY <1>4, <1>6, <1>7

\* One node per stretch of the way to a node.
LEMMA OneAncestor ==
  ASSUME NEW Actions, PathsInv(Actions \cup Cards), NEW n \in Ids, NEW i \in Nat,
         NEW m \in Ids, IsAncestor(m, n, i)
  PROVE  \A k \in Ids : IsAncestor(k, n, i) => k = m
<1> SUFFICES ASSUME NEW k \in Ids, IsAncestor(k, n, i) PROVE PathOf(k) = PathOf(m)
  BY DEF PathsInv, DistinctInv
<1>1. PathOf(k) \in Seq(Actions \cup Cards) /\ PathOf(m) \in Seq(Actions \cup Cards)
  BY DEF PathsInv
<1>2. Len(PathOf(k)) = i /\ Len(PathOf(m)) = i /\ \A j \in 1 .. i : PathOf(k)[j] = PathOf(m)[j]
  BY DEF IsAncestor
<1> HIDE DEF PathOf
<1> QED BY ONLY <1>1, <1>2, SeqEqual

\* The lookup of the next move on the way to a node.
LEMMA NextAncestor ==
  ASSUME NEW Actions, GameRules(Actions), IInv, PathsInv(Actions \cup Cards), Built,
         NEW n \in Ids, NEW i \in 0 .. Len(PathOf(n)) - 1, NEW m \in Ids, IsAncestor(m, n, i),
         NEW k \in Ids, IsAncestor(k, n, i + 1)
  PROVE  /\ PathOf(n)[i + 1] \notin Cards => FindChild(m, PathOf(n)[i + 1]) = k
         /\ PathOf(n)[i + 1] \in Cards => \A move : FindChild(m, move) = NoNode
<1>1. /\ \A l \in Ids : PathOf(l) \in Seq(Actions \cup Cards)
      /\ game \in Games /\ 0 \in Ids /\ Ids \subseteq Int
  <2>1. Len(nodes) \in Nat \ {0}
    BY DEF IInv, NodesInv
  <2>2. 0 \in Ids /\ Ids \subseteq Int
    BY <2>1 DEF Ids
  <2> QED BY <2>2 DEF PathsInv
<1>2. i \in Nat /\ i + 1 \in 1 .. Len(PathOf(n)) /\ Len(PathOf(n)) \in Nat
  BY <1>1
<1>3. k # 0
  <2>1. PathOf(0) = <<>>
    BY <1>1 DEF PathsInv, StepsInv
  <2> QED BY <1>2, <2>1 DEF IsAncestor
<1> DEFINE up == NodeAt(k).parent
<1>4. up \in Ids
  BY <1>1, <1>3 DEF IInv, ParentsInv, Ids
<1>5. /\ Actor(up) # TerminalPlayer
      /\ PlaceOf(k) \in 1 .. Len(MovesAt(PathOf(up)))
      /\ PathOf(k) = Append(PathOf(up), MovesAt(PathOf(up))[PlaceOf(k)])
  BY <1>3 DEF PathsInv, StepsInv
<1>6. IsAncestor(up, n, i) /\ MovesAt(PathOf(up))[PlaceOf(k)] = PathOf(n)[i + 1]
  <2> DEFINE p == PathOf(up)
             x == MovesAt(PathOf(up))[PlaceOf(k)]
  <2>1. p \in Seq(Actions \cup Cards) /\ PathOf(k) = Append(p, x)
    BY <1>1, <1>4, <1>5
  <2>2. Len(PathOf(k)) = i + 1 /\ \A j \in 1 .. i + 1 : PathOf(k)[j] = PathOf(n)[j]
    BY DEF IsAncestor
  <2> HIDE DEF p, x
  <2>3. Len(p) \in Nat /\ Len(Append(p, x)) = Len(p) + 1 /\ Append(p, x)[Len(p) + 1] = x
        /\ \A j \in 1 .. Len(p) : Append(p, x)[j] = p[j]
    BY <2>1
  <2>4. Len(p) = i
    BY <1>2, <2>1, <2>2, <2>3
  <2>5. \A j \in 1 .. i : j \in 1 .. i + 1
    BY <1>2
  <2>6. x = PathOf(n)[i + 1] /\ \A j \in 1 .. i : p[j] = PathOf(n)[j]
    <3>1. i + 1 \in 1 .. i + 1
      BY <1>2
    <3> QED BY <2>1, <2>2, <2>3, <2>4, <2>5, <3>1
  <2> QED BY <2>4, <2>6 DEF IsAncestor, p, x
<1>7. up = m
  BY <1>2, <1>4, <1>6, OneAncestor
<1>8. k = NodeAt(m).offset + PlaceOf(k) - 1
  <2>1. k \in Int /\ NodeAt(m).offset \in Int
    BY <1>1 DEF IInv, NodesInv
  <2> QED BY <1>7, <2>1 DEF PlaceOf
<1>9. FindMove(m, PathOf(n)[i + 1]) = k
  <2> HIDE DEF up
  <2> QED BY <1>5, <1>6, <1>7, <1>8, FoundMove
<1>10. PathOf(n)[i + 1] \in Cards => Actor(m) = ChancePlayer
  <2>1. PathOf(m) \in Seq(Actions \cup Cards) /\ ActorAt(game, PathOf(m)) = Actor(m)
    BY <1>1 DEF Actor, PathOf
  <2> HIDE DEF up
  <2> QED BY <1>1, <1>5, <1>6, <1>7, <2>1, MovesFacts
<1> QED BY <1>9, <1>10 DEF FindMove, FindChild, Player, ChancePlayer

\* Where the search of a history starts, and what it finds when the rest of
\* the history is the way to a node.
SearchStart(history) == IF IsPrefix(game.history, history) THEN Len(game.history) ELSE 0

LEMMA WalkFinds ==
  ASSUME NEW Actions, GameRules(Actions), IInv, PathsInv(Actions \cup Cards), Built,
         NEW n \in Ids, NEW history, SearchStart(history) \in Nat,
         Len(history) = SearchStart(history) + Len(PathOf(n)),
         \A i \in 1 .. Len(PathOf(n)) :
           history[SearchStart(history) + i] =
             IF PathOf(n)[i] \in Cards THEN ChanceAction ELSE PathOf(n)[i]
  PROVE  FindNode(history) = IF \A i \in 1 .. Len(PathOf(n)) : PathOf(n)[i] \notin Cards
                             THEN n ELSE NoNode
<1> DEFINE start == SearchStart(history)
           last == Len(history)
           path == PathOf(n)
           walk[i \in start .. last] ==
             IF i = start THEN 0
             ELSE IF walk[i - 1] = NoNode THEN NoNode ELSE FindChild(walk[i - 1], history[i])
           Plain(i) == \A j \in 1 .. i : path[j] \notin Cards
           At(i) == CHOOSE m \in Ids : IsAncestor(m, n, i)
           f == [i \in start .. last |-> IF Plain(i - start) THEN At(i - start) ELSE NoNode]
<1>1. FindNode(history) = walk[last]
  BY DEF FindNode, SearchStart
<1>2. /\ path \in Seq(Actions \cup Cards) /\ Len(path) \in Nat /\ 0 \in Ids
      /\ PathOf(0) = <<>> /\ \A m \in Ids : m # NoNode
  <2>1. Len(nodes) \in Nat \ {0}
    BY DEF IInv, NodesInv
  <2>2. 0 \in Ids /\ \A m \in Ids : m # NoNode
    BY <2>1 DEF Ids, NoNode
  <2>3. path \in Seq(Actions \cup Cards) /\ PathOf(0) = <<>>
    BY <2>2 DEF PathsInv, StepsInv
  <2> HIDE DEF path
  <2> QED BY <2>2, <2>3
<1>3. start \in Nat /\ last = start + Len(path) /\ last \in Nat
  BY <1>2
<1>4. \A i \in 0 .. Len(path) : At(i) \in Ids /\ IsAncestor(At(i), n, i)
  <2>1. \A i \in 0 .. Len(path) : \E m \in Ids : IsAncestor(m, n, i)
    BY DEF PathsInv, PrefixInv
  <2> QED BY <2>1
<1>5. \A i \in 0 .. Len(path), m \in Ids : IsAncestor(m, n, i) => At(i) = m
  <2> SUFFICES ASSUME NEW i \in 0 .. Len(path), NEW m \in Ids, IsAncestor(m, n, i)
               PROVE  At(i) = m
    OBVIOUS
  <2>1. i \in Nat /\ At(i) \in Ids /\ IsAncestor(At(i), n, i)
    BY <1>2, <1>4
  <2> HIDE DEF At
  <2> QED BY <2>1, OneAncestor
<1> HIDE DEF At
<1>6. At(0) = 0 /\ At(Len(path)) = n
  <2>1. IsAncestor(0, n, 0) /\ IsAncestor(n, n, Len(path))
    BY <1>2 DEF IsAncestor
  <2> QED BY <1>2, <1>5, <2>1
<1>7. ASSUME NEW i \in start .. last
      PROVE  f[i] = IF i = start THEN 0
                    ELSE IF f[i - 1] = NoNode THEN NoNode ELSE FindChild(f[i - 1], history[i])
  <2>1. CASE i = start
    <3>1. i - start = 0 /\ Plain(0)
      BY <1>3, <2>1
    <3> HIDE DEF Plain
    <3> QED BY <1>6, <2>1, <3>1
  <2>2. CASE i # start
    <3> DEFINE j == i - start - 1
    <3>1. /\ j \in 0 .. Len(path) - 1 /\ j + 1 = i - start /\ i - 1 \in start .. last
          /\ (i - 1) - start = j /\ start + (j + 1) = i /\ j \in Nat
          /\ j + 1 \in 1 .. Len(path) /\ j \in 0 .. Len(path) /\ j + 1 \in 0 .. Len(path)
      <4>1. i \in Int /\ start <= i /\ i <= last
        BY <1>3
      <4>2. Len(path) \in Nat /\ start \in Nat /\ last = start + Len(path) /\ i # start
        BY <1>2, <1>3, <2>2
      <4> HIDE DEF path, start, last
      <4>3. j \in Int /\ 0 <= j /\ j + 1 <= Len(path) /\ i - start = j + 1
        BY ONLY <4>1, <4>2
      <4>4. (i - 1) - start = j /\ i - 1 \in start .. last /\ start + (j + 1) = i
        BY ONLY <4>1, <4>2
      <4> HIDE DEF j
      <4> QED BY ONLY <4>2, <4>3, <4>4
    <3> HIDE DEF j
    <3>2. Plain(j + 1) <=> Plain(j) /\ path[j + 1] \notin Cards
      <4>1. \A l \in 1 .. j + 1 : l \in 1 .. j \/ l = j + 1
        BY <3>1
      <4>2. j + 1 \in 1 .. j + 1 /\ \A l \in 1 .. j : l \in 1 .. j + 1
        BY <3>1
      <4> HIDE DEF path
      <4> QED BY <4>1, <4>2
    <3> HIDE DEF Plain
    <3>3. f[i] = (IF Plain(j + 1) THEN At(j + 1) ELSE NoNode)
      BY <3>1
    <3>4. f[i - 1] = (IF Plain(j) THEN At(j) ELSE NoNode)
      BY <3>1
    <3> HIDE DEF f
    <3>5. /\ At(j) \in Ids /\ IsAncestor(At(j), n, j)
          /\ At(j + 1) \in Ids /\ IsAncestor(At(j + 1), n, j + 1)
      BY <1>4, <3>1
    <3>6. /\ path[j + 1] \notin Cards => FindChild(At(j), path[j + 1]) = At(j + 1)
          /\ path[j + 1] \in Cards => \A move : FindChild(At(j), move) = NoNode
      BY <3>1, <3>5, NextAncestor
    <3>7. path[j + 1] \notin Cards => history[i] = path[j + 1]
      BY <3>1
    <3> HIDE DEF path
    <3> QED BY <1>2, <2>2, <3>2, <3>3, <3>4, <3>5, <3>6, <3>7
  <2> QED BY <2>1, <2>2
<1>8. \A i \in start .. last :
        walk[i] = IF i = start THEN 0
                  ELSE IF walk[i - 1] = NoNode THEN NoNode ELSE FindChild(walk[i - 1], history[i])
  <2> DEFINE Body(g) == [i \in start .. last |->
                           IF i = start THEN 0
                           ELSE IF g[i - 1] = NoNode THEN NoNode ELSE FindChild(g[i - 1], history[i])]
  <2>1. f = Body(f)
    <3> HIDE DEF Plain, start, last
    <3> QED BY <1>7
  <2>2. walk = CHOOSE g : g = Body(g)
    OBVIOUS
  <2> HIDE DEF walk, f
  <2>3. walk = Body(walk)
    <3> HIDE DEF Body
    <3> QED BY <2>1, <2>2
  <2> QED BY <2>3
<1> HIDE DEF walk, start, last
<1> DEFINE S == {i \in Nat : i <= Len(path) => walk[start + i] = f[start + i]}
<1>9. 0 \in S
  <2>1. start + 0 = start /\ start \in start .. last
    BY <1>2, <1>3
  <2> HIDE DEF f
  <2> QED BY <1>7, <1>8, <2>1
<1>10. \A i \in Nat : i \in S => i + 1 \in S
  <2> HIDE DEF f, path
  <2> SUFFICES ASSUME NEW i \in Nat, i \in S, i + 1 <= Len(path)
               PROVE  walk[start + (i + 1)] = f[start + (i + 1)]
    OBVIOUS
  <2>1. /\ start + (i + 1) \in start .. last /\ start + (i + 1) # start
        /\ (start + (i + 1)) - 1 = start + i /\ i <= Len(path)
    BY <1>2, <1>3
  <2>2. walk[start + i] = f[start + i]
    BY <2>1
  <2> QED BY <1>7, <1>8, <2>1, <2>2
<1>11. Nat \subseteq S
  <2> HIDE DEF S
  <2> QED BY <1>9, <1>10, NatInduct
<1>12. walk[last] = f[last]
  <2>1. Len(path) \in S
    BY <1>2, <1>11
  <2> QED BY <1>2, <1>3, <2>1
<1>13. f[last] = IF Plain(Len(path)) THEN n ELSE NoNode
  <2>1. last \in start .. last /\ last - start = Len(path)
    BY <1>2, <1>3
  <2> HIDE DEF Plain
  <2> QED BY <1>6, <2>1
<1> QED BY <1>1, <1>12, <1>13

LEMMA PathsHistory ==
  ASSUME NEW Actions, GameRules(Actions), IInv, PathsInv(Actions \cup Cards)
  PROVE  HistoryFindsNode
<1> SUFFICES ASSUME Built, NEW n \in Ids
             PROVE  LET path == NodeAt(n).path
                        actions == \A i \in 1 .. Len(path) : path[i] \notin Cards
                    IN  /\ actions => FindNode(History(path)) = n
                        /\ actions /\ ~IsPrefix(game.history, path) => FindNode(path) = n
                        /\ ~actions => FindNode(History(path)) = NoNode
  BY DEF HistoryFindsNode
<1> DEFINE path == PathOf(n)
           root == game.history
           moves == [i \in 1 .. Len(path) |-> IF path[i] \in Cards THEN ChanceAction ELSE path[i]]
           plain == \A i \in 1 .. Len(path) : path[i] \notin Cards
<1>1. path \in Seq(Actions \cup Cards) /\ root \in Seq(Actions \cup {ChanceAction}) /\ Len(path) \in Nat
  BY DEF PathsInv, GameRules
<1>2. FindNode(History(path)) = IF plain THEN n ELSE NoNode
  <2>1. moves \in Seq(Actions \cup Cards \cup {ChanceAction}) /\ Len(moves) = Len(path)
    <3>1. \A i \in 1 .. Len(path) : moves[i] \in Actions \cup Cards \cup {ChanceAction}
      BY <1>1
    <3> QED BY <1>1, <3>1
  <2>2. \A i \in 1 .. Len(path) : moves[i] = IF path[i] \in Cards THEN ChanceAction ELSE path[i]
    OBVIOUS
  <2>3. root \in Seq(Actions \cup Cards \cup {ChanceAction})
    BY <1>1, SeqMonotonic
  <2>4. History(path) = root \o moves
    BY DEF History
  <2> HIDE DEF moves, root, path
  <2>5. /\ Len(root \o moves) = Len(root) + Len(path) /\ Len(root) \in Nat
        /\ \A i \in 1 .. Len(path) : (root \o moves)[Len(root) + i] = moves[i]
    BY <1>1, <2>1, <2>3
  <2>6. IsPrefix(root, root \o moves)
    <3>1. Len(root) <= Len(root \o moves)
      BY <1>1, <2>5
    <3>2. SubSeq(root, 1, Len(root)) = SubSeq(root \o moves, 1, Len(root))
      BY <2>1, <2>3, <2>5
    <3> QED BY <3>1, <3>2 DEF IsPrefix
  <2>7. SearchStart(History(path)) = Len(root)
    BY <2>4, <2>6 DEF SearchStart, root
  <2> QED BY <2>2, <2>4, <2>5, <2>7, WalkFinds DEF path
<1>3. ASSUME plain, ~IsPrefix(root, path) PROVE FindNode(path) = n
  <2>1. SearchStart(path) = 0
    BY <1>3 DEF SearchStart
  <2>2. /\ Len(path) = SearchStart(path) + Len(PathOf(n)) /\ SearchStart(path) \in Nat
        /\ \A i \in 1 .. Len(PathOf(n)) :
             path[SearchStart(path) + i] = IF PathOf(n)[i] \in Cards THEN ChanceAction ELSE PathOf(n)[i]
    BY <1>1, <1>3, <2>1
  <2> HIDE DEF path
  <2> QED BY <1>3, <2>2, WalkFinds DEF path
<1> QED BY <1>2, <1>3 DEF PathOf

(***************************************************************************)
(* The theorems                                                            *)
(***************************************************************************)

\* Building keeps the shape and the positions together.
LEMMA NextBuilding ==
  ASSUME NEW Actions, GameRules(Actions), IInv, PathsInv(Actions \cup Cards), [Next]_vars
  PROVE  IInv' /\ PathsInv(Actions \cup Cards)'
<1>1. ExpandPlayerNode => Len(ActionsAt(game, HeadPath)) \in Nat
  <2> SUFFICES ASSUME ExpandPlayerNode PROVE Len(ActionsAt(game, HeadPath)) \in Nat
    OBVIOUS
  <2>1. Head1 \in Ids
    BY HeadFacts DEF ExpandPlayerNode, Expanding
  <2>2. HeadPath \in Seq(Actions \cup Cards) /\ game \in Games
    BY <2>1 DEF PathsInv, PathOf, HeadPath
  <2>3. ActionsAt(game, HeadPath) \in Seq(Actions)
    BY <2>2 DEF GameRules
  <2> QED BY <2>3
<1> QED BY <1>1, NextIInv, NextPaths

\* Whatever the game and the deck, a built tree has every position of the game
\* once and nothing else, and the lookups of a child by an action or a card find
\* the child of that move and none for any other.
THEOREM SpecEveryPositionOnce ==
  ASSUME NEW CONSTANT Actions, GameRules(Actions)
  PROVE  Spec => []EveryPositionOnce
<1>1. Init => IInv /\ PathsInv(Actions \cup Cards)
  BY InitIInv, InitPaths
<1>2. IInv /\ PathsInv(Actions \cup Cards) /\ [Next]_vars => IInv' /\ PathsInv(Actions \cup Cards)'
  BY NextBuilding
<1>3. IInv /\ PathsInv(Actions \cup Cards) => EveryPositionOnce
  BY PathsPosition
<1> QED BY <1>1, <1>2, <1>3, PTL DEF Spec

\* Whatever the game and the deck, the history of a node reached without a card
\* finds that node in a built tree, and so does its path alone unless it begins
\* like the root's own history; histories through a card find nothing.
THEOREM SpecHistoryFindsNode ==
  ASSUME NEW CONSTANT Actions, GameRules(Actions)
  PROVE  Spec => []HistoryFindsNode
<1>1. Init => IInv /\ PathsInv(Actions \cup Cards)
  BY InitIInv, InitPaths
<1>2. IInv /\ PathsInv(Actions \cup Cards) /\ [Next]_vars => IInv' /\ PathsInv(Actions \cup Cards)'
  BY NextBuilding
<1>3. IInv /\ PathsInv(Actions \cup Cards) => HistoryFindsNode
  BY PathsHistory
<1> QED BY <1>1, <1>2, <1>3, PTL DEF Spec
===============================================================================

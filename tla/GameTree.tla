------------------------------ MODULE GameTree -------------------------------
(***************************************************************************)
(* PokerTree (src/csrc/src/game/poker/poker_tree.cc): breadth-first        *)
(* building, one action per expanded node, and the search of nodes by      *)
(* action history.  The NodeState of a node is the path of moves (actions  *)
(* and cards) that leads to it from the root.                              *)
(***************************************************************************)
EXTENDS TreeShape, Sequences, FiniteSets, SequencesExt

CONSTANTS
  Games,              \* the roots: [history, board] and whatever ActorAt reads
  Deck,               \* the cards in deck order
  ActorAt(_, _),      \* the player to act after a path of a game
  ActionsAt(_, _)     \* the valid actions there, in order

VARIABLES game, nodes, queue, next

vars == <<game, nodes, queue, next>>

Cards == {Deck[i] : i \in 1 .. Len(Deck)}
ASSUME DeckAssumption ==
  Deck \in Seq(Cards) /\ \A i, j \in 1 .. Len(Deck) : Deck[i] = Deck[j] => i = j

ChanceAction == "C"

Board(path) == game.board \cup {path[i] : i \in {j \in 1 .. Len(path) : path[j] \in Cards}}

\* ActionHistory: the root's history and the path, with Chance for every card.
History(path) ==
  game.history \o [i \in 1 .. Len(path) |-> IF path[i] \in Cards THEN ChanceAction ELSE path[i]]

NodeAt(n) == nodes[n + 1]

SetChildrenRange(n, first, children) ==
  [NodeAt(n) EXCEPT !.offset = IF children = 0 THEN NoNode ELSE first, !.count = children]

NewNode(path, parent, depth) ==
  [path |-> path, parent |-> parent, depth |-> depth, offset |-> NoNode, count |-> 0]

Init ==
  /\ game \in Games
  /\ nodes = <<NewNode(<<>>, NoNode, 0)>>
  /\ queue = <<0>> /\ next = 1

Head1 == queue[next]
HeadPath == NodeAt(Head1).path
Expanding(actors) == next <= Len(queue) /\ ActorAt(game, HeadPath) \in actors

\* Fault: new nodes go before the ones that wait.
AddChildrenDepthFirst(moves) ==
  LET first == Len(nodes)
      count == Len(moves)
      added == [i \in 1 .. count |-> NewNode(Append(HeadPath, moves[i]), Head1,
                                             NodeAt(Head1).depth + 1)]
  IN  /\ nodes' = ReplaceAt(nodes, Head1 + 1, SetChildrenRange(Head1, first, count)) \o added
      /\ queue' = SubSeq(queue, 1, next) \o [i \in 1 .. count |-> first + i - 1]
                    \o SubSeq(queue, next + 1, Len(queue))

\* AddNode for every move, and the node's range.
AddChildren(moves) ==
  LET first == Len(nodes)
      count == Len(moves)
      added == [i \in 1 .. count |-> NewNode(Append(HeadPath, moves[i]), Head1,
                                             NodeAt(Head1).depth + 1)]
  IN  /\ nodes' = ReplaceAt(nodes, Head1 + 1, SetChildrenRange(Head1, first, count)) \o added
      /\ queue' = queue \o [i \in 1 .. count |-> first + i - 1]

SkipTerminalNode ==
  /\ Expanding({TerminalPlayer})
  /\ next' = next + 1
  /\ UNCHANGED <<game, nodes, queue>>

ExpandPlayerNode ==
  /\ Expanding(Player)
  /\ AddChildren(ActionsAt(game, HeadPath))
  /\ next' = next + 1
  /\ UNCHANGED game

\* The cards that are not on the board, in deck order.
FreeCards(path) ==
  LET free == {i \in 1 .. Len(Deck) : Deck[i] \notin Board(path)}
      Place(i) == Cardinality({j \in free : j <= i})
  IN  [k \in 1 .. Cardinality(free) |-> Deck[CHOOSE i \in free : Place(i) = k]]

ExpandChanceNode ==
  /\ Expanding({ChancePlayer})
  /\ AddChildren(FreeCards(HeadPath))
  /\ next' = next + 1
  /\ UNCHANGED game

Next == SkipTerminalNode \/ ExpandPlayerNode \/ ExpandChanceNode

Spec == Init /\ [][Next]_vars

(***************************************************************************)
(* Searching the finished tree.                                            *)
(***************************************************************************)

Ids == 0 .. Len(nodes) - 1
Actor(n) == ActorAt(game, NodeAt(n).path)
Built == next > Len(queue)

\* The child at the place of an entry among the choices, if it is one of them.
ChildAt(n, choices, choice) ==
  IF \E i \in 1 .. Len(choices) : choices[i] = choice
  THEN NodeAt(n).offset + (CHOOSE i \in 1 .. Len(choices) : choices[i] = choice) - 1
  ELSE NoNode

FindChild(n, action) ==
  IF Actor(n) \in Player THEN ChildAt(n, ActionsAt(game, NodeAt(n).path), action) ELSE NoNode

\* Fault: the card's place in the whole deck.
FindChanceChildInDeck(n, card) ==
  IF Actor(n) = ChancePlayer THEN ChildAt(n, Deck, card) ELSE NoNode

FindChanceChild(n, card) ==
  IF Actor(n) = ChancePlayer THEN ChildAt(n, FreeCards(NodeAt(n).path), card) ELSE NoNode

\* Fault: the root's history is never taken off.
FindNodeFromRoot(history) ==
  LET walk[i \in 0 .. Len(history)] ==
        IF i = 0 THEN 0
        ELSE IF walk[i - 1] = NoNode THEN NoNode ELSE FindChild(walk[i - 1], history[i])
  IN  walk[Len(history)]

\* FindNode: from the root, after the root's own history if the query begins
\* with it.
FindNode(history) ==
  LET start == IF IsPrefix(game.history, history) THEN Len(game.history) ELSE 0
      walk[i \in start .. Len(history)] ==
        IF i = start THEN 0
        ELSE IF walk[i - 1] = NoNode THEN NoNode ELSE FindChild(walk[i - 1], history[i])
  IN  walk[Len(history)]

(***************************************************************************)
(* Properties                                                              *)
(***************************************************************************)

Tree == [size   |-> Len(nodes),
         parent |-> [n \in Ids |-> NodeAt(n).parent],
         depth  |-> [n \in Ids |-> NodeAt(n).depth],
         offset |-> [n \in Ids |-> NodeAt(n).offset],
         count  |-> [n \in Ids |-> NodeAt(n).count]]

\* While it grows, the tree has the shape its users index by: parents before
\* children, children in one range of ids, levels in one interval of ids.
ShapeKept == WellFormed(Tree)

\* A built tree has every position once, and nothing else: each move of each
\* node leads to one node, the node the lookups find for it.
EveryPositionOnce ==
  Built =>
    /\ \A m, n \in Ids : NodeAt(m).path = NodeAt(n).path => m = n
    /\ \A n \in Ids :
         LET path == NodeAt(n).path
             Find(move) == IF move \in Cards THEN FindChanceChild(n, move) ELSE FindChild(n, move)
             moves == CASE Actor(n) = TerminalPlayer -> {}
                        [] Actor(n) = ChancePlayer -> Cards \ Board(path)
                        [] OTHER -> ToSet(ActionsAt(game, path))
         IN  /\ {NodeAt(m).path : m \in Children(Tree, n)} = {Append(path, move) : move \in moves}
             /\ \A move \in moves : NodeAt(Find(move)).path = Append(path, move)
             /\ \A move \in (Cards \cup ToSet(ActionsAt(game, path))) \ moves : Find(move) = NoNode

\* A history names the node it belongs to: a node reached without a card is
\* found by its full history and, unless that begins like the root's history,
\* by its path alone; what FindNode finds has the history it was asked for.
HistoryFindsNode ==
  Built => \A n \in Ids :
    LET path == NodeAt(n).path
        actions == \A i \in 1 .. Len(path) : path[i] \notin Cards
    IN  /\ actions => FindNode(History(path)) = n
        /\ actions /\ ~IsPrefix(game.history, path) => FindNode(path) = n
        /\ ~actions => FindNode(History(path)) = NoNode
==============================================================================

--------------------------- MODULE MCBestResponse ---------------------------
(***************************************************************************)
(* Two games: that of the Kuhn benchmark, where cfr.cc finds the same      *)
(* numbers by enumeration, and one in which a card comes between actions.  *)
(***************************************************************************)
EXTENDS BestResponse, KuhnGame, TLC

\* The tree whose node n has parent parents[n + 1].
TreeOf(parents, actors, hands) ==
  LET ids == 0 .. Len(parents) - 1
      parent == [n \in ids |-> parents[n + 1]]
      level[n \in ids] == IF n = 0 THEN 0 ELSE level[parent[n]] + 1
      child(n) == {m \in ids : parent[m] = n}
  IN  [size |-> Len(parents), parent |-> parent, depth |-> level,
       offset |-> [n \in ids |-> IF child(n) = {} THEN NoNode ELSE Min(child(n))],
       count |-> [n \in ids |-> Cardinality(child(n))],
       actor |-> [n \in ids |-> actors[n + 1]], hands |-> [n \in ids |-> hands[n + 1]]]

\* The bets of the nodes of the Kuhn tree, level by level.
Bets == << <<>>, <<0>>, <<1>>, <<0, 0>>, <<0, 1>>, <<1, 0>>, <<1, 1>>, <<0, 1, 0>>, <<0, 1, 1>> >>
KuhnTree ==
  TreeOf(<<-1, 0, 0, 1, 1, 2, 2, 4, 4>>,
         [i \in 1 .. 9 |-> IF IsTerminal(Bets[i]) THEN TerminalPlayer
                           ELSE CurrentPlayer(Bets[i])],
         [i \in 1 .. 9 |-> 3])

\* Behind fewer than three moves, a payoff is of as many units more.
Filling == <<Unit * Unit * Unit, Unit * Unit, Unit, 1>>
KuhnPays ==
  [p \in Player |-> [n \in NodeIds(KuhnTree) |-> [h \in 0 .. 2 |-> [o \in 0 .. 2 |->
     IF KuhnTree.actor[n] # TerminalPlayer \/ h = o THEN 0
     ELSE Filling[KuhnTree.depth[n] + 1]
            * Returns(p, IF p = 0 THEN <<h, o>> ELSE <<o, h>>, Bets[n + 1])]]]]

\* A strategy of a player from how often each card bets, at both of its nodes.
Betting(first, second, f) ==
  LET bet == [n \in {first, second} |->
                [h \in 0 .. 2 |-> f[h][IF n = first THEN 1 ELSE 2]]]
      moves == {c \in NodeIds(KuhnTree) \ {0} : KuhnTree.parent[c] \in {first, second}}
  IN  [c \in moves |-> [h \in 0 .. 2 |->
         LET often == bet[KuhnTree.parent[c]][h]
         IN  IF c = KuhnTree.offset[KuhnTree.parent[c]] THEN Unit - often ELSE often]]

\* Every behaviour of a player out of a half, never and always, once as the first
\* and once, on the mirrored cards, as the second player's.
KuhnStrategies ==
  {[p \in Player |-> IF p = 0 THEN Betting(0, 4, f)
                     ELSE Betting(2, 1, [h \in 0 .. 2 |-> f[2 - h]])] :
     f \in [0 .. 2 -> (0 .. 2) \X (0 .. 2)]}

KuhnPoker ==
  [tree |-> KuhnTree, unit |-> Unit, belief |-> [p \in Player |-> [h \in 0 .. 2 |-> 1]],
   pays |-> KuhnPays, strategies |-> KuhnStrategies, weight |-> [c \in {} |-> 0]]

\* Player 0 leaves or sees a card; then player 1 acts, and after one of the
\* cards player 0 again.  The first card leaves one hand as it is and splits the
\* other, the second leaves half of one and unites both.
CardTree ==
  TreeOf(<<-1, 0, 0, 2, 2, 3, 3, 4, 4, 6, 6>>,
         <<0, TerminalPlayer, ChancePlayer, 1, 1, TerminalPlayer, 0, TerminalPlayer,
           TerminalPlayer, TerminalPlayer, TerminalPlayer>>,
         <<2, 2, 2, 3, 1, 3, 3, 1, 1, 3, 3>>)
CardWeights ==
  [c \in {3, 4} |->
     IF c = 3 THEN <<(0 :> 2 @@ 1 :> 0 @@ 2 :> 0), (0 :> 0 @@ 1 :> 1 @@ 2 :> 1)>>
              ELSE <<(0 :> 1), (0 :> 2)>>]
FromZero(s) == [h \in 0 .. Len(s) - 1 |-> s[h + 1]]

\* Any payoffs will do; they differ from hand to hand and from end to end.
CardPays ==
  [p \in Player |-> [n \in NodeIds(CardTree) |->
     [h \in 0 .. CardTree.hands[n] - 1 |-> [o \in 0 .. CardTree.hands[n] - 1 |->
        (IF p = 0 THEN 1 ELSE -1) * (((n * n + 3 * (IF p = 0 THEN h ELSE o)
                                         + 5 * (IF p = 0 THEN o ELSE h)) % 7) - 3)]]]]

\* A move and its alternative, in halves.
CardStrategies ==
  {[p \in Player |->
      LET often(c) == FromZero(IF c \in {1, 2} THEN <<f[1], f[2]>>
                               ELSE IF c \in {5, 6} THEN <<f[2], f[3], f[1]>>
                               ELSE IF c \in {7, 8} THEN <<f[3]>> ELSE <<f[3], f[1], f[2]>>)
          moves == IF p = 0 THEN {1, 2, 9, 10} ELSE {5, 6, 7, 8}
      IN  [c \in moves |-> [h \in 0 .. CardTree.hands[c] - 1 |->
             IF c = CardTree.offset[CardTree.parent[c]] THEN often(c)[h] ELSE Unit - often(c)[h]]]] :
     f \in [1 .. 3 -> 0 .. 2]}

CardGame ==
  [tree |-> CardTree, unit |-> Unit,
   belief |-> (0 :> FromZero(<<1, 2>>) @@ 1 :> FromZero(<<3, 1>>)),
   pays |-> CardPays, strategies |-> CardStrategies,
   weight |-> [c \in {3, 4} |-> FromZero(CardWeights[c])]]

MCGames == {KuhnPoker, CardGame}

BetNodes == [bets \in Decisions |-> (CHOOSE i \in DOMAIN Bets : Bets[i] = bets) - 1]
BetMoves == [bets \in Decisions |-> KuhnTree.offset[BetNodes[bets]] + 1]

\* On Kuhn poker the public tree with the opponent's hidden hand in its reach
\* gives the values of the hidden-information game: trying every pure strategy
\* finds the value of the response, and the value of what policy records.
AgreesWithEnumeration ==
  stage = "done" /\ game.tree.size = KuhnTree.size =>
    LET strategy == [s \in InfoStates |->
                       average[CurrentPlayer(s[2])][BetMoves[s[2]]][s[1]]]
    IN  \A p \in Player :
          LET chosen == [s \in CollectInfoStates(p) |-> policy[BetNodes[s[2]]][s[1]]]
          IN  /\ bestResponseEv[p] * Unit = BestResponseValueByEnumeration(strategy, p)
              /\ bestResponseEv[p] * Unit = PolicyValue(With(strategy, chosen), p)
              /\ currentEv[p] * Unit = PolicyValue(strategy, p)
=============================================================================

---------------------------- MODULE MCIsoRanges ------------------------------
(***************************************************************************)
(* Three ranks in three suits, a flop of two cards.                        *)
(***************************************************************************)
EXTENDS IsoRanges

Pairs == {h \in Hands : \E c, d \in h : c # d /\ c \div NumSuits = d \div NumSuits}
Suited == {h \in Hands : \E c, d \in h : c # d /\ c % NumSuits = d % NumSuits}
With(rank) == {h \in Hands : \E c \in h : c \div NumSuits = rank}
Flushing(b) == {h \in Hands : \E c \in h : c % NumSuits = b[1] % NumSuits}

\* The most cards of a rank, then of a suit, then the highest card.
MCStrengths ==
  [cards \in kSubset(RiverCards + 2, Cards) |->
     LET Most(Of(_)) == Max({Cardinality({d \in cards : Of(d) = Of(c)}) : c \in cards})
     IN  100 * Most(LAMBDA c : c \div NumSuits) + 10 * Most(LAMBDA c : c % NumSuits)
           + Max({c \div NumSuits : c \in cards})]
MCStrength(cards) == MCStrengths[cards]

MCRoots == {<<0, 1>>, <<5, 0>>, <<6, 3, 0>>}

Weight(hands) == [h \in Hands |-> IF h \in hands THEN Unit ELSE 0]
MCBeliefs ==
  {<<Suited \cup With(0), Hands>>, <<Pairs, With(2)>>}
\* One player holds a bucket in part, and nobody does.
MCUneven == {<<{{1, 3}, {2, 7}, {4, 8}}, Hands>>, <<{{2, 4}}, {{2, 4}, {1, 2}}>>}
MCBelief ==
  {[p \in Player |-> Weight(IF p = 0 THEN ranges[1] ELSE ranges[2])] :
     ranges \in MCBeliefs \cup MCUneven}

MCTakenAt(b) == {Pairs \cup With(1), Flushing(b)}
MCPayoffs == {[lose |-> -4, chop |-> -1, win |-> 2]}
==============================================================================

--------------------------- MODULE NodeStateProofs ---------------------------
(***************************************************************************)
(* Proofs, for every deck, set of roots and bet sizes, that a walk down    *)
(* the betting tree conserves chips, closes the bets of every street,      *)
(* never reaches a node that cannot be expanded, and settles payoffs.      *)
(***************************************************************************)
EXTENDS NodeState, FiniteSetTheorems, TLAPS

NodeType ==
  [board : SUBSET Deck, pot : Nat, stacks : [Player -> Nat],
   betTotal : [Player -> Nat], bet : [Player -> Nat],
   actor : Player \cup {ChancePlayer, TerminalPlayer},
   lastAggressor : Player \cup {-1}, raises : Nat,
   folded : [Player -> BOOLEAN], status : {"live", "fold", "showdown"}]

\* A player facing a bet can still call; a live street before the river can be
\* dealt; nobody has folded before the end; the earlier streets were paid
\* for in equal parts.
CanAnswer ==
  node.actor \in Player => (NeedsCall(node) => node.stacks[node.actor] > 0)
Unfolded == node.status = "live" => \A p \in Player : ~node.folded[p]
StreetLeft == node.actor = ChancePlayer => Cardinality(node.board) < 5
PaidBefore(p) == root.stacks[p] + root.bet[p] - node.stacks[p] - node.bet[p]
EvenPast ==
  /\ PaidBefore(0) = PaidBefore(1)
  /\ node.pot = root.pot + 2 * PaidBefore(0)

IInv ==
  /\ TypeOK /\ ChipsConserved /\ BetsClosed
  /\ CanAnswer /\ Unfolded /\ StreetLeft /\ EvenPast

\* Rounding keeps amounts whole.
LEMMA RoundToInt ==
  ASSUME NEW h \in Int PROVE RoundTo(h) \in Int
<1>1. BetRounding \in Nat \ {0} BY BetSizesAssumption
<1> DEFINE top == 2 * h + 100 * BetRounding
           unit == 200 * BetRounding
<1>2. top \in Int /\ unit \in Int /\ unit > 0 BY <1>1
<1> HIDE DEF top, unit
<1>3. top \div unit \in Int BY <1>2
<1> USE DEF top, unit
<1> QED BY <1>1, <1>3 DEF RoundTo

\* Whatever a bet is configured as, its target is a whole amount.
LEMMA TargetsInt ==
  ASSUME NEW n \in NodeType, n.actor \in Player, NEW a \in AbstractedBet
  PROVE  Targets(a, n) \subseteq Int
<1>1. OwnBet(n) \in Int /\ OpponentBet(n) \in Int /\ n.stacks[n.actor] \in Int
      /\ n.pot \in Int /\ n.bet[0] \in Int /\ n.bet[1] \in Int /\ a.amount \in Int
  BY DEF NodeType, OwnBet, OpponentBet, Opponent, AbstractedBet, Player
<1>2. PotAfterCall(n) \in Int /\ AllInTarget(n) \in Int /\ MustExceed(n) \in Int
  BY <1>1 DEF PotAfterCall, AllInTarget, MustExceed
<1>3. GeometricTargets(a, n) \subseteq Int
  <2>1. BetRounding \in Nat BY BetSizesAssumption
  <2>2. ASSUME NEW m \in 0 .. AllInTarget(n) + BetRounding PROVE m \in Int
    OBVIOUS
  <2>3. ASSUME a.cap # NoCap PROVE RoundTo(100 * MustExceed(n) + PotAfterCall(n) * a.cap) \in Int
    <3>1. a.cap \in Int BY DEF AbstractedBet, NoCap
    <3>2. 100 * MustExceed(n) + PotAfterCall(n) * a.cap \in Int BY <1>2, <3>1
    <3> QED BY <3>2, RoundToInt
  <2> QED BY <2>1, <2>2, <2>3, <1>2 DEF GeometricTargets, Least
<1>4. CASE a.type = "bb"
  <2>1. 100 * a.amount \in Int BY <1>1
  <2> QED BY <1>4, <2>1, RoundToInt DEF Targets
<1>5. CASE a.type = "percent"
  <2>1. 100 * OpponentBet(n) + PotAfterCall(n) * a.amount \in Int /\ n.pot * a.amount \in Int
    BY <1>1, <1>2
  <2> QED BY <1>5, <2>1, RoundToInt DEF Targets
<1>6. CASE a.type = "multiplier"
  <2>1. OpponentBet(n) * a.amount \in Int BY <1>1
  <2> QED BY <1>6, <2>1, RoundToInt DEF Targets
<1>7. CASE a.type = "geometric"
  BY <1>3, <1>7 DEF Targets
<1>8. CASE a.type = "allin"
  <2>1. 100 * AllInTarget(n) \in Int BY <1>2
  <2> QED BY <1>8, <2>1, RoundToInt DEF Targets
<1> QED BY <1>4, <1>5, <1>6, <1>7, <1>8 DEF AbstractedBet

\* The configured bets of a node are abstracted bets.
LEMMA ConfiguredBets ==
  ASSUME NEW n \in NodeType, Cardinality(n.board) \in 3 .. 5
  PROVE  AbstractedBetsForState(n) \subseteq AbstractedBet
<1> DEFINE levels == RoundBets[Street(n)]
           level  == Least(n.raises + 1, Len(levels))
<1>1. levels \in Seq(SUBSET AbstractedBet) /\ levels # <<>>
  BY BetSizesAssumption DEF Street
<1>2. level \in 1 .. Len(levels)
  <2>1. Len(levels) \in Nat /\ Len(levels) # 0 BY <1>1
  <2>2. n.raises \in Nat BY DEF NodeType
  <2> HIDE DEF levels
  <2> QED BY <2>1, <2>2 DEF Least
<1>3. levels[level] \in SUBSET AbstractedBet BY <1>1, <1>2
<1>4. DonkBets[Street(n)] \in SUBSET AbstractedBet BY BetSizesAssumption DEF Street
<1> QED BY <1>3, <1>4 DEF AbstractedBetsForState

\* Every bet is more than both bets in front and at most the all-in, a full
\* raise or all-in, made with chips against an opponent with chips.
LEMMA BetTargetBounds ==
  ASSUME NEW n \in NodeType, Cardinality(n.board) \in 3 .. 5, n.actor \in Player,
         NEW t \in BetTargets(n)
  PROVE  /\ t \in Nat /\ t > OwnBet(n) /\ t > MustExceed(n) /\ t <= AllInTarget(n)
         /\ t = AllInTarget(n) \/ t >= MinNonAllInTarget(n)
         /\ n.stacks[0] > 0 /\ n.stacks[1] > 0
<1>2. n.stacks[0] > 0 /\ n.stacks[1] > 0 /\ t \in Candidates(n) /\ MayBet(t, n)
  BY DEF BetTargets
<1>3. /\ OwnBet(n) \in Nat /\ OpponentBet(n) \in Nat /\ AllInTarget(n) \in Nat
      /\ MustExceed(n) \in Nat /\ MustExceed(n) >= OwnBet(n)
  BY DEF NodeType, OwnBet, OpponentBet, Opponent, AllInTarget, MustExceed, NeedsCall, Player
<1>4. t \in Int /\ t <= AllInTarget(n)
  <2>1. CASE t = AllInTarget(n) BY <2>1, <1>3
  <2>2. CASE \E a \in AbstractedBetsForState(n) : \E x \in Targets(a, n) : t = SnapToAllIn(x, n)
    <3>1. PICK a \in AbstractedBetsForState(n) : \E x \in Targets(a, n) : t = SnapToAllIn(x, n)
      BY <2>2
    <3>2. PICK x \in Targets(a, n) : t = SnapToAllIn(x, n) BY <3>1
    <3>3. x \in Int BY ConfiguredBets, TargetsInt
    <3> QED BY <3>2, <3>3, <1>3 DEF SnapToAllIn
  <2> QED BY <1>2, <2>1, <2>2 DEF Candidates
<1> QED BY <1>2, <1>3, <1>4 DEF MayBet

\* Merging offers none but these.
LEMMA OfferedBetBounds ==
  ASSUME NEW n \in NodeType, Cardinality(n.board) \in 3 .. 5, n.actor \in Player,
         NEW t \in OfferedBets(n)
  PROVE  /\ t \in Nat /\ t > OwnBet(n) /\ t > MustExceed(n) /\ t <= AllInTarget(n)
         /\ t = AllInTarget(n) \/ t >= MinNonAllInTarget(n)
         /\ n.stacks[0] > 0 /\ n.stacks[1] > 0
<1>1. t \in BetTargets(n) BY DEF OfferedBets, MergeClose
<1> QED BY <1>1, BetTargetBounds

(***************************************************************************)
(* Merging close bets                                                      *)
(***************************************************************************)

\* Induction over the natural numbers, with a set for the predicate.
LEMMA NatInduct ==
  ASSUME NEW S, 0 \in S, \A n \in Nat : n \in S => n + 1 \in S
  PROVE  Nat \subseteq S
<1> SUFFICES ASSUME NEW k \in Nat, k \notin S PROVE FALSE
  OBVIOUS
<1> DEFINE T == {0 .. n : n \in Nat \ S}
           R == StrictSubsetOrdering(Nat)
           F == FiniteSubsetsOf(Nat)
<1>1. IsWellFoundedOn(R, F)
  BY FS_StrictSubsetOrderingWellFounded
<1>2. T \subseteq F /\ T # {}
  <2>1. \A n \in Nat : IsFiniteSet(0 .. n)
    BY FS_Interval
  <2> QED BY <2>1 DEF FiniteSubsetsOf
<1>3. \E x \in T : \A y \in T : ~ (<<y, x>> \in R)
  <2> HIDE DEF T, R, F
  <2> QED BY <1>1, <1>2, WFMin
<1>4. PICK m \in Nat \ S : \A y \in T : ~ (<<y, 0 .. m>> \in R)
  BY <1>3
<1>5. m # 0 /\ m - 1 \in Nat \ S
  <2>1. m # 0
    OBVIOUS
  <2>2. m - 1 \in Nat /\ (m - 1) + 1 = m
    BY <2>1
  <2> QED BY <2>1, <2>2
<1>6. 0 .. m - 1 \in T
  BY <1>5
<1>7. <<0 .. m - 1, 0 .. m>> \in R
  <2>1. 0 .. m - 1 \subseteq 0 .. m /\ m \in 0 .. m /\ m \notin 0 .. m - 1
    BY <1>5
  <2>2. 0 .. m - 1 \in SUBSET Nat /\ 0 .. m \in SUBSET Nat
    OBVIOUS
  <2> QED BY <2>1, <2>2 DEF StrictSubsetOrdering
<1> QED BY <1>4, <1>6, <1>7

\* A nonempty set of amounts has a greatest one.
LEMMA GreatestFacts ==
  ASSUME NEW k \in Nat, NEW S \in SUBSET (0 .. k), S # {}
  PROVE  Greatest(S) \in S /\ \A y \in S : y <= Greatest(S)
<1> DEFINE Bounded(T) == \E x \in T : \A y \in T : y <= x
           N == {i \in Nat : \A T \in SUBSET (0 .. i) : T # {} => Bounded(T)}
<1>1. 0 \in N
  <2>1. \A T \in SUBSET (0 .. 0) : T # {} => T = {0}
    <3>1. 0 .. 0 = {0}
      OBVIOUS
    <3> QED BY ONLY <3>1
  <2>2. Bounded({0})
    OBVIOUS
  <2> HIDE DEF Bounded
  <2> QED BY <2>1, <2>2
<1>2. \A i \in Nat : i \in N => i + 1 \in N
  <2> SUFFICES ASSUME NEW i \in Nat, i \in N, NEW T \in SUBSET (0 .. i + 1), T # {}
               PROVE  Bounded(T)
    <3> HIDE DEF Bounded
    <3> QED OBVIOUS
  <2>1. CASE i + 1 \in T
    <3>1. \A y \in T : y <= i + 1
      OBVIOUS
    <3> QED BY <2>1, <3>1
  <2>2. CASE i + 1 \notin T
    <3>1. T \in SUBSET (0 .. i)
      BY <2>2
    <3> HIDE DEF Bounded
    <3> QED BY <3>1
  <2> QED BY <2>1, <2>2
<1>3. Nat \subseteq N
  <2> HIDE DEF N
  <2> QED BY <1>1, <1>2, NatInduct
<1>4. Bounded(S)
  <2> HIDE DEF Bounded
  <2> QED BY <1>3
<1> QED BY <1>4 DEF Greatest

\* What merging is to keep of a set of bets: a bet is kept exactly if it is far
\* from every larger bet that is kept.
KeepsFar(kept, S, n) ==
  /\ kept \subseteq S
  /\ \A t \in S : t \in kept <=> \A s \in kept : s > t => FarApart(s, t, n)

\* The bets that are left after the largest one is kept.
BelowTop(S, n) == {t \in S : t < Greatest(S) /\ FarApart(Greatest(S), t, n)}

\* Keeping the largest and merging what it leaves keeps what is to be kept.
LEMMA KeepTop ==
  ASSUME NEW n, NEW k \in Nat, NEW S \in SUBSET (0 .. k), S # {}, NEW kept,
         KeepsFar(kept, BelowTop(S, n), n)
  PROVE  KeepsFar({Greatest(S)} \cup kept, S, n)
<1> DEFINE top == Greatest(S)
           all == {top} \cup kept
<1>1. top \in S /\ (\A y \in S : y <= top) /\ S \subseteq Int
  <2>1. S \subseteq Int
    OBVIOUS
  <2> QED BY <2>1, GreatestFacts
<1>2. kept \subseteq BelowTop(S, n) /\ kept \subseteq S /\ all \subseteq S
  BY <1>1 DEF KeepsFar, BelowTop
<1>3. \A t \in kept : t < top
  BY <1>2 DEF BelowTop
<1> HIDE DEF top
<1>4. ASSUME NEW t \in S
      PROVE  t \in all <=> \A s \in all : s > t => FarApart(s, t, n)
  <2>1. CASE t = top
    <3>1. \A s \in all : ~(s > t)
      BY <1>1, <1>2, <2>1
    <3> QED BY <2>1, <3>1
  <2>2. CASE t # top
    <3>1. t < top /\ t \in Int /\ top \in Int
      BY <1>1, <2>2
    <3>2. t \in BelowTop(S, n) <=> FarApart(top, t, n)
      BY <3>1 DEF BelowTop, top
    <3>3. CASE FarApart(top, t, n)
      <4>1. t \in kept <=> \A s \in kept : s > t => FarApart(s, t, n)
        BY <3>2, <3>3 DEF KeepsFar
      <4> QED BY <2>2, <3>3, <4>1
    <3>4. CASE ~FarApart(top, t, n)
      <4>1. t \notin all
        BY <1>2, <2>2, <3>2, <3>4
      <4>2. top \in all /\ top > t
        BY <3>1
      <4> QED BY <3>4, <4>1, <4>2
    <3> QED BY <3>3, <3>4
  <2> QED BY <2>1, <2>2
<1> QED BY <1>2, <1>4 DEF KeepsFar, top

\* Nothing is left above the largest bet, and less than before below it.
LEMMA BelowTopFacts ==
  ASSUME NEW n, NEW k \in Nat, NEW S \in SUBSET (0 .. k + 1), S # {}
  PROVE  BelowTop(S, n) \in SUBSET (0 .. k) /\ BelowTop(S, n) \subseteq S
<1>1. k + 1 \in Nat
  OBVIOUS
<1>2. Greatest(S) \in 0 .. k + 1
  BY <1>1, GreatestFacts
<1>3. ASSUME NEW t \in BelowTop(S, n) PROVE t \in 0 .. k
  <2>1. t \in 0 .. k + 1 /\ t < Greatest(S)
    BY DEF BelowTop
  <2> QED BY <1>2, <2>1
<1> QED BY <1>3 DEF BelowTop

\* There is one such set, and only one.
LEMMA KeepsFarUnique ==
  ASSUME NEW n, NEW k \in Nat, NEW S \in SUBSET (0 .. k), NEW A, KeepsFar(A, S, n),
         NEW B, KeepsFar(B, S, n)
  PROVE  A = B
<1> DEFINE D == {t \in S : ~(t \in A <=> t \in B)}
<1>1. A \subseteq S /\ B \subseteq S
  BY DEF KeepsFar
<1>2. ASSUME D # {} PROVE FALSE
  <2> DEFINE d == Greatest(D)
  <2>1. D \in SUBSET (0 .. k)
    OBVIOUS
  <2>2. d \in D /\ \A y \in D : y <= d
    <3> HIDE DEF D
    <3> QED BY <1>2, <2>1, GreatestFacts
  <2> HIDE DEF d
  <2>3. d \in S /\ d \in Int /\ S \subseteq Int
    BY <2>2
  <2>4. \A s \in S : s > d => (s \in A <=> s \in B)
    <3> SUFFICES ASSUME NEW s \in S, s > d PROVE s \notin D
      OBVIOUS
    <3>1. ~(s <= d)
      BY <2>3
    <3> HIDE DEF D
    <3> QED BY <2>2, <3>1
  <2>5. /\ d \in A <=> \A s \in A : s > d => FarApart(s, d, n)
        /\ d \in B <=> \A s \in B : s > d => FarApart(s, d, n)
    BY <2>3 DEF KeepsFar
  <2>6. d \in A <=> d \in B
    BY <1>1, <2>4, <2>5
  <2> QED BY <2>2, <2>6
<1> QED BY <1>1, <1>2

LEMMA KeepsFarExists ==
  ASSUME NEW n, NEW k \in Nat, NEW S \in SUBSET (0 .. k)
  PROVE  \E kept \in SUBSET S : KeepsFar(kept, S, n)
<1> DEFINE Has(T) == \E kept \in SUBSET T : KeepsFar(kept, T, n)
           N == {i \in Nat : \A T \in SUBSET (0 .. i) : Has(T)}
<1>1. Has({})
  <2>1. KeepsFar({}, {}, n)
    BY DEF KeepsFar
  <2> QED BY <2>1
<1>2. ASSUME NEW i \in Nat, NEW T \in SUBSET (0 .. i), T # {}, Has(BelowTop(T, n))
      PROVE  Has(T)
  <2>1. PICK kept : KeepsFar(kept, BelowTop(T, n), n)
    BY <1>2
  <2>2. KeepsFar({Greatest(T)} \cup kept, T, n)
    BY <1>2, <2>1, KeepTop
  <2> QED BY <2>2 DEF KeepsFar
<1>3. 0 \in N
  <2> SUFFICES ASSUME NEW T \in SUBSET (0 .. 0), T # {} PROVE Has(T)
    <3> HIDE DEF Has
    <3> QED BY <1>1
  <2>1. BelowTop(T, n) = {}
    <3>1. Greatest(T) \in T /\ \A t \in T : t = 0
      BY GreatestFacts
    <3>2. Greatest(T) = 0
      BY <3>1
    <3>3. \A t \in T : ~(t < Greatest(T))
      BY <3>1, <3>2
    <3> QED BY ONLY <3>3 DEF BelowTop
  <2> HIDE DEF Has
  <2> QED BY <1>1, <1>2, <2>1
<1>4. \A i \in Nat : i \in N => i + 1 \in N
  <2> SUFFICES ASSUME NEW i \in Nat, i \in N, NEW T \in SUBSET (0 .. i + 1), T # {} PROVE Has(T)
    <3> HIDE DEF Has
    <3> QED BY <1>1
  <2>1. BelowTop(T, n) \in SUBSET (0 .. i)
    BY BelowTopFacts
  <2> HIDE DEF Has
  <2>2. Has(BelowTop(T, n))
    BY <2>1
  <2>3. i + 1 \in Nat
    OBVIOUS
  <2> QED BY <1>2, <2>2, <2>3
<1>5. Nat \subseteq N
  <2> HIDE DEF N
  <2> QED BY <1>3, <1>4, NatInduct
<1> QED BY <1>5

\* Merging keeps the bets that are far from every larger bet it keeps.
LEMMA MergeCloseKeepsFar ==
  ASSUME NEW n, NEW k \in Nat, NEW targets \in SUBSET (0 .. k), MergingPercent # 0
  PROVE  KeepsFar(MergeClose(targets, n), targets, n)
<1> DEFINE kept[S \in SUBSET targets] ==
             IF S = {} THEN {}
             ELSE LET top == Greatest(S)
                  IN  {top} \cup kept[{t \in S : t < top /\ FarApart(top, t, n)}]
           Body(g) == [S \in SUBSET targets |->
                         IF S = {} THEN {} ELSE {Greatest(S)} \cup g[BelowTop(S, n)]]
           f == [S \in SUBSET targets |-> CHOOSE G \in SUBSET S : KeepsFar(G, S, n)]
<1>1. MergeClose(targets, n) = {t \in targets : t \in kept[targets]}
  BY DEF MergeClose
<1>2. \A S \in SUBSET targets : BelowTop(S, n) \in SUBSET targets
  BY DEF BelowTop
<1>3. \A S \in SUBSET targets : KeepsFar(f[S], S, n)
  <2>1. ASSUME NEW S \in SUBSET targets PROVE \E G \in SUBSET S : KeepsFar(G, S, n)
    BY KeepsFarExists
  <2> QED BY <2>1
<1>4. f = Body(f)
  <2> SUFFICES ASSUME NEW S \in SUBSET targets
               PROVE  f[S] = IF S = {} THEN {} ELSE {Greatest(S)} \cup f[BelowTop(S, n)]
    <3> HIDE DEF KeepsFar, BelowTop
    <3> QED OBVIOUS
  <2> HIDE DEF f
  <2>1. CASE S = {}
    BY <1>3, <2>1 DEF KeepsFar
  <2>2. CASE S # {}
    <3>1. KeepsFar({Greatest(S)} \cup f[BelowTop(S, n)], S, n)
      BY <1>2, <1>3, <2>2, KeepTop
    <3> QED BY <1>3, <2>2, <3>1, KeepsFarUnique
  <2> QED BY <2>1, <2>2
<1>5. kept = CHOOSE g : g = Body(g)
  BY DEF BelowTop
<1>6. kept = Body(kept)
  <2> HIDE DEF kept, f, Body
  <2> QED BY <1>4, <1>5
<1> HIDE DEF kept, f
<1>7. \A S \in SUBSET targets :
        kept[S] = IF S = {} THEN {} ELSE {Greatest(S)} \cup kept[BelowTop(S, n)]
  BY <1>6
<1> HIDE DEF Body
<1> DEFINE N == {i \in Nat : \A S \in SUBSET (targets \cap (0 .. i)) : KeepsFar(kept[S], S, n)}
<1>8. KeepsFar(kept[{}], {}, n)
  BY <1>7 DEF KeepsFar
<1>9. ASSUME NEW S \in SUBSET targets, S # {}, KeepsFar(kept[BelowTop(S, n)], BelowTop(S, n), n)
      PROVE  KeepsFar(kept[S], S, n)
  <2>1. kept[S] = {Greatest(S)} \cup kept[BelowTop(S, n)]
    BY <1>7, <1>9
  <2> QED BY <1>9, <2>1, KeepTop
<1>10. 0 \in N
  <2> SUFFICES ASSUME NEW S \in SUBSET (targets \cap (0 .. 0)), S # {}
               PROVE  KeepsFar(kept[S], S, n)
    BY <1>8
  <2>1. BelowTop(S, n) = {}
    <3>1. S \in SUBSET (0 .. 0) /\ \A t \in S : t = 0
      OBVIOUS
    <3>2. Greatest(S) \in S
      BY <3>1, GreatestFacts
    <3>3. Greatest(S) = 0
      BY <3>1, <3>2
    <3>4. \A t \in S : ~(t < Greatest(S))
      BY <3>1, <3>3
    <3> QED BY ONLY <3>4 DEF BelowTop
  <2> QED BY <1>8, <1>9, <2>1
<1>11. \A i \in Nat : i \in N => i + 1 \in N
  <2> SUFFICES ASSUME NEW i \in Nat, i \in N, NEW S \in SUBSET (targets \cap (0 .. i + 1)), S # {}
               PROVE  KeepsFar(kept[S], S, n)
    BY <1>8
  <2>1. BelowTop(S, n) \in SUBSET (targets \cap (0 .. i))
    <3>1. S \in SUBSET (0 .. i + 1)
      OBVIOUS
    <3> QED BY <3>1, BelowTopFacts
  <2> QED BY <1>9, <2>1
<1>12. Nat \subseteq N
  <2> HIDE DEF N
  <2> QED BY <1>10, <1>11, NatInduct
<1>13. KeepsFar(kept[targets], targets, n)
  BY <1>12
<1>14. MergeClose(targets, n) = kept[targets]
  BY <1>1, <1>13 DEF KeepsFar
<1> QED BY <1>13, <1>14

(***************************************************************************)
(* The walk keeps the invariant                                            *)
(***************************************************************************)

\* The root passes SubgameSetup's checks and comes from a game.
LEMMA RootFacts ==
  ASSUME NEW r \in Roots PROVE SetupAccepts(r) /\ FromAGame(r)
BY RootsAssumption

\* The root of the tree satisfies the inductive invariant.
LEMMA InitIInv == Init => IInv
<1> SUFFICES ASSUME Init PROVE IInv OBVIOUS
<1>1. SetupAccepts(root) /\ FromAGame(root) BY RootFacts DEF Init
<1>2. TypeOK
  BY <1>1 DEF Init, RootNode, TypeOK, SetupAccepts, Player, ChancePlayer, TerminalPlayer
<1>3. ChipsConserved
  BY <1>1 DEF Init, RootNode, ChipsConserved, SetupAccepts
<1>4. BetsClosed /\ CanAnswer /\ Unfolded /\ StreetLeft /\ EvenPast
  BY <1>1 DEF Init, Unfolded, RootNode, BetsClosed, CanAnswer, StreetLeft, EvenPast, PaidBefore,
     NeedsCall, OwnBet, OpponentBet, Opponent, SetupAccepts, FromAGame, Player,
     ChancePlayer
<1> QED BY <1>2, <1>3, <1>4 DEF IInv


\* What a node of the tree is, written out for the steps below.
LEMMA NodeFacts ==
  ASSUME IInv
  PROVE  /\ node \in NodeType /\ Cardinality(node.board) \in 3 .. 5 /\ root \in Roots
         /\ root.pot \in Int /\ root.stacks \in [Player -> Nat] /\ root.bet \in [Player -> Nat]
         /\ root.betTotal \in [Player -> Nat]
BY RootFacts DEF IInv, TypeOK, NodeType, SetupAccepts

\* A player's action leaves the street's board and pot alone and makes what is
\* put in its chips: the amounts after the actor paid up to target.
LEMMA PaidFacts ==
  ASSUME NEW n \in NodeType, n.actor \in Player, NEW target \in Nat,
         target >= OwnBet(n), target <= AllInTarget(n)
  PROVE  /\ Paid(n, target) \in NodeType
         /\ Paid(n, target).board = n.board /\ Paid(n, target).pot = n.pot
         /\ Paid(n, target).folded = n.folded /\ Paid(n, target).actor = n.actor
         /\ Paid(n, target).status = n.status /\ Paid(n, target).raises = n.raises
         /\ Paid(n, target).stacks[n.actor] = n.stacks[n.actor] + n.bet[n.actor] - target
         /\ Paid(n, target).bet[n.actor] = target
         /\ Paid(n, target).betTotal[n.actor]
              = n.betTotal[n.actor] + target - n.bet[n.actor]
         /\ Paid(n, target).stacks[1 - n.actor] = n.stacks[1 - n.actor]
         /\ Paid(n, target).bet[1 - n.actor] = n.bet[1 - n.actor]
         /\ Paid(n, target).betTotal[1 - n.actor] = n.betTotal[1 - n.actor]
<1> DEFINE a == n.actor
           o == 1 - n.actor
           m == Paid(n, target)
<1>1. /\ a \in Player /\ o \in Player /\ a # o
      /\ n.stacks \in [Player -> Nat] /\ n.bet \in [Player -> Nat]
      /\ n.betTotal \in [Player -> Nat]
  BY DEF NodeType, Player
<1>2. target - n.bet[a] \in Nat /\ n.stacks[a] - (target - n.bet[a]) \in Nat
  BY <1>1 DEF OwnBet, AllInTarget
<1>3. m = [n EXCEPT !.stacks = [n.stacks EXCEPT ![a] = @ - (target - n.bet[a])],
                    !.bet = [n.bet EXCEPT ![a] = target],
                    !.betTotal = [n.betTotal EXCEPT ![a] = @ + (target - n.bet[a])]]
  BY DEF Paid, NodeType
<1>4. /\ m.stacks = [n.stacks EXCEPT ![a] = @ - (target - n.bet[a])]
      /\ m.bet = [n.bet EXCEPT ![a] = target]
      /\ m.betTotal = [n.betTotal EXCEPT ![a] = @ + (target - n.bet[a])]
  BY <1>3 DEF NodeType
<1>5. m.stacks \in [Player -> Nat] /\ m.bet \in [Player -> Nat] /\ m.betTotal \in [Player -> Nat]
  BY <1>1, <1>2, <1>4
<1>6. m = [n EXCEPT !.stacks = m.stacks, !.bet = m.bet, !.betTotal = m.betTotal]
  BY <1>3, <1>4
<1>7. /\ m \in NodeType /\ m.board = n.board /\ m.pot = n.pot /\ m.folded = n.folded
      /\ m.actor = n.actor /\ m.status = n.status /\ m.raises = n.raises
  <2> HIDE DEF m
  <2> QED BY <1>5, <1>6 DEF NodeType
<1>8. m.stacks[a] = n.stacks[a] + n.bet[a] - target /\ m.bet[a] = target
      /\ m.betTotal[a] = n.betTotal[a] + target - n.bet[a]
  BY <1>1, <1>2, <1>4
<1>9. m.stacks[o] = n.stacks[o] /\ m.bet[o] = n.bet[o] /\ m.betTotal[o] = n.betTotal[o]
  BY <1>1, <1>4
<1> QED BY <1>7, <1>8, <1>9

\* What a player's action starts from: a live node, whose amounts fit together.
LEMMA ActorFacts ==
  ASSUME IInv, NEW action, Commits(action)
  PROVE  /\ node \in NodeType /\ Cardinality(node.board) \in 3 .. 5
         /\ node.actor \in Player /\ 1 - node.actor \in Player /\ node.status = "live"
         /\ root' = root /\ action \in Resolve(node)
         /\ node.bet[node.actor] <= node.bet[1 - node.actor]
         /\ \A p \in Player : ~node.folded[p]
BY NodeFacts DEF Commits, IInv, TypeOK, BetsClosed, Unfolded, OwnBet, OpponentBet, Opponent,
   Player, TerminalPlayer

\* The books stay balanced when what leaves a stack goes into that player's bet.
LEMMA ChipsFollow ==
  ASSUME IInv, root' = root, node' \in NodeType, node'.pot = node.pot,
         \A p \in Player : node'.stacks[p] + node'.bet[p] = node.stacks[p] + node.bet[p],
         \A p \in Player :
           node'.stacks[p] + node'.betTotal[p] = node.stacks[p] + node.betTotal[p]
  PROVE  ChipsConserved' /\ EvenPast'
<1>1. /\ node \in NodeType
      /\ root.pot \in Int /\ root.stacks \in [Player -> Nat] /\ root.bet \in [Player -> Nat]
      /\ 0 \in Player /\ 1 \in Player
  BY NodeFacts DEF Player
<1>2. ChipsConserved'
  <2>1. \A p \in Player :
          /\ node.stacks[p] \in Int /\ node.bet[p] \in Int /\ node'.stacks[p] \in Int
          /\ node'.bet[p] \in Int
    BY <1>1 DEF NodeType
  <2>2. node.pot \in Int BY <1>1 DEF NodeType
  <2>3. node'.pot + node'.bet[0] + node'.bet[1] + node'.stacks[0] + node'.stacks[1]
          = node.pot + node.bet[0] + node.bet[1] + node.stacks[0] + node.stacks[1]
    <3>1. /\ node'.stacks[0] + node'.bet[0] = node.stacks[0] + node.bet[0]
          /\ node'.stacks[1] + node'.bet[1] = node.stacks[1] + node.bet[1]
      BY <1>1
    <3>2. /\ node.stacks[0] \in Int /\ node.bet[0] \in Int
          /\ node.stacks[1] \in Int /\ node.bet[1] \in Int
          /\ node'.stacks[0] \in Int /\ node'.bet[0] \in Int
          /\ node'.stacks[1] \in Int /\ node'.bet[1] \in Int
      BY <1>1, <2>1
    <3> QED BY ONLY <2>2, <3>1, <3>2, node'.pot = node.pot
  <2> QED BY <2>3 DEF IInv, ChipsConserved
<1>3. \A p \in Player : PaidBefore(p)' = PaidBefore(p)
  BY <1>1 DEF PaidBefore, NodeType
<1>4. EvenPast'
  BY <1>1, <1>3 DEF IInv, EvenPast
<1> QED BY <1>2, <1>4

\* A fold changes no amount.
LEMMA FoldIInv == ASSUME IInv, CommitFold PROVE IInv'
<1>1. /\ node \in NodeType /\ Cardinality(node.board) \in 3 .. 5 /\ node.actor \in Player
      /\ root' = root /\ Fold \in Resolve(node) /\ 1 - node.actor \in Player
      /\ \A p \in Player : ~node.folded[p]
  BY ActorFacts DEF CommitFold
<1>2. node.bet[node.actor] < node.bet[1 - node.actor]
  <2>1. NeedsCall(node) BY <1>1 DEF Resolve, Fold, Check, Bet, Call, Chance, Player, ChancePlayer
  <2> QED BY <2>1, <1>1 DEF NeedsCall, OwnBet, OpponentBet, Opponent, NodeType
<1>3. /\ node'.board = node.board /\ node'.pot = node.pot /\ node'.stacks = node.stacks
      /\ node'.bet = node.bet /\ node'.betTotal = node.betTotal
      /\ node'.actor = TerminalPlayer /\ node'.status = "fold" /\ node' \in NodeType
      /\ node'.folded = [node.folded EXCEPT ![node.actor] = TRUE]
  BY <1>1 DEF CommitFold, NodeType
<1>4. node'.folded[node.actor] /\ ~node'.folded[1 - node.actor]
  BY <1>1, <1>3 DEF NodeType, Player
<1>5. TypeOK'
  BY <1>1, <1>3, <1>4 DEF IInv, TypeOK, NodeType, TerminalPlayer, Player
<1>6. BetsClosed'
  BY <1>1, <1>2, <1>3, <1>4 DEF BetsClosed, TerminalPlayer, Player, ChancePlayer, NodeType
<1> QED
  BY <1>1, <1>3, <1>5, <1>6 DEF IInv, ChipsConserved, CanAnswer, Unfolded, StreetLeft,
     EvenPast, PaidBefore, TerminalPlayer, ChancePlayer, Player

\* A check is made over equal bets, which stay.
LEMMA CheckIInv == ASSUME IInv, CommitCheck PROVE IInv'
<1>1. /\ node \in NodeType /\ Cardinality(node.board) \in 3 .. 5 /\ node.actor \in Player
      /\ root' = root /\ Check \in Resolve(node) /\ node.status = "live"
      /\ node.bet[node.actor] <= node.bet[1 - node.actor]
      /\ \A p \in Player : ~node.folded[p]
  BY ActorFacts DEF CommitCheck
<1>2. node.bet[0] = node.bet[1]
  <2>1. ~NeedsCall(node) BY <1>1 DEF Resolve, Fold, Check, Bet, Call, Chance, Player, ChancePlayer
  <2> QED BY <2>1, <1>1 DEF NeedsCall, OwnBet, OpponentBet, Opponent, NodeType, Player
<1>3. /\ node'.board = node.board /\ node'.pot = node.pot /\ node'.stacks = node.stacks
      /\ node'.bet = node.bet /\ node'.betTotal = node.betTotal
      /\ node'.folded = node.folded /\ node' \in NodeType
      /\ \/ node'.status = "live" /\ node'.actor = 1
         \/ node'.status = "showdown" /\ node'.actor = TerminalPlayer /\ IsRiver
         \/ node'.status = "live" /\ node'.actor = ChancePlayer /\ ~IsRiver
  BY <1>1 DEF CommitCheck, NodeType, ToShowdown, ToChance, Player
<1>4. TypeOK'
  BY <1>1, <1>3 DEF IInv, TypeOK, NodeType, TerminalPlayer, ChancePlayer, Player
<1>5. BetsClosed' /\ CanAnswer' /\ Unfolded' /\ StreetLeft'
  BY <1>1, <1>2, <1>3 DEF BetsClosed, CanAnswer, Unfolded, StreetLeft, NeedsCall, OwnBet,
     OpponentBet, Opponent, IsRiver, TerminalPlayer, ChancePlayer, Player, NodeType
<1> QED
  BY <1>1, <1>3, <1>4, <1>5 DEF IInv, ChipsConserved, EvenPast, PaidBefore

\* A call pays what is missing, or all the caller has.
LEMMA CallIInv == ASSUME IInv, CommitCall PROVE IInv'
<1> DEFINE a == node.actor
           o == 1 - node.actor
           m == Paid(node, CallTarget(node))
<1>1. /\ node \in NodeType /\ Cardinality(node.board) \in 3 .. 5 /\ a \in Player
      /\ o \in Player /\ o # a
      /\ root' = root /\ Call \in Resolve(node) /\ node.status = "live"
      /\ node.bet[a] <= node.bet[o]
      /\ \A p \in Player : ~node.folded[p]
  BY ActorFacts DEF CommitCall, Player
<1>2. /\ CallTarget(node) \in Nat /\ CallTarget(node) >= node.bet[a]
      /\ CallTarget(node) <= node.bet[a] + node.stacks[a] /\ CallTarget(node) <= node.bet[o]
      /\ \/ CallTarget(node) = node.bet[o]
         \/ CallTarget(node) = node.bet[a] + node.stacks[a]
  BY <1>1 DEF CallTarget, Least, OwnBet, OpponentBet, Opponent, NodeType
<1>3. /\ m \in NodeType
      /\ m.board = node.board /\ m.pot = node.pot /\ m.folded = node.folded
      /\ m.actor = node.actor /\ m.status = node.status
      /\ m.stacks[a] = node.stacks[a] + node.bet[a] - CallTarget(node)
      /\ m.bet[a] = CallTarget(node)
      /\ m.betTotal[a] = node.betTotal[a] + CallTarget(node) - node.bet[a]
      /\ m.stacks[o] = node.stacks[o] /\ m.bet[o] = node.bet[o]
      /\ m.betTotal[o] = node.betTotal[o]
  <2>1. CallTarget(node) >= OwnBet(node) /\ CallTarget(node) <= AllInTarget(node)
    BY <1>2 DEF OwnBet, AllInTarget
  <2> QED BY <1>1, <1>2, <2>1, PaidFacts
<1>4. /\ node'.board = node.board /\ node'.pot = node.pot /\ node'.folded = node.folded
      /\ node'.stacks = m.stacks /\ node'.bet = m.bet /\ node'.betTotal = m.betTotal
      /\ node' \in NodeType
      /\ \/ /\ node'.status = "showdown" /\ node'.actor = TerminalPlayer
            /\ IsRiver \/ m.stacks[0] = 0 \/ m.stacks[1] = 0
         \/ /\ node'.status = "live" /\ node'.actor = ChancePlayer
            /\ ~IsRiver /\ m.stacks[0] # 0 /\ m.stacks[1] # 0
  <2> HIDE DEF m
  <2>1. node' = IF m.stacks[0] = 0 \/ m.stacks[1] = 0 \/ IsRiver
                THEN ToShowdown(m) ELSE ToChance(m)
    BY DEF CommitCall, m
  <2> QED BY <1>1, <1>3, <2>1 DEF ToShowdown, ToChance, NodeType
<1> HIDE DEF m
<1>5. TypeOK'
  <2>1. \A p \in Player : m.bet[p] <= m.betTotal[p]
    BY <1>1, <1>2, <1>3 DEF IInv, TypeOK, NodeType, Player
  <2> QED BY <1>1, <1>4, <2>1 DEF IInv, TypeOK, NodeType, TerminalPlayer, ChancePlayer, Player
<1>6. BetsClosed'
  BY <1>1, <1>2, <1>3, <1>4 DEF BetsClosed, IsRiver, TerminalPlayer, ChancePlayer, Player, NodeType
<1>7. CanAnswer' /\ Unfolded' /\ StreetLeft'
  BY <1>1, <1>4 DEF CanAnswer, Unfolded, StreetLeft, IsRiver, TerminalPlayer, ChancePlayer, Player
<1>8. ChipsConserved' /\ EvenPast'
  <2>1. /\ node'.pot = node.pot
        /\ \A p \in Player : node'.stacks[p] + node'.bet[p] = node.stacks[p] + node.bet[p]
        /\ \A p \in Player :
             node'.stacks[p] + node'.betTotal[p] = node.stacks[p] + node.betTotal[p]
    BY <1>1, <1>2, <1>3, <1>4 DEF NodeType, Player
  <2> QED BY <1>1, <1>4, <2>1, ChipsFollow
<1> QED BY <1>5, <1>6, <1>7, <1>8 DEF IInv

\* A bet is one of the offered ones, and leaves the opponent chips to answer.
LEMMA BetIInv == ASSUME IInv, NEW target, CommitBet(target) PROVE IInv'
<1> DEFINE a == node.actor
           o == 1 - node.actor
           m == Paid(node, target)
<1>1. /\ node \in NodeType /\ Cardinality(node.board) \in 3 .. 5 /\ a \in Player
      /\ o \in Player /\ o # a
      /\ root' = root /\ Bet(target) \in Resolve(node) /\ node.status = "live"
      /\ node.bet[a] <= node.bet[o]
      /\ \A p \in Player : ~node.folded[p]
  BY ActorFacts DEF CommitBet, Player
<1>2. target \in OfferedBets(node)
  BY <1>1 DEF Resolve, Fold, Check, Bet, Call, Chance, Player, ChancePlayer
<1>3. /\ target \in Nat /\ target > node.bet[a] /\ target > node.bet[o]
      /\ target <= node.bet[a] + node.stacks[a] /\ node.stacks[o] > 0
  BY <1>1, <1>2, OfferedBetBounds
     DEF OwnBet, OpponentBet, Opponent, AllInTarget, MustExceed, NeedsCall, Player, NodeType
<1>4. /\ m \in NodeType
      /\ m.board = node.board /\ m.pot = node.pot /\ m.folded = node.folded
      /\ m.actor = node.actor /\ m.status = node.status /\ m.raises = node.raises
      /\ m.stacks[a] = node.stacks[a] + node.bet[a] - target
      /\ m.bet[a] = target
      /\ m.betTotal[a] = node.betTotal[a] + target - node.bet[a]
      /\ m.stacks[o] = node.stacks[o] /\ m.bet[o] = node.bet[o]
      /\ m.betTotal[o] = node.betTotal[o]
  <2>1. target >= OwnBet(node) /\ target <= AllInTarget(node)
    BY <1>1, <1>3 DEF OwnBet, AllInTarget, NodeType
  <2> QED BY <1>1, <1>3, <2>1, PaidFacts
<1>5. /\ node'.board = node.board /\ node'.pot = node.pot /\ node'.folded = node.folded
      /\ node'.stacks = m.stacks /\ node'.bet = m.bet /\ node'.betTotal = m.betTotal
      /\ node' \in NodeType
      /\ node'.status = "live" /\ node'.actor = o
  <2> HIDE DEF m
  <2>1. node' = [m EXCEPT !.actor = 1 - m.actor, !.lastAggressor = node.actor,
                          !.raises = m.raises + 1]
    BY DEF CommitBet, m
  <2>2. m.raises + 1 \in Nat /\ 1 - m.actor \in Player /\ node.actor \in Player
    BY <1>1, <1>4 DEF NodeType
  <2>3. node' \in NodeType
    BY <1>4, <2>1, <2>2 DEF NodeType
  <2> QED BY <1>1, <1>4, <2>1, <2>3 DEF NodeType
<1> HIDE DEF m
<1>6. TypeOK'
  <2>1. \A p \in Player : m.bet[p] <= m.betTotal[p]
    BY <1>1, <1>3, <1>4 DEF IInv, TypeOK, NodeType, Player
  <2> QED BY <1>1, <1>5, <2>1 DEF IInv, TypeOK, NodeType, TerminalPlayer, ChancePlayer, Player
<1>7. BetsClosed' /\ CanAnswer' /\ Unfolded' /\ StreetLeft'
  BY <1>1, <1>3, <1>4, <1>5 DEF BetsClosed, CanAnswer, Unfolded, StreetLeft, OwnBet,
     OpponentBet, Opponent, ChancePlayer, Player, NodeType
<1>8. ChipsConserved' /\ EvenPast'
  <2>1. /\ node'.pot = node.pot
        /\ \A p \in Player : node'.stacks[p] + node'.bet[p] = node.stacks[p] + node.bet[p]
        /\ \A p \in Player :
             node'.stacks[p] + node'.betTotal[p] = node.stacks[p] + node.betTotal[p]
    BY <1>1, <1>3, <1>4, <1>5 DEF NodeType, Player
  <2> QED BY <1>1, <1>5, <2>1, ChipsFollow
<1> QED BY <1>6, <1>7, <1>8 DEF IInv

\* A card moves the equal bets into the pot.
LEMMA ChanceIInv == ASSUME IInv, NEW card \in Deck, CommitChance(card) PROVE IInv'
<1>1. /\ node \in NodeType /\ Cardinality(node.board) \in 3 .. 5 /\ root' = root
      /\ node.actor = ChancePlayer /\ node.status = "live" /\ node.bet[0] = node.bet[1]
      /\ \A p \in Player : ~node.folded[p]
  BY NodeFacts DEF CommitChance, IInv, BetsClosed, Unfolded
<1>2. /\ node'.board = node.board \cup {card}
      /\ node'.pot = node.pot + node.bet[0] + node.bet[1]
      /\ node'.stacks = node.stacks /\ node'.betTotal = node.betTotal
      /\ node'.bet = [p \in Player |-> 0] /\ node'.actor = 0 /\ node'.status = "live"
      /\ node'.folded = node.folded /\ node' \in NodeType
  <2>1. node.pot + node.bet[0] + node.bet[1] \in Nat BY <1>1 DEF NodeType, Player
  <2> QED BY <1>1, <2>1 DEF CommitChance, NodeType, Player
<1>3. Cardinality(node.board \cup {card}) \in 3 .. 5
  <2>1. IsFiniteSet(node.board) BY <1>1, DeckAssumption, FS_Subset DEF NodeType
  <2>2. card \notin node.board /\ Cardinality(node.board) # 5 BY DEF CommitChance, IsRiver
  <2>3. Cardinality(node.board \cup {card}) = Cardinality(node.board) + 1
    BY <2>1, <2>2, FS_AddElement
  <2> QED BY <1>1, <2>2, <2>3
<1>4. TypeOK'
  BY <1>1, <1>2, <1>3 DEF IInv, TypeOK, NodeType, TerminalPlayer, Player
<1>5. BetsClosed' /\ CanAnswer' /\ Unfolded' /\ StreetLeft'
  BY <1>1, <1>2 DEF BetsClosed, CanAnswer, Unfolded, StreetLeft, NeedsCall, OwnBet,
     OpponentBet, Opponent, ChancePlayer, Player, NodeType
<1>6. ChipsConserved'
  BY <1>1, <1>2 DEF IInv, ChipsConserved, NodeType, Player
<1>7. EvenPast'
  <2>1. \A p \in Player : PaidBefore(p)' = PaidBefore(p) + node.bet[0]
    BY <1>1, <1>2, NodeFacts DEF PaidBefore, NodeType, Player
  <2>2. \A p \in Player : PaidBefore(p) \in Int
    BY <1>1, NodeFacts DEF PaidBefore, NodeType
  <2>3. node.pot \in Int /\ node.bet[0] \in Int /\ root.pot \in Int
    BY <1>1, NodeFacts DEF NodeType, Player
  <2> QED BY <1>1, <1>2, <2>1, <2>2, <2>3 DEF IInv, EvenPast, Player
<1> QED BY <1>4, <1>5, <1>6, <1>7 DEF IInv

\* The inductive invariant holds of every node of the tree.
THEOREM SpecIInv == Spec => []IInv
<1>1. IInv /\ [Next]_vars => IInv'
  <2> SUFFICES ASSUME IInv, [Next]_vars PROVE IInv' OBVIOUS
  <2>1. CASE CommitFold BY <2>1, FoldIInv
  <2>2. CASE CommitCheck BY <2>2, CheckIInv
  <2>3. CASE CommitCall BY <2>3, CallIInv
  <2>4. ASSUME NEW target \in OfferedBets(node), CommitBet(target) PROVE IInv'
    BY <2>4, BetIInv
  <2>5. ASSUME NEW card \in Deck, CommitChance(card) PROVE IInv'
    BY <2>5, ChanceIInv
  <2>6. CASE UNCHANGED vars
    BY <2>6 DEF vars, IInv, TypeOK, ChipsConserved, BetsClosed, CanAnswer, Unfolded,
       StreetLeft, EvenPast, PaidBefore, IsRiver
  <2> QED BY <2>1, <2>2, <2>3, <2>4, <2>5, <2>6 DEF Next, Leaf
<1> QED BY InitIInv, <1>1, PTL DEF Spec

\* NodeState's constructor accepts every node of every tree.
THEOREM SpecTypeOK == Spec => []TypeOK
BY SpecIInv, PTL DEF IInv

\* No chip appears or vanishes, whatever the sizes and stacks.
THEOREM SpecChipsConserved == Spec => []ChipsConserved
BY SpecIInv, PTL DEF IInv

\* Bets are closed whenever a card is dealt or hands are shown.
THEOREM SpecBetsClosed == Spec => []BetsClosed
BY SpecIInv, PTL DEF IInv

\* Every bet the resolver offers is one CommitAction takes.
THEOREM SpecOfferedBetsLegal == Spec => []OfferedBetsLegal
<1>1. IInv => OfferedBetsLegal
  <2> SUFFICES ASSUME IInv, node.actor \in Player, NEW target \in OfferedBets(node)
               PROVE  /\ target > OwnBet(node) /\ target > OpponentBet(node)
                      /\ target <= OwnBet(node) + node.stacks[node.actor]
                      /\ target = AllInTarget(node)
                           \/ target >= MinRaiseSize
                                + (IF NeedsCall(node) THEN OpponentBet(node) ELSE 0)
                      /\ node.stacks[1 - node.actor] > 0
    BY DEF OfferedBetsLegal
  <2>1. node \in NodeType /\ Cardinality(node.board) \in 3 .. 5 BY NodeFacts
  <2>2. OwnBet(node) <= OpponentBet(node) BY DEF IInv, BetsClosed
  <2>3. MinRaiseSize \in Nat BY BetSizesAssumption
  <2> QED BY <2>1, <2>2, <2>3, OfferedBetBounds
          DEF MustExceed, AllInTarget, MinNonAllInTarget, NeedsCall, OwnBet, OpponentBet,
              Opponent, NodeType, Player
<1> QED BY SpecIInv, <1>1, PTL

\* At every node of every tree, the bets merging keeps are pairwise further apart
\* than the threshold, and a bet it drops is close to a larger one it keeps.
THEOREM SpecMergingKeepsSpread == Spec => []MergingKeepsSpread
<1>1. IInv => MergingKeepsSpread
  <2> SUFFICES ASSUME IInv, node.actor \in Player, MergingPercent > 0
               PROVE  LET all  == BetTargets(node)
                          kept == OfferedBets(node)
                      IN  /\ \A s, t \in kept : s < t => FarApart(t, s, node)
                          /\ \A t \in all : \E s \in kept :
                               s >= t /\ (t \in kept \/ ~FarApart(s, t, node))
    BY DEF MergingKeepsSpread
  <2> DEFINE all == BetTargets(node)
             kept == OfferedBets(node)
             k == AllInTarget(node)
  <2>1. /\ node \in NodeType /\ Cardinality(node.board) \in 3 .. 5 BY NodeFacts
  <2>2. k \in Nat
    BY <2>1 DEF AllInTarget, OwnBet, NodeType
  <2>3. all \in SUBSET (0 .. k)
    <3>1. \A t \in all : t \in Nat /\ t <= k
      BY <2>1, BetTargetBounds
    <3> QED BY <2>2, <3>1
  <2>4. KeepsFar(kept, all, node)
    <3>1. MergingPercent # 0
      OBVIOUS
    <3> HIDE DEF all, k
    <3> QED BY <2>2, <2>3, <3>1, MergeCloseKeepsFar DEF OfferedBets, all
  <2> HIDE DEF all, kept
  <2>5. all \subseteq Int
    BY <2>3
  <2>6. \A s, t \in kept : s < t => FarApart(t, s, node)
    BY <2>4, <2>5 DEF KeepsFar
  <2>7. ASSUME NEW t \in all
        PROVE  \E s \in kept : s >= t /\ (t \in kept \/ ~FarApart(s, t, node))
    <3>1. CASE t \in kept
      BY <2>5, <3>1
    <3>2. CASE t \notin kept
      <4>1. PICK s \in kept : s > t /\ ~FarApart(s, t, node)
        BY <2>4, <3>2 DEF KeepsFar
      <4>2. s \in Int /\ t \in Int
        BY <2>4, <2>5 DEF KeepsFar
      <4> QED BY <4>1, <4>2
    <3> QED BY <3>1, <3>2
  <2> QED BY <2>6, <2>7 DEF all, kept
<1> QED BY SpecIInv, <1>1, PTL

\* Every live node has a child: an action to take, or a street to deal.
THEOREM SpecNeverStuck == Spec => []NeverStuck
<1>1. IInv => NeverStuck
  BY DEF IInv, NeverStuck, CanAnswer, StreetLeft, TypeOK, Resolve, IsRiver, Player,
     ChancePlayer, TerminalPlayer
<1> QED BY SpecIInv, <1>1, PTL

\* The payoffs of a terminal node are what the players won and lost on the walk,
\* the chop at showdowns.
THEOREM SpecPayoffsSettle == Spec => []PayoffsSettle
<1>1. IInv => PayoffsSettle
  <2> SUFFICES ASSUME IInv, NEW p \in Player
               PROVE  LET before == 200 * (root.stacks[p] + root.bet[p]) + 100 * root.pot
                      IN  /\ Win(node)  = Wealth(p, 200 * ContestedPot(node) - 2 * Rake(node)) - before
                          /\ Lose(node) = Wealth(p, 0) - before
                          /\ node.status = "showdown" =>
                               Chop(node) = Wealth(p, 100 * ContestedPot(node) - Rake(node)) - before
    BY DEF PayoffsSettle
  <2> DEFINE least == Least(node.bet[0], node.bet[1])
  <2>1. /\ node.stacks[p] \in Int /\ node.bet[p] \in Int /\ root.stacks[p] \in Int
        /\ root.bet[p] \in Int /\ node.pot \in Int /\ root.pot \in Int
        /\ node.bet[0] \in Int /\ node.bet[1] \in Int
    BY NodeFacts DEF NodeType, Player
  <2>2. least \in Int BY <2>1 DEF Least
  <2>3. ContestedPot(node) = node.pot + 2 * least BY DEF ContestedPot
  <2>4. Rake(node) \in Int
    <3>1. ContestedPot(node) \in Int BY <2>1, <2>2, <2>3
    <3>2. ContestedPot(node) * RakePercent \in Int /\ 100 * RakeCap \in Int
      BY <3>1, RakeAssumption
    <3> QED BY <3>2 DEF Rake, Least
  <2>5. node.pot = root.pot + 2 * (root.stacks[p] + root.bet[p] - node.stacks[p] - node.bet[p])
    <3>1. p = 0 \/ p = 1 BY DEF Player
    <3> QED BY <3>1 DEF IInv, EvenPast, PaidBefore
  <2> DEFINE before == 200 * (root.stacks[p] + root.bet[p]) + 100 * root.pot
             kept   == 200 * (node.stacks[p] + node.bet[p] - least)
  <2>6. kept \in Int /\ before \in Int /\ ContestedPot(node) \in Int
    BY <2>1, <2>2, <2>3
  <2>7. kept - before = 0 - 100 * ContestedPot(node)
    <3> HIDE DEF least
    <3> QED BY <2>1, <2>2, <2>3, <2>5
  <2>8. /\ Wealth(p, 200 * ContestedPot(node) - 2 * Rake(node))
             = kept + (200 * ContestedPot(node) - 2 * Rake(node))
        /\ Wealth(p, 0) = kept + 0
        /\ Wealth(p, 100 * ContestedPot(node) - Rake(node))
             = kept + (100 * ContestedPot(node) - Rake(node))
    BY DEF Wealth
  <2> HIDE DEF kept, before
  <2>9. /\ Win(node)  = Wealth(p, 200 * ContestedPot(node) - 2 * Rake(node)) - before
        /\ Lose(node) = Wealth(p, 0) - before
        /\ node.status = "showdown" =>
             Chop(node) = Wealth(p, 100 * ContestedPot(node) - Rake(node)) - before
    BY <2>4, <2>6, <2>7, <2>8 DEF Win, Lose, Chop
  <2> QED BY <2>9 DEF before
<1> QED BY SpecIInv, <1>1, PTL
==============================================================================

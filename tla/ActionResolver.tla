--------------------------- MODULE ActionResolver ----------------------------
(***************************************************************************)
(* The actions offered at a node of the betting tree                       *)
(* (src/csrc/src/game/poker/action_resolver.cc), as operators of a node    *)
(* record n with the fields of NodeState: board, pot, stacks, betTotal,    *)
(* bet (bet_current_round), actor, lastAggressor, raises, folded, status.  *)
(*                                                                         *)
(* Amounts are whole chips (the code's milli-bb); ratios are percentages   *)
(* and comparisons are exact, where the code computes in float.            *)
(***************************************************************************)
EXTENDS Integers, FiniteSets, Sequences

CONSTANTS
  RoundBets,          \* [street -> sequence, by raise count, of sets of abstracted bets]
  DonkBets,           \* [street -> set of abstracted bets]
  BetRounding,        \* bets are multiples of this many chips
  MinRaiseSize,
  BetToAllInPercent,  \* a bet of at least this much of the all-in becomes the all-in
  AddAllInPercent,    \* the all-in is offered below this stack-to-pot ratio
  MergingPercent      \* merge bets whose pots differ by at most this; 0 is off

Player        == {0, 1}
ChancePlayer  == -1
TerminalPlayer == -2

\* An abstracted bet: amount is a percentage for "percent" and "multiplier",
\* chips for "bb", streets for "geometric", whose cap is a percentage.
NoCap == -1
AbstractedBet == [type : {"percent", "bb", "multiplier", "geometric", "allin"},
                  amount : Nat, cap : Nat \cup {NoCap}]

ASSUME BetSizesAssumption ==
  /\ RoundBets \in [3 .. 5 -> Seq(SUBSET AbstractedBet) \ {<<>>}]
  /\ DonkBets \in [3 .. 5 -> SUBSET AbstractedBet]
  /\ BetRounding \in Nat \ {0} /\ MinRaiseSize \in Nat \ {0}
  /\ BetToAllInPercent \in Nat /\ AddAllInPercent \in Nat /\ MergingPercent \in Nat

Least(a, b)    == IF a < b THEN a ELSE b
Greatest(S)    == CHOOSE x \in S : \A y \in S : y <= x

Opponent(n)    == 1 - n.actor
OwnBet(n)      == n.bet[n.actor]
OpponentBet(n) == n.bet[Opponent(n)]
NeedsCall(n)   == OpponentBet(n) > OwnBet(n)
AllInTarget(n) == OwnBet(n) + n.stacks[n.actor]
\* A bet must exceed this: the opponent's bet, or the actor's own.
MustExceed(n)  == IF NeedsCall(n) THEN OpponentBet(n) ELSE OwnBet(n)
MinNonAllInTarget(n) ==
  IF NeedsCall(n) THEN OpponentBet(n) + MinRaiseSize ELSE MinRaiseSize

Street(n) == Cardinality(n.board)          \* 3 flop, 4 turn, 5 river
RemainingStreets(n) == 6 - Street(n)

PotAfterCall(n) ==
  n.pot + n.bet[0] + n.bet[1] + (IF NeedsCall(n) THEN OpponentBet(n) - OwnBet(n) ELSE 0)

ShouldUseDonkBets(n) == n.raises = 0 /\ n.actor = 0 /\ n.lastAggressor # n.actor

\* The last configured raise level serves every later raise.
AbstractedBetsForState(n) ==
  LET levels == RoundBets[Street(n)]
  IN  IF ShouldUseDonkBets(n) THEN DonkBets[Street(n)]
      ELSE levels[Least(n.raises + 1, Len(levels))]

\* RoundTo(hundredths / 100, BetRounding), halves away from zero.
RoundTo(hundredths) ==
  ((2 * hundredths + 100 * BetRounding) \div (200 * BetRounding)) * BetRounding

(***************************************************************************)
(* The geometric size bets the same fraction of the pot on each of k       *)
(* streets so that the last one is the all-in: with P the pot after a call *)
(* and S the stack left, the increment x solves (P + 2x)^k = P^(k-1) *     *)
(* (P + 2S).  The multiple m of BetRounding nearest to it is the one with  *)
(* the solution between m - BetRounding/2 and m + BetRounding/2.           *)
(***************************************************************************)
GeometricStreets(a, n) ==
  LET k == IF a.amount = 0 THEN RemainingStreets(n) ELSE a.amount
  IN  IF ~NeedsCall(n) THEN k ELSE IF k >= n.raises THEN k - n.raises + 1 ELSE 1

GeometricTargets(a, n) ==
  LET P == PotAfterCall(n)
      S == AllInTarget(n) - MustExceed(n)
      k == GeometricStreets(a, n)
      Reached(m) == LET twice == 2 * (m - MustExceed(n)) - BetRounding
                    IN  twice <= 0 \/ (P + twice) ^ k <= P ^ (k - 1) * (P + 2 * S)
      nearest == {m \in 0 .. AllInTarget(n) + BetRounding :
                    m % BetRounding = 0 /\ Reached(m) /\ ~Reached(m + BetRounding)}
  IN  IF P <= 0 \/ S <= 0 THEN {}
      ELSE IF a.cap = NoCap THEN nearest
      ELSE {Least(m, RoundTo(100 * MustExceed(n) + P * a.cap)) : m \in nearest}

\* The rounded target of an abstracted bet; none where it does not apply.
Targets(a, n) ==
  CASE a.type = "bb" -> {RoundTo(100 * a.amount)}
    [] a.type = "percent" ->
         {RoundTo(IF NeedsCall(n) THEN 100 * OpponentBet(n) + PotAfterCall(n) * a.amount
                                  ELSE n.pot * a.amount)}
    [] a.type = "multiplier" ->
         IF NeedsCall(n) THEN {RoundTo(OpponentBet(n) * a.amount)} ELSE {}
    [] a.type = "geometric" -> GeometricTargets(a, n)
    [] a.type = "allin" -> {RoundTo(100 * AllInTarget(n))}

SnapToAllIn(target, n) ==
  IF 100 * target >= AllInTarget(n) * BetToAllInPercent \/ target >= AllInTarget(n)
  THEN AllInTarget(n) ELSE target

\* Fault: an all-in is offered without looking at the bet it must exceed.
MayBetAnyAllIn(target, n) ==
  \/ target = AllInTarget(n)
  \/ target > MustExceed(n) /\ target >= MinNonAllInTarget(n)

MayBet(target, n) ==
  /\ target > MustExceed(n)
  /\ target = AllInTarget(n) \/ target >= MinNonAllInTarget(n)

ShouldAddAllInBySpr(n) ==
  /\ n.pot > 0
  /\ 100 * Least(n.stacks[0] + n.bet[0], n.stacks[1] + n.bet[1]) < AddAllInPercent * n.pot

\* The sizes looked at: the configured ones, and the all-in where it is cheap.
Candidates(n) ==
  {SnapToAllIn(t, n) : t \in UNION {Targets(a, n) : a \in AbstractedBetsForState(n)}}
    \cup (IF ShouldAddAllInBySpr(n) THEN {AllInTarget(n)} ELSE {})

\* Fault: only the actor's own stack is looked at.
BetsAgainstAllIn(n) ==
  IF n.stacks[n.actor] > 0 THEN {t \in Candidates(n) : MayBet(t, n)} ELSE {}

\* AddBetActions: nobody bets without chips, or against an all-in.
BetTargets(n) ==
  IF n.stacks[0] > 0 /\ n.stacks[1] > 0 THEN {t \in Candidates(n) : MayBet(t, n)} ELSE {}

\* The pot if a bet to target is called, and whether two bets are far enough
\* apart to keep both.
PotIfCalled(target, n) ==
  PotAfterCall(n) + 2 * (IF target > MustExceed(n) THEN target - MustExceed(n) ELSE 0)

FarApart(kept, target, n) ==
  \/ PotIfCalled(target, n) <= 0
  \/ 100 * PotIfCalled(kept, n) > PotIfCalled(target, n) * (100 + MergingPercent)

\* Fault: each bet is compared with the largest one only.
MergeAgainstLargest(targets, n) ==
  {t \in targets : t = Greatest(targets) \/ FarApart(Greatest(targets), t, n)}

\* MergeCloseBetActions: from the largest down, a bet survives when it is far
\* from the last survivor.
MergeClose(targets, n) ==
  LET kept[S \in SUBSET targets] ==
        IF S = {} THEN {}
        ELSE LET top == Greatest(S)
             IN  {top} \cup kept[{t \in S : t < top /\ FarApart(top, t, n)}]
  IN  IF MergingPercent = 0 THEN targets ELSE {t \in targets : t \in kept[targets]}

OfferedBets(n) == MergeClose(BetTargets(n), n)

Fold      == [type |-> "fold", amount |-> 0]
Check     == [type |-> "check", amount |-> 0]
Call      == [type |-> "call", amount |-> 0]
Chance    == [type |-> "chance", amount |-> 0]
Bet(t)    == [type |-> "bet", amount |-> t]

\* ActionResolver::Resolve.
Resolve(n) ==
  IF n.status # "live" THEN {}
  ELSE IF n.actor = ChancePlayer THEN {Chance}
  ELSE (IF NeedsCall(n) THEN (IF n.stacks[n.actor] > 0 THEN {Fold, Call} ELSE {})
                        ELSE {Check})
       \cup {Bet(t) : t \in OfferedBets(n)}
==============================================================================

----------------------------- MODULE CfrSession ------------------------------
(***************************************************************************)
(* A solving session: the calls the Python binding offers on one solver    *)
(* (src/csrc/src/binding/pybind.cc), and the solver's passes over its      *)
(* tables (src/csrc/src/algorithm/poker_cfr_solver.cc), one action per     *)
(* sweep of the tree.  Any sweep allocates (the job of a ParallelFor, the  *)
(* buffers and caches of the terminal values) and may throw half way; the  *)
(* caller catches the exception and may use the session again.             *)
(*                                                                         *)
(* Numbers are abstracted to where they come from: sumStrategy and         *)
(* strategy are versions of the accumulated average and of the current     *)
(* strategy, and each reach or counterfactual-value table holds a source,  *)
(* the version of the strategy it was computed from.                       *)
(***************************************************************************)
EXTENDS Integers, Sequences

CONSTANTS
  MaxIterations,    \* max_iterations of the solver
  CheckInterval,    \* exploitability_check_interval
  Chunks,           \* iteration counts run_iterations is asked for
  MaxCalls,         \* bound: calls on the session
  MaxFailures       \* bound: sweeps that throw

ASSUME ConstantsAssumption ==
  /\ MaxIterations \in Nat \ {0} /\ CheckInterval \in Nat \ {0}
  /\ Chunks \subseteq Nat /\ MaxCalls \in Nat /\ MaxFailures \in Nat

VARIABLES
  sumStrategy, strategy,     \* versions of the tables that are learnt
  reach,                     \* source of the reach table
  terminalCfv, innerCfv,     \* by player: sources of the values at leaves and inside
  passes, iterations,        \* hero_pass_count_, iterations_completed_
  finalized,                 \* average_finalized_
  result, checkpoints,       \* the session's SolveResult
  samples,                   \* source of the reach last exported by sampling
  pc, call, hero, left, target,  \* where the running call is
  outcome, calls, failures

tables  == <<sumStrategy, strategy, reach, terminalCfv, innerCfv>>
counts  == <<passes, iterations, finalized>>
report  == <<result, checkpoints, samples>>
control == <<pc, call, hero, left, target, outcome, calls, failures>>
vars    == <<tables, counts, report, control>>

Player == {0, 1}

\* Sources.
Empty == [of |-> "none", version |-> 0]
Mixed == [of |-> "mixed", version |-> 0]
AverageNow == [of |-> "average", version |-> sumStrategy]
CurrentNow == [of |-> "current", version |-> strategy]

NotMeasured == -1

Init ==
  /\ sumStrategy = 0 /\ strategy = 0
  /\ reach = Empty
  /\ terminalCfv = [p \in Player |-> Empty] /\ innerCfv = [p \in Player |-> Empty]
  /\ passes = 0 /\ iterations = 0 /\ finalized = FALSE
  /\ result = [iterations |-> 0, measured |-> NotMeasured, converged |-> FALSE]
  /\ checkpoints = <<>> /\ samples = Empty
  /\ pc = "new" /\ call = "none" /\ hero = 0 /\ left = 0 /\ target = 0
  /\ outcome = "none" /\ calls = 0 /\ failures = 0

(***************************************************************************)
(* Calls.                                                                  *)
(***************************************************************************)

Begin(name, first) ==
  /\ calls < MaxCalls
  /\ calls' = calls + 1 /\ call' = name /\ pc' = first /\ hero' = 0
  /\ outcome' = IF first = "idle" THEN "returned" ELSE "running"
  /\ UNCHANGED <<tables, counts, failures>>

\* create_poker_session, and solve_poker, whose constructor runs Solve.
CreateSession ==
  /\ pc = "new" /\ pc' = "idle"
  /\ UNCHANGED <<tables, counts, report, call, hero, left, target, outcome, calls, failures>>

SolvePoker ==
  /\ pc = "new"
  /\ Begin("solve", "forward")
  /\ target' = iterations + MaxIterations
  /\ UNCHANGED <<report, left>>

RunIterations(n) ==
  /\ pc = "idle" /\ n > 0
  /\ Begin("run", "forward")
  /\ left' = n
  /\ UNCHANGED <<report, target>>

\* Nothing to run: only the iteration count of the result is refreshed.
RunNoIterations ==
  /\ pc = "idle" /\ 0 \in Chunks
  /\ Begin("run", "idle")
  /\ result' = [result EXCEPT !.iterations = iterations]
  /\ UNCHANGED <<checkpoints, samples, left, target>>

ComputeExploitability ==
  /\ pc = "idle"
  /\ Begin("exploitability", "finalizeReach")
  /\ UNCHANGED <<report, left, target>>

SampleTurnChanceNodes ==
  /\ pc = "idle"
  /\ Begin("sample", "refreshReach")
  /\ UNCHANGED <<report, left, target>>

(***************************************************************************)
(* Sweeps.  With ok FALSE the sweep throws: what it was writing is left    *)
(* as it was or mixed, and the call ends.  A session whose constructor     *)
(* throws is never seen.                                                   *)
(***************************************************************************)

Mix(old, new) == {old, IF old = new THEN old ELSE Mixed}
Writes(ok, old, new) == IF ok THEN {new} ELSE Mix(old, new)
Bumps(ok, version) == IF ok THEN {version + 1} ELSE {version, version + 1}

Throws ==
  /\ failures < MaxFailures
  /\ failures' = failures + 1 /\ outcome' = "threw"
  /\ pc' = IF call = "solve" THEN "dead" ELSE "idle"

Goto(ok, next) ==
  /\ IF ok THEN pc' = next /\ UNCHANGED <<failures, outcome>> ELSE Throws
  /\ UNCHANGED <<call, hero, left, target, calls>>

Return ==
  /\ pc' = "idle" /\ outcome' = "returned" /\ UNCHANGED failures

\* Fault: a training pass leaves the average marked as finalized.
ForwardKeepingFinalized(ok) ==
  /\ pc = "forward"
  /\ reach' \in Writes(ok, reach, CurrentNow)
  /\ sumStrategy' \in Bumps(ok, sumStrategy)
  /\ UNCHANGED <<strategy, terminalCfv, innerCfv, passes, iterations, finalized, report>>
  /\ Goto(ok, "terminal")

\* RunHeroPass: reach from the current strategy, and the hero's strategy added
\* to the average.
Forward(ok) ==
  /\ pc = "forward"
  /\ finalized' = FALSE
  /\ reach' \in Writes(ok, reach, CurrentNow)
  /\ sumStrategy' \in Bumps(ok, sumStrategy)
  /\ UNCHANGED <<strategy, terminalCfv, innerCfv, passes, iterations, report>>
  /\ Goto(ok, "terminal")

ComputeTerminalCfvs(ok) ==
  /\ pc = "terminal"
  /\ \E source \in Writes(ok, terminalCfv[hero], reach) :
       terminalCfv' = [terminalCfv EXCEPT ![hero] = source]
  /\ UNCHANGED <<sumStrategy, strategy, reach, innerCfv, counts, report>>
  /\ Goto(ok, "backward")

\* Fault: only the check interval is looked at.
ShouldCheckByInterval(n) == n % CheckInterval = 0

ShouldCheck(n) == n % CheckInterval = 0 \/ n = target

\* The end of RunIteration, and where the loops of RunIterations and Solve go next.
CompleteIteration ==
  /\ hero' = 0
  /\ iterations' = iterations + 1
  /\ left' = IF call = "run" THEN left - 1 ELSE left
  /\ CASE call = "run" /\ left' = 0 ->
            Return /\ result' = [result EXCEPT !.iterations = iterations']
       [] call = "solve" /\ ShouldCheck(iterations') ->
            pc' = "finalizeReach" /\ UNCHANGED <<result, outcome, failures>>
       [] call = "solve" /\ ~ShouldCheck(iterations') /\ iterations' >= target ->
            Return /\ UNCHANGED result
       [] OTHER -> pc' = "forward" /\ UNCHANGED <<result, outcome, failures>>

\* Fault: a pass is counted before its update is known to succeed.
BackwardCountingFirst(ok) ==
  /\ pc = "backward"
  /\ \E source \in Writes(ok, innerCfv[hero], terminalCfv[hero]) :
       innerCfv' = [innerCfv EXCEPT ![hero] = source]
  /\ strategy' \in Bumps(ok, strategy)
  /\ passes' = passes + 1
  /\ CASE ~ok -> Goto(ok, "idle") /\ UNCHANGED <<iterations, result>>
       [] ok /\ hero = 1 -> CompleteIteration /\ UNCHANGED <<call, target, calls>>
       [] ok /\ hero = 0 -> /\ hero' = 1 /\ pc' = "forward"
                            /\ UNCHANGED <<iterations, result, left, outcome, failures>>
                            /\ UNCHANGED <<call, target, calls>>
  /\ UNCHANGED <<sumStrategy, reach, terminalCfv, finalized, checkpoints, samples>>

\* Values flow back, and the hero's regrets and strategy are updated.
Backward(ok) ==
  /\ pc = "backward"
  /\ \E source \in Writes(ok, innerCfv[hero], terminalCfv[hero]) :
       innerCfv' = [innerCfv EXCEPT ![hero] = source]
  /\ strategy' \in Bumps(ok, strategy)
  /\ passes' = IF ok THEN passes + 1 ELSE passes
  /\ CASE ~ok -> Goto(ok, "idle") /\ UNCHANGED <<iterations, result>>
       [] ok /\ hero = 1 -> CompleteIteration /\ UNCHANGED <<call, target, calls>>
       [] ok /\ hero = 0 -> /\ hero' = 1 /\ pc' = "forward"
                            /\ UNCHANGED <<iterations, result, left, outcome, failures>>
                            /\ UNCHANGED <<call, target, calls>>
  /\ UNCHANGED <<sumStrategy, reach, terminalCfv, finalized, checkpoints, samples>>

(***************************************************************************)
(* ComputeExploitability: FinalizeAverageStrategy, then the best response. *)
(***************************************************************************)

FinalizeReach(ok) ==
  /\ pc = "finalizeReach"
  /\ reach' \in Writes(ok, reach, AverageNow)
  /\ UNCHANGED <<sumStrategy, strategy, terminalCfv, innerCfv, counts, report>>
  /\ Goto(ok, "finalizeTerminal")

FinalizeTerminals(ok) ==
  /\ pc = "finalizeTerminal"
  /\ \E s0 \in Writes(ok, terminalCfv[0], reach), s1 \in Writes(ok, terminalCfv[1], reach) :
       terminalCfv' = [p \in Player |-> IF p = 0 THEN s0 ELSE s1]
  /\ UNCHANGED <<sumStrategy, strategy, reach, innerCfv, counts, report>>
  /\ Goto(ok, "finalizeBackward")

\* Fault: only one player's values are propagated.
FinalizeBackwardOnePlayer(ok) ==
  /\ pc = "finalizeBackward"
  /\ \E s0 \in Writes(ok, innerCfv[0], terminalCfv[0]) :
       innerCfv' = [innerCfv EXCEPT ![0] = s0]
  /\ finalized' = (finalized \/ ok)
  /\ UNCHANGED <<sumStrategy, strategy, reach, terminalCfv, passes, iterations, report>>
  /\ Goto(ok, "bestResponse")

FinalizeBackward(ok) ==
  /\ pc = "finalizeBackward"
  /\ \E s0 \in Writes(ok, innerCfv[0], terminalCfv[0]),
        s1 \in Writes(ok, innerCfv[1], terminalCfv[1]) :
       innerCfv' = [p \in Player |-> IF p = 0 THEN s0 ELSE s1]
  /\ finalized' = (finalized \/ ok)
  /\ UNCHANGED <<sumStrategy, strategy, reach, terminalCfv, passes, iterations, report>>
  /\ Goto(ok, "bestResponse")

\* NodeEv refuses unless the average is finalized.  Whether the exploitability
\* meets the target depends on the numbers.
BestResponse(ok, converged) ==
  /\ pc = "bestResponse"
  /\ ok => finalized
  /\ IF ~ok THEN Goto(ok, "idle") /\ UNCHANGED <<result, checkpoints>>
     ELSE LET measure == [iterations |-> iterations, measured |-> sumStrategy,
                          converged |-> converged]
          IN  /\ result' = measure
              /\ checkpoints' = Append(checkpoints, measure)
              /\ IF call = "solve" /\ ~converged /\ iterations < target
                 THEN pc' = "forward" /\ UNCHANGED <<outcome, failures>>
                 ELSE Return
              /\ UNCHANGED <<call, hero, left, target, calls>>
  /\ UNCHANGED <<tables, counts, samples>>

(***************************************************************************)
(* SampleTurnChanceNodes.                                                  *)
(***************************************************************************)

\* Fault: the reach left by the last pass is taken for the average's.
RefreshNothing(ok) ==
  /\ pc = "refreshReach"
  /\ UNCHANGED <<tables, counts, report>>
  /\ Goto(ok, "export")

RefreshAverageReach(ok) ==
  /\ pc = "refreshReach"
  /\ reach' \in Writes(ok, reach, AverageNow)
  /\ finalized' = (finalized /\ ~ok)
  /\ UNCHANGED <<sumStrategy, strategy, terminalCfv, innerCfv, passes, iterations, report>>
  /\ Goto(ok, "export")

ExportSamples(ok) ==
  /\ pc = "export"
  /\ IF ok THEN samples' = reach /\ Return /\ UNCHANGED <<call, hero, left, target, calls>>
           ELSE Goto(ok, "idle") /\ UNCHANGED samples
  /\ UNCHANGED <<tables, counts, result, checkpoints>>

Sweep(ok) ==
  \/ Forward(ok)
  \/ ComputeTerminalCfvs(ok)
  \/ Backward(ok)
  \/ FinalizeReach(ok)
  \/ FinalizeTerminals(ok)
  \/ FinalizeBackward(ok)
  \/ \E converged \in BOOLEAN : BestResponse(ok, converged)
  \/ RefreshAverageReach(ok)
  \/ ExportSamples(ok)

Calls ==
  \/ CreateSession
  \/ SolvePoker
  \/ \E n \in Chunks : RunIterations(n)
  \/ RunNoIterations
  \/ ComputeExploitability
  \/ SampleTurnChanceNodes

Next == Calls \/ \E ok \in BOOLEAN : Sweep(ok)

Spec == Init /\ [][Next]_vars

(***************************************************************************)
(* Properties                                                              *)
(***************************************************************************)

Source == [of : {"none", "mixed", "current", "average"}, version : Nat]
Measure == [iterations : Nat, measured : Nat \cup {NotMeasured}, converged : BOOLEAN]

\* The variables have their types: a running call has iterations to run, and
\* no table claims a version that was never computed.
TypeOK ==
  /\ sumStrategy \in Nat /\ strategy \in Nat /\ passes \in Nat /\ iterations \in Nat
  /\ reach \in Source /\ samples \in Source
  /\ terminalCfv \in [Player -> Source] /\ innerCfv \in [Player -> Source]
  /\ finalized \in BOOLEAN
  /\ result \in Measure /\ checkpoints \in Seq(Measure)
  /\ pc \in {"new", "idle", "dead", "forward", "terminal", "backward", "finalizeReach",
             "finalizeTerminal", "finalizeBackward", "bestResponse", "refreshReach", "export"}
  /\ call \in {"none", "solve", "run", "exploitability", "sample"}
  /\ hero \in Player /\ left \in Nat /\ target \in Nat
  /\ outcome \in {"none", "running", "returned", "threw"}
  /\ calls \in 0 .. MaxCalls /\ failures \in 0 .. MaxFailures

\* NodeEv's guard means what it says: while the average is marked finalized,
\* reach and both players' values, leaves and inner nodes, are those of the
\* average strategy as it is now, whatever threw in between.
EvReadsAverage ==
  finalized => /\ reach = AverageNow
               /\ \A p \in Player : terminalCfv[p] = AverageNow /\ innerCfv[p] = AverageNow

\* The values node_cfv exports are those behind the reported exploitability:
\* while the result was measured on the average as it is now, every table of
\* values holds that average's, also after calls that threw or sampled.
CfvsMeasured ==
  (pc = "idle" /\ result.measured = sumStrategy) =>
    \A p \in Player : terminalCfv[p] = AverageNow /\ innerCfv[p] = AverageNow

\* When Solve returns, its result is of the last iteration it ran: measured on
\* the average as it is, the last checkpoint, and either converged, which no
\* earlier checkpoint was, or at the iteration limit.
SolveReports ==
  (call = "solve" /\ outcome = "returned") =>
    /\ result.iterations = iterations /\ result.measured = sumStrategy
    /\ result.converged \/ iterations = target
    /\ iterations <= target
    /\ checkpoints # <<>> /\ result = checkpoints[Len(checkpoints)]
    /\ \A i \in 1 .. Len(checkpoints) - 1 :
         /\ ~checkpoints[i].converged
         /\ checkpoints[i].iterations < checkpoints[i + 1].iterations

\* Exported samples carry the reach of the average as it is at the call,
\* whatever training, finalizing or throwing came before.
SamplesFresh == (call = "sample" /\ outcome = "returned") => samples = AverageNow

\* The discount schedule counts completed passes: it never lags behind two per
\* iteration, and runs ahead by at most one pass for every call that threw.
PassesBounded ==
  LET open == IF pc \in {"forward", "terminal", "backward"} /\ hero = 1 THEN 1 ELSE 0
  IN  passes - open \in 2 * iterations .. 2 * iterations + failures
==============================================================================

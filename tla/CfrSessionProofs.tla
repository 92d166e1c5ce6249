-------------------------- MODULE CfrSessionProofs ---------------------------
(***************************************************************************)
(* Proofs, for any number of calls and of sweeps that throw, that what a   *)
(* session reports and exports belongs to the average strategy as it is.   *)
(***************************************************************************)
EXTENDS CfrSession, TLAPS

CfvsAverage == \A p \in Player : terminalCfv[p] = AverageNow /\ innerCfv[p] = AverageNow

Training   == pc \in {"forward", "terminal", "backward"}
Finalizing == pc \in {"finalizeReach", "finalizeTerminal", "finalizeBackward", "bestResponse"}
Sampling   == pc \in {"refreshReach", "export"}

\* What the tables hold at each step of a call.
TablesInv ==
  /\ finalized => reach = AverageNow /\ CfvsAverage
  /\ pc \in {"terminal", "backward"} => ~finalized
  /\ pc = "finalizeTerminal" => reach = AverageNow
  /\ pc = "finalizeBackward" =>
       reach = AverageNow /\ \A p \in Player : terminalCfv[p] = AverageNow
  /\ pc = "bestResponse" => finalized
  /\ pc = "export" => reach = AverageNow

\* The result never claims a later average; a pass that has begun made it stale.
MeasureInv ==
  /\ result.measured <= sumStrategy
  /\ pc \in {"terminal", "backward"} => result.measured < sumStrategy
  /\ result.measured = sumStrategy => CfvsAverage

\* A call that returned is over.
CallInv ==
  /\ outcome = "returned" => pc = "idle"
  /\ outcome = "running" <=> pc \notin {"new", "idle", "dead"}
  /\ Training => call \in {"run", "solve"}
  /\ call = "run" /\ Training => left > 0
  /\ Finalizing => call \in {"solve", "exploitability"}
  /\ Sampling => call = "sample"
  /\ Finalizing \/ Sampling => hero = 0

IInv ==
  /\ TypeOK /\ TablesInv /\ MeasureInv /\ CallInv /\ SamplesFresh /\ PassesBounded

\* The state a session starts in.
LEMMA InitIInv == Init => IInv
BY ConstantsAssumption DEF Init, IInv, TypeOK, TablesInv, MeasureInv, CallInv, SamplesFresh,
   PassesBounded, Source, Measure, Empty, NotMeasured, Player, Training, Finalizing, Sampling

\* Calls only begin: no table changes.
LEMMA CallsIInv == ASSUME IInv, Calls PROVE IInv'
<1> USE ConstantsAssumption DEF IInv, Calls, tables, counts, report, Begin, CreateSession,
      SolvePoker, RunIterations, RunNoIterations, ComputeExploitability,
      SampleTurnChanceNodes
<1>1. TypeOK'
  <2>1. /\ UNCHANGED <<sumStrategy, strategy, passes, iterations, reach, samples, terminalCfv,
                       innerCfv, finalized, checkpoints, failures>>
        /\ result' = result \/ result' = [result EXCEPT !.iterations = iterations]
    OBVIOUS
  <2>2. /\ pc' \in {"idle", "forward", "finalizeReach", "refreshReach"}
        /\ call' \in {call, "solve", "run", "exploitability", "sample"}
        /\ hero' \in {hero, 0} /\ left' \in {left} \cup Chunks
        /\ target' \in {target, iterations + MaxIterations}
        /\ outcome' \in {outcome, "returned", "running"}
        /\ calls' = calls \/ (calls < MaxCalls /\ calls' = calls + 1)
    <3>1. CASE CreateSession BY <3>1
    <3>2. CASE SolvePoker BY <3>2
    <3>3. CASE \E n \in Chunks : RunIterations(n) BY <3>3
    <3>4. CASE RunNoIterations BY <3>4
    <3>5. CASE ComputeExploitability BY <3>5
    <3>6. CASE SampleTurnChanceNodes BY <3>6
    <3> QED BY <3>1, <3>2, <3>3, <3>4, <3>5, <3>6
  <2>3. result' \in Measure BY <2>1 DEF TypeOK, Measure
  <2>4. calls' \in 0 .. MaxCalls BY <2>2 DEF TypeOK
  <2>5. hero' \in Player /\ left' \in Nat /\ target' \in Nat BY <2>2 DEF TypeOK, Player
  <2> QED BY ONLY IInv, <2>1, <2>2, <2>3, <2>4, <2>5 DEF IInv, TypeOK
<1>2. TablesInv' BY DEF TablesInv, CfvsAverage, AverageNow
<1>3. MeasureInv' BY DEF MeasureInv, CfvsAverage, AverageNow, TypeOK, Measure
<1>4. CallInv' BY DEF CallInv, Training, Finalizing, Sampling, TypeOK
<1>5. SamplesFresh' BY DEF SamplesFresh, AverageNow
<1>6. PassesBounded' BY DEF PassesBounded, CallInv, TypeOK
<1> QED BY <1>1, <1>2, <1>3, <1>4, <1>5, <1>6

\* What a sweep that throws or goes on does to the control of the call.
LEMMA GotoFacts ==
  ASSUME IInv, NEW ok \in BOOLEAN, NEW next, Goto(ok, next),
         pc \notin {"new", "idle", "dead"}
  PROVE  /\ UNCHANGED <<call, hero, left, target, calls>>
         /\ ok => pc' = next /\ UNCHANGED <<failures, outcome>>
         /\ ~ok => pc' \in {"idle", "dead"} /\ failures' = failures + 1
                   /\ outcome' = "threw" /\ failures' \in 0 .. MaxFailures
         /\ outcome = "running" /\ failures \in 0 .. MaxFailures
<1>1. failures \in 0 .. MaxFailures /\ outcome = "running"
  BY DEF IInv, CallInv, TypeOK
<1> QED BY <1>1, ConstantsAssumption DEF Goto, Throws

\* What a table holds after a sweep that wrote it.
LEMMA WritesFacts ==
  ASSUME NEW ok \in BOOLEAN, NEW old \in Source, NEW new \in Source,
         NEW written \in Writes(ok, old, new)
  PROVE  /\ written \in Source
         /\ ok => written = new
         /\ old = new => written = new
BY DEF Writes, Mix, Mixed, Source

\* The sources a sweep may write are sources.
LEMMA NowSources == ASSUME IInv PROVE AverageNow \in Source /\ CurrentNow \in Source
BY DEF IInv, TypeOK, AverageNow, CurrentNow, Source

\* A training pass clears the flag and makes every measure stale.
LEMMA ForwardIInv == ASSUME IInv, NEW ok \in BOOLEAN, Forward(ok) PROVE IInv'
<1>1. /\ pc = "forward" /\ finalized' = FALSE /\ Goto(ok, "terminal")
      /\ reach' \in Writes(ok, reach, CurrentNow)
      /\ sumStrategy' \in {sumStrategy, sumStrategy + 1}
      /\ ok => sumStrategy' = sumStrategy + 1
      /\ UNCHANGED <<strategy, terminalCfv, innerCfv, passes, iterations, result, checkpoints,
                     samples>>
  BY DEF Forward, Bumps, report
<1>2. /\ UNCHANGED <<call, hero, left, target, calls>>
      /\ ok => pc' = "terminal" /\ UNCHANGED <<failures, outcome>>
      /\ ~ok => pc' \in {"idle", "dead"} /\ failures' = failures + 1
                /\ outcome' = "threw" /\ failures' \in 0 .. MaxFailures
      /\ outcome = "running" /\ failures \in 0 .. MaxFailures
  BY <1>1, GotoFacts
<1>3. reach' \in Source BY <1>1, WritesFacts, NowSources DEF IInv, TypeOK
<1>4. TypeOK'
  <2>1. sumStrategy' \in Nat BY <1>1 DEF IInv, TypeOK
  <2>2. pc' \in {"idle", "dead", "terminal"} /\ outcome' \in {"running", "threw"}
        /\ failures' \in 0 .. MaxFailures
    BY <1>2
  <2> QED BY <1>1, <1>2, <1>3, <2>1, <2>2 DEF IInv, TypeOK
<1>5. TablesInv' BY <1>1, <1>2 DEF TablesInv
<1>6. MeasureInv'
  BY <1>1, <1>2 DEF IInv, MeasureInv, CfvsAverage, AverageNow, TypeOK, Measure, NotMeasured
<1>7. CallInv' BY <1>1, <1>2 DEF IInv, CallInv, Training, Finalizing, Sampling
<1>8. SamplesFresh' BY <1>1, <1>2 DEF SamplesFresh
<1>9. PassesBounded' BY <1>1, <1>2 DEF IInv, PassesBounded, TypeOK, Player
<1> QED BY <1>4, <1>5, <1>6, <1>7, <1>8, <1>9 DEF IInv


\* A sweep that changes neither the average nor the counts leaves the parts of
\* the invariant that look at the call alone.
LEMMA ControlIInv ==
  ASSUME IInv, UNCHANGED <<passes, iterations, samples, sumStrategy, hero, call, left>>,
         outcome = "running", outcome' \in {"running", "threw"},
         outcome' = "running" =>
           /\ failures' = failures /\ pc' \notin {"new", "idle", "dead"}
           /\ Training' = Training /\ Finalizing' = Finalizing /\ Sampling' = Sampling,
         outcome' = "threw" => pc' \in {"idle", "dead"} /\ failures' = failures + 1
  PROVE  CallInv' /\ SamplesFresh' /\ PassesBounded'
<1>1. CallInv' BY DEF IInv, CallInv, Training, Finalizing, Sampling
<1>2. SamplesFresh' BY DEF SamplesFresh
<1>3. PassesBounded' BY DEF IInv, PassesBounded, TypeOK, Player, Training
<1> QED BY <1>1, <1>2, <1>3

\* Leaf values are computed from the reach of the pass.
LEMMA TerminalIInv == ASSUME IInv, NEW ok \in BOOLEAN, ComputeTerminalCfvs(ok) PROVE IInv'
<1>1. PICK source \in Writes(ok, terminalCfv[hero], reach) :
        terminalCfv' = [terminalCfv EXCEPT ![hero] = source]
  BY DEF ComputeTerminalCfvs
<1>2. /\ pc = "terminal" /\ Goto(ok, "backward")
      /\ UNCHANGED <<sumStrategy, strategy, reach, innerCfv, passes, iterations, finalized,
                     result, checkpoints, samples>>
  BY DEF ComputeTerminalCfvs, counts, report
<1>3. /\ UNCHANGED <<call, hero, left, target, calls>>
      /\ ok => pc' = "backward" /\ UNCHANGED <<failures, outcome>>
      /\ ~ok => pc' \in {"idle", "dead"} /\ failures' = failures + 1
                /\ outcome' = "threw" /\ failures' \in 0 .. MaxFailures
      /\ outcome = "running" /\ failures \in 0 .. MaxFailures
  BY <1>2, GotoFacts
<1>4. source \in Source BY <1>1, WritesFacts DEF IInv, TypeOK
<1>5. TypeOK'
  <2>1. terminalCfv' \in [Player -> Source] BY <1>1, <1>4 DEF IInv, TypeOK
  <2>2. pc' \in {"idle", "dead", "backward"} /\ outcome' \in {"running", "threw"}
        /\ failures' \in 0 .. MaxFailures
    BY <1>3
  <2> QED BY <1>2, <1>3, <2>1, <2>2 DEF IInv, TypeOK
<1>6. TablesInv' BY <1>2, <1>3 DEF IInv, TablesInv
<1>7. MeasureInv' BY <1>2, <1>3 DEF IInv, MeasureInv, TypeOK, Measure, NotMeasured
<1>8. CallInv' /\ SamplesFresh' /\ PassesBounded'
  BY <1>2, <1>3, ControlIInv DEF Training, Finalizing, Sampling
<1> QED BY <1>5, <1>6, <1>7, <1>8 DEF IInv

\* The end of a training pass counts it, and at the second one the iteration.
LEMMA BackwardIInv == ASSUME IInv, NEW ok \in BOOLEAN, Backward(ok) PROVE IInv'
<1>1. PICK source \in Writes(ok, innerCfv[hero], terminalCfv[hero]) :
        innerCfv' = [innerCfv EXCEPT ![hero] = source]
  BY DEF Backward
<1>2. /\ pc = "backward" /\ strategy' \in {strategy, strategy + 1}
      /\ passes' = IF ok THEN passes + 1 ELSE passes
      /\ UNCHANGED <<sumStrategy, reach, terminalCfv, finalized, checkpoints, samples>>
  BY DEF Backward, Bumps
<1>3. source \in Source BY <1>1, WritesFacts DEF IInv, TypeOK
<1>4. innerCfv' \in [Player -> Source] BY <1>1, <1>3 DEF IInv, TypeOK
<1>5. /\ sumStrategy' \in Nat /\ strategy' \in Nat /\ passes' \in Nat /\ reach' \in Source
      /\ samples' \in Source /\ terminalCfv' \in [Player -> Source] /\ finalized' = FALSE
      /\ checkpoints' \in Seq(Measure) /\ outcome = "running" /\ call \in {"run", "solve"}
      /\ call = "run" => left > 0
      /\ result.measured < sumStrategy
  BY <1>2 DEF IInv, TypeOK, TablesInv, MeasureInv, CallInv, Training
<1>6. CASE ~ok
  <2>1. Goto(ok, "idle") /\ UNCHANGED <<iterations, result>> BY <1>6 DEF Backward
  <2>2. /\ UNCHANGED <<call, hero, left, target, calls>>
        /\ pc' \in {"idle", "dead"} /\ failures' = failures + 1
        /\ outcome' = "threw" /\ failures' \in 0 .. MaxFailures
    BY <1>2, <1>6, <2>1, GotoFacts
  <2>3. TypeOK' BY <1>4, <1>5, <2>1, <2>2 DEF IInv, TypeOK
  <2>4. TablesInv' /\ MeasureInv'
    BY <1>2, <1>5, <2>1, <2>2 DEF IInv, TablesInv, MeasureInv, TypeOK, Measure, NotMeasured
  <2>5. CallInv' /\ SamplesFresh' /\ PassesBounded'
    BY <1>2, <1>5, <1>6, <2>1, <2>2, ControlIInv DEF Training, Finalizing, Sampling
  <2> QED BY <2>3, <2>4, <2>5 DEF IInv
<1>7. CASE ok /\ hero = 0
  <2>1. /\ hero' = 1 /\ pc' = "forward"
        /\ UNCHANGED <<iterations, result, left, outcome, failures, call, target, calls>>
    BY <1>7 DEF Backward
  <2>2. TypeOK' BY <1>4, <1>5, <2>1 DEF IInv, TypeOK, Player
  <2>3. TablesInv' /\ MeasureInv'
    BY <1>2, <1>5, <2>1 DEF IInv, TablesInv, MeasureInv, TypeOK, Measure, NotMeasured
  <2>4. CallInv' /\ SamplesFresh' BY <1>2, <1>5, <2>1 DEF IInv, CallInv, SamplesFresh, Training,
      Finalizing, Sampling
  <2>5. PassesBounded' BY <1>2, <1>7, <2>1 DEF IInv, PassesBounded, TypeOK
  <2> QED BY <2>2, <2>3, <2>4, <2>5 DEF IInv
<1>8. CASE ok /\ hero = 1
  <2>1. CompleteIteration /\ UNCHANGED <<call, target, calls>> BY <1>8 DEF Backward
  <2>2. /\ hero' = 0 /\ iterations' = iterations + 1 /\ failures' = failures
        /\ left' = IF call = "run" THEN left - 1 ELSE left
        /\ result' = result \/ result' = [result EXCEPT !.iterations = iterations']
    BY <2>1 DEF CompleteIteration, Return
  <2>3. \/ pc' = "idle" /\ outcome' = "returned"
        \/ pc' = "finalizeReach" /\ outcome' = outcome /\ call = "solve"
        \/ pc' = "forward" /\ outcome' = outcome /\ (call = "run" => left' # 0)
    BY <2>1 DEF CompleteIteration, Return
  <2>4. result' \in Measure /\ result'.measured = result.measured /\ left' \in Nat
    <3>1. iterations \in Nat /\ left \in Nat /\ result \in Measure BY DEF IInv, TypeOK
    <3>2. left' \in Nat BY <1>5, <2>2, <3>1
    <3>3. iterations' \in Nat BY <2>2, <3>1
    <3> QED BY <2>2, <3>1, <3>2, <3>3 DEF Measure
  <2>5. TypeOK'
    <3>1. /\ pc' \in {"idle", "finalizeReach", "forward"}
          /\ outcome' \in {"running", "returned"} /\ hero' \in Player /\ iterations' \in Nat
      BY <1>5, <2>2, <2>3 DEF IInv, TypeOK, Player
    <3> QED BY <1>4, <1>5, <2>1, <2>2, <2>4, <3>1 DEF IInv, TypeOK
  <2>6. TablesInv' /\ MeasureInv'
    BY <1>2, <1>5, <2>2, <2>3, <2>4
       DEF IInv, TablesInv, MeasureInv, TypeOK, Measure, NotMeasured
  <2>7. CallInv' /\ SamplesFresh'
    <3>1. call' = call /\ call' \in {"run", "solve"} BY <1>5, <2>1
    <3>2. call' = "run" /\ Training' => left' > 0 BY <2>3, <2>4, <3>1 DEF Training
    <3> QED BY <1>5, <2>2, <2>3, <3>1, <3>2
            DEF CallInv, SamplesFresh, Training, Finalizing, Sampling
  <2>8. PassesBounded'
    <3>1. passes - 1 \in 2 * iterations .. 2 * iterations + failures
      BY <1>2, <1>8 DEF IInv, PassesBounded
    <3>2. passes \in Nat /\ iterations \in Nat /\ failures \in Nat
      BY ConstantsAssumption DEF IInv, TypeOK
    <3>3. passes + 1 \in 2 * (iterations + 1) .. 2 * (iterations + 1) + failures
      BY ONLY <3>1, <3>2
    <3>4. passes' = passes + 1
      BY <1>2, <1>8
    <3> QED BY ONLY <2>2, <3>2, <3>3, <3>4 DEF PassesBounded
  <2> QED BY <2>5, <2>6, <2>7, <2>8 DEF IInv
<1>9. hero \in {0, 1} BY DEF IInv, TypeOK, Player
<1> QED BY <1>6, <1>7, <1>8, <1>9


\* Finalizing first writes the reach of the average as it is, which changes
\* nothing where that reach was already there.
LEMMA FinalizeReachIInv == ASSUME IInv, NEW ok \in BOOLEAN, FinalizeReach(ok) PROVE IInv'
<1>1. /\ pc = "finalizeReach" /\ Goto(ok, "finalizeTerminal")
      /\ reach' \in Writes(ok, reach, AverageNow)
      /\ UNCHANGED <<sumStrategy, strategy, terminalCfv, innerCfv, passes, iterations,
                     finalized, result, checkpoints, samples>>
  BY DEF FinalizeReach, counts, report
<1>2. /\ UNCHANGED <<call, hero, left, target, calls>>
      /\ ok => pc' = "finalizeTerminal" /\ UNCHANGED <<failures, outcome>>
      /\ ~ok => pc' \in {"idle", "dead"} /\ failures' = failures + 1
                /\ outcome' = "threw" /\ failures' \in 0 .. MaxFailures
      /\ outcome = "running" /\ failures \in 0 .. MaxFailures
  BY <1>1, GotoFacts
<1>3. reach' \in Source /\ (ok => reach' = AverageNow)
      /\ (reach = AverageNow => reach' = AverageNow)
  BY <1>1, WritesFacts, NowSources DEF IInv, TypeOK
<1>4. AverageNow' = AverageNow BY <1>1 DEF AverageNow
<1>5. TypeOK'
  <2>1. pc' \in {"idle", "dead", "finalizeTerminal"} /\ outcome' \in {"running", "threw"}
        /\ failures' \in 0 .. MaxFailures
    BY <1>2
  <2> QED BY <1>1, <1>2, <1>3, <2>1 DEF IInv, TypeOK
<1>6. TablesInv' /\ MeasureInv'
  BY <1>1, <1>2, <1>3, <1>4 DEF IInv, TablesInv, MeasureInv, CfvsAverage
<1>7. CallInv' /\ SamplesFresh' /\ PassesBounded'
  BY <1>1, <1>2, ControlIInv DEF Training, Finalizing, Sampling
<1> QED BY <1>5, <1>6, <1>7 DEF IInv

\* Then the leaves of both players.
LEMMA FinalizeTerminalsIInv ==
  ASSUME IInv, NEW ok \in BOOLEAN, FinalizeTerminals(ok) PROVE IInv'
<1>1. PICK s0 \in Writes(ok, terminalCfv[0], reach), s1 \in Writes(ok, terminalCfv[1], reach) :
        terminalCfv' = [p \in Player |-> IF p = 0 THEN s0 ELSE s1]
  BY DEF FinalizeTerminals
<1>2. /\ pc = "finalizeTerminal" /\ Goto(ok, "finalizeBackward")
      /\ UNCHANGED <<sumStrategy, strategy, reach, innerCfv, passes, iterations,
                     finalized, result, checkpoints, samples>>
  BY DEF FinalizeTerminals, counts, report
<1>3. /\ UNCHANGED <<call, hero, left, target, calls>>
      /\ ok => pc' = "finalizeBackward" /\ UNCHANGED <<failures, outcome>>
      /\ ~ok => pc' \in {"idle", "dead"} /\ failures' = failures + 1
                /\ outcome' = "threw" /\ failures' \in 0 .. MaxFailures
      /\ outcome = "running" /\ failures \in 0 .. MaxFailures
  BY <1>2, GotoFacts
<1>4. reach = AverageNow /\ AverageNow' = AverageNow /\ AverageNow \in Source
  BY <1>2, NowSources DEF IInv, TablesInv, AverageNow
<1>5. /\ s0 \in Source /\ s1 \in Source
      /\ ok => s0 = AverageNow /\ s1 = AverageNow
      /\ terminalCfv[0] = AverageNow => s0 = AverageNow
      /\ terminalCfv[1] = AverageNow => s1 = AverageNow
  <2>1. terminalCfv[0] \in Source /\ terminalCfv[1] \in Source
    BY DEF IInv, TypeOK, Player
  <2> QED BY <1>1, <1>4, <2>1, WritesFacts
<1>6. /\ terminalCfv' \in [Player -> Source]
      /\ ok => \A p \in Player : terminalCfv'[p] = AverageNow
      /\ CfvsAverage => \A p \in Player : terminalCfv'[p] = AverageNow
  BY <1>1, <1>5 DEF CfvsAverage, Player
<1>7. TypeOK'
  <2>1. pc' \in {"idle", "dead", "finalizeBackward"} /\ outcome' \in {"running", "threw"}
        /\ failures' \in 0 .. MaxFailures
    BY <1>3
  <2> QED BY <1>2, <1>3, <1>6, <2>1 DEF IInv, TypeOK
<1>8. CfvsAverage => CfvsAverage' BY <1>2, <1>4, <1>6 DEF CfvsAverage
<1>9. TablesInv' /\ MeasureInv'
  BY <1>2, <1>3, <1>4, <1>6, <1>8 DEF IInv, TablesInv, MeasureInv
<1>10. CallInv' /\ SamplesFresh' /\ PassesBounded'
  BY <1>2, <1>3, ControlIInv DEF Training, Finalizing, Sampling
<1> QED BY <1>7, <1>9, <1>10 DEF IInv

\* Then the inner nodes of both, and only then the flag.
LEMMA FinalizeBackwardIInv ==
  ASSUME IInv, NEW ok \in BOOLEAN, FinalizeBackward(ok) PROVE IInv'
<1>1. PICK s0 \in Writes(ok, innerCfv[0], terminalCfv[0]),
           s1 \in Writes(ok, innerCfv[1], terminalCfv[1]) :
        innerCfv' = [p \in Player |-> IF p = 0 THEN s0 ELSE s1]
  BY DEF FinalizeBackward
<1>2. /\ pc = "finalizeBackward" /\ Goto(ok, "bestResponse") /\ finalized' = (finalized \/ ok)
      /\ UNCHANGED <<sumStrategy, strategy, reach, terminalCfv, passes, iterations,
                     result, checkpoints, samples>>
  BY DEF FinalizeBackward, report
<1>3. /\ UNCHANGED <<call, hero, left, target, calls>>
      /\ ok => pc' = "bestResponse" /\ UNCHANGED <<failures, outcome>>
      /\ ~ok => pc' \in {"idle", "dead"} /\ failures' = failures + 1
                /\ outcome' = "threw" /\ failures' \in 0 .. MaxFailures
      /\ outcome = "running" /\ failures \in 0 .. MaxFailures
  BY <1>2, GotoFacts
<1>4. /\ reach = AverageNow /\ AverageNow' = AverageNow /\ AverageNow \in Source
      /\ terminalCfv[0] = AverageNow /\ terminalCfv[1] = AverageNow
  BY <1>2, NowSources DEF IInv, TablesInv, AverageNow, Player
<1>5. /\ s0 \in Source /\ s1 \in Source
      /\ ok => s0 = AverageNow /\ s1 = AverageNow
      /\ innerCfv[0] = AverageNow => s0 = AverageNow
      /\ innerCfv[1] = AverageNow => s1 = AverageNow
  <2>1. innerCfv[0] \in Source /\ innerCfv[1] \in Source
    BY DEF IInv, TypeOK, Player
  <2> QED BY <1>1, <1>4, <2>1, WritesFacts
<1>6. /\ innerCfv' \in [Player -> Source]
      /\ ok => \A p \in Player : innerCfv'[p] = AverageNow
      /\ CfvsAverage => \A p \in Player : innerCfv'[p] = AverageNow
  BY <1>1, <1>5 DEF CfvsAverage, Player
<1>7. TypeOK'
  <2>1. pc' \in {"idle", "dead", "bestResponse"} /\ outcome' \in {"running", "threw"}
        /\ failures' \in 0 .. MaxFailures /\ finalized' \in BOOLEAN
    BY <1>2, <1>3 DEF IInv, TypeOK
  <2> QED BY <1>2, <1>3, <1>6, <2>1 DEF IInv, TypeOK
<1>8. ok \/ CfvsAverage => CfvsAverage' BY <1>2, <1>4, <1>6 DEF CfvsAverage, Player
<1>9. TablesInv' /\ MeasureInv'
  BY <1>2, <1>3, <1>4, <1>8 DEF IInv, TablesInv, MeasureInv
<1>10. CallInv' /\ SamplesFresh' /\ PassesBounded'
  BY <1>2, <1>3, ControlIInv DEF Training, Finalizing, Sampling
<1> QED BY <1>7, <1>9, <1>10 DEF IInv

\* What is measured is the average that is finalized.
LEMMA BestResponseIInv ==
  ASSUME IInv, NEW ok \in BOOLEAN, NEW converged \in BOOLEAN, BestResponse(ok, converged)
  PROVE  IInv'
<1>1. pc = "bestResponse" /\ UNCHANGED <<sumStrategy, strategy, reach, terminalCfv, innerCfv,
        passes, iterations, finalized, samples>>
  BY DEF BestResponse, tables, counts
<1>2. AverageNow' = AverageNow /\ (CfvsAverage' <=> CfvsAverage)
  BY <1>1 DEF AverageNow, CfvsAverage
<1>3. outcome = "running" BY <1>1 DEF IInv, CallInv
<1>4. CASE ~ok
  <2>1. Goto(ok, "idle") /\ UNCHANGED <<result, checkpoints>> BY <1>4 DEF BestResponse
  <2>2. /\ UNCHANGED <<call, hero, left, target, calls>>
        /\ pc' \in {"idle", "dead"} /\ failures' = failures + 1
        /\ outcome' = "threw" /\ failures' \in 0 .. MaxFailures
    BY <1>1, <1>4, <2>1, GotoFacts
  <2>3. TypeOK' BY <1>1, <2>1, <2>2 DEF IInv, TypeOK
  <2>4. TablesInv' /\ MeasureInv' BY <1>1, <1>2, <2>1, <2>2 DEF IInv, TablesInv, MeasureInv
  <2>5. CallInv' /\ SamplesFresh' /\ PassesBounded'
    BY <1>1, <1>3, <2>2, ControlIInv DEF Training, Finalizing, Sampling
  <2> QED BY <2>3, <2>4, <2>5 DEF IInv
<1>5. CASE ok
  <2> DEFINE measure == [iterations |-> iterations, measured |-> sumStrategy,
                         converged |-> converged]
  <2>1. /\ result' = measure /\ checkpoints' = Append(checkpoints, measure)
        /\ UNCHANGED <<call, hero, left, target, calls, failures>>
        /\ \/ pc' = "forward" /\ outcome' = outcome /\ call = "solve"
           \/ pc' = "idle" /\ outcome' = "returned"
    BY <1>5 DEF BestResponse, Return
  <2>2. measure \in Measure BY DEF IInv, TypeOK, Measure
  <2>3. TypeOK'
    <3>1. pc' \in {"idle", "forward"} /\ outcome' \in {"running", "returned"}
      BY <1>3, <2>1
    <3>2. checkpoints' \in Seq(Measure) BY <2>1, <2>2 DEF IInv, TypeOK
    <3> QED BY <1>1, <2>1, <2>2, <3>1, <3>2 DEF IInv, TypeOK
  <2>4. finalized /\ CfvsAverage BY <1>1 DEF IInv, TablesInv
  <2>5. result'.measured = sumStrategy BY <2>1
  <2>6. TablesInv' /\ MeasureInv'
    BY <1>1, <1>2, <2>1, <2>4, <2>5 DEF IInv, TablesInv, MeasureInv, TypeOK
  <2>7. call \in {"solve", "exploitability"} /\ hero = 0
    BY <1>1 DEF IInv, CallInv, Finalizing
  <2>8. CallInv' /\ SamplesFresh'
    BY <1>3, <2>1, <2>7 DEF CallInv, SamplesFresh, Training, Finalizing, Sampling
  <2>9. PassesBounded' BY <1>1, <2>1, <2>7 DEF IInv, PassesBounded
  <2> QED BY <2>3, <2>6, <2>8, <2>9 DEF IInv
<1> QED BY <1>4, <1>5

\* Sampling refreshes the reach of the average, and takes the flag back
\* because the values at the leaves were not refreshed with it.
LEMMA RefreshAverageReachIInv ==
  ASSUME IInv, NEW ok \in BOOLEAN, RefreshAverageReach(ok) PROVE IInv'
<1>1. /\ pc = "refreshReach" /\ Goto(ok, "export") /\ finalized' = (finalized /\ ~ok)
      /\ reach' \in Writes(ok, reach, AverageNow)
      /\ UNCHANGED <<sumStrategy, strategy, terminalCfv, innerCfv, passes, iterations,
                     result, checkpoints, samples>>
  BY DEF RefreshAverageReach, report
<1>2. /\ UNCHANGED <<call, hero, left, target, calls>>
      /\ ok => pc' = "export" /\ UNCHANGED <<failures, outcome>>
      /\ ~ok => pc' \in {"idle", "dead"} /\ failures' = failures + 1
                /\ outcome' = "threw" /\ failures' \in 0 .. MaxFailures
      /\ outcome = "running" /\ failures \in 0 .. MaxFailures
  BY <1>1, GotoFacts
<1>3. reach' \in Source /\ (ok => reach' = AverageNow)
      /\ (reach = AverageNow => reach' = AverageNow)
  BY <1>1, WritesFacts, NowSources DEF IInv, TypeOK
<1>4. AverageNow' = AverageNow BY <1>1 DEF AverageNow
<1>5. TypeOK'
  <2>1. pc' \in {"idle", "dead", "export"} /\ outcome' \in {"running", "threw"}
        /\ failures' \in 0 .. MaxFailures /\ finalized' \in BOOLEAN
    BY <1>1, <1>2
  <2> QED BY <1>1, <1>2, <1>3, <2>1 DEF IInv, TypeOK
<1>6. TablesInv' /\ MeasureInv'
  BY <1>1, <1>2, <1>3, <1>4 DEF IInv, TablesInv, MeasureInv, CfvsAverage
<1>7. CallInv' /\ SamplesFresh' /\ PassesBounded'
  BY <1>1, <1>2, ControlIInv DEF Training, Finalizing, Sampling
<1> QED BY <1>5, <1>6, <1>7 DEF IInv

\* What is exported is that reach.
LEMMA ExportSamplesIInv ==
  ASSUME IInv, NEW ok \in BOOLEAN, ExportSamples(ok) PROVE IInv'
<1>1. pc = "export" /\ UNCHANGED <<sumStrategy, strategy, reach, terminalCfv, innerCfv,
        passes, iterations, finalized, result, checkpoints>>
  BY DEF ExportSamples, tables, counts
<1>2. AverageNow' = AverageNow /\ (CfvsAverage' <=> CfvsAverage) /\ reach = AverageNow
  BY <1>1 DEF IInv, TablesInv, AverageNow, CfvsAverage
<1>3. outcome = "running" BY <1>1 DEF IInv, CallInv
<1>4. CASE ~ok
  <2>1. Goto(ok, "idle") /\ UNCHANGED samples BY <1>4 DEF ExportSamples
  <2>2. /\ UNCHANGED <<call, hero, left, target, calls>>
        /\ pc' \in {"idle", "dead"} /\ failures' = failures + 1
        /\ outcome' = "threw" /\ failures' \in 0 .. MaxFailures
    BY <1>1, <1>4, <2>1, GotoFacts
  <2>3. TypeOK' BY <1>1, <2>1, <2>2 DEF IInv, TypeOK
  <2>4. TablesInv' /\ MeasureInv' BY <1>1, <1>2, <2>2 DEF IInv, TablesInv, MeasureInv
  <2>5. CallInv' /\ SamplesFresh' /\ PassesBounded'
    BY <1>1, <1>3, <2>1, <2>2, ControlIInv
  <2> QED BY <2>3, <2>4, <2>5 DEF IInv
<1>5. CASE ok
  <2>1. /\ samples' = reach /\ pc' = "idle" /\ outcome' = "returned"
        /\ UNCHANGED <<call, hero, left, target, calls, failures>>
    BY <1>5 DEF ExportSamples, Return
  <2>2. TypeOK' BY <1>1, <2>1 DEF IInv, TypeOK
  <2>3. TablesInv' /\ MeasureInv' BY <1>1, <1>2, <2>1 DEF IInv, TablesInv, MeasureInv
  <2>4. CallInv' BY <2>1 DEF CallInv, Training, Finalizing, Sampling
  <2>5. SamplesFresh' BY <1>2, <2>1 DEF SamplesFresh
  <2>6. PassesBounded' BY <1>1, <2>1 DEF IInv, PassesBounded
  <2> QED BY <2>2, <2>3, <2>4, <2>5, <2>6 DEF IInv
<1> QED BY <1>4, <1>5

\* Every step of a session keeps the invariant.
LEMMA NextIInv == ASSUME IInv, [Next]_vars PROVE IInv'
<1>1. CASE Calls BY <1>1, CallsIInv
<1>2. ASSUME NEW ok \in BOOLEAN, Sweep(ok) PROVE IInv'
  <2>1. CASE Forward(ok) BY <2>1, ForwardIInv
  <2>2. CASE ComputeTerminalCfvs(ok) BY <2>2, TerminalIInv
  <2>3. CASE Backward(ok) BY <2>3, BackwardIInv
  <2>4. CASE FinalizeReach(ok) BY <2>4, FinalizeReachIInv
  <2>5. CASE FinalizeTerminals(ok) BY <2>5, FinalizeTerminalsIInv
  <2>6. CASE FinalizeBackward(ok) BY <2>6, FinalizeBackwardIInv
  <2>7. CASE \E converged \in BOOLEAN : BestResponse(ok, converged) BY <2>7, BestResponseIInv
  <2>8. CASE RefreshAverageReach(ok) BY <2>8, RefreshAverageReachIInv
  <2>9. CASE ExportSamples(ok) BY <2>9, ExportSamplesIInv
  <2> QED BY <1>2, <2>1, <2>2, <2>3, <2>4, <2>5, <2>6, <2>7, <2>8, <2>9 DEF Sweep
<1>3. CASE UNCHANGED vars
  BY <1>3 DEF vars, tables, counts, report, control, IInv, TypeOK, TablesInv, CfvsAverage,
     AverageNow, MeasureInv, CallInv, Training, Finalizing, Sampling, SamplesFresh,
     PassesBounded
<1> QED BY <1>1, <1>2, <1>3 DEF Next

\* The inductive invariant holds of every session.
THEOREM SpecIInv == Spec => []IInv
<1>1. Init => IInv BY InitIInv
<1>2. IInv /\ [Next]_vars => IInv' BY NextIInv
<1> QED BY <1>1, <1>2, PTL DEF Spec

\* The session's variables keep their types.
THEOREM SpecTypeOK == Spec => []TypeOK
<1>1. IInv => TypeOK BY DEF IInv
<1> QED BY <1>1, SpecIInv, PTL

\* NodeEv never reads tables that are not the finalized average's.
THEOREM SpecEvReadsAverage == Spec => []EvReadsAverage
<1>1. IInv => EvReadsAverage BY DEF IInv, TablesInv, CfvsAverage, EvReadsAverage
<1> QED BY <1>1, SpecIInv, PTL

\* While the result was measured on the average as it is, the exported values are
\* that average's, also after a sweep that threw.
THEOREM SpecCfvsMeasured == Spec => []CfvsMeasured
<1>1. IInv => CfvsMeasured BY DEF IInv, MeasureInv, CfvsAverage, CfvsMeasured
<1> QED BY <1>1, SpecIInv, PTL

\* A sampling call that returns exports the reach of the average as it is.
THEOREM SpecSamplesFresh == Spec => []SamplesFresh
<1>1. IInv => SamplesFresh BY DEF IInv
<1> QED BY <1>1, SpecIInv, PTL

\* The discount schedule runs ahead by at most one pass for every call that threw.
THEOREM SpecPassesBounded == Spec => []PassesBounded
<1>1. IInv => PassesBounded BY DEF IInv
<1> QED BY <1>1, SpecIInv, PTL

-----------------------------------------------------------------------------
(***************************************************************************)
(* What Solve reports: the inductive invariant of its loop.                *)
(***************************************************************************)
\* The checkpoints are of ever later iterations, and only the last may have
\* converged.
CheckpointsInv ==
  \A i \in 1 .. Len(checkpoints) - 1 :
    /\ ~checkpoints[i].converged
    /\ checkpoints[i].iterations < checkpoints[i + 1].iterations

\* Before an iteration the limit is not reached; every checkpoint so far is of
\* an iteration before the one that is running or is about to be checked.
SolveInv ==
  /\ pc = "new" => iterations = 0 /\ checkpoints = <<>> /\ call = "none"
  /\ call = "solve" =>
       /\ CheckpointsInv
       /\ Training =>
            /\ iterations < target
            /\ \A i \in 1 .. Len(checkpoints) :
                 ~checkpoints[i].converged /\ checkpoints[i].iterations <= iterations
       /\ Finalizing =>
            /\ iterations <= target
            /\ \A i \in 1 .. Len(checkpoints) :
                 ~checkpoints[i].converged /\ checkpoints[i].iterations < iterations

ReportsInv == IInv /\ SolveInv /\ SolveReports

\* A new session has reported nothing.
LEMMA InitReportsInv == Init => ReportsInv
BY InitIInv DEF Init, ReportsInv, SolveInv, SolveReports

\* Solve is the first call, if it is called at all.
LEMMA CallsReportsInv == ASSUME ReportsInv, Calls PROVE ReportsInv'
<1> USE ConstantsAssumption
<1>1. IInv' BY CallsIInv DEF ReportsInv
<1>2. CASE CreateSession
  BY <1>1, <1>2 DEF CreateSession, ReportsInv, SolveInv, SolveReports, CheckpointsInv, Training,
     Finalizing, tables, counts, report
<1>3. CASE SolvePoker
  <2>1. /\ iterations' = 0 /\ checkpoints' = <<>> /\ pc' = "forward" /\ call' = "solve"
        /\ target' = MaxIterations /\ outcome' = "running"
    BY <1>3 DEF SolvePoker, Begin, ReportsInv, SolveInv, tables, counts, report
  <2> QED BY <1>1, <2>1 DEF ReportsInv, SolveInv, SolveReports, CheckpointsInv, Training, Finalizing
<1>4. CASE ~CreateSession /\ ~SolvePoker
  <2>1. call' \in {"run", "exploitability", "sample"} /\ pc' # "new"
    BY <1>4 DEF Calls, RunIterations, RunNoIterations, ComputeExploitability,
       SampleTurnChanceNodes, Begin
  <2> QED BY <1>1, <2>1 DEF ReportsInv, SolveInv, SolveReports
<1> QED BY <1>2, <1>3, <1>4

\* A sweep that neither ends an iteration nor measures moves within the phase.
LEMMA SweepReportsInv ==
  ASSUME ReportsInv, IInv', UNCHANGED <<iterations, result, checkpoints, call, target, sumStrategy>>,
         pc' # "new", outcome' # "returned" \/ call # "solve",
         Training' => Training, Finalizing' => Finalizing
  PROVE  ReportsInv'
BY DEF ReportsInv, SolveInv, SolveReports, CheckpointsInv

\* The average may grow while Solve is running.
LEMMA ForwardReportsInv ==
  ASSUME ReportsInv, NEW ok \in BOOLEAN, Forward(ok) PROVE ReportsInv'
<1>1. IInv' BY ForwardIInv DEF ReportsInv
<1>2. /\ pc = "forward" /\ pc' \in {"terminal", "idle", "dead"}
      /\ outcome' # "returned" /\ UNCHANGED <<iterations, result, checkpoints, call, target>>
  BY GotoFacts DEF Forward, ReportsInv, report
<1> QED BY <1>1, <1>2 DEF ReportsInv, SolveInv, SolveReports, CheckpointsInv, Training, Finalizing

LEMMA OtherSweepsReportsInv ==
  ASSUME ReportsInv, NEW ok \in BOOLEAN,
         \/ ComputeTerminalCfvs(ok) \/ FinalizeReach(ok) \/ FinalizeTerminals(ok)
         \/ FinalizeBackward(ok) \/ RefreshAverageReach(ok) \/ ExportSamples(ok)
  PROVE  ReportsInv'
<1> USE DEF report, counts, tables, Training, Finalizing
<1>0. IInv /\ IInv'
  BY TerminalIInv, FinalizeReachIInv, FinalizeTerminalsIInv, FinalizeBackwardIInv,
     RefreshAverageReachIInv, ExportSamplesIInv DEF ReportsInv
<1>1. CASE ComputeTerminalCfvs(ok)
  <2>1. pc' \in {"backward", "idle", "dead"} /\ outcome' # "returned"
        /\ UNCHANGED <<call, target>>
    BY <1>0, <1>1, GotoFacts DEF ComputeTerminalCfvs
  <2> QED BY <1>0, <1>1, <2>1, SweepReportsInv DEF ComputeTerminalCfvs
<1>2. CASE FinalizeReach(ok)
  <2>1. pc' \in {"finalizeTerminal", "idle", "dead"} /\ outcome' # "returned"
        /\ UNCHANGED <<call, target>>
    BY <1>0, <1>2, GotoFacts DEF FinalizeReach
  <2> QED BY <1>0, <1>2, <2>1, SweepReportsInv DEF FinalizeReach
<1>3. CASE FinalizeTerminals(ok)
  <2>1. pc' \in {"finalizeBackward", "idle", "dead"} /\ outcome' # "returned"
        /\ UNCHANGED <<call, target>>
    BY <1>0, <1>3, GotoFacts DEF FinalizeTerminals
  <2> QED BY <1>0, <1>3, <2>1, SweepReportsInv DEF FinalizeTerminals
<1>4. CASE FinalizeBackward(ok)
  <2>1. pc' \in {"bestResponse", "idle", "dead"} /\ outcome' # "returned"
        /\ UNCHANGED <<call, target>>
    BY <1>0, <1>4, GotoFacts DEF FinalizeBackward
  <2> QED BY <1>0, <1>4, <2>1, SweepReportsInv DEF FinalizeBackward
<1>5. CASE RefreshAverageReach(ok)
  <2>1. pc' \in {"export", "idle", "dead"} /\ outcome' # "returned"
        /\ UNCHANGED <<call, target>>
    BY <1>0, <1>5, GotoFacts DEF RefreshAverageReach
  <2> QED BY <1>0, <1>5, <2>1, SweepReportsInv DEF RefreshAverageReach
<1>6. CASE ExportSamples(ok)
  <2>1. pc = "export" /\ call = "sample"
    BY <1>0, <1>6 DEF ExportSamples, IInv, CallInv, Sampling
  <2>2. pc' \in {"idle", "dead"} /\ UNCHANGED <<call, target>>
    BY <1>0, <1>6, GotoFacts DEF ExportSamples, Return
  <2> QED BY <1>0, <1>6, <2>1, <2>2, SweepReportsInv DEF ExportSamples
<1> QED BY <1>1, <1>2, <1>3, <1>4, <1>5, <1>6

\* An iteration that ends is checked at the limit at the latest, so Solve never
\* returns without a check.
LEMMA BackwardReportsInv ==
  ASSUME ReportsInv, NEW ok \in BOOLEAN, Backward(ok) PROVE ReportsInv'
<1>0. /\ IInv /\ IInv' /\ pc = "backward" /\ hero \in {0, 1}
      /\ iterations \in Nat /\ target \in Nat /\ call \in {"run", "solve"}
      /\ checkpoints \in Seq(Measure)
      /\ UNCHANGED <<checkpoints, sumStrategy, target, call>>
  BY BackwardIInv DEF ReportsInv, IInv, TypeOK, CallInv, Training, Player, Backward, Goto,
     CompleteIteration
<1>1. CASE ~ok
  <2>1. pc' \in {"idle", "dead"} /\ outcome' # "returned" /\ UNCHANGED <<iterations, result>>
    BY <1>0, <1>1, GotoFacts DEF Backward
  <2> QED BY <1>0, <2>1, SweepReportsInv DEF Training, Finalizing
<1>2. CASE ok /\ hero = 0
  <2>1. pc' = "forward" /\ outcome' = outcome /\ UNCHANGED <<iterations, result>>
    BY <1>2 DEF Backward
  <2>2. outcome' # "returned" BY <1>0, <2>1 DEF IInv, CallInv
  <2> QED BY <1>0, <2>1, <2>2, SweepReportsInv DEF Training, Finalizing
<1>3. CASE ok /\ hero = 1 /\ call = "run"
  <2>1. CompleteIteration BY <1>3 DEF Backward
  <2>2. pc' # "new" BY <1>3, <2>1 DEF CompleteIteration, Return
  <2> QED BY <1>0, <1>3, <2>2 DEF ReportsInv, SolveInv, SolveReports
<1>4. CASE ok /\ hero = 1 /\ call = "solve"
  <2>1. CompleteIteration BY <1>4 DEF Backward
  <2>2. iterations < target /\ iterations' = iterations + 1 /\ outcome = "running"
    BY <1>0, <1>4, <2>1 DEF ReportsInv, SolveInv, CompleteIteration, IInv, CallInv, Training
  <2>3. \/ pc' = "finalizeReach" /\ outcome' = outcome
        \/ pc' = "forward" /\ outcome' = outcome /\ iterations' # target
    <3>1. ShouldCheck(iterations') \/ iterations' # target
      BY DEF ShouldCheck
    <3>2. ~ShouldCheck(iterations') => ~(iterations' >= target)
      BY <1>0, <2>2 DEF ShouldCheck
    <3>3. CASE ShouldCheck(iterations')
      BY <1>4, <2>1, <3>3 DEF CompleteIteration
    <3>4. CASE ~ShouldCheck(iterations')
      BY <1>4, <2>1, <3>1, <3>2, <3>4 DEF CompleteIteration
    <3> QED BY <3>3, <3>4
  <2>4. \A i \in 1 .. Len(checkpoints) :
           /\ ~checkpoints[i].converged /\ checkpoints[i].iterations <= iterations
           /\ checkpoints[i].iterations \in Nat
    <3>1. \A i \in 1 .. Len(checkpoints) : checkpoints[i] \in Measure
      BY <1>0
    <3>2. \A i \in 1 .. Len(checkpoints) : checkpoints[i].iterations \in Nat
      BY <3>1 DEF Measure
    <3> QED BY <1>0, <1>4, <3>2 DEF ReportsInv, SolveInv, Training
  <2>5. \A i \in 1 .. Len(checkpoints') :
           /\ ~checkpoints'[i].converged
           /\ checkpoints'[i].iterations < iterations' /\ checkpoints'[i].iterations <= iterations'
    BY <1>0, <2>2, <2>4
  <2>6. CheckpointsInv' BY <1>0, <1>4 DEF ReportsInv, SolveInv, CheckpointsInv
  <2>7. iterations' <= target' /\ (pc' = "forward" => iterations' < target')
    BY <1>0, <2>2, <2>3
  <2>8. SolveInv'
    BY <2>3, <2>5, <2>6, <2>7 DEF SolveInv, Training, Finalizing
  <2> QED BY <1>0, <2>2, <2>3, <2>8 DEF ReportsInv, SolveReports
<1> QED BY <1>0, <1>1, <1>2, <1>3, <1>4

\* A check is of a later iteration than the ones before; Solve goes on only when
\* it has not converged and the limit is not reached.
LEMMA BestResponseReportsInv ==
  ASSUME ReportsInv, NEW ok \in BOOLEAN, NEW converged \in BOOLEAN, BestResponse(ok, converged)
  PROVE  ReportsInv'
<1>0. /\ IInv /\ IInv' /\ pc = "bestResponse"
      /\ iterations \in Nat /\ target \in Nat /\ call \in {"solve", "exploitability"}
      /\ checkpoints \in Seq(Measure)
      /\ UNCHANGED <<iterations, sumStrategy>>
  BY BestResponseIInv DEF ReportsInv, IInv, TypeOK, CallInv, Finalizing, BestResponse, tables, counts
<1>1. CASE ~ok
  <2>1. Goto(ok, "idle") /\ UNCHANGED <<result, checkpoints>> BY <1>1 DEF BestResponse
  <2>2. pc' \in {"idle", "dead"} /\ outcome' # "returned" /\ UNCHANGED <<call, target>>
    BY <1>0, <1>1, <2>1, GotoFacts
  <2> QED BY <1>0, <2>1, <2>2, SweepReportsInv DEF Training, Finalizing
<1>2. CASE ok /\ call # "solve"
  <2>1. call' = call /\ pc' # "new" BY <1>2 DEF BestResponse, Return
  <2> QED BY <1>0, <1>2, <2>1 DEF ReportsInv, SolveInv, SolveReports
<1>3. CASE ok /\ call = "solve"
  <2> DEFINE measure == [iterations |-> iterations, measured |-> sumStrategy,
                         converged |-> converged]
  <2>1. /\ result' = measure /\ checkpoints' = Append(checkpoints, measure)
        /\ UNCHANGED <<call, target>>
        /\ \/ pc' = "forward" /\ outcome' = outcome /\ ~converged /\ iterations < target
           \/ pc' = "idle" /\ (converged \/ ~(iterations < target))
    BY <1>3 DEF BestResponse, Return
  <2>2. /\ iterations <= target
        /\ \A i \in 1 .. Len(checkpoints) :
             ~checkpoints[i].converged /\ checkpoints[i].iterations < iterations
    BY <1>0, <1>3 DEF ReportsInv, SolveInv, Finalizing
  <2>3. measure \in Measure BY <1>0 DEF IInv, TypeOK, Measure
  <2> DEFINE n == Len(checkpoints)
  <2>4. /\ n \in Nat /\ Len(checkpoints') = n + 1 /\ checkpoints'[n + 1] = measure
        /\ \A i \in 1 .. n : checkpoints'[i] = checkpoints[i]
    <3> HIDE DEF measure
    <3> QED BY <1>0, <2>1, <2>3
  <2>5. CheckpointsInv'
    <3> SUFFICES ASSUME NEW i \in 1 .. n
                 PROVE  /\ ~checkpoints[i].converged
                        /\ checkpoints[i].iterations < checkpoints'[i + 1].iterations
      BY <2>4 DEF CheckpointsInv
    <3>1. CASE i = n
      BY <2>2, <2>4, <3>1
    <3>2. CASE i # n
      <4>1. i \in 1 .. n - 1 /\ i + 1 \in 1 .. n
        BY <2>4, <3>2
      <4> QED BY <1>3, <2>2, <2>4, <4>1 DEF ReportsInv, SolveInv, CheckpointsInv
    <3> QED BY <3>1, <3>2
  <2>6. CASE pc' = "forward"
    <3>1. /\ iterations < target /\ ~converged /\ outcome' # "returned"
      BY <1>0, <2>1, <2>6 DEF IInv, CallInv
    <3>2. \A i \in 1 .. n + 1 :
             ~checkpoints'[i].converged /\ checkpoints'[i].iterations <= iterations
      <4> TAKE i \in 1 .. n + 1
      <4>1. CASE i = n + 1 BY <1>0, <2>4, <3>1, <4>1
      <4>2. CASE i # n + 1
        <5>1. i \in 1 .. n BY <2>4, <4>2
        <5>2. checkpoints[i] \in Measure BY <1>0, <5>1
        <5>3. checkpoints[i].iterations \in Nat BY <5>2 DEF Measure
        <5> QED BY <1>0, <2>2, <2>4, <5>1, <5>3
      <4> QED BY <4>1, <4>2
    <3> QED BY <1>0, <2>1, <2>4, <2>5, <2>6, <3>1, <3>2
            DEF ReportsInv, SolveInv, SolveReports, Training, Finalizing
  <2>7. CASE pc' = "idle"
    <3>1. /\ result'.iterations = iterations /\ result'.measured = sumStrategy
          /\ result'.converged \/ iterations = target
          /\ checkpoints' # <<>> /\ result' = checkpoints'[Len(checkpoints')]
      BY <1>0, <2>1, <2>2, <2>4, <2>7
    <3>2. SolveReports'
      BY <1>0, <2>1, <2>2, <2>5, <3>1 DEF SolveReports, CheckpointsInv
    <3> QED BY <1>0, <2>5, <2>7, <3>2 DEF ReportsInv, SolveInv, Training, Finalizing
  <2> QED BY <2>1, <2>6, <2>7
<1> QED BY <1>1, <1>2, <1>3

LEMMA NextReportsInv == ASSUME ReportsInv, [Next]_vars PROVE ReportsInv'
<1>1. CASE Calls BY <1>1, CallsReportsInv
<1>2. ASSUME NEW ok \in BOOLEAN, Sweep(ok) PROVE ReportsInv'
  BY <1>2, ForwardReportsInv, BackwardReportsInv, BestResponseReportsInv, OtherSweepsReportsInv
     DEF Sweep
<1>3. CASE UNCHANGED vars
  <2>1. IInv' BY <1>3, NextIInv DEF ReportsInv
  <2> QED BY <1>3, <2>1 DEF vars, tables, counts, report, control, ReportsInv, SolveInv,
             SolveReports, CheckpointsInv, Training, Finalizing
<1> QED BY <1>1, <1>2, <1>3 DEF Next

\* Solve returns the measure of its last iteration, on the average as it is: the
\* last checkpoint, the only one that may have converged, and at the limit if it
\* has not, for any limit, check interval and number of sweeps that throw.
THEOREM SpecSolveReports == Spec => []SolveReports
<1>1. Init => ReportsInv BY InitReportsInv
<1>2. ReportsInv /\ [Next]_vars => ReportsInv' BY NextReportsInv
<1>3. ReportsInv => SolveReports BY DEF ReportsInv
<1> QED BY <1>1, <1>2, <1>3, PTL DEF Spec
==============================================================================

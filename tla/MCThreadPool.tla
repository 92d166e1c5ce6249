---------------------------- MODULE MCThreadPool -----------------------------
(* Instances of ThreadPool for TLC: the workers are model values, and the  *)
(* arguments reach every path of ParallelFor: nothing to do, one chunk run *)
(* by the caller, a last chunk that is shorter, and grain 0.               *)
EXTENDS ThreadPool, TLC

MCCounts == {0, 1, 3}
MCGrains == {0, 2}

\* The workers run the same code and nothing orders them.
Symmetry == Permutations(Workers)
==============================================================================

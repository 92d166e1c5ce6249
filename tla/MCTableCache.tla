---------------------------- MODULE MCTableCache ----------------------------
EXTENDS TableCache, TLC

\* A file of another version, a short one, one with bytes too many, a good one.
MCFound ==
  {[valid |-> FALSE, size |-> FullSize], [valid |-> TRUE, size |-> TableSize],
   [valid |-> TRUE, size |-> FullSize + 1], [valid |-> TRUE, size |-> FullSize]}

Symmetry == Permutations(Procs) \cup Permutations(Inodes)
=============================================================================

-------------------------- MODULE MCTerminalCaches --------------------------
EXTENDS TerminalCaches, TLC

Symmetry == Permutations(Threads) \cup Permutations(Addresses)
=============================================================================

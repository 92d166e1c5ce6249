---------------------------- MODULE MCCfrSession -----------------------------
(***************************************************************************)
(* Sessions of a few calls, two of whose sweeps may throw.                 *)
(***************************************************************************)
EXTENDS CfrSession

MCChunks == {0, 1, 2}
==============================================================================

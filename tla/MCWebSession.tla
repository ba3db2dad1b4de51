---------------------------- MODULE MCWebSession ----------------------------
(***************************************************************************)
(* Small instances of WebSession for TLC.                                  *)
(***************************************************************************)
EXTENDS WebSession, TLC

CONSTANTS b1, b2, f1, f2, tab1, s1, s2

\* Callbacks are alike, so are calls of one kind and states.
Symmetry == Permutations(Callbacks) \cup Permutations(Fetches) \cup Permutations(States)
=============================================================================

------------------------- MODULE MCChromiumManager -------------------------
(***************************************************************************)
(* Small instances of ChromiumManager.                                     *)
(***************************************************************************)
EXTENDS ChromiumManager, TLC

Symmetry == Permutations(Callers) \cup Permutations(Starters)
=============================================================================

--------------------------- MODULE MCCaptureTools ---------------------------
(***************************************************************************)
(* Small instances of CaptureTools.                                        *)
(***************************************************************************)
EXTENDS CaptureTools, TLC

Symmetry == Permutations(Calls) \cup Permutations(Sessions)
              \cup Permutations(Requests)
=============================================================================

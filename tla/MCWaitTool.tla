----------------------------- MODULE MCWaitTool -----------------------------
(***************************************************************************)
(* Small instances of WaitTool.                                            *)
(***************************************************************************)
EXTENDS WaitTool
=============================================================================

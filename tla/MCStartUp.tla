------------------------------ MODULE MCStartUp ------------------------------
(* StartUp for TLC. *)
EXTENDS StartUp, TLC

CONSTANTS l1, l2, l3, c1, c2
=============================================================================

---------------------------- MODULE MCChainTools ----------------------------
(* Instances of ChainTools for TLC.                                        *)
EXTENDS ChainTools, TLC

CONSTANTS c1, c2, c3, s1, s2

MCText == <<"ascii", "other">>

Symmetric == Permutations({s1, s2})
=============================================================================

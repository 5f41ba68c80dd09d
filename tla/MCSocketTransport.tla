------------------------- MODULE MCSocketTransport -------------------------
(***************************************************************************)
(* Small instances of SocketTransport.                                     *)
(***************************************************************************)
EXTENDS SocketTransport, TLC

Symmetry == Permutations(Clients)
=============================================================================

---------------------------- MODULE MCDaemonProxy ----------------------------
(* DaemonProxy for TLC. *)
EXTENDS DaemonProxy, TLC

CONSTANTS a, b
=============================================================================

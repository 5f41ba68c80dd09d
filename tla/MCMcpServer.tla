---------------------------- MODULE MCMcpServer ----------------------------
(***************************************************************************)
(* A small instance of McpServer: one client has room for the handshake    *)
(* and two calls at a time, the other for the handshake and one call.      *)
(***************************************************************************)
EXTENDS McpServer, TLC

CONSTANTS a, b

MCMaxRequests == a :> 3 @@ b :> 2
=============================================================================

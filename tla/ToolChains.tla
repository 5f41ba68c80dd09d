----------------------------- MODULE ToolChains -----------------------------
(***************************************************************************)
(* What the tools whose calls are chains of commands have in common        *)
(* (modules InputTools, ElementQueries, EmulationTool): a call sends a     *)
(* command to the session of its tab, and the callback of the command      *)
(* sends the next one or ends the call.  Calls of several clients run at   *)
(* the same time, on one tab or on different ones.                         *)
(***************************************************************************)
EXTENDS Integers, Sequences, FiniteSets

CONSTANTS Calls,        \* calls of the tools
          Sessions,     \* one for each tab
          NoSession

ASSUME ChainAssumption == NoSession \notin Sessions

VARIABLES
  attached,   \* is_attached_ of each session
  tool,       \* the tool of each call
  tab,        \* the session of each call
  at,         \* the command whose answer a call waits for; or "delay": it
              \* waits for a timer; "nothing": for nothing that can come;
              \* "new", "ok" or "error": it does not run
  excuse      \* history: a command of the call failed, its arguments were
              \* wrong, or the element it asked for is not there
chainVars == <<attached, tool, tab, at, excuse>>

Ended == {"ok", "error"}

ChainsTypeOK ==
  /\ attached \in [Sessions -> BOOLEAN]
  /\ tab \in [Calls -> Sessions \cup {NoSession}]
  /\ excuse \in [Calls -> BOOLEAN]

ChainsInit ==
  /\ attached = [s \in Sessions |-> TRUE]
  /\ tool = [c \in Calls |-> "none"]
  /\ tab = [c \in Calls |-> NoSession]
  /\ at = [c \in Calls |-> "new"]
  /\ excuse = [c \in Calls |-> FALSE]

Running(c) == at[c] \notin Ended \cup {"new"}
Waits(c) == Running(c) /\ at[c] \notin {"delay", "nothing"}

(* The commands of a closed tab fail at once, before anything else happens *)
(* on the UI thread.                                                       *)
Runnable == \A c \in Calls : Waits(c) => attached[tab[c]]

(* Call c of tool t arrives for session s and sends its first command.     *)
Execute(c, t, s, first) ==
  /\ Runnable
  /\ at[c] = "new"
  /\ tool' = [tool EXCEPT ![c] = t]
  /\ tab' = [tab EXCEPT ![c] = s]
  /\ at' = [at EXCEPT ![c] = first]
  /\ UNCHANGED attached

(* Execute returns early: wrong arguments.                                 *)
Refused(c, s) ==
  /\ Execute(c, "refused", s, "error")
  /\ excuse' = [excuse EXCEPT ![c] = TRUE]

-----------------------------------------------------------------------------
(* What the agent answers to a command: external.  A query that finds      *)
(* nothing returns the node 0, a script that throws the exception beside   *)
(* its value.                                                              *)
Results(cmd) ==
  CASE cmd \in {"root", "root2"}   -> {[root |-> 1]}
    [] cmd \in {"query", "query2"} -> {[nodeId |-> 0], [nodeId |-> 1]}
    [] cmd \in {"box", "box2"}     -> {[model |-> 1]}
    [] cmd = "evaluate" -> {[result |-> [value |-> 1]],
                            [result |-> [value |-> 1], exceptionDetails |-> 1]}
    [] OTHER                       -> {[done |-> 1]}

(* What the callback of a tool is run with.                                *)
Response(result) == result
ErrorResponse == [error |-> 1]
HasCdpError(response) == "error" \in DOMAIN response

Responses(c) ==
  {ErrorResponse} \cup
    IF attached[tab[c]] THEN {Response(r) : r \in Results(at[c])} ELSE {}

(* A command of call c is answered, and its callback takes c to "next".    *)
Answered(c, response, next) ==
  /\ Waits(c)
  /\ attached[tab[c]] => Runnable
  /\ at' = [at EXCEPT ![c] = next]
  /\ excuse' = [excuse EXCEPT ![c] =
                  @ \/ HasCdpError(response) \/ response = Response([nodeId |-> 0])]
  /\ UNCHANGED <<attached, tool, tab>>

(* The tab is closed.  What waits for it fails next: see Runnable.         *)
AgentHostClosed(s) ==
  /\ Runnable
  /\ attached[s]
  /\ attached' = [attached EXCEPT ![s] = FALSE]
  /\ UNCHANGED <<tool, tab, at, excuse>>
=============================================================================

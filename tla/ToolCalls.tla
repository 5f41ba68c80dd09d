----------------------------- MODULE ToolCalls -----------------------------
(***************************************************************************)
(* What the tools that listen to events have in common (modules            *)
(* CaptureTools and DomainTools compose): calls of several clients,        *)
(* each on the session of a tab, that send commands and are answered by    *)
(* the callbacks of these commands.  There is one object of each tool for  *)
(* all clients.                                                            *)
(*                                                                         *)
(* The commands of a session may be answered in any order.  Those of a     *)
(* closed tab fail at once, all of them before anything else happens on    *)
(* the UI thread: this is the walk of AgentHostClosed, and the refusal of  *)
(* commands by a session that is not attached.                             *)
(***************************************************************************)

CONSTANTS Calls,        \* calls of the tools
          Sessions,     \* one for each tab
          NoSession

ASSUME ToolAssumption == NoSession \notin Sessions

VARIABLES
  attached,   \* is_attached_ of each session
  sent,       \* the commands of each session that are not answered yet
  tool,       \* the tool of each call
  tab,        \* the session of each call
  status,     \* of each call
  orderly     \* history: the calls of this tool came one at a time, all on
              \* one tab, which is open
callVars == <<attached, sent, tool, tab, status, orderly>>

Tools == {"network", "console", "trace",         \* CaptureTools
          "intercept", "coverage", "capture"}     \* DomainTools

CallsTypeOK ==
  /\ attached \in [Sessions -> BOOLEAN]
  /\ tool \in [Calls -> Tools \cup {"none"}]
  /\ tab \in [Calls -> Sessions \cup {NoSession}]
  /\ status \in [Calls -> {"new", "running", "ok", "error"}]
  /\ orderly \in [Tools -> BOOLEAN]

CallsInit ==
  /\ attached = [s \in Sessions |-> TRUE]
  /\ sent = [s \in Sessions |-> {}]
  /\ tool = [c \in Calls |-> "none"]
  /\ tab = [c \in Calls |-> NoSession]
  /\ status = [c \in Calls |-> "new"]
  /\ orderly = [t \in Tools |-> TRUE]

(* No walk is under way.                                                   *)
Runnable == \A s \in Sessions : attached[s] \/ sent[s] = {}

(* Call c of tool t arrives for session s, and is running or at its end.   *)
Call(c, t, s, state) ==
  /\ Runnable
  /\ status[c] = "new"
  /\ tool' = [tool EXCEPT ![c] = t]
  /\ tab' = [tab EXCEPT ![c] = s]
  /\ status' = [status EXCEPT ![c] = state]
  /\ orderly' = [orderly EXCEPT ![t] =
       /\ @
       /\ attached[s]
       /\ \A d \in Calls : tool[d] = t => tab[d] = s /\ status[d] # "running"]
  /\ UNCHANGED attached

(* SendCdpCommand; "from" is what its callback belongs to.                 *)
Send(s, cmd, from) ==
  sent' = [sent EXCEPT ![s] = @ \cup {[cmd |-> cmd, from |-> from]}]

(* This command of s is answered.                                          *)
Answered(s, cmd, from, ok) ==
  /\ attached[s] => Runnable
  /\ ok => attached[s]
  /\ [cmd |-> cmd, from |-> from] \in sent[s]
  /\ sent' = [sent EXCEPT ![s] = @ \ {[cmd |-> cmd, from |-> from]}]
  /\ UNCHANGED <<attached, tool, tab, orderly>>

Finish(c, ok) ==
  status' = [status EXCEPT ![c] = IF ok THEN "ok" ELSE "error"]

(* An event of s is dispatched.                                            *)
EventOf(s) == Runnable /\ attached[s]

Outstanding(cmd) ==
  {s \in Sessions : \E command \in sent[s] : command.cmd = cmd}

(* All calls of tool t have ended.                                         *)
AtRest(t) == \A c \in Calls : tool[c] = t => status[c] # "running"

(* The tab is closed.  The walk follows: see Answered.                     *)
AgentHostClosed(s) ==
  /\ EventOf(s)
  /\ attached' = [attached EXCEPT ![s] = FALSE]
  /\ orderly' = [t \in Tools |->
                   orderly[t] /\ \A c \in Calls : tool[c] = t => tab[c] # s]
  /\ UNCHANGED <<sent, tool, tab, status>>
=============================================================================

---------------------------- MODULE DomainCalls ----------------------------
(***************************************************************************)
(* Tools that switch domains of the agent on and off (modules              *)
(* InterceptTool, CoverageTool, SessionCapture).  The agent, which is      *)
(* external, carries out the commands of a tab in the order in which they  *)
(* are sent; the answers come later, and events may come before them.      *)
(***************************************************************************)
EXTENDS ToolCalls, FiniteSets

CONSTANT Requests   \* what pages load, by requestId

ASSUME RequestAssumption == Requests \cap Calls = {}

VARIABLE on         \* external: what is switched on in each tab

Switches == {"Fetch", "Network", "CSS", "ruleUsage", "Profiler", "precise"}

DomainsTypeOK == on \in [Sessions -> SUBSET Switches]

DomainsInit == on = [s \in Sessions |-> {}]

(* A command that the agent carries out or refuses.                        *)
Command(s, cmd, from, ok) ==
  /\ ok => attached[s]
  /\ Send(s, cmd, [of |-> from, ok |-> ok])

SwitchesOn(s, cmd, from, what, ok) ==
  /\ Command(s, cmd, from, ok)
  /\ on' = [on EXCEPT ![s] = IF ok THEN @ \cup {what} ELSE @]

(* Switching off is not refused by a tab that is open.                     *)
SwitchesOff(s, cmd, from, what) ==
  /\ Command(s, cmd, from, attached[s])
  /\ on' = [on EXCEPT ![s] = @ \ what]

(* The answer; if the tab has closed meanwhile, it is an error.            *)
Reply(s, cmd, from, ok) ==
  \E done \in BOOLEAN :
    /\ ok = (done /\ attached[s])
    /\ Answered(s, cmd, [of |-> from, ok |-> done], ok)

DomainsGone(s) == on' = [on EXCEPT ![s] = {}]
=============================================================================

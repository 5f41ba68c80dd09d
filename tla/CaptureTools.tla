---------------------------- MODULE CaptureTools ----------------------------
(***************************************************************************)
(* The capturing tools together: they share the sessions, whose commands   *)
(* are answered in order and which a closed tab ends for all of them.      *)
(***************************************************************************)
EXTENDS NetworkCapture, ConsoleCapture, TraceTool

vars == <<callVars, networkVars, consoleVars, traceVars>>

TypeOK == CallsTypeOK /\ NetworkTypeOK /\ ConsoleTypeOK /\ TraceTypeOK

Init == CallsInit /\ NetworkInit /\ ConsoleInit /\ TraceInit

CloseTab(s) ==
  /\ AgentHostClosed(s)
  /\ RecorderGone(s)
  /\ UNCHANGED <<networkVars, consoleVars>>

Next ==
  \/ NetworkNext /\ UNCHANGED <<consoleVars, traceVars>>
  \/ ConsoleNext /\ UNCHANGED <<networkVars, traceVars>>
  \/ TraceNext /\ UNCHANGED <<networkVars, consoleVars>>
  \/ \E s \in Sessions : CloseTab(s)

Spec == Init /\ [][Next]_vars

-----------------------------------------------------------------------------
(* Clients that wait for their answers, one tool each, leave nothing behind*)
(* on their tab: after a stop no handler of the tool is registered, the    *)
(* domain it enabled is off, and its flag agrees with the agent.           *)
OrderlyStopsCleanUp == OrderlyCaptureEnds /\ OrderlyConsoleStops /\ OrderlyTraceEnds
=============================================================================

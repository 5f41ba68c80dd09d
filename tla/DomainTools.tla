---------------------------- MODULE DomainTools ----------------------------
(***************************************************************************)
(* The tools that switch domains on and off, together: they share the      *)
(* sessions, which a closed tab ends for all of them.                      *)
(***************************************************************************)
EXTENDS InterceptTool, CoverageTool, SessionCapture

vars == <<callVars, on, interceptVars, coverageVars, captureVars>>

TypeOK ==
  /\ CallsTypeOK /\ DomainsTypeOK
  /\ InterceptTypeOK /\ CoverageTypeOK /\ CaptureTypeOK

Init ==
  /\ CallsInit /\ DomainsInit
  /\ InterceptInit /\ CoverageInit /\ CaptureInit

(* The loads of a closed tab end without a word.                           *)
CloseTab(s) ==
  /\ AgentHostClosed(s)
  /\ DomainsGone(s)
  /\ PausedGone(s)
  /\ UNCHANGED <<coverageVars, captureVars>>

Next ==
  \/ InterceptNext /\ UNCHANGED <<coverageVars, captureVars>>
  \/ CoverageNext /\ UNCHANGED <<interceptVars, captureVars>>
  \/ CaptureNext /\ UNCHANGED <<interceptVars, coverageVars>>
  \/ \E s \in Sessions : CloseTab(s)

Spec == Init /\ [][Next]_vars

-----------------------------------------------------------------------------
(* src/src/tools/network_intercept_tool.h says that a request no rule      *)
(* matches is passed on (line 91), and that each request that is paused    *)
(* must be answered (101); then it waits only if the agent refused the     *)
(* answer.                                                                 *)
EveryPausedRequestGoesOn ==
  \A s \in Sessions : paused[s] \subseteq refused
=============================================================================

---------------------------- MODULE CoverageTool ----------------------------
(***************************************************************************)
(* The tool coverage (src/src/tools/coverage_tool.cc): two flags for all   *)
(* tabs, and chains of commands that switch tracking on and off in one.    *)
(* What is measured is left out, for it is never returned: the stops look  *)
(* it up with the key "result", as a dictionary, and the answers to        *)
(* CSS.stopRuleUsageTracking and Profiler.takePreciseCoverage have none.   *)
(***************************************************************************)
EXTENDS DomainCalls

VARIABLES css_tracking, js_tracking

coverageVars == <<css_tracking, js_tracking>>

CoverageTypeOK == css_tracking \in BOOLEAN /\ js_tracking \in BOOLEAN

CoverageInit == css_tracking = FALSE /\ js_tracking = FALSE

-----------------------------------------------------------------------------
(* Refused at once, with an error: a start while its tracking is on, a stop*)
(* while it is off.  Whatever the flags are, there are such calls.         *)
NothingToDo(c, s) ==
  /\ Call(c, "coverage", s, "error")
  /\ UNCHANGED <<sent, on, coverageVars>>

ExecuteStartCSS(c, s, ok) ==
  /\ ~css_tracking
  /\ Call(c, "coverage", s, "running")
  /\ SwitchesOn(s, "CSS.enable", c, "CSS", ok)
  /\ UNCHANGED coverageVars

ExecuteStopCSS(c, s, ok) ==
  /\ css_tracking
  /\ Call(c, "coverage", s, "running")
  /\ Command(s, "CSS.stopRuleUsageTracking", c, ok)
  /\ on' = [on EXCEPT ![s] = IF ok THEN @ \ {"ruleUsage"} ELSE @]
  /\ UNCHANGED coverageVars

ExecuteStartJS(c, s, ok) ==
  /\ ~js_tracking
  /\ Call(c, "coverage", s, "running")
  /\ SwitchesOn(s, "Profiler.enable", c, "Profiler", ok)
  /\ UNCHANGED coverageVars

ExecuteStopJS(c, s, ok) ==
  /\ js_tracking
  /\ Call(c, "coverage", s, "running")
  /\ Command(s, "Profiler.takePreciseCoverage", c, ok)
  /\ UNCHANGED <<on, coverageVars>>

-----------------------------------------------------------------------------
(* The answer to one command, followed by the next command of the chain,   *)
(* which the agent carries out, if done, and switches "what" on.           *)
OnDomainEnabled(s, c, first, second, what, done) ==
  \E answer \in [cmd : {first}, from : [of : {c}, ok : BOOLEAN]] :
    LET ok == answer.from.ok /\ attached[s]
        next == [cmd |-> second, from |-> [of |-> c, ok |-> done]]
    IN  /\ attached[s] => Runnable
        /\ answer \in sent[s]
        /\ done => ok
        /\ sent' = [sent EXCEPT ![s] =
                      (@ \ {answer}) \cup (IF ok THEN {next} ELSE {})]
        /\ on' = [on EXCEPT ![s] = IF done THEN @ \cup {what} ELSE @]
        /\ IF ok THEN UNCHANGED status ELSE Finish(c, FALSE)
        /\ UNCHANGED <<attached, tool, tab, orderly, coverageVars>>

OnCssEnabled(s, c, done) ==
  OnDomainEnabled(s, c, "CSS.enable", "CSS.startRuleUsageTracking",
                  "ruleUsage", done)

OnProfilerEnabled(s, c, done) ==
  OnDomainEnabled(s, c, "Profiler.enable", "Profiler.startPreciseCoverage",
                  "precise", done)

OnCssTrackingStarted(s, c, ok) ==
  /\ Reply(s, "CSS.startRuleUsageTracking", c, ok)
  /\ Finish(c, ok)
  /\ css_tracking' = (css_tracking \/ ok)
  /\ UNCHANGED <<on, js_tracking>>

OnJsCoverageStarted(s, c, ok) ==
  /\ Reply(s, "Profiler.startPreciseCoverage", c, ok)
  /\ Finish(c, ok)
  /\ js_tracking' = (js_tracking \/ ok)
  /\ UNCHANGED <<on, css_tracking>>

(* The answer to a stop, followed by the command that switches off, which  *)
(* nobody waits for.                                                       *)
OnStopped(s, c, first, second, what) ==
  \E answer \in [cmd : {first}, from : [of : {c}, ok : BOOLEAN]] :
    /\ attached[s] => Runnable
    /\ answer \in sent[s]
    /\ sent' = [sent EXCEPT ![s] = (@ \ {answer}) \cup
         {[cmd |-> second, from |-> [of |-> c, ok |-> attached[s]]]}]
    /\ on' = [on EXCEPT ![s] = @ \ what]
    /\ Finish(c, FALSE)
    /\ UNCHANGED <<attached, tool, tab, orderly>>

(* Bug variant: after an error the domain stays enabled.                   *)
OnJsCoverageTaken_ErrorReturns(s, c) ==
  /\ \/ OnStopped(s, c, "Profiler.takePreciseCoverage",
                  "Profiler.stopPreciseCoverage", {"precise"})
     \/ /\ Reply(s, "Profiler.takePreciseCoverage", c, FALSE)
        /\ Finish(c, FALSE)
        /\ UNCHANGED on
  /\ js_tracking' = FALSE
  /\ UNCHANGED css_tracking

OnCssTrackingStopped(s, c) ==
  /\ OnStopped(s, c, "CSS.stopRuleUsageTracking", "CSS.disable",
               {"CSS", "ruleUsage"})
  /\ css_tracking' = FALSE
  /\ UNCHANGED js_tracking

(* Profiler.disable, which the header lists, is not sent.                  *)
OnJsCoverageTaken(s, c) ==
  /\ OnStopped(s, c, "Profiler.takePreciseCoverage",
               "Profiler.stopPreciseCoverage", {"precise"})
  /\ js_tracking' = FALSE
  /\ UNCHANGED css_tracking

OnSwitchedOff(s, c, ok) ==
  /\ \/ Reply(s, "CSS.disable", c, ok)
     \/ Reply(s, "Profiler.stopPreciseCoverage", c, ok)
  /\ UNCHANGED <<status, on, coverageVars>>

CoverageNext ==
  \E s \in Sessions, c \in Calls :
    \/ NothingToDo(c, s)
    \/ \E ok \in BOOLEAN :
         \/ ExecuteStartCSS(c, s, ok) \/ ExecuteStopCSS(c, s, ok)
         \/ ExecuteStartJS(c, s, ok) \/ ExecuteStopJS(c, s, ok)
         \/ OnCssEnabled(s, c, ok) \/ OnProfilerEnabled(s, c, ok)
         \/ OnCssTrackingStarted(s, c, ok) \/ OnJsCoverageStarted(s, c, ok)
         \/ OnSwitchedOff(s, c, ok)
    \/ OnCssTrackingStopped(s, c)
    \/ OnJsCoverageTaken(s, c)

-----------------------------------------------------------------------------
(* One client that waits for its answers: between its calls the flags say  *)
(* what is tracked, also when a command of a start or a stop failed, so    *)
(* that nothing is tracked for ever and a stop is never refused.           *)
OrderlyTracking ==
  (orderly["coverage"] /\ AtRest("coverage")) =>
    \A s \in Sessions :
      /\ "ruleUsage" \in on[s] => css_tracking
      /\ "precise" \in on[s] => js_tracking
=============================================================================

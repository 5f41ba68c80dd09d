--------------------------- MODULE InterceptTool ---------------------------
(***************************************************************************)
(* The tool network_intercept (src/src/tools/network_intercept_tool.cc).   *)
(* Its flag and rules are shared by all clients and tabs; the handler of   *)
(* Fetch.requestPaused is registered with the session of a tab.  A request *)
(* the agent has paused goes on only when a command says so, or when Fetch *)
(* is disabled.  pending_request_ids_ is left out: every id is entered and *)
(* erased by the same task.                                                *)
(***************************************************************************)
EXTENDS DomainCalls, Integers

CONSTANT RuleIds    \* numbers: rules_ is searched in the order of the ids

ASSUME RuleAssumption == RuleIds \subseteq Nat

VARIABLES
  is_intercepting,
  rules,          \* rules_
  fetchHandler,   \* sessions the tool is registered with
  paused,         \* external: requests of each tab that wait for a command
  gone,           \* external: requests that were paused and are not any more
  refused         \* history: requests whose command the agent refused

interceptVars ==
  <<is_intercepting, rules, fetchHandler, paused, gone, refused>>

(* A rule names what it matches, by url pattern and resource type, and     *)
(* what becomes of it.  Only what the user of a rule with the action       *)
(* continue, fulfill or fail puts into it can be wrong, and be refused.    *)
Rule == [action : {"passthrough", "other"}, matches : SUBSET Requests]

NoRule == [action |-> "none"]

InterceptTypeOK ==
  /\ is_intercepting \in BOOLEAN
  /\ rules \in [RuleIds -> Rule \cup {NoRule}]
  /\ fetchHandler \subseteq Sessions
  /\ paused \in [Sessions -> SUBSET Requests]
  /\ gone \subseteq Requests
  /\ refused \subseteq Requests

InterceptInit ==
  /\ is_intercepting = FALSE
  /\ rules = [i \in RuleIds |-> NoRule]
  /\ fetchHandler = {}
  /\ paused = [s \in Sessions |-> {}]
  /\ gone = {}
  /\ refused = {}

-----------------------------------------------------------------------------
HandleEnable(c, s, ok) ==
  /\ Call(c, "intercept", s, "running")
  /\ SwitchesOn(s, "Fetch.enable", c, "Fetch", ok)
  /\ UNCHANGED interceptVars

(* Only now the handler is registered.                                     *)
OnFetchEnabled(s, c, ok) ==
  /\ Reply(s, "Fetch.enable", c, ok)
  /\ Finish(c, ok)
  /\ IF ok
       THEN /\ is_intercepting' = TRUE
            /\ fetchHandler' = fetchHandler \cup {s}
       ELSE UNCHANGED <<is_intercepting, fetchHandler>>
  /\ UNCHANGED <<on, rules, paused, gone, refused>>

HandleDisableAlreadyOff(c, s) ==
  /\ ~is_intercepting
  /\ Call(c, "intercept", s, "ok")
  /\ UNCHANGED <<sent, on, interceptVars>>

(* Session and handler are those of the caller's tab, wherever Fetch is    *)
(* enabled.  What is paused there goes on.                                 *)
HandleDisable(c, s) ==
  /\ is_intercepting
  /\ Call(c, "intercept", s, "running")
  /\ fetchHandler' = fetchHandler \ {s}
  /\ SwitchesOff(s, "Fetch.disable", c, {"Fetch"})
  /\ paused' = [paused EXCEPT ![s] = {}]
  /\ gone' = gone \cup paused[s]
  /\ UNCHANGED <<is_intercepting, rules, refused>>

(* An error counts as success.                                             *)
OnFetchDisabled(s, c, ok) ==
  /\ Reply(s, "Fetch.disable", c, ok)
  /\ Finish(c, TRUE)
  /\ is_intercepting' = FALSE
  /\ UNCHANGED <<on, rules, fetchHandler, paused, gone, refused>>

HandleAddRule(c, s, id, rule) ==
  /\ Call(c, "intercept", s, "ok")
  /\ rules' = [rules EXCEPT ![id] = rule]
  /\ UNCHANGED <<sent, on, is_intercepting, fetchHandler, paused, gone, refused>>

HandleRemoveRule(c, s, id) ==
  /\ Call(c, "intercept", s, IF rules[id] = NoRule THEN "error" ELSE "ok")
  /\ rules' = [rules EXCEPT ![id] = NoRule]
  /\ UNCHANGED <<sent, on, is_intercepting, fetchHandler, paused, gone, refused>>

(* Fetch.continueRequest, fulfillRequest or failRequest is sent for        *)
(* request r of tab s, which goes on, if ok.                               *)
Serve(s, r, from, ok, waiting) ==
  /\ Command(s, "serve", from, ok)
  /\ paused' = [paused EXCEPT ![s] = IF ok THEN waiting \ {r} ELSE waiting]
  /\ gone' = IF ok THEN gone \cup {r} ELSE gone

(* continueRequest, fulfillRequest and failRequest by hand: a request that *)
(* is not paused in the caller's tab is an error of the agent.             *)
HandleManual(c, s, r) ==
  /\ Call(c, "intercept", s, "running")
  /\ \E ok \in BOOLEAN :
       /\ ok => r \in paused[s]
       /\ Serve(s, r, c, ok, paused[s])
  /\ UNCHANGED <<on, is_intercepting, rules, fetchHandler, refused>>

OnSimpleResponse(s, c, ok) ==
  /\ Reply(s, "serve", c, ok)
  /\ Finish(c, ok)
  /\ UNCHANGED <<on, interceptVars>>

-----------------------------------------------------------------------------
Matching(r) == {i \in RuleIds : rules[i] # NoRule /\ r \in rules[i].matches}

(* The first rule that matches decides; without one, the request passes.   *)
ActionFor(r) ==
  IF Matching(r) = {}
    THEN "passthrough"
    ELSE rules[CHOOSE i \in Matching(r) : \A j \in Matching(r) : i <= j].action

Unused(r) == r \notin gone /\ \A s \in Sessions : r \notin paused[s]

(* Bug variant: without a rule that matches nothing is sent.               *)
OnRequestPaused_RulesOnly(s, r) ==
  /\ EventOf(s) /\ "Fetch" \in on[s] /\ Unused(r)
  /\ IF s \in fetchHandler /\ is_intercepting /\ Matching(r) # {}
       THEN \E ok \in {TRUE, ActionFor(r) = "passthrough"} :
              /\ Serve(s, r, r, ok, paused[s] \cup {r})
              /\ refused' = IF ok THEN refused ELSE refused \cup {r}
       ELSE /\ paused' = [paused EXCEPT ![s] = @ \cup {r}]
            /\ UNCHANGED <<sent, gone, refused>>
  /\ UNCHANGED <<attached, tool, tab, status, orderly, on, is_intercepting,
                 rules, fetchHandler>>

(* A request is paused.  Without the handler, or while the flag is off, it *)
(* stays paused.                                                           *)
OnRequestPaused(s, r) ==
  /\ EventOf(s) /\ "Fetch" \in on[s] /\ Unused(r)
  /\ IF s \in fetchHandler /\ is_intercepting
       THEN \E ok \in {TRUE, ActionFor(r) = "passthrough"} :
              /\ Serve(s, r, r, ok, paused[s] \cup {r})
              /\ refused' = IF ok THEN refused ELSE refused \cup {r}
       ELSE /\ paused' = [paused EXCEPT ![s] = @ \cup {r}]
            /\ UNCHANGED <<sent, gone, refused>>
  /\ UNCHANGED <<attached, tool, tab, status, orderly, on, is_intercepting,
                 rules, fetchHandler>>

(* An error is logged.                                                     *)
OnAutoHandleResponse(s, r, ok) ==
  /\ Reply(s, "serve", r, ok)
  /\ UNCHANGED <<status, on, interceptVars>>

PausedGone(s) ==
  /\ paused' = [paused EXCEPT ![s] = {}]
  /\ gone' = gone \cup paused[s]
  /\ UNCHANGED <<is_intercepting, rules, fetchHandler, refused>>

InterceptNext ==
  \E s \in Sessions :
    \/ \E c \in Calls :
         \/ \E ok \in BOOLEAN :
              \/ HandleEnable(c, s, ok)
              \/ OnFetchEnabled(s, c, ok)
              \/ OnFetchDisabled(s, c, ok)
              \/ OnSimpleResponse(s, c, ok)
         \/ HandleDisableAlreadyOff(c, s)
         \/ HandleDisable(c, s)
         \/ \E id \in RuleIds :
              \/ \E rule \in Rule : HandleAddRule(c, s, id, rule)
              \/ HandleRemoveRule(c, s, id)
         \/ \E r \in Requests : HandleManual(c, s, r)
    \/ \E r \in Requests :
         \/ OnRequestPaused(s, r)
         \/ \E ok \in BOOLEAN : OnAutoHandleResponse(s, r, ok)

-----------------------------------------------------------------------------
(* One client that waits for its answers: a request that is paused between *)
(* its calls, whether it has switched the interception on or off, goes on, *)
(* unless the agent refuses what a rule makes of it.  (While a call runs a *)
(* request can be lost: EveryPausedRequestGoesOn of module DomainTools.)   *)
OrderlyRequestsGoOn ==
  [][(orderly["intercept"] /\ AtRest("intercept")) =>
       \A s \in Sessions : paused'[s] \ paused[s] \subseteq refused'
    ]_<<callVars, on, interceptVars>>
=============================================================================

-------------------------- MODULE DomainToolsProofs --------------------------
(***************************************************************************)
(* Proofs about DomainTools for any number of calls, tabs, requests and    *)
(* rules.                                                                  *)
(*                                                                         *)
(* What the tools share is proved once (IShared): whom the commands belong *)
(* to, and that an orderly tool is used in one tab.  Every step is one of  *)
(* three kinds, a call that begins, one that goes on with the answer to    *)
(* its command, and one that no call takes part in; or a tab closes.  For  *)
(* the other tools it is then a step that leaves what they see alone       *)
(* (Frame), and only the steps of a tool itself are looked at for its own  *)
(* invariant.                                                              *)
(***************************************************************************)
EXTENDS DomainTools, TLAPS

(* Calls in the same tool send these commands, and use these switches.     *)
Domains == {"intercept", "coverage", "capture"}

CommandsOf(t) ==
  CASE t = "intercept" -> {"Fetch.enable", "Fetch.disable", "serve"}
    [] t = "coverage"  -> {"CSS.enable", "CSS.startRuleUsageTracking",
                           "CSS.stopRuleUsageTracking", "CSS.disable",
                           "Profiler.enable", "Profiler.startPreciseCoverage",
                           "Profiler.takePreciseCoverage",
                           "Profiler.stopPreciseCoverage"}
    [] t = "capture"   -> {"Network.enable", "Network.disable"}

SwitchesOf(t) ==
  CASE t = "intercept" -> {"Fetch"}
    [] t = "coverage"  -> {"CSS", "ruleUsage", "Profiler", "precise"}
    [] t = "capture"   -> {"Network"}

(* The call goes on, or ends, with the answer to this command.             *)
Awaited(m) ==
  m.from.of \in Calls /\ m.cmd \notin {"CSS.disable", "Profiler.stopPreciseCoverage"}

-----------------------------------------------------------------------------
(* What the tools share.                                                   *)

Messages ==
  [cmd : UNION {CommandsOf(t) : t \in Domains},
   from : [of : Calls \cup Requests, ok : BOOLEAN]]

NewIsUntouched == \A c \in Calls : status[c] = "new" => tool[c] = "none"

(* A command of tool t is answered to a call of t, on the tab of the call; *)
(* or it lets a request go on, and nobody waits for the answer.            *)
Belongs ==
  \A s \in Sessions : \A m \in sent[s] : \A t \in Domains :
    m.cmd \in CommandsOf(t) =>
      \/ m.from.of \in Calls /\ tool[m.from.of] = t /\ tab[m.from.of] = s
      \/ m.from.of \in Requests /\ m.cmd = "serve"

(* A call waits for one command at a time, while it runs.                  *)
OneAwaited ==
  \A s \in Sessions : \A m, n \in sent[s] :
    (Awaited(m) /\ Awaited(n) /\ m.from.of = n.from.of) => m = n

RunningSent ==
  \A s \in Sessions : \A m \in sent[s] :
    Awaited(m) => status[m.from.of] = "running"

OneTab ==
  \A t \in Domains : orderly[t] =>
    \A c, d \in Calls : tool[c] = t /\ tool[d] = t => tab[c] = tab[d]

(* What a closed tab had switched on is gone.                              *)
ClosedIsOff == \A s \in Sessions : ~attached[s] => on[s] = {}

IShared ==
  /\ CallsTypeOK /\ DomainsTypeOK
  /\ sent \in [Sessions -> SUBSET Messages]
  /\ NewIsUntouched /\ Belongs /\ OneAwaited /\ RunningSent
  /\ OneTab /\ ClosedIsOff

-----------------------------------------------------------------------------
(* What each tool keeps for itself.                                        *)

UsedBy(t, s) == \E c \in Calls : tool[c] = t /\ tab[c] = s

(* The agent has carried out this command, and the answer is under way.    *)
Begun(s, cmd) == \E m \in sent[s] : m.cmd = cmd /\ m.from.ok

InterceptOrderly ==
  orderly["intercept"] => \A s \in Sessions :
    /\ "Fetch" \in on[s] =>
         /\ UsedBy("intercept", s)
         /\ \/ is_intercepting /\ s \in fetchHandler
            \/ Begun(s, "Fetch.enable")
    /\ \A m \in sent[s] : m.cmd = "Fetch.disable" => "Fetch" \notin on[s]

IIntercept == InterceptTypeOK /\ InterceptOrderly

CoverageOrderly ==
  orderly["coverage"] => \A s \in Sessions :
    /\ "ruleUsage" \in on[s] \/ "precise" \in on[s] => UsedBy("coverage", s)
    /\ "ruleUsage" \in on[s] =>
         css_tracking \/ Begun(s, "CSS.startRuleUsageTracking")
    /\ "precise" \in on[s] =>
         js_tracking \/ Begun(s, "Profiler.startPreciseCoverage")

ICoverage == CoverageTypeOK /\ CoverageOrderly

(* The agent sends the events of the Network domain, or no more at all.    *)
NetworkOn(s) == attached[s] => "Network" \in on[s]

StartersListen ==
  /\ \A c \in starters :
       /\ tool[c] = "capture" /\ tab[c] \in Sessions
       /\ status[c] = "ok" => NetworkOn(tab[c])
  /\ \A s \in Sessions : \A m \in sent[s] : m.from.of \in starters =>
       /\ m.cmd # "Network.disable"
       /\ m.cmd = "Network.enable" /\ m.from.ok => NetworkOn(s)

PromisesListen ==
  \A r \in promised :
    /\ load[r] # "none" /\ loader[r] \in Sessions
    /\ NetworkOn(loader[r])

ICapture == CaptureTypeOK /\ StartersListen /\ PromisesListen /\ CaptureIsComplete

IInv == IShared /\ IIntercept /\ ICoverage /\ ICapture

-----------------------------------------------------------------------------
(* Steps as the shared state sees them.                                    *)

Msg(cmd, of, ok) == [cmd |-> cmd, from |-> [of |-> of, ok |-> ok]]

(* Nothing happens that tool t could notice.                               *)
Frame(t) ==
  /\ attached' = attached
  /\ orderly'[t] = orderly[t]
  /\ \A c \in Calls :
       /\ tool'[c] = t <=> tool[c] = t
       /\ tool[c] = t => tab'[c] = tab[c] /\ status'[c] = status[c]
  /\ \A s \in Sessions : \A m :
       m.cmd \in CommandsOf(t) => (m \in sent'[s] <=> m \in sent[s])
  /\ \A s \in Sessions : \A x \in SwitchesOf(t) : x \in on'[s] <=> x \in on[s]

(* Only switches of tool t are touched, and none of a closed tab.          *)
Switch(t) ==
  /\ on' \in [Sessions -> SUBSET Switches]
  /\ \A s \in Sessions :
       /\ \A x \in Switches \ SwitchesOf(t) : x \in on'[s] <=> x \in on[s]
       /\ ~attached[s] => on'[s] \subseteq on[s]

(* A call of tool t begins, and ends or sends a command of t.              *)
Begins(t, c, s, state) ==
  /\ Call(c, t, s, state)
  /\ Switch(t)
  /\ \/ sent' = sent
     \/ /\ state = "running"
        /\ \E m \in Messages :
             /\ m.cmd \in CommandsOf(t) /\ m.from.of = c
             /\ sent' = [sent EXCEPT ![s] = @ \cup {m}]

(* Call c of tool t goes on with the answer to command old, or ends with   *)
(* it; the commands in new follow.                                         *)
GoesOn(t, c, s, old, new) ==
  /\ UNCHANGED <<attached, tool, tab, orderly>>
  /\ Switch(t)
  /\ old \in sent[s] /\ Awaited(old) /\ old.cmd \in CommandsOf(t) /\ old.from.of = c
  /\ sent' = [sent EXCEPT ![s] = (@ \ {old}) \cup new]
  /\ new \subseteq Messages
  /\ \A m, n \in new : m = n /\ m.cmd \in CommandsOf(t) /\ m.from.of = c
  /\ \/ status' = status
     \/ /\ \E b \in BOOLEAN : Finish(c, b)
        /\ \A m \in new : ~Awaited(m)

(* No call takes part: commands nobody waits for are sent, or answered.    *)
Silent(t) ==
  /\ UNCHANGED <<attached, tool, tab, status, orderly>>
  /\ Switch(t)
  /\ sent' \in [Sessions -> SUBSET Messages]
  /\ \A s \in Sessions :
       /\ \A m \in sent'[s] : m \in sent[s] \/ (m.cmd = "serve" /\ m.from.of \in Requests)
       /\ \A m : m.cmd \notin CommandsOf(t) => (m \in sent'[s] <=> m \in sent[s])

USE ToolAssumption, RequestAssumption, RuleAssumption

LEMMA CommandNames ==
  /\ CommandsOf("intercept") = {"Fetch.enable", "Fetch.disable", "serve"}
  /\ CommandsOf("coverage") =
       {"CSS.enable", "CSS.startRuleUsageTracking", "CSS.stopRuleUsageTracking",
        "CSS.disable", "Profiler.enable", "Profiler.startPreciseCoverage",
        "Profiler.takePreciseCoverage", "Profiler.stopPreciseCoverage"}
  /\ CommandsOf("capture") = {"Network.enable", "Network.disable"}
  /\ \A t, u \in Domains : t # u => CommandsOf(t) \cap CommandsOf(u) = {}
  /\ \A t \in Domains : t \in Tools /\ t # "none"
<1>1. /\ CommandsOf("intercept") = {"Fetch.enable", "Fetch.disable", "serve"}
      /\ CommandsOf("coverage") =
           {"CSS.enable", "CSS.startRuleUsageTracking", "CSS.stopRuleUsageTracking",
            "CSS.disable", "Profiler.enable", "Profiler.startPreciseCoverage",
            "Profiler.takePreciseCoverage", "Profiler.stopPreciseCoverage"}
      /\ CommandsOf("capture") = {"Network.enable", "Network.disable"}
  BY DEF CommandsOf
<1>2. \A t, u \in Domains : t # u => CommandsOf(t) \cap CommandsOf(u) = {}
  BY <1>1 DEF Domains
<1>3. \A t \in Domains : t \in Tools /\ t # "none"
  BY DEF Domains, Tools
<1> QED BY <1>1, <1>2, <1>3

LEMMA SwitchNames ==
  /\ SwitchesOf("intercept") = {"Fetch"}
  /\ SwitchesOf("coverage") = {"CSS", "ruleUsage", "Profiler", "precise"}
  /\ SwitchesOf("capture") = {"Network"}
  /\ \A t, u \in Domains : t # u => SwitchesOf(t) \subseteq Switches \ SwitchesOf(u)
<1>1. /\ SwitchesOf("intercept") = {"Fetch"}
      /\ SwitchesOf("coverage") = {"CSS", "ruleUsage", "Profiler", "precise"}
      /\ SwitchesOf("capture") = {"Network"}
  BY DEF SwitchesOf
<1>2. \A t, u \in Domains : t # u => SwitchesOf(t) \subseteq Switches \ SwitchesOf(u)
  BY <1>1 DEF Domains, Switches
<1> QED BY <1>1, <1>2

LEMMA MessageFacts ==
  /\ \A m \in Messages :
       /\ m.from.of \in Calls \cup Requests /\ m.from.ok \in BOOLEAN
       /\ \E t \in Domains : m.cmd \in CommandsOf(t)
       /\ m = Msg(m.cmd, m.from.of, m.from.ok)
  /\ \A t \in Domains : \A cmd \in CommandsOf(t) :
       \A of \in Calls \cup Requests, ok \in BOOLEAN :
         /\ Msg(cmd, of, ok) \in Messages
         /\ Msg(cmd, of, ok).cmd = cmd
         /\ Msg(cmd, of, ok).from.of = of /\ Msg(cmd, of, ok).from.ok = ok
<1>1. ASSUME NEW m \in Messages
      PROVE  /\ m.from.of \in Calls \cup Requests /\ m.from.ok \in BOOLEAN
             /\ \E t \in Domains : m.cmd \in CommandsOf(t)
             /\ m = Msg(m.cmd, m.from.of, m.from.ok)
  <2>1. PICK cmd \in UNION {CommandsOf(t) : t \in Domains},
             from \in [of : Calls \cup Requests, ok : BOOLEAN] :
               m = [cmd |-> cmd, from |-> from]
    BY DEF Messages
  <2>2. /\ from.of \in Calls \cup Requests /\ from.ok \in BOOLEAN
        /\ from = [of |-> from.of, ok |-> from.ok]
    OBVIOUS
  <2> QED BY <2>1, <2>2 DEF Msg
<1>2. ASSUME NEW t \in Domains, NEW cmd \in CommandsOf(t),
             NEW of \in Calls \cup Requests, NEW ok \in BOOLEAN
      PROVE  /\ Msg(cmd, of, ok) \in Messages
             /\ Msg(cmd, of, ok).cmd = cmd
             /\ Msg(cmd, of, ok).from.of = of /\ Msg(cmd, of, ok).from.ok = ok
  BY DEF Msg, Messages
<1> QED BY <1>1, <1>2

LEMMA BeginsFrame ==
  ASSUME IShared, NEW t \in Domains, NEW u \in Domains, t # u,
         NEW c \in Calls, NEW s \in Sessions, NEW state, Begins(t, c, s, state)
  PROVE  Frame(u)
<1>1. attached' = attached /\ orderly'[u] = orderly[u]
  BY CommandNames DEF Begins, Call, IShared, CallsTypeOK
<1>2. \A d \in Calls :
        /\ tool'[d] = u <=> tool[d] = u
        /\ tool[d] = u => tab'[d] = tab[d] /\ status'[d] = status[d]
  BY CommandNames DEF Begins, Call, IShared, CallsTypeOK, NewIsUntouched
<1>3. ASSUME NEW r \in Sessions, NEW m, m.cmd \in CommandsOf(u)
      PROVE  m \in sent'[r] <=> m \in sent[r]
  <2>1. m.cmd \notin CommandsOf(t)
    BY <1>3, CommandNames
  <2> QED BY <2>1 DEF Begins, IShared
<1>4. \A r \in Sessions : \A x \in SwitchesOf(u) : x \in on'[r] <=> x \in on[r]
  BY SwitchNames DEF Begins, Switch
<1> QED BY <1>1, <1>2, <1>3, <1>4 DEF Frame

LEMMA GoesOnFrame ==
  ASSUME IShared, NEW t \in Domains, NEW u \in Domains, t # u,
         NEW c \in Calls, NEW s \in Sessions, NEW old, NEW new, GoesOn(t, c, s, old, new)
  PROVE  Frame(u)
<1>1. attached' = attached /\ orderly'[u] = orderly[u]
  BY DEF GoesOn
<1>2. tool[c] = t
  <2>1. old \in sent[s] /\ old.cmd \in CommandsOf(t) /\ old.from.of = c
    BY DEF GoesOn
  <2> QED BY <2>1 DEF IShared, Belongs
<1>3. \A d \in Calls :
        /\ tool'[d] = u <=> tool[d] = u
        /\ tool[d] = u => tab'[d] = tab[d] /\ status'[d] = status[d]
  BY <1>2 DEF GoesOn, Finish, IShared, CallsTypeOK
<1>4. ASSUME NEW r \in Sessions, NEW m, m.cmd \in CommandsOf(u)
      PROVE  m \in sent'[r] <=> m \in sent[r]
  <2>1. m.cmd \notin CommandsOf(t)
    BY <1>4, CommandNames
  <2>2. m # old /\ m \notin new
    BY <2>1 DEF GoesOn
  <2> QED BY <2>2 DEF GoesOn, IShared
<1>5. \A r \in Sessions : \A x \in SwitchesOf(u) : x \in on'[r] <=> x \in on[r]
  BY SwitchNames DEF GoesOn, Switch
<1> QED BY <1>1, <1>3, <1>4, <1>5 DEF Frame

LEMMA SilentFrame ==
  ASSUME NEW t \in Domains, NEW u \in Domains, t # u, Silent(t)
  PROVE  Frame(u)
<1>1. \A r \in Sessions : \A m :
        m.cmd \in CommandsOf(u) => (m \in sent'[r] <=> m \in sent[r])
  BY CommandNames DEF Silent
<1>2. \A r \in Sessions : \A x \in SwitchesOf(u) : x \in on'[r] <=> x \in on[r]
  BY SwitchNames DEF Silent, Switch
<1> QED BY <1>1, <1>2 DEF Frame, Silent

LEMMA SwitchShared ==
  ASSUME IShared, NEW t, Switch(t), attached' = attached
  PROVE  DomainsTypeOK' /\ ClosedIsOff'
<1>1. \A s \in Sessions : ~attached[s] => on'[s] = {}
  BY DEF Switch, IShared, ClosedIsOff
<1> QED BY <1>1 DEF Switch, DomainsTypeOK, ClosedIsOff

(* What is known of a call that begins.                                    *)
LEMMA BeginsFacts ==
  ASSUME IShared, NEW t \in Domains, NEW c \in Calls, NEW s \in Sessions,
         NEW state \in {"running", "ok", "error"}, Begins(t, c, s, state)
  PROVE  /\ attached' = attached
         /\ tool[c] = "none" /\ tool'[c] = t /\ tab'[c] = s /\ status'[c] = state
         /\ \A d \in Calls \ {c} :
              tool'[d] = tool[d] /\ tab'[d] = tab[d] /\ status'[d] = status[d]
         /\ \A r \in Sessions : \A m \in sent[r] : m.from.of # c
         /\ sent' \in [Sessions -> SUBSET Messages]
         /\ \A r \in Sessions : \A m \in sent'[r] :
              \/ m \in sent[r]
              \/ /\ r = s /\ m.from.of = c /\ m.cmd \in CommandsOf(t)
                 /\ state = "running"
                 /\ \A n \in sent'[r] : n \in sent[r] \/ n = m
         /\ \A r \in Sessions : sent[r] \subseteq sent'[r]
         /\ orderly'[t] => /\ orderly[t] /\ attached[s]
                           /\ \A d \in Calls : tool[d] = t => /\ tab[d] = s
                                                             /\ status[d] # "running"
<1>1. attached' = attached
  BY DEF Begins, Call
<1>2. tool[c] = "none" /\ tool'[c] = t /\ tab'[c] = s /\ status'[c] = state
  BY DEF Begins, Call, IShared, CallsTypeOK, NewIsUntouched
<1>3. \A d \in Calls \ {c} :
        tool'[d] = tool[d] /\ tab'[d] = tab[d] /\ status'[d] = status[d]
  BY DEF Begins, Call, IShared, CallsTypeOK
<1>4. ASSUME NEW r \in Sessions, NEW m \in sent[r], m.from.of = c
      PROVE  FALSE
  <2>1. PICK u \in Domains : m.cmd \in CommandsOf(u)
    BY MessageFacts DEF IShared
  <2>2. tool[c] = u
    BY <1>4, <2>1 DEF IShared, Belongs
  <2> QED BY <1>2, <2>2, CommandNames
<1>5. sent' \in [Sessions -> SUBSET Messages]
  BY DEF Begins, IShared
<1>6. ASSUME NEW r \in Sessions, NEW m \in sent'[r], m \notin sent[r]
      PROVE  /\ r = s /\ m.from.of = c /\ m.cmd \in CommandsOf(t)
             /\ state = "running"
             /\ \A n \in sent'[r] : n \in sent[r] \/ n = m
  BY <1>6 DEF Begins, IShared
<1>7. \A r \in Sessions : sent[r] \subseteq sent'[r]
  BY DEF Begins, IShared
<1>8. orderly'[t] => /\ orderly[t] /\ attached[s]
                     /\ \A d \in Calls : tool[d] = t => /\ tab[d] = s
                                                       /\ status[d] # "running"
  BY CommandNames DEF Begins, Call, IShared, CallsTypeOK
<1> QED BY <1>1, <1>2, <1>3, <1>4, <1>5, <1>6, <1>7, <1>8

LEMMA BeginsShared ==
  ASSUME IShared, NEW t \in Domains, NEW c \in Calls, NEW s \in Sessions,
         NEW state \in {"running", "ok", "error"}, Begins(t, c, s, state)
  PROVE  IShared'
<1> USE BeginsFacts
<1>1. CallsTypeOK'
  <2>1. attached' \in [Sessions -> BOOLEAN] /\ tool' \in [Calls -> Tools \cup {"none"}]
    BY CommandNames DEF Begins, Call, IShared, CallsTypeOK
  <2>2. /\ tab' \in [Calls -> Sessions \cup {NoSession}]
        /\ status' \in [Calls -> {"new", "running", "ok", "error"}]
    BY DEF Begins, Call, IShared, CallsTypeOK
  <2>3. orderly' \in [Tools -> BOOLEAN]
    BY CommandNames DEF Begins, Call, IShared, CallsTypeOK
  <2> QED BY <2>1, <2>2, <2>3 DEF CallsTypeOK
<1>2. DomainsTypeOK' /\ ClosedIsOff'
  BY SwitchShared DEF Begins
<1>3. NewIsUntouched'
  BY DEF IShared, NewIsUntouched
<1>4. Belongs'
  <2> SUFFICES ASSUME NEW r \in Sessions, NEW m \in sent'[r], NEW u \in Domains,
                      m.cmd \in CommandsOf(u)
               PROVE  \/ m.from.of \in Calls /\ tool'[m.from.of] = u /\ tab'[m.from.of] = r
                      \/ m.from.of \in Requests /\ m.cmd = "serve"
    BY DEF Belongs
  <2>1. CASE m \in sent[r]
    <3>1. m.from.of # c
      BY <2>1
    <3> QED BY <2>1, <3>1 DEF IShared, Belongs
  <2>2. CASE m \notin sent[r]
    <3>1. r = s /\ m.from.of = c /\ m.cmd \in CommandsOf(t)
      BY <2>2
    <3>2. u = t
      BY <3>1, CommandNames
    <3> QED BY <3>1, <3>2
  <2> QED BY <2>1, <2>2
<1>5. OneAwaited'
  <2> SUFFICES ASSUME NEW r \in Sessions, NEW m \in sent'[r], NEW n \in sent'[r],
                      Awaited(m), Awaited(n), m.from.of = n.from.of
               PROVE  m = n
    BY DEF OneAwaited, Awaited
  <2>1. CASE m \in sent[r] /\ n \in sent[r]
    BY <2>1 DEF IShared, OneAwaited
  <2>2. CASE m \notin sent[r] \/ n \notin sent[r]
    BY <2>2
  <2> QED BY <2>1, <2>2
<1>6. RunningSent'
  <2> SUFFICES ASSUME NEW r \in Sessions, NEW m \in sent'[r], Awaited(m)
               PROVE  status'[m.from.of] = "running"
    BY DEF RunningSent, Awaited
  <2>1. CASE m \in sent[r]
    <3>1. m.from.of \in Calls /\ m.from.of # c /\ status[m.from.of] = "running"
      BY <2>1 DEF IShared, RunningSent, Awaited
    <3> QED BY <3>1
  <2>2. CASE m \notin sent[r]
    BY <2>2
  <2> QED BY <2>1, <2>2
<1>7. OneTab'
  <2> SUFFICES ASSUME NEW u \in Domains, orderly'[u], NEW a \in Calls, NEW d \in Calls,
                      tool'[a] = u, tool'[d] = u
               PROVE  tab'[a] = tab'[d]
    BY DEF OneTab
  <2>1. CASE u = t
    BY <2>1
  <2>2. CASE u # t
    <3>1. orderly[u] /\ tool[a] = u /\ tool[d] = u /\ a # c /\ d # c
      BY <2>2, BeginsFrame DEF Frame
    <3> QED BY <3>1 DEF IShared, OneTab
  <2> QED BY <2>1, <2>2
<1> QED BY <1>1, <1>2, <1>3, <1>4, <1>5, <1>6, <1>7 DEF IShared

(* What is known of a call that goes on.                                   *)
LEMMA GoesOnFacts ==
  ASSUME IShared, NEW t \in Domains, NEW c \in Calls, NEW s \in Sessions,
         NEW old, NEW new, GoesOn(t, c, s, old, new)
  PROVE  /\ tool[c] = t /\ tab[c] = s /\ status[c] = "running"
         /\ UNCHANGED <<attached, tool, tab, orderly>>
         /\ sent' \in [Sessions -> SUBSET Messages]
         /\ \A r \in Sessions : \A m \in sent'[r] :
              \/ m \in sent[r] /\ (Awaited(m) => m.from.of # c)
              \/ r = s /\ m \in new
         /\ \A r \in Sessions : \A m \in sent[r] : m = old \/ m \in sent'[r]
         /\ \A m \in new : m \in sent'[s]
         /\ status' \in [Calls -> {"new", "running", "ok", "error"}]
         /\ \A d \in Calls \ {c} : status'[d] = status[d]
         /\ status'[c] \in {"running", "ok", "error"}
         /\ status'[c] # "running" => \A m \in new : ~Awaited(m)
<1>1. /\ old \in sent[s] /\ Awaited(old) /\ old.cmd \in CommandsOf(t) /\ old.from.of = c
      /\ UNCHANGED <<attached, tool, tab, orderly>>
  BY DEF GoesOn
<1>2. tool[c] = t /\ tab[c] = s /\ status[c] = "running"
  BY <1>1 DEF IShared, Belongs, RunningSent
<1>3. /\ sent' \in [Sessions -> SUBSET Messages]
      /\ \A r \in Sessions : \A m \in sent'[r] :
           \/ m \in sent[r] /\ (r = s => m # old)
           \/ r = s /\ m \in new
      /\ \A r \in Sessions : \A m \in sent[r] : m = old \/ m \in sent'[r]
      /\ \A m \in new : m \in sent'[s]
  <2>1. sent' = [sent EXCEPT ![s] = (@ \ {old}) \cup new] /\ new \subseteq Messages
    BY DEF GoesOn
  <2>2. sent \in [Sessions -> SUBSET Messages]
    BY DEF IShared
  <2>3. /\ sent'[s] = (sent[s] \ {old}) \cup new
        /\ \A r \in Sessions \ {s} : sent'[r] = sent[r]
    BY <2>1, <2>2
  <2>4. sent' \in [Sessions -> SUBSET Messages]
    BY <2>1, <2>2
  <2>5. ASSUME NEW r \in Sessions, NEW m \in sent'[r]
        PROVE  \/ m \in sent[r] /\ (r = s => m # old)
               \/ r = s /\ m \in new
    BY <2>3, <2>5
  <2>6. ASSUME NEW r \in Sessions, NEW m \in sent[r]
        PROVE  m = old \/ m \in sent'[r]
    BY <2>3, <2>6
  <2> QED BY <2>3, <2>4, <2>5, <2>6
<1>4. ASSUME NEW r \in Sessions, NEW m \in sent[r], Awaited(m), m.from.of = c
      PROVE  r = s /\ m = old
  <2>1. r = s
    <3>1. PICK u \in Domains : m.cmd \in CommandsOf(u)
      BY MessageFacts DEF IShared
    <3>2. tab[c] = r
      BY <1>4, <3>1 DEF IShared, Belongs
    <3> QED BY <1>2, <3>2
  <2> QED BY <1>1, <1>4, <2>1 DEF IShared, OneAwaited
<1>5. /\ status' \in [Calls -> {"new", "running", "ok", "error"}]
      /\ \A d \in Calls \ {c} : status'[d] = status[d]
      /\ status'[c] \in {"running", "ok", "error"}
      /\ status'[c] # "running" => \A m \in new : ~Awaited(m)
  BY <1>2 DEF GoesOn, Finish, IShared, CallsTypeOK
<1> QED BY <1>1, <1>2, <1>3, <1>4, <1>5

LEMMA GoesOnShared ==
  ASSUME IShared, NEW t \in Domains, NEW c \in Calls, NEW s \in Sessions,
         NEW old, NEW new, GoesOn(t, c, s, old, new)
  PROVE  IShared'
<1> USE GoesOnFacts
<1>1. CallsTypeOK' /\ NewIsUntouched'
  BY DEF IShared, CallsTypeOK, NewIsUntouched
<1>2. DomainsTypeOK' /\ ClosedIsOff'
  BY SwitchShared DEF GoesOn
<1>3. \A m \in new : m.from.of = c /\ m.cmd \in CommandsOf(t) /\ \A n \in new : m = n
  BY DEF GoesOn
<1>4. Belongs'
  <2> SUFFICES ASSUME NEW r \in Sessions, NEW m \in sent'[r], NEW u \in Domains,
                      m.cmd \in CommandsOf(u)
               PROVE  \/ m.from.of \in Calls /\ tool[m.from.of] = u /\ tab[m.from.of] = r
                      \/ m.from.of \in Requests /\ m.cmd = "serve"
    BY DEF Belongs
  <2>1. CASE m \in sent[r]
    BY <2>1 DEF IShared, Belongs
  <2>2. CASE r = s /\ m \in new
    <3>1. u = t
      BY <1>3, <2>2, CommandNames
    <3> QED BY <1>3, <2>2, <3>1
  <2> QED BY <2>1, <2>2
<1>5. OneAwaited'
  <2> SUFFICES ASSUME NEW r \in Sessions, NEW m \in sent'[r], NEW n \in sent'[r],
                      Awaited(m), Awaited(n), m.from.of = n.from.of
               PROVE  m = n
    BY DEF OneAwaited, Awaited
  <2>1. CASE m.from.of # c
    <3>1. m \in sent[r] /\ n \in sent[r]
      BY <1>3, <2>1
    <3> QED BY <3>1 DEF IShared, OneAwaited
  <2>2. CASE m.from.of = c
    <3>1. \A x \in sent'[r] : (Awaited(x) /\ x.from.of = c) => x \in new
      OBVIOUS
    <3>2. m \in new /\ n \in new
      BY <2>2, <3>1
    <3> QED BY <1>3, <3>2
  <2> QED BY <2>1, <2>2
<1>6. RunningSent'
  <2> SUFFICES ASSUME NEW r \in Sessions, NEW m \in sent'[r], Awaited(m)
               PROVE  status'[m.from.of] = "running"
    BY DEF RunningSent, Awaited
  <2>1. CASE m.from.of # c
    <3>1. m.from.of \in Calls /\ status[m.from.of] = "running"
      BY <1>3, <2>1 DEF IShared, RunningSent, Awaited
    <3> QED BY <2>1, <3>1
  <2>2. CASE m.from.of = c
    BY <2>2
  <2> QED BY <2>1, <2>2
<1>7. OneTab'
  BY DEF IShared, OneTab
<1> QED BY <1>1, <1>2, <1>4, <1>5, <1>6, <1>7 DEF IShared

LEMMA SilentShared ==
  ASSUME IShared, NEW t \in Domains, Silent(t)
  PROVE  IShared'
<1>1. CallsTypeOK' /\ NewIsUntouched' /\ OneTab'
  BY DEF Silent, IShared, CallsTypeOK, NewIsUntouched, OneTab
<1>2. DomainsTypeOK' /\ ClosedIsOff'
  BY SwitchShared DEF Silent
<1>3. Belongs'
  BY DEF Silent, IShared, Belongs
<1>4. \A s \in Sessions : \A m \in sent'[s] : Awaited(m) => m \in sent[s]
  BY DEF Silent, Awaited
<1>5. OneAwaited' /\ RunningSent'
  BY <1>4 DEF Silent, IShared, OneAwaited, RunningSent, Awaited
<1> QED BY <1>1, <1>2, <1>3, <1>5 DEF IShared, Silent

(* An orderly call finds no command of its tool that anybody waits for, and*)
(* no other tab in use.                                                    *)
LEMMA BeginsOrderly ==
  ASSUME IShared, NEW t \in Domains, NEW c \in Calls, NEW s \in Sessions,
         NEW state \in {"running", "ok", "error"}, Begins(t, c, s, state), orderly'[t]
  PROVE  /\ orderly[t]
         /\ \A r \in Sessions : \A m \in sent[r] :
              m.cmd \in CommandsOf(t) => ~Awaited(m)
         /\ \A r \in Sessions : UsedBy(t, r) => r = s
         /\ UsedBy(t, s)'
<1>1. /\ orderly[t]
      /\ \A d \in Calls : tool[d] = t => tab[d] = s /\ status[d] # "running"
  BY BeginsFacts
<1>2. ASSUME NEW r \in Sessions, NEW m \in sent[r], m.cmd \in CommandsOf(t), Awaited(m)
      PROVE  FALSE
  BY <1>1, <1>2 DEF IShared, Belongs, RunningSent, Awaited
<1>3. UsedBy(t, s)'
  <2>1. tool'[c] = t /\ tab'[c] = s
    BY BeginsFacts
  <2> QED BY <2>1 DEF UsedBy
<1> QED BY <1>1, <1>2, <1>3 DEF UsedBy

(* A call of an orderly tool is on the only tab that the tool uses.        *)
LEMMA OrderlyTab ==
  ASSUME IShared, NEW t \in Domains, orderly[t], NEW c \in Calls, tool[c] = t
  PROVE  \A r \in Sessions : UsedBy(t, r) => r = tab[c]
BY DEF IShared, OneTab, UsedBy

(* Call c begins with this command: whoever switches nothing else begins.  *)
LEMMA CommandBegins ==
  ASSUME IShared, NEW t \in Domains, NEW c \in Calls, NEW s \in Sessions,
         NEW cmd \in CommandsOf(t), NEW ok \in BOOLEAN,
         Call(c, t, s, "running"), Switch(t), Command(s, cmd, c, ok)
  PROVE  /\ Begins(t, c, s, "running")
         /\ sent' = [sent EXCEPT ![s] = @ \cup {Msg(cmd, c, ok)}]
         /\ Msg(cmd, c, ok) \in sent'[s]
<1>1. sent' = [sent EXCEPT ![s] = @ \cup {Msg(cmd, c, ok)}]
  BY DEF Command, Send, Msg
<1>2. Msg(cmd, c, ok) \in sent'[s]
  BY <1>1 DEF IShared
<1>3. /\ Msg(cmd, c, ok) \in Messages
      /\ Msg(cmd, c, ok).cmd \in CommandsOf(t) /\ Msg(cmd, c, ok).from.of = c
  BY MessageFacts
<1>4. \E m \in Messages :
        /\ m.cmd \in CommandsOf(t) /\ m.from.of = c
        /\ sent' = [sent EXCEPT ![s] = @ \cup {m}]
  BY <1>1, <1>3
<1> QED BY <1>1, <1>2, <1>4 DEF Begins

(* ... and ends with the answer to it.                                     *)
LEMMA ReplyEnds ==
  ASSUME IShared, NEW t \in Domains, NEW c \in Calls, NEW s \in Sessions,
         NEW cmd \in CommandsOf(t), NEW ok,
         cmd \notin {"CSS.disable", "Profiler.stopPreciseCoverage"},
         Reply(s, cmd, c, ok), NEW b \in BOOLEAN, Finish(c, b), on' = on
  PROVE  \E done \in BOOLEAN :
           /\ ok = (done /\ attached[s])
           /\ GoesOn(t, c, s, Msg(cmd, c, done), {})
<1>1. PICK done \in BOOLEAN :
        /\ ok = (done /\ attached[s])
        /\ Answered(s, cmd, [of |-> c, ok |-> done], ok)
  BY DEF Reply
<1>2. /\ Msg(cmd, c, done) \in sent[s]
      /\ sent' = [sent EXCEPT ![s] = (@ \ {Msg(cmd, c, done)}) \cup {}]
      /\ UNCHANGED <<attached, tool, tab, orderly>>
  <2>1. /\ Msg(cmd, c, done) \in sent[s]
        /\ sent' = [sent EXCEPT ![s] = @ \ {Msg(cmd, c, done)}]
        /\ UNCHANGED <<attached, tool, tab, orderly>>
    BY <1>1 DEF Answered, Msg
  <2>2. sent[s] \ {Msg(cmd, c, done)} = (sent[s] \ {Msg(cmd, c, done)}) \cup {}
    OBVIOUS
  <2> QED BY <2>1, <2>2
<1>3. Switch(t)
  BY DEF Switch, IShared, DomainsTypeOK
<1>4. /\ Msg(cmd, c, done).cmd = cmd /\ Msg(cmd, c, done).from.of = c
      /\ Awaited(Msg(cmd, c, done))
  BY DEF Msg, Awaited
<1>5. GoesOn(t, c, s, Msg(cmd, c, done), {})
  BY <1>2, <1>3, <1>4 DEF GoesOn
<1> QED BY <1>1, <1>5

-----------------------------------------------------------------------------
(* network_intercept.                                                      *)

LEMMA FrameIntercept ==
  ASSUME IIntercept, Frame("intercept"), UNCHANGED interceptVars
  PROVE  IIntercept'
<1>1. InterceptTypeOK'
  BY DEF IIntercept, InterceptTypeOK, interceptVars
<1>2. ASSUME orderly'["intercept"], NEW s \in Sessions
      PROVE  /\ "Fetch" \in on'[s] =>
                  /\ UsedBy("intercept", s)'
                  /\ \/ is_intercepting' /\ s \in fetchHandler'
                     \/ Begun(s, "Fetch.enable")'
             /\ \A m \in sent'[s] : m.cmd = "Fetch.disable" => "Fetch" \notin on'[s]
  <2>1. orderly["intercept"] /\ UNCHANGED interceptVars
    BY <1>2 DEF Frame
  <2>2. "Fetch" \in on'[s] <=> "Fetch" \in on[s]
    BY SwitchNames DEF Frame
  <2>3. \A m : m.cmd \in {"Fetch.enable", "Fetch.disable"} =>
          (m \in sent'[s] <=> m \in sent[s])
    BY CommandNames DEF Frame
  <2>4. UsedBy("intercept", s) => UsedBy("intercept", s)'
    BY DEF UsedBy, Frame
  <2>5. Begun(s, "Fetch.enable") => Begun(s, "Fetch.enable")'
    BY <2>3 DEF Begun
  <2> QED BY <2>1, <2>2, <2>3, <2>4, <2>5 DEF IIntercept, InterceptOrderly, interceptVars
<1> QED BY <1>1, <1>2 DEF IIntercept, InterceptOrderly

(* Between the calls of an orderly client no command of the tool but those *)
(* for requests is under way.                                              *)
LEMMA InterceptAwaits ==
  ASSUME IShared, NEW s \in Sessions, NEW m \in sent[s],
         m.cmd \in {"Fetch.enable", "Fetch.disable"}
  PROVE  m.cmd \in CommandsOf("intercept") /\ Awaited(m)
BY CommandNames DEF IShared, Belongs, Domains, Awaited

LEMMA InterceptBegins ==
  ASSUME IShared, NEW c \in Calls, NEW s \in Sessions,
         NEW state \in {"running", "ok", "error"},
         Begins("intercept", c, s, state), orderly'["intercept"]
  PROVE  /\ orderly["intercept"] /\ UsedBy("intercept", s)'
         /\ \A r \in Sessions : UsedBy("intercept", r) => r = s
         /\ \A r \in Sessions : ~Begun(r, "Fetch.enable")
         /\ \A r \in Sessions : \A m \in sent'[r] : m.cmd = "Fetch.disable" => m \notin sent[r]
<1>1. "intercept" \in Domains
  BY DEF Domains
<1>2. ASSUME NEW r \in Sessions, NEW m \in sent[r], m.cmd \in {"Fetch.enable", "Fetch.disable"}
      PROVE  FALSE
  BY <1>1, <1>2, BeginsOrderly, InterceptAwaits
<1> QED BY <1>1, <1>2, BeginsOrderly DEF Begun

LEMMA HandleEnableStep ==
  ASSUME IShared, IIntercept, NEW c \in Calls, NEW s \in Sessions, NEW ok \in BOOLEAN,
         HandleEnable(c, s, ok)
  PROVE  Begins("intercept", c, s, "running") /\ IIntercept'
<1>0. "intercept" \in Domains /\ "Fetch.enable" \in CommandsOf("intercept")
  BY CommandNames DEF Domains
<1>1. /\ Call(c, "intercept", s, "running") /\ UNCHANGED interceptVars
      /\ Command(s, "Fetch.enable", c, ok) /\ (ok => attached[s])
      /\ on' = [on EXCEPT ![s] = IF ok THEN @ \cup {"Fetch"} ELSE @]
  BY DEF HandleEnable, SwitchesOn, Command
<1>2. Switch("intercept")
  BY <1>1, SwitchNames DEF Switch, IShared, DomainsTypeOK, Switches
<1>3. /\ Begins("intercept", c, s, "running")
      /\ sent' = [sent EXCEPT ![s] = @ \cup {Msg("Fetch.enable", c, ok)}]
      /\ Msg("Fetch.enable", c, ok) \in sent'[s]
  BY <1>0, <1>1, <1>2, CommandBegins
<1>4. InterceptTypeOK'
  BY <1>1 DEF IIntercept, InterceptTypeOK, interceptVars
<1>5. ASSUME orderly'["intercept"], NEW r \in Sessions
      PROVE  /\ "Fetch" \in on'[r] =>
                  /\ UsedBy("intercept", r)'
                  /\ \/ is_intercepting' /\ r \in fetchHandler'
                     \/ Begun(r, "Fetch.enable")'
             /\ \A m \in sent'[r] : m.cmd = "Fetch.disable" => "Fetch" \notin on'[r]
  <2>1. /\ orderly["intercept"] /\ UsedBy("intercept", s)'
        /\ UsedBy("intercept", r) => r = s
        /\ ~Begun(r, "Fetch.enable")
        /\ \A m \in sent'[r] : m.cmd = "Fetch.disable" => m \notin sent[r]
    BY <1>3, <1>5, InterceptBegins
  <2>2. \A m \in sent'[r] : m.cmd # "Fetch.disable"
    BY <1>3, <2>1 DEF Msg, IShared
  <2>3. "Fetch" \in on[r] => r = s /\ is_intercepting /\ r \in fetchHandler
    BY <2>1 DEF IIntercept, InterceptOrderly
  <2>4. "Fetch" \in on'[r] => r = s /\ ("Fetch" \in on[r] \/ ok)
    BY <1>1, <2>3 DEF IShared, DomainsTypeOK
  <2>5. r = s /\ ok => Begun(r, "Fetch.enable")'
    BY <1>3 DEF Begun, Msg
  <2> QED BY <1>1, <2>1, <2>2, <2>3, <2>4, <2>5 DEF interceptVars
<1> QED BY <1>3, <1>4, <1>5 DEF IIntercept, InterceptOrderly

(* Steps that leave interception as it is.                                 *)
LEMMA InterceptKept ==
  ASSUME IIntercept, UNCHANGED <<on, is_intercepting, fetchHandler>>,
         orderly'["intercept"] => orderly["intercept"],
         \A s \in Sessions : UsedBy("intercept", s) => UsedBy("intercept", s)',
         \A s \in Sessions : \A m : m.cmd \in {"Fetch.enable", "Fetch.disable"} =>
           (m \in sent'[s] <=> m \in sent[s])
  PROVE  InterceptOrderly'
<1>1. \A s \in Sessions : Begun(s, "Fetch.enable") => Begun(s, "Fetch.enable")'
  BY DEF Begun
<1> QED BY <1>1 DEF IIntercept, InterceptOrderly

LEMMA SentMore ==
  ASSUME IShared, NEW s \in Sessions, NEW m,
         sent' = [sent EXCEPT ![s] = @ \cup {m}], NEW cmds, m.cmd \notin cmds
  PROVE  \A r \in Sessions : \A n : n.cmd \in cmds => (n \in sent'[r] <=> n \in sent[r])
BY DEF IShared

LEMMA BeginsUses ==
  ASSUME IShared, NEW t \in Domains, NEW c \in Calls, NEW s \in Sessions,
         NEW state \in {"running", "ok", "error"}, Begins(t, c, s, state)
  PROVE  /\ \A r \in Sessions : UsedBy(t, r) => UsedBy(t, r)'
         /\ orderly'[t] => orderly[t]
<1>1. ASSUME NEW r \in Sessions, UsedBy(t, r)
      PROVE  UsedBy(t, r)'
  <2>1. PICK d \in Calls : tool[d] = t /\ tab[d] = r
    BY <1>1 DEF UsedBy
  <2>2. d # c
    BY <2>1, BeginsFacts, CommandNames
  <2>3. tool'[d] = t /\ tab'[d] = r
    BY <2>1, <2>2, BeginsFacts
  <2> QED BY <2>3 DEF UsedBy
<1>2. orderly'[t] => orderly[t]
  BY BeginsFacts
<1> QED BY <1>1, <1>2

(* disable without effect, addRule and removeRule.                         *)
LEMMA InterceptAtOnce ==
  ASSUME IShared, IIntercept, NEW c \in Calls, NEW s \in Sessions,
         NEW state \in {"ok", "error"}, Call(c, "intercept", s, state),
         UNCHANGED <<sent, on, is_intercepting, fetchHandler, paused, gone, refused>>,
         rules' \in [RuleIds -> Rule \cup {NoRule}]
  PROVE  Begins("intercept", c, s, state) /\ IIntercept'
<1>1. Switch("intercept")
  BY DEF Switch, IShared, DomainsTypeOK
<1>2. Begins("intercept", c, s, state) /\ "intercept" \in Domains
  BY <1>1 DEF Begins, Domains
<1>3. InterceptTypeOK'
  BY DEF IIntercept, InterceptTypeOK
<1>4. InterceptOrderly'
  BY <1>2, BeginsUses, InterceptKept
<1> QED BY <1>2, <1>3, <1>4 DEF IIntercept

LEMMA HandleDisableStep ==
  ASSUME IShared, IIntercept, NEW c \in Calls, NEW s \in Sessions, HandleDisable(c, s)
  PROVE  Begins("intercept", c, s, "running") /\ IIntercept'
<1>0. "intercept" \in Domains /\ "Fetch.disable" \in CommandsOf("intercept")
  BY CommandNames DEF Domains
<1>1. /\ Call(c, "intercept", s, "running")
      /\ Command(s, "Fetch.disable", c, attached[s]) /\ attached[s] \in BOOLEAN
      /\ on' = [on EXCEPT ![s] = @ \ {"Fetch"}]
      /\ fetchHandler' = fetchHandler \ {s}
      /\ UNCHANGED <<is_intercepting, rules, refused>>
  BY DEF HandleDisable, SwitchesOff, IShared, CallsTypeOK
<1>2. Switch("intercept")
  BY <1>1, SwitchNames DEF Switch, IShared, DomainsTypeOK, Switches
<1>3. /\ Begins("intercept", c, s, "running")
      /\ sent' = [sent EXCEPT ![s] = @ \cup {Msg("Fetch.disable", c, attached[s])}]
  BY <1>0, <1>1, <1>2, CommandBegins
<1>4. InterceptTypeOK'
  BY <1>1 DEF HandleDisable, IIntercept, InterceptTypeOK
<1>5. ASSUME orderly'["intercept"], NEW r \in Sessions
      PROVE  /\ "Fetch" \notin on'[r]
  <2>1. /\ orderly["intercept"]
        /\ UsedBy("intercept", r) => r = s
    BY <1>3, <1>5, InterceptBegins
  <2>2. "Fetch" \in on[r] => r = s
    BY <2>1 DEF IIntercept, InterceptOrderly
  <2> QED BY <1>1, <2>2 DEF IShared, DomainsTypeOK
<1> QED BY <1>3, <1>4, <1>5 DEF IIntercept, InterceptOrderly

LEMMA HandleManualStep ==
  ASSUME IShared, IIntercept, NEW c \in Calls, NEW s \in Sessions,
         NEW r \in Requests, HandleManual(c, s, r)
  PROVE  Begins("intercept", c, s, "running") /\ IIntercept'
<1>0. "intercept" \in Domains /\ "serve" \in CommandsOf("intercept")
  BY CommandNames DEF Domains
<1>1. PICK ok \in BOOLEAN : Serve(s, r, c, ok, paused[s])
  BY DEF HandleManual
<1>2. /\ Call(c, "intercept", s, "running") /\ Command(s, "serve", c, ok)
      /\ UNCHANGED <<on, is_intercepting, rules, fetchHandler, refused>>
  BY <1>1 DEF HandleManual, Serve
<1>3. Switch("intercept")
  BY <1>2 DEF Switch, IShared, DomainsTypeOK
<1>4. /\ Begins("intercept", c, s, "running")
      /\ sent' = [sent EXCEPT ![s] = @ \cup {Msg("serve", c, ok)}]
  BY <1>0, <1>2, <1>3, CommandBegins
<1>5. InterceptTypeOK'
  <2>1. paused' = [paused EXCEPT ![s] = IF ok THEN paused[s] \ {r} ELSE paused[s]]
    BY <1>1 DEF Serve
  <2>2. gone' = IF ok THEN gone \cup {r} ELSE gone
    BY <1>1 DEF Serve
  <2>3. paused' \in [Sessions -> SUBSET Requests] /\ gone' \subseteq Requests
    BY <2>1, <2>2 DEF IIntercept, InterceptTypeOK
  <2> QED BY <1>2, <2>3 DEF IIntercept, InterceptTypeOK
<1>6. Msg("serve", c, ok).cmd \notin {"Fetch.enable", "Fetch.disable"}
  BY DEF Msg
<1>7. InterceptOrderly'
  BY <1>0, <1>2, <1>4, <1>6, BeginsUses, SentMore, InterceptKept
<1> QED BY <1>4, <1>5, <1>7 DEF IIntercept

(* What the answer to a command takes from the set of commands.            *)
LEMMA AnswerTakes ==
  ASSUME IShared, NEW t \in Domains, NEW c \in Calls, NEW s \in Sessions,
         NEW cmd \in CommandsOf(t), NEW done \in BOOLEAN,
         GoesOn(t, c, s, Msg(cmd, c, done), {})
  PROVE  /\ tool[c] = t /\ tab[c] = s
         /\ Msg(cmd, c, done) \in sent[s]
         /\ UNCHANGED <<attached, tool, tab, orderly>>
         /\ \A r \in Sessions : \A m \in sent'[r] : m \in sent[r]
         /\ \A r \in Sessions : \A m \in sent[r] :
              \/ m \in sent'[r]
              \/ r = s /\ m.cmd = cmd /\ m.from.ok = done
         /\ \A r \in Sessions : UsedBy(t, r) <=> UsedBy(t, r)'
<1>1. \A r \in Sessions : \A m \in sent'[r] : m \in sent[r]
  BY GoesOnFacts
<1>2. ASSUME NEW r \in Sessions, NEW m \in sent[r], m \notin sent'[r]
      PROVE  r = s /\ m.cmd = cmd /\ m.from.ok = done
  <2>1. sent' = [sent EXCEPT ![s] = (@ \ {Msg(cmd, c, done)}) \cup {}]
    BY DEF GoesOn
  <2>2. r = s /\ m = Msg(cmd, c, done)
    BY <1>2, <2>1 DEF IShared
  <2> QED BY <2>2 DEF Msg
<1>3. UNCHANGED <<attached, tool, tab, orderly>> /\ tool[c] = t /\ tab[c] = s
  BY GoesOnFacts
<1>4. \A r \in Sessions : UsedBy(t, r) <=> UsedBy(t, r)'
  BY <1>3 DEF UsedBy
<1>5. Msg(cmd, c, done) \in sent[s]
  BY DEF GoesOn
<1> QED BY <1>1, <1>2, <1>3, <1>4, <1>5

LEMMA OnFetchEnabledStep ==
  ASSUME IShared, IIntercept, NEW c \in Calls, NEW s \in Sessions, NEW ok \in BOOLEAN,
         OnFetchEnabled(s, c, ok)
  PROVE  (\E old, new : GoesOn("intercept", c, s, old, new)) /\ IIntercept'
<1>0. "intercept" \in Domains /\ "Fetch.enable" \in CommandsOf("intercept")
  BY CommandNames DEF Domains
<1>1. /\ Reply(s, "Fetch.enable", c, ok) /\ Finish(c, ok)
      /\ UNCHANGED <<on, rules, paused, gone, refused>>
      /\ ok => is_intercepting' = TRUE /\ fetchHandler' = fetchHandler \cup {s}
      /\ ~ok => UNCHANGED <<is_intercepting, fetchHandler>>
  BY DEF OnFetchEnabled
<1>2. PICK done \in BOOLEAN :
        /\ ok = (done /\ attached[s])
        /\ GoesOn("intercept", c, s, Msg("Fetch.enable", c, done), {})
  BY <1>0, <1>1, ReplyEnds
<1>3. InterceptTypeOK'
  BY <1>1 DEF IIntercept, InterceptTypeOK
<1>4. ASSUME orderly'["intercept"], NEW r \in Sessions
      PROVE  /\ "Fetch" \in on'[r] =>
                  /\ UsedBy("intercept", r)'
                  /\ \/ is_intercepting' /\ r \in fetchHandler'
                     \/ Begun(r, "Fetch.enable")'
             /\ \A m \in sent'[r] : m.cmd = "Fetch.disable" => "Fetch" \notin on'[r]
  <2>1. /\ orderly["intercept"] /\ (UsedBy("intercept", r) => UsedBy("intercept", r)')
        /\ \A m \in sent'[r] : m \in sent[r]
        /\ \A m \in sent[r] : \/ m \in sent'[r]
                              \/ r = s /\ m.from.ok = done
    BY <1>0, <1>2, <1>4, AnswerTakes
  <2>2. ASSUME "Fetch" \in on[r], Begun(r, "Fetch.enable"), ~Begun(r, "Fetch.enable")'
        PROVE  is_intercepting' /\ r \in fetchHandler'
    <3>1. PICK m \in sent[r] : m.cmd = "Fetch.enable" /\ m.from.ok
      BY <2>2 DEF Begun
    <3>2. r = s /\ done
      BY <2>1, <2>2, <3>1 DEF Begun
    <3>3. attached[s]
      BY <2>2, <3>2 DEF IShared, ClosedIsOff
    <3> QED BY <1>1, <1>2, <3>2, <3>3
  <2>3. is_intercepting /\ r \in fetchHandler => is_intercepting' /\ r \in fetchHandler'
    BY <1>1
  <2> QED BY <1>1, <2>1, <2>2, <2>3 DEF IIntercept, InterceptOrderly
<1> QED BY <1>2, <1>3, <1>4 DEF IIntercept, InterceptOrderly

LEMMA OnFetchDisabledStep ==
  ASSUME IShared, IIntercept, NEW c \in Calls, NEW s \in Sessions, NEW ok \in BOOLEAN,
         OnFetchDisabled(s, c, ok)
  PROVE  (\E old, new : GoesOn("intercept", c, s, old, new)) /\ IIntercept'
<1>0. "intercept" \in Domains /\ "Fetch.disable" \in CommandsOf("intercept")
  BY CommandNames DEF Domains
<1>1. /\ Reply(s, "Fetch.disable", c, ok) /\ Finish(c, TRUE)
      /\ is_intercepting' = FALSE
      /\ UNCHANGED <<on, rules, fetchHandler, paused, gone, refused>>
  BY DEF OnFetchDisabled
<1>2. PICK done \in BOOLEAN : GoesOn("intercept", c, s, Msg("Fetch.disable", c, done), {})
  BY <1>0, <1>1, ReplyEnds
<1>3. InterceptTypeOK'
  BY <1>1 DEF IIntercept, InterceptTypeOK
<1>4. ASSUME orderly'["intercept"], NEW r \in Sessions
      PROVE  "Fetch" \notin on'[r]
  <2>1. /\ orderly["intercept"] /\ tool[c] = "intercept" /\ tab[c] = s
        /\ Msg("Fetch.disable", c, done) \in sent[s]
    BY <1>0, <1>2, <1>4, AnswerTakes
  <2>2. Msg("Fetch.disable", c, done).cmd = "Fetch.disable"
    BY DEF Msg
  <2>3. "Fetch" \notin on[s]
    BY <2>1, <2>2 DEF IIntercept, InterceptOrderly
  <2>4. "Fetch" \in on[r] => r = s
    BY <1>0, <2>1, OrderlyTab DEF IIntercept, InterceptOrderly
  <2> QED BY <1>1, <2>3, <2>4
<1> QED BY <1>2, <1>3, <1>4 DEF IIntercept, InterceptOrderly

LEMMA OnSimpleResponseStep ==
  ASSUME IShared, IIntercept, NEW c \in Calls, NEW s \in Sessions, NEW ok \in BOOLEAN,
         OnSimpleResponse(s, c, ok)
  PROVE  (\E old, new : GoesOn("intercept", c, s, old, new)) /\ IIntercept'
<1>0. "intercept" \in Domains /\ "serve" \in CommandsOf("intercept")
  BY CommandNames DEF Domains
<1>1. Reply(s, "serve", c, ok) /\ Finish(c, ok) /\ UNCHANGED <<on, interceptVars>>
  BY DEF OnSimpleResponse
<1>2. PICK done \in BOOLEAN : GoesOn("intercept", c, s, Msg("serve", c, done), {})
  BY <1>0, <1>1, ReplyEnds
<1>3. InterceptTypeOK' /\ UNCHANGED <<is_intercepting, fetchHandler>>
  BY <1>1 DEF IIntercept, InterceptTypeOK, interceptVars
<1>4. \A r \in Sessions : \A m : m.cmd \in {"Fetch.enable", "Fetch.disable"} =>
        (m \in sent'[r] <=> m \in sent[r])
  BY <1>0, <1>2, AnswerTakes
<1>5. InterceptOrderly'
  BY <1>0, <1>1, <1>2, <1>3, <1>4, AnswerTakes, InterceptKept
<1> QED BY <1>2, <1>3, <1>5 DEF IIntercept

LEMMA OnRequestPausedStep ==
  ASSUME IShared, IIntercept, NEW s \in Sessions, NEW r \in Requests,
         OnRequestPaused(s, r)
  PROVE  Silent("intercept") /\ IIntercept'
<1>0. "intercept" \in Domains /\ "serve" \in CommandsOf("intercept")
  BY CommandNames DEF Domains
<1>1. UNCHANGED <<attached, tool, tab, status, orderly, on, is_intercepting,
                  rules, fetchHandler>>
  BY DEF OnRequestPaused
<1>2. Switch("intercept")
  BY <1>1 DEF Switch, IShared, DomainsTypeOK
<1>3. \/ sent' = sent
      \/ \E ok \in BOOLEAN : sent' = [sent EXCEPT ![s] = @ \cup {Msg("serve", r, ok)}]
  <2>1. CASE s \in fetchHandler /\ is_intercepting
    <3>1. PICK ok \in {TRUE, ActionFor(r) = "passthrough"} :
            Serve(s, r, r, ok, paused[s] \cup {r})
      BY <2>1 DEF OnRequestPaused
    <3>2. ok \in BOOLEAN
      OBVIOUS
    <3>3. sent' = [sent EXCEPT ![s] = @ \cup {Msg("serve", r, ok)}]
      BY <3>1 DEF Serve, Command, Send, Msg
    <3> QED BY <3>2, <3>3
  <2>2. CASE ~(s \in fetchHandler /\ is_intercepting)
    BY <2>2 DEF OnRequestPaused
  <2> QED BY <2>1, <2>2
<1>4. \A ok \in BOOLEAN : /\ Msg("serve", r, ok) \in Messages
                          /\ Msg("serve", r, ok).cmd = "serve"
                          /\ Msg("serve", r, ok).from.of = r
  BY <1>0, MessageFacts
<1>5. /\ sent' \in [Sessions -> SUBSET Messages]
      /\ \A p \in Sessions : \A m \in sent'[p] :
           m \in sent[p] \/ (m.cmd = "serve" /\ m.from.of \in Requests)
      /\ \A p \in Sessions : \A m : m.cmd # "serve" => (m \in sent'[p] <=> m \in sent[p])
  <2>1. CASE sent' = sent
    BY <2>1 DEF IShared
  <2>2. CASE \E ok \in BOOLEAN : sent' = [sent EXCEPT ![s] = @ \cup {Msg("serve", r, ok)}]
    <3>1. PICK ok \in BOOLEAN : sent' = [sent EXCEPT ![s] = @ \cup {Msg("serve", r, ok)}]
      BY <2>2
    <3> QED BY <3>1, <1>4 DEF IShared
  <2> QED BY <1>3, <2>1, <2>2
<1>6. Silent("intercept")
  BY <1>0, <1>1, <1>2, <1>5 DEF Silent
<1>7. InterceptTypeOK'
  <2>1. CASE s \in fetchHandler /\ is_intercepting
    <3>1. PICK ok \in {TRUE, ActionFor(r) = "passthrough"} :
            /\ Serve(s, r, r, ok, paused[s] \cup {r})
            /\ refused' = IF ok THEN refused ELSE refused \cup {r}
      BY <2>1 DEF OnRequestPaused
    <3>2. paused' \in [Sessions -> SUBSET Requests]
      BY <3>1 DEF Serve, IIntercept, InterceptTypeOK
    <3>3. gone' \subseteq Requests /\ refused' \subseteq Requests
      BY <3>1 DEF Serve, IIntercept, InterceptTypeOK
    <3> QED BY <1>1, <3>2, <3>3 DEF IIntercept, InterceptTypeOK
  <2>2. CASE ~(s \in fetchHandler /\ is_intercepting)
    <3>1. paused' = [paused EXCEPT ![s] = @ \cup {r}] /\ UNCHANGED <<gone, refused>>
      BY <2>2 DEF OnRequestPaused
    <3>2. paused' \in [Sessions -> SUBSET Requests]
      BY <3>1 DEF IIntercept, InterceptTypeOK
    <3> QED BY <1>1, <3>1, <3>2 DEF IIntercept, InterceptTypeOK
  <2> QED BY <2>1, <2>2
<1>8. InterceptOrderly'
  <2>1. \A p \in Sessions : UsedBy("intercept", p) => UsedBy("intercept", p)'
    BY <1>1 DEF UsedBy
  <2> QED BY <1>1, <1>5, <2>1, InterceptKept
<1> QED BY <1>6, <1>7, <1>8 DEF IIntercept

(* The answer to a command nobody waits for.                               *)
LEMMA ReplySilent ==
  ASSUME IShared, NEW t \in Domains, NEW of, NEW s \in Sessions,
         NEW cmd \in CommandsOf(t), NEW ok,
         Reply(s, cmd, of, ok), UNCHANGED <<status, on>>
  PROVE  /\ Silent(t)
         /\ \A r \in Sessions : \A m : m.cmd # cmd => (m \in sent'[r] <=> m \in sent[r])
<1>1. PICK done \in BOOLEAN : Answered(s, cmd, [of |-> of, ok |-> done], ok)
  BY DEF Reply
<1>2. /\ sent' = [sent EXCEPT ![s] = @ \ {Msg(cmd, of, done)}]
      /\ UNCHANGED <<attached, tool, tab, orderly>>
  BY <1>1 DEF Answered, Msg
<1>3. Msg(cmd, of, done).cmd = cmd
  BY DEF Msg
<1>4. \A r \in Sessions : \A m : m.cmd # cmd => (m \in sent'[r] <=> m \in sent[r])
  BY <1>2, <1>3 DEF IShared
<1>5. /\ sent' \in [Sessions -> SUBSET Messages]
      /\ \A r \in Sessions : \A m \in sent'[r] : m \in sent[r]
  BY <1>2 DEF IShared
<1>6. Switch(t)
  BY DEF Switch, IShared, DomainsTypeOK
<1> QED BY <1>2, <1>4, <1>5, <1>6 DEF Silent

LEMMA OnAutoHandleResponseStep ==
  ASSUME IShared, IIntercept, NEW s \in Sessions, NEW r \in Requests, NEW ok \in BOOLEAN,
         OnAutoHandleResponse(s, r, ok)
  PROVE  Silent("intercept") /\ IIntercept'
<1>0. "intercept" \in Domains /\ "serve" \in CommandsOf("intercept")
  BY CommandNames DEF Domains
<1>1. Reply(s, "serve", r, ok) /\ UNCHANGED <<status, on, interceptVars>>
  BY DEF OnAutoHandleResponse
<1>2. /\ Silent("intercept")
      /\ \A p \in Sessions : \A m : m.cmd # "serve" => (m \in sent'[p] <=> m \in sent[p])
  BY <1>0, <1>1, ReplySilent
<1>3. InterceptTypeOK' /\ UNCHANGED <<is_intercepting, fetchHandler>>
  BY <1>1 DEF IIntercept, InterceptTypeOK, interceptVars
<1>4. \A p \in Sessions : UsedBy("intercept", p) => UsedBy("intercept", p)'
  BY <1>2 DEF UsedBy, Silent
<1>5. InterceptOrderly'
  BY <1>1, <1>2, <1>3, <1>4, InterceptKept DEF Silent
<1> QED BY <1>2, <1>3, <1>5 DEF IIntercept

(* A step of tool t of one of the three kinds.                             *)
StepOf(t) ==
  \/ \E c \in Calls, s \in Sessions, state \in {"running", "ok", "error"} :
       Begins(t, c, s, state)
  \/ \E c \in Calls, s \in Sessions : \E old, new : GoesOn(t, c, s, old, new)
  \/ Silent(t)

LEMMA StepShared ==
  ASSUME IShared, NEW t \in Domains, StepOf(t)
  PROVE  IShared' /\ \A u \in Domains \ {t} : Frame(u)
<1>1. ASSUME NEW c \in Calls, NEW s \in Sessions, NEW state \in {"running", "ok", "error"},
             Begins(t, c, s, state)
      PROVE  IShared' /\ \A u \in Domains \ {t} : Frame(u)
  BY <1>1, BeginsShared, BeginsFrame
<1>2. ASSUME NEW c \in Calls, NEW s \in Sessions, NEW old, NEW new,
             GoesOn(t, c, s, old, new)
      PROVE  IShared' /\ \A u \in Domains \ {t} : Frame(u)
  BY <1>2, GoesOnShared, GoesOnFrame
<1>3. CASE Silent(t)
  BY <1>3, SilentShared, SilentFrame
<1> QED BY <1>1, <1>2, <1>3 DEF StepOf

LEMMA InterceptStep ==
  ASSUME IShared, IIntercept, InterceptNext
  PROVE  StepOf("intercept") /\ IIntercept'
<1> USE DEF StepOf
<1>1. ASSUME NEW s \in Sessions, NEW c \in Calls, NEW ok \in BOOLEAN,
             \/ HandleEnable(c, s, ok)
             \/ OnFetchEnabled(s, c, ok)
             \/ OnFetchDisabled(s, c, ok)
             \/ OnSimpleResponse(s, c, ok)
      PROVE  StepOf("intercept") /\ IIntercept'
  <2>1. CASE HandleEnable(c, s, ok)
    BY <2>1, HandleEnableStep
  <2>2. CASE OnFetchEnabled(s, c, ok)
    BY <2>2, OnFetchEnabledStep
  <2>3. CASE OnFetchDisabled(s, c, ok)
    BY <2>3, OnFetchDisabledStep
  <2>4. CASE OnSimpleResponse(s, c, ok)
    BY <2>4, OnSimpleResponseStep
  <2> QED BY <1>1, <2>1, <2>2, <2>3, <2>4
<1>2. ASSUME NEW s \in Sessions, NEW c \in Calls, HandleDisableAlreadyOff(c, s)
      PROVE  StepOf("intercept") /\ IIntercept'
  <2>1. rules' \in [RuleIds -> Rule \cup {NoRule}]
    BY <1>2 DEF HandleDisableAlreadyOff, interceptVars, IIntercept, InterceptTypeOK
  <2>2. Begins("intercept", c, s, "ok") /\ IIntercept'
    BY <1>2, <2>1, InterceptAtOnce DEF HandleDisableAlreadyOff, interceptVars
  <2> QED BY <2>2
<1>3. ASSUME NEW s \in Sessions, NEW c \in Calls, HandleDisable(c, s)
      PROVE  StepOf("intercept") /\ IIntercept'
  BY <1>3, HandleDisableStep
<1>4. ASSUME NEW s \in Sessions, NEW c \in Calls, NEW id \in RuleIds, NEW rule \in Rule,
             HandleAddRule(c, s, id, rule)
      PROVE  StepOf("intercept") /\ IIntercept'
  <2>1. rules' \in [RuleIds -> Rule \cup {NoRule}]
    BY <1>4 DEF HandleAddRule, IIntercept, InterceptTypeOK
  <2>2. Begins("intercept", c, s, "ok") /\ IIntercept'
    BY <1>4, <2>1, InterceptAtOnce DEF HandleAddRule
  <2> QED BY <2>2
<1>5. ASSUME NEW s \in Sessions, NEW c \in Calls, NEW id \in RuleIds,
             HandleRemoveRule(c, s, id)
      PROVE  StepOf("intercept") /\ IIntercept'
  <2>1. rules' \in [RuleIds -> Rule \cup {NoRule}]
    BY <1>5 DEF HandleRemoveRule, IIntercept, InterceptTypeOK
  <2>2. Call(c, "intercept", s, "ok") \/ Call(c, "intercept", s, "error")
    BY <1>5 DEF HandleRemoveRule
  <2>3. UNCHANGED <<sent, on, is_intercepting, fetchHandler, paused, gone, refused>>
    BY <1>5 DEF HandleRemoveRule
  <2>4. \/ Begins("intercept", c, s, "ok") /\ IIntercept'
        \/ Begins("intercept", c, s, "error") /\ IIntercept'
    BY <2>1, <2>2, <2>3, InterceptAtOnce
  <2> QED BY <2>4
<1>6. ASSUME NEW s \in Sessions, NEW c \in Calls, NEW r \in Requests, HandleManual(c, s, r)
      PROVE  StepOf("intercept") /\ IIntercept'
  BY <1>6, HandleManualStep
<1>7. ASSUME NEW s \in Sessions, NEW r \in Requests, OnRequestPaused(s, r)
      PROVE  StepOf("intercept") /\ IIntercept'
  BY <1>7, OnRequestPausedStep
<1>8. ASSUME NEW s \in Sessions, NEW r \in Requests, NEW ok \in BOOLEAN,
             OnAutoHandleResponse(s, r, ok)
      PROVE  StepOf("intercept") /\ IIntercept'
  BY <1>8, OnAutoHandleResponseStep
<1> HIDE DEF StepOf
<1> QED BY <1>1, <1>2, <1>3, <1>4, <1>5, <1>6, <1>7, <1>8 DEF InterceptNext

-----------------------------------------------------------------------------
(* coverage.                                                               *)

LEMMA FrameCoverage ==
  ASSUME ICoverage, Frame("coverage"), UNCHANGED coverageVars
  PROVE  ICoverage'
<1>1. CoverageTypeOK'
  BY DEF ICoverage, CoverageTypeOK, coverageVars
<1>2. \A s \in Sessions :
        /\ "ruleUsage" \in on'[s] <=> "ruleUsage" \in on[s]
        /\ "precise" \in on'[s] <=> "precise" \in on[s]
  BY SwitchNames DEF Frame
<1>3. \A s \in Sessions : UsedBy("coverage", s) => UsedBy("coverage", s)'
  BY DEF UsedBy, Frame
<1>4. \A s \in Sessions :
        /\ Begun(s, "CSS.startRuleUsageTracking") =>
             Begun(s, "CSS.startRuleUsageTracking")'
        /\ Begun(s, "Profiler.startPreciseCoverage") =>
             Begun(s, "Profiler.startPreciseCoverage")'
  BY CommandNames DEF Begun, Frame
<1>5. CoverageOrderly'
  BY <1>2, <1>3, <1>4 DEF ICoverage, CoverageOrderly, coverageVars, Frame
<1> QED BY <1>1, <1>5 DEF ICoverage

(* Steps that start nothing: what was under way still is.                  *)
LEMMA CoverageKept ==
  ASSUME ICoverage, UNCHANGED coverageVars,
         orderly'["coverage"] => orderly["coverage"],
         \A s \in Sessions :
           /\ "ruleUsage" \in on'[s] => "ruleUsage" \in on[s]
           /\ "precise" \in on'[s] => "precise" \in on[s],
         \A s \in Sessions : UsedBy("coverage", s) => UsedBy("coverage", s)',
         \A s \in Sessions : \A m \in sent[s] :
           m.cmd \in {"CSS.startRuleUsageTracking", "Profiler.startPreciseCoverage"} =>
             m \in sent'[s]
  PROVE  ICoverage'
<1>1. CoverageTypeOK'
  BY DEF ICoverage, CoverageTypeOK, coverageVars
<1>2. \A s \in Sessions :
        /\ Begun(s, "CSS.startRuleUsageTracking") =>
             Begun(s, "CSS.startRuleUsageTracking")'
        /\ Begun(s, "Profiler.startPreciseCoverage") =>
             Begun(s, "Profiler.startPreciseCoverage")'
  BY DEF Begun
<1>3. CoverageOrderly'
  BY <1>2 DEF ICoverage, CoverageOrderly, coverageVars
<1> QED BY <1>1, <1>3 DEF ICoverage

LEMMA CoverageBegins ==
  ASSUME IShared, ICoverage, UNCHANGED coverageVars, NEW c \in Calls, NEW s \in Sessions,
         NEW state \in {"running", "ok", "error"}, Begins("coverage", c, s, state),
         \A r \in Sessions :
           /\ "ruleUsage" \in on'[r] => "ruleUsage" \in on[r]
           /\ "precise" \in on'[r] => "precise" \in on[r]
  PROVE  ICoverage'
<1>1. "coverage" \in Domains
  BY DEF Domains
<1>2. \A r \in Sessions : sent[r] \subseteq sent'[r]
  BY <1>1, BeginsFacts
<1> QED BY <1>1, <1>2, BeginsUses, CoverageKept

LEMMA NothingToDoStep ==
  ASSUME IShared, ICoverage, NEW c \in Calls, NEW s \in Sessions, NothingToDo(c, s)
  PROVE  (\E state \in {"running", "ok", "error"} : Begins("coverage", c, s, state))
         /\ ICoverage'
<1>1. UNCHANGED <<sent, on>> /\ UNCHANGED coverageVars
  BY DEF NothingToDo
<1>2. Call(c, "coverage", s, "error")
  BY DEF NothingToDo
<1>3. Switch("coverage")
  BY <1>1 DEF Switch, IShared, DomainsTypeOK
<1>4. Begins("coverage", c, s, "error") /\ ICoverage'
  BY <1>1, <1>2, <1>3, CoverageBegins DEF Begins
<1> QED BY <1>4

LEMMA ExecuteCoverageStep ==
  ASSUME IShared, ICoverage, NEW c \in Calls, NEW s \in Sessions, NEW ok \in BOOLEAN,
         \/ ExecuteStartCSS(c, s, ok) \/ ExecuteStopCSS(c, s, ok)
         \/ ExecuteStartJS(c, s, ok) \/ ExecuteStopJS(c, s, ok)
  PROVE  Begins("coverage", c, s, "running") /\ ICoverage'
<1>0. "coverage" \in Domains
  BY DEF Domains
<1>1. PICK cmd \in CommandsOf("coverage") :
        /\ Call(c, "coverage", s, "running") /\ UNCHANGED coverageVars
        /\ Command(s, cmd, c, ok)
        /\ \/ on' = [on EXCEPT ![s] = IF ok THEN @ \cup {"CSS"} ELSE @]
           \/ on' = [on EXCEPT ![s] = IF ok THEN @ \ {"ruleUsage"} ELSE @]
           \/ on' = [on EXCEPT ![s] = IF ok THEN @ \cup {"Profiler"} ELSE @]
           \/ on' = on
  <2>1. CASE ExecuteStartCSS(c, s, ok)
    <3>1. "CSS.enable" \in CommandsOf("coverage")
      BY CommandNames
    <3> QED BY <2>1, <3>1 DEF ExecuteStartCSS, SwitchesOn
  <2>2. CASE ExecuteStopCSS(c, s, ok)
    <3>1. "CSS.stopRuleUsageTracking" \in CommandsOf("coverage")
      BY CommandNames
    <3> QED BY <2>2, <3>1 DEF ExecuteStopCSS
  <2>3. CASE ExecuteStartJS(c, s, ok)
    <3>1. "Profiler.enable" \in CommandsOf("coverage")
      BY CommandNames
    <3> QED BY <2>3, <3>1 DEF ExecuteStartJS, SwitchesOn
  <2>4. CASE ExecuteStopJS(c, s, ok)
    <3>1. "Profiler.takePreciseCoverage" \in CommandsOf("coverage")
      BY CommandNames
    <3> QED BY <2>4, <3>1 DEF ExecuteStopJS
  <2> QED BY <2>1, <2>2, <2>3, <2>4
<1>2. ok => attached[s]
  BY <1>1 DEF Command
<1>3. /\ on' \in [Sessions -> SUBSET Switches]
      /\ \A r \in Sessions :
           /\ \A x \in {"Fetch", "Network"} : x \in on'[r] <=> x \in on[r]
           /\ "ruleUsage" \in on'[r] => "ruleUsage" \in on[r]
           /\ "precise" \in on'[r] => "precise" \in on[r]
           /\ ~attached[r] => on'[r] \subseteq on[r]
  BY <1>1, <1>2 DEF IShared, DomainsTypeOK, Switches
<1>4. Switch("coverage")
  BY <1>3, SwitchNames DEF Switch, Switches
<1>5. Begins("coverage", c, s, "running")
  BY <1>0, <1>1, <1>4, CommandBegins
<1> QED BY <1>1, <1>3, <1>5, CoverageBegins

(* The answer to the first command of a start.                             *)
LEMMA OnDomainEnabledStep ==
  ASSUME IShared, ICoverage, NEW c \in Calls, NEW s \in Sessions, NEW done \in BOOLEAN,
         NEW first, NEW second, NEW what,
         \/ /\ first = "CSS.enable" /\ second = "CSS.startRuleUsageTracking"
            /\ what = "ruleUsage"
         \/ /\ first = "Profiler.enable" /\ second = "Profiler.startPreciseCoverage"
            /\ what = "precise",
         OnDomainEnabled(s, c, first, second, what, done)
  PROVE  (\E old, new : GoesOn("coverage", c, s, old, new)) /\ ICoverage'
<1>0. /\ "coverage" \in Domains
      /\ first \in CommandsOf("coverage") /\ second \in CommandsOf("coverage")
      /\ first \notin {"CSS.startRuleUsageTracking", "Profiler.startPreciseCoverage",
                       "CSS.disable", "Profiler.stopPreciseCoverage"}
      /\ what \in Switches /\ what \in SwitchesOf("coverage")
  BY CommandNames, SwitchNames DEF Domains, Switches
<1>1. PICK answer \in [cmd : {first}, from : [of : {c}, ok : BOOLEAN]] :
        LET ok == answer.from.ok /\ attached[s]
            next == [cmd |-> second, from |-> [of |-> c, ok |-> done]]
        IN  /\ attached[s] => Runnable
            /\ answer \in sent[s]
            /\ done => ok
            /\ sent' = [sent EXCEPT ![s] =
                          (@ \ {answer}) \cup (IF ok THEN {next} ELSE {})]
            /\ on' = [on EXCEPT ![s] = IF done THEN @ \cup {what} ELSE @]
            /\ IF ok THEN UNCHANGED status ELSE Finish(c, FALSE)
            /\ UNCHANGED <<attached, tool, tab, orderly, coverageVars>>
  BY DEF OnDomainEnabled
<1> DEFINE ok == answer.from.ok /\ attached[s]
           next == Msg(second, c, done)
           new == IF ok THEN {next} ELSE {}
<1>2. /\ answer \in sent[s] /\ answer.cmd = first /\ answer.from.of = c
      /\ done => attached[s] /\ ok
      /\ sent' = [sent EXCEPT ![s] = (@ \ {answer}) \cup new]
      /\ on' = [on EXCEPT ![s] = IF done THEN @ \cup {what} ELSE @]
      /\ IF ok THEN UNCHANGED status ELSE Finish(c, FALSE)
      /\ UNCHANGED <<attached, tool, tab, orderly>> /\ UNCHANGED coverageVars
  BY <1>1 DEF Msg
<1>3. next \in Messages /\ next.cmd = second /\ next.from.of = c /\ next.from.ok = done
  BY <1>0, MessageFacts
<1>4. /\ Switch("coverage")
      /\ \A r \in Sessions : \A x \in on'[r] : x \in on[r] \/ (x = what /\ r = s /\ done)
  <2>1. on' \in [Sessions -> SUBSET Switches]
    BY <1>0, <1>2 DEF IShared, DomainsTypeOK
  <2>2. \A r \in Sessions : \A x : x \in on'[r] <=> x \in on[r] \/ (x = what /\ r = s /\ done)
    BY <1>2 DEF IShared, DomainsTypeOK
  <2> QED BY <1>0, <1>2, <2>1, <2>2 DEF Switch
<1>5. /\ new \subseteq Messages
      /\ \A m, n \in new : m = n /\ m.cmd \in CommandsOf("coverage") /\ m.from.of = c
      /\ ~ok => new = {}
      /\ done => next \in new
  BY <1>0, <1>2, <1>3
<1> HIDE DEF ok, next, new
<1>6. GoesOn("coverage", c, s, answer, new)
  <2>1. Awaited(answer)
    BY <1>0, <1>2 DEF Awaited
  <2>2. \/ status' = status
        \/ /\ \E b \in BOOLEAN : Finish(c, b)
           /\ \A m \in new : ~Awaited(m)
    BY <1>2, <1>5
  <2> QED BY <1>0, <1>2, <1>4, <1>5, <2>1, <2>2 DEF GoesOn
<1>7. CoverageTypeOK'
  BY <1>2 DEF ICoverage, CoverageTypeOK, coverageVars
<1>8. \A r \in Sessions : \A cmd \in {"CSS.startRuleUsageTracking", "Profiler.startPreciseCoverage"} :
        Begun(r, cmd) => Begun(r, cmd)'
  <2>1. \A r \in Sessions : \A m \in sent[r] : m # answer => m \in sent'[r]
    BY <1>0, <1>6, GoesOnFacts
  <2> QED BY <1>0, <1>2, <2>1 DEF Begun
<1>9. done => Begun(s, second)'
  <2>1. done => next \in sent'[s]
    BY <1>0, <1>5, <1>6, GoesOnFacts
  <2> QED BY <1>3, <2>1 DEF Begun
<1>10. UsedBy("coverage", s)' /\ \A r \in Sessions : UsedBy("coverage", r) => UsedBy("coverage", r)'
  BY <1>0, <1>6, GoesOnFacts DEF UsedBy
<1>11. CoverageOrderly'
  BY <1>2, <1>4, <1>8, <1>9, <1>10 DEF ICoverage, CoverageOrderly, coverageVars
<1> QED BY <1>6, <1>7, <1>11 DEF ICoverage

(* ... and to the second, with which it is tracked what is on.             *)
LEMMA OnStartedStep ==
  ASSUME IShared, ICoverage, NEW c \in Calls, NEW s \in Sessions, NEW ok \in BOOLEAN,
         OnCssTrackingStarted(s, c, ok) \/ OnJsCoverageStarted(s, c, ok)
  PROVE  (\E old, new : GoesOn("coverage", c, s, old, new)) /\ ICoverage'
<1>0. "coverage" \in Domains
  BY DEF Domains
<1>1. PICK cmd \in {"CSS.startRuleUsageTracking", "Profiler.startPreciseCoverage"} :
        /\ Reply(s, cmd, c, ok) /\ Finish(c, ok) /\ on' = on
        /\ css_tracking' = (css_tracking \/ (ok /\ cmd = "CSS.startRuleUsageTracking"))
        /\ js_tracking' = (js_tracking \/ (ok /\ cmd = "Profiler.startPreciseCoverage"))
  <2>1. CASE OnCssTrackingStarted(s, c, ok)
    BY <2>1 DEF OnCssTrackingStarted, ICoverage, CoverageTypeOK
  <2>2. CASE OnJsCoverageStarted(s, c, ok)
    BY <2>2 DEF OnJsCoverageStarted, ICoverage, CoverageTypeOK
  <2> QED BY <2>1, <2>2
<1>2. cmd \in CommandsOf("coverage")
  BY CommandNames
<1>3. PICK done \in BOOLEAN :
        /\ ok = (done /\ attached[s])
        /\ GoesOn("coverage", c, s, Msg(cmd, c, done), {})
  BY <1>0, <1>1, <1>2, ReplyEnds
<1>4. CoverageTypeOK'
  BY <1>1 DEF ICoverage, CoverageTypeOK
<1>5. /\ orderly' = orderly
      /\ \A r \in Sessions : UsedBy("coverage", r) <=> UsedBy("coverage", r)'
      /\ \A r \in Sessions : \A m \in sent[r] :
           \/ m \in sent'[r]
           \/ r = s /\ m.cmd = cmd /\ m.from.ok = done
  BY <1>0, <1>2, <1>3, AnswerTakes
<1>6. ASSUME NEW r \in Sessions, on[r] # {},
             NEW x \in {"CSS.startRuleUsageTracking", "Profiler.startPreciseCoverage"},
             Begun(r, x), ~Begun(r, x)'
      PROVE  ok /\ cmd = x
  <2>1. PICK m \in sent[r] : m.cmd = x /\ m.from.ok
    BY <1>6 DEF Begun
  <2>2. r = s /\ m.cmd = cmd /\ done
    BY <1>5, <1>6, <2>1 DEF Begun
  <2>3. attached[s]
    BY <1>6, <2>2 DEF IShared, ClosedIsOff
  <2> QED BY <1>3, <2>1, <2>2, <2>3
<1>7. ASSUME orderly'["coverage"], NEW r \in Sessions
      PROVE  /\ "ruleUsage" \in on'[r] \/ "precise" \in on'[r] => UsedBy("coverage", r)'
             /\ "ruleUsage" \in on'[r] =>
                  css_tracking' \/ Begun(r, "CSS.startRuleUsageTracking")'
             /\ "precise" \in on'[r] =>
                  js_tracking' \/ Begun(r, "Profiler.startPreciseCoverage")'
  <2>1. /\ "ruleUsage" \in on[r] \/ "precise" \in on[r] => UsedBy("coverage", r)
        /\ "ruleUsage" \in on[r] =>
             css_tracking \/ Begun(r, "CSS.startRuleUsageTracking")
        /\ "precise" \in on[r] =>
             js_tracking \/ Begun(r, "Profiler.startPreciseCoverage")
    BY <1>5, <1>7 DEF ICoverage, CoverageOrderly
  <2>2. "ruleUsage" \in on[r] =>
          css_tracking' \/ Begun(r, "CSS.startRuleUsageTracking")'
    BY <1>1, <1>6, <2>1
  <2>3. "precise" \in on[r] =>
          js_tracking' \/ Begun(r, "Profiler.startPreciseCoverage")'
    BY <1>1, <1>6, <2>1
  <2> QED BY <1>1, <1>5, <2>1, <2>2, <2>3
<1>8. CoverageOrderly'
  BY <1>7 DEF CoverageOrderly
<1> QED BY <1>3, <1>4, <1>8 DEF ICoverage

(* The answer to a stop: an orderly client stopped it where it was on.     *)
LEMMA OnStoppedStep ==
  ASSUME IShared, ICoverage, NEW c \in Calls, NEW s \in Sessions,
         OnCssTrackingStopped(s, c) \/ OnJsCoverageTaken(s, c)
  PROVE  (\E old, new : GoesOn("coverage", c, s, old, new)) /\ ICoverage'
<1>0. "coverage" \in Domains
  BY DEF Domains
<1>1. PICK first \in {"CSS.stopRuleUsageTracking", "Profiler.takePreciseCoverage"},
           second \in {"CSS.disable", "Profiler.stopPreciseCoverage"},
           what \in {{"CSS", "ruleUsage"}, {"precise"}} :
        /\ OnStopped(s, c, first, second, what)
        /\ \/ css_tracking' = FALSE /\ js_tracking' = js_tracking /\ "ruleUsage" \in what
           \/ js_tracking' = FALSE /\ css_tracking' = css_tracking /\ "precise" \in what
  <2>1. CASE OnCssTrackingStopped(s, c)
    BY <2>1 DEF OnCssTrackingStopped
  <2>2. CASE OnJsCoverageTaken(s, c)
    BY <2>2 DEF OnJsCoverageTaken
  <2> QED BY <2>1, <2>2
<1>2. first \in CommandsOf("coverage") /\ second \in CommandsOf("coverage")
  BY CommandNames
<1>3. PICK answer \in [cmd : {first}, from : [of : {c}, ok : BOOLEAN]] :
        /\ answer \in sent[s]
        /\ sent' = [sent EXCEPT ![s] = (@ \ {answer}) \cup
             {[cmd |-> second, from |-> [of |-> c, ok |-> attached[s]]]}]
        /\ on' = [on EXCEPT ![s] = @ \ what]
        /\ Finish(c, FALSE)
        /\ UNCHANGED <<attached, tool, tab, orderly>>
  BY <1>1 DEF OnStopped
<1> DEFINE next == Msg(second, c, attached[s])
<1>4. /\ answer.cmd = first /\ answer.from.of = c /\ attached[s] \in BOOLEAN
      /\ sent' = [sent EXCEPT ![s] = (@ \ {answer}) \cup {next}]
  BY <1>3 DEF Msg, IShared, CallsTypeOK
<1>5. next \in Messages /\ next.cmd = second /\ next.from.of = c
  BY <1>0, <1>2, <1>4, MessageFacts
<1> HIDE DEF next
<1>6. Switch("coverage")
  <2>1. on' \in [Sessions -> SUBSET Switches]
    BY <1>3 DEF IShared, DomainsTypeOK
  <2>2. \A r \in Sessions : \A x : x \in on'[r] <=> x \in on[r] /\ ~(r = s /\ x \in what)
    BY <1>3 DEF IShared, DomainsTypeOK
  <2> QED BY <2>1, <2>2, SwitchNames DEF Switch
<1>7. GoesOn("coverage", c, s, answer, {next})
  <2>1. Awaited(answer) /\ ~Awaited(next)
    BY <1>4, <1>5 DEF Awaited
  <2> QED BY <1>2, <1>3, <1>4, <1>5, <1>6, <2>1 DEF GoesOn
<1>8. CoverageTypeOK'
  BY <1>1 DEF ICoverage, CoverageTypeOK
<1>9. /\ tool[c] = "coverage" /\ tab[c] = s /\ orderly' = orderly
      /\ \A r \in Sessions : UsedBy("coverage", r) <=> UsedBy("coverage", r)'
      /\ \A r \in Sessions : \A m \in sent[r] : m = answer \/ m \in sent'[r]
  BY <1>0, <1>7, GoesOnFacts DEF UsedBy
<1>10. \A r \in Sessions :
         \A x \in {"CSS.startRuleUsageTracking", "Profiler.startPreciseCoverage"} :
           Begun(r, x) => Begun(r, x)'
  BY <1>4, <1>9 DEF Begun
<1>11. ASSUME orderly'["coverage"], NEW r \in Sessions
       PROVE  /\ "ruleUsage" \in on'[r] \/ "precise" \in on'[r] => UsedBy("coverage", r)'
              /\ "ruleUsage" \in on'[r] =>
                   css_tracking' \/ Begun(r, "CSS.startRuleUsageTracking")'
              /\ "precise" \in on'[r] =>
                   js_tracking' \/ Begun(r, "Profiler.startPreciseCoverage")'
  <2>1. \A x : x \in on'[r] => x \in on[r] /\ (r = s => x \notin what)
    BY <1>3 DEF IShared, DomainsTypeOK
  <2>2. UsedBy("coverage", r) => r = s
    BY <1>0, <1>9, <1>11, OrderlyTab
  <2>3. /\ "ruleUsage" \in on[r] \/ "precise" \in on[r] => UsedBy("coverage", r)
        /\ "ruleUsage" \in on[r] =>
             css_tracking \/ Begun(r, "CSS.startRuleUsageTracking")
        /\ "precise" \in on[r] =>
             js_tracking \/ Begun(r, "Profiler.startPreciseCoverage")
    BY <1>9, <1>11 DEF ICoverage, CoverageOrderly
  <2> QED BY <1>1, <1>9, <1>10, <2>1, <2>2, <2>3
<1>12. CoverageOrderly'
  BY <1>11 DEF CoverageOrderly
<1> QED BY <1>7, <1>8, <1>12 DEF ICoverage

LEMMA OnSwitchedOffStep ==
  ASSUME IShared, ICoverage, NEW c \in Calls, NEW s \in Sessions, NEW ok \in BOOLEAN,
         OnSwitchedOff(s, c, ok)
  PROVE  Silent("coverage") /\ ICoverage'
<1>0. "coverage" \in Domains
  BY DEF Domains
<1>1. PICK cmd \in {"CSS.disable", "Profiler.stopPreciseCoverage"} :
        Reply(s, cmd, c, ok) /\ UNCHANGED <<status, on>> /\ UNCHANGED coverageVars
  BY DEF OnSwitchedOff
<1>2. cmd \in CommandsOf("coverage")
  BY CommandNames
<1>3. /\ Silent("coverage")
      /\ \A r \in Sessions : \A m : m.cmd # cmd => (m \in sent'[r] <=> m \in sent[r])
  BY <1>0, <1>1, <1>2, ReplySilent
<1>4. /\ orderly' = orderly
      /\ \A r \in Sessions : UsedBy("coverage", r) => UsedBy("coverage", r)'
  BY <1>3 DEF Silent, UsedBy
<1>5. \A r \in Sessions : \A m \in sent[r] :
        m.cmd \in {"CSS.startRuleUsageTracking", "Profiler.startPreciseCoverage"} =>
          m \in sent'[r]
  BY <1>3
<1> QED BY <1>1, <1>3, <1>4, <1>5, CoverageKept

LEMMA CoverageStep ==
  ASSUME IShared, ICoverage, CoverageNext
  PROVE  StepOf("coverage") /\ ICoverage'
<1>1. ASSUME NEW s \in Sessions, NEW c \in Calls, NothingToDo(c, s)
      PROVE  StepOf("coverage") /\ ICoverage'
  BY <1>1, NothingToDoStep DEF StepOf
<1>2. ASSUME NEW s \in Sessions, NEW c \in Calls, NEW ok \in BOOLEAN,
             \/ ExecuteStartCSS(c, s, ok) \/ ExecuteStopCSS(c, s, ok)
             \/ ExecuteStartJS(c, s, ok) \/ ExecuteStopJS(c, s, ok)
      PROVE  StepOf("coverage") /\ ICoverage'
  BY <1>2, ExecuteCoverageStep DEF StepOf
<1>3. ASSUME NEW s \in Sessions, NEW c \in Calls, NEW ok \in BOOLEAN,
             OnCssEnabled(s, c, ok) \/ OnProfilerEnabled(s, c, ok)
      PROVE  StepOf("coverage") /\ ICoverage'
  <2>1. CASE OnCssEnabled(s, c, ok)
    BY <2>1, OnDomainEnabledStep DEF OnCssEnabled, StepOf
  <2>2. CASE OnProfilerEnabled(s, c, ok)
    BY <2>2, OnDomainEnabledStep DEF OnProfilerEnabled, StepOf
  <2> QED BY <1>3, <2>1, <2>2
<1>4. ASSUME NEW s \in Sessions, NEW c \in Calls, NEW ok \in BOOLEAN,
             OnCssTrackingStarted(s, c, ok) \/ OnJsCoverageStarted(s, c, ok)
      PROVE  StepOf("coverage") /\ ICoverage'
  BY <1>4, OnStartedStep DEF StepOf
<1>5. ASSUME NEW s \in Sessions, NEW c \in Calls, NEW ok \in BOOLEAN, OnSwitchedOff(s, c, ok)
      PROVE  StepOf("coverage") /\ ICoverage'
  BY <1>5, OnSwitchedOffStep DEF StepOf
<1>6. ASSUME NEW s \in Sessions, NEW c \in Calls,
             OnCssTrackingStopped(s, c) \/ OnJsCoverageTaken(s, c)
      PROVE  StepOf("coverage") /\ ICoverage'
  BY <1>6, OnStoppedStep DEF StepOf
<1> QED BY <1>1, <1>2, <1>3, <1>4, <1>5, <1>6 DEF CoverageNext

-----------------------------------------------------------------------------
(* network_capture of the server.                                          *)

LEMMA NoteFacts ==
  /\ NoteOf["sent"] = "zero" /\ NoteOf["received"] = "code"
  /\ NoteOf["finished"] = "code" /\ NoteOf["failed"] = "zero"
BY DEF NoteOf

LEMMA FrameCapture ==
  ASSUME ICapture, Frame("capture"), UNCHANGED captureVars
  PROVE  ICapture'
<1>1. CaptureTypeOK' /\ CaptureIsComplete'
  BY DEF ICapture, CaptureTypeOK, CaptureIsComplete, captureVars
<1>2. \A s \in Sessions : NetworkOn(s)' <=> NetworkOn(s)
  BY SwitchNames DEF Frame, NetworkOn
<1>3. StartersListen'
  <2>1. \A c \in starters :
          /\ c \in Calls /\ tool'[c] = "capture" /\ tab'[c] = tab[c]
          /\ status'[c] = status[c]
    BY DEF Frame, ICapture, StartersListen, CaptureTypeOK
  <2>2. \A s \in Sessions : \A m : m.cmd \in {"Network.enable", "Network.disable"} =>
          (m \in sent'[s] <=> m \in sent[s])
    BY CommandNames DEF Frame
  <2>3. \A c \in starters' :
          /\ tool'[c] = "capture" /\ tab'[c] \in Sessions
          /\ status'[c] = "ok" => NetworkOn(tab[c])'
    BY <1>2, <2>1 DEF ICapture, StartersListen, captureVars
  <2>4. \A s \in Sessions : \A m \in sent'[s] : m.from.of \in starters' =>
          /\ m.cmd # "Network.disable"
          /\ m.cmd = "Network.enable" /\ m.from.ok => NetworkOn(s)'
    BY <1>2, <2>2 DEF ICapture, StartersListen, captureVars
  <2>5. \A c \in starters' : tab'[c] = tab[c]
    BY <2>1 DEF captureVars
  <2> QED BY <2>3, <2>4, <2>5 DEF StartersListen, NetworkOn
<1>4. PromisesListen'
  BY <1>2 DEF ICapture, PromisesListen, captureVars, NetworkOn
<1> QED BY <1>1, <1>3, <1>4 DEF ICapture

LEMMA ExecuteNetworkCaptureStep ==
  ASSUME IShared, ICapture, NEW c \in Calls, NEW s \in Sessions, NEW start \in BOOLEAN,
         NEW ok \in BOOLEAN, ExecuteNetworkCapture(c, s, start, ok)
  PROVE  Begins("capture", c, s, "running") /\ ICapture'
<1>0. "capture" \in Domains
  BY DEF Domains
<1>1. PICK cmd \in CommandsOf("capture"), done \in BOOLEAN :
        /\ Call(c, "capture", s, "running") /\ Command(s, cmd, c, done)
        /\ \/ cmd = "Network.enable" /\ start
              /\ on' = [on EXCEPT ![s] = IF done THEN @ \cup {"Network"} ELSE @]
           \/ cmd = "Network.disable" /\ ~start
              /\ on' = [on EXCEPT ![s] = @ \ {"Network"}]
  <2>1. CASE start
    <3>1. "Network.enable" \in CommandsOf("capture")
      BY CommandNames
    <3> QED BY <2>1, <3>1 DEF ExecuteNetworkCapture, SwitchesOn
  <2>2. CASE ~start
    <3>1. "Network.disable" \in CommandsOf("capture") /\ attached[s] \in BOOLEAN
      BY CommandNames DEF IShared, CallsTypeOK
    <3> QED BY <2>2, <3>1 DEF ExecuteNetworkCapture, SwitchesOff
  <2> QED BY <2>1, <2>2
<1>2. /\ starters' = {d \in starters : tab[d] # s} \cup (IF start THEN {c} ELSE {})
      /\ promised' = {r \in promised : loader[r] # s}
      /\ UNCHANGED <<captured_requests, load, loader>>
  BY DEF ExecuteNetworkCapture
<1>3. done => attached[s]
  BY <1>1 DEF Command
<1>4. /\ Switch("capture")
      /\ \A r \in Sessions \ {s} : on'[r] = on[r]
      /\ cmd = "Network.enable" /\ done => "Network" \in on'[s]
  <2>1. on' \in [Sessions -> SUBSET Switches]
    BY <1>1 DEF IShared, DomainsTypeOK, Switches
  <2>2. \A r \in Sessions :
          /\ \A x : x # "Network" => (x \in on'[r] <=> x \in on[r])
          /\ ~attached[r] => on'[r] \subseteq on[r]
    BY <1>1, <1>3 DEF IShared, DomainsTypeOK
  <2>3. \A r \in Sessions \ {s} : on'[r] = on[r]
    BY <1>1 DEF IShared, DomainsTypeOK
  <2>4. cmd = "Network.enable" /\ done => "Network" \in on'[s]
    BY <1>1 DEF IShared, DomainsTypeOK
  <2> QED BY <2>1, <2>2, <2>3, <2>4, SwitchNames DEF Switch
<1>5. /\ Begins("capture", c, s, "running")
      /\ sent' = [sent EXCEPT ![s] = @ \cup {Msg(cmd, c, done)}]
  BY <1>0, <1>1, <1>4, CommandBegins
<1>6. /\ attached' = attached /\ tool[c] = "none"
      /\ tool'[c] = "capture" /\ tab'[c] = s /\ status'[c] = "running"
      /\ \A d \in Calls \ {c} :
           tool'[d] = tool[d] /\ tab'[d] = tab[d] /\ status'[d] = status[d]
      /\ \A r \in Sessions : \A m \in sent[r] : m.from.of # c
  BY <1>0, <1>5, BeginsFacts
<1>7. \A r \in Sessions \ {s} : NetworkOn(r) => NetworkOn(r)'
  BY <1>4, <1>6 DEF NetworkOn
<1>8. CaptureTypeOK'
  BY <1>2 DEF ICapture, CaptureTypeOK
<1>9. ASSUME NEW d \in starters'
      PROVE  /\ tool'[d] = "capture" /\ tab'[d] \in Sessions
             /\ status'[d] = "ok" =>
                  (attached'[tab'[d]] => "Network" \in on'[tab'[d]])
  <2>1. CASE d = c
    BY <1>6, <2>1
  <2>2. CASE d # c
    <3>1. d \in starters /\ d \in Calls /\ tab[d] # s
      BY <1>2, <2>2 DEF ICapture, CaptureTypeOK
    <3>2. /\ tool[d] = "capture" /\ tab[d] \in Sessions
          /\ status[d] = "ok" => NetworkOn(tab[d])
      BY <3>1 DEF ICapture, StartersListen
    <3>3. PICK r \in Sessions : r = tab[d]
      BY <3>2
    <3>4. tab'[d] = r /\ (status[d] = "ok" => NetworkOn(r)')
      BY <1>6, <1>7, <2>2, <3>1, <3>2, <3>3
    <3> QED BY <1>6, <2>2, <3>1, <3>2, <3>4 DEF NetworkOn
  <2> QED BY <2>1, <2>2
<1>10. ASSUME NEW r \in Sessions, NEW m \in sent'[r], m.from.of \in starters'
       PROVE  /\ m.cmd # "Network.disable"
              /\ m.cmd = "Network.enable" /\ m.from.ok => NetworkOn(r)'
  <2>1. CASE m \in sent[r]
    <3>1. m.from.of \in starters /\ tab[m.from.of] # s
      BY <1>2, <1>6, <1>10, <2>1
    <3>2. m.cmd = "Network.enable" => tab[m.from.of] = r
      BY <1>0, <2>1, <3>1, CommandNames DEF IShared, Belongs
    <3> QED BY <1>7, <2>1, <3>1, <3>2 DEF ICapture, StartersListen
  <2>2. CASE m \notin sent[r]
    <3>1. r = s /\ m = Msg(cmd, c, done)
      BY <1>5, <2>2 DEF IShared
    <3>2. m.cmd = cmd /\ m.from.of = c /\ m.from.ok = done
      BY <3>1 DEF Msg
    <3>3. c \notin starters
      BY <1>6 DEF ICapture, StartersListen
    <3>4. start
      BY <1>2, <1>10, <3>2, <3>3
    <3> QED BY <1>1, <1>4, <3>1, <3>2, <3>4 DEF NetworkOn
  <2> QED BY <2>1, <2>2
<1>11. StartersListen'
  BY <1>9, <1>10 DEF StartersListen, NetworkOn
<1>12. PromisesListen' /\ CaptureIsComplete'
  <2>1. ASSUME NEW r \in promised'
        PROVE  /\ load'[r] # "none" /\ loader'[r] \in Sessions
               /\ attached'[loader'[r]] => "Network" \in on'[loader'[r]]
               /\ captured_requests'[loader'[r]][r] = NoteOf[load'[r]]
    <3>1. r \in promised /\ loader[r] # s
      BY <1>2
    <3>2. loader[r] \in Sessions /\ NetworkOn(loader[r])
      BY <3>1 DEF ICapture, PromisesListen
    <3>3. PICK q \in Sessions : q = loader[r]
      BY <3>2
    <3>4. NetworkOn(q)'
      BY <1>7, <3>1, <3>2, <3>3
    <3>5. attached'[loader'[r]] => "Network" \in on'[loader'[r]]
      BY <1>2, <3>3, <3>4 DEF NetworkOn
    <3> QED BY <1>2, <3>1, <3>5 DEF ICapture, PromisesListen, CaptureIsComplete
  <2> QED BY <2>1 DEF PromisesListen, CaptureIsComplete, NetworkOn
<1> QED BY <1>5, <1>8, <1>11, <1>12 DEF ICapture

LEMMA OnCaptureAnsweredStep ==
  ASSUME IShared, ICapture, NEW c \in Calls, NEW s \in Sessions, NEW ok \in BOOLEAN,
         OnCaptureStarted(s, c, ok) \/ OnCaptureStopped(s, c, ok)
  PROVE  (\E old, new : GoesOn("capture", c, s, old, new)) /\ ICapture'
<1>0. "capture" \in Domains
  BY DEF Domains
<1>1. PICK cmd \in {"Network.enable", "Network.disable"} :
        Reply(s, cmd, c, ok) /\ Finish(c, ok) /\ on' = on /\ UNCHANGED captureVars
  BY DEF OnCaptureStarted, OnCaptureStopped
<1>2. cmd \in CommandsOf("capture")
  BY CommandNames
<1>3. PICK done \in BOOLEAN :
        /\ ok = (done /\ attached[s])
        /\ GoesOn("capture", c, s, Msg(cmd, c, done), {})
  BY <1>0, <1>1, <1>2, ReplyEnds
<1>4. /\ tool[c] = "capture" /\ tab[c] = s /\ Msg(cmd, c, done) \in sent[s]
      /\ UNCHANGED <<attached, tool, tab, orderly>>
      /\ \A r \in Sessions : \A m \in sent'[r] : m \in sent[r]
  BY <1>0, <1>2, <1>3, AnswerTakes
<1>5. /\ Msg(cmd, c, done).cmd = cmd /\ Msg(cmd, c, done).from.of = c
      /\ Msg(cmd, c, done).from.ok = done
  BY DEF Msg
<1>6. CaptureTypeOK' /\ CaptureIsComplete' /\ PromisesListen'
  BY <1>1, <1>4 DEF ICapture, CaptureTypeOK, CaptureIsComplete, PromisesListen,
                    captureVars, NetworkOn
<1>7. ASSUME NEW d \in starters
      PROVE  /\ tool[d] = "capture" /\ tab[d] \in Sessions
             /\ status'[d] = "ok" => NetworkOn(tab[d])
  <2>1. /\ tool[d] = "capture" /\ tab[d] \in Sessions /\ d \in Calls
        /\ status[d] = "ok" => NetworkOn(tab[d])
    BY DEF ICapture, StartersListen, CaptureTypeOK
  <2>2. CASE d # c
    BY <1>1, <2>1, <2>2 DEF Finish, IShared, CallsTypeOK
  <2>3. CASE d = c
    <3>1. status'[c] = "ok" => ok
      BY <1>1 DEF Finish, IShared, CallsTypeOK
    <3>2. cmd # "Network.disable"
      BY <1>4, <1>5, <2>3 DEF ICapture, StartersListen
    <3>3. done => NetworkOn(s)
      BY <1>4, <1>5, <2>3, <3>2 DEF ICapture, StartersListen
    <3> QED BY <1>3, <1>4, <2>1, <2>3, <3>1, <3>3
  <2> QED BY <2>2, <2>3
<1>8. StartersListen'
  BY <1>1, <1>4, <1>7 DEF ICapture, StartersListen, captureVars, NetworkOn
<1> QED BY <1>3, <1>6, <1>8 DEF ICapture

(* An event about request r of tab s.                                      *)
LEMMA NetworkEventStep ==
  ASSUME IShared, ICapture, NEW s \in Sessions, NEW r \in Requests,
         \/ OnNetworkRequestWillBeSent(s, r)
         \/ OnNetworkResponseReceived(s, r)
         \/ OnNetworkLoadingFinished(s, r)
         \/ OnNetworkLoadingFailed(s, r)
  PROVE  Silent("capture") /\ ICapture'
<1> DEFINE old == captured_requests[s][r]
<1>1. PICK state \in {"sent", "received", "finished", "failed"}, note \in Noted,
           known \in BOOLEAN :
        /\ NetworkEvent(s, r, state, note, known)
        /\ loader' = [loader EXCEPT ![r] = s]
        /\ promised' \subseteq promised \cup {r}
        /\ r \notin promised /\ r \in promised' => Told(s) /\ state = "sent"
        /\ (r \in promised \/ state = "sent") /\ (known => old # "none") =>
             note = NoteOf[state]
        /\ r \in promised' => known \in {FALSE, old # "none"}
        /\ r \in promised => loader[r] = s
  <2> USE NoteFacts
  <2>0. /\ old \in Noted /\ "zero" \in Noted /\ "code" \in Noted
        /\ loader \in [Requests -> Sessions \cup {NoSession}]
    BY DEF Noted, ICapture, CaptureTypeOK
  <2>1. r \in promised /\ loader[r] = s => load[r] # "none" /\ old = NoteOf[load[r]]
    BY DEF ICapture, PromisesListen, CaptureIsComplete
  <2>2. loader[r] = s => loader = [loader EXCEPT ![r] = s]
    BY <2>0
  <2>3. CASE OnNetworkRequestWillBeSent(s, r)
    <3>1. /\ NetworkEvent(s, r, "sent", "zero", FALSE)
          /\ loader' = [loader EXCEPT ![r] = s]
          /\ load[r] = "none" \/ loader[r] = s
          /\ promised' \subseteq promised \cup {r}
          /\ r \notin promised /\ r \in promised' => Told(s)
      BY <2>3 DEF OnNetworkRequestWillBeSent
    <3>2. r \in promised => loader[r] = s
      BY <3>1 DEF ICapture, PromisesListen
    <3> QED BY <2>0, <3>1, <3>2
  <2>4. CASE OnNetworkResponseReceived(s, r)
    <3>1. /\ NetworkEvent(s, r, "received", "code", TRUE)
          /\ loader[r] = s /\ load[r] = "sent" /\ UNCHANGED <<loader, promised>>
      BY <2>4 DEF OnNetworkResponseReceived
    <3>2. r \in promised => old # "none"
      BY <2>1, <3>1
    <3> QED BY <2>0, <2>2, <3>1, <3>2
  <2>5. CASE OnNetworkLoadingFinished(s, r)
    <3>1. /\ NetworkEvent(s, r, "finished", old, TRUE)
          /\ loader[r] = s /\ load[r] = "received" /\ UNCHANGED <<loader, promised>>
      BY <2>5 DEF OnNetworkLoadingFinished
    <3>2. r \in promised => old = "code"
      BY <2>1, <3>1
    <3> QED BY <2>0, <2>2, <3>1, <3>2
  <2>6. CASE OnNetworkLoadingFailed(s, r)
    <3>1. /\ NetworkEvent(s, r, "failed", "zero", TRUE)
          /\ loader[r] = s /\ load[r] \in {"sent", "received"}
          /\ UNCHANGED <<loader, promised>>
      BY <2>6 DEF OnNetworkLoadingFailed
    <3>2. r \in promised => old # "none"
      BY <2>1, <3>1
    <3> QED BY <2>0, <2>2, <3>1, <3>2
  <2> QED BY <2>3, <2>4, <2>5, <2>6
<1>2. /\ attached[s]
      /\ load' = [load EXCEPT ![r] = state]
      /\ captured_requests' =
           [captured_requests EXCEPT ![s][r] =
              IF "Network" \in on[s] /\ (known => old # "none") THEN note ELSE old]
      /\ UNCHANGED <<attached, sent, tool, tab, status, orderly, on, starters>>
  BY <1>1 DEF NetworkEvent, EventOf, callVars
<1>3. Silent("capture")
  BY <1>2 DEF Silent, Switch, IShared, DomainsTypeOK
<1>4. CaptureTypeOK'
  <2>1. old \in Noted
    BY DEF ICapture, CaptureTypeOK
  <2>2. captured_requests' \in [Sessions -> [Requests -> Noted]]
    BY <1>2, <2>1 DEF ICapture, CaptureTypeOK
  <2>3. /\ load' \in [Requests -> {"none", "sent", "received", "finished", "failed"}]
        /\ loader' \in [Requests -> Sessions \cup {NoSession}]
        /\ starters' \subseteq Calls /\ promised' \subseteq Requests
    BY <1>1, <1>2 DEF ICapture, CaptureTypeOK
  <2> QED BY <2>2, <2>3 DEF CaptureTypeOK
<1>5. StartersListen'
  BY <1>2 DEF ICapture, StartersListen, NetworkOn
<1>6. r \in promised' => "Network" \in on[s]
  <2>1. r \in promised => "Network" \in on[s]
    BY <1>1, <1>2 DEF ICapture, PromisesListen, NetworkOn
  <2>2. Told(s) => "Network" \in on[s]
    BY <1>2 DEF Told, ICapture, StartersListen, NetworkOn
  <2> QED BY <1>1, <2>1, <2>2
<1>7. ASSUME NEW p \in promised'
      PROVE  /\ load'[p] # "none" /\ loader'[p] \in Sessions
             /\ attached[loader'[p]] => "Network" \in on[loader'[p]]
             /\ captured_requests'[loader'[p]][p] = NoteOf[load'[p]]
  <2>1. p \in Requests /\ load \in [Requests -> {"none", "sent", "received", "finished", "failed"}]
        /\ loader \in [Requests -> Sessions \cup {NoSession}]
        /\ captured_requests \in [Sessions -> [Requests -> Noted]]
    BY <1>4, <1>7 DEF CaptureTypeOK, ICapture
  <2>2. CASE p # r
    <3>1. p \in promised /\ loader'[p] = loader[p] /\ load'[p] = load[p]
      BY <1>1, <1>2, <1>7, <2>1, <2>2
    <3>2. /\ load[p] # "none" /\ loader[p] \in Sessions
          /\ attached[loader[p]] => "Network" \in on[loader[p]]
          /\ captured_requests[loader[p]][p] = NoteOf[load[p]]
      BY <3>1 DEF ICapture, PromisesListen, NetworkOn, CaptureIsComplete
    <3>3. captured_requests'[loader[p]][p] = captured_requests[loader[p]][p]
      BY <1>2, <2>1, <2>2, <3>2
    <3> QED BY <3>1, <3>2, <3>3
  <2>3. CASE p = r
    <3>1. loader'[r] = s /\ load'[r] = state
      BY <1>1, <1>2, <2>1, <2>3
    <3>2. "Network" \in on[s] /\ (known => old # "none")
      BY <1>1, <1>6, <1>7, <2>3
    <3>3. captured_requests'[s][r] = note
      BY <1>2, <2>1, <2>3, <3>2
    <3>4. r \in promised \/ state = "sent"
      BY <1>1, <1>7, <2>3
    <3> QED BY <1>1, <2>3, <3>1, <3>2, <3>3, <3>4
  <2> QED BY <2>2, <2>3
<1>8. PromisesListen' /\ CaptureIsComplete'
  BY <1>2, <1>7 DEF PromisesListen, CaptureIsComplete, NetworkOn
<1> QED BY <1>3, <1>4, <1>5, <1>8 DEF ICapture

LEMMA CaptureStep ==
  ASSUME IShared, ICapture, CaptureNext
  PROVE  StepOf("capture") /\ ICapture'
<1>1. ASSUME NEW s \in Sessions, NEW c \in Calls, NEW start \in BOOLEAN, NEW ok \in BOOLEAN,
             ExecuteNetworkCapture(c, s, start, ok)
      PROVE  StepOf("capture") /\ ICapture'
  BY <1>1, ExecuteNetworkCaptureStep DEF StepOf
<1>2. ASSUME NEW s \in Sessions, NEW c \in Calls, NEW ok \in BOOLEAN,
             OnCaptureStarted(s, c, ok) \/ OnCaptureStopped(s, c, ok)
      PROVE  StepOf("capture") /\ ICapture'
  BY <1>2, OnCaptureAnsweredStep DEF StepOf
<1>3. ASSUME NEW s \in Sessions, NEW r \in Requests,
             \/ OnNetworkRequestWillBeSent(s, r)
             \/ OnNetworkResponseReceived(s, r)
             \/ OnNetworkLoadingFinished(s, r)
             \/ OnNetworkLoadingFailed(s, r)
      PROVE  StepOf("capture") /\ ICapture'
  BY <1>3, NetworkEventStep DEF StepOf
<1> QED BY <1>1, <1>2, <1>3 DEF CaptureNext

-----------------------------------------------------------------------------
(* A tab closes.                                                           *)

LEMMA ClosingShared ==
  ASSUME IShared, NEW s \in Sessions, CloseTab(s)
  PROVE  /\ IShared'
         /\ attached' = [attached EXCEPT ![s] = FALSE]
         /\ on' = [on EXCEPT ![s] = {}]
         /\ UNCHANGED <<sent, tool, tab, status>>
         /\ \A t \in Domains : orderly'[t] => orderly[t] /\ ~UsedBy(t, s)
<1>1. /\ attached' = [attached EXCEPT ![s] = FALSE]
      /\ on' = [on EXCEPT ![s] = {}]
      /\ UNCHANGED <<sent, tool, tab, status>>
      /\ orderly' = [t \in Tools |->
                       orderly[t] /\ \A c \in Calls : tool[c] = t => tab[c] # s]
  BY DEF CloseTab, AgentHostClosed, DomainsGone
<1>2. \A t \in Domains : orderly'[t] => orderly[t] /\ ~UsedBy(t, s)
  BY <1>1, CommandNames DEF UsedBy
<1>3. CallsTypeOK' /\ DomainsTypeOK' /\ NewIsUntouched'
  BY <1>1 DEF IShared, CallsTypeOK, DomainsTypeOK, NewIsUntouched
<1>4. Belongs' /\ OneAwaited' /\ RunningSent'
  BY <1>1 DEF IShared, Belongs, OneAwaited, RunningSent, Awaited
<1>5. OneTab'
  BY <1>1, <1>2 DEF IShared, OneTab
<1>6. ClosedIsOff'
  BY <1>1 DEF IShared, CallsTypeOK, DomainsTypeOK, ClosedIsOff
<1>7. sent' \in [Sessions -> SUBSET Messages]
  BY <1>1 DEF IShared
<1> QED BY <1>1, <1>2, <1>3, <1>4, <1>5, <1>6, <1>7 DEF IShared

LEMMA ClosingTools ==
  ASSUME IInv, NEW s \in Sessions, CloseTab(s)
  PROVE  IInv'
<1>1. /\ IShared'
      /\ attached' = [attached EXCEPT ![s] = FALSE]
      /\ on' = [on EXCEPT ![s] = {}]
      /\ UNCHANGED <<sent, tool, tab, status>>
      /\ \A t \in Domains : orderly'[t] => orderly[t] /\ ~UsedBy(t, s)
  BY ClosingShared DEF IInv
<1>2. /\ paused' = [paused EXCEPT ![s] = {}] /\ gone' = gone \cup paused[s]
      /\ UNCHANGED <<is_intercepting, rules, fetchHandler, refused>>
      /\ UNCHANGED coverageVars /\ UNCHANGED captureVars
  BY DEF CloseTab, PausedGone
<1>3. /\ on'[s] = {} /\ ~attached'[s]
      /\ \A r \in Sessions \ {s} : on'[r] = on[r] /\ attached'[r] = attached[r]
  BY <1>1 DEF IInv, IShared, CallsTypeOK, DomainsTypeOK
<1>4. \A r \in Sessions : on'[r] \subseteq on[r]
  BY <1>3
<1>5. \A r \in Sessions : \A t : UsedBy(t, r) => UsedBy(t, r)'
  BY <1>1 DEF UsedBy
<1>6. \A r \in Sessions : \A cmd : Begun(r, cmd) => Begun(r, cmd)'
  BY <1>1 DEF Begun
<1>7. IIntercept'
  <2>1. InterceptTypeOK'
    BY <1>2 DEF IInv, IIntercept, InterceptTypeOK
  <2>2. orderly'["intercept"] => orderly["intercept"]
    BY <1>1 DEF Domains
  <2>3. InterceptOrderly'
    BY <1>1, <1>2, <1>4, <1>5, <1>6, <2>2 DEF IInv, IIntercept, InterceptOrderly
  <2> QED BY <2>1, <2>3 DEF IIntercept
<1>8. ICoverage'
  <2>1. CoverageTypeOK'
    BY <1>2 DEF IInv, ICoverage, CoverageTypeOK, coverageVars
  <2>2. orderly'["coverage"] => orderly["coverage"]
    BY <1>1 DEF Domains
  <2>3. CoverageOrderly'
    BY <1>2, <1>4, <1>5, <1>6, <2>2 DEF IInv, ICoverage, CoverageOrderly, coverageVars
  <2> QED BY <2>1, <2>3 DEF ICoverage
<1>9. ICapture'
  <2>1. \A r \in Sessions : NetworkOn(r) => NetworkOn(r)'
    BY <1>3 DEF NetworkOn
  <2>2. CaptureTypeOK' /\ CaptureIsComplete'
    BY <1>2 DEF IInv, ICapture, CaptureTypeOK, CaptureIsComplete, captureVars
  <2>3. \A r \in Sessions : NetworkOn(r) =>
          (attached'[r] => "Network" \in on'[r])
    BY <2>1 DEF NetworkOn
  <2>4. StartersListen'
    BY <1>1, <1>2, <2>1, <2>3 DEF IInv, ICapture, StartersListen, captureVars, NetworkOn
  <2>5. PromisesListen'
    BY <1>2, <2>3 DEF IInv, ICapture, PromisesListen, captureVars, NetworkOn
  <2> QED BY <2>2, <2>4, <2>5 DEF ICapture
<1> QED BY <1>1, <1>7, <1>8, <1>9 DEF IInv

-----------------------------------------------------------------------------
LEMMA InitIInv == Init => IInv
<1> SUFFICES ASSUME Init PROVE IInv
  OBVIOUS
<1> USE DEF Init, CallsInit, DomainsInit
<1>1. IShared
  <2>1. CallsTypeOK /\ DomainsTypeOK /\ sent \in [Sessions -> SUBSET Messages]
    BY DEF CallsTypeOK, DomainsTypeOK
  <2>2. NewIsUntouched /\ Belongs /\ OneAwaited /\ RunningSent /\ ClosedIsOff
    BY DEF NewIsUntouched, Belongs, OneAwaited, RunningSent, ClosedIsOff
  <2>3. OneTab
    BY CommandNames DEF OneTab
  <2> QED BY <2>1, <2>2, <2>3 DEF IShared
<1>2. IIntercept
  BY DEF InterceptInit, IIntercept, InterceptTypeOK, InterceptOrderly
<1>3. ICoverage
  BY DEF CoverageInit, ICoverage, CoverageTypeOK, CoverageOrderly
<1>4. ICapture
  BY DEF CaptureInit, ICapture, CaptureTypeOK, StartersListen, PromisesListen,
         CaptureIsComplete, Noted
<1> QED BY <1>1, <1>2, <1>3, <1>4 DEF IInv

LEMMA NextIInv == IInv /\ [Next]_vars => IInv'
<1> SUFFICES ASSUME IInv, [Next]_vars PROVE IInv'
  OBVIOUS
<1>0. /\ Domains \ {"intercept"} = {"coverage", "capture"}
      /\ Domains \ {"coverage"} = {"intercept", "capture"}
      /\ Domains \ {"capture"} = {"intercept", "coverage"}
      /\ {"intercept", "coverage", "capture"} \subseteq Domains
  BY DEF Domains
<1>1. CASE InterceptNext /\ UNCHANGED <<coverageVars, captureVars>>
  <2>1. StepOf("intercept") /\ IIntercept'
    BY <1>1, InterceptStep DEF IInv
  <2>2. IShared' /\ Frame("coverage") /\ Frame("capture")
    BY <1>0, <2>1, StepShared DEF IInv
  <2> QED BY <1>1, <2>1, <2>2, FrameCoverage, FrameCapture DEF IInv
<1>2. CASE CoverageNext /\ UNCHANGED <<interceptVars, captureVars>>
  <2>1. StepOf("coverage") /\ ICoverage'
    BY <1>2, CoverageStep DEF IInv
  <2>2. IShared' /\ Frame("intercept") /\ Frame("capture")
    BY <1>0, <2>1, StepShared DEF IInv
  <2> QED BY <1>2, <2>1, <2>2, FrameIntercept, FrameCapture DEF IInv
<1>3. CASE CaptureNext /\ UNCHANGED <<interceptVars, coverageVars>>
  <2>1. StepOf("capture") /\ ICapture'
    BY <1>3, CaptureStep DEF IInv
  <2>2. IShared' /\ Frame("intercept") /\ Frame("coverage")
    BY <1>0, <2>1, StepShared DEF IInv
  <2> QED BY <1>3, <2>1, <2>2, FrameIntercept, FrameCoverage DEF IInv
<1>4. ASSUME NEW s \in Sessions, CloseTab(s)
      PROVE  IInv'
  BY <1>4, ClosingTools
<1>5. CASE UNCHANGED vars
  <2>1. /\ UNCHANGED <<attached, sent, tool, tab, status, orderly, on>>
        /\ UNCHANGED interceptVars /\ UNCHANGED coverageVars /\ UNCHANGED captureVars
    BY <1>5 DEF vars, callVars
  <2>2. Silent("intercept") /\ \A t \in Domains : Frame(t)
    BY <2>1 DEF Silent, Switch, Frame, IInv, IShared, DomainsTypeOK
  <2>3. IShared'
    BY <1>0, <2>2, SilentShared DEF IInv
  <2> QED BY <1>0, <2>1, <2>2, <2>3, FrameIntercept, FrameCoverage, FrameCapture DEF IInv
<1> QED BY <1>1, <1>2, <1>3, <1>4, <1>5 DEF Next

LEMMA AlwaysIInv == Spec => []IInv
<1> QED BY InitIInv, NextIInv, PTL DEF Spec

-----------------------------------------------------------------------------
(* TypeOK: the state of the tools keeps its types, whatever their calls do *)
(* to each other.                                                          *)
THEOREM DomainToolsTypeOK == Spec => []TypeOK
<1>1. IInv => TypeOK
  BY DEF IInv, IShared, IIntercept, ICoverage, ICapture, TypeOK
<1> QED BY <1>1, AlwaysIInv, PTL

(* Between the calls of an orderly client the flags of the coverage tool   *)
(* say what the agent tracks, also after a command that failed.            *)
THEOREM CoverageTracksInOrder == Spec => []OrderlyTracking
<1>1. IInv => OrderlyTracking
  <2> SUFFICES ASSUME IInv, orderly["coverage"], AtRest("coverage"), NEW s \in Sessions
               PROVE  /\ "ruleUsage" \in on[s] => css_tracking
                      /\ "precise" \in on[s] => js_tracking
    BY DEF OrderlyTracking
  <2>1. ASSUME NEW m \in sent[s],
               m.cmd \in {"CSS.startRuleUsageTracking", "Profiler.startPreciseCoverage"}
        PROVE  FALSE
    <3>1. m.from.of \in Calls /\ tool[m.from.of] = "coverage"
      BY <2>1, CommandNames DEF IInv, IShared, Belongs, Domains
    <3>2. status[m.from.of] = "running"
      BY <2>1, <3>1 DEF IInv, IShared, RunningSent, Awaited
    <3> QED BY <3>1, <3>2 DEF AtRest
  <2> QED BY <2>1 DEF IInv, ICoverage, CoverageOrderly, Begun
<1> QED BY <1>1, AlwaysIInv, PTL

(* Once a client was told that a capture runs, every request that begins in*)
(* the tab has a record in its session, with a status code exactly while   *)
(* it has a response and has not failed.                                   *)
THEOREM SessionCaptureIsComplete == Spec => []CaptureIsComplete
<1>1. IInv => CaptureIsComplete
  BY DEF IInv, ICapture
<1> QED BY <1>1, AlwaysIInv, PTL

(* A request that is paused between the calls of an orderly client goes on,*)
(* unless the agent refuses what a rule makes of it.                       *)
THEOREM InterceptOrderlyRequestsGoOn == Spec => OrderlyRequestsGoOn
<1> DEFINE GoesOnStep ==
             (orderly["intercept"] /\ AtRest("intercept")) =>
               \A s \in Sessions : paused'[s] \ paused[s] \subseteq refused'
<1>1. ASSUME IInv, [Next]_vars
      PROVE  [GoesOnStep]_<<callVars, on, interceptVars>>
  <2> SUFFICES ASSUME orderly["intercept"], AtRest("intercept"), NEW s \in Sessions,
                      NEW q \in paused'[s], q \notin paused[s]
               PROVE  q \in refused'
    OBVIOUS
  <2>1. ASSUME NEW p \in Sessions, "Fetch" \in on[p]
        PROVE  is_intercepting /\ p \in fetchHandler
    <3>1. ASSUME NEW m \in sent[p], m.cmd = "Fetch.enable"
          PROVE  FALSE
      <4>1. m.from.of \in Calls /\ tool[m.from.of] = "intercept"
        BY <1>1, <3>1, CommandNames DEF IInv, IShared, Belongs, Domains
      <4>2. status[m.from.of] = "running"
        BY <1>1, <3>1, <4>1 DEF IInv, IShared, RunningSent, Awaited
      <4> QED BY <4>1, <4>2 DEF AtRest
    <3> QED BY <1>1, <2>1, <3>1 DEF IInv, IIntercept, InterceptOrderly, Begun
  <2>2. paused \in [Sessions -> SUBSET Requests]
    BY <1>1 DEF IInv, IIntercept, InterceptTypeOK
  <2>3. ASSUME NEW p \in Sessions, NEW r \in Requests, OnRequestPaused(p, r)
        PROVE  q \in refused'
    <3>1. PICK ok \in {TRUE, ActionFor(r) = "passthrough"} :
            /\ Serve(p, r, r, ok, paused[p] \cup {r})
            /\ refused' = IF ok THEN refused ELSE refused \cup {r}
      BY <2>1, <2>3 DEF OnRequestPaused
    <3>2. paused' = [paused EXCEPT ![p] =
                       IF ok THEN (paused[p] \cup {r}) \ {r} ELSE paused[p] \cup {r}]
      BY <3>1 DEF Serve
    <3>3. q = r /\ ~ok
      BY <2>2, <3>2
    <3> QED BY <3>1, <3>3
  <2>4. ASSUME NEW p \in Sessions, NEW c \in Calls, NEW r \in Requests, HandleManual(c, p, r)
        PROVE  FALSE
    <3>1. PICK ok \in BOOLEAN : Serve(p, r, c, ok, paused[p])
      BY <2>4 DEF HandleManual
    <3>2. paused' = [paused EXCEPT ![p] = IF ok THEN paused[p] \ {r} ELSE paused[p]]
      BY <3>1 DEF Serve
    <3> QED BY <2>2, <3>2
  <2>5. ASSUME NEW p \in Sessions, paused' = [paused EXCEPT ![p] = {}]
        PROVE  FALSE
    BY <2>2, <2>5
  <2>6. CASE InterceptNext
    <3>1. \/ paused' = paused
          \/ \E p \in Sessions : paused' = [paused EXCEPT ![p] = {}]
          \/ \E p \in Sessions, c \in Calls, r \in Requests : HandleManual(c, p, r)
          \/ \E p \in Sessions, r \in Requests : OnRequestPaused(p, r)
      <4>1. PICK p \in Sessions :
              \/ \E c \in Calls :
                   \/ \E ok \in BOOLEAN : \/ HandleEnable(c, p, ok)
                                          \/ OnFetchEnabled(p, c, ok)
                                          \/ OnFetchDisabled(p, c, ok)
                                          \/ OnSimpleResponse(p, c, ok)
                   \/ HandleDisableAlreadyOff(c, p) \/ HandleDisable(c, p)
                   \/ \E id \in RuleIds : \/ \E rule \in Rule : HandleAddRule(c, p, id, rule)
                                         \/ HandleRemoveRule(c, p, id)
                   \/ \E r \in Requests : HandleManual(c, p, r)
              \/ \E r \in Requests : \/ OnRequestPaused(p, r)
                                     \/ \E ok \in BOOLEAN : OnAutoHandleResponse(p, r, ok)
        BY <2>6 DEF InterceptNext
      <4>2. ASSUME NEW c \in Calls, NEW ok \in BOOLEAN,
                   \/ HandleEnable(c, p, ok) \/ OnFetchEnabled(p, c, ok)
                   \/ OnFetchDisabled(p, c, ok) \/ OnSimpleResponse(p, c, ok)
            PROVE  paused' = paused \/ paused' = [paused EXCEPT ![p] = {}]
        BY <4>2 DEF HandleEnable, OnFetchEnabled, OnFetchDisabled, OnSimpleResponse,
             interceptVars
      <4>3. ASSUME NEW c \in Calls,
                   \/ HandleDisableAlreadyOff(c, p) \/ HandleDisable(c, p)
                   \/ \E id \in RuleIds : \/ \E rule \in Rule : HandleAddRule(c, p, id, rule)
                                         \/ HandleRemoveRule(c, p, id)
            PROVE  paused' = paused \/ paused' = [paused EXCEPT ![p] = {}]
        BY <4>3 DEF HandleDisableAlreadyOff, HandleDisable, HandleAddRule,
             HandleRemoveRule, interceptVars
      <4>4. ASSUME NEW r \in Requests, NEW ok \in BOOLEAN, OnAutoHandleResponse(p, r, ok)
            PROVE  paused' = paused
        BY <4>4 DEF OnAutoHandleResponse, interceptVars
      <4> QED BY <4>1, <4>2, <4>3, <4>4
    <3> QED BY <2>3, <2>4, <2>5, <3>1
  <2>7. \/ InterceptNext
        \/ paused' = paused
        \/ \E p \in Sessions : paused' = [paused EXCEPT ![p] = {}]
    BY <1>1 DEF Next, CloseTab, PausedGone, vars, interceptVars
  <2> QED BY <2>5, <2>6, <2>7
<1>2. IInv /\ [Next]_vars => [GoesOnStep]_<<callVars, on, interceptVars>>
  BY <1>1
<1>3. Spec => [][GoesOnStep]_<<callVars, on, interceptVars>>
  <2> HIDE DEF GoesOnStep
  <2> QED BY <1>2, AlwaysIInv, PTL DEF Spec
<1> QED BY <1>3 DEF OrderlyRequestsGoOn

=============================================================================

------------------------------ MODULE WaitTool ------------------------------
(***************************************************************************)
(* The tool "wait" (src/src/tools/wait_tool.cc) and the event handlers of  *)
(* McpSession that it uses.  There is one WaitTool for all clients and one *)
(* timer of each kind in it: what a timer runs when it fires is the        *)
(* closure of the wait that started it last.  Likewise a session has one   *)
(* handler for each event.  A closure that is replaced, and with it the    *)
(* callback of its wait, is destroyed without being run.                   *)
(*                                                                         *)
(* Everything runs on the UI thread, one action per task.  Time passes     *)
(* without a measure: a running timer may fire at any moment.              *)
(***************************************************************************)
EXTENDS Integers

CONSTANTS Waits,            \* calls of the tool
          NoWait,           \* no closure
          Sessions,         \* sessions the calls run on
          Requests,         \* ids of network requests, in each tab
          MaxPending,       \* bound: the count of a networkIdle wait
          MaxEvaluations    \* bound: polls of a wait that are not answered

ASSUME WaitAssumption == /\ NoWait \notin Waits
                         /\ MaxPending \in Nat
                         /\ MaxEvaluations \in Nat

VARIABLES
  kind,         \* what each call waits for, "new" before it starts
  on,           \* the session of each call
  completed,    \* ctx->completed, *done
  pending,      \* *pending_requests
  evaluating,   \* Runtime.evaluate commands of each call not answered yet
  timer,        \* the call whose closure each timer holds
  handler,      \* event_handlers_ of each session: whose closure
  attached,     \* is_attached_ of each session
  results,      \* how often the result of each call was delivered
  alone,        \* history: no other call was waiting at the same time
  seen,         \* history: requests each call heard begin and not end
  strayed       \* history: the end of a request the call had not heard begin
                \* lowered its count

vars == <<kind, on, completed, pending, evaluating, timer, handler, attached,
          results, alone, seen, strayed>>
heard == <<seen, strayed>>

(* "condition" stands for text, textGone and selector.                     *)
Kinds == {"new", "time", "condition", "navigation", "networkIdle"}

(* time_wait_timer_, poll_timer_, timeout_timer_, network_idle_timer_      *)
Timers == {"time", "poll", "timeout", "idle"}
NetworkEvents == {"requestWillBeSent", "loadingFinished", "loadingFailed"}
Events == NetworkEvents \cup {"loadEventFired"}

TypeOK ==
  /\ kind \in [Waits -> Kinds]
  /\ on \in [Waits -> Sessions]
  /\ completed \in [Waits -> BOOLEAN]
  /\ pending \in [Waits -> 0 .. MaxPending]
  /\ evaluating \in [Waits -> 0 .. MaxEvaluations]
  /\ timer \in [Timers -> Waits \cup {NoWait}]
  /\ handler \in [Sessions -> [Events -> Waits \cup {NoWait}]]
  /\ attached \in [Sessions -> BOOLEAN]
  /\ results \in [Waits -> Nat]
  /\ alone \in [Waits -> BOOLEAN]
  /\ seen \in [Waits -> SUBSET Requests]
  /\ strayed \in [Waits -> BOOLEAN]

Init ==
  /\ kind = [w \in Waits |-> "new"]
  /\ on \in [Waits -> Sessions]
  /\ completed = [w \in Waits |-> FALSE]
  /\ pending = [w \in Waits |-> 0]
  /\ evaluating = [w \in Waits |-> 0]
  /\ timer = [t \in Timers |-> NoWait]
  /\ handler = [s \in Sessions |-> [e \in Events |-> NoWait]]
  /\ attached = [s \in Sessions |-> TRUE]
  /\ results = [w \in Waits |-> 0]
  /\ alone = [w \in Waits |-> TRUE]
  /\ seen = [w \in Waits |-> {}]
  /\ strayed = [w \in Waits |-> FALSE]

Waiting(w) == kind[w] # "new" /\ results[w] = 0

-----------------------------------------------------------------------------
(* RegisterCdpEventHandler, UnregisterCdpEventHandler.                     *)
Registered(s, events, w) ==
  [handler EXCEPT ![s] = [e \in Events |-> IF e \in events THEN w ELSE @[e]]]

Unregistered(s, events) == Registered(s, events, NoWait)

(* Start() of some timers for w; Stop() of timers, whoever started them.   *)
Started(timers, w) == [t \in Timers |-> IF t \in timers THEN w ELSE timer[t]]
Stopped(timers) == Started(timers, NoWait)

Complete(w) ==
  /\ completed' = [completed EXCEPT ![w] = TRUE]
  /\ results' = [results EXCEPT ![w] = @ + 1]

-----------------------------------------------------------------------------
(* The tool is called, on a session that may be dead: nothing looks at it. *)
Execute(w, k) ==
  /\ kind[w] = "new"
  /\ kind' = [kind EXCEPT ![w] = k]
  /\ alone' = [v \in Waits |->
       alone[v] /\ (v = w => \A u \in Waits : ~Waiting(u)) /\ ~Waiting(v)]
  /\ UNCHANGED <<on, completed, pending, evaluating, attached, results, heard>>

WaitForTime(w) ==
  /\ Execute(w, "time")
  /\ timer' = Started({"time"}, w)
  /\ UNCHANGED handler

(* WaitForText, WaitForSelector *)
WaitForCondition(w) ==
  /\ Execute(w, "condition")
  /\ timer' = Started({"timeout", "poll"}, w)
  /\ UNCHANGED handler

(* Bug variant: without a time-out.                                        *)
WaitForNavigation_NoTimeout(w) ==
  /\ Execute(w, "navigation")
  /\ handler' = Registered(on[w], {"loadEventFired"}, w)
  /\ UNCHANGED timer

WaitForNavigation(w) ==
  /\ Execute(w, "navigation")
  /\ handler' = Registered(on[w], {"loadEventFired"}, w)
  /\ timer' = Started({"timeout"}, w)

WaitForNetworkIdle(w) ==
  /\ Execute(w, "networkIdle")
  /\ handler' = Registered(on[w], NetworkEvents, w)
  /\ timer' = Started({"timeout", "idle"}, w)

-----------------------------------------------------------------------------
(* Timers.                                                                 *)

TimeOver ==
  LET w == timer["time"]
  IN /\ w # NoWait
     /\ timer' = Stopped({"time"})
     /\ Complete(w)
     /\ UNCHANGED <<kind, on, pending, evaluating, handler, attached, alone,
                    heard>>

(* The repeating poll_timer_: the condition is evaluated in the page.  A   *)
(* session that is not attached refuses the command, which has no effect.  *)
OnPollTimer ==
  LET w == timer["poll"]
  IN /\ w # NoWait
     /\ ~completed[w]
     /\ attached[on[w]]
     /\ evaluating[w] < MaxEvaluations
     /\ evaluating' = [evaluating EXCEPT ![w] = @ + 1]
     /\ UNCHANGED <<kind, on, completed, pending, timer, handler, attached,
                    results, alone, heard>>

(* Bug variant: completed is not looked at.                                *)
OnEvaluateResponse_Again(w, met) ==
  /\ evaluating[w] > 0
  /\ evaluating' = [evaluating EXCEPT ![w] = @ - 1]
  /\ IF met
       THEN Complete(w) /\ timer' = Stopped({"poll", "timeout"})
       ELSE UNCHANGED <<completed, results, timer>>
  /\ UNCHANGED <<kind, on, pending, handler, attached, alone, heard>>

(* The page's answer to a poll of w.                                       *)
OnEvaluateResponse(w, met) ==
  /\ evaluating[w] > 0
  /\ evaluating' = [evaluating EXCEPT ![w] = @ - 1]
  /\ IF met /\ ~completed[w]
       THEN Complete(w) /\ timer' = Stopped({"poll", "timeout"})
       ELSE UNCHANGED <<completed, results, timer>>
  /\ UNCHANGED <<kind, on, pending, handler, attached, alone, heard>>

(* The time-out of the wait that started timeout_timer_ last.              *)
OnTimeout ==
  LET w == timer["timeout"]
  IN /\ w # NoWait
     /\ IF completed[w]
          THEN /\ timer' = Stopped({"timeout"})
               /\ UNCHANGED <<completed, results, handler>>
          ELSE /\ Complete(w)
               /\ \/ /\ kind[w] = "condition"
                     /\ timer' = Stopped({"timeout", "poll"})
                     /\ UNCHANGED handler
                  \/ /\ kind[w] = "navigation"
                     /\ timer' = Stopped({"timeout"})
                     /\ handler' = Unregistered(on[w], {"loadEventFired"})
                  \/ /\ kind[w] = "networkIdle"
                     /\ timer' = Stopped({"timeout", "idle"})
                     /\ handler' = Unregistered(on[w], NetworkEvents)
     /\ UNCHANGED <<kind, on, pending, evaluating, attached, alone, heard>>

(* No request for the idle time.                                           *)
NetworkIsIdle ==
  LET w == timer["idle"]
  IN /\ w # NoWait
     /\ IF completed[w]
          THEN /\ timer' = Stopped({"idle"})
               /\ UNCHANGED <<completed, results, handler>>
          ELSE /\ Complete(w)
               /\ timer' = Stopped({"idle", "timeout"})
               /\ handler' = Unregistered(on[w], NetworkEvents)
     /\ UNCHANGED <<kind, on, pending, evaluating, attached, alone, heard>>

-----------------------------------------------------------------------------
(* HandleCdpEvent: an event of session s runs the handler registered for   *)
(* it.  (Without one nothing happens.)                                     *)
Handles(s, e, w) == attached[s] /\ handler[s][e] = w /\ w # NoWait

LoadEventFired(s) ==
  \E w \in Waits :
    /\ Handles(s, "loadEventFired", w)
    /\ ~completed[w]
    /\ Complete(w)
    /\ handler' = Unregistered(s, {"loadEventFired"})
    /\ timer' = Stopped({"timeout"})
    /\ UNCHANGED <<kind, on, pending, evaluating, attached, alone, heard>>

(* w hears request r begin, also when r is redirected and begins again.    *)
Begins(w, r) ==
  /\ ~completed[w]
  /\ pending[w] < MaxPending
  /\ pending' = [pending EXCEPT ![w] = @ + 1]
  /\ seen' = [seen EXCEPT ![w] = @ \cup {r}]
  /\ UNCHANGED <<kind, on, completed, evaluating, handler, attached, results,
                 alone, strayed>>

(* Bug variant: the idle timer keeps running.                              *)
RequestWillBeSent_KeepsIdle(s, r) ==
  \E w \in Waits :
    /\ Handles(s, "requestWillBeSent", w)
    /\ Begins(w, r)
    /\ UNCHANGED timer

RequestWillBeSent(s, r) ==
  \E w \in Waits :
    /\ Handles(s, "requestWillBeSent", w)
    /\ Begins(w, r)
    /\ timer' = Stopped({"idle"})

(* w hears request r end: the count goes down if it is not zero, whichever *)
(* request r is, for the handlers do not look at the id.  r may have begun *)
(* before the wait.                                                        *)
OneLess(n) == IF n > 0 THEN n - 1 ELSE 0

Ends(w, r) ==
  /\ pending' = [pending EXCEPT ![w] = OneLess(@)]
  /\ seen' = [seen EXCEPT ![w] = @ \ {r}]
  /\ strayed' = [strayed EXCEPT ![w] = @ \/ (r \notin seen[w] /\ pending[w] > 0)]
  /\ UNCHANGED <<kind, on, completed, evaluating, handler, attached, results,
                 alone>>

LoadingFinished(s, r) ==
  \E w \in Waits :
    /\ Handles(s, "loadingFinished", w)
    /\ ~completed[w]
    /\ Ends(w, r)
    /\ timer' = IF pending'[w] = 0 THEN Started({"idle"}, w) ELSE timer

(* A failed request is counted as over, but the idle timer is not started. *)
LoadingFailed(s, r) ==
  \E w \in Waits :
    /\ Handles(s, "loadingFailed", w)
    /\ Ends(w, r)
    /\ UNCHANGED timer

(* The tab is closed: the pending evaluations fail, and are not "met".     *)
AgentHostClosed(s) ==
  /\ attached[s]
  /\ attached' = [attached EXCEPT ![s] = FALSE]
  /\ evaluating' = [w \in Waits |-> IF on[w] = s THEN 0 ELSE evaluating[w]]
  /\ UNCHANGED <<kind, on, completed, pending, timer, handler, results, alone,
                 heard>>

-----------------------------------------------------------------------------
Next ==
  \/ \E w \in Waits :
       \/ WaitForTime(w)
       \/ WaitForCondition(w)
       \/ WaitForNavigation(w)
       \/ WaitForNetworkIdle(w)
       \/ OnEvaluateResponse(w, TRUE)
       \/ OnEvaluateResponse(w, FALSE)
  \/ TimeOver
  \/ OnPollTimer
  \/ OnTimeout
  \/ NetworkIsIdle
  \/ \E s \in Sessions :
       \/ LoadEventFired(s)
       \/ AgentHostClosed(s)
       \/ \E r \in Requests :
            \/ RequestWillBeSent(s, r)
            \/ LoadingFinished(s, r)
            \/ LoadingFailed(s, r)

(* A timer that is not stopped fires.  Nothing else has to happen: pages   *)
(* need not answer, load, or come to rest.                                 *)
Spec == Init /\ [][Next]_vars /\ WF_vars(TimeOver) /\ WF_vars(OnTimeout)

-----------------------------------------------------------------------------
(* The callback of a call is a OnceCallback: running it again would end    *)
(* the browser.  Time-out, event, poll answers and idle timer may all come *)
(* for the same call, of which only the first completes it; and what is    *)
(* left behind serves calls that still wait: no timer and no event handler *)
(* holds the closure of a completed call, also where calls of several      *)
(* clients replaced and stopped each other's.                              *)
CompletedIsOver ==
  \A w \in Waits :
    /\ results[w] <= 1
    /\ completed[w] =>
         /\ \A t \in Timers : timer[t] # w
         /\ \A s \in Sessions, e \in Events : handler[s][e] # w

(* The idle timer, whose expiry ends a networkIdle wait with success, runs *)
(* for a call w only while w counts no request and all its handlers are in *)
(* place, so that the next request stops the timer, whichever calls came   *)
(* and went on this and other tabs.  And every request that w has heard    *)
(* begin has ended by then, unless the count was lowered for a request w   *)
(* had not heard begin: the handlers count and do not compare ids, so that *)
(* one that began before the wait and ends during it (line 568) hides one  *)
(* that is still open.                                                     *)
IdleTimerMeansQuiet ==
  \A w \in Waits : timer["idle"] = w =>
    /\ pending[w] = 0
    /\ \A e \in NetworkEvents : handler[on[w]][e] = w
    /\ seen[w] # {} => strayed[w]

(* A call that is not disturbed by another one gets its result, also when  *)
(* its tab is closed meanwhile.                                            *)
UndisturbedWaitEnds ==
  \A w \in Waits : (kind[w] # "new") ~> (results[w] > 0 \/ ~alone[w])

-----------------------------------------------------------------------------
(* What comments and descriptions in wait_tool.cc claim and the code does  *)
(* not do.                                                                 *)

(* Parameter "timeout": "maximum waiting time; beyond it an error is       *)
(* returned".  The calls of two clients replace each other's time-outs.    *)
EveryWaitEnds == \A w \in Waits : (kind[w] # "new") ~> (results[w] > 0)

(* Line 472: networkIdle "waits until a state without network requests has *)
(* lasted for idleTime".  The call may even have heard the request begin   *)
(* that is open when the idle timer runs.                                  *)
IdleMeansNoneOpen == timer["idle"] # NoWait => seen[timer["idle"]] = {}
=============================================================================

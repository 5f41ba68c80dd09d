--------------------------- MODULE NetworkCapture ---------------------------
(***************************************************************************)
(* The tool network_capture (src/src/tools/network_tool.cc).  Its flag,    *)
(* settings and buffer are shared by all clients and tabs; its event       *)
(* handlers are registered with the session of a tab.  network_requests    *)
(* only reads the buffer, and responseReceived only completes the data of  *)
(* a request in it: both are left out.                                     *)
(*                                                                         *)
(* The class is compiled, but RegisterBuiltinTools does not register it:   *)
(* under its names clients reach the server's own tools (SessionCapture).  *)
(* What is said here holds of the class, once it is registered.            *)
(***************************************************************************)
EXTENDS ToolCalls

CONSTANTS Requests,     \* what pages load, by requestId
          Over          \* the tab of a request that is loaded

ASSUME OverAssumption == Over \notin Sessions \cup {NoSession}

VARIABLES
  is_capturing,
  include_response_body,
  filter,               \* the requests that pass url and resource type filter
  captured_requests,    \* requests in the buffer
  response_body,        \* those of them with their body
  netHandler,   \* per session: which network events reach the capture tool
  netEnabled,   \* external: the Network domain is enabled
  page,         \* external: the tab that is loading the request
  sinceStart    \* history: requests seen since the last successful start

networkVars == <<is_capturing, include_response_body, filter,
                 captured_requests, response_body, netHandler, netEnabled,
                 page, sinceStart>>

NetworkTypeOK ==
  /\ is_capturing \in BOOLEAN
  /\ include_response_body \in BOOLEAN
  /\ filter \subseteq Requests
  /\ captured_requests \subseteq Requests
  /\ response_body \subseteq captured_requests
  /\ netHandler \in [Sessions -> {"none", "all", "responseReceived"}]
  /\ netEnabled \in [Sessions -> BOOLEAN]
  /\ page \in [Requests -> Sessions \cup {NoSession, Over}]
  /\ sinceStart \subseteq Requests

NetworkInit ==
  /\ is_capturing = FALSE
  /\ include_response_body = FALSE
  /\ filter = Requests
  /\ captured_requests = {}
  /\ response_body = {}
  /\ netHandler = [s \in Sessions |-> "none"]
  /\ netEnabled = [s \in Sessions |-> FALSE]
  /\ page = [r \in Requests |-> NoSession]
  /\ sinceStart = {}

Collected(requests, bodies) ==
  captured_requests' = requests /\ response_body' = bodies

-----------------------------------------------------------------------------
(* action=start                                                            *)

HandleStart(c, s, bodies, wanted) ==
  /\ Call(c, "network", s, "running")
  /\ IF is_capturing
       THEN Collected({}, {})
       ELSE UNCHANGED <<captured_requests, response_body>>
  /\ include_response_body' = bodies
  /\ filter' = wanted
  /\ Send(s, "Network.enable", c)
  /\ UNCHANGED <<is_capturing, netHandler, netEnabled, page, sinceStart>>

(* Bug variant: requests seen during the restart are not dropped.          *)
OnNetworkEnabled_Keeps(s, c, ok) ==
  /\ Answered(s, "Network.enable", c, ok)
  /\ Finish(c, ok)
  /\ IF ok
       THEN /\ is_capturing' = TRUE
            /\ netHandler' = [netHandler EXCEPT ![s] = "all"]
            /\ netEnabled' = [netEnabled EXCEPT ![s] = TRUE]
            /\ sinceStart' = {}
       ELSE UNCHANGED <<is_capturing, netHandler, netEnabled, sinceStart>>
  /\ UNCHANGED <<include_response_body, filter, captured_requests,
                 response_body, page>>

OnNetworkEnabled(s, c, ok) ==
  /\ Answered(s, "Network.enable", c, ok)
  /\ Finish(c, ok)
  /\ IF ok
       THEN /\ is_capturing' = TRUE
            /\ Collected({}, {})
            /\ netHandler' = [netHandler EXCEPT ![s] = "all"]
            /\ netEnabled' = [netEnabled EXCEPT ![s] = TRUE]
            /\ sinceStart' = {}
       ELSE UNCHANGED <<is_capturing, captured_requests, response_body,
                        netHandler, netEnabled, sinceStart>>
  /\ UNCHANGED <<include_response_body, filter, page>>

-----------------------------------------------------------------------------
(* action=stop                                                             *)

HandleStopRefused(c, s) ==
  /\ ~is_capturing
  /\ Call(c, "network", s, "error")
  /\ UNCHANGED <<sent, networkVars>>

(* Bug variant: the handlers stay.                                         *)
HandleStop_KeepsHandlers(c, s) ==
  /\ is_capturing
  /\ Call(c, "network", s, "running")
  /\ Send(s, "Network.disable", c)
  /\ UNCHANGED networkVars

(* The handlers of this session, whoever they belong to, are unregistered. *)
HandleStop(c, s) ==
  /\ is_capturing
  /\ Call(c, "network", s, "running")
  /\ netHandler' = [netHandler EXCEPT ![s] = "none"]
  /\ Send(s, "Network.disable", c)
  /\ UNCHANGED <<is_capturing, include_response_body, filter,
                 captured_requests, response_body, netEnabled, page,
                 sinceStart>>

(* Bug variant: the flag is not cleared.                                   *)
OnNetworkDisabled_StaysOn(s, c, ok) ==
  /\ Answered(s, "Network.disable", c, ok)
  /\ ok = attached[s]
  /\ Finish(c, TRUE)
  /\ Collected({}, {})
  /\ include_response_body' = FALSE
  /\ filter' = Requests
  /\ netEnabled' = [netEnabled EXCEPT ![s] = @ /\ ~ok]
  /\ UNCHANGED <<is_capturing, netHandler, page, sinceStart>>

(* What was captured is returned, also if the command failed, which it     *)
(* does only on a closed tab.                                              *)
OnNetworkDisabled(s, c, ok) ==
  /\ Answered(s, "Network.disable", c, ok)
  /\ ok = attached[s]
  /\ Finish(c, TRUE)
  /\ is_capturing' = FALSE
  /\ Collected({}, {})
  /\ include_response_body' = FALSE
  /\ filter' = Requests
  /\ netEnabled' = [netEnabled EXCEPT ![s] = @ /\ ~ok]
  /\ UNCHANGED <<netHandler, page, sinceStart>>

-----------------------------------------------------------------------------
(* Events.  The handlers see them while the Network domain is enabled.     *)

Seen(s) == netEnabled[s] /\ netHandler[s] = "all"

(* A request begins, or is redirected: then it is in the buffer already.   *)
RequestWillBeSent(s, r) ==
  /\ EventOf(s)
  /\ page[r] \in {s, NoSession}
  /\ page' = [page EXCEPT ![r] = s]
  /\ sinceStart' = sinceStart \cup {r}
  /\ captured_requests' =
       IF Seen(s) /\ is_capturing /\ r \in filter
         THEN captured_requests \cup {r}
         ELSE captured_requests
  /\ UNCHANGED <<callVars, is_capturing, include_response_body, filter,
                 response_body, netHandler, netEnabled>>

LoadingFinished(s, r) ==
  /\ EventOf(s)
  /\ page[r] = s
  /\ page' = [page EXCEPT ![r] = Over]
  /\ IF Seen(s) /\ r \in captured_requests /\ include_response_body
       THEN Send(s, "Network.getResponseBody", r)
       ELSE UNCHANGED sent
  /\ UNCHANGED <<attached, tool, tab, status, orderly, is_capturing,
                 include_response_body, filter, captured_requests,
                 response_body, netHandler, netEnabled, sinceStart>>

OnResponseBodyFetched(s, r, ok) ==
  /\ Answered(s, "Network.getResponseBody", r, ok)
  /\ response_body' = IF ok /\ r \in captured_requests
                        THEN response_body \cup {r}
                        ELSE response_body
  /\ UNCHANGED <<status, is_capturing, include_response_body, filter,
                 captured_requests, netHandler, netEnabled, page, sinceStart>>

(* The wait tool registers its own handlers for requestWillBeSent and      *)
(* loadingFinished (networkIdle), or unregisters whichever there are.      *)
WaitToolTakesOver(s) ==
  /\ EventOf(s)
  /\ netHandler[s] = "all"
  /\ netHandler' = [netHandler EXCEPT ![s] = "responseReceived"]
  /\ UNCHANGED <<callVars, is_capturing, include_response_body, filter,
                 captured_requests, response_body, netEnabled, page,
                 sinceStart>>

NetworkNext ==
  \/ \E c \in Calls, s \in Sessions :
       \/ \E bodies \in BOOLEAN, wanted \in SUBSET Requests :
            HandleStart(c, s, bodies, wanted)
       \/ HandleStopRefused(c, s)
       \/ HandleStop(c, s)
       \/ \E ok \in BOOLEAN :
            \/ OnNetworkEnabled(s, c, ok)
            \/ OnNetworkDisabled(s, c, ok)
  \/ \E s \in Sessions, r \in Requests :
       \/ RequestWillBeSent(s, r)
       \/ LoadingFinished(s, r)
       \/ \E ok \in BOOLEAN : OnResponseBodyFetched(s, r, ok)
  \/ \E s \in Sessions : WaitToolTakesOver(s)

-----------------------------------------------------------------------------
(* The buffer holds requests seen since the start that was answered last,  *)
(* though the handlers of an earlier one deliver while it is answered, and *)
(* only such that its filter lets through, though starts of several clients*)
(* replace each other's filter.  A body is stored with a request that is   *)
(* still there.  Between captures nothing is collected, also when the      *)
(* handlers of another tab than that of the stop are still registered.     *)
CollectsWhatWasAsked ==
  /\ captured_requests \subseteq sinceStart \cap filter
  /\ response_body \subseteq captured_requests
  /\ ~is_capturing => captured_requests = {}

(* While the tool says that it is capturing, and no stop is under way, it  *)
(* has handlers on a tab, and that tab, if it is open, sends it events.    *)
(* (Of the handlers, a networkIdle wait may have left it but the one for   *)
(* responseReceived: WaitToolTakesOver.  Then nothing more is collected.)  *)
CaptureIsFed ==
  (is_capturing /\ Outstanding("Network.disable") = {}) =>
    \E s \in Sessions : netHandler[s] # "none" /\ (attached[s] => netEnabled[s])

(* One client that waits for its answers leaves nothing behind on its tab. *)
OrderlyCaptureEnds ==
  (orderly["network"] /\ AtRest("network") /\ ~is_capturing) =>
    \A s \in Sessions : netHandler[s] = "none" /\ ~netEnabled[s]
=============================================================================

--------------------------- MODULE SessionCapture ---------------------------
(***************************************************************************)
(* The requests a session keeps (src/src/mcp_session.cc), and the tools    *)
(* network_capture and network_requests as the server registers them       *)
(* (src/src/mcp_server.cc): the capture is nothing but the Network domain  *)
(* of the active tab, shared by all clients.  network_requests only reads. *)
(***************************************************************************)
EXTENDS DomainCalls

VARIABLES
  captured_requests,  \* per session: what is noted of each request
  load,       \* external: how far the loading of each request is
  loader,     \* external: its tab
  starters,   \* history: calls with start that no other call for their tab
              \* has followed
  promised    \* history: requests that began in a tab after such a call was
              \* answered

captureVars == <<captured_requests, load, loader, starters, promised>>

(* What is noted of a request: nothing, or a record whose status_code is   *)
(* zero, as it is at first, or the code of the response.                   *)
Noted == {"none", "zero", "code"}

CaptureTypeOK ==
  /\ captured_requests \in [Sessions -> [Requests -> Noted]]
  /\ load \in [Requests -> {"none", "sent", "received", "finished", "failed"}]
  /\ loader \in [Requests -> Sessions \cup {NoSession}]
  /\ starters \subseteq Calls
  /\ promised \subseteq Requests

CaptureInit ==
  /\ captured_requests = [s \in Sessions |-> [r \in Requests |-> "none"]]
  /\ load = [r \in Requests |-> "none"]
  /\ loader = [r \in Requests |-> NoSession]
  /\ starters = {}
  /\ promised = {}

-----------------------------------------------------------------------------
(* A new start or stop ends the promises of the last one.                  *)
ExecuteNetworkCapture(c, s, start, ok) ==
  /\ Call(c, "capture", s, "running")
  /\ IF start
       THEN SwitchesOn(s, "Network.enable", c, "Network", ok)
       ELSE ok /\ SwitchesOff(s, "Network.disable", c, {"Network"})
  /\ starters' = {d \in starters : tab[d] # s} \cup (IF start THEN {c} ELSE {})
  /\ promised' = {r \in promised : loader[r] # s}
  /\ UNCHANGED <<captured_requests, load, loader>>

OnCaptureStarted(s, c, ok) ==
  /\ Reply(s, "Network.enable", c, ok)
  /\ Finish(c, ok)
  /\ UNCHANGED <<on, captureVars>>

OnCaptureStopped(s, c, ok) ==
  /\ Reply(s, "Network.disable", c, ok)
  /\ Finish(c, ok)
  /\ UNCHANGED <<on, captureVars>>

-----------------------------------------------------------------------------
(* An event about request r of tab s, which the session sees while the     *)
(* Network domain is enabled; "known": only for a request it has noted.    *)
NetworkEvent(s, r, state, note, known) ==
  /\ EventOf(s)
  /\ load' = [load EXCEPT ![r] = state]
  /\ captured_requests' =
       [captured_requests EXCEPT ![s][r] =
          IF "Network" \in on[s] /\ (known => @ # "none") THEN note ELSE @]
  /\ UNCHANGED <<callVars, on, starters>>

(* A client was told that the capture of tab s runs.                       *)
Told(s) == \E c \in starters : tab[c] = s /\ status[c] = "ok"

(* A request begins; or it is redirected, and noted anew.                  *)
OnNetworkRequestWillBeSent(s, r) ==
  /\ \/ load[r] = "none"
     \/ load[r] = "sent" /\ loader[r] = s
  /\ NetworkEvent(s, r, "sent", "zero", FALSE)
  /\ loader' = [loader EXCEPT ![r] = s]
  /\ promised' = IF Told(s) /\ load[r] = "none"
                    THEN promised \cup {r}
                    ELSE promised

OnNetworkResponseReceived(s, r) ==
  /\ loader[r] = s /\ load[r] = "sent"
  /\ NetworkEvent(s, r, "received", "code", TRUE)
  /\ UNCHANGED <<loader, promised>>

(* The body is not fetched: nothing is noted.                              *)
OnNetworkLoadingFinished(s, r) ==
  /\ loader[r] = s /\ load[r] = "received"
  /\ NetworkEvent(s, r, "finished", captured_requests[s][r], TRUE)
  /\ UNCHANGED <<loader, promised>>

(* Bug variant: a request that fails is dropped.                           *)
OnNetworkLoadingFailed_Drops(s, r) ==
  /\ loader[r] = s /\ load[r] \in {"sent", "received"}
  /\ NetworkEvent(s, r, "failed", "none", TRUE)
  /\ UNCHANGED <<loader, promised>>

(* The code is zero again: the record of a failed request is that of one   *)
(* without a response.                                                     *)
OnNetworkLoadingFailed(s, r) ==
  /\ loader[r] = s /\ load[r] \in {"sent", "received"}
  /\ NetworkEvent(s, r, "failed", "zero", TRUE)
  /\ UNCHANGED <<loader, promised>>

CaptureNext ==
  \E s \in Sessions :
    \/ \E c \in Calls, ok \in BOOLEAN :
         \/ \E start \in BOOLEAN : ExecuteNetworkCapture(c, s, start, ok)
         \/ OnCaptureStarted(s, c, ok)
         \/ OnCaptureStopped(s, c, ok)
    \/ \E r \in Requests :
         \/ OnNetworkRequestWillBeSent(s, r)
         \/ OnNetworkResponseReceived(s, r)
         \/ OnNetworkLoadingFinished(s, r)
         \/ OnNetworkLoadingFailed(s, r)

-----------------------------------------------------------------------------
(* The record that belongs to each state of a request.                     *)
NoteOf == [sent |-> "zero", received |-> "code", finished |-> "code",
           failed |-> "zero"]

(* Once a client has been told that the capture runs, and until another    *)
(* call for this tab, every request that begins there has a record, and    *)
(* the record has a status code exactly while the request has a response   *)
(* and has not failed, whatever the other tabs and earlier captures left.  *)
(* (A failed request and one without a response look the same.)            *)
CaptureIsComplete ==
  \A r \in promised : captured_requests[loader[r]][r] = NoteOf[load[r]]
=============================================================================

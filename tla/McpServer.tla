------------------------------ MODULE McpServer ------------------------------
(***************************************************************************)
(* McpServer (src/src/mcp_server.cc): the JSON-RPC server in the browser   *)
(* process.  It keeps the handshake and the assigned tab of every client   *)
(* (client_states_) and one CDP session per WebContents (sessions_), and   *)
(* answers every request of a client, tool calls asynchronously.           *)
(*                                                                         *)
(* All handlers run on the UI thread, each as one action.  The user of the *)
(* browser opens, activates, navigates and closes tabs between them.  A    *)
(* tab is named by its WebContents address: a tab opened later may get the *)
(* address of a closed one.  A session is seen here as what McpSession     *)
(* promises: an accepted command is answered once, at the latest when its  *)
(* tab is closed, and a dead session answers at once with an error.  Most  *)
(* tools answer their call when the last command is answered.  The waiting *)
(* tools do not: wait (its timers), keyboard with a delay, performance     *)
(* stopTrace (the event tracingComplete), history (HistoryService) and     *)
(* element_info with a property it does not know (which it counts but asks *)
(* nothing for) may hold a call that has no command pending.               *)
(***************************************************************************)
EXTENDS Naturals

CONSTANTS Clients,      \* client ids, handed out once each by the transport
          Tabs,         \* addresses of WebContents
          NoTab,        \* the null WebContents
          MaxRequests   \* bound: requests with an id each client sends

ASSUME ServerAssumption ==
  NoTab \notin Tabs /\ MaxRequests \in [Clients -> Nat]

VARIABLES
  conn,            \* external: the transport's view of each client
  client_states,   \* client_states_: handshake_state and assigned_tab
  sessions,        \* sessions_: state of the entry of each WebContents
  open,            \* external: WebContents that exist
  active,          \* external: active tab of chrome::FindLastActive()
  blank,           \* external: open tabs that show about:blank or the newtab page
  sent,            \* requests with an id each client has sent, ids 1 .. sent
  running,         \* tab whose session a call works on, NoTab if not running
  waits,           \* how a call waits: "no" for a command of an ordinary tool,
                   \* "command" for one of a waiting tool, "parked" for a timer,
                   \* an event or a service of a waiting tool's own
  replies          \* responses sent for each request

vars == <<conn, client_states, sessions, open, active, blank, sent, running,
          waits, replies>>
browser == <<open, active, blank>>

Requests == UNION {1 .. MaxRequests[c] : c \in Clients}
Absent == [handshake_state |-> "absent", assigned_tab |-> NoTab]

(* "wild": the entry was made from the address of a tab that is gone.      *)
SessionStates == {"none", "attached", "dead", "wild"}

(* Only a client past the handshake has a tab.                             *)
ClientStates ==
  {Absent, [handshake_state |-> "kInitializing", assigned_tab |-> NoTab]}
    \cup [handshake_state : {"kReady"}, assigned_tab : Tabs \cup {NoTab}]

TypeOK ==
  /\ conn \in [Clients -> {"new", "open", "gone"}]
  /\ client_states \in [Clients -> ClientStates]
  /\ sessions \in [Tabs -> SessionStates]
  /\ open \subseteq Tabs
  /\ active \in open \cup {NoTab}
  /\ blank \subseteq open
  /\ sent \in [Clients -> Nat]
  /\ running \in [Clients -> [Requests -> Tabs \cup {NoTab}]]
  /\ waits \in [Clients -> [Requests -> {"no", "command", "parked"}]]
  /\ replies \in [Clients -> [Requests -> Nat]]

Init ==
  /\ conn = [c \in Clients |-> "new"]
  /\ client_states = [c \in Clients |-> Absent]
  /\ sessions = [t \in Tabs |-> "none"]
  /\ \E t \in Tabs : open = {t} /\ active = t /\ blank = {t}
  /\ sent = [c \in Clients |-> 0]
  /\ running = [c \in Clients |-> [r \in Requests |-> NoTab]]
  /\ waits = [c \in Clients |-> [r \in Requests |-> "no"]]
  /\ replies = [c \in Clients |-> [r \in Requests |-> 0]]

-----------------------------------------------------------------------------
(* Pieces the handlers are made of.                                        *)

Ready(c) == client_states[c].handshake_state = "kReady"

(* Client c sends its next request with an id.                             *)
Requested(c, r) ==
  /\ conn[c] = "open"
  /\ sent[c] < MaxRequests[c]
  /\ r = sent[c] + 1
  /\ sent' = [sent EXCEPT ![c] = r]

(* SendResult / SendError: the transport drops what is for a client gone.  *)
Replied(old, c, r) ==
  IF conn[c] = "open" THEN [old EXCEPT ![c][r] = @ + 1] ELSE old

(* AssignTabToClient, first half.  Without a state there is nothing to set.*)
Assigned(states, c, t) ==
  IF states[c].handshake_state = "absent" \/ t = NoTab THEN states
  ELSE [states EXCEPT ![c].assigned_tab = t]

(* AttachToWebContents: an existing entry is returned as it is, whatever   *)
(* became of the session behind it.                                        *)
WithSession(ss, t, opn) ==
  IF t = NoTab \/ ss[t] # "none" THEN ss
  ELSE [ss EXCEPT ![t] = IF t \in opn THEN "attached" ELSE "wild"]

(* GetSessionForClient: the tab it settles on, NoTab if there is none.     *)
TabForClient(c) ==
  IF client_states[c].assigned_tab # NoTab
    THEN client_states[c].assigned_tab ELSE active

(* Bug variant: current_inline_client_id_ is not set, and the fallback     *)
(* picks the first client that has a tab with a session.                   *)
InlineTab_Fallback(c, states) ==
  LET withTab == {d \in Clients : /\ states[d].assigned_tab # NoTab
                                  /\ sessions[states[d].assigned_tab] # "none"}
  IN IF withTab = {} THEN NoTab
     ELSE states[CHOOSE d \in withTab : TRUE].assigned_tab

(* The tab of the session an inline tool gets from GetActiveSession while  *)
(* current_inline_client_id_ is c.                                         *)
InlineTab(c, states) == states[c].assigned_tab

(* A tab appears in the foreground.  Its address is not one of a live tab, *)
(* nor one a client's assigned_tab (a raw_ptr, which keeps the memory from *)
(* being reused) still points at.                                          *)
Fresh(t) == /\ t \notin open
            /\ \A c \in Clients : client_states[c].assigned_tab # t

-----------------------------------------------------------------------------
(* Connection and handshake.                                               *)

Connect(c) ==
  /\ conn[c] = "new"
  /\ conn' = [conn EXCEPT ![c] = "open"]
  /\ UNCHANGED <<client_states, sessions, browser, sent, running, waits,
                 replies>>

(* Bug variants: only the handshake is reset; every client's state is      *)
(* reset, not only that of the one that left.                              *)
OnClientDisconnected_HandshakeOnly(c) ==
  /\ conn[c] = "open"
  /\ conn' = [conn EXCEPT ![c] = "gone"]
  /\ client_states' = [client_states EXCEPT ![c].handshake_state = "absent"]
  /\ UNCHANGED <<sessions, browser, sent, running, waits, replies>>

OnClientDisconnected_ResetAll(c) ==
  /\ conn[c] = "open"
  /\ conn' = [conn EXCEPT ![c] = "gone"]
  /\ client_states' = [d \in Clients |-> Absent]
  /\ UNCHANGED <<sessions, browser, sent, running, waits, replies>>

(* Only the state goes; the calls of the client keep running.              *)
OnClientDisconnected(c) ==
  /\ conn[c] = "open"
  /\ conn' = [conn EXCEPT ![c] = "gone"]
  /\ client_states' = [client_states EXCEPT ![c] = Absent]
  /\ UNCHANGED <<sessions, browser, sent, running, waits, replies>>

HandleInitialize(c) ==
  \E r \in Requests :
    /\ Requested(c, r)
    /\ client_states' =
         IF client_states[c].handshake_state = "absent"
           THEN [client_states EXCEPT ![c].handshake_state = "kInitializing"]
           ELSE client_states
    /\ replies' = Replied(replies, c, r)
    /\ UNCHANGED <<conn, sessions, browser, running, waits>>

(* notifications/initialized, with auto_attach_active_tab (the default).   *)
(* In any other state than kInitializing the notification is ignored.      *)
HandleInitialized(c) ==
  /\ conn[c] = "open"
  /\ client_states[c].handshake_state = "kInitializing"
  /\ client_states' =
       Assigned([client_states EXCEPT ![c].handshake_state = "kReady"],
                c, active)
  /\ sessions' = WithSession(sessions, active, open)
  /\ UNCHANGED <<conn, browser, sent, running, waits, replies>>

(* Requests answered on the spot without touching the state: tools/list,   *)
(* an unknown method, tools/call before the handshake is complete, without *)
(* params or without a tool name.                                          *)
HandleSimpleRequest(c) ==
  \E r \in Requests :
    /\ Requested(c, r)
    /\ replies' = Replied(replies, c, r)
    /\ UNCHANGED <<conn, client_states, sessions, browser, running, waits>>

-----------------------------------------------------------------------------
(* tools/call.  Every call first takes GetSessionForClient.                *)

(* The tool's first command is accepted by an attached session; a waiting  *)
(* tool may also begin to wait at once, whatever became of the session (a  *)
(* wait polls a dead one until its time-out).  Otherwise the call is       *)
(* answered at once: with an error by a session that is not attached and   *)
(* by a tool that does not exist or refuses its arguments.                 *)
StartOnTab(c, r, t, ss, waiting) ==
  \/ /\ t # NoTab
     /\ running' = [running EXCEPT ![c][r] = t]
     /\ \/ /\ ss[t] = "attached"
           /\ waits' = [waits EXCEPT ![c][r] =
                          IF waiting THEN "command" ELSE "no"]
        \/ /\ waiting
           /\ waits' = [waits EXCEPT ![c][r] = "parked"]
     /\ UNCHANGED replies
  \/ /\ replies' = Replied(replies, c, r)
     /\ UNCHANGED <<running, waits>>

(* A tool that needs a session, from tools_ (inline) or the registry; a    *)
(* tool nobody knows counts as one.  No inline tool is a waiting tool.     *)
CallSessionTool(c, inline) ==
  \E r \in Requests, waiting \in (IF inline THEN {FALSE} ELSE BOOLEAN) :
    /\ Ready(c)
    /\ Requested(c, r)
    /\ TabForClient(c) # NoTab
    /\ LET states == Assigned(client_states, c, TabForClient(c))
           ss == WithSession(sessions, TabForClient(c), open)
           t == IF inline THEN InlineTab(c, states) ELSE TabForClient(c)
       IN /\ client_states' = states
          /\ sessions' = ss
          /\ StartOnTab(c, r, t, ss, waiting)
    /\ UNCHANGED <<conn, browser>>

(* The same with no tab to be had (so no window): a window is opened if a  *)
(* profile is loaded, and its tab assigned; else the call fails.           *)
CallSessionToolNoWindow(c) ==
  \E r \in Requests, waiting \in BOOLEAN :
    /\ Ready(c)
    /\ Requested(c, r)
    /\ TabForClient(c) = NoTab
    /\ \/ \E t \in Tabs :
            /\ Fresh(t)
            /\ open' = {t} /\ active' = t /\ blank' = {t}
            /\ client_states' = Assigned(client_states, c, t)
            /\ sessions' = WithSession(sessions, t, {t})
            /\ StartOnTab(c, r, t, WithSession(sessions, t, {t}), waiting)
       \/ /\ replies' = Replied(replies, c, r)
          /\ UNCHANGED <<client_states, sessions, browser, running, waits>>
    /\ UNCHANGED <<conn>>

(* browser_info, clipboard, tabs list or a tabs close that finds no tab:   *)
(* no session needed, answered on the spot, yet a client without a tab is  *)
(* assigned the active one and a session is attached.                      *)
CallLocalTool(c) ==
  \E r \in Requests :
    /\ Ready(c)
    /\ Requested(c, r)
    /\ client_states' = Assigned(client_states, c, TabForClient(c))
    /\ sessions' = WithSession(sessions, TabForClient(c), open)
    /\ replies' = Replied(replies, c, r)
    /\ UNCHANGED <<conn, browser, running, waits>>

-----------------------------------------------------------------------------
(* Tabs come and go.                                                       *)

(* The calls with a command pending, and those whose session is tab t's.   *)
HasCommand(c, r) == running[c][r] # NoTab /\ waits[c][r] # "parked"

CallsOn(t) == {cr \in Clients \X Requests :
                 running[cr[1]][cr[2]] = t /\ HasCommand(cr[1], cr[2])}

(* Bug variants: AgentHostClosed only marks the session; it runs the       *)
(* callbacks but leaves them in the map.                                   *)
EndCalls_Forgotten(t, old) ==
  /\ UNCHANGED <<running, waits>>
  /\ replies' = old

EndCalls_NotCleared(t, old) ==
  /\ UNCHANGED <<running, waits>>
  /\ replies' = [c \in Clients |-> [r \in Requests |->
                   IF <<c, r>> \in CallsOn(t) /\ conn[c] = "open"
                     THEN old[c][r] + 1 ELSE old[c][r]]]

(* What the closing of tab t does to the calls that run on it: its agent   *)
(* host closes, McpSession::AgentHostClosed fails every pending callback,  *)
(* and each of these calls is answered, except that a waiting tool may     *)
(* wait on (a poll that fails is not the end of a wait).  Nothing reaches  *)
(* the calls that have no command pending.                                 *)
EndCalls(t, old) ==
  \E kept \in SUBSET {cr \in CallsOn(t) : waits[cr[1]][cr[2]] = "command"} :
    LET ended == CallsOn(t) \ kept
    IN /\ running' = [c \in Clients |-> [r \in Requests |->
                        IF <<c, r>> \in ended THEN NoTab ELSE running[c][r]]]
       /\ waits' = [c \in Clients |-> [r \in Requests |->
                      IF <<c, r>> \in ended THEN "no"
                      ELSE IF <<c, r>> \in kept THEN "parked" ELSE waits[c][r]]]
       /\ replies' = [c \in Clients |-> [r \in Requests |->
                        IF <<c, r>> \in ended /\ conn[c] = "open"
                          THEN old[c][r] + 1 ELSE old[c][r]]]

(* Bug variant: the session still believes it is attached.                 *)
SessionClosed_NotNoticed(ss, t) == ss

(* The entry in sessions_ stays, with a session that is not attached.      *)
SessionClosed(ss, t) ==
  [ss EXCEPT ![t] = IF @ = "attached" THEN "dead" ELSE @]

RemoveTab(t) ==
  /\ open' = open \ {t}
  /\ blank' = blank \ {t}
  /\ IF active # t THEN active' = active
     ELSE IF open = {t} THEN active' = NoTab
     ELSE active' \in open \ {t}

(* The user closes a tab.  Nothing in the server is told about it besides  *)
(* the session: client_states_ and sessions_ keep the address.             *)
CloseTab(t) ==
  /\ t \in open
  /\ RemoveTab(t)
  /\ sessions' = SessionClosed(sessions, t)
  /\ EndCalls(t, replies)
  /\ UNCHANGED <<conn, client_states, sent>>

OpenTab(t) ==
  /\ Fresh(t)
  /\ open' = open \cup {t}
  /\ active' = t
  /\ blank' = blank \cup {t}
  /\ UNCHANGED <<conn, client_states, sessions, sent, running, waits, replies>>

ActivateTab(t) ==
  /\ t \in open \ {active}
  /\ active' = t
  /\ UNCHANGED <<conn, client_states, sessions, open, blank, sent, running,
                 waits, replies>>

NavigateTab(t) ==
  /\ t \in open
  /\ blank' = IF t \in blank THEN blank \ {t} ELSE blank \cup {t}
  /\ UNCHANGED <<conn, client_states, sessions, open, active, sent, running,
                 waits, replies>>

-----------------------------------------------------------------------------
(* The tabs tool.  It answers synchronously; for "new" and "select" the    *)
(* server wraps the callback and assigns the client the tab that is active *)
(* when the callback runs, whether the tool succeeded or not.              *)

Reassign(c, t, opn) ==
  LET states == Assigned(client_states, c, TabForClient(c))
      ss == WithSession(sessions, TabForClient(c), open)
  IN /\ client_states' = Assigned(states, c, t)
     /\ sessions' = WithSession(ss, t, opn)

(* Without url: a new tab on the newtab page.  With url: the first blank   *)
(* tab of the window is taken over, whoever uses it; a new tab otherwise.  *)
TabsNew(c) ==
  \E r \in Requests :
    /\ Ready(c)
    /\ Requested(c, r)
    /\ open # {}
    /\ \/ \E t \in Tabs :
            /\ Fresh(t)
            /\ open' = open \cup {t}
            /\ \/ blank' = blank \cup {t}
               \/ blank = {} /\ blank' = blank
            /\ active' = t
       \/ \E t \in blank :
            /\ active' = t
            /\ blank' = blank \ {t}
            /\ UNCHANGED open
    /\ Reassign(c, active', open')
    /\ replies' = Replied(replies, c, r)
    /\ UNCHANGED <<conn, running, waits>>

(* tabs new with a bad url or without a window, tabs select of an unknown  *)
(* tabId: an error, after which the client is moved to the active tab.     *)
TabsNewOrSelectFails(c) ==
  \E r \in Requests :
    /\ Ready(c)
    /\ Requested(c, r)
    /\ Reassign(c, active, open)
    /\ replies' = Replied(replies, c, r)
    /\ UNCHANGED <<conn, browser, running, waits>>

TabsSelect(c, t) ==
  \E r \in Requests :
    /\ Ready(c)
    /\ Requested(c, r)
    /\ t \in open
    /\ active' = t
    /\ Reassign(c, t, open)
    /\ replies' = Replied(replies, c, r)
    /\ UNCHANGED <<conn, open, blank, running, waits>>

(* (A page that holds the closing back with beforeunload is CallLocalTool  *)
(* followed by CloseTab.)                                                  *)
TabsClose(c, t) ==
  \E r \in Requests :
    /\ Ready(c)
    /\ Requested(c, r)
    /\ t \in open
    /\ client_states' = Assigned(client_states, c, TabForClient(c))
    /\ RemoveTab(t)
    /\ sessions' = SessionClosed(WithSession(sessions, TabForClient(c), open), t)
    /\ EndCalls(t, Replied(replies, c, r))
    /\ UNCHANGED <<conn>>

-----------------------------------------------------------------------------
(* The end of a call: the result goes to the client and under the id that  *)
(* the callback was bound to.                                              *)
Answered(c, r) ==
  /\ running' = [running EXCEPT ![c][r] = NoTab]
  /\ waits' = [waits EXCEPT ![c][r] = "no"]
  /\ replies' = Replied(replies, c, r)

(* The renderer of an open tab answers the last command of a call.         *)
CdpAnswer(c, r) ==
  /\ running[c][r] \in open
  /\ waits[c][r] # "parked"
  /\ Answered(c, r)
  /\ UNCHANGED <<conn, client_states, sessions, browser, sent>>

(* The same for a waiting tool that does not end its call with the answer: *)
(* the poll found nothing, the next character is to come after the delay,  *)
(* Tracing.end is confirmed before the trace is complete.                  *)
Parks(c, r) ==
  /\ running[c][r] \in open
  /\ waits[c][r] = "command"
  /\ waits' = [waits EXCEPT ![c][r] = "parked"]
  /\ UNCHANGED <<conn, client_states, sessions, browser, sent, running,
                 replies>>

(* The timer sends the next poll or character.  On a session that is not   *)
(* attached the error comes at once: the call stays parked or ends below.  *)
Resumes(c, r) ==
  /\ running[c][r] # NoTab
  /\ waits[c][r] = "parked"
  /\ sessions[running[c][r]] = "attached"
  /\ waits' = [waits EXCEPT ![c][r] = "command"]
  /\ UNCHANGED <<conn, client_states, sessions, browser, sent, running,
                 replies>>

(* A waiting tool ends its call by itself: the time-out or the duration of *)
(* a wait (also while a poll is out), the event tracingComplete, the       *)
(* answer of HistoryService.  It may never happen: a later call of the     *)
(* tool replaces the timer or the callback of an earlier one.              *)
OwnEvent(c, r) ==
  /\ running[c][r] # NoTab
  /\ waits[c][r] # "no"
  /\ Answered(c, r)
  /\ UNCHANGED <<conn, client_states, sessions, browser, sent>>

ClientStep(c) ==
  \/ Connect(c)
  \/ OnClientDisconnected(c)
  \/ HandleInitialize(c)
  \/ HandleInitialized(c)
  \/ HandleSimpleRequest(c)
  \/ CallSessionTool(c, TRUE)
  \/ CallSessionTool(c, FALSE)
  \/ CallSessionToolNoWindow(c)
  \/ CallLocalTool(c)
  \/ TabsNew(c)
  \/ TabsNewOrSelectFails(c)
  \/ \E t \in Tabs : TabsSelect(c, t)
  \/ \E t \in Tabs : TabsClose(c, t)

Next ==
  \/ \E c \in Clients : ClientStep(c)
  \/ \E c \in Clients, r \in Requests : CdpAnswer(c, r)
  \/ \E c \in Clients, r \in Requests : Parks(c, r)
  \/ \E c \in Clients, r \in Requests : Resumes(c, r)
  \/ \E c \in Clients, r \in Requests : OwnEvent(c, r)
  \/ \E t \in Tabs : CloseTab(t)
  \/ \E t \in Tabs : OpenTab(t)
  \/ \E t \in Tabs : ActivateTab(t)
  \/ \E t \in Tabs : NavigateTab(t)

(* Fairness: the renderer of an open tab answers every command in the end, *)
(* with which a call is answered or, in a waiting tool, parked.  The server*)
(* itself sets no timeout, and nothing is assumed of the waiting tools.    *)
Fairness ==
  \A c \in Clients, r \in Requests : WF_vars(CdpAnswer(c, r) \/ Parks(c, r))

Spec == Init /\ [][Next]_vars /\ Fairness
-----------------------------------------------------------------------------
(* A request that a connected client has sent is being worked on or has    *)
(* been answered, never both, and is answered once, whether its tab closes *)
(* under a command, it fails on a dead session, or a waiting tool ends it  *)
(* while a command of it is out.                                           *)
OneResponsePerRequest ==
  \A c \in Clients : conn[c] = "open" =>
    \A r \in Requests :
      replies[c][r] + (IF running[c][r] # NoTab THEN 1 ELSE 0)
        = (IF r <= sent[c] THEN 1 ELSE 0)

(* sessions_ follows the tabs.  An assigned tab has an entry, so that      *)
(* GetSessionForClient never hands the address of a closed tab to          *)
(* AttachToWebContents; a session believes itself attached only while its  *)
(* tab exists, and commands are pending on such sessions only.             *)
SessionsFollowTabs ==
  /\ \A c \in Clients : client_states[c].assigned_tab # NoTab =>
       sessions[client_states[c].assigned_tab] # "none"
  /\ \A t \in Tabs : sessions[t] # "wild"
  /\ \A t \in Tabs : sessions[t] = "attached" => t \in open
  /\ \A c \in Clients, r \in Requests :
       HasCommand(c, r) => sessions[running[c][r]] = "attached"

(* A tool call is put to work on the tab assigned to the client that made  *)
(* it, not on another client's (current_inline_client_id_), and stays on   *)
(* it to its end, wherever the client is moved meanwhile.  While a         *)
(* client's calls run it has the handshake behind it and stays there until *)
(* it leaves, whatever it sends.                                           *)
CallsRunOnOwnTab ==
  [][\A c \in Clients, r \in Requests : running'[c][r] # NoTab =>
       /\ running'[c][r] = IF running[c][r] = NoTab
                             THEN client_states'[c].assigned_tab
                             ELSE running[c][r]
       /\ Ready(c)' \/ conn'[c] = "gone"]_vars

(* No step changes the handshake or the assigned tab of two clients.       *)
ClientsAreIndependent ==
  [][\A c, d \in Clients :
       (client_states'[c] # client_states[c] /\
        client_states'[d] # client_states[d]) => c = d]_vars

(* Every request of a client is answered unless the client leaves, or the  *)
(* call is held by a waiting tool with no command pending: no command, and *)
(* no request that an ordinary tool serves, is waited for in vain, however *)
(* tabs close and calls cross.  (How the held calls end, or do not, is     *)
(* UndisturbedWaitEnds, OrderlyStopIsAwaited and CallsEnd of the modules   *)
(* of those tools.)                                                        *)
EveryRequestAnswered ==
  \A c \in Clients, r \in Requests :
    (r <= sent[c]) ~>
      (replies[c][r] > 0 \/ conn[c] = "gone" \/ waits[c][r] = "parked")

-----------------------------------------------------------------------------
(* What documents of the repository claim and the code does not do.        *)

(* TEST_PLAN.md: a client whose assigned tab is closed gets assigned_tab   *)
(* null, and the active tab with its next call.                            *)
ClosedTabIsUnassigned ==
  \A c \in Clients : client_states[c].assigned_tab \in open \cup {NoTab}
=============================================================================

--------------------------- MODULE ConsoleCapture ---------------------------
(***************************************************************************)
(* The tool console (src/src/tools/console_tool.cc).  In safe mode it      *)
(* listens to Log.entryAdded, in full mode to Runtime.consoleAPICalled.    *)
(* "get" only reads the buffer; the texts of the messages are left out, and*)
(* with them the buffer's order.                                           *)
(***************************************************************************)
EXTENDS ToolCalls

VARIABLES
  console_on,     \* is_capturing_
  safe_mode,
  messages,       \* the tabs that messages in the buffer come from
  conHandler      \* per session: the events the tool is registered for

consoleVars == <<console_on, safe_mode, messages, conHandler>>

ConsoleEvents == {"entryAdded", "consoleAPICalled"}

ConsoleTypeOK ==
  /\ console_on \in BOOLEAN
  /\ safe_mode \in BOOLEAN
  /\ messages \subseteq Sessions
  /\ conHandler \in [Sessions -> SUBSET ConsoleEvents]

ConsoleInit ==
  /\ console_on = FALSE
  /\ safe_mode = TRUE
  /\ messages = {}
  /\ conHandler = [s \in Sessions |-> {}]

(* The command that starts a mode, and the event it is about.              *)
EnableCommand(safe) == IF safe THEN "Log.enable" ELSE "Runtime.enable"
ModeEvent(safe) == IF safe THEN "entryAdded" ELSE "consoleAPICalled"

-----------------------------------------------------------------------------
StartMode(c, s, safe) ==
  /\ ~console_on
  /\ Call(c, "console", s, "running")
  /\ safe_mode' = safe
  /\ Send(s, EnableCommand(safe), c)
  /\ UNCHANGED <<console_on, messages, conHandler>>

StartSafeMode(c, s) == StartMode(c, s, TRUE)
StartFullMode(c, s) == StartMode(c, s, FALSE)

StartModeAlreadyOn(c, s) ==
  /\ console_on
  /\ Call(c, "console", s, "ok")
  /\ UNCHANGED <<sent, consoleVars>>

OnEnabled(s, c, safe, ok) ==
  /\ Answered(s, EnableCommand(safe), c, ok)
  /\ Finish(c, ok)
  /\ IF ok
       THEN /\ conHandler' = [conHandler EXCEPT ![s] = @ \cup {ModeEvent(safe)}]
            /\ console_on' = TRUE
       ELSE UNCHANGED <<conHandler, console_on>>
  /\ UNCHANGED <<safe_mode, messages>>

OnLogEnabled(s, c, ok) == OnEnabled(s, c, TRUE, ok)
OnRuntimeEnabled(s, c, ok) == OnEnabled(s, c, FALSE, ok)

(* The handlers do not look at the tool's flag.                            *)
OnConsoleEvent(s, event) ==
  /\ EventOf(s)
  /\ event \in conHandler[s]
  /\ messages' = messages \cup {s}
  /\ UNCHANGED <<callVars, console_on, safe_mode, conHandler>>

OnLogEntryAdded(s) == OnConsoleEvent(s, "entryAdded")
OnConsoleApiCalled(s) == OnConsoleEvent(s, "consoleAPICalled")

(* The handler of the current mode on this session is unregistered, which  *)
(* need not be the session or the mode of the handlers there are.          *)
StopCapture(c, s) ==
  /\ Call(c, "console", s, "ok")
  /\ IF console_on
       THEN /\ conHandler' = [conHandler EXCEPT ![s] = @ \ {ModeEvent(safe_mode)}]
            /\ console_on' = FALSE
       ELSE UNCHANGED <<conHandler, console_on>>
  /\ UNCHANGED <<sent, safe_mode, messages>>

ClearMessages(c, s) ==
  /\ Call(c, "console", s, "ok")
  /\ messages' = {}
  /\ UNCHANGED <<sent, console_on, safe_mode, conHandler>>

ConsoleNext ==
  \E s \in Sessions :
    \/ \E c \in Calls :
         \/ StartSafeMode(c, s)
         \/ StartFullMode(c, s)
         \/ StartModeAlreadyOn(c, s)
         \/ StopCapture(c, s)
         \/ ClearMessages(c, s)
         \/ \E ok \in BOOLEAN : OnLogEnabled(s, c, ok) \/ OnRuntimeEnabled(s, c, ok)
    \/ OnLogEntryAdded(s)
    \/ OnConsoleApiCalled(s)

-----------------------------------------------------------------------------
(* One client that waits for its answers: at most one handler is           *)
(* registered, and none after a stop, so that no message follows it.       *)
OrderlyConsoleStops ==
  (orderly["console"] /\ AtRest("console")) =>
    \A s \in Sessions :
      conHandler[s] \subseteq (IF console_on THEN {ModeEvent(safe_mode)} ELSE {})
=============================================================================

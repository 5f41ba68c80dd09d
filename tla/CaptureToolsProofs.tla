------------------------- MODULE CaptureToolsProofs -------------------------
(***************************************************************************)
(* Proofs about CaptureTools for any number of calls, tabs and requests.   *)
(*                                                                         *)
(* What the tools share is proved once, of any of them (IShared): which    *)
(* calls the commands belong to, and what it means that the calls of a tool*)
(* are orderly.  A step of one tool then is, for the others, a step that   *)
(* leaves what they see alone (Frame), and only the steps of a tool itself *)
(* are looked at one by one for its own invariant.                         *)
(***************************************************************************)
EXTENDS CaptureTools, TLAPS

Capturing == {"network", "console", "trace"}

CommandsOf(t) ==
  CASE t = "network" -> {"Network.enable", "Network.disable"}
    [] t = "console" -> {"Log.enable", "Runtime.enable"}
    [] t = "trace"   -> {"Tracing.start", "Tracing.end"}

CaptureCommands ==
  {"Network.enable", "Network.disable", "Network.getResponseBody", "Log.enable",
   "Runtime.enable", "Tracing.start", "Tracing.end"}

Command(cmd, c) == [cmd |-> cmd, from |-> c]

-----------------------------------------------------------------------------
(* What the tools share.                                                   *)

CommandsFit ==
  /\ sent \in [Sessions -> SUBSET [cmd : CaptureCommands, from : Calls \cup Requests]]
  /\ \A c \in Calls : status[c] = "new" => tool[c] = "none"

(* A command of tool t is answered to a call of t, on the tab of the call. *)
Belongs(t) ==
  \A s \in Sessions : \A m \in sent[s] :
    m.cmd \in CommandsOf(t) =>
      m.from \in Calls /\ tool[m.from] = t /\ tab[m.from] = s

(* A call sends one command.                                               *)
OneCommand(t) ==
  \A s \in Sessions : \A m, n \in sent[s] :
    (m.cmd \in CommandsOf(t) /\ n.cmd \in CommandsOf(t) /\ m.from = n.from) => m = n

UsedBy(t, s) == \E c \in Calls : tool[c] = t /\ tab[c] = s

OneAtATime(t) ==
  orderly[t] =>
    \A c \in Calls : tool[c] = t =>
      /\ tab[c] \in Sessions /\ attached[tab[c]]
      /\ \A d \in Calls : tool[d] = t =>
           /\ tab[d] = tab[c]
           /\ (status[c] = "running" /\ status[d] = "running") => c = d

IShared ==
  /\ CallsTypeOK
  /\ CommandsFit
  /\ \A t \in Capturing : Belongs(t) /\ OneCommand(t) /\ OneAtATime(t)

(* The call that sent a command waits for the answer.                      *)
RunningSent(t) ==
  \A s \in Sessions : \A m \in sent[s] :
    m.cmd \in CommandsOf(t) => status[m.from] = "running"

-----------------------------------------------------------------------------
(* What each tool keeps for itself.                                        *)

NetworkOrderly ==
  orderly["network"] =>
    /\ \A s \in Sessions :
         netHandler[s] # "none" \/ netEnabled[s] => UsedBy("network", s)
    /\ ~is_capturing => \A s \in Sessions : netHandler[s] = "none" /\ ~netEnabled[s]
    /\ \A s \in Sessions, c \in Calls :
         Command("Network.disable", c) \in sent[s] =>
           is_capturing /\ netHandler[s] = "none"

INetwork ==
  /\ NetworkTypeOK
  /\ RunningSent("network")
  /\ NetworkOrderly
  /\ CollectsWhatWasAsked
  /\ CaptureIsFed

ConsoleOrderly ==
  orderly["console"] =>
    /\ \A s \in Sessions :
         /\ conHandler[s] # {} => UsedBy("console", s)
         /\ conHandler[s] \subseteq IF console_on THEN {ModeEvent(safe_mode)} ELSE {}
    /\ \A s \in Sessions, c \in Calls, safe \in BOOLEAN :
         Command(EnableCommand(safe), c) \in sent[s] => ~console_on /\ safe = safe_mode

IConsole ==
  /\ ConsoleTypeOK
  /\ RunningSent("console")
  /\ ConsoleOrderly

HandlersOnlyOn(s) == \A r \in Sessions : r # s => traceHandler[r] = {}

(* Between Tracing.start and its answer.                                   *)
Starting(c) ==
  /\ Command("Tracing.start", c) \in sent[tab[c]]
  /\ ~is_tracing /\ recording = NoSession /\ completing = {}
  /\ stop_trace_callback = NoCall
  /\ tracing_session = tab[c]
  /\ HandlersOnlyOn(tab[c])
  /\ traceHandler[tab[c]] \subseteq {"dataCollected"}

(* Between Tracing.end and tracingComplete.                                *)
Stopping(c) ==
  /\ Command("Tracing.start", c) \notin sent[tab[c]]
  /\ is_tracing
  /\ stop_trace_callback = c
  /\ tracing_session = tab[c]
  /\ HandlersOnlyOn(tab[c])
  /\ "tracingComplete" \in traceHandler[tab[c]]
  /\ \/ /\ Command("Tracing.end", c) \in sent[tab[c]]
        /\ recording = tab[c] /\ completing = {}
     \/ /\ Command("Tracing.end", c) \notin sent[tab[c]]
        /\ recording = NoSession /\ completing = {tab[c]}

(* Between two calls.                                                      *)
Resting ==
  /\ stop_trace_callback = NoCall /\ completing = {}
  /\ \/ /\ is_tracing
        /\ UsedBy("trace", recording)
        /\ HandlersOnlyOn(recording)
     \/ /\ ~is_tracing /\ recording = NoSession
        /\ \A s \in Sessions : traceHandler[s] = {}

TraceOrderly ==
  orderly["trace"] =>
    /\ RunningSent("trace")
    /\ \A c \in Calls :
         tool[c] = "trace" /\ status[c] = "running" => Starting(c) \/ Stopping(c)
    /\ AtRest("trace") => Resting

StopIsTraced ==
  stop_trace_callback # NoCall => tool[stop_trace_callback] = "trace"

ITrace ==
  /\ TraceTypeOK
  /\ StopIsTraced
  /\ TraceOrderly

IInv == IShared /\ INetwork /\ IConsole /\ ITrace

-----------------------------------------------------------------------------
(* Steps as the shared state sees them.                                    *)

(* Nothing happens that tool t could notice.                               *)
Frame(t) ==
  /\ attached' = attached
  /\ orderly'[t] = orderly[t]
  /\ \A c \in Calls :
       /\ tool'[c] = t <=> tool[c] = t
       /\ tool[c] = t => tab'[c] = tab[c] /\ status'[c] = status[c]
  /\ \A s \in Sessions : \A m :
       m.cmd \in CommandsOf(t) => (m \in sent'[s] <=> m \in sent[s])

(* A call of tool t begins, and ends or sends a command of t.              *)
Begins(t, c, s, state) ==
  /\ Call(c, t, s, state)
  /\ \/ sent' = sent
     \/ state = "running" /\ \E cmd \in CommandsOf(t) : Send(s, cmd, c)

(* Commands of tool t are answered, and calls of t end.                    *)
Continues(t) ==
  /\ UNCHANGED <<attached, tool, tab, orderly>>
  /\ sent' \in [Sessions -> SUBSET [cmd : CaptureCommands, from : Calls \cup Requests]]
  /\ \A s \in Sessions :
       /\ sent'[s] \subseteq sent[s]
       /\ \A m \in sent[s] : m.cmd \notin CommandsOf(t) => m \in sent'[s]
  /\ status' \in [Calls -> {"new", "running", "ok", "error"}]
  /\ \A c \in Calls :
       status'[c] # status[c] => tool[c] = t /\ status'[c] \in {"ok", "error"}

USE ToolAssumption, OverAssumption, TraceAssumption

LEMMA CommandNames ==
  /\ CommandsOf("network") = {"Network.enable", "Network.disable"}
  /\ CommandsOf("console") = {"Log.enable", "Runtime.enable"}
  /\ CommandsOf("trace") = {"Tracing.start", "Tracing.end"}
  /\ \A t, u \in Capturing : t # u => CommandsOf(t) \cap CommandsOf(u) = {}
  /\ \A t \in Capturing : CommandsOf(t) \subseteq CaptureCommands /\ t \in Tools /\ t # "none"
<1>1. /\ CommandsOf("network") = {"Network.enable", "Network.disable"}
      /\ CommandsOf("console") = {"Log.enable", "Runtime.enable"}
      /\ CommandsOf("trace") = {"Tracing.start", "Tracing.end"}
  BY DEF CommandsOf
<1>2. \A t, u \in Capturing : t # u => CommandsOf(t) \cap CommandsOf(u) = {}
  BY <1>1 DEF Capturing
<1>3. \A t \in Capturing : CommandsOf(t) \subseteq CaptureCommands /\ t \in Tools /\ t # "none"
  BY <1>1 DEF Capturing, Tools, CaptureCommands
<1> QED BY <1>1, <1>2, <1>3

LEMMA BeginsFrame ==
  ASSUME IShared, NEW t \in Capturing, NEW u \in Capturing, t # u,
         NEW c \in Calls, NEW s \in Sessions, NEW state, Begins(t, c, s, state)
  PROVE  Frame(u)
<1>1. attached' = attached /\ orderly'[u] = orderly[u]
  BY CommandNames DEF Begins, Call, IShared, CallsTypeOK
<1>2. \A d \in Calls :
        /\ tool'[d] = u <=> tool[d] = u
        /\ tool[d] = u => tab'[d] = tab[d] /\ status'[d] = status[d]
  BY CommandNames DEF Begins, Call, IShared, CallsTypeOK, CommandsFit
<1>3. ASSUME NEW r \in Sessions, NEW m, m.cmd \in CommandsOf(u)
      PROVE  m \in sent'[r] <=> m \in sent[r]
  BY <1>3, CommandNames DEF Begins, Send, IShared, CommandsFit
<1> QED BY <1>1, <1>2, <1>3 DEF Frame

LEMMA ContinuesFrame ==
  ASSUME IShared, NEW t \in Capturing, NEW u \in Capturing, t # u, Continues(t)
  PROVE  Frame(u)
<1>1. attached' = attached /\ orderly'[u] = orderly[u]
  BY DEF Continues
<1>2. \A d \in Calls :
        /\ tool'[d] = u <=> tool[d] = u
        /\ tool[d] = u => tab'[d] = tab[d] /\ status'[d] = status[d]
  BY DEF Continues
<1>3. ASSUME NEW r \in Sessions, NEW m, m.cmd \in CommandsOf(u)
      PROVE  m \in sent'[r] <=> m \in sent[r]
  BY <1>3, CommandNames DEF Continues
<1> QED BY <1>1, <1>2, <1>3 DEF Frame

(* Nothing a tool notices: its part of the shared invariant is preserved.  *)
LEMMA FrameShared ==
  ASSUME NEW t \in Capturing, Frame(t), Belongs(t), OneCommand(t), OneAtATime(t)
  PROVE  /\ Belongs(t)' /\ OneCommand(t)' /\ OneAtATime(t)'
         /\ RunningSent(t) => RunningSent(t)'
<1>1. Belongs(t)'
  BY DEF Frame, Belongs
<1>2. OneCommand(t)'
  BY DEF Frame, OneCommand
<1>3. OneAtATime(t)'
  BY DEF Frame, OneAtATime
<1>4. RunningSent(t) => RunningSent(t)'
  BY DEF Frame, Belongs, RunningSent
<1> QED BY <1>1, <1>2, <1>3, <1>4

(* What is known of a call that begins.                                    *)
LEMMA BeginsFacts ==
  ASSUME IShared, NEW t \in Capturing, NEW c \in Calls, NEW s \in Sessions,
         NEW state \in {"running", "ok", "error"}, Begins(t, c, s, state)
  PROVE  /\ attached' = attached
         /\ tool[c] = "none" /\ tool'[c] = t /\ tab'[c] = s /\ status'[c] = state
         /\ \A d \in Calls \ {c} :
              tool'[d] = tool[d] /\ tab'[d] = tab[d] /\ status'[d] = status[d]
         /\ \A r \in Sessions : \A m \in sent[r] : m.cmd \in CommandsOf(t) => m.from # c
         /\ \A r \in Sessions : \A m \in sent'[r] :
              \/ m \in sent[r]
              \/ /\ r = s /\ m.from = c /\ m.cmd \in CommandsOf(t)
                 /\ state = "running"
                 /\ \A n \in sent'[r] : n \in sent[r] \/ n = m
         /\ \A r \in Sessions : sent[r] \subseteq sent'[r]
         /\ orderly'[t] => /\ orderly[t] /\ attached[s]
                           /\ \A d \in Calls : tool[d] = t => /\ tab[d] = s
                                                             /\ status[d] # "running"
<1>1. attached' = attached
  BY DEF Begins, Call
<1>2. tool[c] = "none" /\ tool'[c] = t /\ tab'[c] = s /\ status'[c] = state
  BY DEF Begins, Call, IShared, CallsTypeOK, CommandsFit
<1>3. \A d \in Calls \ {c} :
        tool'[d] = tool[d] /\ tab'[d] = tab[d] /\ status'[d] = status[d]
  BY DEF Begins, Call, IShared, CallsTypeOK
<1>4. \A r \in Sessions : \A m \in sent[r] : m.cmd \in CommandsOf(t) => m.from # c
  BY <1>2, CommandNames DEF IShared, Belongs
<1>5. ASSUME NEW r \in Sessions, NEW m \in sent'[r], m \notin sent[r]
      PROVE  /\ r = s /\ m.from = c /\ m.cmd \in CommandsOf(t)
             /\ state = "running"
             /\ \A n \in sent'[r] : n \in sent[r] \/ n = m
  BY <1>5 DEF Begins, Send, IShared, CommandsFit
<1>6. \A r \in Sessions : sent[r] \subseteq sent'[r]
  BY DEF Begins, Send, IShared, CommandsFit
<1>7. orderly'[t] => /\ orderly[t] /\ attached[s]
                     /\ \A d \in Calls : tool[d] = t => /\ tab[d] = s
                                                       /\ status[d] # "running"
  BY CommandNames DEF Begins, Call, IShared, CallsTypeOK
<1> QED BY <1>1, <1>2, <1>3, <1>4, <1>5, <1>6, <1>7

LEMMA BeginsShared ==
  ASSUME IShared, NEW t \in Capturing, NEW c \in Calls, NEW s \in Sessions,
         NEW state \in {"running", "ok", "error"}, Begins(t, c, s, state)
  PROVE  /\ IShared'
         /\ RunningSent(t) => RunningSent(t)'
<1> USE BeginsFacts
<1>1. CallsTypeOK'
  <2>1. attached' \in [Sessions -> BOOLEAN] /\ tool' \in [Calls -> Tools \cup {"none"}]
    BY CommandNames DEF Begins, Call, IShared, CallsTypeOK
  <2>2. /\ tab' \in [Calls -> Sessions \cup {NoSession}]
        /\ status' \in [Calls -> {"new", "running", "ok", "error"}]
    BY DEF Begins, Call, IShared, CallsTypeOK
  <2>3. orderly' \in [Tools -> BOOLEAN]
    BY CommandNames DEF Begins, Call, IShared, CallsTypeOK
  <2> QED BY <2>1, <2>2, <2>3 DEF CallsTypeOK
<1>2. CommandsFit'
  <2>1. sent' \in [Sessions -> SUBSET [cmd : CaptureCommands, from : Calls \cup Requests]]
    BY CommandNames DEF Begins, Send, IShared, CommandsFit
  <2>2. \A d \in Calls : status'[d] = "new" => tool'[d] = "none"
    BY DEF IShared, CommandsFit
  <2> QED BY <2>1, <2>2 DEF CommandsFit
<1>3. ASSUME NEW u \in Capturing, u # t
      PROVE  Belongs(u)' /\ OneCommand(u)' /\ OneAtATime(u)'
  BY <1>3, BeginsFrame, FrameShared DEF IShared
<1>4. Belongs(t)'
  <2> SUFFICES ASSUME NEW r \in Sessions, NEW m \in sent'[r], m.cmd \in CommandsOf(t)
               PROVE  m.from \in Calls /\ tool'[m.from] = t /\ tab'[m.from] = r
    BY DEF Belongs
  <2>1. CASE m \in sent[r]
    BY <2>1 DEF IShared, Belongs
  <2>2. CASE m \notin sent[r]
    BY <2>2
  <2> QED BY <2>1, <2>2
<1>5. OneCommand(t)'
  <2> SUFFICES ASSUME NEW r \in Sessions, NEW m \in sent'[r], NEW n \in sent'[r],
                      m.cmd \in CommandsOf(t), n.cmd \in CommandsOf(t), m.from = n.from
               PROVE  m = n
    BY DEF OneCommand
  <2>1. CASE m \in sent[r] /\ n \in sent[r]
    BY <2>1 DEF IShared, OneCommand
  <2>2. CASE m \notin sent[r] \/ n \notin sent[r]
    BY <2>2
  <2> QED BY <2>1, <2>2
<1>6. OneAtATime(t)'
  <2> SUFFICES ASSUME orderly'[t], NEW a \in Calls, tool'[a] = t
               PROVE  /\ tab'[a] \in Sessions /\ attached'[tab'[a]]
                      /\ \A d \in Calls : tool'[d] = t =>
                           /\ tab'[d] = tab'[a]
                           /\ (status'[a] = "running" /\ status'[d] = "running") => a = d
    BY DEF OneAtATime
  <2>1. \A d \in Calls : tool'[d] = t =>
          tab'[d] = s /\ (status'[d] = "running" => d = c)
    OBVIOUS
  <2> QED BY <2>1
<1>7. RunningSent(t) => RunningSent(t)'
  <2> SUFFICES ASSUME RunningSent(t), NEW r \in Sessions, NEW m \in sent'[r],
                      m.cmd \in CommandsOf(t)
               PROVE  status'[m.from] = "running"
    BY DEF RunningSent
  <2>1. CASE m \in sent[r]
    <3>1. m.from \in Calls /\ status[m.from] = "running"
      BY <2>1 DEF IShared, Belongs, RunningSent
    <3> QED BY <2>1, <3>1
  <2>2. CASE m \notin sent[r]
    BY <2>2
  <2> QED BY <2>1, <2>2
<1> QED BY <1>1, <1>2, <1>3, <1>4, <1>5, <1>6, <1>7 DEF IShared

LEMMA ContinuesShared ==
  ASSUME IShared, NEW t \in Capturing, Continues(t)
  PROVE  IShared'
<1>1. CallsTypeOK'
  BY DEF IShared, CallsTypeOK, Continues
<1>2. CommandsFit'
  BY DEF IShared, CommandsFit, Continues
<1>3. ASSUME NEW u \in Capturing, u # t
      PROVE  Belongs(u)' /\ OneCommand(u)' /\ OneAtATime(u)'
  BY <1>3, ContinuesFrame, FrameShared DEF IShared
<1>4. Belongs(t)' /\ OneCommand(t)'
  BY DEF IShared, Belongs, OneCommand, Continues
<1>5. OneAtATime(t)'
  <2>1. \A c \in Calls : status'[c] = "running" => status[c] = "running"
    BY DEF Continues
  <2>2. OneAtATime(t)
    BY DEF IShared
  <2> QED BY <2>1, <2>2 DEF OneAtATime, Continues
<1> QED BY <1>1, <1>2, <1>3, <1>4, <1>5 DEF IShared

(* Steps that no call of a tool takes part in.                             *)
Silent ==
  /\ UNCHANGED <<attached, tool, tab, status, orderly>>
  /\ sent' \in [Sessions -> SUBSET [cmd : CaptureCommands, from : Calls \cup Requests]]
  /\ \A s \in Sessions : \A m :
       m.cmd # "Network.getResponseBody" => (m \in sent'[s] <=> m \in sent[s])

LEMMA SilentShared ==
  ASSUME IShared, Silent
  PROVE  IShared' /\ \A t \in Capturing : Frame(t)
<1>1. \A t \in Capturing : "Network.getResponseBody" \notin CommandsOf(t)
  BY CommandNames DEF Capturing
<1>2. \A t \in Capturing : Frame(t)
  BY <1>1 DEF Silent, Frame
<1>3. CallsTypeOK' /\ CommandsFit'
  BY DEF Silent, IShared, CallsTypeOK, CommandsFit
<1>4. \A t \in Capturing : Belongs(t)' /\ OneCommand(t)' /\ OneAtATime(t)'
  BY <1>2, FrameShared DEF IShared
<1> QED BY <1>2, <1>3, <1>4 DEF IShared

(* The answer to a command of tool t.                                      *)
LEMMA AnsweredFacts ==
  ASSUME IShared, NEW t \in Capturing, NEW c \in Calls, NEW s \in Sessions,
         NEW cmd \in CommandsOf(t), NEW ok, Answered(s, cmd, c, ok)
  PROVE  /\ tool[c] = t /\ tab[c] = s
         /\ Command(cmd, c) \in sent[s]
         /\ ok => attached[s]
         /\ UNCHANGED <<attached, tool, tab, orderly>>
         /\ sent' \in [Sessions -> SUBSET [cmd : CaptureCommands, from : Calls \cup Requests]]
         /\ \A r \in Sessions : \A m \in sent'[r] : m \in sent[r]
         /\ \A r \in Sessions : \A m \in sent'[r] :
              m.cmd \in CommandsOf(t) => m.from # c
         /\ \A r \in Sessions : \A m \in sent[r] : m = Command(cmd, c) \/ m \in sent'[r]
<1>1. /\ Command(cmd, c) \in sent[s]
      /\ sent' = [sent EXCEPT ![s] = @ \ {Command(cmd, c)}]
      /\ UNCHANGED <<attached, tool, tab, orderly>>
      /\ ok => attached[s]
  BY DEF Answered, Command
<1>2. tool[c] = t /\ tab[c] = s
  BY <1>1 DEF IShared, Belongs, Command
<1>3. /\ sent' \in [Sessions -> SUBSET [cmd : CaptureCommands, from : Calls \cup Requests]]
      /\ \A r \in Sessions : \A m \in sent'[r] : m \in sent[r]
      /\ \A r \in Sessions : \A m \in sent[r] : m = Command(cmd, c) \/ m \in sent'[r]
  BY <1>1 DEF IShared, CommandsFit
<1>4. ASSUME NEW r \in Sessions, NEW m \in sent'[r], m.cmd \in CommandsOf(t), m.from = c
      PROVE  FALSE
  <2>1. m \in sent[r] /\ r = s
    BY <1>2, <1>3, <1>4 DEF IShared, Belongs
  <2>2. m = Command(cmd, c)
    BY <1>1, <1>4, <2>1 DEF IShared, OneCommand, Command
  <2> QED BY <1>1, <2>1, <2>2 DEF IShared, CommandsFit
<1> QED BY <1>1, <1>2, <1>3, <1>4

(* ... after which its call ends, or nothing happens to it.                *)
LEMMA AnsweredContinues ==
  ASSUME IShared, NEW t \in Capturing, NEW c \in Calls, NEW s \in Sessions,
         NEW cmd \in CommandsOf(t), NEW ok, Answered(s, cmd, c, ok),
         NEW b, Finish(c, b)
  PROVE  /\ Continues(t)
         /\ RunningSent(t) => RunningSent(t)'
         /\ status'[c] # "running"
         /\ \A d \in Calls \ {c} : status'[d] = status[d]
<1> USE AnsweredFacts
<1>1. \A r \in Sessions : \A m \in sent[r] : m.cmd \notin CommandsOf(t) => m \in sent'[r]
  <2>1. \A r \in Sessions : \A m \in sent[r] : m = Command(cmd, c) \/ m \in sent'[r]
    OBVIOUS
  <2> QED BY <2>1 DEF Command
<1>2. /\ status' \in [Calls -> {"new", "running", "ok", "error"}]
      /\ status'[c] \in {"ok", "error"}
      /\ \A d \in Calls \ {c} : status'[d] = status[d]
  BY DEF Finish, IShared, CallsTypeOK
<1>3. Continues(t)
  BY <1>1, <1>2 DEF Continues
<1>4. ASSUME RunningSent(t), NEW r \in Sessions, NEW m \in sent'[r], m.cmd \in CommandsOf(t)
      PROVE  status'[m.from] = "running"
  <2>1. m \in sent[r] /\ m.from # c
    BY <1>4
  <2>2. m.from \in Calls /\ status[m.from] = "running"
    BY <1>4, <2>1 DEF IShared, Belongs, RunningSent
  <2> QED BY <1>2, <2>1, <2>2
<1> QED BY <1>2, <1>3, <1>4 DEF RunningSent

(* An orderly call finds no command of its tool under way, and no other tab*)
(* in use.                                                                 *)
LEMMA BeginsOrderly ==
  ASSUME IShared, NEW t \in Capturing, RunningSent(t), NEW c \in Calls,
         NEW s \in Sessions, NEW state \in {"running", "ok", "error"},
         Begins(t, c, s, state), orderly'[t]
  PROVE  /\ orderly[t] /\ attached[s] /\ AtRest(t)
         /\ \A r \in Sessions : \A m \in sent[r] : m.cmd \notin CommandsOf(t)
         /\ \A r \in Sessions : \A m \in sent'[r] : m.cmd \in CommandsOf(t) =>
              /\ r = s /\ m.from = c /\ state = "running"
              /\ \A n \in sent'[r] : n.cmd \in CommandsOf(t) => n = m
         /\ \A r \in Sessions : UsedBy(t, r) => r = s
         /\ UsedBy(t, s)'
<1>1. /\ orderly[t] /\ attached[s]
      /\ \A d \in Calls : tool[d] = t => tab[d] = s /\ status[d] # "running"
  BY BeginsFacts
<1>2. \A r \in Sessions : \A m \in sent[r] : m.cmd \notin CommandsOf(t)
  BY <1>1 DEF IShared, Belongs, RunningSent
<1>3. \A r \in Sessions : \A m \in sent'[r] : m.cmd \in CommandsOf(t) =>
        /\ r = s /\ m.from = c /\ state = "running"
        /\ \A n \in sent'[r] : n.cmd \in CommandsOf(t) => n = m
  BY <1>2, BeginsFacts
<1>4. UsedBy(t, s)'
  <2>1. tool'[c] = t /\ tab'[c] = s
    BY BeginsFacts
  <2> QED BY <2>1 DEF UsedBy
<1> QED BY <1>1, <1>2, <1>3, <1>4 DEF AtRest, UsedBy

-----------------------------------------------------------------------------
(* network_capture.                                                        *)

(* Is a stop under way?                                                    *)
LEMMA StopOutstanding ==
  ASSUME IShared
  PROVE  /\ \A s \in Sessions, c \in Calls :
              Command("Network.disable", c) \in sent[s] =>
                Outstanding("Network.disable") # {}
         /\ \A s \in Sessions : \A m \in sent[s] : m.cmd = "Network.disable" =>
              m.from \in Calls /\ m = Command("Network.disable", m.from)
<1>1. ASSUME NEW s \in Sessions, NEW c \in Calls, Command("Network.disable", c) \in sent[s]
      PROVE  s \in Outstanding("Network.disable")
  BY <1>1 DEF Outstanding, Command
<1>2. ASSUME NEW s \in Sessions, NEW m \in sent[s], m.cmd = "Network.disable"
      PROVE  m.from \in Calls /\ m = Command("Network.disable", m.from)
  <2>1. m.from \in Calls
    BY <1>2, CommandNames DEF IShared, Belongs, Capturing
  <2> QED BY <1>2, <2>1 DEF IShared, CommandsFit, Command
<1> QED BY <1>1, <1>2

LEMMA FrameNetwork ==
  ASSUME IShared, INetwork, Frame("network"), UNCHANGED networkVars
  PROVE  INetwork'
<1>1. NetworkTypeOK' /\ CollectsWhatWasAsked'
  BY DEF INetwork, NetworkTypeOK, CollectsWhatWasAsked, networkVars
<1>2. RunningSent("network")'
  BY FrameShared DEF IShared, INetwork, Capturing
<1>3. \A s \in Sessions : \A m :
        m.cmd \in {"Network.enable", "Network.disable"} =>
          (m \in sent'[s] <=> m \in sent[s])
  BY CommandNames DEF Frame
<1>4. NetworkOrderly'
  <2> SUFFICES ASSUME orderly'["network"] PROVE NetworkOrderly'
    BY DEF NetworkOrderly
  <2>1. orderly["network"]
    BY DEF Frame
  <2>2. \A s \in Sessions : UsedBy("network", s) => UsedBy("network", s)'
    BY DEF Frame, UsedBy
  <2>3. \A s \in Sessions, c \in Calls :
          Command("Network.disable", c) \in sent'[s] => Command("Network.disable", c) \in sent[s]
    BY <1>3 DEF Command
  <2> QED BY <2>1, <2>2, <2>3 DEF INetwork, NetworkOrderly, networkVars
<1>5. CaptureIsFed'
  <2>1. Outstanding("Network.disable")' = Outstanding("Network.disable")
    BY <1>3 DEF Outstanding
  <2>2. attached' = attached
    BY DEF Frame
  <2> QED BY <2>1, <2>2 DEF INetwork, CaptureIsFed, networkVars
<1> QED BY <1>1, <1>2, <1>4, <1>5 DEF INetwork


LEMMA StepHandleStart ==
  ASSUME IShared, INetwork, NEW c \in Calls, NEW s \in Sessions,
         NEW bodies \in BOOLEAN, NEW wanted \in SUBSET Requests,
         HandleStart(c, s, bodies, wanted)
  PROVE  INetwork' /\ Begins("network", c, s, "running")
<1>1. Begins("network", c, s, "running")
  BY CommandNames DEF HandleStart, Begins
<1>2. "network" \in Capturing /\ "Network.disable" \in CommandsOf("network")
  BY CommandNames DEF Capturing
<1>3. NetworkTypeOK' /\ CollectsWhatWasAsked'
  BY DEF HandleStart, Collected, INetwork, NetworkTypeOK, CollectsWhatWasAsked
<1>4. RunningSent("network")'
  BY <1>1, <1>2, BeginsShared DEF INetwork
<1>5. UNCHANGED <<attached, is_capturing, netHandler, netEnabled>>
  BY DEF HandleStart, Call
<1>6. \A r \in Sessions : \A m \in sent'[r] :
        m.cmd = "Network.disable" => m \in sent[r]
  BY DEF HandleStart, Send, IShared, CommandsFit
<1>7. NetworkOrderly'
  <2> SUFFICES ASSUME orderly'["network"] PROVE NetworkOrderly'
    BY DEF NetworkOrderly
  <2>1. /\ orderly["network"]
        /\ \A r \in Sessions : \A m \in sent[r] : m.cmd # "Network.disable"
        /\ \A r \in Sessions : UsedBy("network", r) => UsedBy("network", r)'
    BY <1>1, <1>2, BeginsOrderly DEF INetwork
  <2>2. \A r \in Sessions, d \in Calls : Command("Network.disable", d) \notin sent'[r]
    BY <1>6, <2>1 DEF Command
  <2> QED BY <1>5, <2>1, <2>2 DEF INetwork, NetworkOrderly
<1>8. CaptureIsFed'
  <2>1. \A r \in Sessions : \A m \in sent[r] : m \in sent'[r]
    BY <1>1, <1>2, BeginsFacts
  <2>2. Outstanding("Network.disable")' = {} => Outstanding("Network.disable") = {}
    BY <2>1 DEF Outstanding
  <2> QED BY <1>5, <2>2 DEF INetwork, CaptureIsFed
<1> QED BY <1>1, <1>3, <1>4, <1>7, <1>8 DEF INetwork

LEMMA StepHandleStopRefused ==
  ASSUME IShared, INetwork, NEW c \in Calls, NEW s \in Sessions,
         HandleStopRefused(c, s)
  PROVE  INetwork' /\ Begins("network", c, s, "error")
<1>1. Begins("network", c, s, "error")
  BY DEF HandleStopRefused, Begins
<1>2. "network" \in Capturing /\ "Network.disable" \in CommandsOf("network")
  BY CommandNames DEF Capturing
<1>3. UNCHANGED <<attached, sent, networkVars>>
  BY DEF HandleStopRefused, Call
<1>4. NetworkTypeOK' /\ CollectsWhatWasAsked' /\ CaptureIsFed'
  BY <1>3 DEF INetwork, NetworkTypeOK, CollectsWhatWasAsked, CaptureIsFed, Outstanding,
              networkVars
<1>5. RunningSent("network")'
  BY <1>1, <1>2, BeginsShared DEF INetwork
<1>6. NetworkOrderly'
  <2> SUFFICES ASSUME orderly'["network"] PROVE NetworkOrderly'
    BY DEF NetworkOrderly
  <2>1. /\ orderly["network"]
        /\ \A r \in Sessions : UsedBy("network", r) => UsedBy("network", r)'
    BY <1>1, <1>2, BeginsOrderly DEF INetwork
  <2> QED BY <1>3, <2>1 DEF INetwork, NetworkOrderly, networkVars
<1> QED BY <1>1, <1>4, <1>5, <1>6 DEF INetwork

LEMMA StepHandleStop ==
  ASSUME IShared, INetwork, NEW c \in Calls, NEW s \in Sessions, HandleStop(c, s)
  PROVE  INetwork' /\ Begins("network", c, s, "running")
<1>1. Begins("network", c, s, "running")
  BY CommandNames DEF HandleStop, Begins
<1>2. "network" \in Capturing /\ "Network.disable" \in CommandsOf("network")
  BY CommandNames DEF Capturing
<1>3. NetworkTypeOK' /\ CollectsWhatWasAsked'
  BY DEF HandleStop, INetwork, NetworkTypeOK, CollectsWhatWasAsked
<1>4. RunningSent("network")'
  BY <1>1, <1>2, BeginsShared DEF INetwork
<1>5. /\ is_capturing /\ is_capturing' = is_capturing
      /\ netEnabled' = netEnabled
      /\ netHandler' = [netHandler EXCEPT ![s] = "none"]
  BY DEF HandleStop
<1>6. NetworkOrderly'
  <2> SUFFICES ASSUME orderly'["network"] PROVE NetworkOrderly'
    BY DEF NetworkOrderly
  <2>1. /\ orderly["network"]
        /\ \A r \in Sessions : \A m \in sent[r] : m.cmd # "Network.disable"
        /\ \A r \in Sessions : UsedBy("network", r) => r = s
        /\ UsedBy("network", s)'
    BY <1>1, <1>2, BeginsOrderly DEF INetwork
  <2>2. \A r \in Sessions : netHandler'[r] = "none"
    BY <1>5, <2>1 DEF INetwork, NetworkOrderly, NetworkTypeOK
  <2>3. \A r \in Sessions : netEnabled'[r] => r = s
    BY <1>5, <2>1 DEF INetwork, NetworkOrderly
  <2> QED BY <1>5, <2>1, <2>2, <2>3 DEF NetworkOrderly
<1>7. CaptureIsFed'
  <2>1. Command("Network.disable", c) \in sent'[s]
    BY DEF HandleStop, Send, Command, IShared, CommandsFit
  <2>2. Outstanding("Network.disable")' # {}
    BY <2>1 DEF Outstanding, Command
  <2> QED BY <2>2 DEF CaptureIsFed
<1> QED BY <1>1, <1>3, <1>4, <1>6, <1>7 DEF INetwork

LEMMA StepOnNetworkEnabled ==
  ASSUME IShared, INetwork, NEW c \in Calls, NEW s \in Sessions, NEW ok \in BOOLEAN,
         OnNetworkEnabled(s, c, ok)
  PROVE  INetwork' /\ Continues("network")
<1>1. /\ "network" \in Capturing
      /\ {"Network.enable", "Network.disable"} \subseteq CommandsOf("network")
      /\ Answered(s, "Network.enable", c, ok) /\ Finish(c, ok)
  BY CommandNames DEF Capturing, OnNetworkEnabled
<1>2. /\ Continues("network")
      /\ RunningSent("network")'
  BY <1>1, AnsweredContinues DEF INetwork
<1>3. /\ tool[c] = "network" /\ tab[c] = s
      /\ Command("Network.enable", c) \in sent[s]
      /\ ok => attached[s]
      /\ UNCHANGED <<attached, tool, tab, orderly>>
      /\ \A r \in Sessions : \A m \in sent'[r] : m \in sent[r]
      /\ \A r \in Sessions : \A m \in sent[r] :
           m = Command("Network.enable", c) \/ m \in sent'[r]
  BY <1>1, AnsweredFacts
<1>4. NetworkTypeOK' /\ CollectsWhatWasAsked'
  BY DEF OnNetworkEnabled, Collected, INetwork, NetworkTypeOK, CollectsWhatWasAsked
<1>5. NetworkOrderly'
  <2> SUFFICES ASSUME orderly["network"] PROVE NetworkOrderly'
    BY <1>3 DEF NetworkOrderly
  <2>1. \A r \in Sessions : UsedBy("network", r)' <=> UsedBy("network", r)
    BY <1>3 DEF UsedBy
  <2>2. ASSUME NEW r \in Sessions, NEW d \in Calls, Command("Network.disable", d) \in sent[r]
        PROVE  FALSE
    <3>1. /\ tool[d] = "network" /\ tab[d] = r /\ status[d] = "running"
          /\ status[c] = "running"
      BY <1>1, <1>3, <2>2, CommandNames
      DEF IShared, INetwork, Belongs, RunningSent, Command
    <3>2. d = c
      BY <1>1, <1>3, <3>1 DEF IShared, OneAtATime
    <3>3. Command("Network.disable", c) = Command("Network.enable", c)
      BY <1>1, <1>3, <2>2, <3>1, <3>2 DEF IShared, OneCommand, Command
    <3> QED BY <3>3 DEF Command
  <2>3. \A r \in Sessions, d \in Calls : Command("Network.disable", d) \notin sent'[r]
    BY <1>3, <2>2
  <2>4. CASE ~ok
    <3>1. UNCHANGED <<is_capturing, netHandler, netEnabled>>
      BY <2>4 DEF OnNetworkEnabled
    <3> QED BY <2>1, <2>3, <3>1 DEF INetwork, NetworkOrderly
  <2>5. CASE ok
    <3>1. /\ is_capturing'
          /\ netHandler' = [netHandler EXCEPT ![s] = "all"]
          /\ netEnabled' = [netEnabled EXCEPT ![s] = TRUE]
      BY <2>5 DEF OnNetworkEnabled
    <3>2. UsedBy("network", s)
      BY <1>3 DEF UsedBy
    <3>3. ASSUME NEW r \in Sessions, netHandler'[r] # "none" \/ netEnabled'[r]
          PROVE  UsedBy("network", r)
      BY <3>1, <3>2, <3>3 DEF INetwork, NetworkOrderly, NetworkTypeOK
    <3> QED BY <2>1, <2>3, <3>1, <3>3 DEF NetworkOrderly
  <2> QED BY <2>4, <2>5
<1>6. CaptureIsFed'
  <2>1. CASE ~ok
    <3>1. UNCHANGED <<is_capturing, netHandler, netEnabled>>
      BY <2>1 DEF OnNetworkEnabled
    <3>2. Outstanding("Network.disable")' = Outstanding("Network.disable")
      BY <1>3 DEF Outstanding, Command
    <3> QED BY <1>3, <3>1, <3>2 DEF INetwork, CaptureIsFed
  <2>2. CASE ok
    <3>1. netHandler'[s] = "all" /\ netEnabled'[s]
      BY <2>2 DEF OnNetworkEnabled, INetwork, NetworkTypeOK
    <3> QED BY <3>1 DEF CaptureIsFed
  <2> QED BY <2>1, <2>2
<1> QED BY <1>2, <1>4, <1>5, <1>6 DEF INetwork

LEMMA StepOnNetworkDisabled ==
  ASSUME IShared, INetwork, NEW c \in Calls, NEW s \in Sessions, NEW ok \in BOOLEAN,
         OnNetworkDisabled(s, c, ok)
  PROVE  INetwork' /\ Continues("network")
<1>1. /\ "network" \in Capturing
      /\ {"Network.enable", "Network.disable"} \subseteq CommandsOf("network")
      /\ Answered(s, "Network.disable", c, ok) /\ Finish(c, TRUE)
  BY CommandNames DEF Capturing, OnNetworkDisabled
<1>2. /\ Continues("network")
      /\ RunningSent("network")'
  BY <1>1, AnsweredContinues DEF INetwork
<1>3. /\ tool[c] = "network" /\ tab[c] = s
      /\ Command("Network.disable", c) \in sent[s]
      /\ UNCHANGED <<attached, tool, tab, orderly>>
      /\ \A r \in Sessions : \A m \in sent'[r] : m \in sent[r]
      /\ \A r \in Sessions : \A m \in sent'[r] :
           m.cmd \in CommandsOf("network") => m.from # c
  BY <1>1, AnsweredFacts
<1>4. NetworkTypeOK' /\ CollectsWhatWasAsked' /\ CaptureIsFed'
  BY DEF OnNetworkDisabled, Collected, INetwork, NetworkTypeOK, CollectsWhatWasAsked,
         CaptureIsFed
<1>5. NetworkOrderly'
  <2> SUFFICES ASSUME orderly["network"] PROVE NetworkOrderly'
    BY <1>3 DEF NetworkOrderly
  <2>1. attached[s] /\ ok
    BY <1>1, <1>3 DEF IShared, OneAtATime, OnNetworkDisabled
  <2>2. \A r \in Sessions : UsedBy("network", r) => r = s
    BY <1>1, <1>3 DEF IShared, OneAtATime, UsedBy
  <2>3. /\ netHandler' = netHandler
        /\ netEnabled' = [netEnabled EXCEPT ![s] = FALSE]
    BY <2>1 DEF OnNetworkDisabled, INetwork, NetworkTypeOK
  <2>4. netHandler[s] = "none"
    BY <1>3 DEF INetwork, NetworkOrderly
  <2>5. \A r \in Sessions : netHandler'[r] = "none" /\ ~netEnabled'[r]
    BY <2>2, <2>3, <2>4 DEF INetwork, NetworkOrderly, NetworkTypeOK
  <2>6. ASSUME NEW r \in Sessions, NEW d \in Calls, Command("Network.disable", d) \in sent'[r]
        PROVE  FALSE
    <3>1. /\ tool[d] = "network" /\ tab[d] = r /\ status[d] = "running"
          /\ status[c] = "running"
      BY <1>1, <1>3, <2>6 DEF IShared, INetwork, Belongs, RunningSent, Command
    <3>2. d = c
      BY <1>1, <1>3, <3>1 DEF IShared, OneAtATime
    <3> QED BY <1>1, <1>3, <2>6, <3>2 DEF Command
  <2> QED BY <2>5, <2>6 DEF NetworkOrderly
<1> QED BY <1>2, <1>4, <1>5 DEF INetwork

LEMMA StepRequestWillBeSent ==
  ASSUME IShared, INetwork, NEW s \in Sessions, NEW r \in Requests, RequestWillBeSent(s, r)
  PROVE  INetwork' /\ Silent
<1>1. UNCHANGED callVars /\ UNCHANGED <<is_capturing, filter, netHandler, netEnabled>>
  BY DEF RequestWillBeSent
<1>2. Silent
  BY <1>1 DEF callVars, Silent, IShared, CommandsFit
<1>3. NetworkTypeOK' /\ CollectsWhatWasAsked'
  BY DEF RequestWillBeSent, INetwork, NetworkTypeOK, CollectsWhatWasAsked
<1>4. RunningSent("network")' /\ NetworkOrderly' /\ CaptureIsFed'
  BY <1>1 DEF callVars, INetwork, RunningSent, NetworkOrderly, UsedBy, CaptureIsFed,
              Outstanding
<1> QED BY <1>2, <1>3, <1>4 DEF INetwork

LEMMA StepBodies ==
  ASSUME IShared, INetwork, NEW s \in Sessions, NEW r \in Requests, NEW ok \in BOOLEAN,
         LoadingFinished(s, r) \/ OnResponseBodyFetched(s, r, ok)
  PROVE  INetwork' /\ Silent
<1>1. /\ UNCHANGED <<attached, tool, tab, status, orderly>>
      /\ UNCHANGED <<is_capturing, filter, netHandler, netEnabled, sinceStart,
                     captured_requests>>
  BY DEF LoadingFinished, OnResponseBodyFetched, Answered
<1>2. Silent
  BY <1>1 DEF LoadingFinished, OnResponseBodyFetched, Answered, Send, Silent, IShared,
              CommandsFit, CaptureCommands
<1>3. NetworkTypeOK' /\ CollectsWhatWasAsked'
  BY <1>1 DEF LoadingFinished, OnResponseBodyFetched, INetwork, NetworkTypeOK,
              CollectsWhatWasAsked
<1>4. \A t \in Sessions : \A m :
        m.cmd \in {"Network.enable", "Network.disable"} =>
          (m \in sent'[t] <=> m \in sent[t])
  BY <1>2 DEF Silent
<1>5. RunningSent("network")'
  BY <1>1, <1>4, CommandNames DEF INetwork, RunningSent
<1>6. NetworkOrderly'
  BY <1>1, <1>4 DEF INetwork, NetworkOrderly, UsedBy, Command
<1>7. CaptureIsFed'
  <2>1. Outstanding("Network.disable")' = Outstanding("Network.disable")
    BY <1>4 DEF Outstanding
  <2> QED BY <1>1, <2>1 DEF INetwork, CaptureIsFed
<1> QED BY <1>2, <1>3, <1>5, <1>6, <1>7 DEF INetwork

LEMMA StepWaitToolTakesOver ==
  ASSUME IShared, INetwork, NEW s \in Sessions, WaitToolTakesOver(s)
  PROVE  INetwork' /\ Silent
<1>1. /\ UNCHANGED callVars
      /\ UNCHANGED <<is_capturing, filter, netEnabled, captured_requests,
                     response_body, sinceStart>>
      /\ netHandler[s] = "all"
      /\ netHandler' = [netHandler EXCEPT ![s] = "responseReceived"]
  BY DEF WaitToolTakesOver
<1>2. Silent
  BY <1>1 DEF callVars, Silent, IShared, CommandsFit
<1>3. NetworkTypeOK' /\ CollectsWhatWasAsked'
  BY <1>1 DEF WaitToolTakesOver, INetwork, NetworkTypeOK, CollectsWhatWasAsked
<1>4. \A r \in Sessions : netHandler'[r] = "none" <=> netHandler[r] = "none"
  BY <1>1 DEF INetwork, NetworkTypeOK
<1>5. RunningSent("network")' /\ NetworkOrderly' /\ CaptureIsFed'
  BY <1>1, <1>4 DEF callVars, INetwork, RunningSent, NetworkOrderly, UsedBy, CaptureIsFed,
                    Outstanding
<1> QED BY <1>2, <1>3, <1>5 DEF INetwork

LEMMA NetworkStep ==
  ASSUME IShared, INetwork, NetworkNext
  PROVE  IShared' /\ INetwork' /\ Frame("console") /\ Frame("trace")
<1> "network" \in Capturing /\ "console" \in Capturing /\ "trace" \in Capturing
  BY DEF Capturing
<1>1. ASSUME NEW c \in Calls, NEW s \in Sessions, NEW bodies \in BOOLEAN,
             NEW wanted \in SUBSET Requests, HandleStart(c, s, bodies, wanted)
      PROVE  IShared' /\ INetwork' /\ Frame("console") /\ Frame("trace")
  BY <1>1, StepHandleStart, BeginsShared, BeginsFrame
<1>2. ASSUME NEW c \in Calls, NEW s \in Sessions, HandleStopRefused(c, s)
      PROVE  IShared' /\ INetwork' /\ Frame("console") /\ Frame("trace")
  BY <1>2, StepHandleStopRefused, BeginsShared, BeginsFrame
<1>3. ASSUME NEW c \in Calls, NEW s \in Sessions, HandleStop(c, s)
      PROVE  IShared' /\ INetwork' /\ Frame("console") /\ Frame("trace")
  BY <1>3, StepHandleStop, BeginsShared, BeginsFrame
<1>4. ASSUME NEW c \in Calls, NEW s \in Sessions, NEW ok \in BOOLEAN,
             OnNetworkEnabled(s, c, ok) \/ OnNetworkDisabled(s, c, ok)
      PROVE  IShared' /\ INetwork' /\ Frame("console") /\ Frame("trace")
  <2>1. INetwork' /\ Continues("network")
    BY <1>4, StepOnNetworkEnabled, StepOnNetworkDisabled
  <2> QED BY <2>1, ContinuesShared, ContinuesFrame
<1>5. ASSUME NEW s \in Sessions, NEW r \in Requests, NEW ok \in BOOLEAN,
             \/ RequestWillBeSent(s, r) \/ LoadingFinished(s, r)
             \/ OnResponseBodyFetched(s, r, ok)
      PROVE  IShared' /\ INetwork' /\ Frame("console") /\ Frame("trace")
  <2>1. INetwork' /\ Silent
    BY <1>5, StepRequestWillBeSent, StepBodies
  <2> QED BY <2>1, SilentShared
<1>6. ASSUME NEW s \in Sessions, WaitToolTakesOver(s)
      PROVE  IShared' /\ INetwork' /\ Frame("console") /\ Frame("trace")
  BY <1>6, StepWaitToolTakesOver, SilentShared
<1> QED BY <1>1, <1>2, <1>3, <1>4, <1>5, <1>6 DEF NetworkNext

-----------------------------------------------------------------------------
(* console.                                                                *)

LEMMA EnableCommands ==
  /\ \A safe \in BOOLEAN : EnableCommand(safe) \in CommandsOf("console")
  /\ \A safe, other \in BOOLEAN : EnableCommand(safe) = EnableCommand(other) => safe = other
  /\ \A safe \in BOOLEAN : ModeEvent(safe) \in ConsoleEvents
BY CommandNames DEF EnableCommand, ModeEvent, ConsoleEvents

LEMMA FrameConsole ==
  ASSUME IShared, IConsole, Frame("console"), UNCHANGED consoleVars
  PROVE  IConsole'
<1>1. ConsoleTypeOK'
  BY DEF IConsole, ConsoleTypeOK, consoleVars
<1>2. RunningSent("console")'
  BY FrameShared DEF IShared, IConsole, Capturing
<1>3. ConsoleOrderly'
  <2> SUFFICES ASSUME orderly'["console"] PROVE ConsoleOrderly'
    BY DEF ConsoleOrderly
  <2>1. orderly["console"]
    BY DEF Frame
  <2>2. \A s \in Sessions : UsedBy("console", s) => UsedBy("console", s)'
    BY DEF Frame, UsedBy
  <2>3. \A s \in Sessions, c \in Calls, safe \in BOOLEAN :
          Command(EnableCommand(safe), c) \in sent'[s] =>
            Command(EnableCommand(safe), c) \in sent[s]
    BY EnableCommands DEF Frame, Command
  <2> QED BY <2>1, <2>2, <2>3 DEF IConsole, ConsoleOrderly, consoleVars
<1> QED BY <1>1, <1>2, <1>3 DEF IConsole

(* A call that sends nothing, or what starts the mode it sets.             *)
LEMMA StepConsoleBegins ==
  ASSUME IShared, IConsole, NEW c \in Calls, NEW s \in Sessions,
         \/ \E safe \in BOOLEAN : StartMode(c, s, safe)
         \/ StartModeAlreadyOn(c, s)
         \/ StopCapture(c, s)
         \/ ClearMessages(c, s)
  PROVE  IConsole' /\ \E state \in {"running", "ok"} : Begins("console", c, s, state)
<1>1. PICK state \in {"running", "ok"} : Begins("console", c, s, state)
  BY EnableCommands DEF StartMode, StartModeAlreadyOn, StopCapture, ClearMessages, Begins
<1>2. "console" \in Capturing
  BY DEF Capturing
<1>3. ConsoleTypeOK'
  <2>1. CASE \E safe \in BOOLEAN : StartMode(c, s, safe)
    BY <2>1 DEF StartMode, IConsole, ConsoleTypeOK
  <2>2. CASE ~ \E safe \in BOOLEAN : StartMode(c, s, safe)
    BY <2>2 DEF StartModeAlreadyOn, StopCapture, ClearMessages, IConsole, ConsoleTypeOK,
                consoleVars
  <2> QED BY <2>1, <2>2
<1>4. RunningSent("console")'
  BY <1>1, <1>2, BeginsShared DEF IConsole
<1>5. ConsoleOrderly'
  <2> SUFFICES ASSUME orderly'["console"] PROVE ConsoleOrderly'
    BY DEF ConsoleOrderly
  <2>1. /\ orderly["console"]
        /\ \A r \in Sessions : \A m \in sent[r] : m.cmd \notin CommandsOf("console")
        /\ \A r \in Sessions : UsedBy("console", r) => r = s
        /\ UsedBy("console", s)'
    BY <1>1, <1>2, BeginsOrderly DEF IConsole
  <2>2. ASSUME NEW r \in Sessions, conHandler[r] # {}
        PROVE  r = s
    BY <2>1, <2>2 DEF IConsole, ConsoleOrderly
  <2>3. ASSUME NEW safe \in BOOLEAN, StartMode(c, s, safe)
        PROVE  ConsoleOrderly'
    <3>1. /\ ~console_on /\ UNCHANGED <<console_on, conHandler>>
          /\ safe_mode' = safe
          /\ sent' = [sent EXCEPT ![s] = @ \cup {Command(EnableCommand(safe), c)}]
      BY <2>3 DEF StartMode, Send, Command
    <3>2. \A r \in Sessions : conHandler'[r] = {}
      BY <2>1, <3>1 DEF IConsole, ConsoleOrderly
    <3>3. ASSUME NEW r \in Sessions, NEW d \in Calls, NEW other \in BOOLEAN,
                 Command(EnableCommand(other), d) \in sent'[r]
          PROVE  other = safe
      <4>1. Command(EnableCommand(other), d) \notin sent[r]
        BY <2>1, EnableCommands DEF Command
      <4>2. Command(EnableCommand(other), d) = Command(EnableCommand(safe), c)
        BY <3>1, <3>3, <4>1 DEF IShared, CommandsFit
      <4> QED BY <4>2, EnableCommands DEF Command
    <3> QED BY <3>1, <3>2, <3>3 DEF ConsoleOrderly
  <2>4. CASE StartModeAlreadyOn(c, s) \/ StopCapture(c, s) \/ ClearMessages(c, s)
    <3>1. UNCHANGED <<sent, safe_mode>>
      BY <2>4 DEF StartModeAlreadyOn, StopCapture, ClearMessages, consoleVars
    <3>2. \A r \in Sessions, d \in Calls, safe \in BOOLEAN :
            Command(EnableCommand(safe), d) \notin sent'[r]
      BY <2>1, <3>1, EnableCommands DEF Command
    <3>3. CASE UNCHANGED <<console_on, conHandler>>
      BY <2>1, <2>2, <3>1, <3>2, <3>3 DEF IConsole, ConsoleOrderly
    <3>4. CASE /\ console_on
               /\ conHandler' = [conHandler EXCEPT ![s] = @ \ {ModeEvent(safe_mode)}]
      <4>1. \A r \in Sessions : conHandler'[r] = {}
        BY <2>1, <2>2, <3>4 DEF IConsole, ConsoleOrderly, ConsoleTypeOK
      <4> QED BY <3>2, <4>1 DEF ConsoleOrderly
    <3> QED BY <2>4, <3>3, <3>4
         DEF StartModeAlreadyOn, StopCapture, ClearMessages, consoleVars
  <2> QED BY <2>3, <2>4
<1> QED BY <1>1, <1>3, <1>4, <1>5 DEF IConsole

LEMMA StepOnEnabled ==
  ASSUME IShared, IConsole, NEW c \in Calls, NEW s \in Sessions, NEW safe \in BOOLEAN,
         NEW ok \in BOOLEAN, OnEnabled(s, c, safe, ok)
  PROVE  IConsole' /\ Continues("console")
<1>1. /\ "console" \in Capturing /\ EnableCommand(safe) \in CommandsOf("console")
      /\ Answered(s, EnableCommand(safe), c, ok) /\ Finish(c, ok)
  BY EnableCommands DEF Capturing, OnEnabled
<1>2. Continues("console") /\ RunningSent("console")'
  BY <1>1, AnsweredContinues DEF IConsole
<1>3. /\ tool[c] = "console" /\ tab[c] = s
      /\ Command(EnableCommand(safe), c) \in sent[s]
      /\ UNCHANGED <<attached, tool, tab, orderly>>
      /\ \A r \in Sessions : \A m \in sent'[r] : m \in sent[r]
      /\ \A r \in Sessions : \A m \in sent'[r] :
           m.cmd \in CommandsOf("console") => m.from # c
  BY <1>1, AnsweredFacts
<1>4. ConsoleTypeOK'
  BY EnableCommands DEF OnEnabled, IConsole, ConsoleTypeOK
<1>5. ConsoleOrderly'
  <2> SUFFICES ASSUME orderly["console"] PROVE ConsoleOrderly'
    BY <1>3 DEF ConsoleOrderly
  <2>1. \A r \in Sessions : UsedBy("console", r)' <=> UsedBy("console", r)
    BY <1>3 DEF UsedBy
  <2>2. ~console_on /\ safe = safe_mode
    BY <1>3 DEF IConsole, ConsoleOrderly
  <2>3. ASSUME NEW r \in Sessions, NEW d \in Calls, NEW other \in BOOLEAN,
               Command(EnableCommand(other), d) \in sent'[r]
        PROVE  FALSE
    <3>1. /\ tool[d] = "console" /\ tab[d] = r /\ status[d] = "running"
          /\ status[c] = "running"
      BY <1>1, <1>3, <2>3, EnableCommands
      DEF IShared, IConsole, Belongs, RunningSent, Command
    <3>2. d = c
      BY <1>1, <1>3, <3>1 DEF IShared, OneAtATime
    <3> QED BY <1>1, <1>3, <2>3, <3>2, EnableCommands DEF Command
  <2>4. \A r \in Sessions : conHandler[r] = {}
    BY <2>2 DEF IConsole, ConsoleOrderly
  <2>5. CASE ~ok
    BY <2>3, <2>4, <2>5 DEF OnEnabled, ConsoleOrderly
  <2>6. CASE ok
    <3>1. /\ console_on' /\ safe_mode' = safe
          /\ conHandler' = [conHandler EXCEPT ![s] = @ \cup {ModeEvent(safe)}]
      BY <2>2, <2>6 DEF OnEnabled
    <3>2. \A r \in Sessions : conHandler'[r] = IF r = s THEN {ModeEvent(safe)} ELSE {}
      BY <2>4, <3>1 DEF IConsole, ConsoleTypeOK
    <3>3. UsedBy("console", s)
      BY <1>3 DEF UsedBy
    <3> QED BY <2>1, <2>3, <3>1, <3>2, <3>3 DEF ConsoleOrderly
  <2> QED BY <2>5, <2>6
<1> QED BY <1>2, <1>4, <1>5 DEF IConsole

LEMMA StepOnConsoleEvent ==
  ASSUME IShared, IConsole, NEW s \in Sessions, NEW event, OnConsoleEvent(s, event)
  PROVE  IConsole' /\ Silent
<1>1. UNCHANGED callVars /\ UNCHANGED <<console_on, safe_mode, conHandler>>
  BY DEF OnConsoleEvent
<1>2. Silent
  BY <1>1 DEF callVars, Silent, IShared, CommandsFit
<1>3. ConsoleTypeOK'
  BY DEF OnConsoleEvent, IConsole, ConsoleTypeOK
<1>4. RunningSent("console")' /\ ConsoleOrderly'
  BY <1>1 DEF callVars, IConsole, RunningSent, ConsoleOrderly, UsedBy
<1> QED BY <1>2, <1>3, <1>4 DEF IConsole

LEMMA ConsoleStep ==
  ASSUME IShared, IConsole, ConsoleNext
  PROVE  IShared' /\ IConsole' /\ Frame("network") /\ Frame("trace")
<1> "network" \in Capturing /\ "console" \in Capturing /\ "trace" \in Capturing
  BY DEF Capturing
<1>1. ASSUME NEW c \in Calls, NEW s \in Sessions,
             \/ \E safe \in BOOLEAN : StartMode(c, s, safe)
             \/ StartModeAlreadyOn(c, s) \/ StopCapture(c, s) \/ ClearMessages(c, s)
      PROVE  IShared' /\ IConsole' /\ Frame("network") /\ Frame("trace")
  <2>1. PICK state \in {"running", "ok"} : Begins("console", c, s, state)
    BY <1>1, StepConsoleBegins
  <2> QED BY <1>1, <2>1, StepConsoleBegins, BeginsShared, BeginsFrame
<1>2. ASSUME NEW c \in Calls, NEW s \in Sessions, NEW safe \in BOOLEAN, NEW ok \in BOOLEAN,
             OnEnabled(s, c, safe, ok)
      PROVE  IShared' /\ IConsole' /\ Frame("network") /\ Frame("trace")
  <2>1. IConsole' /\ Continues("console")
    BY <1>2, StepOnEnabled
  <2> QED BY <2>1, ContinuesShared, ContinuesFrame
<1>3. ASSUME NEW s \in Sessions, NEW event, OnConsoleEvent(s, event)
      PROVE  IShared' /\ IConsole' /\ Frame("network") /\ Frame("trace")
  BY <1>3, StepOnConsoleEvent, SilentShared
<1> QED BY <1>1, <1>2, <1>3
     DEF ConsoleNext, StartSafeMode, StartFullMode, OnLogEnabled, OnRuntimeEnabled,
         OnLogEntryAdded, OnConsoleApiCalled

-----------------------------------------------------------------------------
(* performance: traces.                                                    *)

LEMMA FrameTrace ==
  ASSUME IShared, ITrace, Frame("trace"), UNCHANGED traceVars
  PROVE  ITrace'
<1>1. TraceTypeOK' /\ StopIsTraced'
  BY DEF ITrace, TraceTypeOK, StopIsTraced, traceVars, Frame
<1>2. TraceOrderly'
  <2> SUFFICES ASSUME orderly'["trace"] PROVE TraceOrderly'
    BY DEF TraceOrderly
  <2>1. orderly["trace"] /\ TraceOrderly
    BY DEF Frame, ITrace
  <2>2. RunningSent("trace")'
    BY <2>1, FrameShared DEF TraceOrderly, IShared, Capturing
  <2>3. ASSUME NEW c \in Calls, tool'[c] = "trace", status'[c] = "running"
        PROVE  Starting(c)' \/ Stopping(c)'
    <3>1. /\ tool[c] = "trace" /\ status[c] = "running" /\ tab'[c] = tab[c]
          /\ tab[c] \in Sessions
      BY <2>1, <2>3 DEF Frame, IShared, OneAtATime, Capturing
    <3>2. \A cmd \in {"Tracing.start", "Tracing.end"} :
            Command(cmd, c) \in sent'[tab[c]] <=> Command(cmd, c) \in sent[tab[c]]
      BY <3>1, CommandNames DEF Frame, Command
    <3>3. Starting(c) => Starting(c)'
      BY <3>1, <3>2 DEF Starting, HandlersOnlyOn, traceVars
    <3>4. Stopping(c) => Stopping(c)'
      BY <3>1, <3>2 DEF Stopping, HandlersOnlyOn, traceVars
    <3> QED BY <2>1, <3>1, <3>3, <3>4 DEF TraceOrderly
  <2>4. AtRest("trace")' => Resting'
    <3>1. AtRest("trace")' => AtRest("trace")
      BY DEF Frame, AtRest
    <3>2. UsedBy("trace", recording) => UsedBy("trace", recording)'
      BY DEF Frame, UsedBy, traceVars
    <3> QED BY <2>1, <3>1, <3>2 DEF TraceOrderly, Resting, HandlersOnlyOn, traceVars
  <2> QED BY <2>2, <2>3, <2>4 DEF TraceOrderly
<1> QED BY <1>1, <1>2 DEF ITrace

(* An orderly call begins while the tool rests.                            *)
LEMMA TraceBegins ==
  ASSUME IShared, ITrace, NEW c \in Calls, NEW s \in Sessions,
         NEW state \in {"running", "ok", "error"}, Begins("trace", c, s, state)
  PROVE  /\ \A d \in Calls : tool[d] = "trace" => tool'[d] = "trace"
         /\ orderly'["trace"] =>
              /\ Resting
              /\ RunningSent("trace")'
              /\ \A d \in Calls : tool'[d] = "trace" /\ status'[d] = "running" => d = c
              /\ tool'[c] = "trace" /\ tab'[c] = s /\ status'[c] = state
              /\ \A r \in Sessions : UsedBy("trace", r) => r = s
              /\ UsedBy("trace", s)'
              /\ \A r \in Sessions : \A m \in sent'[r] :
                   m.cmd \in {"Tracing.start", "Tracing.end"} =>
                     \A n \in sent'[r] : n.cmd \in {"Tracing.start", "Tracing.end"} => n = m
<1>1. "trace" \in Capturing
  BY DEF Capturing
<1>2. \A d \in Calls : tool[d] = "trace" => tool'[d] = "trace"
  BY <1>1, BeginsFacts
<1>3. ASSUME orderly'["trace"]
      PROVE  /\ Resting
             /\ RunningSent("trace")'
             /\ \A d \in Calls : tool'[d] = "trace" /\ status'[d] = "running" => d = c
             /\ tool'[c] = "trace" /\ tab'[c] = s /\ status'[c] = state
             /\ \A r \in Sessions : UsedBy("trace", r) => r = s
             /\ UsedBy("trace", s)'
             /\ \A r \in Sessions : \A m \in sent'[r] :
                  m.cmd \in {"Tracing.start", "Tracing.end"} =>
                    \A n \in sent'[r] : n.cmd \in {"Tracing.start", "Tracing.end"} => n = m
  <2>1. orderly["trace"] /\ tool'[c] = "trace" /\ tab'[c] = s /\ status'[c] = state
    BY <1>1, <1>3, BeginsFacts
  <2>2. RunningSent("trace")
    BY <2>1 DEF ITrace, TraceOrderly
  <2>3. /\ AtRest("trace")
        /\ \A r \in Sessions : UsedBy("trace", r) => r = s
        /\ UsedBy("trace", s)'
        /\ \A r \in Sessions : \A m \in sent'[r] : m.cmd \in CommandsOf("trace") =>
             \A n \in sent'[r] : n.cmd \in CommandsOf("trace") => n = m
    BY <1>1, <1>3, <2>2, BeginsOrderly
  <2>4. Resting
    BY <2>1, <2>3 DEF ITrace, TraceOrderly
  <2>5. RunningSent("trace")'
    BY <1>1, <2>2, BeginsShared
  <2>6. \A d \in Calls : tool'[d] = "trace" /\ status'[d] = "running" => d = c
    BY <1>1, <2>3, BeginsFacts DEF AtRest
  <2> QED BY <2>1, <2>3, <2>4, <2>5, <2>6, CommandNames
<1> QED BY <1>2, <1>3

LEMMA StepTraceRefused ==
  ASSUME IShared, ITrace, NEW c \in Calls, NEW s \in Sessions,
         ExecuteStartTraceRefused(c, s) \/ ExecuteStopTraceRefused(c, s)
  PROVE  ITrace' /\ Begins("trace", c, s, "error")
<1>1. Begins("trace", c, s, "error") /\ UNCHANGED traceVars
  BY DEF ExecuteStartTraceRefused, ExecuteStopTraceRefused, Begins
<1>2. TraceTypeOK' /\ StopIsTraced'
  BY <1>1, TraceBegins DEF ITrace, TraceTypeOK, StopIsTraced, traceVars
<1>3. TraceOrderly'
  <2> SUFFICES ASSUME orderly'["trace"] PROVE TraceOrderly'
    BY DEF TraceOrderly
  <2>1. /\ Resting /\ RunningSent("trace")'
        /\ \A d \in Calls : tool'[d] = "trace" => status'[d] # "running"
        /\ \A r \in Sessions : UsedBy("trace", r) => UsedBy("trace", r)'
    BY <1>1, TraceBegins
  <2>2. Resting'
    <3>1. recording \in Sessions \cup {NoSession} /\ recording' = recording
      BY <1>1 DEF ITrace, TraceTypeOK, traceVars
    <3>2. CASE is_tracing
      <4>1. UsedBy("trace", recording)
        BY <2>1, <3>2 DEF Resting
      <4>2. UsedBy("trace", recording)'
        <5>1. PICK d \in Calls : tool[d] = "trace" /\ tab[d] = recording
          BY <4>1 DEF UsedBy
        <5>2. d # c /\ tool'[d] = "trace" /\ tab'[d] = tab[d]
          BY <1>1, <5>1, BeginsFacts DEF Capturing
        <5> QED BY <3>1, <5>1, <5>2 DEF UsedBy
      <4> QED BY <1>1, <2>1, <3>2, <4>2 DEF Resting, HandlersOnlyOn, traceVars
    <3>3. CASE ~is_tracing
      BY <1>1, <2>1, <3>3 DEF Resting, traceVars
    <3> QED BY <3>2, <3>3
  <2> QED BY <2>1, <2>2 DEF TraceOrderly
<1> QED BY <1>1, <1>2, <1>3 DEF ITrace

LEMMA StepExecuteStartTrace ==
  ASSUME IShared, ITrace, NEW c \in Calls, NEW s \in Sessions, ExecuteStartTrace(c, s)
  PROVE  ITrace' /\ Begins("trace", c, s, "running")
<1>1. Begins("trace", c, s, "running")
  BY CommandNames DEF ExecuteStartTrace, Begins
<1>2. TraceTypeOK' /\ StopIsTraced'
  <2>1. TraceTypeOK'
    BY DEF ITrace, TraceTypeOK, TraceEvents, ExecuteStartTrace
  <2>2. StopIsTraced'
    BY <1>1, TraceBegins DEF ITrace, TraceTypeOK, StopIsTraced, ExecuteStartTrace
  <2> QED BY <2>1, <2>2
<1>3. TraceOrderly'
  <2> SUFFICES ASSUME orderly'["trace"] PROVE TraceOrderly'
    BY DEF TraceOrderly
  <2>1. /\ Resting /\ RunningSent("trace")'
        /\ \A d \in Calls : tool'[d] = "trace" /\ status'[d] = "running" => d = c
        /\ tool'[c] = "trace" /\ tab'[c] = s /\ status'[c] = "running"
    BY <1>1, TraceBegins
  <2>2. Command("Tracing.start", c) \in sent'[s]
    BY DEF ExecuteStartTrace, Send, Command, IShared, CommandsFit
  <2>3. /\ \A r \in Sessions : r # s => traceHandler'[r] = {}
        /\ traceHandler'[s] = {"dataCollected"}
    BY <2>1 DEF ExecuteStartTrace, Resting, ITrace, TraceTypeOK
  <2>4. Starting(c)'
    BY <2>1, <2>2, <2>3 DEF ExecuteStartTrace, Starting, Resting, HandlersOnlyOn
  <2>5. ~AtRest("trace")'
    BY <2>1 DEF AtRest
  <2> QED BY <2>1, <2>4, <2>5 DEF TraceOrderly
<1> QED BY <1>1, <1>2, <1>3 DEF ITrace

LEMMA StepExecuteStopTrace ==
  ASSUME IShared, ITrace, NEW c \in Calls, NEW s \in Sessions, ExecuteStopTrace(c, s)
  PROVE  ITrace' /\ Begins("trace", c, s, "running")
<1>1. Begins("trace", c, s, "running")
  BY CommandNames DEF ExecuteStopTrace, Begins
<1>2. TraceTypeOK' /\ StopIsTraced'
  <2>1. TraceTypeOK'
    BY DEF ITrace, TraceTypeOK, TraceEvents, ExecuteStopTrace
  <2>2. tool'[c] = "trace"
    BY <1>1, BeginsFacts DEF Capturing
  <2>3. StopIsTraced'
    BY <2>2 DEF StopIsTraced, ExecuteStopTrace
  <2> QED BY <2>1, <2>3
<1>3. TraceOrderly'
  <2> SUFFICES ASSUME orderly'["trace"] PROVE TraceOrderly'
    BY DEF TraceOrderly
  <2>1. /\ Resting /\ RunningSent("trace")'
        /\ \A d \in Calls : tool'[d] = "trace" /\ status'[d] = "running" => d = c
        /\ tool'[c] = "trace" /\ tab'[c] = s /\ status'[c] = "running"
        /\ \A r \in Sessions : UsedBy("trace", r) => r = s
        /\ \A r \in Sessions : \A m \in sent'[r] :
             m.cmd \in {"Tracing.start", "Tracing.end"} =>
               \A n \in sent'[r] : n.cmd \in {"Tracing.start", "Tracing.end"} => n = m
    BY <1>1, TraceBegins
  <2>2. Command("Tracing.end", c) \in sent'[s]
    BY DEF ExecuteStopTrace, Send, Command, IShared, CommandsFit
  <2>3. Command("Tracing.start", c) \notin sent'[s]
    BY <2>1, <2>2 DEF Command
  <2>4. is_tracing /\ recording = s
    <3>1. is_tracing /\ UsedBy("trace", recording)
      BY <2>1 DEF ExecuteStopTrace, Resting
    <3>2. recording \in Sessions
      <4>1. PICK d \in Calls : tool[d] = "trace" /\ tab[d] = recording
        BY <3>1 DEF UsedBy
      <4>2. orderly["trace"]
        BY <1>1, BeginsFacts DEF Capturing
      <4> QED BY <4>1, <4>2 DEF IShared, OneAtATime, Capturing
    <3> QED BY <2>1, <3>1, <3>2
  <2>5. /\ \A r \in Sessions : r # s => traceHandler'[r] = {}
        /\ "tracingComplete" \in traceHandler'[s]
    BY <2>1, <2>4 DEF ExecuteStopTrace, Resting, HandlersOnlyOn, ITrace, TraceTypeOK
  <2>6. Stopping(c)'
    BY <2>1, <2>2, <2>3, <2>4, <2>5
    DEF ExecuteStopTrace, Stopping, Resting, HandlersOnlyOn
  <2>7. ~AtRest("trace")'
    BY <2>1 DEF AtRest
  <2> QED BY <2>1, <2>6, <2>7 DEF TraceOrderly
<1> QED BY <1>1, <1>2, <1>3 DEF ITrace

LEMMA StepOnTraceStarted ==
  ASSUME IShared, ITrace, NEW c \in Calls, NEW s \in Sessions, NEW ok \in BOOLEAN,
         OnTraceStarted(s, c, ok)
  PROVE  ITrace' /\ Continues("trace")
<1>1. /\ "trace" \in Capturing /\ "Tracing.start" \in CommandsOf("trace")
      /\ Answered(s, "Tracing.start", c, ok) /\ Finish(c, ok)
  BY CommandNames DEF Capturing, OnTraceStarted
<1>2. /\ Continues("trace")
      /\ RunningSent("trace") => RunningSent("trace")'
      /\ status'[c] # "running"
      /\ \A d \in Calls \ {c} : status'[d] = status[d]
  BY <1>1, AnsweredContinues
<1>3. /\ tool[c] = "trace" /\ tab[c] = s
      /\ Command("Tracing.start", c) \in sent[s]
      /\ UNCHANGED <<attached, tool, tab, orderly>>
  BY <1>1, AnsweredFacts
<1>4. TraceTypeOK' /\ StopIsTraced'
  <2>1. TraceTypeOK'
    BY DEF ITrace, TraceTypeOK, TraceEvents, OnTraceStarted, WithoutHandlers
  <2>2. StopIsTraced'
    BY <1>3 DEF ITrace, StopIsTraced, OnTraceStarted
  <2> QED BY <2>1, <2>2
<1>5. TraceOrderly'
  <2> SUFFICES ASSUME orderly["trace"] PROVE TraceOrderly'
    BY <1>3 DEF TraceOrderly
  <2>1. status[c] = "running"
    BY <1>1, <1>3 DEF ITrace, TraceOrderly, RunningSent, Command
  <2>2. Starting(c)
    BY <1>3, <2>1 DEF ITrace, TraceOrderly, Stopping
  <2>3. \A d \in Calls : tool'[d] = "trace" => status'[d] # "running"
    BY <1>1, <1>2, <1>3, <2>1 DEF IShared, OneAtATime
  <2>4. CASE ok
    <3>1. /\ is_tracing' /\ recording' = s
          /\ UNCHANGED <<traceHandler, stop_trace_callback, completing>>
      BY <2>4 DEF OnTraceStarted
    <3>2. UsedBy("trace", s)'
      BY <1>3 DEF UsedBy
    <3>3. Resting'
      BY <1>3, <2>2, <3>1, <3>2 DEF Resting, Starting, HandlersOnlyOn
    <3> QED BY <1>2, <2>3, <3>3 DEF ITrace, TraceOrderly
  <2>5. CASE ~ok
    <3>1. /\ UNCHANGED <<is_tracing, recording, stop_trace_callback, completing>>
          /\ traceHandler' = WithoutHandlers({"dataCollected"})
      BY <2>5 DEF OnTraceStarted
    <3>2. \A r \in Sessions : traceHandler'[r] = {}
      BY <1>3, <2>2, <3>1 DEF WithoutHandlers, Starting, HandlersOnlyOn
    <3>3. Resting'
      BY <2>2, <3>1, <3>2 DEF Resting, Starting
    <3> QED BY <1>2, <2>3, <3>3 DEF ITrace, TraceOrderly
  <2> QED BY <2>4, <2>5
<1> QED BY <1>2, <1>4, <1>5 DEF ITrace

(* The callback of a stop is run: a call of this tool ends.                *)
LEMMA AnswerStopFacts ==
  ASSUME IShared, ITrace, NEW ok \in BOOLEAN, AnswerStop(ok)
  PROVE  /\ status' \in [Calls -> {"new", "running", "ok", "error"}]
         /\ \A c \in Calls :
              status'[c] # status[c] => tool[c] = "trace" /\ status'[c] \in {"ok", "error"}
         /\ \A c \in Calls : c = stop_trace_callback => status'[c] # "running"
BY DEF AnswerStop, IShared, CallsTypeOK, ITrace, TraceTypeOK, StopIsTraced

LEMMA StepOnTraceEnded ==
  ASSUME IShared, ITrace, NEW c \in Calls, NEW s \in Sessions, NEW ok \in BOOLEAN,
         OnTraceEnded(s, c, ok)
  PROVE  ITrace' /\ Continues("trace")
<1>1. /\ "trace" \in Capturing /\ "Tracing.end" \in CommandsOf("trace")
      /\ Answered(s, "Tracing.end", c, ok)
  BY CommandNames DEF Capturing, OnTraceEnded
<1>2. /\ tool[c] = "trace" /\ tab[c] = s
      /\ Command("Tracing.end", c) \in sent[s]
      /\ UNCHANGED <<attached, tool, tab, orderly>>
      /\ sent' \in [Sessions -> SUBSET [cmd : CaptureCommands, from : Calls \cup Requests]]
      /\ \A r \in Sessions : \A m \in sent'[r] : m \in sent[r]
      /\ \A r \in Sessions : \A m \in sent'[r] :
           m.cmd \in CommandsOf("trace") => m.from # c
      /\ \A r \in Sessions : \A m \in sent[r] :
           m = Command("Tracing.end", c) \/ m \in sent'[r]
  BY <1>1, AnsweredFacts
<1>3. Continues("trace")
  <2>1. /\ status' \in [Calls -> {"new", "running", "ok", "error"}]
        /\ \A d \in Calls :
             status'[d] # status[d] => tool[d] = "trace" /\ status'[d] \in {"ok", "error"}
    <3>1. CASE ok
      BY <3>1 DEF OnTraceEnded, IShared, CallsTypeOK
    <3>2. CASE ~ok
      BY <3>2, AnswerStopFacts DEF OnTraceEnded
    <3> QED BY <3>1, <3>2
  <2>2. \A r \in Sessions : \A m \in sent[r] :
          m.cmd \notin CommandsOf("trace") => m \in sent'[r]
    BY <1>1, <1>2 DEF Command
  <2> QED BY <1>2, <2>1, <2>2 DEF Continues
<1>4. TraceTypeOK' /\ StopIsTraced'
  <2>1. TraceTypeOK'
    <3>1. WithoutHandlers(TraceEvents) \in [Sessions -> SUBSET TraceEvents]
      BY DEF WithoutHandlers, ITrace, TraceTypeOK
    <3> QED BY <3>1 DEF ITrace, TraceTypeOK, OnTraceEnded, AnswerStop
  <2>2. StopIsTraced'
    BY <1>2 DEF ITrace, StopIsTraced, OnTraceEnded, AnswerStop
  <2> QED BY <2>1, <2>2
<1>5. TraceOrderly'
  <2> SUFFICES ASSUME orderly["trace"] PROVE TraceOrderly'
    BY <1>2 DEF TraceOrderly
  <2>1. RunningSent("trace") /\ status[c] = "running" /\ attached[s]
    BY <1>1, <1>2 DEF ITrace, TraceOrderly, RunningSent, Command, IShared, OneAtATime
  <2>2. Command("Tracing.start", c) \notin sent[s]
    <3>1. Command("Tracing.start", c) # Command("Tracing.end", c)
      BY DEF Command
    <3>2. /\ Command("Tracing.start", c).cmd \in CommandsOf("trace")
          /\ Command("Tracing.end", c).cmd \in CommandsOf("trace")
          /\ Command("Tracing.start", c).from = Command("Tracing.end", c).from
      BY CommandNames DEF Command
    <3> QED BY <1>1, <1>2, <3>1, <3>2 DEF IShared, OneCommand
  <2>3. Stopping(c) /\ recording = s /\ completing = {}
    BY <1>2, <2>1, <2>2 DEF ITrace, TraceOrderly, Starting, Stopping
  <2>4. ok
    BY <2>1, <2>3 DEF OnTraceEnded
  <2>5. /\ recording' = NoSession /\ completing' = {s}
        /\ UNCHANGED <<status, is_tracing, tracing_session, stop_trace_callback, traceHandler>>
    BY <2>3, <2>4 DEF OnTraceEnded
  <2>6. /\ Command("Tracing.end", c) \notin sent'[s]
        /\ Command("Tracing.start", c) \notin sent'[s]
    BY <1>1, <1>2, <2>2 DEF Command
  <2>7. Stopping(c)'
    BY <1>2, <2>3, <2>5, <2>6 DEF Stopping, HandlersOnlyOn
  <2>8. \A d \in Calls : tool'[d] = "trace" /\ status'[d] = "running" => d = c
    BY <1>1, <1>2, <2>1, <2>5 DEF IShared, OneAtATime
  <2>9. RunningSent("trace")'
    BY <1>2, <2>1, <2>5 DEF RunningSent
  <2>10. ~AtRest("trace")'
    BY <1>2, <2>1, <2>5 DEF AtRest
  <2> QED BY <2>7, <2>8, <2>9, <2>10 DEF TraceOrderly
<1> QED BY <1>3, <1>4, <1>5 DEF ITrace

LEMMA StepOnTracingComplete ==
  ASSUME IShared, ITrace, NEW s \in Sessions, OnTracingComplete(s)
  PROVE  ITrace' /\ Continues("trace")
<1>1. /\ UNCHANGED <<attached, sent, tool, tab, orderly, recording>>
      /\ s \in completing /\ completing' = completing \ {s}
  BY DEF OnTracingComplete
<1>2. Continues("trace")
  <2>1. /\ status' \in [Calls -> {"new", "running", "ok", "error"}]
        /\ \A d \in Calls :
             status'[d] # status[d] => tool[d] = "trace" /\ status'[d] \in {"ok", "error"}
    <3>1. CASE "tracingComplete" \in traceHandler[s]
      BY <3>1, AnswerStopFacts DEF OnTracingComplete
    <3>2. CASE "tracingComplete" \notin traceHandler[s]
      BY <3>2 DEF OnTracingComplete, IShared, CallsTypeOK
    <3> QED BY <3>1, <3>2
  <2> QED BY <1>1, <2>1 DEF Continues, IShared, CommandsFit
<1>3. TraceTypeOK' /\ StopIsTraced'
  <2>1. TraceTypeOK'
    <3>1. WithoutHandlers(TraceEvents) \in [Sessions -> SUBSET TraceEvents]
      BY DEF WithoutHandlers, ITrace, TraceTypeOK
    <3> QED BY <3>1 DEF ITrace, TraceTypeOK, OnTracingComplete, AnswerStop
  <2>2. StopIsTraced'
    BY <1>1 DEF ITrace, StopIsTraced, OnTracingComplete, AnswerStop
  <2> QED BY <2>1, <2>2
<1>4. TraceOrderly'
  <2> SUFFICES ASSUME orderly["trace"] PROVE TraceOrderly'
    BY <1>1 DEF TraceOrderly
  <2>1. PICK c \in Calls : tool[c] = "trace" /\ status[c] = "running"
    BY <1>1 DEF ITrace, TraceOrderly, Resting, AtRest
  <2>2. /\ Stopping(c) /\ completing = {s} /\ tab[c] = s /\ recording = NoSession
        /\ Command("Tracing.end", c) \notin sent[s]
        /\ Command("Tracing.start", c) \notin sent[s]
    BY <1>1, <2>1 DEF ITrace, TraceOrderly, Starting, Stopping
  <2>3. "tracingComplete" \in traceHandler[s] /\ tracing_session = s
    BY <2>2 DEF Stopping
  <2>4. /\ ~is_tracing' /\ stop_trace_callback' = NoCall
        /\ traceHandler' = WithoutHandlers(TraceEvents)
        /\ AnswerStop(TRUE)
    BY <2>3 DEF OnTracingComplete, AnswerStop
  <2>5. \A r \in Sessions : traceHandler'[r] = {}
    BY <2>2, <2>3, <2>4 DEF WithoutHandlers, Stopping, HandlersOnlyOn, ITrace, TraceTypeOK
  <2>6. Resting'
    BY <1>1, <2>2, <2>4, <2>5 DEF Resting
  <2>7. \A d \in Calls : tool'[d] = "trace" => status'[d] # "running"
    <3>1. status'[c] # "running"
      BY <2>2, <2>4, AnswerStopFacts DEF Stopping
    <3>2. \A d \in Calls : status'[d] = "running" => status[d] = "running"
      BY <1>2 DEF Continues
    <3> QED BY <1>1, <2>1, <3>1, <3>2 DEF IShared, OneAtATime, Capturing
  <2>8. ASSUME NEW r \in Sessions, NEW m \in sent[r], m.cmd \in CommandsOf("trace")
        PROVE  FALSE
    <3>1. /\ m.from \in Calls /\ tool[m.from] = "trace" /\ tab[m.from] = r
          /\ status[m.from] = "running"
      BY <2>8 DEF IShared, Belongs, Capturing, ITrace, TraceOrderly, RunningSent
    <3>2. m.from = c /\ r = s
      BY <2>1, <2>2, <3>1 DEF IShared, OneAtATime, Capturing
    <3>3. m = Command("Tracing.start", c) \/ m = Command("Tracing.end", c)
      BY <2>8, <3>2, CommandNames DEF IShared, CommandsFit, Command
    <3> QED BY <2>2, <2>8, <3>2, <3>3
  <2>9. RunningSent("trace")'
    BY <1>1, <2>8 DEF RunningSent
  <2> QED BY <2>6, <2>7, <2>9 DEF TraceOrderly
<1> QED BY <1>2, <1>3, <1>4 DEF ITrace

LEMMA StepOnTraceDataCollected ==
  ASSUME IShared, ITrace, NEW s \in Sessions, OnTraceDataCollected(s)
  PROVE  ITrace' /\ Silent
<1>1. /\ UNCHANGED callVars
      /\ UNCHANGED <<is_tracing, tracing_session, stop_trace_callback, traceHandler,
                     recording, completing>>
  BY DEF OnTraceDataCollected
<1>2. Silent
  BY <1>1 DEF callVars, Silent, IShared, CommandsFit
<1>3. TraceTypeOK' /\ StopIsTraced'
  BY <1>1 DEF OnTraceDataCollected, ITrace, TraceTypeOK, StopIsTraced, callVars
<1>4. TraceOrderly'
  BY <1>1 DEF callVars, ITrace, TraceOrderly, RunningSent, Starting, Stopping, Resting,
              HandlersOnlyOn, UsedBy, AtRest
<1> QED BY <1>2, <1>3, <1>4 DEF ITrace

LEMMA TraceStep ==
  ASSUME IShared, ITrace, TraceNext
  PROVE  IShared' /\ ITrace' /\ Frame("network") /\ Frame("console")
<1> "network" \in Capturing /\ "console" \in Capturing /\ "trace" \in Capturing
  BY DEF Capturing
<1>1. ASSUME NEW c \in Calls, NEW s \in Sessions,
             \/ ExecuteStartTraceRefused(c, s) \/ ExecuteStopTraceRefused(c, s)
             \/ ExecuteStartTrace(c, s) \/ ExecuteStopTrace(c, s)
      PROVE  IShared' /\ ITrace' /\ Frame("network") /\ Frame("console")
  <2>1. ITrace' /\ \E state \in {"running", "error"} : Begins("trace", c, s, state)
    BY <1>1, StepTraceRefused, StepExecuteStartTrace, StepExecuteStopTrace
  <2>2. PICK state \in {"running", "error"} : Begins("trace", c, s, state)
    BY <2>1
  <2> QED BY <2>1, <2>2, BeginsShared, BeginsFrame
<1>2. ASSUME NEW c \in Calls, NEW s \in Sessions, NEW ok \in BOOLEAN,
             OnTraceStarted(s, c, ok) \/ OnTraceEnded(s, c, ok) \/ OnTracingComplete(s)
      PROVE  IShared' /\ ITrace' /\ Frame("network") /\ Frame("console")
  <2>1. ITrace' /\ Continues("trace")
    BY <1>2, StepOnTraceStarted, StepOnTraceEnded, StepOnTracingComplete
  <2> QED BY <2>1, ContinuesShared, ContinuesFrame
<1>3. ASSUME NEW s \in Sessions, OnTraceDataCollected(s)
      PROVE  IShared' /\ ITrace' /\ Frame("network") /\ Frame("console")
  BY <1>3, StepOnTraceDataCollected, SilentShared
<1>4. ASSUME NEW s \in Sessions, OnTracingComplete(s)
      PROVE  IShared' /\ ITrace' /\ Frame("network") /\ Frame("console")
  <2>1. ITrace' /\ Continues("trace")
    BY <1>4, StepOnTracingComplete
  <2> QED BY <2>1, ContinuesShared, ContinuesFrame
<1> QED BY <1>1, <1>2, <1>3, <1>4 DEF TraceNext

-----------------------------------------------------------------------------
(* The closing of a tab: no tool with calls on it is orderly from then on. *)

LEMMA ClosingFacts ==
  ASSUME IShared, NEW s \in Sessions, CloseTab(s)
  PROVE  /\ UNCHANGED <<sent, tool, tab, status, networkVars, consoleVars>>
         /\ attached' = [attached EXCEPT ![s] = FALSE]
         /\ orderly' \in [Tools -> BOOLEAN]
         /\ \A t \in Capturing :
              orderly'[t] => orderly[t] /\ \A c \in Calls : tool[c] = t => tab[c] # s
<1>1. /\ UNCHANGED <<sent, tool, tab, status, networkVars, consoleVars>>
      /\ attached' = [attached EXCEPT ![s] = FALSE]
  BY DEF CloseTab, AgentHostClosed
<1>2. orderly' = [t \in Tools |->
                    orderly[t] /\ \A c \in Calls : tool[c] = t => tab[c] # s]
  BY DEF CloseTab, AgentHostClosed
<1>3. orderly' \in [Tools -> BOOLEAN]
  BY <1>2, Zenon
<1>4. ASSUME NEW t \in Capturing, orderly'[t]
      PROVE  orderly[t] /\ \A c \in Calls : tool[c] = t => tab[c] # s
  <2>1. t \in Tools
    BY CommandNames
  <2> QED BY <1>2, <1>4, <2>1
<1> QED BY <1>1, <1>3, <1>4

LEMMA ClosingShared ==
  ASSUME IShared, NEW s \in Sessions, CloseTab(s)
  PROVE  IShared'
<1> USE ClosingFacts
<1>1. CallsTypeOK'
  BY DEF IShared, CallsTypeOK
<1>2. CommandsFit'
  BY DEF IShared, CommandsFit
<1>3. ASSUME NEW t \in Capturing
      PROVE  Belongs(t)' /\ OneCommand(t)' /\ OneAtATime(t)'
  <2>1. Belongs(t)' /\ OneCommand(t)'
    BY DEF IShared, Belongs, OneCommand
  <2>2. OneAtATime(t)'
    <3> SUFFICES ASSUME orderly'[t], NEW c \in Calls, tool[c] = t
                 PROVE  /\ tab[c] \in Sessions /\ attached'[tab[c]]
                        /\ \A d \in Calls : tool[d] = t =>
                             /\ tab[d] = tab[c]
                             /\ (status[c] = "running" /\ status[d] = "running") => c = d
      BY DEF OneAtATime
    <3>1. orderly[t] /\ tab[c] # s
      OBVIOUS
    <3>2. OneAtATime(t)
      BY DEF IShared
    <3>3. /\ tab[c] \in Sessions /\ attached[tab[c]]
          /\ \A d \in Calls : tool[d] = t =>
               /\ tab[d] = tab[c]
               /\ (status[c] = "running" /\ status[d] = "running") => c = d
      BY <3>1, <3>2 DEF OneAtATime
    <3>4. attached'[tab[c]]
      BY <3>1, <3>3 DEF IShared, CallsTypeOK
    <3> QED BY <3>3, <3>4
  <2> QED BY <2>1, <2>2
<1> QED BY <1>1, <1>2, <1>3 DEF IShared

LEMMA ClosingTools ==
  ASSUME IInv, NEW s \in Sessions, CloseTab(s)
  PROVE  INetwork' /\ IConsole' /\ ITrace'
<1> "network" \in Capturing /\ "console" \in Capturing /\ "trace" \in Capturing
  BY DEF Capturing
<1>1. /\ UNCHANGED <<sent, tool, tab, status, networkVars, consoleVars>>
      /\ attached' = [attached EXCEPT ![s] = FALSE]
      /\ \A t \in Capturing :
           orderly'[t] => orderly[t] /\ \A c \in Calls : tool[c] = t => tab[c] # s
  BY ClosingFacts DEF IInv
<1>2. INetwork'
  <2>1. NetworkTypeOK' /\ RunningSent("network")' /\ CollectsWhatWasAsked'
    BY <1>1 DEF IInv, INetwork, NetworkTypeOK, RunningSent, CollectsWhatWasAsked, networkVars
  <2>2. NetworkOrderly'
    BY <1>1 DEF IInv, INetwork, NetworkOrderly, UsedBy, networkVars
  <2>3. CaptureIsFed'
    <3>1. \A r \in Sessions : attached'[r] => attached[r]
      BY <1>1 DEF IInv, IShared, CallsTypeOK
    <3>2. Outstanding("Network.disable")' = Outstanding("Network.disable")
      BY <1>1 DEF Outstanding
    <3> QED BY <1>1, <3>1, <3>2 DEF IInv, INetwork, CaptureIsFed, networkVars
  <2> QED BY <2>1, <2>2, <2>3 DEF INetwork
<1>3. IConsole'
  BY <1>1 DEF IInv, IConsole, ConsoleTypeOK, RunningSent, ConsoleOrderly, UsedBy, consoleVars
<1>4. ITrace'
  <2>1. /\ UNCHANGED <<is_tracing, tracing_session, stop_trace_callback, trace_chunks,
                       traceHandler>>
        /\ recording' = IF recording = s THEN NoSession ELSE recording
        /\ completing' = completing \ {s}
    BY DEF CloseTab, RecorderGone
  <2>2. TraceTypeOK' /\ StopIsTraced'
    BY <1>1, <2>1 DEF IInv, ITrace, TraceTypeOK, StopIsTraced
  <2>3. TraceOrderly'
    <3> SUFFICES ASSUME orderly'["trace"] PROVE TraceOrderly'
      BY DEF TraceOrderly
    <3>1. /\ TraceOrderly /\ orderly["trace"]
          /\ \A c \in Calls : tool[c] = "trace" => tab[c] # s
      BY <1>1 DEF IInv, ITrace
    <3>2. RunningSent("trace")'
      BY <1>1, <3>1 DEF TraceOrderly, RunningSent
    <3>3. ASSUME NEW c \in Calls, tool[c] = "trace", status[c] = "running"
          PROVE  Starting(c)' \/ Stopping(c)'
      <4>1. tab[c] # s /\ (Starting(c) \/ Stopping(c))
        BY <3>1, <3>3 DEF TraceOrderly
      <4>2. recording' = recording /\ completing' = completing
        BY <2>1, <4>1 DEF Starting, Stopping
      <4>3. Starting(c) => Starting(c)'
        BY <1>1, <2>1, <4>2 DEF Starting, HandlersOnlyOn
      <4>4. Stopping(c) => Stopping(c)'
        BY <1>1, <2>1, <4>2 DEF Stopping, HandlersOnlyOn
      <4> QED BY <4>1, <4>3, <4>4
    <3>4. AtRest("trace")' => Resting'
      <4>1. AtRest("trace")' => AtRest("trace")
        BY <1>1 DEF AtRest
      <4>2. Resting => recording' = recording /\ completing' = completing
        BY <2>1, <3>1 DEF Resting, UsedBy
      <4> QED BY <1>1, <2>1, <3>1, <4>1, <4>2
           DEF TraceOrderly, Resting, HandlersOnlyOn, UsedBy
    <3> QED BY <1>1, <3>2, <3>3, <3>4 DEF TraceOrderly
  <2> QED BY <2>2, <2>3 DEF ITrace
<1> QED BY <1>2, <1>3, <1>4

-----------------------------------------------------------------------------
LEMMA InitIInv == Init => IInv
<1> SUFFICES ASSUME Init PROVE IInv
  OBVIOUS
<1> USE DEF Init, CallsInit
<1>1. IShared
  <2>1. CallsTypeOK /\ CommandsFit
    BY DEF CallsTypeOK, CommandsFit
  <2>2. \A t \in Capturing : Belongs(t) /\ OneCommand(t) /\ OneAtATime(t)
    BY CommandNames DEF Belongs, OneCommand, OneAtATime
  <2> QED BY <2>1, <2>2 DEF IShared
<1>2. INetwork
  BY DEF NetworkInit, INetwork, NetworkTypeOK, RunningSent, NetworkOrderly,
         CollectsWhatWasAsked, CaptureIsFed
<1>3. IConsole
  BY DEF ConsoleInit, IConsole, ConsoleTypeOK, RunningSent, ConsoleOrderly
<1>4. ITrace
  BY DEF TraceInit, ITrace, TraceTypeOK, StopIsTraced, RunningSent, TraceOrderly, Resting
<1> QED BY <1>1, <1>2, <1>3, <1>4 DEF IInv

LEMMA NextIInv == IInv /\ [Next]_vars => IInv'
<1> SUFFICES ASSUME IInv, [Next]_vars PROVE IInv'
  OBVIOUS
<1>1. CASE NetworkNext /\ UNCHANGED <<consoleVars, traceVars>>
  <2>1. IShared' /\ INetwork' /\ Frame("console") /\ Frame("trace")
    BY <1>1, NetworkStep DEF IInv
  <2> QED BY <1>1, <2>1, FrameConsole, FrameTrace DEF IInv
<1>2. CASE ConsoleNext /\ UNCHANGED <<networkVars, traceVars>>
  <2>1. IShared' /\ IConsole' /\ Frame("network") /\ Frame("trace")
    BY <1>2, ConsoleStep DEF IInv
  <2> QED BY <1>2, <2>1, FrameNetwork, FrameTrace DEF IInv
<1>3. CASE TraceNext /\ UNCHANGED <<networkVars, consoleVars>>
  <2>1. IShared' /\ ITrace' /\ Frame("network") /\ Frame("console")
    BY <1>3, TraceStep DEF IInv
  <2> QED BY <1>3, <2>1, FrameNetwork, FrameConsole DEF IInv
<1>4. ASSUME NEW s \in Sessions, CloseTab(s)
      PROVE  IInv'
  BY <1>4, ClosingShared, ClosingTools DEF IInv
<1>5. CASE UNCHANGED vars
  <2>1. UNCHANGED <<attached, sent, tool, tab, status, orderly, networkVars, consoleVars, traceVars>>
    BY <1>5 DEF vars, callVars
  <2>2. \A t \in Capturing : Frame(t)
    BY <2>1 DEF Frame
  <2>3. Silent
    BY <2>1 DEF Silent, IInv, IShared, CommandsFit
  <2> QED BY <2>1, <2>2, <2>3, SilentShared, FrameNetwork, FrameConsole, FrameTrace
       DEF IInv, Capturing
<1> QED BY <1>1, <1>2, <1>3, <1>4, <1>5 DEF Next

LEMMA AlwaysIInv == Spec => []IInv
<1> QED BY InitIInv, NextIInv, PTL DEF Spec

-----------------------------------------------------------------------------
(* TypeOK: the state of the tools keeps its types, whatever their calls do *)
(* to each other.                                                          *)
THEOREM CaptureToolsTypeOK == Spec => []TypeOK
<1>1. IInv => TypeOK
  BY DEF IInv, IShared, INetwork, IConsole, ITrace, TypeOK
<1> QED BY <1>1, AlwaysIInv, PTL

(* The buffer of network_capture holds only requests that were seen since  *)
(* the last start and pass its filter, bodies only of requests in it, and  *)
(* nothing between captures.                                               *)
THEOREM CaptureCollectsWhatWasAsked == Spec => []CollectsWhatWasAsked
<1>1. IInv => CollectsWhatWasAsked
  BY DEF IInv, INetwork
<1> QED BY <1>1, AlwaysIInv, PTL

(* A capture that runs, and that no stop is about to end, is fed by a tab. *)
THEOREM CaptureStaysFed == Spec => []CaptureIsFed
<1>1. IInv => CaptureIsFed
  BY DEF IInv, INetwork
<1> QED BY <1>1, AlwaysIInv, PTL

(* The stops of clients that wait for their answers, one tool each, leave  *)
(* no handler, no enabled domain and no recording behind.                  *)
THEOREM CaptureStopsCleanUp == Spec => []OrderlyStopsCleanUp
<1>1. ASSUME IInv PROVE OrderlyCaptureEnds
  BY <1>1 DEF IInv, INetwork, NetworkOrderly, OrderlyCaptureEnds
<1>2. ASSUME IInv PROVE OrderlyConsoleStops
  BY <1>2 DEF IInv, IConsole, ConsoleOrderly, OrderlyConsoleStops
<1>3. ASSUME IInv PROVE OrderlyTraceEnds
  <2> SUFFICES ASSUME orderly["trace"], AtRest("trace")
               PROVE  /\ is_tracing <=> (recording # NoSession)
                      /\ ~is_tracing => \A s \in Sessions : traceHandler[s] = {}
    BY DEF OrderlyTraceEnds
  <2>1. Resting
    BY <1>3 DEF IInv, ITrace, TraceOrderly
  <2>2. is_tracing => recording \in Sessions
    BY <1>3, <2>1 DEF Resting, UsedBy, IInv, IShared, OneAtATime, Capturing
  <2> QED BY <2>1, <2>2 DEF Resting
<1>4. IInv => OrderlyStopsCleanUp
  BY <1>1, <1>2, <1>3 DEF OrderlyStopsCleanUp
<1> QED BY <1>4, AlwaysIInv, PTL

(* A stopTrace of such a client has something that will answer it.         *)
THEOREM CaptureStopIsAwaited == Spec => []OrderlyStopIsAwaited
<1>1. IInv => OrderlyStopIsAwaited
  <2> SUFFICES ASSUME IInv, orderly["trace"], NEW c \in Calls,
                      tool[c] = "trace", status[c] = "running"
               PROVE  \/ Outstanding("Tracing.start") # {}
                      \/ /\ c = stop_trace_callback
                         /\ \/ Outstanding("Tracing.end") # {}
                            \/ \E s \in completing : "tracingComplete" \in traceHandler[s]
    BY DEF OrderlyStopIsAwaited
  <2>1. tab[c] \in Sessions /\ (Starting(c) \/ Stopping(c))
    BY DEF IInv, IShared, OneAtATime, Capturing, ITrace, TraceOrderly
  <2>2. Starting(c) => tab[c] \in Outstanding("Tracing.start")
    BY <2>1 DEF Starting, Outstanding, Command
  <2>3. CASE Stopping(c)
    <3>1. Command("Tracing.end", c) \in sent[tab[c]] =>
            tab[c] \in Outstanding("Tracing.end")
      BY <2>1 DEF Outstanding, Command
    <3> QED BY <2>3, <3>1 DEF Stopping
  <2> QED BY <2>1, <2>2, <2>3
<1> QED BY <1>1, AlwaysIInv, PTL
=============================================================================

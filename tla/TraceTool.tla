----------------------------- MODULE TraceTool -----------------------------
(***************************************************************************)
(* The traces of the tool performance (src/src/tools/performance_tool.cc). *)
(* stopTrace is answered by the event tracingComplete, through a callback  *)
(* that is a member of the tool.  The agent, which is external, records    *)
(* for one tab at a time and refuses to start a second recording, or to    *)
(* end one on a tab that has none.                                         *)
(***************************************************************************)
EXTENDS ToolCalls

CONSTANT NoCall

ASSUME TraceAssumption == NoCall \notin Calls

VARIABLES
  is_tracing,
  tracing_session,
  stop_trace_callback,  \* the call it belongs to
  trace_chunks,         \* tabs that data in the buffer come from
  traceHandler,         \* per session: the events the tool is registered for
  recording,            \* external: the tab whose trace is recorded
  completing            \* external: tabs whose tracingComplete is to come

traceVars == <<is_tracing, tracing_session, stop_trace_callback, trace_chunks,
               traceHandler, recording, completing>>

TraceEvents == {"dataCollected", "tracingComplete"}

TraceTypeOK ==
  /\ is_tracing \in BOOLEAN
  /\ tracing_session \in Sessions \cup {NoSession}
  /\ stop_trace_callback \in Calls \cup {NoCall}
  /\ trace_chunks \subseteq Sessions
  /\ traceHandler \in [Sessions -> SUBSET TraceEvents]
  /\ recording \in Sessions \cup {NoSession}
  /\ completing \subseteq Sessions

TraceInit ==
  /\ is_tracing = FALSE
  /\ tracing_session = NoSession
  /\ stop_trace_callback = NoCall
  /\ trace_chunks = {}
  /\ traceHandler = [s \in Sessions |-> {}]
  /\ recording = NoSession
  /\ completing = {}

(* The handlers on tracing_session, if there is one.                       *)
WithoutHandlers(events) ==
  [s \in Sessions |-> IF s = tracing_session THEN traceHandler[s] \ events
                                             ELSE traceHandler[s]]

(* Bug variant: the callback is forgotten before it is run.                *)
AnswerStop_Forgotten(ok) ==
  /\ stop_trace_callback' = NoCall
  /\ UNCHANGED status

(* stop_trace_callback_ is run, if there is one.                           *)
AnswerStop(ok) ==
  /\ status' = [c \in Calls |->
       IF c = stop_trace_callback THEN IF ok THEN "ok" ELSE "error"
                                  ELSE status[c]]
  /\ stop_trace_callback' = NoCall

-----------------------------------------------------------------------------
ExecuteStartTraceRefused(c, s) ==
  /\ is_tracing
  /\ Call(c, "trace", s, "error")
  /\ UNCHANGED <<sent, traceVars>>

ExecuteStartTrace(c, s) ==
  /\ ~is_tracing
  /\ Call(c, "trace", s, "running")
  /\ trace_chunks' = {}
  /\ tracing_session' = s
  /\ traceHandler' = [traceHandler EXCEPT ![s] = @ \cup {"dataCollected"}]
  /\ Send(s, "Tracing.start", c)
  /\ UNCHANGED <<is_tracing, stop_trace_callback, recording, completing>>

OnTraceStarted(s, c, ok) ==
  /\ Answered(s, "Tracing.start", c, ok)
  /\ ok => recording = NoSession
  /\ Finish(c, ok)
  /\ IF ok
       THEN /\ is_tracing' = TRUE
            /\ recording' = s
            /\ UNCHANGED <<tracing_session, traceHandler>>
       ELSE /\ traceHandler' = WithoutHandlers({"dataCollected"})
            /\ tracing_session' = NoSession
            /\ UNCHANGED <<is_tracing, recording>>
  /\ UNCHANGED <<stop_trace_callback, trace_chunks, completing>>

ExecuteStopTraceRefused(c, s) ==
  /\ ~is_tracing
  /\ Call(c, "trace", s, "error")
  /\ UNCHANGED <<sent, traceVars>>

(* The callback and the session of an earlier stop are replaced.           *)
ExecuteStopTrace(c, s) ==
  /\ is_tracing
  /\ Call(c, "trace", s, "running")
  /\ stop_trace_callback' = c
  /\ tracing_session' = s
  /\ traceHandler' = [traceHandler EXCEPT ![s] = @ \cup {"tracingComplete"}]
  /\ Send(s, "Tracing.end", c)
  /\ UNCHANGED <<is_tracing, trace_chunks, recording, completing>>

(* The answer to Tracing.end matters only if it is an error.               *)
OnTraceEnded(s, c, ok) ==
  /\ Answered(s, "Tracing.end", c, ok)
  /\ ok <=> attached[s] /\ recording = s
  /\ IF ok
       THEN /\ recording' = NoSession
            /\ completing' = completing \cup {s}
            /\ UNCHANGED <<status, is_tracing, tracing_session,
                           stop_trace_callback, trace_chunks, traceHandler>>
       ELSE /\ traceHandler' = WithoutHandlers(TraceEvents)
            /\ tracing_session' = NoSession
            /\ is_tracing' = FALSE
            /\ trace_chunks' = {}
            /\ AnswerStop(FALSE)
            /\ UNCHANGED <<recording, completing>>

OnTraceDataCollected(s) ==
  /\ EventOf(s)
  /\ s = recording \/ s \in completing
  /\ "dataCollected" \in traceHandler[s]
  /\ trace_chunks' = trace_chunks \cup {s}
  /\ UNCHANGED <<callVars, is_tracing, tracing_session, stop_trace_callback,
                 traceHandler, recording, completing>>

OnTracingComplete(s) ==
  /\ EventOf(s)
  /\ s \in completing
  /\ completing' = completing \ {s}
  /\ IF "tracingComplete" \in traceHandler[s]
       THEN /\ traceHandler' = WithoutHandlers(TraceEvents)
            /\ tracing_session' = NoSession
            /\ is_tracing' = FALSE
            /\ trace_chunks' = {}
            /\ AnswerStop(TRUE)
       ELSE UNCHANGED <<traceHandler, tracing_session, is_tracing, trace_chunks,
                        status, stop_trace_callback>>
  /\ UNCHANGED <<attached, sent, tool, tab, orderly, recording>>

(* The recording of a closed tab ends without a word.                      *)
RecorderGone(s) ==
  /\ recording' = IF recording = s THEN NoSession ELSE recording
  /\ completing' = completing \ {s}
  /\ UNCHANGED <<is_tracing, tracing_session, stop_trace_callback,
                 trace_chunks, traceHandler>>

TraceNext ==
  \E s \in Sessions :
    \/ \E c \in Calls :
         \/ ExecuteStartTraceRefused(c, s)
         \/ ExecuteStartTrace(c, s)
         \/ ExecuteStopTraceRefused(c, s)
         \/ ExecuteStopTrace(c, s)
         \/ \E ok \in BOOLEAN :
              \/ OnTraceStarted(s, c, ok)
              \/ OnTraceEnded(s, c, ok)
    \/ OnTraceDataCollected(s)
    \/ OnTracingComplete(s)

-----------------------------------------------------------------------------
(* One client that waits for its answers: between its calls the tool's     *)
(* flag says whether the agent records, so that a recording can be stopped *)
(* and a new one be started, and nothing is left behind by a stop.         *)
OrderlyTraceEnds ==
  (orderly["trace"] /\ AtRest("trace")) =>
    /\ is_tracing <=> (recording # NoSession)
    /\ ~is_tracing => \A s \in Sessions : traceHandler[s] = {}

(* ... and a stop is answered: the callback is there, and so is what will  *)
(* run it, the answer to the command or the event with its handler.        *)
OrderlyStopIsAwaited ==
  orderly["trace"] =>
    \A c \in Calls : (tool[c] = "trace" /\ status[c] = "running") =>
      \/ Outstanding("Tracing.start") # {}
      \/ /\ c = stop_trace_callback
         /\ \/ Outstanding("Tracing.end") # {}
            \/ \E s \in completing : "tracingComplete" \in traceHandler[s]
=============================================================================

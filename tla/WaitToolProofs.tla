--------------------------- MODULE WaitToolProofs ---------------------------
(***************************************************************************)
(* Proofs about WaitTool for any number of calls and sessions.  A call     *)
(* that completes is found in no timer and no handler because a closure    *)
(* only ever sits where its kind of wait puts it (TimersFit, HandlersFit): *)
(* the few timers and handlers a completion clears, whoever they belong to,*)
(* are all that could still hold it.  The idle timer of a networkIdle wait *)
(* is quiet because the three handlers of a session change together        *)
(* (OneClosure) and the count is at least the number of requests heard to  *)
(* begin and not to end (SeenIsCounted), until a stray end lowers it.      *)
(***************************************************************************)
EXTENDS WaitTool, FiniteSetTheorems, TLAPS

Counted == \A w \in Waits : results[w] = IF completed[w] THEN 1 ELSE 0

NewIsUntouched ==
  \A w \in Waits : kind[w] = "new" => pending[w] = 0 /\ ~completed[w]

EvaluatesConditions == \A w \in Waits : evaluating[w] > 0 => kind[w] = "condition"

TimersFit ==
  \A w \in Waits :
    /\ timer["time"] = w => kind[w] = "time"
    /\ timer["poll"] = w => kind[w] = "condition"
    /\ timer["timeout"] = w => kind[w] \in {"condition", "navigation", "networkIdle"}
    /\ timer["idle"] = w => kind[w] = "networkIdle"

HandlersFit ==
  \A w \in Waits, s \in Sessions :
    /\ handler[s]["loadEventFired"] = w => kind[w] = "navigation" /\ on[w] = s
    /\ \A e \in NetworkEvents : handler[s][e] = w => kind[w] = "networkIdle" /\ on[w] = s

HeldByWaiting ==
  \A w \in Waits : completed[w] =>
    /\ \A t \in Timers : timer[t] # w
    /\ \A s \in Sessions, e \in Events : handler[s][e] # w

OneClosure ==
  \A s \in Sessions, e, f \in NetworkEvents : handler[s][e] = handler[s][f]

IdleIsServed ==
  \A w \in Waits : timer["idle"] = w =>
    pending[w] = 0 /\ \A e \in NetworkEvents : handler[on[w]][e] = w

SeenIsCounted ==
  \A w \in Waits : ~strayed[w] =>
    IsFiniteSet(seen[w]) /\ Cardinality(seen[w]) <= pending[w]

IInv == /\ TypeOK
        /\ Counted
        /\ NewIsUntouched
        /\ EvaluatesConditions
        /\ TimersFit
        /\ HandlersFit
        /\ HeldByWaiting
        /\ OneClosure
        /\ IdleIsServed
        /\ SeenIsCounted

USE WaitAssumption

-----------------------------------------------------------------------------
(* What starting and stopping timers, registering and unregistering return.*)

LEMMA StartedFacts ==
  ASSUME TypeOK, NEW timers, NEW w \in Waits \cup {NoWait}
  PROVE  /\ Started(timers, w) \in [Timers -> Waits \cup {NoWait}]
         /\ \A t \in Timers : Started(timers, w)[t] = IF t \in timers THEN w ELSE timer[t]
BY DEF TypeOK, Started

LEMMA StoppedFacts ==
  ASSUME TypeOK, NEW timers
  PROVE  /\ Stopped(timers) \in [Timers -> Waits \cup {NoWait}]
         /\ \A t \in Timers : Stopped(timers)[t] = IF t \in timers THEN NoWait ELSE timer[t]
BY StartedFacts DEF Stopped

LEMMA RegisteredFacts ==
  ASSUME TypeOK, NEW s \in Sessions, NEW events, NEW w \in Waits \cup {NoWait}
  PROVE  /\ Registered(s, events, w) \in [Sessions -> [Events -> Waits \cup {NoWait}]]
         /\ \A r \in Sessions, e \in Events : Registered(s, events, w)[r][e] =
              IF r = s /\ e \in events THEN w ELSE handler[r][e]
<1> DEFINE new == [e \in Events |-> IF e \in events THEN w ELSE handler[s][e]]
<1>1. /\ handler \in [Sessions -> [Events -> Waits \cup {NoWait}]]
      /\ Registered(s, events, w) = [handler EXCEPT ![s] = new]
  BY DEF TypeOK, Registered
<1>2. /\ new \in [Events -> Waits \cup {NoWait}]
      /\ \A e \in Events : new[e] = IF e \in events THEN w ELSE handler[s][e]
  BY <1>1
<1> HIDE DEF new
<1> QED BY <1>1, <1>2

LEMMA UnregisteredFacts ==
  ASSUME TypeOK, NEW s \in Sessions, NEW events
  PROVE  /\ Unregistered(s, events) \in [Sessions -> [Events -> Waits \cup {NoWait}]]
         /\ \A r \in Sessions, e \in Events : Unregistered(s, events)[r][e] =
              IF r = s /\ e \in events THEN NoWait ELSE handler[r][e]
BY RegisteredFacts DEF Unregistered

LEMMA TimerNames ==
  /\ Timers = {"time", "poll", "timeout", "idle"}
  /\ NetworkEvents \subseteq Events /\ "loadEventFired" \in Events
  /\ "loadEventFired" \notin NetworkEvents
  /\ \A e \in Events : e \in NetworkEvents \/ e = "loadEventFired"
BY DEF Timers, Events, NetworkEvents

-----------------------------------------------------------------------------
(* A call is completed, and every timer and handler that held its closure  *)
(* is stopped or unregistered by the same task.                            *)
LEMMA Completes ==
  ASSUME IInv, NEW w \in Waits, ~completed[w], kind[w] # "new", Complete(w),
         timer' \in [Timers -> Waits \cup {NoWait}],
         \A t \in Timers : timer'[t] \in {NoWait, timer[t]} \ {w},
         handler' \in [Sessions -> [Events -> Waits \cup {NoWait}]],
         \A s \in Sessions, e \in Events :
           handler'[s][e] \in {NoWait, handler[s][e]} \ {w},
         evaluating' \in [Waits -> 0 .. MaxEvaluations],
         \A v \in Waits : evaluating'[v] <= evaluating[v],
         \A s \in Sessions :
           \/ \A e \in NetworkEvents : handler'[s][e] = handler[s][e]
           \/ timer'["idle"] = NoWait /\ \A e \in NetworkEvents : handler'[s][e] = NoWait,
         UNCHANGED <<kind, on, pending, attached, alone, seen, strayed>>
  PROVE  IInv'
<1>1. /\ completed' \in [Waits -> BOOLEAN] /\ results' \in [Waits -> Nat]
      /\ \A v \in Waits : /\ v # w => completed'[v] = completed[v] /\ results'[v] = results[v]
                          /\ v = w => completed'[v] /\ results'[v] = 1
  <2>1. /\ completed \in [Waits -> BOOLEAN] /\ results \in [Waits -> Nat]
        /\ results[w] = 0
    BY DEF IInv, TypeOK, Counted
  <2>2. /\ completed' = [completed EXCEPT ![w] = TRUE]
        /\ results' = [results EXCEPT ![w] = 1]
    BY <2>1 DEF Complete
  <2>3. completed' \in [Waits -> BOOLEAN] /\ results' \in [Waits -> Nat]
    BY <2>1, <2>2
  <2>4. \A v \in Waits : /\ completed'[v] = IF v = w THEN TRUE ELSE completed[v]
                         /\ results'[v] = IF v = w THEN 1 ELSE results[v]
    BY <2>1, <2>2
  <2> QED BY <2>3, <2>4
<1>2. TypeOK'
  BY <1>1 DEF IInv, TypeOK
<1>3. Counted' /\ NewIsUntouched'
  BY <1>1 DEF IInv, Counted, NewIsUntouched
<1>4. EvaluatesConditions'
  BY DEF IInv, TypeOK, EvaluatesConditions
<1>5. TimersFit' /\ SeenIsCounted'
  BY DEF IInv, TimersFit, SeenIsCounted, Timers
<1>6. HandlersFit'
  <2>1. \A v \in Waits, s \in Sessions, e \in Events : handler'[s][e] = v => handler[s][e] = v
    OBVIOUS
  <2> QED BY <2>1, TimerNames DEF IInv, HandlersFit
<1>7. HeldByWaiting'
  <2> SUFFICES ASSUME NEW v \in Waits, completed'[v]
               PROVE  /\ \A t \in Timers : timer'[t] # v
                      /\ \A s \in Sessions, e \in Events : handler'[s][e] # v
    BY DEF HeldByWaiting
  <2>1. CASE v = w
    BY <2>1
  <2>2. CASE v # w
    <3>1. v # NoWait /\ completed[v]
      BY <1>1, <2>2
    <3>2. /\ \A t \in Timers : timer[t] # v
          /\ \A s \in Sessions, e \in Events : handler[s][e] # v
      BY <3>1 DEF IInv, HeldByWaiting
    <3> QED BY <3>1, <3>2
  <2> QED BY <2>1, <2>2
<1>8. OneClosure'
  BY DEF IInv, OneClosure
<1>9. IdleIsServed'
  <2> SUFFICES ASSUME NEW v \in Waits, timer'["idle"] = v
               PROVE  pending[v] = 0 /\ \A e \in NetworkEvents : handler'[on[v]][e] = v
    BY DEF IdleIsServed
  <2>1. timer["idle"] = v /\ v # NoWait /\ on[v] \in Sessions
    BY TimerNames DEF IInv, TypeOK
  <2>2. pending[v] = 0 /\ \A e \in NetworkEvents : handler[on[v]][e] = v
    BY <2>1 DEF IInv, IdleIsServed
  <2> QED BY <2>1, <2>2
<1> QED BY <1>2, <1>3, <1>4, <1>5, <1>6, <1>7, <1>8, <1>9 DEF IInv

(* A call starts, puts itself in some timers and handlers and replaces     *)
(* whatever closures were there.                                           *)
LEMMA Starts ==
  ASSUME IInv, NEW w \in Waits, NEW k \in Kinds \ {"new"}, Execute(w, k),
         timer' \in [Timers -> Waits \cup {NoWait}],
         \A t \in Timers : timer'[t] \in {w, timer[t]},
         handler' \in [Sessions -> [Events -> Waits \cup {NoWait}]],
         \A s \in Sessions, e \in Events : handler'[s][e] \in {w, handler[s][e]},
         timer'["time"] = w => k = "time",
         timer'["poll"] = w => k = "condition",
         timer'["timeout"] = w => k \in {"condition", "navigation", "networkIdle"},
         timer'["idle"] = w => k = "networkIdle",
         \A s \in Sessions :
           /\ handler'[s]["loadEventFired"] = w => k = "navigation" /\ on[w] = s
           /\ \A e \in NetworkEvents : handler'[s][e] = w => k = "networkIdle" /\ on[w] = s,
         \/ \A s \in Sessions, e \in NetworkEvents : handler'[s][e] = handler[s][e]
         \/ /\ timer'["idle"] = w
            /\ \A s \in Sessions, e \in NetworkEvents :
                 handler'[s][e] = IF s = on[w] THEN w ELSE handler[s][e],
         timer'["idle"] = w => \A e \in NetworkEvents : handler'[on[w]][e] = w
  PROVE  IInv'
<1>1. /\ kind[w] = "new" /\ pending[w] = 0 /\ ~completed[w]
      /\ UNCHANGED <<on, completed, pending, evaluating, attached, results, seen, strayed>>
  BY DEF Execute, IInv, NewIsUntouched, heard
<1>2. /\ kind' \in [Waits -> Kinds]
      /\ \A v \in Waits : kind'[v] = IF v = w THEN k ELSE kind[v]
      /\ alone' \in [Waits -> BOOLEAN]
  <2>1. kind' = [kind EXCEPT ![w] = k]
    BY DEF Execute
  <2>2. kind' \in [Waits -> Kinds] /\ \A v \in Waits : kind'[v] = IF v = w THEN k ELSE kind[v]
    BY <2>1 DEF IInv, TypeOK
  <2>3. alone' \in [Waits -> BOOLEAN]
    BY DEF Execute, IInv, TypeOK
  <2> QED BY <2>2, <2>3
<1>3. TypeOK'
  BY <1>1, <1>2 DEF IInv, TypeOK
<1>4. Counted' /\ NewIsUntouched'
  BY <1>1, <1>2 DEF IInv, Counted, NewIsUntouched
<1>5. EvaluatesConditions'
  BY <1>1, <1>2 DEF IInv, EvaluatesConditions
<1>6. TimersFit'
  BY <1>2 DEF IInv, TimersFit, Timers
<1>7. HandlersFit'
  BY <1>1, <1>2, TimerNames DEF IInv, HandlersFit
<1>8. HeldByWaiting'
  BY <1>1 DEF IInv, HeldByWaiting
<1>9. OneClosure' /\ SeenIsCounted'
  BY <1>1 DEF IInv, OneClosure, SeenIsCounted
<1>10. IdleIsServed'
  <2> SUFFICES ASSUME NEW v \in Waits, timer'["idle"] = v
               PROVE  pending[v] = 0 /\ \A e \in NetworkEvents : handler'[on[v]][e] = v
    BY <1>1 DEF IdleIsServed
  <2>1. CASE v = w
    BY <1>1, <2>1
  <2>2. CASE v # w
    <3>1. timer["idle"] = v /\ on[v] \in Sessions
      BY <2>2, TimerNames DEF IInv, TypeOK
    <3>2. pending[v] = 0 /\ \A e \in NetworkEvents : handler[on[v]][e] = v
      BY <3>1 DEF IInv, IdleIsServed
    <3> QED BY <2>2, <3>1, <3>2
  <2> QED BY <2>1, <2>2
<1> QED BY <1>3, <1>4, <1>5, <1>6, <1>7, <1>8, <1>9, <1>10 DEF IInv

-----------------------------------------------------------------------------
(* Every step keeps IInv.                                                  *)

LEMMA InitIInv == Init => IInv
<1> SUFFICES ASSUME Init PROVE IInv
  OBVIOUS
<1>1. TypeOK
  BY DEF Init, TypeOK, Kinds
<1>2. Counted /\ NewIsUntouched /\ EvaluatesConditions
  BY DEF Init, Counted, NewIsUntouched, EvaluatesConditions
<1>3. TimersFit /\ HandlersFit /\ HeldByWaiting /\ OneClosure /\ IdleIsServed
  BY TimerNames DEF Init, TimersFit, HandlersFit, HeldByWaiting, OneClosure, IdleIsServed
<1>4. SeenIsCounted
  BY FS_EmptySet DEF Init, SeenIsCounted
<1> QED BY <1>1, <1>2, <1>3, <1>4 DEF IInv

LEMMA WaitForIInv ==
  ASSUME IInv, NEW w \in Waits,
         \/ WaitForTime(w) \/ WaitForCondition(w) \/ WaitForNavigation(w)
         \/ WaitForNetworkIdle(w)
  PROVE  IInv'
<1>0. /\ TypeOK
      /\ timer \in [Timers -> Waits \cup {NoWait}]
      /\ handler \in [Sessions -> [Events -> Waits \cup {NoWait}]]
      /\ on[w] \in Sessions
  BY DEF IInv, TypeOK
<1>1. kind[w] = "new" /\ {"time", "condition", "navigation", "networkIdle"} \subseteq Kinds \ {"new"}
  BY DEF WaitForTime, WaitForCondition, WaitForNavigation, WaitForNetworkIdle, Execute, Kinds
<1>2. /\ \A t \in Timers : timer[t] # w
      /\ \A s \in Sessions, e \in Events : handler[s][e] # w
  BY <1>1, TimerNames DEF IInv, TimersFit, HandlersFit
<1>3. CASE WaitForTime(w)
  <2>1. Execute(w, "time") /\ timer' = Started({"time"}, w) /\ UNCHANGED handler
    BY <1>3 DEF WaitForTime
  <2>2. /\ timer' \in [Timers -> Waits \cup {NoWait}]
        /\ \A t \in Timers : timer'[t] = IF t \in {"time"} THEN w ELSE timer[t]
    BY <1>0, <2>1, StartedFacts
  <2> QED BY <1>0, <1>1, <1>2, <2>1, <2>2, TimerNames, Starts
<1>4. CASE WaitForCondition(w)
  <2>1. Execute(w, "condition") /\ timer' = Started({"timeout", "poll"}, w) /\ UNCHANGED handler
    BY <1>4 DEF WaitForCondition
  <2>2. /\ timer' \in [Timers -> Waits \cup {NoWait}]
        /\ \A t \in Timers : timer'[t] = IF t \in {"timeout", "poll"} THEN w ELSE timer[t]
    BY <1>0, <2>1, StartedFacts
  <2> QED BY <1>0, <1>1, <1>2, <2>1, <2>2, TimerNames, Starts
<1>5. CASE WaitForNavigation(w)
  <2>1. /\ Execute(w, "navigation") /\ timer' = Started({"timeout"}, w)
        /\ handler' = Registered(on[w], {"loadEventFired"}, w)
    BY <1>5 DEF WaitForNavigation
  <2>2. /\ timer' \in [Timers -> Waits \cup {NoWait}]
        /\ \A t \in Timers : timer'[t] = IF t \in {"timeout"} THEN w ELSE timer[t]
    BY <1>0, <2>1, StartedFacts
  <2>3. /\ handler' \in [Sessions -> [Events -> Waits \cup {NoWait}]]
        /\ \A s \in Sessions, e \in Events : handler'[s][e] =
             IF s = on[w] /\ e \in {"loadEventFired"} THEN w ELSE handler[s][e]
    BY <1>0, <2>1, RegisteredFacts
  <2> QED BY <1>0, <1>1, <1>2, <2>1, <2>2, <2>3, TimerNames, Starts
<1>6. CASE WaitForNetworkIdle(w)
  <2>1. /\ Execute(w, "networkIdle") /\ timer' = Started({"timeout", "idle"}, w)
        /\ handler' = Registered(on[w], NetworkEvents, w)
    BY <1>6 DEF WaitForNetworkIdle
  <2>2. /\ timer' \in [Timers -> Waits \cup {NoWait}]
        /\ \A t \in Timers : timer'[t] = IF t \in {"timeout", "idle"} THEN w ELSE timer[t]
    BY <1>0, <2>1, StartedFacts
  <2>3. /\ handler' \in [Sessions -> [Events -> Waits \cup {NoWait}]]
        /\ \A s \in Sessions, e \in Events : handler'[s][e] =
             IF s = on[w] /\ e \in NetworkEvents THEN w ELSE handler[s][e]
    BY <1>0, <2>1, RegisteredFacts
  <2> QED BY <1>0, <1>1, <1>2, <2>1, <2>2, <2>3, TimerNames, Starts
<1> QED BY <1>3, <1>4, <1>5, <1>6

LEMMA TimeOverIInv == IInv /\ TimeOver => IInv'
<1> SUFFICES ASSUME IInv, TimeOver PROVE IInv'
  OBVIOUS
<1> DEFINE w == timer["time"]
<1>0. TypeOK /\ evaluating \in [Waits -> 0 .. MaxEvaluations]
      /\ handler \in [Sessions -> [Events -> Waits \cup {NoWait}]]
  BY DEF IInv, TypeOK
<1>1. /\ w \in Waits /\ kind[w] = "time" /\ ~completed[w]
      /\ timer' = Stopped({"time"})
      /\ Complete(w)
      /\ UNCHANGED <<kind, on, pending, evaluating, handler, attached, alone, seen, strayed>>
  BY TimerNames DEF heard, TimeOver, IInv, TypeOK, TimersFit, HeldByWaiting
<1>2. /\ timer' \in [Timers -> Waits \cup {NoWait}]
      /\ \A t \in Timers : timer'[t] = IF t \in {"time"} THEN NoWait ELSE timer[t]
  BY <1>0, <1>1, StoppedFacts
<1> HIDE DEF w
<1>3. \A t \in Timers : timer'[t] \in {NoWait, timer[t]} \ {w}
  BY <1>1, <1>2, TimerNames DEF IInv, TimersFit
<1>4. \A s \in Sessions, e \in Events : handler'[s][e] \in {NoWait, handler[s][e]} \ {w}
  BY <1>1, TimerNames DEF IInv, HandlersFit
<1> QED BY <1>0, <1>1, <1>2, <1>3, <1>4, Completes

LEMMA OnPollTimerIInv == IInv /\ OnPollTimer => IInv'
<1> SUFFICES ASSUME IInv, OnPollTimer PROVE IInv'
  OBVIOUS
<1> DEFINE w == timer["poll"]
<1>1. /\ w \in Waits /\ kind[w] = "condition"
      /\ evaluating[w] < MaxEvaluations
      /\ evaluating' = [evaluating EXCEPT ![w] = @ + 1]
      /\ UNCHANGED <<kind, on, completed, pending, timer, handler, attached,
                     results, alone, seen, strayed>>
  BY TimerNames DEF heard, OnPollTimer, IInv, TypeOK, TimersFit
<1> HIDE DEF w
<1>2. evaluating' \in [Waits -> 0 .. MaxEvaluations]
  BY <1>1 DEF IInv, TypeOK
<1>3. TypeOK'
  BY <1>1, <1>2 DEF IInv, TypeOK
<1>4. EvaluatesConditions'
  BY <1>1 DEF IInv, TypeOK, EvaluatesConditions
<1>5. /\ Counted' /\ NewIsUntouched' /\ TimersFit' /\ HandlersFit' /\ HeldByWaiting'
      /\ OneClosure' /\ IdleIsServed' /\ SeenIsCounted'
  BY <1>1 DEF IInv, Counted, NewIsUntouched, TimersFit, HandlersFit, HeldByWaiting,
     OneClosure, IdleIsServed, SeenIsCounted
<1> QED BY <1>3, <1>4, <1>5 DEF IInv

LEMMA OnEvaluateResponseIInv ==
  ASSUME IInv, NEW w \in Waits, NEW met \in BOOLEAN, OnEvaluateResponse(w, met)
  PROVE  IInv'
<1>0. /\ TypeOK /\ evaluating \in [Waits -> 0 .. MaxEvaluations]
      /\ handler \in [Sessions -> [Events -> Waits \cup {NoWait}]]
  BY DEF IInv, TypeOK
<1>1. /\ evaluating[w] > 0
      /\ kind[w] = "condition"
      /\ evaluating' = [evaluating EXCEPT ![w] = @ - 1]
      /\ UNCHANGED <<kind, on, pending, handler, attached, alone, seen, strayed>>
  BY DEF heard, OnEvaluateResponse, IInv, EvaluatesConditions
<1>2. /\ evaluating' \in [Waits -> 0 .. MaxEvaluations]
      /\ \A v \in Waits : evaluating'[v] <= evaluating[v]
  BY <1>0, <1>1
<1>3. CASE met /\ ~completed[w]
  <2>1. Complete(w) /\ timer' = Stopped({"poll", "timeout"})
    BY <1>3 DEF OnEvaluateResponse
  <2>2. /\ timer' \in [Timers -> Waits \cup {NoWait}]
        /\ \A t \in Timers : timer'[t] = IF t \in {"poll", "timeout"} THEN NoWait ELSE timer[t]
    BY <1>0, <2>1, StoppedFacts
  <2>3. \A t \in Timers : timer'[t] \in {NoWait, timer[t]} \ {w}
    BY <1>1, <2>2, TimerNames DEF IInv, TimersFit
  <2>4. \A s \in Sessions, e \in Events : handler'[s][e] \in {NoWait, handler[s][e]} \ {w}
    BY <1>1, TimerNames DEF IInv, HandlersFit
  <2> QED BY <1>0, <1>1, <1>2, <1>3, <2>1, <2>2, <2>3, <2>4, Completes
<1>4. CASE ~(met /\ ~completed[w])
  <2>1. UNCHANGED <<completed, results, timer>>
    BY <1>4 DEF OnEvaluateResponse
  <2>2. TypeOK'
    BY <1>1, <1>2, <2>1 DEF IInv, TypeOK
  <2>3. EvaluatesConditions'
    BY <1>0, <1>1, <1>2 DEF IInv, EvaluatesConditions
  <2>4. /\ Counted' /\ NewIsUntouched' /\ TimersFit' /\ HandlersFit' /\ HeldByWaiting'
        /\ OneClosure' /\ IdleIsServed' /\ SeenIsCounted'
    BY <1>1, <2>1 DEF IInv, Counted, NewIsUntouched, TimersFit, HandlersFit,
       HeldByWaiting, OneClosure, IdleIsServed, SeenIsCounted
  <2> QED BY <2>2, <2>3, <2>4 DEF IInv
<1> QED BY <1>3, <1>4

LEMMA OnTimeoutIInv == IInv /\ OnTimeout => IInv'
<1> SUFFICES ASSUME IInv, OnTimeout PROVE IInv'
  OBVIOUS
<1> DEFINE w == timer["timeout"]
<1>0. /\ TypeOK /\ evaluating \in [Waits -> 0 .. MaxEvaluations]
      /\ handler \in [Sessions -> [Events -> Waits \cup {NoWait}]]
      /\ on \in [Waits -> Sessions]
  BY DEF IInv, TypeOK
<1>1. /\ w \in Waits /\ ~completed[w]
      /\ kind[w] \in {"condition", "navigation", "networkIdle"}
  BY TimerNames DEF OnTimeout, IInv, TypeOK, TimersFit, HeldByWaiting
<1>2. /\ Complete(w)
      /\ UNCHANGED <<kind, on, pending, evaluating, attached, alone, seen, strayed>>
  BY <1>1 DEF OnTimeout, heard
<1>3. on[w] \in Sessions /\ \A v \in Waits : evaluating'[v] <= evaluating[v]
  BY <1>0, <1>1, <1>2
<1>4. CASE kind[w] = "condition"
  <2>1. timer' = Stopped({"timeout", "poll"}) /\ UNCHANGED handler
    BY <1>1, <1>4 DEF OnTimeout
  <2>2. /\ timer' \in [Timers -> Waits \cup {NoWait}]
        /\ \A t \in Timers : timer'[t] = IF t \in {"timeout", "poll"} THEN NoWait ELSE timer[t]
    BY <1>0, <2>1, StoppedFacts
  <2> HIDE DEF w
  <2>3. \A t \in Timers : timer'[t] \in {NoWait, timer[t]} \ {w}
    BY <1>1, <1>4, <2>2, TimerNames DEF IInv, TimersFit
  <2>4. \A s \in Sessions, e \in Events : handler'[s][e] \in {NoWait, handler[s][e]} \ {w}
    BY <1>1, <1>4, <2>1, TimerNames DEF IInv, HandlersFit
  <2> QED BY <1>0, <1>1, <1>2, <1>3, <2>1, <2>2, <2>3, <2>4, Completes
<1>5. CASE kind[w] = "navigation"
  <2>1. timer' = Stopped({"timeout"}) /\ handler' = Unregistered(on[w], {"loadEventFired"})
    BY <1>1, <1>5 DEF OnTimeout
  <2>2. /\ timer' \in [Timers -> Waits \cup {NoWait}]
        /\ \A t \in Timers : timer'[t] = IF t \in {"timeout"} THEN NoWait ELSE timer[t]
    BY <1>0, <2>1, StoppedFacts
  <2>3. /\ handler' \in [Sessions -> [Events -> Waits \cup {NoWait}]]
        /\ \A s \in Sessions, e \in Events : handler'[s][e] =
             IF s = on[w] /\ e \in {"loadEventFired"} THEN NoWait ELSE handler[s][e]
    BY <1>0, <1>3, <2>1, UnregisteredFacts
  <2> HIDE DEF w
  <2>4. \A t \in Timers : timer'[t] \in {NoWait, timer[t]} \ {w}
    BY <1>1, <1>5, <2>2, TimerNames DEF IInv, TimersFit
  <2>5. \A s \in Sessions, e \in Events : handler'[s][e] \in {NoWait, handler[s][e]} \ {w}
    BY <1>1, <1>5, <2>3, TimerNames DEF IInv, HandlersFit
  <2>6. \A s \in Sessions, e \in NetworkEvents : handler'[s][e] = handler[s][e]
    BY <2>3, TimerNames
  <2> QED BY <1>0, <1>1, <1>2, <1>3, <2>2, <2>3, <2>4, <2>5, <2>6, Completes
<1>6. CASE kind[w] = "networkIdle"
  <2>1. timer' = Stopped({"timeout", "idle"}) /\ handler' = Unregistered(on[w], NetworkEvents)
    BY <1>1, <1>6 DEF OnTimeout
  <2>2. /\ timer' \in [Timers -> Waits \cup {NoWait}]
        /\ \A t \in Timers : timer'[t] = IF t \in {"timeout", "idle"} THEN NoWait ELSE timer[t]
    BY <1>0, <2>1, StoppedFacts
  <2>3. /\ handler' \in [Sessions -> [Events -> Waits \cup {NoWait}]]
        /\ \A s \in Sessions, e \in Events : handler'[s][e] =
             IF s = on[w] /\ e \in NetworkEvents THEN NoWait ELSE handler[s][e]
    BY <1>0, <1>3, <2>1, UnregisteredFacts
  <2> HIDE DEF w
  <2>4. \A t \in Timers : timer'[t] \in {NoWait, timer[t]} \ {w}
    BY <1>1, <1>6, <2>2, TimerNames DEF IInv, TimersFit
  <2>5. \A s \in Sessions, e \in Events : handler'[s][e] \in {NoWait, handler[s][e]} \ {w}
    BY <1>1, <1>6, <2>3, TimerNames DEF IInv, HandlersFit
  <2>6. \A s \in Sessions :
          \/ \A e \in NetworkEvents : handler'[s][e] = handler[s][e]
          \/ timer'["idle"] = NoWait /\ \A e \in NetworkEvents : handler'[s][e] = NoWait
    BY <2>2, <2>3, TimerNames
  <2> QED BY <1>0, <1>1, <1>2, <1>3, <2>2, <2>3, <2>4, <2>5, <2>6, Completes
<1> QED BY <1>1, <1>4, <1>5, <1>6

LEMMA NetworkIsIdleIInv == IInv /\ NetworkIsIdle => IInv'
<1> SUFFICES ASSUME IInv, NetworkIsIdle PROVE IInv'
  OBVIOUS
<1> DEFINE w == timer["idle"]
<1>0. /\ TypeOK /\ evaluating \in [Waits -> 0 .. MaxEvaluations]
      /\ handler \in [Sessions -> [Events -> Waits \cup {NoWait}]]
      /\ on \in [Waits -> Sessions]
  BY DEF IInv, TypeOK
<1>1. w \in Waits /\ ~completed[w] /\ kind[w] = "networkIdle"
  BY TimerNames DEF NetworkIsIdle, IInv, TypeOK, TimersFit, HeldByWaiting
<1>2. /\ Complete(w)
      /\ timer' = Stopped({"idle", "timeout"})
      /\ handler' = Unregistered(on[w], NetworkEvents)
      /\ UNCHANGED <<kind, on, pending, evaluating, attached, alone, seen, strayed>>
  BY <1>1 DEF NetworkIsIdle, heard
<1>3. on[w] \in Sessions /\ \A v \in Waits : evaluating'[v] <= evaluating[v]
  BY <1>0, <1>1, <1>2
<1>4. /\ timer' \in [Timers -> Waits \cup {NoWait}]
      /\ \A t \in Timers : timer'[t] = IF t \in {"idle", "timeout"} THEN NoWait ELSE timer[t]
  BY <1>0, <1>2, StoppedFacts
<1>5. /\ handler' \in [Sessions -> [Events -> Waits \cup {NoWait}]]
      /\ \A s \in Sessions, e \in Events : handler'[s][e] =
           IF s = on[w] /\ e \in NetworkEvents THEN NoWait ELSE handler[s][e]
  BY <1>0, <1>2, <1>3, UnregisteredFacts
<1> HIDE DEF w
<1>6. \A t \in Timers : timer'[t] \in {NoWait, timer[t]} \ {w}
  BY <1>1, <1>4, TimerNames DEF IInv, TimersFit
<1>7. \A s \in Sessions, e \in Events : handler'[s][e] \in {NoWait, handler[s][e]} \ {w}
  BY <1>1, <1>5, TimerNames DEF IInv, HandlersFit
<1>8. \A s \in Sessions :
        \/ \A e \in NetworkEvents : handler'[s][e] = handler[s][e]
        \/ timer'["idle"] = NoWait /\ \A e \in NetworkEvents : handler'[s][e] = NoWait
  BY <1>4, <1>5, TimerNames
<1> QED BY <1>0, <1>1, <1>2, <1>3, <1>4, <1>5, <1>6, <1>7, <1>8, Completes

LEMMA LoadEventFiredIInv ==
  ASSUME IInv, NEW s \in Sessions, LoadEventFired(s)
  PROVE  IInv'
<1>0. /\ TypeOK /\ evaluating \in [Waits -> 0 .. MaxEvaluations]
  BY DEF IInv, TypeOK
<1>1. PICK w \in Waits :
        /\ handler[s]["loadEventFired"] = w
        /\ ~completed[w]
        /\ Complete(w)
        /\ handler' = Unregistered(s, {"loadEventFired"})
        /\ timer' = Stopped({"timeout"})
        /\ UNCHANGED <<kind, on, pending, evaluating, attached, alone, seen, strayed>>
  BY DEF LoadEventFired, Handles, heard
<1>2. /\ kind[w] = "navigation" /\ on[w] = s
      /\ \A v \in Waits : evaluating'[v] <= evaluating[v]
  BY <1>0, <1>1 DEF IInv, HandlersFit
<1>3. /\ timer' \in [Timers -> Waits \cup {NoWait}]
      /\ \A t \in Timers : timer'[t] = IF t \in {"timeout"} THEN NoWait ELSE timer[t]
  BY <1>0, <1>1, StoppedFacts
<1>4. /\ handler' \in [Sessions -> [Events -> Waits \cup {NoWait}]]
      /\ \A r \in Sessions, e \in Events : handler'[r][e] =
           IF r = s /\ e \in {"loadEventFired"} THEN NoWait ELSE handler[r][e]
  BY <1>0, <1>1, UnregisteredFacts
<1>5. \A t \in Timers : timer'[t] \in {NoWait, timer[t]} \ {w}
  BY <1>2, <1>3, TimerNames DEF IInv, TimersFit
<1>6. \A r \in Sessions, e \in Events : handler'[r][e] \in {NoWait, handler[r][e]} \ {w}
  BY <1>2, <1>4, TimerNames DEF IInv, HandlersFit
<1>7. \A r \in Sessions, e \in NetworkEvents : handler'[r][e] = handler[r][e]
  BY <1>4, TimerNames
<1> QED BY <1>0, <1>1, <1>2, <1>3, <1>4, <1>5, <1>6, <1>7, Completes

(* A request heard to begin is counted once more, one heard to end once     *)
(* less, so the count stays above the number of those heard and open.      *)
LEMMA OneMoreIsCounted ==
  ASSUME NEW S, NEW r, NEW n \in Nat, IsFiniteSet(S), Cardinality(S) <= n
  PROVE  IsFiniteSet(S \cup {r}) /\ Cardinality(S \cup {r}) <= n + 1
<1>1. /\ IsFiniteSet(S \cup {r}) /\ Cardinality(S) \in Nat
      /\ Cardinality(S \cup {r}) = IF r \in S THEN Cardinality(S) ELSE Cardinality(S) + 1
  BY FS_AddElement, FS_CardinalityType
<1> QED BY <1>1

LEMMA OneLessIsCounted ==
  ASSUME NEW S, NEW r, NEW n \in Nat, IsFiniteSet(S), Cardinality(S) <= n,
         r \in S \/ n = 0
  PROVE  IsFiniteSet(S \ {r}) /\ Cardinality(S \ {r}) <= OneLess(n)
<1>1. /\ IsFiniteSet(S \ {r}) /\ Cardinality(S) \in Nat
      /\ Cardinality(S \ {r}) = IF r \in S THEN Cardinality(S) - 1 ELSE Cardinality(S)
  BY FS_RemoveElement, FS_CardinalityType
<1>2. Cardinality(S \ {r}) \in Nat
  BY <1>1, FS_CardinalityType
<1> QED BY <1>1, <1>2 DEF OneLess

(* The events of the network count the requests of the call registered for *)
(* them, and start or stop the idle timer accordingly.                     *)
LEMMA NetworkEventIInv ==
  ASSUME IInv, NEW s \in Sessions, NEW r \in Requests,
         RequestWillBeSent(s, r) \/ LoadingFinished(s, r) \/ LoadingFailed(s, r)
  PROVE  IInv'
<1>0. /\ TypeOK /\ timer \in [Timers -> Waits \cup {NoWait}]
      /\ pending \in [Waits -> 0 .. MaxPending]
      /\ seen \in [Waits -> SUBSET Requests] /\ strayed \in [Waits -> BOOLEAN]
  BY DEF IInv, TypeOK
<1>1. PICK w \in Waits :
        /\ \E e \in NetworkEvents : handler[s][e] = w
        /\ UNCHANGED <<kind, on, completed, evaluating, handler, attached, results,
                       alone>>
        /\ \/ /\ Begins(w, r)
              /\ timer' = Stopped({"idle"})
           \/ /\ ~completed[w]
              /\ Ends(w, r)
              /\ timer' = IF pending'[w] = 0 THEN Started({"idle"}, w) ELSE timer
           \/ /\ Ends(w, r)
              /\ UNCHANGED timer
  BY DEF RequestWillBeSent, LoadingFinished, LoadingFailed, Handles, NetworkEvents,
     Begins, Ends
<1>2. kind[w] = "networkIdle" /\ on[w] = s /\ \A e \in NetworkEvents : handler[s][e] = w
  BY <1>1 DEF IInv, HandlersFit, OneClosure
<1>3. /\ pending' \in [Waits -> 0 .. MaxPending]
      /\ seen' \in [Waits -> SUBSET Requests]
      /\ strayed' \in [Waits -> BOOLEAN]
      /\ \A v \in Waits \ {w} : /\ pending'[v] = pending[v]
                                /\ seen'[v] = seen[v]
                                /\ strayed'[v] = strayed[v]
  <2>1. CASE Begins(w, r)
    BY <1>0, <2>1 DEF Begins
  <2>2. CASE Ends(w, r)
    <3>1. /\ pending' = [pending EXCEPT ![w] = OneLess(@)]
          /\ seen' = [seen EXCEPT ![w] = @ \ {r}]
          /\ strayed' = [strayed EXCEPT ![w] = @ \/ (r \notin seen[w] /\ pending[w] > 0)]
      BY <2>2 DEF Ends
    <3>2. OneLess(pending[w]) \in 0 .. MaxPending
      BY <1>0 DEF OneLess
    <3> QED BY <1>0, <3>1, <3>2
  <2> QED BY <1>1, <2>1, <2>2
<1>4. \/ /\ pending'[w] = pending[w] + 1
         /\ seen'[w] = seen[w] \cup {r} /\ strayed'[w] = strayed[w]
         /\ timer' = Stopped({"idle"})
      \/ /\ pending'[w] = OneLess(pending[w])
         /\ seen'[w] = seen[w] \ {r}
         /\ ~strayed'[w] => ~strayed[w] /\ (r \in seen[w] \/ pending[w] = 0)
         /\ \/ ~completed[w] /\ timer' = Started({"idle"}, w) /\ pending'[w] = 0
            \/ UNCHANGED timer
  <2>1. CASE Begins(w, r) /\ timer' = Stopped({"idle"})
    BY <1>0, <2>1 DEF Begins
  <2>2. CASE Ends(w, r)
    <3>1. /\ pending'[w] = OneLess(pending[w])
          /\ seen'[w] = seen[w] \ {r}
          /\ strayed'[w] = (strayed[w] \/ (r \notin seen[w] /\ pending[w] > 0))
      BY <1>0, <2>2 DEF Ends
    <3>2. pending[w] > 0 \/ pending[w] = 0
      BY <1>0
    <3>3. ~strayed'[w] => ~strayed[w] /\ (r \in seen[w] \/ pending[w] = 0)
      BY <3>1, <3>2
    <3>4. CASE timer' = Stopped({"idle"}) /\ Begins(w, r)
      BY <2>1, <3>4
    <3> QED BY <1>1, <3>1, <3>3, <3>4
  <2> QED BY <1>1, <2>1, <2>2
<1>5. /\ timer' \in [Timers -> Waits \cup {NoWait}]
      /\ \A t \in Timers : t # "idle" => timer'[t] = timer[t]
      /\ timer'["idle"] \in {NoWait, timer["idle"], w}
      /\ timer'["idle"] = w /\ timer["idle"] # w => ~completed[w]
      /\ timer'["idle"] # NoWait => pending'[timer'["idle"]] = 0
  <2>0. /\ timer["idle"] # NoWait => pending[timer["idle"]] = 0
        /\ timer["idle"] \in Waits \cup {NoWait}
    BY <1>0, TimerNames DEF IInv, IdleIsServed
  <2>1. CASE timer' = Stopped({"idle"})
    BY <1>0, <2>1, StoppedFacts, TimerNames
  <2>2. CASE ~completed[w] /\ timer' = Started({"idle"}, w) /\ pending'[w] = 0
    BY <1>0, <2>2, StartedFacts, TimerNames
  <2>3. CASE UNCHANGED timer /\ pending'[w] = OneLess(pending[w])
    BY <1>0, <1>3, <2>0, <2>3 DEF OneLess
  <2> QED BY <1>4, <2>1, <2>2, <2>3
<1>6. TypeOK'
  BY <1>1, <1>3, <1>5 DEF IInv, TypeOK
<1>7. Counted' /\ EvaluatesConditions' /\ HandlersFit' /\ OneClosure'
  BY <1>1 DEF IInv, Counted, EvaluatesConditions, HandlersFit, OneClosure
<1>8. NewIsUntouched'
  BY <1>1, <1>2, <1>3 DEF IInv, NewIsUntouched
<1>9. TimersFit'
  BY <1>1, <1>2, <1>5, TimerNames DEF IInv, TimersFit
<1>10. HeldByWaiting'
  BY <1>1, <1>5, TimerNames DEF IInv, HeldByWaiting
<1>11. IdleIsServed'
  <2> SUFFICES ASSUME NEW v \in Waits, timer'["idle"] = v
               PROVE  \A e \in NetworkEvents : handler[on[v]][e] = v
    BY <1>1, <1>5 DEF IdleIsServed
  <2>1. v # NoWait /\ (v = w \/ timer["idle"] = v)
    BY <1>5
  <2> QED BY <1>2, <2>1 DEF IInv, IdleIsServed
<1>12. SeenIsCounted'
  <2> SUFFICES ASSUME NEW v \in Waits, ~strayed'[v]
               PROVE  IsFiniteSet(seen'[v]) /\ Cardinality(seen'[v]) <= pending'[v]
    BY DEF SeenIsCounted
  <2>1. CASE v # w
    BY <1>3, <2>1 DEF IInv, SeenIsCounted
  <2>2. CASE v = w
    <3>1. ~strayed[w]
      BY <1>4, <2>2
    <3>2. /\ IsFiniteSet(seen[w]) /\ Cardinality(seen[w]) <= pending[w]
          /\ pending[w] \in Nat
      BY <1>0, <3>1 DEF IInv, SeenIsCounted
    <3>3. /\ IsFiniteSet(seen[w] \cup {r})
          /\ Cardinality(seen[w] \cup {r}) <= pending[w] + 1
      BY <3>2, OneMoreIsCounted
    <3>4. ASSUME r \in seen[w] \/ pending[w] = 0
          PROVE  /\ IsFiniteSet(seen[w] \ {r})
                 /\ Cardinality(seen[w] \ {r}) <= OneLess(pending[w])
      BY <3>2, <3>4, OneLessIsCounted
    <3> QED BY <1>4, <2>2, <3>3, <3>4
  <2> QED BY <2>1, <2>2
<1> QED BY <1>6, <1>7, <1>8, <1>9, <1>10, <1>11, <1>12 DEF IInv

LEMMA AgentHostClosedIInv ==
  ASSUME IInv, NEW s \in Sessions, AgentHostClosed(s)
  PROVE  IInv'
<1>1. /\ UNCHANGED <<kind, on, completed, pending, timer, handler, results, alone,
                     seen, strayed>>
      /\ attached' \in [Sessions -> BOOLEAN]
      /\ evaluating' \in [Waits -> 0 .. MaxEvaluations]
      /\ \A v \in Waits : evaluating'[v] \in {0, evaluating[v]}
  BY DEF AgentHostClosed, IInv, TypeOK, heard
<1>2. TypeOK'
  BY <1>1 DEF IInv, TypeOK
<1>3. EvaluatesConditions'
  BY <1>1 DEF IInv, EvaluatesConditions
<1>4. /\ Counted' /\ NewIsUntouched' /\ TimersFit' /\ HandlersFit' /\ HeldByWaiting'
      /\ OneClosure' /\ IdleIsServed' /\ SeenIsCounted'
  BY <1>1 DEF IInv, Counted, NewIsUntouched, TimersFit, HandlersFit, HeldByWaiting,
     OneClosure, IdleIsServed, SeenIsCounted
<1> QED BY <1>2, <1>3, <1>4 DEF IInv

LEMMA NextIInv == IInv /\ [Next]_vars => IInv'
<1> SUFFICES ASSUME IInv, [Next]_vars PROVE IInv'
  OBVIOUS
<1>1. CASE UNCHANGED vars
  <2>1. TypeOK'
    BY <1>1 DEF IInv, TypeOK, vars
  <2>2. Counted' /\ NewIsUntouched' /\ EvaluatesConditions' /\ SeenIsCounted'
    BY <1>1 DEF IInv, Counted, NewIsUntouched, EvaluatesConditions, SeenIsCounted, vars
  <2>3. TimersFit' /\ HandlersFit' /\ HeldByWaiting' /\ OneClosure' /\ IdleIsServed'
    BY <1>1 DEF IInv, TimersFit, HandlersFit, HeldByWaiting, OneClosure, IdleIsServed, vars
  <2> QED BY <2>1, <2>2, <2>3 DEF IInv
<1>2. ASSUME NEW s \in Sessions,
             \/ LoadEventFired(s)
             \/ AgentHostClosed(s)
             \/ \E r \in Requests : \/ RequestWillBeSent(s, r)
                                   \/ LoadingFinished(s, r)
                                   \/ LoadingFailed(s, r)
      PROVE  IInv'
  BY <1>2, LoadEventFiredIInv, NetworkEventIInv, AgentHostClosedIInv
<1>3. ASSUME NEW w \in Waits, OnEvaluateResponse(w, TRUE) \/ OnEvaluateResponse(w, FALSE)
      PROVE  IInv'
  BY <1>3, OnEvaluateResponseIInv
<1> QED BY <1>1, <1>2, <1>3, WaitForIInv, TimeOverIInv, OnPollTimerIInv,
           OnTimeoutIInv, NetworkIsIdleIInv DEF Next

LEMMA AlwaysIInv == Spec => []IInv
<1>1. IInv /\ [Next]_vars => IInv'
  BY NextIInv
<1> QED BY <1>1, InitIInv, PTL DEF Spec

-----------------------------------------------------------------------------
(* TypeOK: the count of open requests, among others, keeps its bounds.     *)
THEOREM WaitTypeOK == Spec => []TypeOK
<1>1. IInv => TypeOK
  BY DEF IInv
<1> QED BY <1>1, AlwaysIInv, PTL

(* However many calls share the timers and the handlers of a session: the  *)
(* OnceCallback of a call runs once at most, and nothing holds the closure *)
(* of a completed call.                                                    *)
THEOREM WaitCompletedIsOver == Spec => []CompletedIsOver
<1>1. IInv => CompletedIsOver
  <2> SUFFICES ASSUME IInv, NEW w \in Waits
               PROVE  /\ results[w] <= 1
                      /\ completed[w] =>
                           /\ \A t \in Timers : timer[t] # w
                           /\ \A s \in Sessions, e \in Events : handler[s][e] # w
    BY DEF CompletedIsOver
  <2>1. results[w] = IF completed[w] THEN 1 ELSE 0
    BY DEF IInv, Counted
  <2>2. results[w] <= 1
    BY <2>1
  <2>3. completed[w] =>
          /\ \A t \in Timers : timer[t] # w
          /\ \A s \in Sessions, e \in Events : handler[s][e] # w
    BY DEF IInv, HeldByWaiting
  <2> QED BY <2>2, <2>3
<1> QED BY <1>1, AlwaysIInv, PTL

(* The idle timer runs for a call only while the next request would stop   *)
(* it and, unless a stray end lowered its count, all requests the call     *)
(* heard begin have ended.                                                 *)
THEOREM WaitIdleTimerMeansQuiet == Spec => []IdleTimerMeansQuiet
<1>1. IInv => IdleTimerMeansQuiet
  <2> SUFFICES ASSUME IInv, NEW w \in Waits, timer["idle"] = w
               PROVE  /\ pending[w] = 0
                      /\ \A e \in NetworkEvents : handler[on[w]][e] = w
                      /\ seen[w] # {} => strayed[w]
    BY DEF IdleTimerMeansQuiet
  <2>1. pending[w] = 0 /\ \A e \in NetworkEvents : handler[on[w]][e] = w
    BY DEF IInv, IdleIsServed
  <2>2. ASSUME ~strayed[w] PROVE seen[w] = {}
    <3>1. IsFiniteSet(seen[w]) /\ Cardinality(seen[w]) <= 0
      BY <2>1, <2>2 DEF IInv, SeenIsCounted
    <3>2. Cardinality(seen[w]) = 0
      BY <3>1, FS_CardinalityType
    <3> QED BY <3>1, <3>2, FS_EmptySet
  <2> QED BY <2>1, <2>2
<1> QED BY <1>1, AlwaysIInv, PTL

-----------------------------------------------------------------------------
(* A wait that no other disturbed has its deadline.  Closures of other     *)
(* calls may stop the timers of this one, but then their calls were on at  *)
(* the same time (AloneIsOnly).                                            *)
AloneIsOnly ==
  \A v, w \in Waits : Waiting(v) /\ Waiting(w) /\ alone[w] => v = w

UndisturbedHasDeadline ==
  \A w \in Waits : Waiting(w) /\ alone[w] =>
    timer[IF kind[w] = "time" THEN "time" ELSE "timeout"] = w

Deadlines == AloneIsOnly /\ UndisturbedHasDeadline

(* Whoever waits has completed nothing, and whoever is held waits.         *)
LEMMA HeldWaits ==
  ASSUME IInv, NEW w \in Waits, kind[w] # "new", ~completed[w]
  PROVE  Waiting(w)
BY DEF IInv, Counted, Waiting

LEMMA HeldIsNotCompleted ==
  ASSUME IInv, NEW t \in Timers, NEW w \in Waits, timer[t] = w
  PROVE  ~completed[w] /\ kind[w] # "new"
BY DEF IInv, HeldByWaiting, TimersFit, Timers

LEMMA StartKeepsDeadlines ==
  ASSUME IInv, Deadlines, NEW w \in Waits, NEW k \in Kinds \ {"new"}, Execute(w, k),
         timer'[IF k = "time" THEN "time" ELSE "timeout"] = w
  PROVE  Deadlines'
<1>1. /\ kind[w] = "new" /\ UNCHANGED results
      /\ \A v \in Waits : kind'[v] = IF v = w THEN k ELSE kind[v]
      /\ \A v \in Waits : alone'[v] => ~Waiting(v) /\ (v = w => \A u \in Waits : ~Waiting(u))
  BY DEF Execute, IInv, TypeOK
<1>2. \A v \in Waits : Waiting(v)' => v = w \/ Waiting(v)
  BY <1>1 DEF Waiting
<1>3. ASSUME NEW v \in Waits, Waiting(v)', alone'[v]
      PROVE  v = w /\ \A u \in Waits : ~Waiting(u)
  BY <1>1, <1>2, <1>3
<1>4. AloneIsOnly'
  BY <1>2, <1>3 DEF AloneIsOnly
<1>5. UndisturbedHasDeadline'
  BY <1>1, <1>3 DEF UndisturbedHasDeadline
<1> QED BY <1>4, <1>5 DEF Deadlines

(* The call that is completed was waiting, so no other one is undisturbed. *)
LEMMA CompletionKeepsDeadlines ==
  ASSUME IInv, Deadlines, NEW w \in Waits, Waiting(w), Complete(w),
         UNCHANGED <<kind, alone>>
  PROVE  Deadlines'
<1>1. \A v \in Waits : results'[v] = IF v = w THEN 1 ELSE results[v]
  BY DEF IInv, TypeOK, Complete, Waiting
<1>2. \A v \in Waits : Waiting(v)' => Waiting(v) /\ v # w
  BY <1>1 DEF Waiting
<1>3. \A v \in Waits : ~(Waiting(v)' /\ alone'[v])
  BY <1>2 DEF Deadlines, AloneIsOnly
<1> QED BY <1>3 DEF Deadlines, AloneIsOnly, UndisturbedHasDeadline

LEMMA QuietKeepsDeadlines ==
  ASSUME Deadlines, UNCHANGED <<kind, alone, results>>,
         timer'["time"] = timer["time"], timer'["timeout"] = timer["timeout"]
  PROVE  Deadlines'
BY DEF Deadlines, AloneIsOnly, UndisturbedHasDeadline, Waiting

LEMMA NextDeadlines ==
  ASSUME IInv, Deadlines, [Next]_vars
  PROVE  Deadlines'
<1>0. TypeOK /\ timer \in [Timers -> Waits \cup {NoWait}] /\ NoWait \notin Waits
  BY DEF IInv, TypeOK
<1>1. ASSUME NEW w \in Waits,
             \/ WaitForTime(w) \/ WaitForCondition(w) \/ WaitForNavigation(w)
             \/ WaitForNetworkIdle(w)
      PROVE  Deadlines'
  <2>1. CASE WaitForTime(w)
    <3>1. Execute(w, "time") /\ timer'["time"] = w /\ "time" \in Kinds \ {"new"}
      BY <1>0, <2>1, StartedFacts, TimerNames DEF WaitForTime, Kinds
    <3> QED BY <3>1, StartKeepsDeadlines
  <2>2. ASSUME NEW k \in {"condition", "navigation", "networkIdle"}, Execute(w, k),
               timer'["timeout"] = w
        PROVE  Deadlines'
    BY <2>2, StartKeepsDeadlines DEF Kinds
  <2>3. CASE WaitForCondition(w)
    BY <1>0, <2>2, <2>3, StartedFacts, TimerNames DEF WaitForCondition
  <2>4. CASE WaitForNavigation(w)
    BY <1>0, <2>2, <2>4, StartedFacts, TimerNames DEF WaitForNavigation
  <2>5. CASE WaitForNetworkIdle(w)
    BY <1>0, <2>2, <2>5, StartedFacts, TimerNames DEF WaitForNetworkIdle
  <2> QED BY <1>1, <2>1, <2>3, <2>4, <2>5
<1>2. CASE TimeOver
  <2>1. /\ timer["time"] \in Waits /\ "time" \in Timers
        /\ Complete(timer["time"]) /\ UNCHANGED <<kind, alone>>
    BY <1>0, <1>2, TimerNames DEF TimeOver
  <2> QED BY <2>1, HeldIsNotCompleted, HeldWaits, CompletionKeepsDeadlines
<1>3. CASE OnTimeout
  <2>1. /\ timer["timeout"] \in Waits /\ "timeout" \in Timers
        /\ UNCHANGED <<kind, alone>>
    BY <1>0, <1>3, TimerNames DEF OnTimeout
  <2>2. ~completed[timer["timeout"]] /\ Waiting(timer["timeout"])
    BY <2>1, HeldIsNotCompleted, HeldWaits
  <2>3. Complete(timer["timeout"])
    BY <1>3, <2>2 DEF OnTimeout
  <2> QED BY <2>1, <2>2, <2>3, CompletionKeepsDeadlines
<1>4. CASE NetworkIsIdle
  <2>1. /\ timer["idle"] \in Waits /\ "idle" \in Timers
        /\ UNCHANGED <<kind, alone>>
    BY <1>0, <1>4, TimerNames DEF NetworkIsIdle
  <2>2. ~completed[timer["idle"]] /\ Waiting(timer["idle"])
    BY <2>1, HeldIsNotCompleted, HeldWaits
  <2>3. Complete(timer["idle"])
    BY <1>4, <2>2 DEF NetworkIsIdle
  <2> QED BY <2>1, <2>2, <2>3, CompletionKeepsDeadlines
<1>5. ASSUME NEW w \in Waits, NEW met \in BOOLEAN, OnEvaluateResponse(w, met)
      PROVE  Deadlines'
  <2>1. CASE met /\ ~completed[w]
    <3>1. kind[w] # "new" /\ Complete(w) /\ UNCHANGED <<kind, alone>>
      BY <1>5, <2>1 DEF OnEvaluateResponse, IInv, EvaluatesConditions
    <3> QED BY <2>1, <3>1, HeldWaits, CompletionKeepsDeadlines
  <2>2. CASE ~(met /\ ~completed[w])
    BY <1>5, <2>2, QuietKeepsDeadlines DEF OnEvaluateResponse
  <2> QED BY <2>1, <2>2
<1>6. ASSUME NEW s \in Sessions, LoadEventFired(s) PROVE Deadlines'
  <2>1. PICK w \in Waits : /\ Handles(s, "loadEventFired", w)
                           /\ ~completed[w] /\ Complete(w) /\ UNCHANGED <<kind, alone>>
    BY <1>6 DEF LoadEventFired
  <2>2. kind[w] # "new"
    BY <2>1 DEF Handles, IInv, HandlersFit
  <2> QED BY <2>1, <2>2, HeldWaits, CompletionKeepsDeadlines
<1>7. ASSUME NEW s \in Sessions,
             \/ AgentHostClosed(s)
             \/ \E r \in Requests : \/ RequestWillBeSent(s, r)
                                   \/ LoadingFinished(s, r)
                                   \/ LoadingFailed(s, r)
      PROVE  Deadlines'
  <2>1. UNCHANGED <<kind, alone, results>>
    BY <1>7 DEF RequestWillBeSent, LoadingFinished, LoadingFailed, AgentHostClosed,
       Begins, Ends
  <2>2. timer'["time"] = timer["time"] /\ timer'["timeout"] = timer["timeout"]
    <3>1. ASSUME NEW r \in Requests, RequestWillBeSent(s, r)
          PROVE  timer'["time"] = timer["time"] /\ timer'["timeout"] = timer["timeout"]
      <4>1. timer' = Stopped({"idle"})
        BY <3>1 DEF RequestWillBeSent
      <4> QED BY <1>0, <4>1, StoppedFacts, TimerNames
    <3>2. ASSUME NEW r \in Requests, LoadingFinished(s, r)
          PROVE  timer'["time"] = timer["time"] /\ timer'["timeout"] = timer["timeout"]
      <4>1. PICK w \in Waits : timer' = Started({"idle"}, w) \/ timer' = timer
        BY <3>2 DEF LoadingFinished
      <4> QED BY <1>0, <4>1, StartedFacts, TimerNames
    <3>3. ASSUME AgentHostClosed(s) \/ \E r \in Requests : LoadingFailed(s, r)
          PROVE  UNCHANGED timer
      BY <3>3 DEF LoadingFailed, AgentHostClosed
    <3> QED BY <1>7, <3>1, <3>2, <3>3
  <2> QED BY <2>1, <2>2, QuietKeepsDeadlines
<1>8. CASE OnPollTimer \/ UNCHANGED vars
  BY <1>8, QuietKeepsDeadlines DEF OnPollTimer, vars
<1> QED BY <1>1, <1>2, <1>3, <1>4, <1>5, <1>6, <1>7, <1>8 DEF Next

(* What UndisturbedWaitEnds rests on: whatever events, answers and timers  *)
(* come, and whichever tab closes, the timer that ends an undisturbed wait *)
(* is running and holds its closure until the wait is over.                *)
THEOREM WaitUndisturbedHasDeadline == Spec => []UndisturbedHasDeadline
<1>1. Init => Deadlines
  BY DEF Init, Deadlines, AloneIsOnly, UndisturbedHasDeadline, Waiting
<1>2. Deadlines => UndisturbedHasDeadline
  BY DEF Deadlines
<1>3. IInv /\ Deadlines /\ [Next]_vars => Deadlines'
  BY NextDeadlines
<1> QED BY <1>1, <1>2, <1>3, AlwaysIInv, PTL DEF Spec
=============================================================================

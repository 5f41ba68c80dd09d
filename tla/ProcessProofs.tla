---------------------------- MODULE ProcessProofs ----------------------------
(***************************************************************************)
(* Proofs about the two modules on the life of processes: ChromiumManager, *)
(* for any number of threads, launches and retries, and StartUp, for any   *)
(* number of launchers, clients, daemons and browsers.                     *)
(*                                                                         *)
(* ManagerIInv.  That state READY has one monitor thread is not inductive  *)
(* by itself: it needs that no monitor thread is left over while a start   *)
(* is under way (NobodyWatches), also when shutdown() came in between, and *)
(* that the process shutdown() terminates stays the current one            *)
(* (TerminatesCurrent).                                                    *)
(*                                                                         *)
(* StartIInv.  That there is one browser and one daemon needs what a       *)
(* program has learnt before it decides to launch one: while nothing has   *)
(* been disturbed, one program is on its way at most (OneAtATime), the     *)
(* file, the paths and the processes agree with each other when none is,   *)
(* and with the stage of the one that is (LaunchersKnow, ClientsKnow).     *)
(***************************************************************************)
EXTENDS ChromiumManager, StartUp, FiniteSetTheorems, TLAPS

-----------------------------------------------------------------------------
(* ChromiumManager.                                                        *)

Inactive == {"off", "cooldown"}

StarterRecords == [pc : {"off", "popen", "wait", "ready", "failed"},
                   attempt : 0 .. MAX_RETRY,
                   proc : Procs \cup {NoProc}]

StartersHaveProcs ==
  \A s \in Starters : starter[s].pc \in {"wait", "ready"} => starter[s].proc \in Procs

NobodyWatches ==
  (state \in {"STOPPED", "STARTING"} \/ Starting # {}) =>
    /\ proc = NoProc
    /\ \A m \in Procs : monitor[m] \in Inactive

TerminatesCurrent == main = "terminate" => state = "STOPPING" /\ proc # NoProc

ManagerIInv == /\ ManagerTypeOK
               /\ StartersHaveProcs
               /\ StartingIsOwned
               /\ ReadyIsWatched
               /\ NobodyWatches
               /\ TerminatesCurrent

USE ManagerAssumption DEF Inactive

LEMMA ProcFacts == NoProc \notin Procs
BY DEF NoProc, Procs

LEMMA StarterType ==
  ASSUME ManagerIInv, NEW s \in Starters
  PROVE  /\ starter \in [Starters -> StarterRecords]
         /\ starter[s].attempt \in 0 .. MAX_RETRY
         /\ starter[s] = [pc |-> starter[s].pc, attempt |-> starter[s].attempt,
                          proc |-> starter[s].proc]
BY DEF ManagerIInv, ManagerTypeOK, StarterRecords

LEMMA NextAttemptType ==
  ASSUME ManagerIInv, NEW s \in Starters
  PROVE  /\ NextAttempt(s) \in StarterRecords
         /\ NextAttempt(s).pc \in {"popen", "failed"}
<1> DEFINE a == starter[s].attempt
<1>1. a \in 0 .. MAX_RETRY
  BY StarterType
<1>2. CASE a < MAX_RETRY
  <2>1. a + 1 \in 0 .. MAX_RETRY
    BY <1>1, <1>2
  <2> QED BY <1>2, <2>1 DEF NextAttempt, StarterRecords
<1>3. CASE ~(a < MAX_RETRY)
  BY <1>1, <1>3 DEF NextAttempt, StarterRecords
<1> QED BY <1>2, <1>3

-----------------------------------------------------------------------------
(* A start thread that is under way takes a step of its own.               *)
LEMMA StarterMoves ==
  ASSUME ManagerIInv, NEW s \in Starters, starter[s].pc # "off",
         NEW e \in StarterRecords, e.pc # "off",
         e.pc \in {"wait", "ready"} => e.proc \in Procs,
         starter' = [starter EXCEPT ![s] = e],
         status' \in [Procs -> {"unborn", "starting", "serving", "deaf", "quit",
                                "crashed"}],
         told' \subseteq Procs,
         UNCHANGED <<state, proc, wait, monitor, watched, main>>
  PROVE  ManagerIInv'
<1>1. /\ starter \in [Starters -> StarterRecords]
      /\ starter' \in [Starters -> StarterRecords]
      /\ \A t \in Starters : starter'[t] = IF t = s THEN e ELSE starter[t]
  BY StarterType
<1>2. Starting' = Starting
  BY <1>1 DEF Starting
<1>3. ManagerTypeOK'
  BY <1>1 DEF ManagerIInv, ManagerTypeOK, StarterRecords
<1>4. StartersHaveProcs'
  BY <1>1 DEF ManagerIInv, StartersHaveProcs
<1>5. StartingIsOwned' /\ NobodyWatches'
  BY <1>2 DEF ManagerIInv, StartingIsOwned, NobodyWatches
<1>6. ReadyIsWatched' /\ TerminatesCurrent'
  BY DEF ManagerIInv, ReadyIsWatched, TerminatesCurrent
<1> QED BY <1>3, <1>4, <1>5, <1>6 DEF ManagerIInv

(* A start thread ends, whatever state it leaves.                          *)
LEMMA StarterEnds ==
  ASSUME ManagerIInv, NEW s \in Starters, starter[s].pc # "off",
         starter' = [starter EXCEPT ![s] = Off]
  PROVE  /\ starter' \in [Starters -> StarterRecords]
         /\ Starting' = {}
         /\ StartersHaveProcs'
         /\ proc = NoProc
         /\ \A m \in Procs : monitor[m] \in Inactive
<1>0. Off \in StarterRecords /\ Off.pc = "off"
  BY DEF Off, StarterRecords
<1>1. /\ starter \in [Starters -> StarterRecords]
      /\ starter' \in [Starters -> StarterRecords]
      /\ \A t \in Starters : starter'[t] = IF t = s THEN Off ELSE starter[t]
  BY <1>0, StarterType
<1>2. Starting = {s}
  BY DEF Starting, ManagerIInv, StartingIsOwned
<1>3. Starting' = {}
  BY <1>0, <1>1, <1>2 DEF Starting
<1>4. StartersHaveProcs'
  BY <1>0, <1>1 DEF ManagerIInv, StartersHaveProcs
<1> QED BY <1>1, <1>2, <1>3, <1>4 DEF ManagerIInv, NobodyWatches

(* A start is triggered while none is under way.                           *)
LEMMA TriggerStartFacts ==
  ASSUME ManagerIInv, Starting = {}, TriggerStart
  PROVE  /\ starter' \in [Starters -> StarterRecords]
         /\ state' = "STARTING"
         /\ StartersHaveProcs'
         /\ StartingIsOwned'
<1>1. PICK s \in Starters :
        starter' = [starter EXCEPT ![s] = [pc |-> "popen", attempt |-> 1, proc |-> NoProc]]
  BY DEF TriggerStart
<1> DEFINE e == [pc |-> "popen", attempt |-> 1, proc |-> NoProc]
<1>2. e \in StarterRecords /\ e.pc = "popen"
  BY DEF StarterRecords
<1> HIDE DEF e
<1>3. /\ starter \in [Starters -> StarterRecords]
      /\ starter' \in [Starters -> StarterRecords]
      /\ \A t \in Starters : starter'[t] = IF t = s THEN e ELSE starter[t]
  BY <1>1, <1>2, StarterType DEF e
<1>4. Starting' = {s}
  BY <1>2, <1>3 DEF Starting
<1>5. state' = "STARTING" /\ StartersHaveProcs'
  BY <1>2, <1>3 DEF TriggerStart, ManagerIInv, StartersHaveProcs
<1> QED BY <1>3, <1>4, <1>5 DEF StartingIsOwned

LEMMA StarterStepIInv ==
  ASSUME ManagerIInv, NEW s \in Starters, StarterStep(s)
  PROVE  ManagerIInv'
<1>1. /\ starter[s] = [pc |-> starter[s].pc, attempt |-> starter[s].attempt,
                       proc |-> starter[s].proc]
      /\ starter[s].attempt \in 0 .. MAX_RETRY
      /\ starter[s].proc \in Procs \cup {NoProc}
      /\ starter[s].pc \in {"wait", "ready"} => starter[s].proc \in Procs
  BY StarterType DEF ManagerIInv, StartersHaveProcs, StarterRecords
<1>2. status \in [Procs -> {"unborn", "starting", "serving", "deaf", "quit", "crashed"}]
      /\ told \subseteq Procs
  BY DEF ManagerIInv, ManagerTypeOK
<1>3. CASE Popen(s)
  <2>1. /\ starter[s].pc = "popen"
        /\ UNCHANGED <<state, proc, wait, monitor, watched, main, told>>
    BY <1>3 DEF Popen
  <2>2. ASSUME NEW p \in Procs, status' = [status EXCEPT ![p] = "starting"],
               starter' = [starter EXCEPT ![s].pc = "wait", ![s].proc = p]
        PROVE  ManagerIInv'
    <3> DEFINE e == [pc |-> "wait", attempt |-> starter[s].attempt, proc |-> p]
    <3>1. e \in StarterRecords /\ e.pc = "wait" /\ e.proc = p
      BY <1>1 DEF StarterRecords
    <3>2. starter' = [starter EXCEPT ![s] = e]
      <4> DEFINE f == [pc |-> "wait", attempt |-> starter[s].attempt,
                       proc |-> starter[s].proc]
      <4>1. [starter[s] EXCEPT !.pc = "wait"] = f
        BY <1>1
      <4>2. [f EXCEPT !.proc = p] = e
        OBVIOUS
      <4>3. starter' = [starter EXCEPT ![s] = [[starter[s] EXCEPT !.pc = "wait"] EXCEPT !.proc = p]]
        BY <2>2, StarterType
      <4> QED BY <4>1, <4>2, <4>3
    <3>3. status' \in [Procs -> {"unborn", "starting", "serving", "deaf", "quit", "crashed"}]
      BY <1>2, <2>2
    <3> HIDE DEF e
    <3> QED BY <1>2, <2>1, <3>1, <3>2, <3>3, StarterMoves
  <2>3. CASE starter' = [starter EXCEPT ![s].pc = "failed"] /\ UNCHANGED status
    <3> DEFINE e == [pc |-> "failed", attempt |-> starter[s].attempt,
                     proc |-> starter[s].proc]
    <3>1. e \in StarterRecords /\ e.pc = "failed"
      BY <1>1 DEF StarterRecords
    <3>2. starter' = [starter EXCEPT ![s] = e]
      <4>1. [starter[s] EXCEPT !.pc = "failed"] = e
        BY <1>1
      <4> QED BY <2>3, <4>1
    <3> HIDE DEF e
    <3> QED BY <1>2, <2>1, <2>3, <3>1, <3>2, StarterMoves
  <2>4. CASE starter' = [starter EXCEPT ![s] = NextAttempt(s)] /\ UNCHANGED status
    BY <1>2, <2>1, <2>4, NextAttemptType, StarterMoves
  <2> QED BY <1>3, <2>2, <2>3, <2>4 DEF Popen
<1>4. CASE SocketReady(s)
  <2> DEFINE e == [pc |-> "ready", attempt |-> starter[s].attempt,
                   proc |-> starter[s].proc]
  <2>1. e \in StarterRecords /\ e.pc = "ready" /\ e.proc \in Procs
    BY <1>1, <1>4 DEF StarterRecords, SocketReady
  <2>2. starter' = [starter EXCEPT ![s] = e]
    <3>1. [starter[s] EXCEPT !.pc = "ready"] = e
      BY <1>1
    <3> QED BY <1>4, <3>1 DEF SocketReady
  <2> HIDE DEF e
  <2> QED BY <1>2, <1>4, <2>1, <2>2, StarterMoves DEF SocketReady, processes
<1>5. CASE SocketNotReady(s)
  <2>1. told' \subseteq Procs
    BY <1>1, <1>2, <1>5 DEF SocketNotReady
  <2> QED BY <1>2, <1>5, <2>1, NextAttemptType, StarterMoves DEF SocketNotReady
<1>6. CASE StartSucceeds(s)
  <2>1. /\ starter' \in [Starters -> StarterRecords]
        /\ Starting' = {} /\ Starting # {}
        /\ StartersHaveProcs'
        /\ proc = NoProc
        /\ \A m \in Procs : monitor[m] \in Inactive
    BY <1>6, StarterEnds DEF StartSucceeds, Starting
  <2>2. /\ starter[s].proc \in Procs /\ main # "terminate"
        /\ state \notin {"STOPPED", "READY"}
    BY <1>1, <1>6, <2>1 DEF StartSucceeds, ManagerIInv, TerminatesCurrent, StartingIsOwned
  <2>3. UNCHANGED <<wait, watched, main, status>>
    BY <1>6 DEF StartSucceeds
  <2>4. CASE /\ state = "STOPPING"
             /\ told' = told \cup {starter[s].proc}
             /\ UNCHANGED <<state, proc, monitor>>
    <3>1. ManagerTypeOK'
      BY <2>1, <2>2, <2>3, <2>4 DEF ManagerIInv, ManagerTypeOK, StarterRecords
    <3>2. StartingIsOwned' /\ ReadyIsWatched' /\ NobodyWatches' /\ TerminatesCurrent'
      BY <2>1, <2>2, <2>3, <2>4
         DEF StartingIsOwned, ReadyIsWatched, NobodyWatches, TerminatesCurrent
    <3> QED BY <2>1, <3>1, <3>2 DEF ManagerIInv
  <2>5. CASE /\ state # "STOPPING"
             /\ state' = "READY"
             /\ proc' = starter[s].proc
             /\ monitor' = [monitor EXCEPT ![starter[s].proc] = "top"]
             /\ UNCHANGED told
    <3>1. ManagerTypeOK'
      BY <2>1, <2>2, <2>3, <2>5 DEF ManagerIInv, ManagerTypeOK, StarterRecords, States
    <3>2. StartingIsOwned' /\ NobodyWatches' /\ TerminatesCurrent'
      BY <2>1, <2>2, <2>3, <2>5 DEF StartingIsOwned, NobodyWatches, TerminatesCurrent
    <3>3. ReadyIsWatched'
      <4>1. /\ monitor'[proc'] = "top"
            /\ \A n \in Procs \ {proc'} : monitor'[n] = monitor[n]
        BY <2>2, <2>5 DEF ManagerIInv, ManagerTypeOK
      <4>2. proc' # NoProc /\ proc' \in Procs
        BY <2>2, <2>5, ProcFacts
      <4> QED BY <2>1, <4>1, <4>2 DEF ReadyIsWatched
    <3> QED BY <2>1, <3>1, <3>2, <3>3 DEF ManagerIInv
  <2> QED BY <1>6, <2>4, <2>5 DEF StartSucceeds
<1>7. CASE StartFails(s)
  <2>1. /\ starter' \in [Starters -> StarterRecords]
        /\ Starting' = {} /\ Starting # {}
        /\ StartersHaveProcs'
        /\ proc = NoProc
        /\ \A m \in Procs : monitor[m] \in Inactive
    BY <1>7, StarterEnds DEF StartFails, Starting
  <2>2. /\ state' = "STOPPED"
        /\ UNCHANGED <<proc, wait, monitor, watched, main, status, told>>
    BY <1>7 DEF StartFails, processes
  <2>3. ManagerTypeOK'
    BY <2>1, <2>2 DEF ManagerIInv, ManagerTypeOK, StarterRecords, States
  <2>4. StartingIsOwned' /\ ReadyIsWatched' /\ NobodyWatches' /\ TerminatesCurrent'
    BY <2>1, <2>2 DEF ManagerIInv, StartingIsOwned, ReadyIsWatched, NobodyWatches,
       TerminatesCurrent
  <2> QED BY <2>1, <2>3, <2>4 DEF ManagerIInv
<1> QED BY <1>3, <1>4, <1>5, <1>6, <1>7 DEF StarterStep

-----------------------------------------------------------------------------
(* The monitor threads.  One that is active in state READY is the only one.*)
LEMMA TheMonitor ==
  ASSUME ManagerIInv, state = "READY", NEW m \in Procs, monitor[m] \notin Inactive
  PROVE  /\ proc # NoProc
         /\ monitor[m] # "top" => watched[m] = proc
         /\ \A n \in Procs \ {m} : monitor[n] \in Inactive
         /\ Starting = {}
BY DEF ManagerIInv, ReadyIsWatched, StartingIsOwned

(* A monitor thread that goes on watching the same process.                *)
LEMMA MonitorMoves ==
  ASSUME ManagerIInv, NEW m \in Procs, monitor[m] \notin Inactive \cup {"top"},
         NEW e \in {"top", "sleep", "grace", "lost", "quit", "crash"},
         monitor' = [monitor EXCEPT ![m] = e],
         UNCHANGED <<state, proc, wait, starter, watched, main, status, told>>
  PROVE  ManagerIInv'
<1>1. \A n \in Procs : monitor'[n] = IF n = m THEN e ELSE monitor[n]
  BY DEF ManagerIInv, ManagerTypeOK
<1>2. ManagerTypeOK'
  BY DEF ManagerIInv, ManagerTypeOK
<1>3. StartersHaveProcs' /\ StartingIsOwned' /\ TerminatesCurrent'
  BY DEF ManagerIInv, StartersHaveProcs, StartingIsOwned, Starting, TerminatesCurrent
<1>4. NobodyWatches'
  BY DEF ManagerIInv, NobodyWatches, Starting
<1>5. ReadyIsWatched'
  <2>1. CASE state = "READY"
    BY <1>1, <2>1, TheMonitor DEF ReadyIsWatched
  <2>2. CASE state # "READY"
    BY <2>2 DEF ReadyIsWatched
  <2> QED BY <2>1, <2>2
<1> QED BY <1>2, <1>3, <1>4, <1>5 DEF ManagerIInv

(* A monitor thread ends, or begins its cooldown, in another state.        *)
LEMMA MonitorLeaves ==
  ASSUME ManagerIInv, NEW m \in Procs, NEW e \in Inactive,
         state # "READY" \/ monitor[m] \in Inactive,
         monitor' = [monitor EXCEPT ![m] = e],
         UNCHANGED <<state, proc, wait, starter, watched, main, status, told>>
  PROVE  ManagerIInv'
<1>1. \A n \in Procs : monitor'[n] = IF n = m THEN e ELSE monitor[n]
  BY DEF ManagerIInv, ManagerTypeOK
<1>2. ManagerTypeOK'
  BY DEF ManagerIInv, ManagerTypeOK
<1>3. StartersHaveProcs' /\ StartingIsOwned' /\ TerminatesCurrent'
  BY DEF ManagerIInv, StartersHaveProcs, StartingIsOwned, Starting, TerminatesCurrent
<1>4. NobodyWatches' /\ ReadyIsWatched'
  BY <1>1 DEF ManagerIInv, NobodyWatches, ReadyIsWatched, Starting
<1> QED BY <1>2, <1>3, <1>4 DEF ManagerIInv

LEMMA MonitorStepIInv ==
  ASSUME ManagerIInv, NEW m \in Procs, MonitorStep(m)
  PROVE  ManagerIInv'
<1>0. monitor \in [Procs -> {"off", "top", "sleep", "grace", "lost", "quit",
                             "crash", "cooldown"}]
  BY DEF ManagerIInv, ManagerTypeOK
<1>1. CASE MonitorTop(m) /\ state # "READY"
  BY <1>1, MonitorLeaves DEF MonitorTop, processes
<1>2. CASE MonitorTop(m) /\ state = "READY"
  <2>1. /\ monitor[m] = "top"
        /\ watched' = [watched EXCEPT ![m] = proc]
        /\ monitor' = [monitor EXCEPT ![m] = "sleep"]
        /\ UNCHANGED <<state, proc, wait, starter, main, status, told>>
    BY <1>2 DEF MonitorTop, processes
  <2>2. ManagerTypeOK'
    BY <2>1 DEF ManagerIInv, ManagerTypeOK
  <2>3. StartersHaveProcs' /\ StartingIsOwned' /\ TerminatesCurrent' /\ NobodyWatches'
    BY <1>2, <2>1 DEF ManagerIInv, StartersHaveProcs, StartingIsOwned, Starting,
       TerminatesCurrent, NobodyWatches
  <2>4. ReadyIsWatched'
    <3>1. /\ watched'[m] = proc /\ monitor'[m] = "sleep"
          /\ \A n \in Procs \ {m} : monitor'[n] = monitor[n]
      BY <1>0, <2>1 DEF ManagerIInv, ManagerTypeOK
    <3> QED BY <1>2, <2>1, <3>1, TheMonitor DEF ReadyIsWatched
  <2> QED BY <2>2, <2>3, <2>4 DEF ManagerIInv
<1>3. CASE MonitorPolls(m)
  <2> DEFINE e == CASE status[watched[m]] = "quit" -> "quit"
                    [] status[watched[m]] = "crashed" -> "crash"
                    [] Alive(watched[m]) /\ SocketAnswers -> "top"
                    [] OTHER -> "grace"
  <2>1. e \in {"top", "sleep", "grace", "lost", "quit", "crash"}
    BY DEF Alive
  <2>2. /\ monitor[m] = "sleep"
        /\ monitor' = [monitor EXCEPT ![m] = e]
        /\ UNCHANGED <<state, proc, wait, starter, watched, main, status, told>>
    BY <1>3 DEF MonitorPolls, processes
  <2> HIDE DEF e
  <2> QED BY <2>1, <2>2, MonitorMoves
<1>4. CASE MonitorGrace(m)
  BY <1>4, MonitorMoves DEF MonitorGrace, processes
<1>5. CASE (MonitorLost(m) \/ MonitorStops(m)) /\ state # "READY"
  <2>1. CASE MonitorLost(m)
    BY <1>5, <2>1, MonitorLeaves DEF MonitorLost, processes
  <2>2. CASE MonitorStops(m)
    <3>1. /\ monitor' = [monitor EXCEPT ![m] = IF monitor[m] = "crash" THEN "cooldown" ELSE "off"]
          /\ UNCHANGED <<state, proc, wait, starter, watched, main, status, told>>
      BY <1>0, <1>5, <2>2 DEF MonitorStops, processes
    <3> QED BY <1>5, <3>1, MonitorLeaves
  <2> QED BY <1>5, <2>1, <2>2
<1>6. CASE MonitorLost(m) /\ state = "READY"
  <2>1. /\ monitor[m] = "lost"
        /\ monitor' = [monitor EXCEPT ![m] = "off"]
        /\ proc' = NoProc
        /\ TriggerStart
        /\ UNCHANGED <<wait, watched, main, status, told>>
    BY <1>6 DEF MonitorLost, processes
  <2>2. /\ Starting = {}
        /\ \A n \in Procs : monitor'[n] \in Inactive
    BY <1>0, <1>6, <2>1, TheMonitor
  <2>3. /\ starter' \in [Starters -> StarterRecords]
        /\ state' = "STARTING"
        /\ StartersHaveProcs'
        /\ StartingIsOwned'
    BY <2>1, <2>2, TriggerStartFacts
  <2>4. ManagerTypeOK'
    BY <2>1, <2>3 DEF ManagerIInv, ManagerTypeOK, StarterRecords, States
  <2>5. ReadyIsWatched' /\ NobodyWatches' /\ TerminatesCurrent'
    BY <1>6, <2>1, <2>2, <2>3
       DEF ManagerIInv, ReadyIsWatched, NobodyWatches, TerminatesCurrent
  <2> QED BY <2>3, <2>4, <2>5 DEF ManagerIInv
<1>7. CASE MonitorStops(m) /\ state = "READY"
  <2>1. /\ monitor[m] \in {"quit", "crash"}
        /\ monitor' = [monitor EXCEPT ![m] = IF monitor[m] = "crash" THEN "cooldown" ELSE "off"]
        /\ state' = "STOPPED"
        /\ proc' = NoProc
        /\ UNCHANGED <<wait, starter, watched, main, status, told>>
    BY <1>0, <1>7 DEF MonitorStops, processes
  <2>2. /\ Starting = {} /\ Starting' = Starting
        /\ \A n \in Procs : monitor'[n] \in Inactive
    BY <1>0, <1>7, <2>1, TheMonitor DEF Starting
  <2>3. ManagerTypeOK'
    BY <2>1 DEF ManagerIInv, ManagerTypeOK, States
  <2>4. /\ StartersHaveProcs' /\ StartingIsOwned' /\ ReadyIsWatched'
        /\ NobodyWatches' /\ TerminatesCurrent'
    BY <1>7, <2>1, <2>2 DEF ManagerIInv, StartersHaveProcs, StartingIsOwned, ReadyIsWatched,
       NobodyWatches, TerminatesCurrent
  <2> QED BY <2>3, <2>4 DEF ManagerIInv
<1>8. CASE MonitorCooldownOver(m) /\ state = "STOPPED"
  <2>1. /\ monitor' = [monitor EXCEPT ![m] = "off"]
        /\ TriggerStart
        /\ UNCHANGED <<proc, wait, watched, main, status, told>>
    BY <1>8 DEF MonitorCooldownOver, processes
  <2>2. /\ Starting = {} /\ proc = NoProc
        /\ \A n \in Procs : monitor'[n] \in Inactive
    BY <1>0, <1>8, <2>1 DEF ManagerIInv, StartingIsOwned, NobodyWatches
  <2>3. /\ starter' \in [Starters -> StarterRecords]
        /\ state' = "STARTING"
        /\ StartersHaveProcs'
        /\ StartingIsOwned'
    BY <2>1, <2>2, TriggerStartFacts
  <2>4. ManagerTypeOK'
    BY <2>1, <2>3 DEF ManagerIInv, ManagerTypeOK, StarterRecords, States
  <2>5. ReadyIsWatched' /\ NobodyWatches' /\ TerminatesCurrent'
    BY <1>8, <2>1, <2>2, <2>3
       DEF ManagerIInv, ReadyIsWatched, NobodyWatches, TerminatesCurrent
  <2> QED BY <2>3, <2>4, <2>5 DEF ManagerIInv
<1>9. CASE MonitorCooldownOver(m) /\ state # "STOPPED"
  BY <1>9, MonitorLeaves DEF MonitorCooldownOver, processes
<1> QED BY <1>1, <1>2, <1>3, <1>4, <1>5, <1>6, <1>7, <1>8, <1>9 DEF MonitorStep

-----------------------------------------------------------------------------
(* The other steps.                                                        *)

LEMMA InitManagerIInv == ManagerInit => ManagerIInv
<1> SUFFICES ASSUME ManagerInit PROVE ManagerIInv
  OBVIOUS
<1>1. starter \in [Starters -> StarterRecords] /\ Starting = {}
  BY DEF ManagerInit, Off, StarterRecords, Starting
<1>2. ManagerTypeOK
  BY <1>1 DEF ManagerInit, ManagerTypeOK, StarterRecords, States
<1>3. StartersHaveProcs
  BY DEF ManagerInit, StartersHaveProcs, Off
<1>4. StartingIsOwned /\ ReadyIsWatched /\ NobodyWatches /\ TerminatesCurrent
  BY <1>1 DEF ManagerInit, StartingIsOwned, ReadyIsWatched, NobodyWatches, TerminatesCurrent
<1> QED BY <1>2, <1>3, <1>4 DEF ManagerIInv

LEMMA ClientStepIInv ==
  ASSUME ManagerIInv, NEW c \in Callers,
         \/ CallWaitReady(c) \/ WaitReadyReturns(c) \/ WaitReadyTimesOut(c)
         \/ WaitReadyStarts(c)
  PROVE  ManagerIInv'
<1>1. CASE CallWaitReady(c) \/ WaitReadyReturns(c) \/ WaitReadyTimesOut(c)
  <2>1. /\ UNCHANGED <<state, proc, starter, monitor, watched, main, status, told>>
        /\ wait' \in [Callers -> {"idle", "waiting", "ready", "failed"}]
    BY <1>1 DEF CallWaitReady, WaitReadyReturns, WaitReadyTimesOut, threads,
       processes, ManagerIInv, ManagerTypeOK
  <2>2. ManagerTypeOK'
    BY <2>1 DEF ManagerIInv, ManagerTypeOK
  <2>3. /\ StartersHaveProcs' /\ StartingIsOwned' /\ ReadyIsWatched'
        /\ NobodyWatches' /\ TerminatesCurrent'
    BY <2>1 DEF ManagerIInv, StartersHaveProcs, StartingIsOwned, Starting, ReadyIsWatched,
       NobodyWatches, TerminatesCurrent
  <2> QED BY <2>2, <2>3 DEF ManagerIInv
<1>2. CASE WaitReadyStarts(c)
  <2>1. /\ state = "STOPPED" /\ TriggerStart
        /\ UNCHANGED <<proc, wait, monitor, watched, main, status, told>>
    BY <1>2 DEF WaitReadyStarts, processes
  <2>2. /\ Starting = {} /\ proc = NoProc
        /\ \A m \in Procs : monitor[m] \in Inactive
    BY <2>1 DEF ManagerIInv, StartingIsOwned, NobodyWatches
  <2>3. /\ starter' \in [Starters -> StarterRecords]
        /\ state' = "STARTING"
        /\ StartersHaveProcs'
        /\ StartingIsOwned'
    BY <2>1, <2>2, TriggerStartFacts
  <2>4. ManagerTypeOK'
    BY <2>1, <2>3 DEF ManagerIInv, ManagerTypeOK, StarterRecords, States
  <2>5. ReadyIsWatched' /\ NobodyWatches' /\ TerminatesCurrent'
    BY <2>1, <2>2, <2>3 DEF ManagerIInv, ReadyIsWatched, NobodyWatches, TerminatesCurrent
  <2> QED BY <2>3, <2>4, <2>5 DEF ManagerIInv
<1> QED BY <1>1, <1>2

LEMMA MainStepIInv ==
  ASSUME ManagerIInv, Shutdown \/ ShutdownTerminates \/ Exit
  PROVE  ManagerIInv'
<1>1. CASE Shutdown
  <2>1. ManagerTypeOK'
    BY <1>1 DEF ManagerIInv, ManagerTypeOK, Shutdown, threads, processes, States
  <2>2. StartersHaveProcs' /\ StartingIsOwned' /\ ReadyIsWatched'
    BY <1>1 DEF ManagerIInv, StartersHaveProcs, StartingIsOwned, Starting, ReadyIsWatched,
       Shutdown, threads
  <2>3. NobodyWatches' /\ TerminatesCurrent'
    BY <1>1 DEF ManagerIInv, NobodyWatches, Starting, TerminatesCurrent, Shutdown, threads
  <2> QED BY <2>1, <2>2, <2>3 DEF ManagerIInv
<1>2. CASE ShutdownTerminates
  <2>1. proc \in Procs
    BY <1>2 DEF ManagerIInv, ManagerTypeOK, TerminatesCurrent, ShutdownTerminates
  <2>2. status' \in [Procs -> {"unborn", "starting", "serving", "deaf", "quit", "crashed"}]
    BY <1>2, <2>1 DEF ManagerIInv, ManagerTypeOK, ShutdownTerminates
  <2>3. ManagerTypeOK'
    BY <1>2, <2>1, <2>2 DEF ManagerIInv, ManagerTypeOK, ShutdownTerminates, threads
  <2>4. /\ StartersHaveProcs' /\ StartingIsOwned' /\ ReadyIsWatched'
        /\ NobodyWatches' /\ TerminatesCurrent'
    BY <1>2 DEF ManagerIInv, StartersHaveProcs, StartingIsOwned, Starting, ReadyIsWatched,
       NobodyWatches, TerminatesCurrent, ShutdownTerminates, threads
  <2> QED BY <2>3, <2>4 DEF ManagerIInv
<1>3. CASE Exit
  <2>1. ManagerTypeOK'
    BY <1>3 DEF ManagerIInv, ManagerTypeOK, Exit, threads, processes
  <2>2. /\ StartersHaveProcs' /\ StartingIsOwned' /\ ReadyIsWatched'
        /\ NobodyWatches' /\ TerminatesCurrent'
    BY <1>3 DEF ManagerIInv, StartersHaveProcs, StartingIsOwned, Starting, ReadyIsWatched,
       NobodyWatches, TerminatesCurrent, Exit, threads
  <2> QED BY <2>1, <2>2 DEF ManagerIInv
<1> QED BY <1>1, <1>2, <1>3

LEMMA OutsideManagerIInv ==
  ASSUME ManagerIInv, UNCHANGED managerVars \/ \E p \in Procs : ProcessStep(p)
  PROVE  ManagerIInv'
<1>1. /\ UNCHANGED <<state, proc, wait, starter, monitor, watched, main, told>>
      /\ status' \in [Procs -> {"unborn", "starting", "serving", "deaf", "quit", "crashed"}]
  BY DEF ProcessStep, managerVars, threads, ManagerIInv, ManagerTypeOK
<1>2. ManagerTypeOK'
  BY <1>1 DEF ManagerIInv, ManagerTypeOK
<1>3. /\ StartersHaveProcs' /\ StartingIsOwned' /\ ReadyIsWatched'
      /\ NobodyWatches' /\ TerminatesCurrent'
  BY <1>1 DEF ManagerIInv, StartersHaveProcs, StartingIsOwned, Starting, ReadyIsWatched,
     NobodyWatches, TerminatesCurrent
<1> QED BY <1>2, <1>3 DEF ManagerIInv

LEMMA AlwaysManagerIInv == ManagerSpec => []ManagerIInv
<1>1. ManagerIInv /\ [ManagerNext]_managerVars => ManagerIInv'
  BY ClientStepIInv, StarterStepIInv, MonitorStepIInv, MainStepIInv, OutsideManagerIInv DEF ManagerNext
<1> QED BY <1>1, InitManagerIInv, PTL DEF ManagerSpec

-----------------------------------------------------------------------------
(* ManagerTypeOK: among other things, what is terminated is always a process that *)
(* was launched, and no start makes more attempts than MAX_RETRY.          *)
THEOREM ManagerTypes == ManagerSpec => []ManagerTypeOK
<1>1. ManagerIInv => ManagerTypeOK
  BY DEF ManagerIInv
<1> QED BY <1>1, AlwaysManagerIInv, PTL

(* However many client, start and monitor threads there are: state STARTING*)
(* has one start thread behind it, and state READY one monitor thread that *)
(* polls the current process.                                              *)
THEOREM ManagerStatesHaveThreads == ManagerSpec => []StatesHaveThreads
<1>1. ManagerIInv => StatesHaveThreads
  BY DEF ManagerIInv, StatesHaveThreads
<1> QED BY <1>1, AlwaysManagerIInv, PTL

HIDE ManagerAssumption DEF Inactive

-----------------------------------------------------------------------------
(* StartUp.                                                                *)

LauncherStages == {"off", "read", "alive", "stale", "probe", "launch", "open",
                   "write", "wait", "connect", "relay", "done"}

StartTypes ==
  /\ browser \in [Browsers -> {"unborn", "starting", "serving", "gone"}]
  /\ path \in Browsers \cup {Nobody}
  /\ disturbed \in BOOLEAN
  /\ launcher \in [Launchers -> LauncherStages]
  /\ seen \in [Launchers -> Browsers \cup {Nobody}]
  /\ lock \in {Absent} \cup {<<b>> : b \in Browsers \cup {Nobody}}
  /\ writes \subseteq Launchers
  /\ client \in [Clients -> {"off", "proxy", "other", "spawn", "poll",
                             "daemon", "chromium", "exit"}]
  /\ daemon \in [Daemons -> {"unborn", "pid", "unlink", "bind", "listen",
                             "serve", "shutdown", "gone"}]
  /\ proxyPath \in Daemons \cup {Nobody}
  /\ listening \subseteq Daemons

LauncherBusy(l) == launcher[l] \notin Settled
ClientBusy(c) == client[c] \notin ClientSettled

(* At most one program is on its way to its connection.                    *)
OneAtATime ==
  /\ \A l, m \in Launchers : LauncherBusy(l) /\ LauncherBusy(m) => l = m
  /\ \A c, e \in Clients : ClientBusy(c) /\ ClientBusy(e) => c = e
  /\ \A l \in Launchers, c \in Clients : ~(LauncherBusy(l) /\ ClientBusy(c))

NoBrowser == \A b \in Browsers : browser[b] = "unborn"

(* There is one browser at most, and the path is its own.                  *)
OneBrowser ==
  /\ \A a, b \in Browsers : browser[a] # "unborn" /\ browser[b] # "unborn" => a = b
  /\ \A b \in Browsers : /\ browser[b] # "gone"
                         /\ browser[b] = "serving" => path = b

(* The lock file names the browser that serves, if there is one.           *)
LockNames ==
  \/ NoBrowser /\ lock = Absent
  \/ \E b \in Browsers : browser[b] = "serving" /\ lock = <<b>>

(* It does so but while a launcher is bringing a browser up, ...           *)
LockIsRight ==
  LockNames \/ \E l \in Launchers : launcher[l] \in {"open", "write", "wait"}

(* ... which finds the state of the file that its own steps have made.     *)
LauncherKnows(l) ==
  /\ launcher[l] # "stale"
  /\ launcher[l] \in {"alive", "probe"} =>
       /\ seen[l] \in Browsers
       /\ browser[seen[l]] = "serving"
       /\ lock = <<seen[l]>>
  /\ launcher[l] = "launch" => NoBrowser /\ lock = Absent
  /\ launcher[l] \in {"open", "write", "wait"} =>
       /\ seen[l] \in Browsers
       /\ browser[seen[l]] # "unborn"
  /\ launcher[l] = "write" => l \in writes
  /\ launcher[l] = "wait" => lock = <<seen[l]>>

LaunchersKnow == LockIsRight /\ \A l \in Launchers : LauncherKnows(l)

NoDaemon == \A d \in Daemons : daemon[d] = "unborn"

(* There is one daemon at most, and the path is its own from bind() on.    *)
OneDaemon ==
  /\ \A d, e \in Daemons : daemon[d] # "unborn" /\ daemon[e] # "unborn" => d = e
  /\ \A d \in Daemons :
       /\ daemon[d] \in {"unborn", "pid", "bind", "listen", "serve"}
       /\ daemon[d] \in {"pid", "bind"} => proxyPath = Nobody
       /\ daemon[d] \in {"listen", "serve"} => proxyPath = d
       /\ d \in listening <=> daemon[d] = "serve"
  /\ proxyPath # Nobody => daemon[proxyPath] \in {"listen", "serve"}

(* It serves but while the client that has started it waits for it, and a  *)
(* client that starts one has found neither a daemon nor a browser.        *)
ClientsKnow ==
  /\ \/ \A d \in Daemons : daemon[d] \in {"unborn", "serve"}
     \/ \E c \in Clients : client[c] = "poll"
  /\ \A c \in Clients :
       /\ client[c] \in {"other", "spawn"} => NoDaemon
       /\ client[c] \in {"spawn", "poll"} => NoBrowser

Calm == OneAtATime /\ OneBrowser /\ LaunchersKnow /\ OneDaemon /\ ClientsKnow

StartIInv == StartTypes /\ (~disturbed => Calm)

USE StartsAssumption, DaemonsAssumption DEF Nobody

LEMMA LockValues ==
  /\ Absent # Empty
  /\ \A b \in Browsers : <<b>> # Absent /\ <<b>> # Empty
  /\ \A a, b \in Browsers : <<a>> = <<b>> => a = b
BY DEF Absent, Empty, Browsers

LEMMA InitStartIInv == Init => StartIInv
<1> SUFFICES ASSUME Init PROVE StartIInv
  OBVIOUS
<1> USE DEF Init, SharedInit, LauncherInit, StartInit
<1>1. StartTypes
  BY DEF StartTypes, LauncherStages
<1>2. OneAtATime
  BY DEF OneAtATime, LauncherBusy, ClientBusy, Settled, ClientSettled
<1>3. OneBrowser
  BY DEF OneBrowser
<1>4. LaunchersKnow
  BY DEF LaunchersKnow, LockIsRight, LockNames, NoBrowser, LauncherKnows
<1>5. OneDaemon
  BY DEF OneDaemon
<1>6. ClientsKnow
  BY DEF ClientsKnow, NoDaemon, NoBrowser
<1> QED BY <1>1, <1>2, <1>3, <1>4, <1>5, <1>6 DEF StartIInv, Calm

-----------------------------------------------------------------------------
(* What steps of one side leave alone on the other.                        *)

(* A program that goes on starts no other.                                 *)
LEMMA NoneStarts ==
  ASSUME OneAtATime,
         \A l \in Launchers : launcher'[l] \notin Settled => launcher[l] \notin Settled,
         \A c \in Clients : client'[c] \notin ClientSettled => client[c] \notin ClientSettled
  PROVE  OneAtATime'
BY DEF OneAtATime, LauncherBusy, ClientBusy

(* A program is started when none is on its way.                           *)
LEMMA NotBusy ==
  ASSUME ~Busy
  PROVE  /\ \A l \in Launchers : launcher[l] \in Settled
         /\ \A c \in Clients : client[c] \in ClientSettled
BY DEF Busy

(* The steps of launchers and of browsers and what clients know.           *)
LEMMA ClientsUntouched ==
  ASSUME UNCHANGED startVars, OneDaemon, ClientsKnow,
         (NoBrowser => NoBrowser') \/ \A c \in Clients : client[c] \in ClientSettled
  PROVE  OneDaemon' /\ ClientsKnow'
<1>1. UNCHANGED <<client, daemon, proxyPath, listening>>
  BY DEF startVars
<1>2. OneDaemon'
  BY <1>1 DEF OneDaemon
<1>3. ClientsKnow'
  BY <1>1 DEF ClientsKnow, NoDaemon, ClientSettled
<1> QED BY <1>2, <1>3

(* The steps of clients and daemons and what launchers know.               *)
LEMMA LaunchersUntouched ==
  ASSUME UNCHANGED launcherVars, UNCHANGED <<browser, path>>, OneBrowser, LaunchersKnow
  PROVE  OneBrowser' /\ LaunchersKnow'
<1>1. UNCHANGED <<launcher, seen, child, lock, writes>>
  BY DEF launcherVars
<1>2. OneBrowser'
  BY DEF OneBrowser
<1>3. LaunchersKnow'
  BY <1>1 DEF LaunchersKnow, LockIsRight, LockNames, LauncherKnows, NoBrowser
<1> QED BY <1>2, <1>3

-----------------------------------------------------------------------------
(* The steps of a launcher.  While it takes one, no other program is busy. *)

(* There is a browser if and only if the file names one.                   *)
LEMMA ReadLockCalm ==
  ASSUME StartIInv, NEW l \in Launchers, ReadLock(l), UNCHANGED startVars
  PROVE  StartIInv'
<1> USE DEF ReadLock, Goes, sharedVars
<1>1. StartTypes'
  BY LockValues DEF StartIInv, StartTypes, LauncherStages, startVars
<1>2. ASSUME ~disturbed' PROVE Calm'
  <2>1. Calm
    BY <1>2 DEF StartIInv
  <2>2. OneAtATime'
    BY <2>1, NoneStarts DEF Calm, startVars, Settled, StartIInv, StartTypes
  <2>3. \A c \in Clients : client[c] \in ClientSettled
    BY <2>1 DEF Calm, OneAtATime, LauncherBusy, ClientBusy, Settled
  <2>4. OneDaemon' /\ ClientsKnow'
    BY <2>1, <2>3, ClientsUntouched DEF Calm
  <2>5. OneBrowser'
    BY <2>1 DEF Calm, OneBrowser
  <2>6. \A m \in Launchers \ {l} : launcher[m] \in Settled
    BY <2>1 DEF Calm, OneAtATime, LauncherBusy, Settled
  <2>7. LaunchersKnow'
    BY <2>1, <2>6, LockValues DEF Calm, LaunchersKnow, LockIsRight, LockNames, LauncherKnows, NoBrowser,
       Settled, StartIInv, StartTypes
  <2> QED BY <2>2, <2>4, <2>5, <2>7 DEF Calm
<1> QED BY <1>1, <1>2 DEF StartIInv

(* The browser that the file names is alive.                               *)
LEMMA CheckProcessCalm ==
  ASSUME StartIInv, NEW l \in Launchers, CheckProcess(l), UNCHANGED startVars
  PROVE  StartIInv'
<1> USE DEF CheckProcess, PidExists, Running, Goes, sharedVars
<1>1. StartTypes'
  BY LockValues DEF StartIInv, StartTypes, LauncherStages, startVars
<1>2. ASSUME ~disturbed' PROVE Calm'
  <2>1. Calm
    BY <1>2 DEF StartIInv
  <2>2. OneAtATime'
    BY <2>1, NoneStarts DEF Calm, startVars, Settled, StartIInv, StartTypes
  <2>3. \A c \in Clients : client[c] \in ClientSettled
    BY <2>1 DEF Calm, OneAtATime, LauncherBusy, ClientBusy, Settled
  <2>4. OneDaemon' /\ ClientsKnow'
    BY <2>1, <2>3, ClientsUntouched DEF Calm
  <2>5. OneBrowser'
    BY <2>1 DEF Calm, OneBrowser
  <2>6. \A m \in Launchers \ {l} : launcher[m] \in Settled
    BY <2>1 DEF Calm, OneAtATime, LauncherBusy, Settled
  <2>7. LaunchersKnow'
    BY <2>1, <2>6, LockValues DEF Calm, LaunchersKnow, LockIsRight, LockNames, LauncherKnows, NoBrowser,
       Settled, StartIInv, StartTypes
  <2> QED BY <2>2, <2>4, <2>5, <2>7 DEF Calm
<1> QED BY <1>1, <1>2 DEF StartIInv

(* The file is not removed.                                                *)
LEMMA RemoveStaleCalm ==
  ASSUME StartIInv, NEW l \in Launchers, RemoveStale(l), UNCHANGED startVars
  PROVE  StartIInv'
<1> USE DEF RemoveStale, Goes, sharedVars
<1>1. StartTypes'
  BY LockValues DEF StartIInv, StartTypes, LauncherStages, startVars
<1>2. ASSUME ~disturbed' PROVE Calm'
  <2>1. Calm
    BY <1>2 DEF StartIInv
  <2>2. OneAtATime'
    BY <2>1, NoneStarts DEF Calm, startVars, Settled, StartIInv, StartTypes
  <2>3. \A c \in Clients : client[c] \in ClientSettled
    BY <2>1 DEF Calm, OneAtATime, LauncherBusy, ClientBusy, Settled
  <2>4. OneDaemon' /\ ClientsKnow'
    BY <2>1, <2>3, ClientsUntouched DEF Calm
  <2>5. OneBrowser'
    BY <2>1 DEF Calm, OneBrowser
  <2>6. \A m \in Launchers \ {l} : launcher[m] \in Settled
    BY <2>1 DEF Calm, OneAtATime, LauncherBusy, Settled
  <2>7. LaunchersKnow'
    BY <2>1, <2>6, LockValues DEF Calm, LaunchersKnow, LockIsRight, LockNames, LauncherKnows, NoBrowser,
       Settled, StartIInv, StartTypes
  <2> QED BY <2>2, <2>4, <2>5, <2>7 DEF Calm
<1> QED BY <1>1, <1>2 DEF StartIInv

(* The browser that the file names answers.                                *)
LEMMA ProbeCalm ==
  ASSUME StartIInv, NEW l \in Launchers, Probe(l), UNCHANGED startVars
  PROVE  StartIInv'
<1> USE DEF Probe, Connectable, Goes, sharedVars
<1>1. StartTypes'
  BY LockValues DEF StartIInv, StartTypes, LauncherStages, startVars
<1>2. ASSUME ~disturbed' PROVE Calm'
  <2>1. Calm
    BY <1>2 DEF StartIInv
  <2>2. OneAtATime'
    BY <2>1, NoneStarts DEF Calm, startVars, Settled, StartIInv, StartTypes
  <2>3. \A c \in Clients : client[c] \in ClientSettled
    BY <2>1 DEF Calm, OneAtATime, LauncherBusy, ClientBusy, Settled
  <2>4. OneDaemon' /\ ClientsKnow'
    BY <2>1, <2>3, ClientsUntouched DEF Calm
  <2>5. OneBrowser'
    BY <2>1 DEF Calm, OneBrowser
  <2>6. \A m \in Launchers \ {l} : launcher[m] \in Settled
    BY <2>1 DEF Calm, OneAtATime, LauncherBusy, Settled
  <2>7. LaunchersKnow'
    <3>1. seen[l] \in Browsers /\ browser[seen[l]] = "serving"
      BY <2>1 DEF Calm, LaunchersKnow, LauncherKnows
    <3>2. Connectable
      BY <2>1, <3>1 DEF Calm, OneBrowser, Connectable, Browsers
    <3>3. launcher' = [launcher EXCEPT ![l] = "connect"]
      BY <3>2
    <3>4. LockIsRight'
      BY <2>1, <2>6, <3>3 DEF Calm, LaunchersKnow, LockIsRight, LockNames, NoBrowser,
         Settled, StartIInv, StartTypes
    <3>5. \A m \in Launchers : LauncherKnows(m)'
      BY <2>6, <3>3 DEF LauncherKnows, Settled, StartIInv, StartTypes
    <3> QED BY <3>4, <3>5 DEF LaunchersKnow
  <2> QED BY <2>2, <2>4, <2>5, <2>7 DEF Calm
<1> QED BY <1>1, <1>2 DEF StartIInv

(* The first browser is launched.                                          *)
LEMMA LaunchBrowserCalm ==
  ASSUME StartIInv, NEW l \in Launchers, LaunchBrowser(l), UNCHANGED startVars
  PROVE  StartIInv'
<1> USE DEF LaunchBrowser, Launch, Goes, sharedVars
<1>1. StartTypes'
  <2>1. browser' \in [Browsers -> {"unborn", "starting", "serving", "gone"}]
    BY DEF StartIInv, StartTypes
  <2>2. seen' \in [Launchers -> Browsers \cup {Nobody}]
    BY DEF StartIInv, StartTypes
  <2>3. launcher' \in [Launchers -> LauncherStages] /\ disturbed' \in BOOLEAN
    BY DEF StartIInv, StartTypes, LauncherStages
  <2> QED BY <2>1, <2>2, <2>3 DEF StartIInv, StartTypes, startVars
<1>2. ASSUME ~disturbed' PROVE Calm'
  <2>1. Calm
    BY <1>2 DEF StartIInv
  <2>2. OneAtATime'
    BY <2>1, NoneStarts DEF Calm, startVars, Settled, StartIInv, StartTypes
  <2>3. \A c \in Clients : client[c] \in ClientSettled
    BY <2>1 DEF Calm, OneAtATime, LauncherBusy, ClientBusy, Settled
  <2>4. OneDaemon' /\ ClientsKnow'
    BY <2>1, <2>3, ClientsUntouched DEF Calm
  <2>0. NoBrowser
    BY <2>1 DEF Calm, LaunchersKnow, LauncherKnows
  <2>5. OneBrowser'
    BY <1>2, <2>0 DEF OneBrowser, NoBrowser, StartIInv, StartTypes
  <2>6. \A m \in Launchers \ {l} : launcher[m] \in Settled
    BY <2>1 DEF Calm, OneAtATime, LauncherBusy, Settled
  <2>7. LaunchersKnow'
    <3>1. PICK b \in Browsers :
            /\ browser' = [browser EXCEPT ![b] = "starting"]
            /\ seen' = [seen EXCEPT ![l] = b]
            /\ launcher' = [launcher EXCEPT ![l] = "open"]
      BY <1>2
    <3>2. LockIsRight'
      BY <3>1 DEF LockIsRight, StartIInv, StartTypes
    <3>3. \A m \in Launchers : LauncherKnows(m)'
      BY <2>6, <3>1 DEF LauncherKnows, Settled, StartIInv, StartTypes
    <3> QED BY <3>2, <3>3 DEF LaunchersKnow
  <2> QED BY <2>2, <2>4, <2>5, <2>7 DEF Calm
<1> QED BY <1>1, <1>2 DEF StartIInv

(* The file is created ...                                                 *)
LEMMA OpenLockCalm ==
  ASSUME StartIInv, NEW l \in Launchers, OpenLock(l), UNCHANGED startVars
  PROVE  StartIInv'
<1> USE DEF OpenLock, Goes, sharedVars
<1>1. StartTypes'
  <2>1. lock' \in {Absent} \cup {<<b>> : b \in Browsers \cup {Nobody}}
    BY DEF Empty
  <2> QED BY <2>1 DEF StartIInv, StartTypes, LauncherStages, startVars
<1>2. ASSUME ~disturbed' PROVE Calm'
  <2>1. Calm
    BY <1>2 DEF StartIInv
  <2>2. OneAtATime'
    BY <2>1, NoneStarts DEF Calm, startVars, Settled, StartIInv, StartTypes
  <2>3. \A c \in Clients : client[c] \in ClientSettled
    BY <2>1 DEF Calm, OneAtATime, LauncherBusy, ClientBusy, Settled
  <2>4. OneDaemon' /\ ClientsKnow'
    BY <2>1, <2>3, ClientsUntouched DEF Calm
  <2>5. OneBrowser'
    BY <2>1 DEF Calm, OneBrowser
  <2>6. \A m \in Launchers \ {l} : launcher[m] \in Settled
    BY <2>1 DEF Calm, OneAtATime, LauncherBusy, Settled
  <2>7. LaunchersKnow'
    BY <2>1, <2>6, LockValues DEF Calm, LaunchersKnow, LockIsRight, LockNames, LauncherKnows, NoBrowser,
       Settled, StartIInv, StartTypes
  <2> QED BY <2>2, <2>4, <2>5, <2>7 DEF Calm
<1> QED BY <1>1, <1>2 DEF StartIInv

(* ... and names the browser.                                              *)
LEMMA WriteLockCalm ==
  ASSUME StartIInv, NEW l \in Launchers, WriteLock(l), UNCHANGED startVars
  PROVE  StartIInv'
<1> USE DEF WriteLock, Goes, sharedVars
<1>1. StartTypes'
  BY LockValues DEF StartIInv, StartTypes, LauncherStages, startVars
<1>2. ASSUME ~disturbed' PROVE Calm'
  <2>1. Calm
    BY <1>2 DEF StartIInv
  <2>2. OneAtATime'
    BY <2>1, NoneStarts DEF Calm, startVars, Settled, StartIInv, StartTypes
  <2>3. \A c \in Clients : client[c] \in ClientSettled
    BY <2>1 DEF Calm, OneAtATime, LauncherBusy, ClientBusy, Settled
  <2>4. OneDaemon' /\ ClientsKnow'
    BY <2>1, <2>3, ClientsUntouched DEF Calm
  <2>5. OneBrowser'
    BY <2>1 DEF Calm, OneBrowser
  <2>6. \A m \in Launchers \ {l} : launcher[m] \in Settled
    BY <2>1 DEF Calm, OneAtATime, LauncherBusy, Settled
  <2>7. LaunchersKnow'
    BY <2>1, <2>6, LockValues DEF Calm, LaunchersKnow, LockIsRight, LockNames, LauncherKnows, NoBrowser,
       Settled, StartIInv, StartTypes
  <2> QED BY <2>2, <2>4, <2>5, <2>7 DEF Calm
<1> QED BY <1>1, <1>2 DEF StartIInv

(* The socket that answers is the one of the browser in the file.          *)
LEMMA SocketIsThereCalm ==
  ASSUME StartIInv, NEW l \in Launchers, SocketIsThere(l), UNCHANGED startVars
  PROVE  StartIInv'
<1> USE DEF SocketIsThere, Connectable, Goes, sharedVars
<1>1. StartTypes'
  BY LockValues DEF StartIInv, StartTypes, LauncherStages, startVars
<1>2. ASSUME ~disturbed' PROVE Calm'
  <2>1. Calm
    BY <1>2 DEF StartIInv
  <2>2. OneAtATime'
    BY <2>1, NoneStarts DEF Calm, startVars, Settled, StartIInv, StartTypes
  <2>3. \A c \in Clients : client[c] \in ClientSettled
    BY <2>1 DEF Calm, OneAtATime, LauncherBusy, ClientBusy, Settled
  <2>4. OneDaemon' /\ ClientsKnow'
    BY <2>1, <2>3, ClientsUntouched DEF Calm
  <2>5. OneBrowser'
    BY <2>1 DEF Calm, OneBrowser
  <2>6. \A m \in Launchers \ {l} : launcher[m] \in Settled
    BY <2>1 DEF Calm, OneAtATime, LauncherBusy, Settled
  <2>7. LaunchersKnow'
    <3>1. path \in Browsers /\ browser[path] = "serving"
      BY DEF StartIInv, StartTypes, Connectable
    <3>2. lock = <<seen[l]>> /\ seen[l] \in Browsers /\ browser[seen[l]] # "unborn"
      BY <2>1 DEF Calm, LaunchersKnow, LauncherKnows
    <3>3. seen[l] = path
      BY <2>1, <3>1, <3>2 DEF Calm, OneBrowser
    <3>4. LockIsRight'
      BY <3>1, <3>2, <3>3 DEF LockIsRight, LockNames
    <3>5. \A m \in Launchers : LauncherKnows(m)'
      BY <2>6 DEF LauncherKnows, Settled, StartIInv, StartTypes
    <3> QED BY <3>4, <3>5 DEF LaunchersKnow
  <2> QED BY <2>2, <2>4, <2>5, <2>7 DEF Calm
<1> QED BY <1>1, <1>2 DEF StartIInv

(* The launcher is connected, or not.                                      *)
LEMMA ConnectCalm ==
  ASSUME StartIInv, NEW l \in Launchers, Connect(l), UNCHANGED startVars
  PROVE  StartIInv'
<1> USE DEF Connect, Goes, sharedVars
<1>1. StartTypes'
  BY LockValues DEF StartIInv, StartTypes, LauncherStages, startVars
<1>2. ASSUME ~disturbed' PROVE Calm'
  <2>1. Calm
    BY <1>2 DEF StartIInv
  <2>2. OneAtATime'
    BY <2>1, NoneStarts DEF Calm, startVars, Settled, StartIInv, StartTypes
  <2>3. \A c \in Clients : client[c] \in ClientSettled
    BY <2>1 DEF Calm, OneAtATime, LauncherBusy, ClientBusy, Settled
  <2>4. OneDaemon' /\ ClientsKnow'
    BY <2>1, <2>3, ClientsUntouched DEF Calm
  <2>5. OneBrowser'
    BY <2>1 DEF Calm, OneBrowser
  <2>6. \A m \in Launchers \ {l} : launcher[m] \in Settled
    BY <2>1 DEF Calm, OneAtATime, LauncherBusy, Settled
  <2>7. LaunchersKnow'
    BY <2>1, <2>6, LockValues DEF Calm, LaunchersKnow, LockIsRight, LockNames, LauncherKnows, NoBrowser,
       Settled, StartIInv, StartTypes
  <2> QED BY <2>2, <2>4, <2>5, <2>7 DEF Calm
<1> QED BY <1>1, <1>2 DEF StartIInv

LEMMA SocketTimesOutCalm ==
  ASSUME StartIInv, NEW l \in Launchers, SocketTimesOut(l), UNCHANGED startVars
  PROVE  StartIInv'
<1>1. StartTypes'
  BY DEF SocketTimesOut, Goes, StartIInv, StartTypes, LauncherStages, startVars
<1> QED BY <1>1 DEF SocketTimesOut, StartIInv

LEMMA RelayEndsCalm ==
  ASSUME StartIInv, NEW l \in Launchers, RelayEnds(l), UNCHANGED startVars
  PROVE  StartIInv'
<1> USE DEF RelayEnds, Goes, sharedVars
<1>1. StartTypes'
  BY DEF StartIInv, StartTypes, LauncherStages, startVars
<1>2. ASSUME ~disturbed' PROVE Calm'
  <2>1. Calm
    BY <1>2 DEF StartIInv
  <2>2. OneAtATime'
    BY <2>1, NoneStarts DEF Calm, startVars, Settled, StartIInv, StartTypes
  <2>3. NoBrowser => NoBrowser'
    BY DEF NoBrowser
  <2>4. OneDaemon' /\ ClientsKnow'
    BY <2>1, <2>3, ClientsUntouched DEF Calm
  <2>5. OneBrowser'
    BY <2>1 DEF Calm, OneBrowser
  <2>6. LockIsRight'
    BY <2>1 DEF Calm, LaunchersKnow, LockIsRight, LockNames, NoBrowser, StartIInv,
       StartTypes
  <2>7. \A m \in Launchers : LauncherKnows(m)'
    BY <2>1 DEF Calm, LaunchersKnow, LauncherKnows, NoBrowser, StartIInv, StartTypes
  <2> QED BY <2>2, <2>4, <2>5, <2>6, <2>7 DEF Calm, LaunchersKnow
<1> QED BY <1>1, <1>2 DEF StartIInv

(* A launcher is started when all else is at rest, or disturbs it.         *)
LEMMA StartLauncherCalm ==
  ASSUME StartIInv, NEW l \in Launchers, StartLauncher(l, Busy), UNCHANGED startVars
  PROVE  StartIInv'
<1> USE DEF StartLauncher, Goes
<1>1. StartTypes'
  BY DEF StartIInv, StartTypes, LauncherStages, startVars, Busy
<1>2. ASSUME ~disturbed' PROVE Calm'
  <2>1. Calm /\ ~Busy
    BY <1>2 DEF StartIInv
  <2>2. /\ \A m \in Launchers : launcher[m] \in Settled
        /\ \A c \in Clients : client[c] \in ClientSettled
    BY <2>1, NotBusy
  <2>3. OneAtATime'
    BY <2>2 DEF OneAtATime, LauncherBusy, ClientBusy, startVars, StartIInv, StartTypes
  <2>4. OneDaemon' /\ ClientsKnow'
    BY <2>1, <2>2, ClientsUntouched DEF Calm
  <2>5. OneBrowser'
    BY <2>1 DEF Calm, OneBrowser
  <2>6. LockIsRight'
    BY <2>1, <2>2 DEF Calm, LaunchersKnow, LockIsRight, LockNames, NoBrowser, Settled,
       StartIInv, StartTypes
  <2>7. \A m \in Launchers : LauncherKnows(m)'
    BY <2>2 DEF LauncherKnows, Settled, StartIInv, StartTypes
  <2> QED BY <2>3, <2>4, <2>5, <2>6, <2>7 DEF Calm, LaunchersKnow
<1> QED BY <1>1, <1>2 DEF StartIInv

LEMMA LauncherStepCalm ==
  ASSUME StartIInv, NEW l \in Launchers, LauncherStep(l), UNCHANGED startVars
  PROVE  StartIInv'
BY ReadLockCalm, CheckProcessCalm, RemoveStaleCalm, ProbeCalm, LaunchBrowserCalm,
   OpenLockCalm, WriteLockCalm, SocketIsThereCalm, SocketTimesOutCalm, ConnectCalm
   DEF LauncherStep

-----------------------------------------------------------------------------
(* The steps of a client.                                                  *)

(* The type invariant, and all of Calm but what clients and daemons do.    *)
LEMMA ClientMoves ==
  ASSUME StartIInv, NEW c \in Clients, client[c] \notin ClientSettled,
         UNCHANGED launcherVars, UNCHANGED sharedVars,
         \A e \in Clients \ {c} : client'[e] = client[e],
         ~disturbed
  PROVE  /\ OneAtATime' /\ OneBrowser' /\ LaunchersKnow'
         /\ \A l \in Launchers : launcher[l] \in Settled
         /\ \A e \in Clients \ {c} : client[e] \in ClientSettled
<1>1. Calm
  BY DEF StartIInv
<1>2. OneAtATime'
  BY <1>1, NoneStarts DEF Calm, launcherVars
<1>3. OneBrowser' /\ LaunchersKnow'
  BY <1>1, LaunchersUntouched DEF Calm, sharedVars
<1>4. /\ \A l \in Launchers : launcher[l] \in Settled
      /\ \A e \in Clients \ {c} : client[e] \in ClientSettled
  BY <1>1 DEF Calm, OneAtATime, LauncherBusy, ClientBusy
<1> QED BY <1>2, <1>3, <1>4

(* A daemon that has been started serves and answers.                      *)
LEMMA TryProxyCalm ==
  ASSUME StartIInv, NEW c \in Clients, TryProxy(c), UNCHANGED launcherVars
  PROVE  StartIInv'
<1> USE DEF TryProxy, ClientGoes, sharedVars
<1>1. StartTypes'
  BY DEF StartIInv, StartTypes, launcherVars
<1>2. ASSUME ~disturbed' PROVE Calm'
  <2>1. ~disturbed /\ Calm /\ client[c] \notin ClientSettled
    BY <1>2 DEF StartIInv, ClientSettled
  <2>2. \A e \in Clients \ {c} : client'[e] = client[e]
    BY DEF StartIInv, StartTypes
  <2>3. /\ OneAtATime' /\ OneBrowser' /\ LaunchersKnow'
        /\ \A l \in Launchers : launcher[l] \in Settled
        /\ \A e \in Clients \ {c} : client[e] \in ClientSettled
    BY <2>1, <2>2, ClientMoves DEF sharedVars
  <2>4. OneDaemon'
    BY <2>1 DEF Calm, OneDaemon
  <2>5. ClientsKnow'
    <3>1. \A d \in Daemons : daemon[d] \in {"unborn", "serve"}
      BY <2>1, <2>3 DEF Calm, ClientsKnow, ClientSettled
    <3>2. ~ProxyAnswers => NoDaemon
      BY <2>1, <3>1 DEF Calm, OneDaemon, ProxyAnswers, NoDaemon
    <3>3. \A e \in Clients :
            /\ client'[e] \in {"other", "spawn"} => NoDaemon
            /\ client'[e] \notin {"spawn", "poll"}
      BY <2>3, <3>2 DEF ClientSettled, StartIInv, StartTypes
    <3> QED BY <3>1, <3>3 DEF ClientsKnow, NoDaemon
  <2> QED BY <2>3, <2>4, <2>5 DEF Calm
<1> QED BY <1>1, <1>2 DEF StartIInv

(* A browser that has been launched serves and answers.                    *)
LEMMA TryChromiumCalm ==
  ASSUME StartIInv, NEW c \in Clients, TryChromium(c), UNCHANGED launcherVars
  PROVE  StartIInv'
<1> USE DEF TryChromium, ClientGoes, sharedVars
<1>1. StartTypes'
  BY DEF StartIInv, StartTypes, launcherVars
<1>2. ASSUME ~disturbed' PROVE Calm'
  <2>1. ~disturbed /\ Calm /\ client[c] \notin ClientSettled
    BY <1>2 DEF StartIInv, ClientSettled
  <2>2. \A e \in Clients \ {c} : client'[e] = client[e]
    BY DEF StartIInv, StartTypes
  <2>3. /\ OneAtATime' /\ OneBrowser' /\ LaunchersKnow'
        /\ \A l \in Launchers : launcher[l] \in Settled
        /\ \A e \in Clients \ {c} : client[e] \in ClientSettled
    BY <2>1, <2>2, ClientMoves DEF sharedVars
  <2>4. OneDaemon'
    BY <2>1 DEF Calm, OneDaemon
  <2>5. ClientsKnow'
    <3>1. NoDaemon
      BY <2>1 DEF Calm, ClientsKnow
    <3>2. LockNames
      BY <2>1, <2>3 DEF Calm, LaunchersKnow, LockIsRight, Settled
    <3>3. ~Connectable => NoBrowser
      BY <2>1, <3>2 DEF Calm, OneBrowser, LockNames, Connectable, Browsers
    <3>4. \A e \in Clients : client'[e] \in {"spawn", "poll"} => NoBrowser
      BY <2>3, <3>3 DEF ClientSettled, StartIInv, StartTypes
    <3> QED BY <3>1, <3>4 DEF ClientsKnow, NoDaemon, NoBrowser
  <2> QED BY <2>3, <2>4, <2>5 DEF Calm
<1> QED BY <1>1, <1>2 DEF StartIInv

(* The first daemon is started.                                            *)
LEMMA StartDaemonCalm ==
  ASSUME StartIInv, NEW c \in Clients, StartDaemon(c), UNCHANGED launcherVars
  PROVE  StartIInv'
<1> USE DEF StartDaemon, sharedVars
<1>1. StartTypes'
  BY DEF StartIInv, StartTypes, launcherVars
<1>2. ASSUME ~disturbed' PROVE Calm'
  <2>1. ~disturbed /\ Calm /\ client[c] \notin ClientSettled
    BY <1>2 DEF StartIInv, ClientSettled
  <2>2. \A e \in Clients \ {c} : client'[e] = client[e]
    BY DEF StartIInv, StartTypes
  <2>3. /\ OneAtATime' /\ OneBrowser' /\ LaunchersKnow'
        /\ \A l \in Launchers : launcher[l] \in Settled
        /\ \A e \in Clients \ {c} : client[e] \in ClientSettled
    BY <2>1, <2>2, ClientMoves DEF sharedVars
  <2>0. NoDaemon /\ NoBrowser
    BY <2>1 DEF Calm, ClientsKnow
  <2>4. OneDaemon'
    <3>1. proxyPath = Nobody
      BY <2>0, <2>1 DEF Calm, OneDaemon, NoDaemon, StartIInv, StartTypes
    <3>2. \A d \in Daemons : d \notin listening
      BY <2>0, <2>1 DEF Calm, OneDaemon, NoDaemon
    <3> QED BY <2>0, <3>1, <3>2 DEF OneDaemon, NoDaemon, StartIInv, StartTypes
  <2>5. ClientsKnow'
    <3>1. client'[c] = "poll"
      BY DEF StartIInv, StartTypes
    <3>2. \A e \in Clients \ {c} : client'[e] \in ClientSettled
      BY <2>2, <2>3
    <3> QED BY <2>0, <3>1, <3>2 DEF ClientsKnow, NoBrowser, ClientSettled
  <2> QED BY <2>3, <2>4, <2>5 DEF Calm
<1> QED BY <1>1, <1>2 DEF StartIInv

(* The daemon that answers serves.                                         *)
LEMMA PollConnectsCalm ==
  ASSUME StartIInv, NEW c \in Clients, PollConnects(c), UNCHANGED launcherVars
  PROVE  StartIInv'
<1> USE DEF PollConnects, ClientGoes, sharedVars
<1>1. StartTypes'
  BY DEF StartIInv, StartTypes, launcherVars
<1>2. ASSUME ~disturbed' PROVE Calm'
  <2>1. ~disturbed /\ Calm /\ client[c] \notin ClientSettled
    BY <1>2 DEF StartIInv, ClientSettled
  <2>2. \A e \in Clients \ {c} : client'[e] = client[e]
    BY DEF StartIInv, StartTypes
  <2>3. /\ OneAtATime' /\ OneBrowser' /\ LaunchersKnow'
        /\ \A l \in Launchers : launcher[l] \in Settled
        /\ \A e \in Clients \ {c} : client[e] \in ClientSettled
    BY <2>1, <2>2, ClientMoves DEF sharedVars
  <2>4. OneDaemon'
    BY <2>1 DEF Calm, OneDaemon
  <2>5. ClientsKnow'
    <3>1. NoBrowser
      BY <2>1 DEF Calm, ClientsKnow
    <3>2. ProxyAnswers
      BY <3>1 DEF Connectable, NoBrowser, StartIInv, StartTypes
    <3>3. proxyPath \in Daemons /\ daemon[proxyPath] = "serve"
      BY <2>1, <3>2 DEF Calm, OneDaemon, ProxyAnswers, StartIInv, StartTypes
    <3>4. \A d \in Daemons : daemon[d] \in {"unborn", "serve"}
      BY <2>1, <3>3 DEF Calm, OneDaemon
    <3>5. \A e \in Clients : client'[e] \in ClientSettled
      BY <2>3 DEF ClientSettled, StartIInv, StartTypes
    <3> QED BY <3>4, <3>5 DEF ClientsKnow, ClientSettled
  <2> QED BY <2>3, <2>4, <2>5 DEF Calm
<1> QED BY <1>1, <1>2 DEF StartIInv

LEMMA PollTimesOutCalm ==
  ASSUME StartIInv, NEW c \in Clients, PollTimesOut(c), UNCHANGED launcherVars
  PROVE  StartIInv'
<1>1. StartTypes'
  BY DEF PollTimesOut, StartIInv, StartTypes, launcherVars
<1> QED BY <1>1 DEF PollTimesOut, StartIInv

(* A client is started when all else is at rest, or disturbs it.           *)
LEMMA StartClientCalm ==
  ASSUME StartIInv, NEW c \in Clients, StartClient(c, Busy), UNCHANGED launcherVars
  PROVE  StartIInv'
<1> USE DEF StartClient
<1>1. StartTypes'
  BY DEF StartIInv, StartTypes, launcherVars, Busy
<1>2. ASSUME ~disturbed' PROVE Calm'
  <2>1. Calm /\ ~Busy
    BY <1>2 DEF StartIInv
  <2>2. /\ \A m \in Launchers : launcher[m] \in Settled
        /\ \A e \in Clients : client[e] \in ClientSettled
    BY <2>1, NotBusy
  <2>3. OneAtATime'
    BY <2>2 DEF OneAtATime, LauncherBusy, ClientBusy, launcherVars, StartIInv, StartTypes
  <2>4. OneBrowser' /\ LaunchersKnow'
    BY <2>1, LaunchersUntouched DEF Calm
  <2>5. OneDaemon'
    BY <2>1 DEF Calm, OneDaemon
  <2>6. ClientsKnow'
    <3>1. \A d \in Daemons : daemon[d] \in {"unborn", "serve"}
      BY <2>1, <2>2 DEF Calm, ClientsKnow, ClientSettled
    <3>2. \A e \in Clients : client'[e] \in ClientSettled \cup {"proxy"}
      BY <2>2 DEF StartIInv, StartTypes
    <3> QED BY <3>1, <3>2 DEF ClientsKnow, ClientSettled
  <2> QED BY <2>3, <2>4, <2>5, <2>6 DEF Calm
<1> QED BY <1>1, <1>2 DEF StartIInv

LEMMA ConnectStepCalm ==
  ASSUME StartIInv, NEW c \in Clients, ConnectStep(c), UNCHANGED launcherVars
  PROVE  StartIInv'
BY TryProxyCalm, TryChromiumCalm, StartDaemonCalm, PollConnectsCalm, PollTimesOutCalm
   DEF ConnectStep

-----------------------------------------------------------------------------
(* The steps of a daemon: alone in the world, it finds no socket, binds    *)
(* the path, listens and serves, while its client waits.                   *)

LEMMA DaemonMoves ==
  ASSUME StartIInv, NEW d \in Daemons, daemon[d] # "serve",
         UNCHANGED launcherVars, UNCHANGED client, UNCHANGED sharedVars,
         daemon' \in [Daemons -> {"unborn", "pid", "unlink", "bind", "listen",
                                  "serve", "shutdown", "gone"}],
         daemon[d] # "unborn",
         ~disturbed
  PROVE  OneAtATime' /\ OneBrowser' /\ LaunchersKnow' /\ ClientsKnow'
<1>1. Calm
  BY DEF StartIInv
<1>2. OneAtATime'
  BY <1>1, NoneStarts DEF Calm, launcherVars
<1>3. OneBrowser' /\ LaunchersKnow'
  BY <1>1, LaunchersUntouched DEF Calm, sharedVars
<1>4. PICK c \in Clients : client[c] = "poll"
  BY <1>1 DEF Calm, ClientsKnow
<1>5. \A e \in Clients : client[e] \notin {"other", "spawn"}
  BY <1>1 DEF Calm, ClientsKnow, NoDaemon
<1>6. \A e \in Clients : client[e] \in {"spawn", "poll"} => NoBrowser
  BY <1>1 DEF Calm, ClientsKnow
<1>7. NoBrowser => NoBrowser'
  BY DEF NoBrowser, sharedVars
<1>8. ClientsKnow'
  BY <1>4, <1>5, <1>6, <1>7 DEF ClientsKnow
<1> QED BY <1>2, <1>3, <1>8

(* There is no old socket.                                                 *)
LEMMA FindOldSocketCalm ==
  ASSUME StartIInv, NEW d \in Daemons, FindOldSocket(d), UNCHANGED launcherVars
  PROVE  StartIInv'
<1> USE DEF FindOldSocket, DaemonGoes
<1>1. StartTypes'
  BY DEF StartIInv, StartTypes, launcherVars, sharedVars
<1>2. ASSUME ~disturbed' PROVE Calm'
  <2>1. ~disturbed /\ Calm
    BY <1>2 DEF StartIInv, sharedVars
  <2>2. OneAtATime' /\ OneBrowser' /\ LaunchersKnow' /\ ClientsKnow'
    BY <1>1, <2>1, DaemonMoves DEF StartTypes
  <2>3. OneDaemon'
    BY <2>1 DEF Calm, OneDaemon, StartIInv, StartTypes, Daemons
  <2> QED BY <2>2, <2>3 DEF Calm
<1> QED BY <1>1, <1>2 DEF StartIInv

(* The path is free.                                                       *)
LEMMA BindSocketCalm ==
  ASSUME StartIInv, NEW d \in Daemons, BindSocket(d), UNCHANGED launcherVars
  PROVE  StartIInv'
<1> USE DEF BindSocket, DaemonGoes
<1>1. StartTypes'
  BY DEF StartIInv, StartTypes, launcherVars, sharedVars
<1>2. ASSUME ~disturbed' PROVE Calm'
  <2>1. ~disturbed /\ Calm
    BY <1>2 DEF StartIInv, sharedVars
  <2>2. OneAtATime' /\ OneBrowser' /\ LaunchersKnow' /\ ClientsKnow'
    BY <1>1, <2>1, DaemonMoves DEF StartTypes
  <2>3. OneDaemon'
    BY <2>1 DEF Calm, OneDaemon, StartIInv, StartTypes, Daemons
  <2> QED BY <2>2, <2>3 DEF Calm
<1> QED BY <1>1, <1>2 DEF StartIInv

(* The path is its own.                                                    *)
LEMMA ListenCalm ==
  ASSUME StartIInv, NEW d \in Daemons, Listen(d), UNCHANGED launcherVars
  PROVE  StartIInv'
<1> USE DEF Listen, DaemonGoes
<1>1. StartTypes'
  BY DEF StartIInv, StartTypes, launcherVars, sharedVars
<1>2. ASSUME ~disturbed' PROVE Calm'
  <2>1. ~disturbed /\ Calm
    BY <1>2 DEF StartIInv, sharedVars
  <2>2. OneAtATime' /\ OneBrowser' /\ LaunchersKnow' /\ ClientsKnow'
    BY <1>1, <2>1, DaemonMoves DEF StartTypes
  <2>3. OneDaemon'
    <3>1. proxyPath = d /\ d # Nobody
      BY <2>1 DEF Calm, OneDaemon, Daemons
    <3>2. listening' = listening \cup {d} /\ daemon' = [daemon EXCEPT ![d] = "serve"]
          /\ proxyPath' = proxyPath
      BY <3>1
    <3> QED BY <2>1, <3>1, <3>2 DEF Calm, OneDaemon, StartIInv, StartTypes
  <2> QED BY <2>2, <2>3 DEF Calm
<1> QED BY <1>1, <1>2 DEF StartIInv

(* What a daemon does only if there was an old socket, or at its end.      *)
LEMMA RemoveOldSocketCalm ==
  ASSUME StartIInv, NEW d \in Daemons, RemoveOldSocket(d) \/ ShutDown(d),
         UNCHANGED launcherVars
  PROVE  StartIInv'
<1> USE DEF RemoveOldSocket, ShutDown, DaemonGoes, sharedVars
<1>1. StartTypes'
  BY DEF StartIInv, StartTypes, launcherVars
<1>2. disturbed /\ disturbed'
  BY DEF StartIInv, StartTypes, Calm, OneDaemon
<1> QED BY <1>1, <1>2 DEF StartIInv

LEMMA DisturbingDaemonCalm ==
  ASSUME StartIInv, NEW d \in Daemons, DaemonLaunches(d) \/ Terminate(d),
         UNCHANGED launcherVars
  PROVE  StartIInv'
<1> USE DEF DaemonLaunches, Launch, Terminate, DaemonGoes
<1>1. StartTypes'
  BY DEF StartIInv, StartTypes, launcherVars, startVars
<1> QED BY <1>1 DEF StartIInv

LEMMA DaemonStepCalm ==
  ASSUME StartIInv, NEW d \in Daemons, DaemonStep(d), UNCHANGED launcherVars
  PROVE  StartIInv'
BY FindOldSocketCalm, RemoveOldSocketCalm, BindSocketCalm, ListenCalm DEF DaemonStep

-----------------------------------------------------------------------------
(* The steps of a browser: it binds the path, or disturbs.                 *)
LEMMA BindCalm ==
  ASSUME StartIInv, NEW b \in Browsers, Bind(b), UNCHANGED <<launcherVars, startVars>>
  PROVE  StartIInv'
<1> USE DEF Bind
<1>1. StartTypes'
  BY DEF StartIInv, StartTypes, launcherVars, startVars
<1>2. ASSUME ~disturbed' PROVE Calm'
  <2>1. Calm
    BY <1>2 DEF StartIInv
  <2>2. OneAtATime'
    BY <2>1 DEF Calm, OneAtATime, LauncherBusy, ClientBusy, launcherVars, startVars
  <2>3. ~NoBrowser
    BY DEF NoBrowser
  <2>4. OneBrowser'
    BY <2>1 DEF Calm, OneBrowser, StartIInv, StartTypes
  <2>5. \A a \in Browsers \ {b} : browser[a] = "unborn" /\ browser'[a] = "unborn"
    BY <2>1 DEF Calm, OneBrowser, StartIInv, StartTypes
  <2>6. LaunchersKnow'
    <3>1. ~LockNames
      BY <2>3, <2>5 DEF LockNames
    <3>2. LockIsRight'
      BY <2>1, <3>1 DEF Calm, LaunchersKnow, LockIsRight, launcherVars
    <3>3. \A l \in Launchers : LauncherKnows(l)'
      BY <2>1, <2>3, <2>5 DEF Calm, LaunchersKnow, LauncherKnows, launcherVars,
         StartIInv, StartTypes
    <3> QED BY <3>2, <3>3 DEF LaunchersKnow
  <2>7. OneDaemon'
    BY <2>1 DEF Calm, OneDaemon, startVars
  <2>8. ClientsKnow'
    BY <2>1, <2>3 DEF Calm, ClientsKnow, NoDaemon, startVars
  <2> QED BY <2>2, <2>4, <2>6, <2>7, <2>8 DEF Calm
<1> QED BY <1>1, <1>2 DEF StartIInv

LEMMA BrowserStepCalm ==
  ASSUME StartIInv, BrowserStep, UNCHANGED <<launcherVars, startVars>>
  PROVE  StartIInv'
<1>1. PICK b \in Browsers : Bind(b) \/ HandOver(b) \/ Ends(b)
  BY DEF BrowserStep
<1>2. CASE Bind(b)
  BY <1>2, BindCalm
<1>3. CASE HandOver(b) \/ Ends(b)
  <2>1. StartTypes'
    BY <1>3 DEF HandOver, Ends, StartIInv, StartTypes, launcherVars, startVars
  <2> QED BY <1>3, <2>1 DEF HandOver, Ends, StartIInv
<1> QED BY <1>1, <1>2, <1>3

-----------------------------------------------------------------------------
LEMMA NextStartIInv == StartIInv /\ [Next]_vars => StartIInv'
<1> SUFFICES ASSUME StartIInv, [Next]_vars PROVE StartIInv'
  OBVIOUS
<1>1. ASSUME NEW l \in Launchers, UNCHANGED startVars,
             StartLauncher(l, Busy) \/ LauncherStep(l) \/ RelayEnds(l)
      PROVE  StartIInv'
  BY <1>1, StartLauncherCalm, LauncherStepCalm, RelayEndsCalm
<1>2. ASSUME NEW c \in Clients, StartClient(c, Busy) \/ ConnectStep(c),
             UNCHANGED launcherVars
      PROVE  StartIInv'
  BY <1>2, StartClientCalm, ConnectStepCalm
<1>3. ASSUME NEW d \in Daemons, DaemonLaunches(d) \/ DaemonStep(d) \/ Terminate(d),
             UNCHANGED launcherVars
      PROVE  StartIInv'
  BY <1>3, DisturbingDaemonCalm, DaemonStepCalm
<1>4. ASSUME BrowserStep, UNCHANGED <<launcherVars, startVars>>
      PROVE  StartIInv'
  BY <1>4, BrowserStepCalm
<1>5. CASE UNCHANGED vars
  BY <1>5 DEF vars, launcherVars, startVars, sharedVars, StartIInv, StartTypes, Calm,
     OneAtATime, LauncherBusy, ClientBusy, OneBrowser, LaunchersKnow, LockIsRight,
     LockNames, LauncherKnows, NoBrowser, OneDaemon, ClientsKnow, NoDaemon
<1> QED BY <1>1, <1>2, <1>3, <1>4, <1>5 DEF Next

(* The types of the state of launchers, clients, daemons and browsers.     *)
THEOREM StartUpTypes == Spec => []StartTypes
<1>1. StartIInv => StartTypes
  BY DEF StartIInv
<1> QED BY <1>1, InitStartIInv, NextStartIInv, PTL DEF Spec

LEMMA AtMostOne ==
  ASSUME NEW S, \A a, b \in S : a = b
  PROVE  Cardinality(S) <= 1
<1>1. CASE S = {}
  BY <1>1, FS_EmptySet
<1>2. CASE S # {}
  <2>1. PICK x \in S : S = {x}
    BY <1>2
  <2> QED BY <2>1, FS_Singleton
<1> QED BY <1>1, <1>2

(* However many launchers and clients are started one after the other:     *)
(* they share one browser and one daemon, unless a timeout, an exit or a   *)
(* launch by the daemon comes in between.                                  *)
THEOREM StartedInTurnShare == Spec => []OneAfterTheOtherShare
<1>1. ASSUME StartIInv, ~disturbed
      PROVE  Cardinality(Started(browser)) <= 1 /\ Cardinality(Started(daemon)) <= 1
  <2>1. OneBrowser /\ OneDaemon
    BY <1>1 DEF StartIInv, Calm
  <2>2. \A a, b \in Started(browser) : a = b
    BY <1>1, <2>1 DEF OneBrowser, Started, StartIInv, StartTypes
  <2>3. \A d, e \in Started(daemon) : d = e
    BY <1>1, <2>1 DEF OneDaemon, Started, StartIInv, StartTypes
  <2> QED BY <2>2, <2>3, AtMostOne
<1>2. StartIInv => OneAfterTheOtherShare
  BY <1>1 DEF OneAfterTheOtherShare
<1> QED BY <1>2, InitStartIInv, NextStartIInv, PTL DEF Spec
=============================================================================

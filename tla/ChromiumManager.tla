--------------------------- MODULE ChromiumManager ---------------------------
(***************************************************************************)
(* ChromiumManager (src/scripts/chromium-mcp-daemon.py): the state machine *)
(* by which the daemon starts, watches, restarts and stops the Chromium    *)
(* process, shared by client threads (wait_ready), start threads           *)
(* (_do_start), monitor threads (_monitor_loop) and the main thread        *)
(* (shutdown, then the exit of the daemon, which ends all other threads).  *)
(*                                                                         *)
(* A step of a thread runs from one release of the lock (or one sleep) to  *)
(* the next.  The sleeps have no duration here: any other thread may run   *)
(* during one.  wait() on the condition times out after a second at most,  *)
(* so that a waiting thread may look again at any time.                    *)
(***************************************************************************)
EXTENDS Naturals

CONSTANTS Callers,       \* threads that call wait_ready
          Starters,      \* slots for _do_start threads
          MaxLaunches,   \* bound: Chromium processes launched; Popen fails then
          MAX_RETRY      \* start attempts of one _do_start

ASSUME ManagerAssumption ==
  /\ MaxLaunches \in Nat
  /\ MAX_RETRY \in Nat \ {0}

Procs == 1 .. MaxLaunches
NoProc == 0

VARIABLES
  state,      \* _state
  proc,       \* _proc
  wait,       \* where each client is in wait_ready
  starter,    \* pc, attempt and process of each start thread
  monitor,    \* pc of the monitor thread spawned when this process was ready
  watched,    \* the process that monitor thread polls
  main,       \* the main thread: running, in shutdown(), or gone
  status,     \* external: what each launched process does
  told        \* processes the daemon has told to terminate

managerVars == <<state, proc, wait, starter, monitor, watched, main, status, told>>
processes == <<status, told>>
threads == <<starter, monitor, watched>>

States == {"STOPPED", "STARTING", "READY", "STOPPING"}
Alive(p) == status[p] \in {"starting", "serving", "deaf"}

Off == [pc |-> "off", attempt |-> 0, proc |-> NoProc]

ManagerTypeOK ==
  /\ state \in States
  /\ proc \in Procs \cup {NoProc}
  /\ wait \in [Callers -> {"idle", "waiting", "ready", "failed"}]
  /\ starter \in [Starters -> [pc : {"off", "popen", "wait", "ready", "failed"},
                               attempt : 0 .. MAX_RETRY,
                               proc : Procs \cup {NoProc}]]
  /\ monitor \in [Procs -> {"off", "top", "sleep", "grace", "lost", "quit",
                            "crash", "cooldown"}]
  /\ watched \in [Procs -> Procs \cup {NoProc}]
  /\ main \in {"run", "terminate", "stopped", "exit"}
  /\ status \in [Procs -> {"unborn", "starting", "serving", "deaf", "quit",
                           "crashed"}]
  /\ told \subseteq Procs

ManagerInit ==
  /\ state = "STOPPED"
  /\ proc = NoProc
  /\ wait = [c \in Callers |-> "idle"]
  /\ starter = [s \in Starters |-> Off]
  /\ monitor = [p \in Procs |-> "off"]
  /\ watched = [p \in Procs |-> NoProc]
  /\ main = "run"
  /\ status = [p \in Procs |-> "unborn"]
  /\ told = {}

DaemonLives == main # "exit"

(* _wait_socket and _socket_alive connect to a fixed path: whoever serves  *)
(* it answers.                                                             *)
SocketAnswers == \E p \in Procs : status[p] = "serving"

-----------------------------------------------------------------------------
(* _trigger_start, called with the lock held and in state STOPPED: a start *)
(* thread is spawned in a free slot.                                       *)
TriggerStart ==
  /\ state' = "STARTING"
  /\ \E s \in Starters :
       /\ starter[s].pc = "off"
       /\ starter' = [starter EXCEPT
                        ![s] = [pc |-> "popen", attempt |-> 1, proc |-> NoProc]]

(* wait_ready(timeout) *)
CallWaitReady(c) ==
  /\ DaemonLives
  /\ wait[c] # "waiting"
  /\ wait' = [wait EXCEPT ![c] = "waiting"]
  /\ UNCHANGED <<state, proc, threads, main, processes>>

WaitReadyReturns(c) ==
  /\ DaemonLives
  /\ wait[c] = "waiting"
  /\ \/ state = "READY" /\ wait' = [wait EXCEPT ![c] = "ready"]
     \/ state = "STOPPING" /\ wait' = [wait EXCEPT ![c] = "failed"]
  /\ UNCHANGED <<state, proc, threads, main, processes>>

(* Bug variant: the deadline is looked at only before a start is triggered.*)
WaitReadyTimesOut_StoppedOnly(c) ==
  /\ DaemonLives
  /\ wait[c] = "waiting"
  /\ state = "STOPPED"
  /\ wait' = [wait EXCEPT ![c] = "failed"]
  /\ UNCHANGED <<state, proc, threads, main, processes>>

WaitReadyTimesOut(c) ==
  /\ DaemonLives
  /\ wait[c] = "waiting"
  /\ state \in {"STOPPED", "STARTING"}
  /\ wait' = [wait EXCEPT ![c] = "failed"]
  /\ UNCHANGED <<state, proc, threads, main, processes>>

(* Bug variant: the state is read before the lock is taken, so that a      *)
(* start already under way does not keep a second one from beginning.      *)
WaitReadyStarts_Unguarded(c) ==
  /\ DaemonLives
  /\ wait[c] = "waiting"
  /\ state \in {"STOPPED", "STARTING"}
  /\ TriggerStart
  /\ UNCHANGED <<proc, wait, monitor, watched, main, processes>>

WaitReadyStarts(c) ==
  /\ DaemonLives
  /\ wait[c] = "waiting"
  /\ state = "STOPPED"
  /\ TriggerStart
  /\ UNCHANGED <<proc, wait, monitor, watched, main, processes>>

-----------------------------------------------------------------------------
(* _do_start, in a thread of its own.                                      *)

(* One attempt is over without a ready Chromium.                           *)
NextAttempt(s) ==
  IF starter[s].attempt < MAX_RETRY
    THEN [pc |-> "popen", attempt |-> starter[s].attempt + 1, proc |-> NoProc]
    ELSE [pc |-> "failed", attempt |-> starter[s].attempt, proc |-> NoProc]

Popen(s) ==
  /\ DaemonLives
  /\ starter[s].pc = "popen"
  /\ \/ /\ \E p \in Procs :
             /\ status[p] = "unborn"
             /\ \A q \in Procs : status[q] = "unborn" => p <= q
             /\ status' = [status EXCEPT ![p] = "starting"]
             /\ starter' = [starter EXCEPT ![s].pc = "wait", ![s].proc = p]
     \/ /\ starter' = [starter EXCEPT ![s].pc = "failed"]   \* FileNotFoundError
        /\ UNCHANGED status
     \/ /\ starter' = [starter EXCEPT ![s] = NextAttempt(s)]  \* other errors
        /\ UNCHANGED status
  /\ UNCHANGED <<state, proc, wait, monitor, watched, main, told>>

(* _wait_socket: the process lives and the socket answers.                 *)
SocketReady(s) ==
  /\ DaemonLives
  /\ starter[s].pc = "wait"
  /\ Alive(starter[s].proc)
  /\ SocketAnswers
  /\ starter' = [starter EXCEPT ![s].pc = "ready"]
  /\ UNCHANGED <<state, proc, wait, monitor, watched, main, processes>>

(* The process ended, or the time is up: terminate() and try again.  The   *)
(* process may outlive the three seconds it is given.                      *)
SocketNotReady(s) ==
  /\ DaemonLives
  /\ starter[s].pc = "wait"
  /\ told' = told \cup {starter[s].proc}
  /\ starter' = [starter EXCEPT ![s] = NextAttempt(s)]
  /\ UNCHANGED <<state, proc, wait, monitor, watched, main, status>>

(* With the lock: READY and a monitor thread, unless shutdown() came first.*)
StartSucceeds(s) ==
  /\ DaemonLives
  /\ starter[s].pc = "ready"
  /\ starter' = [starter EXCEPT ![s] = Off]
  /\ \/ /\ state = "STOPPING"
        /\ told' = told \cup {starter[s].proc}
        /\ UNCHANGED <<state, proc, monitor>>
     \/ /\ state # "STOPPING"
        /\ state' = "READY"
        /\ proc' = starter[s].proc
        /\ monitor' = [monitor EXCEPT ![starter[s].proc] = "top"]
        /\ UNCHANGED told
  /\ UNCHANGED <<wait, watched, main, status>>

(* _set_state(STOPPED), whatever the state is by now.                      *)
StartFails(s) ==
  /\ DaemonLives
  /\ starter[s].pc = "failed"
  /\ starter' = [starter EXCEPT ![s] = Off]
  /\ state' = "STOPPED"
  /\ UNCHANGED <<proc, wait, monitor, watched, main, processes>>

-----------------------------------------------------------------------------
(* _monitor_loop.                                                          *)

MonitorTop(m) ==
  /\ DaemonLives
  /\ monitor[m] = "top"
  /\ \/ /\ state # "READY"
        /\ monitor' = [monitor EXCEPT ![m] = "off"]
        /\ UNCHANGED watched
     \/ /\ state = "READY"
        /\ watched' = [watched EXCEPT ![m] = proc]
        /\ monitor' = [monitor EXCEPT ![m] = "sleep"]
  /\ UNCHANGED <<state, proc, wait, starter, main, processes>>

(* proc.poll() after the interval, and the socket of a live process.       *)
MonitorPolls(m) ==
  /\ DaemonLives
  /\ monitor[m] = "sleep"
  /\ monitor' = [monitor EXCEPT ![m] =
       CASE status[watched[m]] = "quit" -> "quit"
         [] status[watched[m]] = "crashed" -> "crash"
         [] Alive(watched[m]) /\ SocketAnswers -> "top"
         [] OTHER -> "grace"]
  /\ UNCHANGED <<state, proc, wait, starter, watched, main, processes>>

MonitorGrace(m) ==
  /\ DaemonLives
  /\ monitor[m] = "grace"
  /\ monitor' = [monitor EXCEPT ![m] = IF SocketAnswers THEN "top" ELSE "lost"]
  /\ UNCHANGED <<state, proc, wait, starter, watched, main, processes>>

(* The socket stayed dead: STOPPED and a new start in one critical section.*)
(* The process that is given up is not terminated.                         *)
MonitorLost(m) ==
  /\ DaemonLives
  /\ monitor[m] = "lost"
  /\ monitor' = [monitor EXCEPT ![m] = "off"]
  /\ \/ /\ state = "READY"
        /\ proc' = NoProc
        /\ TriggerStart
     \/ /\ state # "READY"
        /\ UNCHANGED <<state, proc, starter>>
  /\ UNCHANGED <<wait, watched, main, processes>>

(* The process ended: STOPPED.  After exit code 0 or -15 that is all; after*)
(* any other code the thread goes on to a restart after the cooldown.      *)
MonitorStops(m) ==
  /\ DaemonLives
  /\ monitor[m] \in {"quit", "crash"}
  /\ monitor' = [monitor EXCEPT ![m] = IF @ = "crash" THEN "cooldown" ELSE "off"]
  /\ \/ /\ state = "READY"
        /\ state' = "STOPPED"
        /\ proc' = NoProc
     \/ /\ state # "READY"
        /\ UNCHANGED <<state, proc>>
  /\ UNCHANGED <<wait, starter, watched, main, processes>>

(* Bug variant: no restart after the cooldown.                             *)
MonitorCooldownOver_NoRestart(m) ==
  /\ DaemonLives
  /\ monitor[m] = "cooldown"
  /\ monitor' = [monitor EXCEPT ![m] = "off"]
  /\ UNCHANGED <<state, proc, wait, starter, watched, main, processes>>

(* The cooldown is over: start, if the state is STOPPED at this moment.    *)
MonitorCooldownOver(m) ==
  /\ DaemonLives
  /\ monitor[m] = "cooldown"
  /\ monitor' = [monitor EXCEPT ![m] = "off"]
  /\ \/ state = "STOPPED" /\ TriggerStart
     \/ state # "STOPPED" /\ UNCHANGED <<state, starter>>
  /\ UNCHANGED <<proc, wait, watched, main, processes>>

-----------------------------------------------------------------------------
(* shutdown(), then the end of main().                                     *)
Shutdown ==
  /\ main = "run"
  /\ state' = "STOPPING"
  /\ main' = IF proc = NoProc THEN "stopped" ELSE "terminate"
  /\ UNCHANGED <<proc, wait, threads, processes>>

(* terminate(), wait(15), kill(): the process is gone in any case.         *)
ShutdownTerminates ==
  /\ main = "terminate"
  /\ told' = told \cup {proc}
  /\ status' = [status EXCEPT ![proc] = IF Alive(proc) THEN "quit" ELSE @]
  /\ main' = "stopped"
  /\ UNCHANGED <<state, proc, wait, threads>>

Exit ==
  /\ main = "stopped"
  /\ main' = "exit"
  /\ UNCHANGED <<state, proc, wait, threads, processes>>

-----------------------------------------------------------------------------
(* The Chromium processes, external: a process may serve its socket, stop  *)
(* answering for a while, exit (0 or -15) or crash.                        *)
ProcessStep(p) ==
  /\ Alive(p)
  /\ \E new \in {"serving", "deaf", "quit", "crashed"} \ {status[p]} :
       /\ status[p] = "starting" => new # "deaf"
       /\ status' = [status EXCEPT ![p] = new]
  /\ UNCHANGED <<state, proc, wait, threads, main, told>>

StarterStep(s) ==
  \/ Popen(s)
  \/ SocketReady(s)
  \/ SocketNotReady(s)
  \/ StartSucceeds(s)
  \/ StartFails(s)

MonitorStep(m) ==
  \/ MonitorTop(m)
  \/ MonitorPolls(m)
  \/ MonitorGrace(m)
  \/ MonitorLost(m)
  \/ MonitorStops(m)
  \/ MonitorCooldownOver(m)

ManagerNext ==
  \/ \E c \in Callers :
       \/ CallWaitReady(c)
       \/ WaitReadyReturns(c)
       \/ WaitReadyTimesOut(c)
       \/ WaitReadyStarts(c)
  \/ \E s \in Starters : StarterStep(s)
  \/ \E m \in Procs : MonitorStep(m)
  \/ Shutdown
  \/ ShutdownTerminates
  \/ Exit
  \/ \E p \in Procs : ProcessStep(p)

(* Every thread of the daemon that can run does run in the end: sleeps and *)
(* time-outs are finite, and no critical section blocks.                   *)
ManagerFairness ==
  /\ \A c \in Callers : WF_managerVars(WaitReadyReturns(c) \/ WaitReadyTimesOut(c))
  /\ \A s \in Starters : WF_managerVars(StarterStep(s))
  /\ \A m \in Procs : WF_managerVars(MonitorStep(m))

ManagerSpec == ManagerInit /\ [][ManagerNext]_managerVars /\ ManagerFairness

-----------------------------------------------------------------------------
(* State STARTING has a start thread behind it that will end it, and no    *)
(* two start threads ever run: clients that ask at the same moment launch  *)
(* Chromium once, and a failed start is always reported back as STOPPED.   *)
(* State READY has a process, and exactly one monitor thread that polls    *)
(* this process and has not yet made up its mind to stop.                  *)
Starting == {s \in Starters : starter[s].pc # "off"}

StartingIsOwned ==
  /\ state = "STARTING" => Starting # {}
  /\ \A s, t \in Starting : s = t
  /\ state \in {"STOPPED", "READY"} => Starting = {}

ReadyIsWatched ==
  state = "READY" =>
    /\ proc # NoProc
    /\ \E m \in Procs :
         /\ monitor[m] \notin {"off", "cooldown"}
         /\ monitor[m] # "top" => watched[m] = proc
         /\ \A n \in Procs \ {m} : monitor[n] \in {"off", "cooldown"}

StatesHaveThreads == StartingIsOwned /\ ReadyIsWatched

(* A crash of the ready Chromium leads to a new start (or the daemon ends):*)
(* the monitor notices, and the cooldown does not lose the restart.        *)
CrashLeadsToRestart ==
  (state = "READY" /\ status[proc] = "crashed")
    ~> (state \in {"STARTING", "STOPPING"} \/ main = "exit")

(* A client never hangs in wait_ready.                                     *)
WaitReadyEnds ==
  \A c \in Callers : wait[c] = "waiting" ~> (wait[c] # "waiting" \/ main = "exit")

-----------------------------------------------------------------------------
(* A claim of the daemon's comments that fails.                            *)

(* shutdown()'s docstring: it cleans up Chromium when the daemon ends.     *)
NoOrphanAfterExit ==
  main = "exit" => \A p \in Procs : Alive(p) => p \in told
=============================================================================

----------------------------- MODULE LauncherLock -----------------------------
(***************************************************************************)
(* src/scripts/chromium-mcp-launcher.py: launcher processes that share one *)
(* lock file.  A launcher looks for the instance the file names, launches  *)
(* a browser if it finds none, writes the file, waits for the socket,      *)
(* connects, and relays between its pipes and the socket until one side    *)
(* ends.  Nothing excludes two launchers from each other: every access to  *)
(* the file, to the process and to the socket is a step of its own.        *)
(***************************************************************************)
EXTENDS BrowserSocket

CONSTANT Launchers

VARIABLES
  launcher,   \* where main() is, per launcher
  seen,       \* pid it has read from the file, or of the browser it launched
  child,      \* browsers it has launched: not reaped while it runs
  lock,       \* the file: Absent, Empty, or the browser it names
  writes      \* launchers whose open handle is still the file at the path

launcherVars == <<launcher, seen, child, lock, writes>>

Settled == {"off", "relay", "done"}

Absent == <<>>
Empty == <<Nobody>>

LauncherInit ==
  /\ launcher = [l \in Launchers |-> "off"]
  /\ seen = [l \in Launchers |-> Nobody]
  /\ child = [l \in Launchers |-> {}]
  /\ lock = Absent
  /\ writes = {}

Goes(l, to) == launcher' = [launcher EXCEPT ![l] = to]

(* kill(pid, 0): a dead child of a running launcher still has its pid.     *)
PidExists(b) ==
  Running(b) \/ \E l \in Launchers : b \in child[l] /\ launcher[l] # "done"

StartLauncher(l, busy) ==
  /\ launcher[l] = "off"
  /\ starts < MaxStarts
  /\ starts' = starts + 1
  /\ disturbed' = (disturbed \/ busy)
  /\ Goes(l, "read")
  /\ UNCHANGED <<seen, child, lock, writes, browser, path>>

-----------------------------------------------------------------------------
(* find_running_instance()                                                 *)

(* read_lock_file: a file that is absent, or empty as yet, is no instance. *)
ReadLock(l) ==
  /\ launcher[l] = "read"
  /\ \/ /\ lock \in {Absent, Empty}
        /\ Goes(l, "launch")
        /\ UNCHANGED seen
     \/ /\ lock \notin {Absent, Empty}
        /\ seen' = [seen EXCEPT ![l] = lock[1]]
        /\ Goes(l, "alive")
  /\ UNCHANGED <<child, lock, writes, sharedVars>>

(* Bug variant: a dead process is taken for a live one and the other way   *)
(* round.                                                                  *)
CheckProcess_Inverted(l) ==
  /\ launcher[l] = "alive"
  /\ Goes(l, IF PidExists(seen[l]) THEN "stale" ELSE "probe")
  /\ UNCHANGED <<seen, child, lock, writes, sharedVars>>

CheckProcess(l) ==
  /\ launcher[l] = "alive"
  /\ Goes(l, IF PidExists(seen[l]) THEN "probe" ELSE "stale")
  /\ UNCHANGED <<seen, child, lock, writes, sharedVars>>

(* remove_lock_file, whatever is in the file by now.                       *)
RemoveStale(l) ==
  /\ launcher[l] = "stale"
  /\ lock' = Absent
  /\ writes' = {}
  /\ Goes(l, "launch")
  /\ UNCHANGED <<seen, child, sharedVars>>

(* is_socket_connectable: a live process without a socket is passed over.  *)
Probe(l) ==
  /\ launcher[l] = "probe"
  /\ Goes(l, IF Connectable THEN "connect" ELSE "launch")
  /\ UNCHANGED <<seen, child, lock, writes, sharedVars>>

-----------------------------------------------------------------------------
(* launch_browser: no binary, auto_launch off or Popen fails; or a browser,*)
(* detached from the launcher.                                             *)
LaunchBrowser(l) ==
  /\ launcher[l] = "launch"
  /\ \/ /\ \E b \in Browsers :
             /\ Launch(b)
             /\ seen' = [seen EXCEPT ![l] = b]
             /\ child' = [child EXCEPT ![l] = @ \cup {b}]
        /\ Goes(l, "open")
        /\ UNCHANGED disturbed
     \/ /\ Goes(l, "done")
        /\ disturbed' = TRUE
        /\ UNCHANGED <<browser, seen, child>>
  /\ UNCHANGED <<lock, writes, path, starts>>

(* write_lock_file: open() creates or truncates the file ...               *)
OpenLock(l) ==
  /\ launcher[l] = "open"
  /\ lock' = Empty
  /\ writes' = writes \cup {l}
  /\ Goes(l, "write")
  /\ UNCHANGED <<seen, child, sharedVars>>

(* ... and close() writes it, into a file that may have been removed.      *)
WriteLock(l) ==
  /\ launcher[l] = "write"
  /\ lock' = IF l \in writes THEN <<seen[l]>> ELSE lock
  /\ writes' = writes \ {l}
  /\ Goes(l, "wait")
  /\ UNCHANGED <<seen, child, sharedVars>>

(* wait_for_socket: any browser's socket will do.                          *)
SocketIsThere(l) ==
  /\ launcher[l] = "wait"
  /\ Connectable
  /\ Goes(l, "connect")
  /\ UNCHANGED <<seen, child, lock, writes, sharedVars>>

(* Bug variant: the wait goes on as long as the browser lives.             *)
SocketTimesOut_WhileAlive(l) ==
  /\ launcher[l] = "wait"
  /\ ~PidExists(seen[l])
  /\ Goes(l, "done")
  /\ disturbed' = TRUE
  /\ UNCHANGED <<seen, child, lock, writes, browser, path, starts>>

SocketTimesOut(l) ==
  /\ launcher[l] = "wait"
  /\ Goes(l, "done")
  /\ disturbed' = TRUE
  /\ UNCHANGED <<seen, child, lock, writes, browser, path, starts>>

-----------------------------------------------------------------------------
Connect(l) ==
  /\ launcher[l] = "connect"
  /\ Goes(l, IF Connectable THEN "relay" ELSE "done")
  /\ UNCHANGED <<seen, child, lock, writes, sharedVars>>

(* StdioSocketProxy.run returns: end of file on either side, an error, or  *)
(* a signal.  The browser and the file stay.                               *)
RelayEnds(l) ==
  /\ launcher[l] = "relay"
  /\ Goes(l, "done")
  /\ UNCHANGED <<seen, child, lock, writes, sharedVars>>

LauncherStep(l) ==
  \/ ReadLock(l)
  \/ CheckProcess(l)
  \/ RemoveStale(l)
  \/ Probe(l)
  \/ LaunchBrowser(l)
  \/ OpenLock(l)
  \/ WriteLock(l)
  \/ SocketIsThere(l)
  \/ SocketTimesOut(l)
  \/ Connect(l)
=============================================================================

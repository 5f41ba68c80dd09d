---------------------------- MODULE BrowserSocket ----------------------------
(***************************************************************************)
(* What the programs that start the system share: browser processes, the   *)
(* path of Chromium's socket, and who has been started so far.             *)
(*                                                                         *)
(* A browser binds the socket path, after removing whatever is there; it   *)
(* may also find a browser running with its profile, hand over to it and   *)
(* exit.  The path outlives it.                                            *)
(***************************************************************************)
EXTENDS Naturals, FiniteSets

CONSTANTS MaxBrowsers,   \* bound: browsers launched; a launch fails then
          MaxStarts      \* bound: programs started by users, of any kind

ASSUME StartsAssumption == MaxBrowsers \in Nat /\ MaxStarts \in Nat

Browsers == 1 .. MaxBrowsers
Nobody == 0

VARIABLES
  browser,    \* status of each browser process
  path,       \* the browser whose socket the path names; it may be dead
  starts,     \* programs started so far
  disturbed   \* history: starts have overlapped, timed out, a process that
              \* the next start relies on has ended, or a daemon has
              \* launched a browser

sharedVars == <<browser, path, starts, disturbed>>

SharedInit ==
  /\ browser = [b \in Browsers |-> "unborn"]
  /\ path = Nobody
  /\ starts = 0
  /\ disturbed = FALSE

Running(b) == browser[b] \in {"starting", "serving"}

(* connect() on the path.                                                  *)
Connectable == path # Nobody /\ browser[path] = "serving"

Launch(b) ==
  /\ browser[b] = "unborn"
  /\ \A other \in Browsers : other < b => browser[other] # "unborn"
  /\ browser' = [browser EXCEPT ![b] = "starting"]

(* McpTransportSocket::CreateAndBindSocket.                                *)
Bind(b) ==
  /\ browser[b] = "starting"
  /\ browser' = [browser EXCEPT ![b] = "serving"]
  /\ path' = b
  /\ UNCHANGED <<starts, disturbed>>

HandOver(b) ==
  /\ browser[b] = "starting"
  /\ \E other \in Browsers \ {b} : Running(other)
  /\ browser' = [browser EXCEPT ![b] = "gone"]
  /\ disturbed' = TRUE
  /\ UNCHANGED <<path, starts>>

(* A browser quits or crashes.  Either way the path stays: nothing calls   *)
(* McpServer::Shutdown, and so McpTransportSocket::Stop.                   *)
Ends(b) ==
  /\ Running(b)
  /\ browser' = [browser EXCEPT ![b] = "gone"]
  /\ disturbed' = TRUE
  /\ UNCHANGED <<path, starts>>

BrowserStep == \E b \in Browsers : Bind(b) \/ HandOver(b) \/ Ends(b)
=============================================================================

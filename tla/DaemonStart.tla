----------------------------- MODULE DaemonStart -----------------------------
(***************************************************************************)
(* connect_chromium_socket of src/scripts/chromium-mcp-client.py, and the  *)
(* life of the daemon it may start: main and cleanup of                    *)
(* src/scripts/chromium-mcp-daemon.py.  A client tries the daemon's socket,*)
(* then Chromium's; if neither answers it starts a daemon and tries both,  *)
(* now in the other order, for thirty seconds.  A daemon removes the path  *)
(* of its socket and binds it, without asking whether it is in use.        *)
(***************************************************************************)
EXTENDS BrowserSocket

CONSTANTS Clients,      \* client processes
          MaxDaemons    \* bound: daemons started; a start is lost then

ASSUME DaemonsAssumption == MaxDaemons \in Nat

Daemons == 1 .. MaxDaemons

VARIABLES
  client,      \* where connect_chromium_socket is, per client
  daemon,      \* where main() is, per daemon
  proxyPath,   \* the daemon whose socket PROXY_SOCKET names, or Nobody
  listening    \* daemons whose socket accepts connections

startVars == <<client, daemon, proxyPath, listening>>

ClientSettled == {"off", "daemon", "chromium", "exit"}

StartInit ==
  /\ client = [c \in Clients |-> "off"]
  /\ daemon = [d \in Daemons |-> "unborn"]
  /\ proxyPath = Nobody
  /\ listening = {}

ProxyAnswers == proxyPath \in listening

StartClient(c, busy) ==
  /\ client[c] = "off"
  /\ starts < MaxStarts
  /\ starts' = starts + 1
  /\ disturbed' = (disturbed \/ busy)
  /\ client' = [client EXCEPT ![c] = "proxy"]
  /\ UNCHANGED <<daemon, proxyPath, listening, browser, path>>

ClientGoes(c, to) ==
  /\ client' = [client EXCEPT ![c] = to]
  /\ UNCHANGED <<daemon, proxyPath, listening, sharedVars>>

TryProxy(c) ==
  /\ client[c] = "proxy"
  /\ ClientGoes(c, IF ProxyAnswers THEN "daemon" ELSE "other")

TryChromium(c) ==
  /\ client[c] = "other"
  /\ ClientGoes(c, IF Connectable THEN "chromium" ELSE "spawn")

StartDaemon(c) ==
  /\ client[c] = "spawn"
  /\ client' = [client EXCEPT ![c] = "poll"]
  /\ \/ \E d \in Daemons :
          /\ daemon[d] = "unborn"
          /\ \A e \in Daemons : e < d => daemon[e] # "unborn"
          /\ daemon' = [daemon EXCEPT ![d] = "pid"]
     \/ /\ \A d \in Daemons : daemon[d] # "unborn"
        /\ UNCHANGED daemon
  /\ UNCHANGED <<proxyPath, listening, sharedVars>>

(* The loop after the start of the daemon: Chromium first.                 *)
PollConnects(c) ==
  /\ client[c] = "poll"
  /\ \/ Connectable /\ ClientGoes(c, "chromium")
     \/ ~Connectable /\ ProxyAnswers /\ ClientGoes(c, "daemon")

PollTimesOut(c) ==
  /\ client[c] = "poll"
  /\ client' = [client EXCEPT ![c] = "exit"]
  /\ disturbed' = TRUE
  /\ UNCHANGED <<daemon, proxyPath, listening, browser, path, starts>>

ConnectStep(c) ==
  \/ TryProxy(c)
  \/ TryChromium(c)
  \/ StartDaemon(c)
  \/ PollConnects(c)
  \/ PollTimesOut(c)

-----------------------------------------------------------------------------
DaemonGoes(d, to) == daemon' = [daemon EXCEPT ![d] = to]

(* write_pid; then the path is looked for ...                              *)
FindOldSocket(d) ==
  /\ daemon[d] = "pid"
  /\ DaemonGoes(d, IF proxyPath = Nobody THEN "bind" ELSE "unlink")
  /\ UNCHANGED <<client, proxyPath, listening, sharedVars>>

(* ... and removed, whoever serves there; unlink() of a path that is gone  *)
(* by then ends the daemon.                                                *)
RemoveOldSocket(d) ==
  /\ daemon[d] = "unlink"
  /\ proxyPath' = Nobody
  /\ DaemonGoes(d, IF proxyPath = Nobody THEN "gone" ELSE "bind")
  /\ UNCHANGED <<client, listening, sharedVars>>

(* bind() fails on a path that exists again: nothing catches the error.    *)
BindSocket(d) ==
  /\ daemon[d] = "bind"
  /\ \/ /\ proxyPath = Nobody
        /\ proxyPath' = d
        /\ DaemonGoes(d, "listen")
     \/ /\ proxyPath # Nobody
        /\ DaemonGoes(d, "gone")
        /\ UNCHANGED proxyPath
  /\ UNCHANGED <<client, listening, sharedVars>>

(* chmod() of the path, which fails, and nothing catches that, if it has   *)
(* been removed since; it may also be removed between chmod() and listen().*)
Listen(d) ==
  /\ daemon[d] = "listen"
  /\ \/ /\ listening' = listening \cup {d}
        /\ DaemonGoes(d, "serve")
     \/ /\ proxyPath = Nobody
        /\ DaemonGoes(d, "gone")
        /\ UNCHANGED listening
  /\ UNCHANGED <<client, proxyPath, sharedVars>>

(* The start of Chromium by a serving daemon (ChromiumManager), which does *)
(* not look for one that runs, and names its own in no lock file.          *)
DaemonLaunches(d) ==
  /\ daemon[d] = "serve"
  /\ \E b \in Browsers : Launch(b)
  /\ disturbed' = TRUE
  /\ UNCHANGED <<startVars, path, starts>>

(* SIGTERM or SIGINT, at any time: cleanup() removes the path, whoever     *)
(* serves there, and raises SystemExit.                                    *)
Terminate(d) ==
  /\ daemon[d] \in {"pid", "unlink", "bind", "listen", "serve"}
  /\ proxyPath' = Nobody
  /\ DaemonGoes(d, IF daemon[d] = "serve" THEN "shutdown" ELSE "gone")
  /\ disturbed' = TRUE
  /\ UNCHANGED <<client, listening, browser, path, starts>>

(* The finally of main(): shutdown() of the manager, close(), and cleanup()*)
(* once more.                                                              *)
ShutDown(d) ==
  /\ daemon[d] = "shutdown"
  /\ listening' = listening \ {d}
  /\ proxyPath' = Nobody
  /\ DaemonGoes(d, "gone")
  /\ UNCHANGED <<client, sharedVars>>

DaemonStep(d) ==
  \/ FindOldSocket(d)
  \/ RemoveOldSocket(d)
  \/ BindSocket(d)
  \/ Listen(d)
  \/ ShutDown(d)
=============================================================================

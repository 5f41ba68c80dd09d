------------------------------- MODULE StartUp -------------------------------
(***************************************************************************)
(* How the system comes up: launchers and clients, started by their users  *)
(* at any time, on one machine and with the same paths.                    *)
(***************************************************************************)
EXTENDS LauncherLock, DaemonStart

vars == <<launcherVars, startVars, sharedVars>>

Init ==
  /\ SharedInit
  /\ LauncherInit
  /\ StartInit

(* A program that has been started is not connected yet.                   *)
Busy ==
  \/ \E l \in Launchers : launcher[l] \notin Settled
  \/ \E c \in Clients : client[c] \notin ClientSettled

Next ==
  \/ /\ \E l \in Launchers : StartLauncher(l, Busy) \/ LauncherStep(l) \/ RelayEnds(l)
     /\ UNCHANGED startVars
  \/ /\ \/ \E c \in Clients : StartClient(c, Busy) \/ ConnectStep(c)
        \/ \E d \in Daemons : DaemonLaunches(d) \/ DaemonStep(d) \/ Terminate(d)
     /\ UNCHANGED launcherVars
  \/ BrowserStep /\ UNCHANGED <<launcherVars, startVars>>

(* Processes run on: every loop before the connection has a deadline.      *)
Fairness ==
  /\ \A l \in Launchers : WF_vars(LauncherStep(l) /\ UNCHANGED startVars)
  /\ \A c \in Clients : WF_vars(ConnectStep(c) /\ UNCHANGED launcherVars)
  /\ \A d \in Daemons : WF_vars(DaemonStep(d) /\ UNCHANGED launcherVars)

Spec == Init /\ [][Next]_vars /\ Fairness

-----------------------------------------------------------------------------
Started(status) == {p \in DOMAIN status : status[p] # "unborn"}

(* Programs started one after the other, each when the one before it is    *)
(* connected, share one daemon and one browser, as long as these live and  *)
(* answer in time, and the daemon launches none: the second launcher finds *)
(* the browser of the first by the lock file, the second client finds the  *)
(* daemon or Chromium.                                                     *)
OneAfterTheOtherShare ==
  ~disturbed => Cardinality(Started(browser)) <= 1 /\ Cardinality(Started(daemon)) <= 1

(* Whatever they meet, launchers and clients end up connected or exit.     *)
StartsEnd ==
  /\ \A l \in Launchers : launcher[l] \notin Settled ~> launcher[l] \in Settled
  /\ \A c \in Clients : client[c] \notin ClientSettled ~> client[c] \in ClientSettled

(* The daemon that is serving and has not been told to stop can be found:  *)
(* what a client that has started one relies on.                           *)
ServingIsReachable ==
  \A d \in Daemons : daemon[d] = "serve" => proxyPath = d

(* src/scripts/chromium-mcp-launcher.py:10: a living instance is used.     *)
(* A launcher launches a browser only if none is serving.                  *)
LivingInstanceIsUsed ==
  [][\A l \in Launchers : launcher[l] = "launch" /\ launcher'[l] = "open" => ~Connectable]_vars
=============================================================================

----------------------------- MODULE McpSession -----------------------------
(***************************************************************************)
(* McpSession (src/src/mcp_session.cc): the bridge between the tool calls  *)
(* of the MCP server and the DevToolsAgentHost of one tab.                 *)
(*                                                                         *)
(* Everything runs on the UI thread.  A tool call is a chain of CDP        *)
(* commands: the callback of a command may send the next command of the    *)
(* chain or hand the call's result to the server.  A callback can thus     *)
(* re-enter SendCdpCommand() while Detach() or AgentHostClosed() is still  *)
(* walking pending_callbacks_; "sweep" is the iterator of that walk.       *)
(***************************************************************************)
EXTENDS Naturals

CONSTANTS Calls,     \* tool calls that use this session
          NoCall,    \* who waits for the answer of a fire-and-forget command
          MaxSteps   \* bound: longest chain of CDP commands of a call

ASSUME SessionAssumption == NoCall \notin Calls /\ MaxSteps \in Nat \ {0}

VARIABLES
  alive,          \* the McpSession object has not been destroyed
  is_attached,    \* is_attached_
  next_cdp_id,    \* next_cdp_id_
  pending,        \* pending_callbacks_: command id -> the call that waits
  sweep,          \* the walk over pending_callbacks_, and its position
  agent,          \* external: the tab's DevToolsAgentHost, "open" or "closed"
  outstanding,    \* external: commands the agent has not answered yet
  issued,         \* commands each call has sent
  results         \* how often the result of each call was delivered

sessionVars == <<alive, is_attached, next_cdp_id, pending, sweep, agent,
                 outstanding, issued, results>>

SweepKinds == {"none", "detach", "destroy", "closed"}
NoSweep == [kind |-> "none", at |-> 0]
Idle == sweep.kind = "none"
EmptyMap == [i \in {} |-> i]
Waiters == Calls \cup {NoCall}

SessionTypeOK ==
  /\ alive \in BOOLEAN
  /\ is_attached \in BOOLEAN
  /\ next_cdp_id \in Nat \ {0}
  /\ DOMAIN pending \subseteq 1 .. (next_cdp_id - 1)
  /\ pending \in [DOMAIN pending -> Waiters]
  /\ sweep \in [kind : SweepKinds, at : Nat]
  /\ sweep.at < next_cdp_id
  /\ agent \in {"open", "closed"}
  /\ outstanding \subseteq [id : Nat, call : Waiters]
  /\ issued \in [Calls -> 0 .. MaxSteps]
  /\ results \in [Calls -> Nat]

SessionInit ==
  /\ alive = TRUE
  /\ is_attached = FALSE
  /\ next_cdp_id = 1
  /\ pending = EmptyMap
  /\ sweep = NoSweep
  /\ agent = "open"
  /\ outstanding = {}
  /\ issued = [c \in Calls |-> 0]
  /\ results = [c \in Calls |-> 0]

-----------------------------------------------------------------------------
(* Bug variant: the callback runs but stays registered.                    *)
Without_NotErased(map, i) == map

Without(map, i) == [j \in DOMAIN map \ {i} |-> map[j]]
With(map, ids, c) ==
  [j \in DOMAIN map \cup ids |-> IF j \in ids THEN c ELSE map[j]]

(* Bug variant: the id counter is not advanced.                            *)
SendCdpCommand_SameId(c, map, out) ==
  /\ pending' = With(map, {next_cdp_id}, c)
  /\ next_cdp_id' = next_cdp_id
  /\ outstanding' = out \cup {[id |-> next_cdp_id, call |-> c]}
  /\ issued' = [issued EXCEPT ![c] = @ + 1]

(* SendCdpCommand on an attached session: the callback is registered under *)
(* a fresh id, then the command is dispatched to the agent.                *)
SendCdpCommand(c, map, out) ==
  /\ pending' = With(map, {next_cdp_id}, c)
  /\ next_cdp_id' = next_cdp_id + 1
  /\ outstanding' = out \cup {[id |-> next_cdp_id, call |-> c]}
  /\ issued' = [issued EXCEPT ![c] = @ + 1]

Deliver(c) == results' = [results EXCEPT ![c] = @ + 1]

(* Two commands whose answers are dropped, as the mouse press and release  *)
(* of the click tool, sent right before the result is handed over.         *)
SendUnawaited(map, out) ==
  LET ids == {next_cdp_id, next_cdp_id + 1}
  IN /\ pending' = With(map, ids, NoCall)
     /\ next_cdp_id' = next_cdp_id + 2
     /\ outstanding' = out \cup {[id |-> i, call |-> NoCall] : i \in ids}

(* What the callback of a command of call c does, with "map" what is left  *)
(* of pending_callbacks_: it sends the chain's next command, or it hands   *)
(* the result over, after commands nobody waits for or not.  On a session  *)
(* that is not attached the commands all fail at once ("Session not        *)
(* attached") and the result follows.  NoCall's callback does nothing.     *)
RunCallback(c, map, out) ==
  \/ /\ c # NoCall
     /\ is_attached
     /\ issued[c] < MaxSteps
     /\ SendCdpCommand(c, map, out)
     /\ UNCHANGED results
  \/ /\ c # NoCall
     /\ is_attached
     /\ SendUnawaited(map, out)
     /\ Deliver(c)
     /\ UNCHANGED issued
  \/ /\ IF c = NoCall THEN UNCHANGED results ELSE Deliver(c)
     /\ pending' = map
     /\ outstanding' = out
     /\ UNCHANGED <<next_cdp_id, issued>>

-----------------------------------------------------------------------------
Attach ==
  /\ alive /\ Idle
  /\ ~is_attached
  /\ agent = "open"
  /\ is_attached' = TRUE
  /\ UNCHANGED <<alive, next_cdp_id, pending, sweep, agent, outstanding,
                 issued, results>>

(* A tool starts a call: its first command is registered, or fails at once *)
(* when the session is not attached.                                       *)
StartCall(c) ==
  /\ alive /\ Idle
  /\ issued[c] = 0
  /\ \/ /\ is_attached
        /\ SendCdpCommand(c, pending, outstanding)
        /\ UNCHANGED results
     \/ /\ ~is_attached
        /\ issued' = [issued EXCEPT ![c] = @ + 1]
        /\ Deliver(c)
        /\ UNCHANGED <<next_cdp_id, pending, outstanding>>
  /\ UNCHANGED <<alive, is_attached, sweep, agent>>

(* The agent answers a command: DispatchProtocolMessage, HandleCdpMessage, *)
(* HandleCdpResponse.  The callback is taken out of the map before it runs.*)
(* (No answer finds its id missing from the map: AwaitedBySomeone.)        *)
HandleCdpResponse(o) ==
  /\ alive /\ Idle
  /\ RunCallback(pending[o.id], Without(pending, o.id), outstanding \ {o})
  /\ UNCHANGED <<alive, is_attached, sweep, agent>>

(* Detach(), called by the owner or by the destructor, starts its walk     *)
(* with the session still attached.                                        *)
Detach(kind) ==
  /\ alive /\ Idle
  /\ is_attached
  /\ sweep' = [kind |-> kind, at |-> 0]
  /\ UNCHANGED <<alive, is_attached, next_cdp_id, pending, agent,
                 outstanding, issued, results>>

(* The destructor of a session that is not attached has nothing to walk.   *)
DestroyDetached ==
  /\ alive /\ Idle
  /\ ~is_attached
  /\ alive' = FALSE
  /\ UNCHANGED <<is_attached, next_cdp_id, pending, sweep, agent,
                 outstanding, issued, results>>

(* Bug variant: the map is cleared without running the callbacks.          *)
AgentHostClosed_ClearsOnly ==
  /\ Idle
  /\ agent = "open"
  /\ agent' = "closed"
  /\ outstanding' = {}
  /\ is_attached' = FALSE
  /\ pending' = EmptyMap
  /\ UNCHANGED <<alive, next_cdp_id, sweep, issued, results>>

(* The tab is closed or its renderer is gone.  An attached client is told  *)
(* (AgentHostClosed): it is detached before the walk starts.               *)
AgentHostClosed ==
  /\ Idle
  /\ agent = "open"
  /\ agent' = "closed"
  /\ outstanding' = {}
  /\ is_attached' = FALSE
  /\ sweep' = IF is_attached THEN [kind |-> "closed", at |-> 0] ELSE sweep
  /\ UNCHANGED <<alive, next_cdp_id, pending, issued, results>>

(* One iteration of the walk: the callback with the next larger id runs    *)
(* with an error.  It stays in the map, spent.  A command it sends gets a  *)
(* larger id still, so the walk over the ordered map reaches it.           *)
SweepNext ==
  /\ ~Idle
  /\ \E i \in DOMAIN pending :
       /\ sweep.at < i
       /\ \A j \in DOMAIN pending : sweep.at < j => i <= j
       /\ sweep' = [sweep EXCEPT !.at = i]
       /\ RunCallback(pending[i], pending, outstanding)
  /\ UNCHANGED <<alive, is_attached, agent>>

(* Bug variants: the loop ends before the callbacks that the walk itself   *)
(* registered; the agent is not told; the map is not cleared.              *)
SweepEnd_Snapshot ==
  /\ ~Idle
  /\ \A i \in DOMAIN pending :
       i <= sweep.at \/ pending[i] = NoCall \/ issued[pending[i]] > 1
  /\ pending' = EmptyMap
  /\ sweep' = NoSweep
  /\ is_attached' = FALSE
  /\ outstanding' = {}
  /\ alive' = (alive /\ sweep.kind # "destroy")
  /\ UNCHANGED <<next_cdp_id, agent, issued, results>>

SweepEnd_StillClient ==
  /\ ~Idle
  /\ \A i \in DOMAIN pending : i <= sweep.at
  /\ pending' = EmptyMap
  /\ sweep' = NoSweep
  /\ is_attached' = FALSE
  /\ alive' = (alive /\ sweep.kind # "destroy")
  /\ UNCHANGED <<next_cdp_id, agent, outstanding, issued, results>>

SweepEnd_NotCleared ==
  /\ ~Idle
  /\ \A i \in DOMAIN pending : i <= sweep.at
  /\ sweep' = NoSweep
  /\ is_attached' = FALSE
  /\ outstanding' = {}
  /\ alive' = (alive /\ sweep.kind # "destroy")
  /\ UNCHANGED <<next_cdp_id, pending, agent, issued, results>>

(* The walk is over: the map is cleared; Detach() also tells the agent,    *)
(* which forgets the client's commands.                                    *)
SweepEnd ==
  /\ ~Idle
  /\ \A i \in DOMAIN pending : i <= sweep.at
  /\ pending' = EmptyMap
  /\ sweep' = NoSweep
  /\ is_attached' = FALSE
  /\ outstanding' = {}
  /\ alive' = (alive /\ sweep.kind # "destroy")
  /\ UNCHANGED <<next_cdp_id, agent, issued, results>>

SessionNext ==
  \/ Attach
  \/ \E c \in Calls : StartCall(c)
  \/ \E o \in outstanding : HandleCdpResponse(o)
  \/ Detach("detach")
  \/ Detach("destroy")
  \/ DestroyDetached
  \/ AgentHostClosed
  \/ SweepNext
  \/ SweepEnd

(* The UI thread does not stop in the middle of a walk; nothing obliges    *)
(* the agent to answer.                                                    *)
SessionSpec ==
  /\ SessionInit /\ [][SessionNext]_sessionVars
  /\ WF_sessionVars(SweepNext) /\ WF_sessionVars(SweepEnd)

-----------------------------------------------------------------------------
(* The registered callbacks of call c that have not run yet.               *)
Live(c) == {i \in DOMAIN pending : pending[i] = c /\ sweep.at < i}

(* A tool call that has begun waits on exactly one callback until its      *)
(* result is delivered, and the result is delivered once.  In particular a *)
(* command sent from a callback in the middle of Detach()'s walk is not    *)
(* swallowed by the clear() that follows the walk.                         *)
CallConserved ==
  \A c \in Calls :
    \/ /\ issued[c] = 0 /\ results[c] = 0 /\ Live(c) = {}
    \/ /\ issued[c] > 0 /\ results[c] = 0
       /\ \E i \in DOMAIN pending : Live(c) = {i}
    \/ /\ issued[c] > 0 /\ results[c] = 1 /\ Live(c) = {}

(* Every answer the agent can still send finds the callback of the call    *)
(* that asked: ids of an earlier attachment never meet a later call, and   *)
(* the "unknown id" branch of HandleCdpResponse is never taken.            *)
AwaitedBySomeone ==
  \A o \in outstanding : o.id \in DOMAIN pending /\ pending[o.id] = o.call

(* Between two tasks of the UI thread, a callback is registered only for a *)
(* command the agent may still answer: no call waits for nothing, and a    *)
(* detached session holds no callback.                                     *)
NothingAwaitedInVain ==
  Idle => \A i \in DOMAIN pending :
            /\ is_attached
            /\ [id |-> i, call |-> pending[i]] \in outstanding

(* When the tab goes away, every call that was begun gets its result, the  *)
(* calls that re-enter SendCdpCommand included.                            *)
ClosedAnswersAll ==
  \A c \in Calls :
    (agent = "closed" /\ issued[c] > 0) ~> (results[c] = 1)

(* McpSession implements the abstract session.                             *)
Abstract == INSTANCE CdpCalls WITH
  open <- is_attached,
  waiting <- {c \in Calls : Live(c) # {}},
  answered <- {c \in Calls : results[c] > 0}

ImplementsCdpCalls == Abstract!Spec
=============================================================================

---------------------------- MODULE BrowserProofs ----------------------------
(***************************************************************************)
(* Proofs about the two halves of the browser side: McpSession for any set *)
(* of calls and any chain length, and McpServer for any number of clients, *)
(* tabs and requests.                                                      *)
(*                                                                         *)
(* The inductive invariant of McpSession, SessionIInv, joins the three     *)
(* safety invariants, the type invariant and the shape of the idle walk:   *)
(* none of them is inductive alone (an answer keeps a call conserved only  *)
(* because the answer is awaited by the right call, and a tab that closes  *)
(* while no walk runs leaves nothing behind only because a detached        *)
(* session is empty).                                                      *)
(*                                                                         *)
(* The one of McpServer, IInv, joins the type invariant and the two safety *)
(* invariants with two facts of the reachable states they need: a client   *)
(* that is not connected has no state, one that was never connected has    *)
(* asked for nothing, and calls run for ready clients or for clients that  *)
(* left (QuietClients); a window with tabs has an active one, so that a    *)
(* client for which no tab is found finds no open tab (ActiveIsOpen).      *)
(***************************************************************************)
EXTENDS McpSession, McpServer, TLAPS

-----------------------------------------------------------------------------
(* McpSession.                                                             *)

IdleWalk == Idle => sweep.at = 0

SessionIInv == /\ SessionTypeOK
               /\ IdleWalk
               /\ CallConserved
               /\ AwaitedBySomeone
               /\ NothingAwaitedInVain

USE SessionAssumption DEF Waiters

LEMMA EmptyMapFacts ==
  DOMAIN EmptyMap = {} /\ EmptyMap \in [DOMAIN EmptyMap -> Waiters]
BY DEF EmptyMap

LEMMA InitSessionIInv == SessionInit => SessionIInv
<1> SUFFICES ASSUME SessionInit PROVE SessionIInv
  OBVIOUS
<1>1. SessionTypeOK /\ IdleWalk
  <2>1. DOMAIN pending = {} /\ pending \in [DOMAIN pending -> Waiters]
    BY EmptyMapFacts DEF SessionInit
  <2>2. sweep \in [kind : SweepKinds, at : Nat] /\ sweep.at = 0
    BY DEF SessionInit, NoSweep, SweepKinds
  <2>3. alive \in BOOLEAN /\ is_attached \in BOOLEAN
    BY DEF SessionInit
  <2>5. /\ next_cdp_id \in Nat \ {0} /\ 0 < next_cdp_id
        /\ agent \in {"open", "closed"}
        /\ issued \in [Calls -> 0 .. MaxSteps] /\ results \in [Calls -> Nat]
    BY DEF SessionInit
  <2>4. outstanding = {}
    BY DEF SessionInit
  <2> QED BY <2>1, <2>2, <2>3, <2>4, <2>5 DEF SessionTypeOK, IdleWalk
<1>2. CallConserved
  BY EmptyMapFacts DEF SessionInit, CallConserved, Live
<1>3. AwaitedBySomeone /\ NothingAwaitedInVain
  BY EmptyMapFacts DEF SessionInit, AwaitedBySomeone, NothingAwaitedInVain
<1> QED BY <1>1, <1>2, <1>3 DEF SessionIInv

LEMMA AttachIInv == SessionIInv /\ Attach => SessionIInv'
<1> SUFFICES ASSUME SessionIInv, Attach PROVE SessionIInv'
  OBVIOUS
<1>1. SessionTypeOK' /\ IdleWalk'
  BY DEF SessionIInv, Attach, SessionTypeOK, IdleWalk, Idle
<1>2. CallConserved'
  BY DEF SessionIInv, Attach, CallConserved, Live
<1>3. AwaitedBySomeone' /\ NothingAwaitedInVain'
  BY DEF SessionIInv, Attach, AwaitedBySomeone, NothingAwaitedInVain, Idle
<1> QED BY <1>1, <1>2, <1>3 DEF SessionIInv

LEMMA StartCallIInv ==
  ASSUME SessionIInv, NEW c \in Calls, StartCall(c)
  PROVE  SessionIInv'
<1>1. CASE is_attached
  <2>1. /\ SendCdpCommand(c, pending, outstanding)
        /\ UNCHANGED <<results, alive, is_attached, sweep, agent>>
    BY <1>1 DEF StartCall
  <2>2. /\ issued[c] = 0 /\ sweep.at = 0 /\ Idle
        /\ results[c] = 0 /\ Live(c) = {}
    BY DEF StartCall, SessionIInv, IdleWalk, CallConserved, SessionTypeOK
  <2>3. SessionTypeOK' /\ IdleWalk'
    BY <2>1, <2>2 DEF SessionIInv, SessionTypeOK, IdleWalk, Idle, SendCdpCommand, With
  <2>4. CallConserved'
    BY <2>1, <2>2 DEF SessionIInv, SessionTypeOK, CallConserved, Live, SendCdpCommand, With
  <2>5. AwaitedBySomeone' /\ NothingAwaitedInVain'
    BY <2>1, <2>2, <1>1 DEF SessionIInv, SessionTypeOK, AwaitedBySomeone,
       NothingAwaitedInVain, Idle, SendCdpCommand, With
  <2> QED BY <2>3, <2>4, <2>5 DEF SessionIInv
<1>2. CASE ~is_attached
  <2>1. /\ issued' = [issued EXCEPT ![c] = @ + 1]
        /\ results' = [results EXCEPT ![c] = @ + 1]
        /\ UNCHANGED <<next_cdp_id, pending, outstanding, alive, is_attached,
                       sweep, agent>>
    BY <1>2 DEF StartCall, Deliver
  <2>2. issued[c] = 0 /\ results[c] = 0 /\ Live(c) = {}
    BY DEF StartCall, SessionIInv, CallConserved, SessionTypeOK
  <2>3. SessionTypeOK' /\ IdleWalk'
    BY <2>1, <2>2 DEF SessionIInv, SessionTypeOK, IdleWalk, Idle
  <2>4. CallConserved'
    BY <2>1, <2>2 DEF SessionIInv, SessionTypeOK, CallConserved, Live
  <2>5. AwaitedBySomeone' /\ NothingAwaitedInVain'
    BY <2>1 DEF SessionIInv, AwaitedBySomeone, NothingAwaitedInVain, Idle
  <2> QED BY <2>3, <2>4, <2>5 DEF SessionIInv
<1> QED BY <1>1, <1>2

(* The two outcomes of a callback that is out of the map when it runs.     *)
LEMMA HandleCdpResponseIInv ==
  ASSUME SessionIInv, NEW o \in outstanding, HandleCdpResponse(o)
  PROVE  SessionIInv'
<1> DEFINE c == pending[o.id]
           map == Without(pending, o.id)
<1>1. /\ UNCHANGED <<alive, is_attached, sweep, agent>>
      /\ Idle /\ sweep.at = 0
      /\ o.id \in DOMAIN pending /\ c \in Waiters /\ o.call = c
      /\ RunCallback(c, map, outstanding \ {o})
  BY DEF HandleCdpResponse, SessionIInv, IdleWalk, AwaitedBySomeone, SessionTypeOK
<1>2. c # NoCall => results[c] = 0 /\ issued[c] > 0 /\ Live(c) = {o.id}
  BY <1>1 DEF SessionIInv, CallConserved, Live, SessionTypeOK
<1>3. o = [id |-> o.id, call |-> c]
  BY <1>1 DEF SessionIInv, SessionTypeOK
<1>4. \A p \in outstanding : p.id = o.id => p = o
  BY <1>1, <1>3 DEF SessionIInv, SessionTypeOK, AwaitedBySomeone
<1>5. CASE /\ c # NoCall
           /\ is_attached
           /\ issued[c] < MaxSteps
           /\ SendCdpCommand(c, map, outstanding \ {o})
           /\ UNCHANGED results
  <2>1. SessionTypeOK' /\ IdleWalk'
    BY <1>1, <1>5 DEF SessionIInv, SessionTypeOK, IdleWalk, Idle, SendCdpCommand, With, Without
  <2>2. CallConserved'
    BY <1>1, <1>2, <1>5 DEF SessionIInv, SessionTypeOK, CallConserved, Live, SendCdpCommand,
       With, Without
  <2>3. AwaitedBySomeone'
    BY <1>1, <1>4, <1>5 DEF SessionIInv, SessionTypeOK, AwaitedBySomeone, SendCdpCommand,
       With, Without
  <2>4. NothingAwaitedInVain'
    BY <1>1, <1>5 DEF SessionIInv, SessionTypeOK, NothingAwaitedInVain, Idle, SendCdpCommand,
       With, Without
  <2> QED BY <2>1, <2>2, <2>3, <2>4 DEF SessionIInv
<1>6. CASE /\ c # NoCall
           /\ is_attached
           /\ SendUnawaited(map, outstanding \ {o})
           /\ Deliver(c)
           /\ UNCHANGED issued
  <2>1. SessionTypeOK' /\ IdleWalk'
    BY <1>1, <1>6 DEF SessionIInv, SessionTypeOK, IdleWalk, Idle, SendUnawaited, With,
       Without, Deliver
  <2>2. CallConserved'
    BY <1>1, <1>2, <1>6 DEF SessionIInv, SessionTypeOK, CallConserved, Live, SendUnawaited,
       With, Without, Deliver
  <2>3. AwaitedBySomeone'
    BY <1>1, <1>4, <1>6 DEF SessionIInv, SessionTypeOK, AwaitedBySomeone, SendUnawaited,
       With, Without
  <2>4. NothingAwaitedInVain'
    BY <1>1, <1>6 DEF SessionIInv, SessionTypeOK, NothingAwaitedInVain, Idle, SendUnawaited,
       With, Without
  <2> QED BY <2>1, <2>2, <2>3, <2>4 DEF SessionIInv
<1>7. CASE /\ IF c = NoCall THEN UNCHANGED results ELSE Deliver(c)
           /\ pending' = map
           /\ outstanding' = outstanding \ {o}
           /\ UNCHANGED <<next_cdp_id, issued>>
  <2>1. SessionTypeOK' /\ IdleWalk'
    BY <1>1, <1>7 DEF SessionIInv, SessionTypeOK, IdleWalk, Idle, Deliver, Without
  <2>2. CallConserved'
    BY <1>1, <1>2, <1>7 DEF SessionIInv, SessionTypeOK, CallConserved, Live, Deliver, Without
  <2>3. AwaitedBySomeone'
    BY <1>1, <1>4, <1>7 DEF SessionIInv, SessionTypeOK, AwaitedBySomeone, Without
  <2>4. NothingAwaitedInVain'
    BY <1>1, <1>7 DEF SessionIInv, SessionTypeOK, NothingAwaitedInVain, Idle, Without
  <2> QED BY <2>1, <2>2, <2>3, <2>4 DEF SessionIInv
<1> QED BY <1>1, <1>5, <1>6, <1>7 DEF RunCallback

LEMMA DetachIInv ==
  ASSUME SessionIInv, NEW kind \in {"detach", "destroy"}, Detach(kind)
  PROVE  SessionIInv'
<1>1. Idle /\ sweep.at = 0
  BY DEF Detach, SessionIInv, IdleWalk
<1>2. SessionTypeOK' /\ IdleWalk'
  BY DEF SessionIInv, SessionTypeOK, IdleWalk, Idle, Detach, SweepKinds
<1>3. CallConserved'
  BY <1>1 DEF SessionIInv, CallConserved, Live, Detach
<1>4. AwaitedBySomeone' /\ NothingAwaitedInVain'
  BY DEF SessionIInv, AwaitedBySomeone, NothingAwaitedInVain, Idle, Detach
<1> QED BY <1>2, <1>3, <1>4 DEF SessionIInv

LEMMA DestroyDetachedIInv == SessionIInv /\ DestroyDetached => SessionIInv'
BY DEF SessionIInv, DestroyDetached, SessionTypeOK, IdleWalk, Idle, CallConserved, Live,
       AwaitedBySomeone, NothingAwaitedInVain

LEMMA AgentHostClosedIInv ==
  ASSUME SessionIInv, AgentHostClosed
  PROVE  SessionIInv'
<1>1. Idle /\ sweep.at = 0 /\ sweep'.at = 0
  BY DEF AgentHostClosed, SessionIInv, IdleWalk
<1>2. SessionTypeOK' /\ IdleWalk'
  BY <1>1 DEF SessionIInv, SessionTypeOK, IdleWalk, Idle, AgentHostClosed, SweepKinds
<1>3. CallConserved'
  BY <1>1 DEF SessionIInv, CallConserved, Live, AgentHostClosed
<1>4. AwaitedBySomeone' /\ NothingAwaitedInVain'
  BY <1>1 DEF SessionIInv, AwaitedBySomeone, NothingAwaitedInVain, Idle, AgentHostClosed
<1> QED BY <1>2, <1>3, <1>4 DEF SessionIInv

LEMMA SweepNextIInv ==
  ASSUME SessionIInv, SweepNext
  PROVE  SessionIInv'
<1>1. PICK i \in DOMAIN pending :
        /\ sweep.at < i
        /\ \A j \in DOMAIN pending : sweep.at < j => i <= j
        /\ sweep' = [sweep EXCEPT !.at = i]
        /\ RunCallback(pending[i], pending, outstanding)
  BY DEF SweepNext
<1> DEFINE c == pending[i]
<1>2. /\ UNCHANGED <<alive, is_attached, agent>>
      /\ ~Idle /\ ~Idle' /\ c \in Waiters
      /\ sweep'.at = i /\ sweep'.kind = sweep.kind
      /\ i \in Nat /\ i < next_cdp_id
  BY <1>1 DEF SweepNext, Idle, SessionIInv, SessionTypeOK
<1>3. c # NoCall => results[c] = 0 /\ issued[c] > 0 /\ Live(c) = {i}
  BY <1>1, <1>2 DEF SessionIInv, CallConserved, Live
<1>4. \A d \in Calls \ {c} : Live(d) = {j \in DOMAIN pending :
                                          pending[j] = d /\ i < j}
  BY <1>1, <1>2 DEF SessionIInv, SessionTypeOK, Live
<1>5. CASE /\ c # NoCall
           /\ is_attached
           /\ issued[c] < MaxSteps
           /\ SendCdpCommand(c, pending, outstanding)
           /\ UNCHANGED results
  <2>1. SessionTypeOK' /\ IdleWalk'
    BY <1>1, <1>2, <1>5 DEF SessionIInv, SessionTypeOK, IdleWalk, Idle, SendCdpCommand, With
  <2>2. Live(c)' = {next_cdp_id}
    BY <1>1, <1>2, <1>3, <1>5 DEF SessionIInv, SessionTypeOK, Live, SendCdpCommand, With
  <2>3. \A d \in Calls \ {c} : Live(d)' = Live(d)
    BY <1>1, <1>2, <1>4, <1>5 DEF SessionIInv, SessionTypeOK, Live, SendCdpCommand, With
  <2>4. CallConserved'
    BY <1>2, <1>3, <1>5, <2>2, <2>3 DEF SessionIInv, SessionTypeOK, CallConserved,
       SendCdpCommand, With
  <2>5. AwaitedBySomeone' /\ NothingAwaitedInVain'
    BY <1>2, <1>5 DEF SessionIInv, SessionTypeOK, AwaitedBySomeone, NothingAwaitedInVain,
       SendCdpCommand, With
  <2> QED BY <2>1, <2>4, <2>5 DEF SessionIInv
<1>6. CASE /\ c # NoCall
           /\ is_attached
           /\ SendUnawaited(pending, outstanding)
           /\ Deliver(c)
           /\ UNCHANGED issued
  <2>1. SessionTypeOK' /\ IdleWalk'
    BY <1>1, <1>2, <1>6 DEF SessionIInv, SessionTypeOK, IdleWalk, Idle, SendUnawaited, With,
       Deliver
  <2>2. Live(c)' = {}
    BY <1>1, <1>2, <1>3, <1>6 DEF SessionIInv, SessionTypeOK, Live, SendUnawaited, With
  <2>3. \A d \in Calls \ {c} : Live(d)' = Live(d)
    BY <1>1, <1>2, <1>4, <1>6 DEF SessionIInv, SessionTypeOK, Live, SendUnawaited, With
  <2>4. c \in Calls /\ issued' = issued /\ results' = [results EXCEPT ![c] = @ + 1]
    BY <1>2, <1>6 DEF Deliver
  <2>6. CallConserved'
    BY <1>3, <1>6, <2>2, <2>3, <2>4 DEF SessionIInv, SessionTypeOK, CallConserved,
       SendUnawaited, With
  <2>5. AwaitedBySomeone' /\ NothingAwaitedInVain'
    BY <1>2, <1>6 DEF SessionIInv, SessionTypeOK, AwaitedBySomeone, NothingAwaitedInVain,
       SendUnawaited, With
  <2> QED BY <2>1, <2>5, <2>6 DEF SessionIInv
<1>7. CASE /\ IF c = NoCall THEN UNCHANGED results ELSE Deliver(c)
           /\ pending' = pending
           /\ outstanding' = outstanding
           /\ UNCHANGED <<next_cdp_id, issued>>
  <2>1. SessionTypeOK' /\ IdleWalk'
    BY <1>1, <1>2, <1>7 DEF SessionIInv, SessionTypeOK, IdleWalk, Idle, Deliver
  <2>2. c # NoCall => Live(c)' = {}
    BY <1>1, <1>2, <1>3, <1>7 DEF SessionIInv, SessionTypeOK, Live
  <2>3. \A d \in Calls \ {c} : Live(d)' = Live(d)
    BY <1>1, <1>2, <1>4, <1>7 DEF SessionIInv, SessionTypeOK, Live
  <2>4. CallConserved'
    BY <1>2, <1>3, <1>7, <2>2, <2>3 DEF SessionIInv, SessionTypeOK, CallConserved, Deliver
  <2>5. AwaitedBySomeone' /\ NothingAwaitedInVain'
    BY <1>2, <1>7 DEF SessionIInv, AwaitedBySomeone, NothingAwaitedInVain
  <2> QED BY <2>1, <2>4, <2>5 DEF SessionIInv
<1> QED BY <1>1, <1>5, <1>6, <1>7 DEF RunCallback

LEMMA SweepEndIInv ==
  ASSUME SessionIInv, SweepEnd
  PROVE  SessionIInv'
<1>1. \A c \in Calls : Live(c) = {} /\ Live(c)' = {}
  BY EmptyMapFacts DEF SweepEnd, Live, SessionIInv, SessionTypeOK
<1>2. SessionTypeOK' /\ IdleWalk'
  <2>1. DOMAIN pending' = {} /\ pending' \in [DOMAIN pending' -> Waiters]
    BY EmptyMapFacts DEF SweepEnd
  <2>2. sweep' \in [kind : SweepKinds, at : Nat] /\ sweep'.at = 0
    BY DEF SweepEnd, NoSweep, SweepKinds
  <2>3. alive' \in BOOLEAN /\ is_attached' \in BOOLEAN
    BY DEF SweepEnd
  <2>4. /\ next_cdp_id' \in Nat \ {0} /\ 0 < next_cdp_id'
        /\ agent' \in {"open", "closed"}
        /\ issued' \in [Calls -> 0 .. MaxSteps] /\ results' \in [Calls -> Nat]
    BY DEF SweepEnd, SessionIInv, SessionTypeOK
  <2>5. outstanding' = {}
    BY DEF SweepEnd
  <2> QED BY <2>1, <2>2, <2>3, <2>4, <2>5 DEF SessionTypeOK, IdleWalk
<1>3. CallConserved'
  BY <1>1 DEF SessionIInv, CallConserved, SweepEnd
<1>4. AwaitedBySomeone' /\ NothingAwaitedInVain'
  BY EmptyMapFacts DEF AwaitedBySomeone, NothingAwaitedInVain, SweepEnd
<1> QED BY <1>2, <1>3, <1>4 DEF SessionIInv

LEMMA NextSessionIInv == SessionIInv /\ [SessionNext]_sessionVars => SessionIInv'
<1> SUFFICES ASSUME SessionIInv, [SessionNext]_sessionVars PROVE SessionIInv'
  OBVIOUS
<1>1. CASE Attach
  BY <1>1, AttachIInv
<1>2. CASE \E c \in Calls : StartCall(c)
  BY <1>2, StartCallIInv
<1>3. CASE \E o \in outstanding : HandleCdpResponse(o)
  BY <1>3, HandleCdpResponseIInv
<1>4. CASE Detach("detach") \/ Detach("destroy")
  BY <1>4, DetachIInv
<1>5. CASE DestroyDetached
  BY <1>5, DestroyDetachedIInv
<1>6. CASE AgentHostClosed
  BY <1>6, AgentHostClosedIInv
<1>7. CASE SweepNext
  BY <1>7, SweepNextIInv
<1>8. CASE SweepEnd
  BY <1>8, SweepEndIInv
<1>9. CASE UNCHANGED sessionVars
  BY <1>9 DEF sessionVars, SessionIInv, SessionTypeOK, IdleWalk, Idle, CallConserved, Live,
              AwaitedBySomeone, NothingAwaitedInVain
<1> QED BY <1>1, <1>2, <1>3, <1>4, <1>5, <1>6, <1>7, <1>8, <1>9 DEF SessionNext

(* The state of a session keeps its types.                                 *)
THEOREM SessionTypes == SessionSpec => []SessionTypeOK
<1>1. SessionIInv => SessionTypeOK
  BY DEF SessionIInv
<1> QED BY <1>1, InitSessionIInv, NextSessionIInv, PTL DEF SessionSpec

(* Whatever the chains of commands and whenever the session is detached,   *)
(* destroyed or closed: one result per call, and never a lost callback.    *)
THEOREM SessionConservesCalls == SessionSpec => []CallConserved
<1>1. SessionIInv => CallConserved
  BY DEF SessionIInv
<1> QED BY <1>1, InitSessionIInv, NextSessionIInv, PTL DEF SessionSpec

(* Every answer finds the callback of the call that asked for it.          *)
THEOREM SessionRoutesAnswers == SessionSpec => []AwaitedBySomeone
<1>1. SessionIInv => AwaitedBySomeone
  BY DEF SessionIInv
<1> QED BY <1>1, InitSessionIInv, NextSessionIInv, PTL DEF SessionSpec

(* A registered callback always has an answer to wait for, unless the walk *)
(* of AgentHostClosed is about to run it.                                  *)
THEOREM SessionAwaitsNothingInVain == SessionSpec => []NothingAwaitedInVain
<1>1. SessionIInv => NothingAwaitedInVain
  BY DEF SessionIInv
<1> QED BY <1>1, InitSessionIInv, NextSessionIInv, PTL DEF SessionSpec

(* What ClosedAnswersAll comes to between two tasks of the UI thread: once *)
(* the tab is closed or the session detached, every call that was begun    *)
(* has its result.                                                         *)
ClosedIsOff == agent = "closed" => ~is_attached

ClosedHasAnswered ==
  Idle /\ (agent = "closed" \/ ~is_attached) =>
    \A c \in Calls : issued[c] > 0 => results[c] = 1

LEMMA NextClosedIsOff ==
  ASSUME ClosedIsOff, [SessionNext]_sessionVars
  PROVE  ClosedIsOff'
<1>1. CASE Attach \/ AgentHostClosed \/ SweepEnd
  BY <1>1 DEF Attach, AgentHostClosed, SweepEnd, ClosedIsOff
<1>2. CASE UNCHANGED <<is_attached, agent>>
  BY <1>2 DEF ClosedIsOff
<1>3. CASE SessionNext /\ ~(Attach \/ AgentHostClosed \/ SweepEnd)
  BY <1>2, <1>3 DEF SessionNext, StartCall, HandleCdpResponse, Detach,
                    DestroyDetached, SweepNext
<1> QED BY <1>1, <1>2, <1>3 DEF sessionVars

(* Whoever closes the session, no call that was begun stays without its    *)
(* result, those that a callback of the walk began or went on with included*)
(* (that the walk itself ends is ClosedAnswersAll).                        *)
THEOREM SessionClosedHasAnswered == SessionSpec => []ClosedHasAnswered
<1>1. SessionInit => ClosedIsOff
  BY DEF SessionInit, ClosedIsOff
<1>2. SessionIInv /\ ClosedIsOff => ClosedHasAnswered
  <2>1. SUFFICES ASSUME SessionIInv, ClosedIsOff, Idle, agent = "closed" \/ ~is_attached,
                        NEW c \in Calls, issued[c] > 0
                 PROVE  results[c] = 1
    BY DEF ClosedHasAnswered
  <2>2. Live(c) = {}
    BY <2>1 DEF SessionIInv, NothingAwaitedInVain, ClosedIsOff, Live
  <2>3. issued[c] \in 0 .. MaxSteps
    BY <2>1 DEF SessionIInv, SessionTypeOK
  <2> QED BY <2>1, <2>2, <2>3 DEF SessionIInv, CallConserved
<1>3. ClosedIsOff /\ [SessionNext]_sessionVars => ClosedIsOff'
  BY NextClosedIsOff
<1> QED BY <1>1, <1>2, <1>3, InitSessionIInv, NextSessionIInv, PTL DEF SessionSpec

-----------------------------------------------------------------------------
(* The refinement: initial states map to initial states, and every step to *)
(* a step or a stutter of the abstract session.                            *)

LEMMA MappedInit == SessionInit => Abstract!Init
BY EmptyMapFacts DEF SessionInit, Abstract!Init, Live

(* A step that leaves the session's connection, the live callbacks and the *)
(* results alone is a stutter of the abstract session.                     *)
LEMMA MappedStutter ==
  ASSUME UNCHANGED <<is_attached, results>>,
         \A c \in Calls : Live(c)' = Live(c)
  PROVE  UNCHANGED Abstract!vars
BY DEF Abstract!vars

(* A call that loses its last live callback as its result arrives.         *)
LEMMA MappedAnswer ==
  ASSUME SessionTypeOK, NEW c \in Calls, Live(c) # {}, Live(c)' = {},
         \A d \in Calls \ {c} : Live(d)' = Live(d),
         results' = [results EXCEPT ![c] = @ + 1],
         UNCHANGED is_attached
  PROVE  Abstract!Answer(c)
<1>1. \A d \in Calls : results'[d] > 0 <=> (results[d] > 0 \/ d = c)
  BY DEF SessionTypeOK
<1> QED BY <1>1 DEF Abstract!Answer

LEMMA MappedStartCall ==
  ASSUME SessionIInv, NEW c \in Calls, StartCall(c)
  PROVE  Abstract!Accept(c) \/ Abstract!Refuse(c)
<1>1. issued[c] = 0 /\ results[c] = 0 /\ Live(c) = {} /\ sweep.at = 0
  BY DEF StartCall, SessionIInv, IdleWalk, CallConserved, SessionTypeOK
<1>2. CASE is_attached
  <2>1. /\ SendCdpCommand(c, pending, outstanding)
        /\ UNCHANGED <<results, is_attached, sweep>>
    BY <1>2 DEF StartCall
  <2>2. next_cdp_id \in Live(c)'
    BY <1>1, <2>1 DEF SessionIInv, SessionTypeOK, Live, SendCdpCommand, With
  <2>3. \A d \in Calls \ {c} : Live(d)' = Live(d)
    BY <1>1, <2>1 DEF SessionIInv, SessionTypeOK, Live, SendCdpCommand, With
  <2> QED BY <1>1, <1>2, <2>1, <2>2, <2>3 DEF Abstract!Accept
<1>3. CASE ~is_attached
  <2>1. /\ results' = [results EXCEPT ![c] = @ + 1]
        /\ UNCHANGED <<pending, is_attached, sweep>>
    BY <1>3 DEF StartCall, Deliver
  <2>2. \A d \in Calls : Live(d)' = Live(d)
    BY <2>1 DEF Live
  <2>3. \A d \in Calls : results'[d] > 0 <=> (results[d] > 0 \/ d = c)
    BY <2>1 DEF SessionIInv, SessionTypeOK
  <2> QED BY <1>1, <1>3, <2>1, <2>2, <2>3 DEF Abstract!Refuse
<1> QED BY <1>2, <1>3

LEMMA MappedResponse ==
  ASSUME SessionIInv, NEW o \in outstanding, HandleCdpResponse(o)
  PROVE  \/ UNCHANGED Abstract!vars
         \/ \E c \in Calls : Abstract!Answer(c)
<1> DEFINE map == Without(pending, o.id)
<1>0. PICK c \in Waiters : c = pending[o.id]
  BY DEF SessionIInv, SessionTypeOK, AwaitedBySomeone
<1>1. /\ UNCHANGED <<is_attached, sweep>>
      /\ sweep.at = 0
      /\ o.id \in DOMAIN pending
      /\ RunCallback(c, map, outstanding \ {o})
  BY <1>0 DEF HandleCdpResponse, SessionIInv, IdleWalk, AwaitedBySomeone, SessionTypeOK
<1>2. c # NoCall => c \in Calls /\ Live(c) = {o.id}
  BY <1>0, <1>1 DEF SessionIInv, CallConserved, Live, SessionTypeOK
<1>3. \A d \in Calls \ {c} : o.id \notin Live(d)
  BY <1>0 DEF Live
<1>4. CASE c # NoCall /\ SendCdpCommand(c, map, outstanding \ {o}) /\ UNCHANGED results
  <2>1. Live(c)' # {}
    BY <1>1, <1>4 DEF SessionIInv, SessionTypeOK, Live, SendCdpCommand, With, Without
  <2>2. \A d \in Calls \ {c} : Live(d)' = Live(d)
    BY <1>1, <1>3, <1>4 DEF SessionIInv, SessionTypeOK, Live, SendCdpCommand, With, Without
  <2> QED BY <1>1, <1>2, <1>4, <2>1, <2>2 DEF Abstract!vars
<1>5. CASE c # NoCall /\ SendUnawaited(map, outstanding \ {o}) /\ Deliver(c)
  <2>1. Live(c)' = {}
    BY <1>1, <1>2, <1>5 DEF SessionIInv, SessionTypeOK, Live, SendUnawaited, With, Without
  <2>2. \A d \in Calls \ {c} : Live(d)' = Live(d)
    BY <1>1, <1>3, <1>5 DEF SessionIInv, SessionTypeOK, Live, SendUnawaited, With, Without
  <2> QED BY <1>1, <1>2, <1>5, <2>1, <2>2, MappedAnswer DEF SessionIInv, Deliver
<1>6. CASE c # NoCall /\ Deliver(c) /\ pending' = map
  <2>1. Live(c)' = {}
    BY <1>1, <1>2, <1>6 DEF Live, Without
  <2>2. \A d \in Calls \ {c} : Live(d)' = Live(d)
    BY <1>1, <1>3, <1>6 DEF Live, Without
  <2> QED BY <1>1, <1>2, <1>6, <2>1, <2>2, MappedAnswer DEF SessionIInv, Deliver
<1>7. CASE c = NoCall /\ UNCHANGED results /\ pending' = map
  <2>1. \A d \in Calls : Live(d)' = Live(d)
    BY <1>1, <1>3, <1>7 DEF Live, Without
  <2> QED BY <1>1, <1>7, <2>1, MappedStutter
<1> QED BY <1>1, <1>4, <1>5, <1>6, <1>7 DEF RunCallback

LEMMA MappedSweepNext ==
  ASSUME SessionIInv, SweepNext
  PROVE  \/ UNCHANGED Abstract!vars
         \/ \E c \in Calls : Abstract!Answer(c)
<1>1. PICK i \in DOMAIN pending :
        /\ sweep.at < i
        /\ \A j \in DOMAIN pending : sweep.at < j => i <= j
        /\ sweep' = [sweep EXCEPT !.at = i]
        /\ RunCallback(pending[i], pending, outstanding)
  BY DEF SweepNext
<1>0. PICK c \in Waiters : c = pending[i]
  BY <1>1 DEF SessionIInv, SessionTypeOK
<1>2. /\ UNCHANGED is_attached
      /\ sweep'.at = i /\ i \in Nat /\ i < next_cdp_id
      /\ RunCallback(c, pending, outstanding)
  BY <1>0, <1>1 DEF SweepNext, SessionIInv, SessionTypeOK
<1>3. c # NoCall => c \in Calls /\ Live(c) = {i}
  BY <1>0, <1>1, <1>2 DEF SessionIInv, CallConserved, Live
<1>4. \A d \in Calls \ {c} : Live(d) = {j \in DOMAIN pending :
                                          pending[j] = d /\ i < j}
  BY <1>0, <1>1, <1>2 DEF SessionIInv, SessionTypeOK, Live
<1>5. CASE c # NoCall /\ SendCdpCommand(c, pending, outstanding) /\ UNCHANGED results
  <2>1. Live(c)' # {}
    BY <1>2, <1>5 DEF SessionIInv, SessionTypeOK, Live, SendCdpCommand, With
  <2>2. \A d \in Calls \ {c} : Live(d)' = Live(d)
    BY <1>2, <1>4, <1>5 DEF SessionIInv, SessionTypeOK, Live, SendCdpCommand, With
  <2> QED BY <1>2, <1>3, <1>5, <2>1, <2>2 DEF Abstract!vars
<1>6. CASE c # NoCall /\ SendUnawaited(pending, outstanding) /\ Deliver(c)
  <2>1. Live(c)' = {}
    BY <1>2, <1>3, <1>6 DEF SessionIInv, SessionTypeOK, Live, SendUnawaited, With
  <2>2. \A d \in Calls \ {c} : Live(d)' = Live(d)
    BY <1>2, <1>4, <1>6 DEF SessionIInv, SessionTypeOK, Live, SendUnawaited, With
  <2> QED BY <1>2, <1>3, <1>6, <2>1, <2>2, MappedAnswer DEF SessionIInv, Deliver
<1>7. CASE c # NoCall /\ Deliver(c) /\ pending' = pending
  <2>1. Live(c)' = {}
    BY <1>2, <1>3, <1>7 DEF SessionIInv, SessionTypeOK, Live
  <2>2. \A d \in Calls \ {c} : Live(d)' = Live(d)
    BY <1>2, <1>4, <1>7 DEF Live
  <2> QED BY <1>2, <1>3, <1>7, <2>1, <2>2, MappedAnswer DEF SessionIInv, Deliver
<1>8. CASE c = NoCall /\ UNCHANGED results /\ pending' = pending
  <2>1. \A d \in Calls : Live(d)' = Live(d)
    BY <1>2, <1>4, <1>8 DEF Live
  <2> QED BY <1>2, <1>8, <2>1, MappedStutter
<1> QED BY <1>2, <1>5, <1>6, <1>7, <1>8 DEF RunCallback

(* A walk that starts takes no callback away; one that ends has run all.   *)
LEMMA MappedConnection ==
  ASSUME SessionIInv, Attach \/ Detach("detach") \/ Detach("destroy") \/ DestroyDetached
               \/ AgentHostClosed \/ SweepEnd
  PROVE  Abstract!Open \/ Abstract!Close \/ UNCHANGED Abstract!vars
<1>1. \A c \in Calls : Live(c)' = Live(c)
  <2>1. CASE SweepEnd
    BY <2>1, EmptyMapFacts DEF SweepEnd, Live, SessionIInv, SessionTypeOK
  <2>2. CASE ~SweepEnd
    <3>1. pending' = pending /\ sweep'.at = sweep.at
      BY <2>2 DEF Attach, Detach, DestroyDetached, AgentHostClosed, SessionIInv, IdleWalk
    <3> QED BY <3>1 DEF Live
  <2> QED BY <2>1, <2>2
<1>2. UNCHANGED results
  BY DEF Attach, Detach, DestroyDetached, AgentHostClosed, SweepEnd
<1>3. is_attached' = is_attached => UNCHANGED Abstract!vars
  BY <1>1, <1>2, MappedStutter
<1>4. CASE Attach
  <2>1. \A c \in Calls : Live(c) = {}
    BY <1>4 DEF Attach, SessionIInv, NothingAwaitedInVain, Live
  <2> QED BY <1>1, <1>2, <1>4, <2>1 DEF Attach, Abstract!Open
<1>5. CASE AgentHostClosed \/ SweepEnd
  <2>1. is_attached' = FALSE /\ is_attached \in BOOLEAN
    BY <1>5 DEF AgentHostClosed, SweepEnd, SessionIInv, SessionTypeOK
  <2> QED BY <1>1, <1>2, <1>3, <2>1 DEF Abstract!Close
<1>6. CASE Detach("detach") \/ Detach("destroy") \/ DestroyDetached
  BY <1>3, <1>6 DEF Detach, DestroyDetached
<1> QED BY <1>4, <1>5, <1>6

LEMMA MappedNext == SessionIInv /\ [SessionNext]_sessionVars => [Abstract!Next]_(Abstract!vars)
<1> SUFFICES ASSUME SessionIInv, [SessionNext]_sessionVars PROVE [Abstract!Next]_(Abstract!vars)
  OBVIOUS
<1>1. CASE \E c \in Calls : StartCall(c)
  BY <1>1, MappedStartCall DEF Abstract!Next
<1>2. CASE \E o \in outstanding : HandleCdpResponse(o)
  BY <1>2, MappedResponse DEF Abstract!Next
<1>3. CASE SweepNext
  BY <1>3, MappedSweepNext DEF Abstract!Next
<1>4. CASE Attach \/ Detach("detach") \/ Detach("destroy") \/ DestroyDetached
           \/ AgentHostClosed \/ SweepEnd
  BY <1>4, MappedConnection DEF Abstract!Next
<1>5. CASE UNCHANGED sessionVars
  BY <1>5 DEF sessionVars, Abstract!vars, Live
<1> QED BY <1>1, <1>2, <1>3, <1>4, <1>5 DEF SessionNext

(* McpSession implements CdpCalls: whatever the chains, detachments and    *)
(* closings, what happens at its interface is what CdpCalls allows.        *)
THEOREM SessionImplementsCdpCalls == SessionSpec => ImplementsCdpCalls
<1> QED BY InitSessionIInv, NextSessionIInv, MappedInit, MappedNext, PTL
        DEF SessionSpec, ImplementsCdpCalls, Abstract!Spec

HIDE SessionAssumption DEF Waiters

-----------------------------------------------------------------------------
(* McpServer.                                                              *)


QuietClients ==
  \A c \in Clients :
    /\ conn[c] # "open" => client_states[c] = Absent
    /\ conn[c] = "new" =>
         /\ sent[c] = 0
         /\ \A r \in Requests : running[c][r] = NoTab /\ replies[c][r] = 0
    /\ \A r \in Requests : running[c][r] # NoTab => Ready(c) \/ conn[c] = "gone"

ActiveIsOpen == open # {} => active # NoTab

IInv == /\ TypeOK
        /\ OneResponsePerRequest
        /\ SessionsFollowTabs
        /\ QuietClients
        /\ ActiveIsOpen

USE ServerAssumption

-----------------------------------------------------------------------------
(* What the pieces of the handlers return.                                 *)

LEMMA RequestsAreNat == Requests \subseteq Nat
BY DEF Requests

(* A ready client stays ready and gets the tab, if there is one; no other  *)
(* client is touched.                                                      *)
LEMMA AssignedFacts ==
  ASSUME NEW states \in [Clients -> ClientStates], NEW c \in Clients,
         states[c].handshake_state = "kReady", NEW t \in Tabs \cup {NoTab}
  PROVE  /\ Assigned(states, c, t) \in [Clients -> ClientStates]
         /\ Assigned(states, c, t)[c].handshake_state = "kReady"
         /\ Assigned(states, c, t)[c].assigned_tab =
              IF t = NoTab THEN states[c].assigned_tab ELSE t
         /\ \A d \in Clients \ {c} : Assigned(states, c, t)[d] = states[d]
<1>1. states[c] \in [handshake_state : {"kReady"}, assigned_tab : Tabs \cup {NoTab}]
  BY DEF ClientStates, Absent
<1>2. CASE t = NoTab
  BY <1>2 DEF Assigned
<1>3. CASE t # NoTab
  <2>1. Assigned(states, c, t) =
          [states EXCEPT ![c] = [states[c] EXCEPT !.assigned_tab = t]]
    BY <1>3 DEF Assigned
  <2>2. /\ [states[c] EXCEPT !.assigned_tab = t] \in ClientStates
        /\ [states[c] EXCEPT !.assigned_tab = t].handshake_state = "kReady"
        /\ [states[c] EXCEPT !.assigned_tab = t].assigned_tab = t
    BY <1>1 DEF ClientStates
  <2> QED BY <2>1, <2>2, <1>3
<1> QED BY <1>2, <1>3

(* The tab has an entry afterwards, a new one "attached" if the tab is     *)
(* open; existing entries stay as they are.                                *)
LEMMA WithSessionFacts ==
  ASSUME NEW ss \in [Tabs -> SessionStates], NEW t \in Tabs \cup {NoTab}, NEW opn
  PROVE  /\ WithSession(ss, t, opn) \in [Tabs -> SessionStates]
         /\ t # NoTab => WithSession(ss, t, opn)[t] # "none"
         /\ \A u \in Tabs : ss[u] # "none" => WithSession(ss, t, opn)[u] = ss[u]
         /\ \A u \in Tabs : WithSession(ss, t, opn)[u] \in {ss[u], "attached", "wild"}
         /\ \A u \in Tabs : WithSession(ss, t, opn)[u] # ss[u] =>
              /\ u = t
              /\ WithSession(ss, t, opn)[u] = IF u \in opn THEN "attached" ELSE "wild"
BY DEF WithSession, SessionStates

LEMMA TabForClientType ==
  ASSUME IInv, NEW c \in Clients
  PROVE  /\ TabForClient(c) \in Tabs \cup {NoTab}
         /\ TabForClient(c) # NoTab =>
              TabForClient(c) \in open \/ sessions[TabForClient(c)] # "none"
BY DEF IInv, TypeOK, TabForClient, ClientStates, Absent, SessionsFollowTabs

(* A pending command is one of an attached session.                        *)
LEMMA CommandTab ==
  ASSUME IInv, NEW c \in Clients, NEW r \in Requests, HasCommand(c, r)
  PROVE  running[c][r] \in Tabs /\ sessions[running[c][r]] = "attached"
BY DEF IInv, TypeOK, SessionsFollowTabs, HasCommand

(* What every tool call of a ready client does first: the client is on the *)
(* tab found for it and that tab has an entry, with a session that is      *)
(* attached only if the tab is open.                                       *)
LEMMA SettledFacts ==
  ASSUME IInv, NEW c \in Clients, Ready(c), NEW states, NEW ss,
         states = Assigned(client_states, c, TabForClient(c)),
         ss = WithSession(sessions, TabForClient(c), open)
  PROVE  /\ states \in [Clients -> ClientStates]
         /\ states[c].handshake_state = "kReady"
         /\ states[c].assigned_tab = TabForClient(c)
         /\ \A d \in Clients \ {c} : states[d] = client_states[d]
         /\ ss \in [Tabs -> SessionStates]
         /\ \A d \in Clients : states[d].assigned_tab # NoTab =>
              ss[states[d].assigned_tab] # "none"
         /\ \A u \in Tabs : ss[u] # "wild"
         /\ \A u \in Tabs : ss[u] = "attached" => u \in open
         /\ \A u \in Tabs : sessions[u] # "none" => ss[u] = sessions[u]
<1> DEFINE t == TabForClient(c)
<1>1. /\ t \in Tabs \cup {NoTab}
      /\ t # NoTab => t \in open \/ sessions[t] # "none"
      /\ t = NoTab => client_states[c].assigned_tab = NoTab
  BY TabForClientType DEF TabForClient
<1>2. /\ client_states \in [Clients -> ClientStates]
      /\ sessions \in [Tabs -> SessionStates]
      /\ \A d \in Clients : client_states[d].assigned_tab \in Tabs \cup {NoTab}
  BY DEF IInv, TypeOK, ClientStates, Absent
<1> HIDE DEF t
<1>3. /\ states \in [Clients -> ClientStates]
      /\ states[c].handshake_state = "kReady"
      /\ states[c].assigned_tab = t
      /\ \A d \in Clients \ {c} : states[d] = client_states[d]
  BY <1>1, <1>2, AssignedFacts DEF t, Ready
<1>4. /\ ss \in [Tabs -> SessionStates]
      /\ t # NoTab => ss[t] # "none"
      /\ \A u \in Tabs : sessions[u] # "none" => ss[u] = sessions[u]
      /\ \A u \in Tabs : ss[u] # sessions[u] =>
           u = t /\ ss[u] = IF u \in open THEN "attached" ELSE "wild"
  BY <1>1, <1>2, WithSessionFacts DEF t
<1>5. /\ \A u \in Tabs : ss[u] # "wild"
      /\ \A u \in Tabs : ss[u] = "attached" => u \in open
  BY <1>1, <1>2, <1>4 DEF IInv, SessionsFollowTabs
<1>6. ASSUME NEW d \in Clients, states[d].assigned_tab # NoTab
      PROVE  ss[states[d].assigned_tab] # "none"
  <2>1. CASE d = c
    BY <2>1, <1>3, <1>4, <1>6
  <2>2. CASE d # c
    BY <2>2, <1>2, <1>3, <1>4, <1>6 DEF IInv, SessionsFollowTabs
  <2> QED BY <2>1, <2>2
<1> QED BY <1>3, <1>4, <1>5, <1>6 DEF t

-----------------------------------------------------------------------------
(* The parts of IInv that the pieces keep.                                 *)

(* The next request of a client, and the one response it gets now.         *)
LEMMA RepliedFacts ==
  ASSUME IInv, NEW c \in Clients, NEW r \in Requests, Requested(c, r)
  PROVE  /\ sent' \in [Clients -> Nat]
         /\ Replied(replies, c, r) \in [Clients -> [Requests -> Nat]]
         /\ \A d \in Clients, q \in Requests : conn[d] = "open" =>
              Replied(replies, c, r)[d][q] + (IF running[d][q] # NoTab THEN 1 ELSE 0)
                = (IF q <= sent'[d] THEN 1 ELSE 0)
         /\ \A d \in Clients \ {c} :
              sent'[d] = sent[d] /\ Replied(replies, c, r)[d] = replies[d]
<1> DEFINE new == Replied(replies, c, r)
<1>1. /\ conn[c] = "open" /\ r = sent[c] + 1
      /\ sent' = [sent EXCEPT ![c] = r]
      /\ new = [replies EXCEPT ![c][r] = @ + 1]
  BY DEF Requested, Replied
<1>2. /\ sent \in [Clients -> Nat]
      /\ replies \in [Clients -> [Requests -> Nat]]
  BY DEF IInv, TypeOK
<1> HIDE DEF new
<1>3. sent' \in [Clients -> Nat]
  BY <1>1, <1>2
<1>4. new \in [Clients -> [Requests -> Nat]]
  <2>1. /\ replies[c] \in [Requests -> Nat]
        /\ new = [replies EXCEPT ![c] = [replies[c] EXCEPT ![r] = replies[c][r] + 1]]
    BY <1>1, <1>2
  <2>2. [replies[c] EXCEPT ![r] = replies[c][r] + 1] \in [Requests -> Nat]
    BY <2>1
  <2> QED BY <1>2, <2>1, <2>2
<1>5. \A d \in Clients, q \in Requests : conn[d] = "open" =>
        new[d][q] + (IF running[d][q] # NoTab THEN 1 ELSE 0)
          = (IF q <= sent'[d] THEN 1 ELSE 0)
  <2>1. ASSUME NEW d \in Clients, NEW q \in Requests, conn[d] = "open"
        PROVE  /\ replies[d][q] \in Nat /\ sent[d] \in Nat /\ q \in Nat
               /\ replies[d][q] + (IF running[d][q] # NoTab THEN 1 ELSE 0)
                    = (IF q <= sent[d] THEN 1 ELSE 0)
    <3>1. replies[d][q] \in Nat /\ sent[d] \in Nat
      BY <1>2
    <3>2. q \in Nat
      BY RequestsAreNat
    <3> QED BY <2>1, <3>1, <3>2 DEF IInv, OneResponsePerRequest
  <2>2. ASSUME NEW d \in Clients, NEW q \in Requests
        PROVE  /\ new[d][q] = IF d = c /\ q = r THEN replies[d][q] + 1 ELSE replies[d][q]
               /\ sent'[d] = IF d = c THEN sent[d] + 1 ELSE sent[d]
    BY <1>1, <1>2
  <2> QED BY <1>1, <2>1, <2>2
<1>6. \A d \in Clients \ {c} : sent'[d] = sent[d] /\ new[d] = replies[d]
  BY <1>1, <1>2
<1> QED BY <1>3, <1>4, <1>5, <1>6 DEF new

(* A request that is answered on the spot.                                 *)
LEMMA AnsweredAtOnce ==
  ASSUME IInv, NEW c \in Clients, NEW r \in Requests, Requested(c, r),
         replies' = Replied(replies, c, r), UNCHANGED <<conn, running, waits>>
  PROVE  /\ sent' \in [Clients -> Nat]
         /\ replies' \in [Clients -> [Requests -> Nat]]
         /\ OneResponsePerRequest'
         /\ \A d \in Clients \ {c} : sent'[d] = sent[d] /\ replies'[d] = replies[d]
BY RepliedFacts DEF OneResponsePerRequest

(* A request whose tool starts on tab t or is answered with an error.      *)
LEMMA StartedOnTab ==
  ASSUME IInv, NEW c \in Clients, NEW r \in Requests, Requested(c, r),
         NEW t \in Tabs \cup {NoTab}, NEW ss, NEW waiting \in BOOLEAN,
         StartOnTab(c, r, t, ss, waiting), UNCHANGED conn
  PROVE  /\ sent' \in [Clients -> Nat]
         /\ replies' \in [Clients -> [Requests -> Nat]]
         /\ running' \in [Clients -> [Requests -> Tabs \cup {NoTab}]]
         /\ waits' \in [Clients -> [Requests -> {"no", "command", "parked"}]]
         /\ OneResponsePerRequest'
         /\ \A d \in Clients \ {c} :
              /\ sent'[d] = sent[d] /\ replies'[d] = replies[d]
              /\ running'[d] = running[d]
         /\ \A d \in Clients, q \in Requests : running'[d][q] # running[d][q] =>
              d = c /\ running[d][q] = NoTab /\ running'[d][q] = t
         /\ \A d \in Clients, q \in Requests : HasCommand(d, q)' =>
              \/ HasCommand(d, q) /\ running'[d][q] = running[d][q]
              \/ running'[d][q] = t /\ ss[t] = "attached"
<1>0. /\ running \in [Clients -> [Requests -> Tabs \cup {NoTab}]]
      /\ waits \in [Clients -> [Requests -> {"no", "command", "parked"}]]
      /\ sent \in [Clients -> Nat]
      /\ replies \in [Clients -> [Requests -> Nat]]
  BY DEF IInv, TypeOK
<1>1. CASE UNCHANGED <<running, waits>> /\ replies' = Replied(replies, c, r)
  BY <1>0, <1>1, AnsweredAtOnce DEF HasCommand
<1>2. CASE \E kind \in {"no", "command", "parked"} :
             /\ t # NoTab
             /\ running' = [running EXCEPT ![c][r] = t]
             /\ waits' = [waits EXCEPT ![c][r] = kind]
             /\ kind # "parked" => ss[t] = "attached"
             /\ UNCHANGED replies
  <2>0. PICK kind \in {"no", "command", "parked"} :
          /\ t # NoTab
          /\ running' = [running EXCEPT ![c][r] = t]
          /\ waits' = [waits EXCEPT ![c][r] = kind]
          /\ kind # "parked" => ss[t] = "attached"
          /\ UNCHANGED replies
    BY <1>2
  <2>1. /\ conn[c] = "open" /\ r = sent[c] + 1
        /\ sent' = [sent EXCEPT ![c] = r]
    BY DEF Requested
  <2>2. r \in Nat
    BY <1>0, <2>1
  <2>3. /\ sent' \in [Clients -> Nat]
        /\ replies' \in [Clients -> [Requests -> Nat]]
        /\ running' \in [Clients -> [Requests -> Tabs \cup {NoTab}]]
        /\ waits' \in [Clients -> [Requests -> {"no", "command", "parked"}]]
    BY <1>0, <2>0, <2>1, <2>2
  <2>4. /\ \A d \in Clients, q \in Requests : ~(d = c /\ q = r) =>
             running'[d][q] = running[d][q] /\ waits'[d][q] = waits[d][q]
        /\ running'[c][r] = t /\ waits'[c][r] = kind
    BY <1>0, <2>0
  <2>5. running[c][r] = NoTab /\ replies[c][r] = 0
    <3>1. /\ replies[c][r] \in Nat /\ sent[c] \in Nat
          /\ replies[c][r] + (IF running[c][r] # NoTab THEN 1 ELSE 0)
               = (IF r <= sent[c] THEN 1 ELSE 0)
      BY <1>0, <2>1 DEF IInv, OneResponsePerRequest
    <3>2. ~(r <= sent[c])
      BY <2>1, <3>1
    <3> QED BY <3>1, <3>2
  <2>6. OneResponsePerRequest'
    <3>1. SUFFICES ASSUME NEW d \in Clients, conn[d] = "open", NEW q \in Requests
                   PROVE  replies[d][q] + (IF running'[d][q] # NoTab THEN 1 ELSE 0)
                            = (IF q <= sent'[d] THEN 1 ELSE 0)
      BY <2>0 DEF OneResponsePerRequest
    <3>2. CASE d = c /\ q = r
      <4>1. sent'[c] = r
        BY <1>0, <2>1
      <4> QED BY <2>0, <2>2, <2>4, <2>5, <3>2, <4>1
    <3>3. CASE ~(d = c /\ q = r)
      <4>1. replies[d][q] + (IF running[d][q] # NoTab THEN 1 ELSE 0)
              = (IF q <= sent[d] THEN 1 ELSE 0)
        BY <3>1 DEF IInv, OneResponsePerRequest
      <4>2. q \in Nat
        BY RequestsAreNat
      <4>3. q <= sent'[d] <=> q <= sent[d]
        <5>1. CASE d = c
          <6>1. sent'[d] = sent[c] + 1 /\ sent[c] \in Nat /\ q # sent[c] + 1
            BY <1>0, <2>1, <3>3, <5>1
          <6>2. \A m, n \in Nat : m # n + 1 => (m <= n + 1 <=> m <= n)
            OBVIOUS
          <6> QED BY <4>2, <5>1, <6>1, <6>2
        <5>2. CASE d # c
          BY <1>0, <2>1, <5>2
        <5> QED BY <5>1, <5>2
      <4> QED BY <2>4, <3>3, <4>1, <4>3
    <3> QED BY <3>2, <3>3
  <2>7. ASSUME NEW d \in Clients, NEW q \in Requests, HasCommand(d, q)'
        PROVE  \/ HasCommand(d, q) /\ running'[d][q] = running[d][q]
               \/ running'[d][q] = t /\ ss[t] = "attached"
    BY <2>0, <2>4, <2>7 DEF HasCommand
  <2>8. \A d \in Clients \ {c} :
          /\ sent'[d] = sent[d] /\ replies'[d] = replies[d]
          /\ running'[d] = running[d]
    BY <1>0, <2>0, <2>1
  <2>9. \A d \in Clients, q \in Requests : running'[d][q] # running[d][q] =>
          d = c /\ running[d][q] = NoTab /\ running'[d][q] = t
    BY <2>4, <2>5
  <2> QED BY <2>3, <2>6, <2>7, <2>8, <2>9
<1> QED BY <1>1, <1>2 DEF StartOnTab

(* The clients other than the ready one that is served stay as they are.   *)
LEMMA ServedClientQuiet ==
  ASSUME IInv, NEW c \in Clients, conn[c] = "open",
         client_states'[c].handshake_state = "kReady",
         \A d \in Clients \ {c} :
           /\ client_states'[d] = client_states[d] /\ sent'[d] = sent[d]
           /\ running'[d] = running[d] /\ replies'[d] = replies[d],
         UNCHANGED conn
  PROVE  QuietClients'
BY DEF IInv, QuietClients, Ready

-----------------------------------------------------------------------------
(* Every step keeps IInv: connection and handshake.                        *)

LEMMA InitIInv == Init => IInv
<1> SUFFICES ASSUME Init PROVE IInv
  OBVIOUS
<1>1. TypeOK
  BY DEF Init, TypeOK, ClientStates, SessionStates, Requests
<1>2. OneResponsePerRequest
  BY DEF Init, OneResponsePerRequest, Requests
<1>3. SessionsFollowTabs /\ QuietClients /\ ActiveIsOpen
  BY DEF Init, SessionsFollowTabs, QuietClients, ActiveIsOpen, Absent, Ready,
     HasCommand
<1> QED BY <1>1, <1>2, <1>3 DEF IInv

LEMMA ConnectIInv ==
  ASSUME IInv, NEW c \in Clients, Connect(c)
  PROVE  IInv'
<1>1. TypeOK'
  BY DEF IInv, TypeOK, Connect, browser
<1>2. OneResponsePerRequest'
  BY DEF IInv, TypeOK, OneResponsePerRequest, QuietClients, Connect, Requests
<1>3. SessionsFollowTabs' /\ ActiveIsOpen'
  BY DEF IInv, SessionsFollowTabs, ActiveIsOpen, HasCommand, Connect, browser
<1>4. QuietClients'
  BY DEF IInv, TypeOK, QuietClients, Connect, Ready
<1> QED BY <1>1, <1>2, <1>3, <1>4 DEF IInv

LEMMA DisconnectIInv ==
  ASSUME IInv, NEW c \in Clients, OnClientDisconnected(c)
  PROVE  IInv'
<1>1. TypeOK'
  BY DEF IInv, TypeOK, OnClientDisconnected, browser, ClientStates
<1>2. OneResponsePerRequest'
  BY DEF IInv, TypeOK, OneResponsePerRequest, OnClientDisconnected
<1>3. SessionsFollowTabs' /\ ActiveIsOpen'
  BY DEF IInv, TypeOK, SessionsFollowTabs, ActiveIsOpen, HasCommand, OnClientDisconnected,
     browser, Absent
<1>4. QuietClients'
  BY DEF IInv, TypeOK, QuietClients, OnClientDisconnected, Ready
<1> QED BY <1>1, <1>2, <1>3, <1>4 DEF IInv

LEMMA HandleInitializeIInv ==
  ASSUME IInv, NEW c \in Clients, HandleInitialize(c)
  PROVE  IInv'
<1>1. PICK r \in Requests :
        /\ Requested(c, r)
        /\ client_states' =
             IF client_states[c].handshake_state = "absent"
               THEN [client_states EXCEPT ![c].handshake_state = "kInitializing"]
               ELSE client_states
        /\ replies' = Replied(replies, c, r)
        /\ UNCHANGED <<conn, sessions, browser, running, waits>>
  BY DEF HandleInitialize
<1>2. /\ sent' \in [Clients -> Nat]
      /\ replies' \in [Clients -> [Requests -> Nat]]
      /\ OneResponsePerRequest'
  BY <1>1, AnsweredAtOnce
<1>3. /\ client_states' \in [Clients -> ClientStates]
      /\ \A d \in Clients :
           /\ client_states'[d].assigned_tab = client_states[d].assigned_tab
           /\ Ready(d) => Ready(d)'
           /\ d # c => client_states'[d] = client_states[d]
  <2>1. CASE client_states[c].handshake_state = "absent"
    <3>1. client_states[c] = Absent
      BY <2>1 DEF IInv, TypeOK, ClientStates
    <3>2. client_states' = [client_states EXCEPT ![c] =
            [handshake_state |-> "kInitializing", assigned_tab |-> NoTab]]
      <4>1. [client_states[c] EXCEPT !.handshake_state = "kInitializing"] =
              [handshake_state |-> "kInitializing", assigned_tab |-> NoTab]
        BY <3>1 DEF Absent
      <4> QED BY <1>1, <2>1, <4>1
    <3>3. /\ client_states \in [Clients -> ClientStates]
          /\ [handshake_state |-> "kInitializing", assigned_tab |-> NoTab] \in ClientStates
      BY DEF IInv, TypeOK, ClientStates
    <3> QED BY <3>1, <3>2, <3>3 DEF Absent, Ready
  <2>2. CASE client_states[c].handshake_state # "absent"
    BY <1>1, <2>2 DEF IInv, TypeOK, Ready
  <2> QED BY <2>1, <2>2
<1>4. TypeOK'
  BY <1>1, <1>2, <1>3 DEF IInv, TypeOK, browser
<1>5. SessionsFollowTabs' /\ ActiveIsOpen'
  BY <1>1, <1>3 DEF IInv, SessionsFollowTabs, ActiveIsOpen, HasCommand, browser
<1>6. QuietClients'
  <2>1. conn[c] = "open" /\ sent' = [sent EXCEPT ![c] = r]
    BY <1>1 DEF Requested
  <2>2. \A d \in Clients \ {c} : sent'[d] = sent[d] /\ replies'[d] = replies[d]
    BY <1>1, AnsweredAtOnce
  <2> QED BY <1>1, <1>3, <2>1, <2>2 DEF IInv, QuietClients
<1> QED BY <1>2, <1>4, <1>5, <1>6 DEF IInv

LEMMA HandleInitializedIInv ==
  ASSUME IInv, NEW c \in Clients, HandleInitialized(c)
  PROVE  IInv'
<1> DEFINE ready == [client_states EXCEPT ![c].handshake_state = "kReady"]
<1>1. /\ client_states[c] = [handshake_state |-> "kInitializing", assigned_tab |-> NoTab]
      /\ active \in Tabs \cup {NoTab}
      /\ active # NoTab => active \in open
  BY DEF IInv, TypeOK, HandleInitialized, ClientStates, Absent
<1>2. /\ ready \in [Clients -> ClientStates]
      /\ ready[c].handshake_state = "kReady" /\ ready[c].assigned_tab = NoTab
      /\ \A d \in Clients \ {c} : ready[d] = client_states[d]
  <2>1. ready = [client_states EXCEPT ![c] =
                   [handshake_state |-> "kReady", assigned_tab |-> NoTab]]
    <3>1. [client_states[c] EXCEPT !.handshake_state = "kReady"] =
            [handshake_state |-> "kReady", assigned_tab |-> NoTab]
      BY <1>1
    <3> QED BY <3>1
  <2> HIDE DEF ready
  <2> QED BY <2>1 DEF IInv, TypeOK, ClientStates
<1>3. /\ client_states' = Assigned(ready, c, active)
      /\ sessions' = WithSession(sessions, active, open)
      /\ conn[c] = "open"
      /\ UNCHANGED <<conn, open, active, blank, sent, running, waits, replies>>
  BY DEF HandleInitialized, browser
<1> HIDE DEF ready
<1>4. /\ client_states' \in [Clients -> ClientStates]
      /\ client_states'[c].handshake_state = "kReady"
      /\ client_states'[c].assigned_tab = active
      /\ \A d \in Clients \ {c} : client_states'[d] = client_states[d]
  BY <1>1, <1>2, <1>3, AssignedFacts
<1>5. /\ sessions' \in [Tabs -> SessionStates]
      /\ active # NoTab => sessions'[active] # "none"
      /\ \A u \in Tabs : sessions[u] # "none" => sessions'[u] = sessions[u]
      /\ \A u \in Tabs : sessions'[u] # sessions[u] =>
           u = active /\ sessions'[u] = IF u \in open THEN "attached" ELSE "wild"
  <2>1. sessions \in [Tabs -> SessionStates]
    BY DEF IInv, TypeOK
  <2> QED BY <1>1, <1>3, <2>1, WithSessionFacts
<1>6. TypeOK'
  BY <1>3, <1>4, <1>5 DEF IInv, TypeOK
<1>7. OneResponsePerRequest'
  BY <1>3 DEF IInv, OneResponsePerRequest
<1>8. SessionsFollowTabs'
  <2>1. \A d \in Clients : client_states'[d].assigned_tab # NoTab =>
          sessions'[client_states'[d].assigned_tab] # "none"
    <3>1. \A d \in Clients : client_states[d].assigned_tab \in Tabs \cup {NoTab}
      BY DEF IInv, TypeOK, ClientStates, Absent
    <3> QED BY <1>4, <1>5, <3>1 DEF IInv, SessionsFollowTabs
  <2>2. \A u \in Tabs : sessions'[u] # "wild" /\ (sessions'[u] = "attached" => u \in open)
    BY <1>1, <1>5 DEF IInv, SessionsFollowTabs
  <2>3. \A d \in Clients, r \in Requests : HasCommand(d, r) =>
          sessions'[running[d][r]] = "attached"
    BY <1>5, CommandTab
  <2> QED BY <1>3, <2>1, <2>2, <2>3 DEF SessionsFollowTabs, HasCommand
<1>9. QuietClients' /\ ActiveIsOpen'
  BY <1>3, <1>4, ServedClientQuiet DEF IInv, ActiveIsOpen
<1> QED BY <1>6, <1>7, <1>8, <1>9 DEF IInv

LEMMA HandleSimpleRequestIInv ==
  ASSUME IInv, NEW c \in Clients, HandleSimpleRequest(c)
  PROVE  IInv'
<1>1. PICK r \in Requests :
        /\ Requested(c, r)
        /\ replies' = Replied(replies, c, r)
        /\ UNCHANGED <<conn, client_states, sessions, browser, running, waits>>
  BY DEF HandleSimpleRequest
<1>2. /\ sent' \in [Clients -> Nat]
      /\ replies' \in [Clients -> [Requests -> Nat]]
      /\ OneResponsePerRequest'
      /\ \A d \in Clients \ {c} : sent'[d] = sent[d] /\ replies'[d] = replies[d]
  BY <1>1, AnsweredAtOnce
<1>3. TypeOK'
  BY <1>1, <1>2 DEF IInv, TypeOK, browser
<1>4. SessionsFollowTabs' /\ ActiveIsOpen'
  BY <1>1 DEF IInv, SessionsFollowTabs, ActiveIsOpen, HasCommand, browser
<1>5. QuietClients'
  BY <1>1, <1>2 DEF IInv, QuietClients, Ready, Requested
<1> QED BY <1>2, <1>3, <1>4, <1>5 DEF IInv

-----------------------------------------------------------------------------
(* Every step keeps IInv: tools/call.                                      *)

LEMMA CallSessionToolIInv ==
  ASSUME IInv, NEW c \in Clients, NEW inline \in BOOLEAN, CallSessionTool(c, inline)
  PROVE  /\ IInv'
         /\ \A d \in Clients, q \in Requests : running'[d][q] # running[d][q] =>
              /\ d = c /\ running[d][q] = NoTab
              /\ running'[d][q] = client_states'[c].assigned_tab
<1> DEFINE t == TabForClient(c)
<1>1. PICK r \in Requests, waiting \in BOOLEAN :
        /\ Requested(c, r)
        /\ t # NoTab
        /\ client_states' = Assigned(client_states, c, t)
        /\ sessions' = WithSession(sessions, t, open)
        /\ StartOnTab(c, r,
                      IF inline THEN InlineTab(c, client_states') ELSE t, sessions',
                      waiting)
        /\ UNCHANGED <<conn, browser>>
  BY DEF CallSessionTool
<1>2. Ready(c) /\ t \in Tabs
  BY <1>1, TabForClientType DEF CallSessionTool
<1>3. /\ client_states' \in [Clients -> ClientStates]
      /\ client_states'[c].handshake_state = "kReady"
      /\ client_states'[c].assigned_tab = t
      /\ \A d \in Clients \ {c} : client_states'[d] = client_states[d]
      /\ sessions' \in [Tabs -> SessionStates]
      /\ \A d \in Clients : client_states'[d].assigned_tab # NoTab =>
           sessions'[client_states'[d].assigned_tab] # "none"
      /\ \A u \in Tabs : sessions'[u] # "wild"
      /\ \A u \in Tabs : sessions'[u] = "attached" => u \in open
      /\ \A u \in Tabs : sessions[u] # "none" => sessions'[u] = sessions[u]
  BY <1>1, <1>2, SettledFacts
<1> HIDE DEF t
<1>4. StartOnTab(c, r, t, sessions', waiting)
  BY <1>1, <1>3 DEF InlineTab
<1>5. /\ sent' \in [Clients -> Nat]
      /\ replies' \in [Clients -> [Requests -> Nat]]
      /\ running' \in [Clients -> [Requests -> Tabs \cup {NoTab}]]
      /\ waits' \in [Clients -> [Requests -> {"no", "command", "parked"}]]
      /\ OneResponsePerRequest'
      /\ \A d \in Clients \ {c} :
           /\ sent'[d] = sent[d] /\ replies'[d] = replies[d]
           /\ running'[d] = running[d]
      /\ \A d \in Clients, q \in Requests : running'[d][q] # running[d][q] =>
           d = c /\ running[d][q] = NoTab /\ running'[d][q] = t
      /\ \A d \in Clients, q \in Requests : HasCommand(d, q)' =>
           \/ HasCommand(d, q) /\ running'[d][q] = running[d][q]
           \/ running'[d][q] = t /\ sessions'[t] = "attached"
  BY <1>1, <1>2, <1>4, StartedOnTab
<1>6. TypeOK'
  BY <1>1, <1>3, <1>5 DEF IInv, TypeOK, browser
<1>7. SessionsFollowTabs'
  <2>1. ASSUME NEW d \in Clients, NEW q \in Requests, HasCommand(d, q)'
        PROVE  sessions'[running'[d][q]] = "attached"
    <3>1. CASE HasCommand(d, q) /\ running'[d][q] = running[d][q]
      BY <1>3, <3>1, CommandTab
    <3> QED BY <1>5, <2>1, <3>1
  <2> QED BY <1>1, <1>3, <2>1 DEF SessionsFollowTabs, browser
<1>8. QuietClients' /\ ActiveIsOpen'
  BY <1>1, <1>3, <1>5, ServedClientQuiet
     DEF IInv, ActiveIsOpen, Requested, browser
<1> QED BY <1>3, <1>5, <1>6, <1>7, <1>8 DEF IInv

LEMMA CallSessionToolNoWindowIInv ==
  ASSUME IInv, NEW c \in Clients, CallSessionToolNoWindow(c)
  PROVE  /\ IInv'
         /\ \A d \in Clients, q \in Requests : running'[d][q] # running[d][q] =>
              /\ d = c /\ running[d][q] = NoTab
              /\ running'[d][q] = client_states'[c].assigned_tab
<1>1. PICK r \in Requests, waiting \in BOOLEAN :
        /\ Requested(c, r)
        /\ \/ \E t \in Tabs :
                /\ Fresh(t)
                /\ open' = {t} /\ active' = t /\ blank' = {t}
                /\ client_states' = Assigned(client_states, c, t)
                /\ sessions' = WithSession(sessions, t, {t})
                /\ StartOnTab(c, r, t, WithSession(sessions, t, {t}), waiting)
           \/ /\ replies' = Replied(replies, c, r)
              /\ UNCHANGED <<client_states, sessions, browser, running, waits>>
        /\ UNCHANGED <<conn>>
  BY DEF CallSessionToolNoWindow
<1>2. /\ Ready(c)
      /\ TabForClient(c) = NoTab
      /\ open = {}
  BY DEF CallSessionToolNoWindow, TabForClient, IInv, ActiveIsOpen
<1>3. /\ client_states \in [Clients -> ClientStates]
      /\ sessions \in [Tabs -> SessionStates]
      /\ \A d \in Clients : client_states[d].assigned_tab \in Tabs \cup {NoTab}
  BY DEF IInv, TypeOK, ClientStates, Absent
<1>4. CASE /\ replies' = Replied(replies, c, r)
           /\ UNCHANGED <<client_states, sessions, browser, running, waits>>
  <2>1. HandleSimpleRequest(c)
    BY <1>1, <1>4 DEF HandleSimpleRequest
  <2> QED BY <1>4, <2>1, HandleSimpleRequestIInv
<1>5. ASSUME NEW t \in Tabs, Fresh(t),
             open' = {t} /\ active' = t /\ blank' = {t},
             client_states' = Assigned(client_states, c, t),
             sessions' = WithSession(sessions, t, {t}),
             StartOnTab(c, r, t, WithSession(sessions, t, {t}), waiting)
      PROVE  /\ IInv'
             /\ \A d \in Clients, q \in Requests : running'[d][q] # running[d][q] =>
                  /\ d = c /\ running[d][q] = NoTab
                  /\ running'[d][q] = client_states'[c].assigned_tab
  <2>1. /\ client_states' \in [Clients -> ClientStates]
        /\ client_states'[c].handshake_state = "kReady"
        /\ client_states'[c].assigned_tab = t
        /\ \A d \in Clients \ {c} : client_states'[d] = client_states[d]
    BY <1>2, <1>3, <1>5, AssignedFacts DEF Ready
  <2>2. /\ sessions' \in [Tabs -> SessionStates]
        /\ sessions'[t] # "none"
        /\ \A u \in Tabs : sessions[u] # "none" => sessions'[u] = sessions[u]
        /\ \A u \in Tabs : sessions'[u] # sessions[u] =>
             u = t /\ sessions'[u] = IF u \in {t} THEN "attached" ELSE "wild"
    BY <1>3, <1>5, WithSessionFacts
  <2>3. /\ sent' \in [Clients -> Nat]
        /\ replies' \in [Clients -> [Requests -> Nat]]
        /\ running' \in [Clients -> [Requests -> Tabs \cup {NoTab}]]
        /\ waits' \in [Clients -> [Requests -> {"no", "command", "parked"}]]
        /\ OneResponsePerRequest'
        /\ \A d \in Clients \ {c} :
             /\ sent'[d] = sent[d] /\ replies'[d] = replies[d]
             /\ running'[d] = running[d]
        /\ \A d \in Clients, q \in Requests : running'[d][q] # running[d][q] =>
             d = c /\ running[d][q] = NoTab /\ running'[d][q] = t
        /\ \A d \in Clients, q \in Requests : HasCommand(d, q)' =>
             \/ HasCommand(d, q) /\ running'[d][q] = running[d][q]
             \/ running'[d][q] = t /\ sessions'[t] = "attached"
    BY <1>1, <1>5, StartedOnTab
  <2>4. TypeOK'
    BY <1>1, <1>5, <2>1, <2>2, <2>3 DEF IInv, TypeOK
  <2>5. SessionsFollowTabs'
    <3>1. \A d \in Clients : client_states'[d].assigned_tab # NoTab =>
            sessions'[client_states'[d].assigned_tab] # "none"
      BY <1>3, <2>1, <2>2 DEF IInv, SessionsFollowTabs
    <3>2. \A u \in Tabs : sessions'[u] # "wild" /\ (sessions'[u] = "attached" => u \in open')
      BY <1>2, <1>5, <2>2 DEF IInv, SessionsFollowTabs
    <3>3. ASSUME NEW d \in Clients, NEW q \in Requests, HasCommand(d, q)'
          PROVE  sessions'[running'[d][q]] = "attached"
      <4>1. CASE HasCommand(d, q) /\ running'[d][q] = running[d][q]
        BY <2>2, <4>1, CommandTab
      <4> QED BY <2>3, <3>3, <4>1
    <3> QED BY <3>1, <3>2, <3>3 DEF SessionsFollowTabs
  <2>6. QuietClients' /\ ActiveIsOpen'
    BY <1>1, <1>5, <2>1, <2>3, ServedClientQuiet DEF ActiveIsOpen, Requested
  <2> QED BY <2>1, <2>3, <2>4, <2>5, <2>6 DEF IInv
<1> QED BY <1>1, <1>4, <1>5

LEMMA CallLocalToolIInv ==
  ASSUME IInv, NEW c \in Clients, CallLocalTool(c)
  PROVE  IInv'
<1>1. PICK r \in Requests :
        /\ Requested(c, r)
        /\ client_states' = Assigned(client_states, c, TabForClient(c))
        /\ sessions' = WithSession(sessions, TabForClient(c), open)
        /\ replies' = Replied(replies, c, r)
        /\ UNCHANGED <<conn, browser, running, waits>>
  BY DEF CallLocalTool
<1>2. /\ client_states' \in [Clients -> ClientStates]
      /\ client_states'[c].handshake_state = "kReady"
      /\ \A d \in Clients \ {c} : client_states'[d] = client_states[d]
      /\ sessions' \in [Tabs -> SessionStates]
      /\ \A d \in Clients : client_states'[d].assigned_tab # NoTab =>
           sessions'[client_states'[d].assigned_tab] # "none"
      /\ \A u \in Tabs : sessions'[u] # "wild"
      /\ \A u \in Tabs : sessions'[u] = "attached" => u \in open
      /\ \A u \in Tabs : sessions[u] # "none" => sessions'[u] = sessions[u]
  BY <1>1, SettledFacts DEF CallLocalTool
<1>3. /\ sent' \in [Clients -> Nat]
      /\ replies' \in [Clients -> [Requests -> Nat]]
      /\ OneResponsePerRequest'
      /\ \A d \in Clients \ {c} : sent'[d] = sent[d] /\ replies'[d] = replies[d]
  BY <1>1, AnsweredAtOnce
<1>4. TypeOK'
  BY <1>1, <1>2, <1>3 DEF IInv, TypeOK, browser
<1>5. SessionsFollowTabs'
  <2>1. \A d \in Clients, q \in Requests : HasCommand(d, q) =>
          sessions'[running[d][q]] = "attached"
    BY <1>2, CommandTab
  <2> QED BY <1>1, <1>2, <2>1 DEF SessionsFollowTabs, HasCommand, browser
<1>6. QuietClients' /\ ActiveIsOpen'
  BY <1>1, <1>2, <1>3, ServedClientQuiet DEF IInv, ActiveIsOpen, Requested, browser
<1> QED BY <1>3, <1>4, <1>5, <1>6 DEF IInv

-----------------------------------------------------------------------------
(* Every step keeps IInv: tabs come and go.                                *)

(* A call on a tab that closes is over, with its response, or has no       *)
(* command pending; nothing happens to the other calls.                    *)
LEMMA EndCallsFacts ==
  ASSUME IInv, NEW t \in Tabs, NEW old \in [Clients -> [Requests -> Nat]],
         EndCalls(t, old)
  PROVE  /\ running' \in [Clients -> [Requests -> Tabs \cup {NoTab}]]
         /\ waits' \in [Clients -> [Requests -> {"no", "command", "parked"}]]
         /\ replies' \in [Clients -> [Requests -> Nat]]
         /\ \A d \in Clients, q \in Requests :
              \/ /\ running'[d][q] = running[d][q]
                 /\ replies'[d][q] = old[d][q]
              \/ /\ running[d][q] # NoTab /\ running'[d][q] = NoTab
                 /\ replies'[d][q] = IF conn[d] = "open" THEN old[d][q] + 1
                                     ELSE old[d][q]
         /\ \A d \in Clients, q \in Requests :
              (running'[d][q] # NoTab /\ waits'[d][q] # "parked") =>
                /\ HasCommand(d, q) /\ running[d][q] # t
                /\ running'[d][q] = running[d][q]
<1>1. PICK kept \in SUBSET {cr \in CallsOn(t) : waits[cr[1]][cr[2]] = "command"} :
        LET ended == CallsOn(t) \ kept
        IN /\ running' = [c \in Clients |-> [r \in Requests |->
                            IF <<c, r>> \in ended THEN NoTab ELSE running[c][r]]]
           /\ waits' = [c \in Clients |-> [r \in Requests |->
                          IF <<c, r>> \in ended THEN "no"
                          ELSE IF <<c, r>> \in kept THEN "parked" ELSE waits[c][r]]]
           /\ replies' = [c \in Clients |-> [r \in Requests |->
                            IF <<c, r>> \in ended /\ conn[c] = "open"
                              THEN old[c][r] + 1 ELSE old[c][r]]]
  BY DEF EndCalls
<1> DEFINE ended == CallsOn(t) \ kept
<1>2. /\ running \in [Clients -> [Requests -> Tabs \cup {NoTab}]]
      /\ waits \in [Clients -> [Requests -> {"no", "command", "parked"}]]
  BY DEF IInv, TypeOK
<1>3. \A d \in Clients, q \in Requests :
        /\ <<d, q>> \in CallsOn(t) <=> running[d][q] = t /\ HasCommand(d, q)
        /\ <<d, q>> \in ended => running[d][q] # NoTab
        /\ <<d, q>> \in CallsOn(t) => <<d, q>> \in ended \/ <<d, q>> \in kept
  BY DEF CallsOn, HasCommand
<1> HIDE DEF ended
<1>4. /\ running' = [c \in Clients |-> [r \in Requests |->
                       IF <<c, r>> \in ended THEN NoTab ELSE running[c][r]]]
      /\ waits' = [c \in Clients |-> [r \in Requests |->
                     IF <<c, r>> \in ended THEN "no"
                     ELSE IF <<c, r>> \in kept THEN "parked" ELSE waits[c][r]]]
      /\ replies' = [c \in Clients |-> [r \in Requests |->
                       IF <<c, r>> \in ended /\ conn[c] = "open"
                         THEN old[c][r] + 1 ELSE old[c][r]]]
  BY <1>1 DEF ended
<1>5. /\ running' \in [Clients -> [Requests -> Tabs \cup {NoTab}]]
      /\ waits' \in [Clients -> [Requests -> {"no", "command", "parked"}]]
      /\ replies' \in [Clients -> [Requests -> Nat]]
  BY <1>2, <1>4
<1>6. ASSUME NEW d \in Clients, NEW q \in Requests
      PROVE  /\ \/ /\ running'[d][q] = running[d][q]
                   /\ replies'[d][q] = old[d][q]
                \/ /\ running[d][q] # NoTab /\ running'[d][q] = NoTab
                   /\ replies'[d][q] = IF conn[d] = "open" THEN old[d][q] + 1
                                       ELSE old[d][q]
             /\ (running'[d][q] # NoTab /\ waits'[d][q] # "parked") =>
                  /\ HasCommand(d, q) /\ running[d][q] # t
                  /\ running'[d][q] = running[d][q]
  <2>1. CASE <<d, q>> \in ended
    BY <1>3, <1>4, <2>1
  <2>2. CASE <<d, q>> \notin ended
    <3>1. /\ running'[d][q] = running[d][q] /\ replies'[d][q] = old[d][q]
          /\ waits'[d][q] = IF <<d, q>> \in kept THEN "parked" ELSE waits[d][q]
      BY <1>4, <2>2
    <3>2. <<d, q>> \notin kept => ~(running[d][q] = t /\ HasCommand(d, q))
      BY <1>3, <2>2
    <3> QED BY <3>1, <3>2 DEF HasCommand
  <2> QED BY <2>1, <2>2
<1> QED BY <1>5, <1>6

(* Sessions, calls and tabs after tab t is gone, whatever the entries were *)
(* before as long as they follow the tabs.                                 *)
LEMMA ClosedTabFacts ==
  ASSUME IInv, NEW t \in Tabs, t \in open, RemoveTab(t),
         NEW ss \in [Tabs -> SessionStates], sessions' = SessionClosed(ss, t),
         \A u \in Tabs : ss[u] # "wild" /\ (ss[u] = "attached" => u \in open),
         \A u \in Tabs : sessions[u] # "none" => ss[u] = sessions[u],
         \A d \in Clients : client_states'[d].assigned_tab # NoTab =>
           /\ client_states'[d].assigned_tab \in Tabs
           /\ ss[client_states'[d].assigned_tab] # "none",
         NEW old \in [Clients -> [Requests -> Nat]], EndCalls(t, old)
  PROVE  /\ open' \subseteq Tabs /\ blank' \subseteq open'
         /\ active' \in open' \cup {NoTab}
         /\ sessions' \in [Tabs -> SessionStates]
         /\ SessionsFollowTabs'
         /\ ActiveIsOpen'
<1>1. /\ open' = open \ {t} /\ blank' = blank \ {t}
      /\ active' \in open' \cup {NoTab}
      /\ open' # {} => active' # NoTab
      /\ open' \subseteq Tabs /\ blank' \subseteq open'
  BY DEF RemoveTab, IInv, TypeOK, ActiveIsOpen
<1>2. /\ sessions' \in [Tabs -> SessionStates]
      /\ sessions'[t] # "attached"
      /\ \A u \in Tabs : sessions'[u] # ss[u] => u = t /\ sessions'[u] = "dead"
  BY DEF SessionClosed, SessionStates
<1>3. /\ \A u \in Tabs : sessions'[u] # "wild"
      /\ \A u \in Tabs : sessions'[u] = "attached" => u \in open'
      /\ \A d \in Clients : client_states'[d].assigned_tab # NoTab =>
           sessions'[client_states'[d].assigned_tab] # "none"
  BY <1>1, <1>2
<1>4. ASSUME NEW d \in Clients, NEW q \in Requests, running'[d][q] # NoTab,
             waits'[d][q] # "parked"
      PROVE  sessions'[running'[d][q]] = "attached"
  <2>1. HasCommand(d, q) /\ running[d][q] # t /\ running'[d][q] = running[d][q]
    BY <1>4, EndCallsFacts
  <2>2. running[d][q] \in Tabs /\ sessions[running[d][q]] = "attached"
    BY <2>1, CommandTab
  <2> QED BY <1>2, <2>1, <2>2
<1> QED BY <1>1, <1>2, <1>3, <1>4 DEF SessionsFollowTabs, HasCommand, ActiveIsOpen

LEMMA CloseTabIInv ==
  ASSUME IInv, NEW t \in Tabs, CloseTab(t)
  PROVE  /\ IInv'
         /\ \A d \in Clients, q \in Requests : running'[d][q] \in {NoTab, running[d][q]}
<1>1. /\ t \in open
      /\ RemoveTab(t)
      /\ sessions' = SessionClosed(sessions, t)
      /\ EndCalls(t, replies)
      /\ UNCHANGED <<conn, client_states, sent>>
  BY DEF CloseTab
<1>2. /\ sessions \in [Tabs -> SessionStates]
      /\ replies \in [Clients -> [Requests -> Nat]]
      /\ \A d \in Clients : client_states[d].assigned_tab \in Tabs \cup {NoTab}
  BY DEF IInv, TypeOK, ClientStates, Absent
<1>3. /\ running' \in [Clients -> [Requests -> Tabs \cup {NoTab}]]
      /\ waits' \in [Clients -> [Requests -> {"no", "command", "parked"}]]
      /\ replies' \in [Clients -> [Requests -> Nat]]
      /\ \A d \in Clients, q \in Requests :
           \/ /\ running'[d][q] = running[d][q]
              /\ replies'[d][q] = replies[d][q]
           \/ /\ running[d][q] # NoTab /\ running'[d][q] = NoTab
              /\ replies'[d][q] = IF conn[d] = "open" THEN replies[d][q] + 1
                                  ELSE replies[d][q]
  BY <1>1, <1>2, EndCallsFacts
<1>4. /\ open' \subseteq Tabs /\ blank' \subseteq open'
      /\ active' \in open' \cup {NoTab}
      /\ sessions' \in [Tabs -> SessionStates]
      /\ SessionsFollowTabs'
      /\ ActiveIsOpen'
  <2>1. /\ \A u \in Tabs : sessions[u] # "wild" /\ (sessions[u] = "attached" => u \in open)
        /\ \A d \in Clients : client_states'[d].assigned_tab # NoTab =>
             /\ client_states'[d].assigned_tab \in Tabs
             /\ sessions[client_states'[d].assigned_tab] # "none"
    BY <1>1, <1>2 DEF IInv, SessionsFollowTabs
  <2> QED BY <1>1, <1>2, <2>1, ClosedTabFacts
<1>5. TypeOK'
  BY <1>1, <1>3, <1>4 DEF IInv, TypeOK
<1>6. OneResponsePerRequest'
  <2>1. ASSUME NEW d \in Clients, NEW q \in Requests, conn[d] = "open"
        PROVE  /\ replies[d][q] \in Nat
               /\ replies[d][q] + (IF running[d][q] # NoTab THEN 1 ELSE 0)
                    = (IF q <= sent[d] THEN 1 ELSE 0)
    BY <1>2, <2>1 DEF IInv, OneResponsePerRequest
  <2>2. ASSUME NEW d \in Clients, NEW q \in Requests, conn[d] = "open"
        PROVE  replies'[d][q] + (IF running'[d][q] # NoTab THEN 1 ELSE 0)
                 = (IF q <= sent[d] THEN 1 ELSE 0)
    BY <1>3, <2>1, <2>2
  <2> QED BY <1>1, <2>2 DEF OneResponsePerRequest
<1>7. QuietClients'
  <2>1. ASSUME NEW d \in Clients, NEW q \in Requests
        PROVE  /\ conn[d] = "new" => running'[d][q] = NoTab /\ replies'[d][q] = 0
               /\ running'[d][q] # NoTab => Ready(d) \/ conn[d] = "gone"
    <3>1. /\ conn[d] = "new" => running[d][q] = NoTab /\ replies[d][q] = 0
          /\ running[d][q] # NoTab => Ready(d) \/ conn[d] = "gone"
      BY DEF IInv, QuietClients
    <3> QED BY <1>3, <3>1
  <2> QED BY <1>1, <2>1 DEF IInv, QuietClients, Ready
<1> QED BY <1>3, <1>4, <1>5, <1>6, <1>7 DEF IInv

(* The steps of the user that neither a call nor a session notices.        *)
LEMMA BrowserOnlyIInv ==
  ASSUME IInv, open \subseteq open', open' \subseteq Tabs,
         blank' \subseteq open', active' \in open' \cup {NoTab},
         open' # {} => active' # NoTab,
         UNCHANGED <<conn, client_states, sessions, sent, running, waits, replies>>
  PROVE  IInv'
<1>1. TypeOK'
  BY DEF IInv, TypeOK
<1>2. OneResponsePerRequest' /\ QuietClients' /\ ActiveIsOpen'
  BY DEF IInv, OneResponsePerRequest, QuietClients, ActiveIsOpen, Ready
<1>3. SessionsFollowTabs'
  BY DEF IInv, SessionsFollowTabs, HasCommand
<1> QED BY <1>1, <1>2, <1>3 DEF IInv

LEMMA BrowserStepsIInv ==
  ASSUME IInv, NEW t \in Tabs, OpenTab(t) \/ ActivateTab(t) \/ NavigateTab(t)
  PROVE  IInv'
<1>1. CASE OpenTab(t)
  BY <1>1, BrowserOnlyIInv DEF OpenTab, IInv, TypeOK
<1>2. CASE ActivateTab(t)
  BY <1>2, BrowserOnlyIInv DEF ActivateTab, IInv, TypeOK
<1>3. CASE NavigateTab(t)
  BY <1>3, BrowserOnlyIInv DEF NavigateTab, IInv, TypeOK, ActiveIsOpen
<1> QED BY <1>1, <1>2, <1>3

-----------------------------------------------------------------------------
(* Every step keeps IInv: the tabs tool.                                   *)

(* The client is moved to an open tab after the call settled on its own.   *)
LEMMA ReassignFacts ==
  ASSUME IInv, NEW c \in Clients, Ready(c), NEW opn, open \subseteq opn,
         NEW t \in opn \cup {NoTab}, t \in Tabs \cup {NoTab}, Reassign(c, t, opn)
  PROVE  /\ client_states' \in [Clients -> ClientStates]
         /\ client_states'[c].handshake_state = "kReady"
         /\ \A d \in Clients \ {c} : client_states'[d] = client_states[d]
         /\ sessions' \in [Tabs -> SessionStates]
         /\ \A d \in Clients : client_states'[d].assigned_tab # NoTab =>
              sessions'[client_states'[d].assigned_tab] # "none"
         /\ \A u \in Tabs : sessions'[u] # "wild" /\ (sessions'[u] = "attached" => u \in opn)
         /\ \A u \in Tabs : sessions[u] # "none" => sessions'[u] = sessions[u]
<1> DEFINE states == Assigned(client_states, c, TabForClient(c))
           ss == WithSession(sessions, TabForClient(c), open)
<1>1. /\ client_states' = Assigned(states, c, t)
      /\ sessions' = WithSession(ss, t, opn)
  BY DEF Reassign
<1>2. /\ states \in [Clients -> ClientStates]
      /\ states[c].handshake_state = "kReady"
      /\ \A d \in Clients \ {c} : states[d] = client_states[d]
      /\ ss \in [Tabs -> SessionStates]
      /\ \A d \in Clients : states[d].assigned_tab # NoTab =>
           ss[states[d].assigned_tab] # "none"
      /\ \A u \in Tabs : ss[u] # "wild"
      /\ \A u \in Tabs : ss[u] = "attached" => u \in open
      /\ \A u \in Tabs : sessions[u] # "none" => ss[u] = sessions[u]
  BY SettledFacts
<1>3. \A d \in Clients : states[d].assigned_tab \in Tabs \cup {NoTab}
  <2>1. \A x \in ClientStates : x.assigned_tab \in Tabs \cup {NoTab}
    BY DEF ClientStates, Absent
  <2> HIDE DEF states
  <2> QED BY <1>2, <2>1
<1> HIDE DEF states, ss
<1>4. /\ client_states' \in [Clients -> ClientStates]
      /\ client_states'[c].handshake_state = "kReady"
      /\ client_states'[c].assigned_tab = IF t = NoTab THEN states[c].assigned_tab ELSE t
      /\ \A d \in Clients \ {c} : client_states'[d] = states[d]
  BY <1>1, <1>2, AssignedFacts
<1>5. /\ sessions' \in [Tabs -> SessionStates]
      /\ t # NoTab => sessions'[t] # "none"
      /\ \A u \in Tabs : ss[u] # "none" => sessions'[u] = ss[u]
      /\ \A u \in Tabs : sessions'[u] # ss[u] =>
           u = t /\ sessions'[u] = IF u \in opn THEN "attached" ELSE "wild"
  BY <1>1, <1>2, WithSessionFacts
<1>6. ASSUME NEW d \in Clients, client_states'[d].assigned_tab # NoTab
      PROVE  sessions'[client_states'[d].assigned_tab] # "none"
  <2>1. CASE d = c /\ t # NoTab
    BY <1>4, <1>5, <2>1
  <2>2. CASE ~(d = c /\ t # NoTab)
    <3>1. client_states'[d].assigned_tab = states[d].assigned_tab
      BY <1>4, <2>2
    <3> QED BY <1>2, <1>3, <1>5, <1>6, <3>1
  <2> QED BY <2>1, <2>2
<1>7. \A u \in Tabs : sessions'[u] # "wild" /\ (sessions'[u] = "attached" => u \in opn)
  BY <1>2, <1>5
<1>8. \A u \in Tabs : sessions[u] # "none" => sessions'[u] = sessions[u]
  BY <1>2, <1>5
<1> QED BY <1>2, <1>4, <1>5, <1>6, <1>7, <1>8

(* The three forms of "new" and "select": the tabs afterwards, the client  *)
(* moved, the request answered.                                            *)
LEMMA TabsToolIInv ==
  ASSUME IInv, NEW c \in Clients, NEW r \in Requests, Ready(c), Requested(c, r),
         NEW t \in open' \cup {NoTab}, Reassign(c, t, open'),
         open \subseteq open', open' \subseteq Tabs, blank' \subseteq open',
         active' \in open' \cup {NoTab}, open' # {} => active' # NoTab,
         replies' = Replied(replies, c, r), UNCHANGED <<conn, running, waits>>
  PROVE  IInv'
<1>1. /\ client_states' \in [Clients -> ClientStates]
      /\ client_states'[c].handshake_state = "kReady"
      /\ \A d \in Clients \ {c} : client_states'[d] = client_states[d]
      /\ sessions' \in [Tabs -> SessionStates]
      /\ \A d \in Clients : client_states'[d].assigned_tab # NoTab =>
           sessions'[client_states'[d].assigned_tab] # "none"
      /\ \A u \in Tabs : sessions'[u] # "wild" /\ (sessions'[u] = "attached" => u \in open')
      /\ \A u \in Tabs : sessions[u] # "none" => sessions'[u] = sessions[u]
  BY ReassignFacts
<1>2. /\ sent' \in [Clients -> Nat]
      /\ replies' \in [Clients -> [Requests -> Nat]]
      /\ OneResponsePerRequest'
      /\ \A d \in Clients \ {c} : sent'[d] = sent[d] /\ replies'[d] = replies[d]
  BY AnsweredAtOnce
<1>3. TypeOK'
  BY <1>1, <1>2 DEF IInv, TypeOK
<1>4. SessionsFollowTabs'
  <2>1. \A d \in Clients, q \in Requests : HasCommand(d, q) =>
          sessions'[running[d][q]] = "attached"
    BY <1>1, CommandTab
  <2> QED BY <1>1, <2>1 DEF SessionsFollowTabs, HasCommand
<1>5. QuietClients' /\ ActiveIsOpen'
  BY <1>1, <1>2, ServedClientQuiet DEF ActiveIsOpen, Requested
<1> QED BY <1>2, <1>3, <1>4, <1>5 DEF IInv

LEMMA TabsNewIInv ==
  ASSUME IInv, NEW c \in Clients, TabsNew(c)
  PROVE  IInv'
<1>1. PICK r \in Requests :
        /\ Requested(c, r)
        /\ \/ \E t \in Tabs :
                /\ Fresh(t)
                /\ open' = open \cup {t}
                /\ \/ blank' = blank \cup {t}
                   \/ blank = {} /\ blank' = blank
                /\ active' = t
           \/ \E t \in blank :
                /\ active' = t
                /\ blank' = blank \ {t}
                /\ UNCHANGED open
        /\ Reassign(c, active', open')
        /\ replies' = Replied(replies, c, r)
        /\ UNCHANGED <<conn, running, waits>>
  BY DEF TabsNew
<1>2. /\ open \subseteq open' /\ open' \subseteq Tabs /\ blank' \subseteq open'
      /\ active' \in open' /\ active' \in Tabs
  BY <1>1 DEF IInv, TypeOK
<1>3. active' # NoTab /\ Ready(c)
  BY <1>1, <1>2 DEF IInv, TypeOK, TabsNew
<1> QED BY <1>1, <1>2, <1>3, TabsToolIInv

LEMMA TabsNewOrSelectFailsIInv ==
  ASSUME IInv, NEW c \in Clients, TabsNewOrSelectFails(c)
  PROVE  IInv'
<1>1. PICK r \in Requests :
        /\ Requested(c, r)
        /\ Reassign(c, active, open)
        /\ replies' = Replied(replies, c, r)
        /\ UNCHANGED <<conn, browser, running, waits>>
  BY DEF TabsNewOrSelectFails
<1>2. /\ open' = open /\ open' \subseteq Tabs /\ blank' \subseteq open'
      /\ active' \in open' \cup {NoTab} /\ (open' # {} => active' # NoTab)
      /\ active \in open' \cup {NoTab}
      /\ Ready(c)
  BY <1>1 DEF IInv, TypeOK, ActiveIsOpen, browser, TabsNewOrSelectFails
<1> QED BY <1>1, <1>2, TabsToolIInv

LEMMA TabsSelectIInv ==
  ASSUME IInv, NEW c \in Clients, NEW t \in Tabs, TabsSelect(c, t)
  PROVE  IInv'
<1>1. PICK r \in Requests :
        /\ Requested(c, r)
        /\ active' = t
        /\ Reassign(c, t, open)
        /\ replies' = Replied(replies, c, r)
        /\ UNCHANGED <<conn, open, blank, running, waits>>
  BY DEF TabsSelect
<1>2. /\ open' = open /\ open' \subseteq Tabs /\ blank' \subseteq open'
      /\ active' \in open' /\ active' # NoTab
      /\ Ready(c) /\ t \in open'
  BY <1>1 DEF IInv, TypeOK, TabsSelect
<1> QED BY <1>1, <1>2, TabsToolIInv

LEMMA TabsCloseIInv ==
  ASSUME IInv, NEW c \in Clients, NEW t \in Tabs, TabsClose(c, t)
  PROVE  /\ IInv'
         /\ \A d \in Clients, q \in Requests : running'[d][q] \in {NoTab, running[d][q]}
<1> DEFINE ss == WithSession(sessions, TabForClient(c), open)
<1>1. PICK r \in Requests :
        /\ Requested(c, r)
        /\ client_states' = Assigned(client_states, c, TabForClient(c))
        /\ RemoveTab(t)
        /\ sessions' = SessionClosed(ss, t)
        /\ EndCalls(t, Replied(replies, c, r))
        /\ UNCHANGED <<conn>>
  BY DEF TabsClose
<1>2. Ready(c) /\ t \in open
  BY DEF TabsClose
<1>3. /\ client_states' \in [Clients -> ClientStates]
      /\ client_states'[c].handshake_state = "kReady"
      /\ \A d \in Clients \ {c} : client_states'[d] = client_states[d]
      /\ ss \in [Tabs -> SessionStates]
      /\ \A d \in Clients : client_states'[d].assigned_tab # NoTab =>
           ss[client_states'[d].assigned_tab] # "none"
      /\ \A u \in Tabs : ss[u] # "wild"
      /\ \A u \in Tabs : ss[u] = "attached" => u \in open
      /\ \A u \in Tabs : sessions[u] # "none" => ss[u] = sessions[u]
  BY <1>1, <1>2, SettledFacts
<1> HIDE DEF ss
<1>4. \A d \in Clients : client_states'[d].assigned_tab \in Tabs \cup {NoTab}
  <2>1. \A x \in ClientStates : x.assigned_tab \in Tabs \cup {NoTab}
    BY DEF ClientStates, Absent
  <2> QED BY <1>3, <2>1
<1>5. /\ sent' \in [Clients -> Nat]
      /\ Replied(replies, c, r) \in [Clients -> [Requests -> Nat]]
      /\ \A d \in Clients, q \in Requests : conn[d] = "open" =>
           Replied(replies, c, r)[d][q] + (IF running[d][q] # NoTab THEN 1 ELSE 0)
             = (IF q <= sent'[d] THEN 1 ELSE 0)
      /\ \A d \in Clients \ {c} :
           sent'[d] = sent[d] /\ Replied(replies, c, r)[d] = replies[d]
  BY <1>1, RepliedFacts
<1>6. /\ running' \in [Clients -> [Requests -> Tabs \cup {NoTab}]]
      /\ waits' \in [Clients -> [Requests -> {"no", "command", "parked"}]]
      /\ replies' \in [Clients -> [Requests -> Nat]]
      /\ \A d \in Clients, q \in Requests :
           \/ /\ running'[d][q] = running[d][q]
              /\ replies'[d][q] = Replied(replies, c, r)[d][q]
           \/ /\ running[d][q] # NoTab /\ running'[d][q] = NoTab
              /\ replies'[d][q] = IF conn[d] = "open"
                                    THEN Replied(replies, c, r)[d][q] + 1
                                    ELSE Replied(replies, c, r)[d][q]
  BY <1>1, <1>5, EndCallsFacts
<1>7. /\ open' \subseteq Tabs /\ blank' \subseteq open'
      /\ active' \in open' \cup {NoTab}
      /\ sessions' \in [Tabs -> SessionStates]
      /\ SessionsFollowTabs'
      /\ ActiveIsOpen'
  BY <1>1, <1>2, <1>3, <1>4, <1>5, ClosedTabFacts
<1>8. TypeOK'
  BY <1>1, <1>3, <1>5, <1>6, <1>7 DEF IInv, TypeOK
<1>9. OneResponsePerRequest'
  <2>1. ASSUME NEW d \in Clients, conn[d] = "open", NEW q \in Requests
        PROVE  replies'[d][q] + (IF running'[d][q] # NoTab THEN 1 ELSE 0)
                 = (IF q <= sent'[d] THEN 1 ELSE 0)
    <3>1. /\ Replied(replies, c, r)[d][q] + (IF running[d][q] # NoTab THEN 1 ELSE 0)
               = (IF q <= sent'[d] THEN 1 ELSE 0)
          /\ Replied(replies, c, r)[d][q] \in Nat
      BY <1>5, <2>1
    <3>2. \/ /\ running'[d][q] = running[d][q]
             /\ replies'[d][q] = Replied(replies, c, r)[d][q]
          \/ /\ running[d][q] # NoTab /\ running'[d][q] = NoTab
             /\ replies'[d][q] = Replied(replies, c, r)[d][q] + 1
      BY <1>6, <2>1
    <3> QED BY <3>1, <3>2
  <2> QED BY <1>1, <2>1 DEF OneResponsePerRequest
<1>10. QuietClients'
  <2>1. conn[c] = "open"
    BY <1>1 DEF Requested
  <2>2. ASSUME NEW d \in Clients, NEW q \in Requests
        PROVE  /\ conn[d] = "new" => running'[d][q] = NoTab /\ replies'[d][q] = 0
               /\ running'[d][q] # NoTab => Ready(d) \/ conn[d] = "gone"
    <3>1. CASE d = c
      BY <1>2, <2>1, <3>1
    <3>2. CASE d # c
      <4>1. /\ running'[d][q] \in {NoTab, running[d][q]}
            /\ conn[d] = "new" => replies'[d][q] = replies[d][q]
        BY SMTT(30), <1>5, <1>6, <3>2
      <4>2. /\ conn[d] = "new" => running[d][q] = NoTab /\ replies[d][q] = 0
            /\ running[d][q] # NoTab => Ready(d) \/ conn[d] = "gone"
        BY DEF IInv, QuietClients
      <4> QED BY <4>1, <4>2
    <3> QED BY <3>1, <3>2
  <2>3. \A d \in Clients : Ready(d) => Ready(d)'
    BY <1>3 DEF Ready
  <2> QED BY <1>1, <1>3, <1>5, <2>1, <2>2, <2>3 DEF IInv, QuietClients
<1> QED BY <1>6, <1>7, <1>8, <1>9, <1>10 DEF IInv

(* The end of a call that is still running.                                *)
LEMMA AnsweredIInv ==
  ASSUME IInv, NEW c \in Clients, NEW r \in Requests, running[c][r] # NoTab,
         Answered(c, r), UNCHANGED <<conn, client_states, sessions, browser, sent>>
  PROVE  /\ IInv'
         /\ \A d \in Clients, q \in Requests : running'[d][q] \in {NoTab, running[d][q]}
<1>1. /\ running' = [running EXCEPT ![c][r] = NoTab]
      /\ waits' = [waits EXCEPT ![c][r] = "no"]
      /\ replies' = IF conn[c] = "open" THEN [replies EXCEPT ![c][r] = @ + 1] ELSE replies
      /\ UNCHANGED <<conn, client_states, sessions, open, active, blank, sent>>
  BY DEF Answered, Replied, browser
<1>2. /\ running \in [Clients -> [Requests -> Tabs \cup {NoTab}]]
      /\ waits \in [Clients -> [Requests -> {"no", "command", "parked"}]]
      /\ replies \in [Clients -> [Requests -> Nat]]
  BY DEF IInv, TypeOK
<1>3. replies' \in [Clients -> [Requests -> Nat]]
  <2>1. replies[c] \in [Requests -> Nat]
    BY <1>2
  <2>2. [replies[c] EXCEPT ![r] = replies[c][r] + 1] \in [Requests -> Nat]
    BY <2>1
  <2>3. replies' = IF conn[c] = "open"
          THEN [replies EXCEPT ![c] = [replies[c] EXCEPT ![r] = replies[c][r] + 1]]
          ELSE replies
    BY <1>1
  <2> QED BY <1>2, <2>2, <2>3
<1>4. /\ running' \in [Clients -> [Requests -> Tabs \cup {NoTab}]]
      /\ waits' \in [Clients -> [Requests -> {"no", "command", "parked"}]]
  BY <1>1, <1>2
<1>5. \A d \in Clients, q \in Requests :
        /\ running'[d][q] = IF d = c /\ q = r THEN NoTab ELSE running[d][q]
        /\ waits'[d][q] = IF d = c /\ q = r THEN "no" ELSE waits[d][q]
  BY <1>1, <1>2
<1>6. \A d \in Clients, q \in Requests :
        replies'[d][q] = IF d = c /\ q = r /\ conn[c] = "open"
                           THEN replies[d][q] + 1 ELSE replies[d][q]
  BY <1>1, <1>2
<1>7. TypeOK'
  BY <1>1, <1>3, <1>4 DEF IInv, TypeOK
<1>8. OneResponsePerRequest'
  <2>1. SUFFICES ASSUME NEW d \in Clients, conn[d] = "open", NEW q \in Requests
                 PROVE  replies'[d][q] + (IF running'[d][q] # NoTab THEN 1 ELSE 0)
                          = (IF q <= sent[d] THEN 1 ELSE 0)
    BY <1>1 DEF OneResponsePerRequest
  <2>2. /\ replies[d][q] \in Nat
        /\ replies[d][q] + (IF running[d][q] # NoTab THEN 1 ELSE 0)
             = (IF q <= sent[d] THEN 1 ELSE 0)
    BY <1>2, <2>1 DEF IInv, OneResponsePerRequest
  <2> QED BY <1>5, <1>6, <2>1, <2>2
<1>9. SessionsFollowTabs' /\ ActiveIsOpen'
  BY <1>1, <1>5 DEF IInv, SessionsFollowTabs, ActiveIsOpen, HasCommand
<1>10. QuietClients'
  BY <1>1, <1>5, <1>6 DEF IInv, QuietClients, Ready
<1> QED BY <1>5, <1>7, <1>8, <1>9, <1>10 DEF IInv

LEMMA CallEndsIInv ==
  ASSUME IInv, NEW c \in Clients, NEW r \in Requests,
         CdpAnswer(c, r) \/ OwnEvent(c, r)
  PROVE  /\ IInv'
         /\ \A d \in Clients, q \in Requests : running'[d][q] \in {NoTab, running[d][q]}
<1>1. /\ running[c][r] # NoTab
      /\ Answered(c, r)
      /\ UNCHANGED <<conn, client_states, sessions, browser, sent>>
  BY DEF CdpAnswer, OwnEvent, IInv, TypeOK
<1> QED BY <1>1, AnsweredIInv

(* A call of a waiting tool goes from its command to its own timer or back.*)
LEMMA HeldIInv ==
  ASSUME IInv, NEW c \in Clients, NEW r \in Requests, Parks(c, r) \/ Resumes(c, r)
  PROVE  IInv'
<1>1. UNCHANGED <<conn, client_states, sessions, open, active, blank, sent, running,
                  replies>>
  BY DEF Parks, Resumes, browser
<1>2. /\ running \in [Clients -> [Requests -> Tabs \cup {NoTab}]]
      /\ waits \in [Clients -> [Requests -> {"no", "command", "parked"}]]
  BY DEF IInv, TypeOK
<1>3. waits' \in [Clients -> [Requests -> {"no", "command", "parked"}]]
  <2>1. PICK kind \in {"command", "parked"} : waits' = [waits EXCEPT ![c][r] = kind]
    BY DEF Parks, Resumes
  <2> QED BY <1>2, <2>1
<1>4. \A d \in Clients, q \in Requests : HasCommand(d, q)' =>
        sessions[running[d][q]] = "attached"
  <2>1. ASSUME NEW d \in Clients, NEW q \in Requests, HasCommand(d, q)'
        PROVE  sessions[running[d][q]] = "attached"
    <3>1. CASE HasCommand(d, q)
      BY <3>1, CommandTab
    <3>2. CASE d = c /\ q = r /\ Resumes(c, r)
      BY <3>2 DEF Resumes
    <3>3. CASE ~(d = c /\ q = r)
      <4>1. waits'[d][q] = waits[d][q] /\ running'[d][q] = running[d][q]
        BY <1>1, <1>2, <3>3 DEF Parks, Resumes
      <4> QED BY <2>1, <3>1, <4>1 DEF HasCommand
    <3>4. CASE d = c /\ q = r /\ Parks(c, r)
      <4>1. waits'[c][r] = "parked"
        BY <1>2, <3>4 DEF Parks
      <4> QED BY <2>1, <3>4, <4>1 DEF HasCommand
    <3> QED BY <3>2, <3>3, <3>4
  <2> QED BY <2>1
<1>5. TypeOK'
  BY <1>1, <1>3 DEF IInv, TypeOK
<1>6. OneResponsePerRequest' /\ QuietClients' /\ ActiveIsOpen'
  BY <1>1 DEF IInv, OneResponsePerRequest, QuietClients, ActiveIsOpen, Ready
<1>7. SessionsFollowTabs'
  BY <1>1, <1>4 DEF IInv, SessionsFollowTabs, HasCommand
<1> QED BY <1>5, <1>6, <1>7 DEF IInv

-----------------------------------------------------------------------------
(* The steps together.                                                     *)

(* A call that a step puts to work is on the tab its client has after it.  *)
RunsOnOwnTab ==
  \A d \in Clients, q \in Requests :
    \/ running'[d][q] \in {NoTab, running[d][q]}
    \/ running[d][q] = NoTab /\ running'[d][q] = client_states'[d].assigned_tab

LEMMA ClientStepIInv ==
  ASSUME IInv, NEW c \in Clients, ClientStep(c)
  PROVE  IInv' /\ RunsOnOwnTab
<1>1. CASE Connect(c)
  BY <1>1, ConnectIInv DEF Connect, RunsOnOwnTab
<1>2. CASE OnClientDisconnected(c)
  BY <1>2, DisconnectIInv DEF OnClientDisconnected, RunsOnOwnTab
<1>3. CASE HandleInitialize(c)
  BY <1>3, HandleInitializeIInv DEF HandleInitialize, RunsOnOwnTab
<1>4. CASE HandleInitialized(c)
  BY <1>4, HandleInitializedIInv DEF HandleInitialized, RunsOnOwnTab
<1>5. CASE HandleSimpleRequest(c)
  BY <1>5, HandleSimpleRequestIInv DEF HandleSimpleRequest, RunsOnOwnTab
<1>6. CASE CallSessionTool(c, TRUE) \/ CallSessionTool(c, FALSE)
  <2>1. PICK inline \in BOOLEAN : CallSessionTool(c, inline)
    BY <1>6
  <2>2. /\ IInv'
        /\ \A d \in Clients, q \in Requests : running'[d][q] # running[d][q] =>
             /\ d = c /\ running[d][q] = NoTab
             /\ running'[d][q] = client_states'[c].assigned_tab
    BY <2>1, CallSessionToolIInv
  <2> QED BY <2>2 DEF RunsOnOwnTab
<1>7. CASE CallSessionToolNoWindow(c)
  BY <1>7, CallSessionToolNoWindowIInv DEF RunsOnOwnTab
<1>8. CASE CallLocalTool(c)
  BY <1>8, CallLocalToolIInv DEF CallLocalTool, RunsOnOwnTab
<1>9. CASE TabsNew(c)
  BY <1>9, TabsNewIInv DEF TabsNew, RunsOnOwnTab
<1>10. CASE TabsNewOrSelectFails(c)
  BY <1>10, TabsNewOrSelectFailsIInv DEF TabsNewOrSelectFails, RunsOnOwnTab
<1>11. ASSUME NEW t \in Tabs, TabsSelect(c, t) PROVE IInv' /\ RunsOnOwnTab
  BY <1>11, TabsSelectIInv DEF TabsSelect, RunsOnOwnTab
<1>12. ASSUME NEW t \in Tabs, TabsClose(c, t) PROVE IInv' /\ RunsOnOwnTab
  BY <1>12, TabsCloseIInv DEF RunsOnOwnTab
<1> QED BY <1>1, <1>2, <1>3, <1>4, <1>5, <1>6, <1>7, <1>8, <1>9, <1>10, <1>11,
           <1>12 DEF ClientStep

LEMMA NextIInv == IInv /\ [Next]_vars => IInv' /\ RunsOnOwnTab
<1> SUFFICES ASSUME IInv, [Next]_vars PROVE IInv' /\ RunsOnOwnTab
  OBVIOUS
<1>1. ASSUME NEW c \in Clients, ClientStep(c) PROVE IInv' /\ RunsOnOwnTab
  BY <1>1, ClientStepIInv
<1>2. ASSUME NEW c \in Clients, NEW r \in Requests,
             CdpAnswer(c, r) \/ OwnEvent(c, r) \/ Parks(c, r) \/ Resumes(c, r)
      PROVE  IInv' /\ RunsOnOwnTab
  <2>1. CASE CdpAnswer(c, r) \/ OwnEvent(c, r)
    BY <2>1, CallEndsIInv DEF RunsOnOwnTab
  <2>2. CASE Parks(c, r) \/ Resumes(c, r)
    BY <2>2, HeldIInv DEF Parks, Resumes, RunsOnOwnTab
  <2> QED BY <1>2, <2>1, <2>2
<1>3. ASSUME NEW t \in Tabs, CloseTab(t) PROVE IInv' /\ RunsOnOwnTab
  BY <1>3, CloseTabIInv DEF RunsOnOwnTab
<1>4. ASSUME NEW t \in Tabs, OpenTab(t) \/ ActivateTab(t) \/ NavigateTab(t)
      PROVE  IInv' /\ RunsOnOwnTab
  BY <1>4, BrowserStepsIInv DEF OpenTab, ActivateTab, NavigateTab, RunsOnOwnTab
<1>5. CASE UNCHANGED vars
  <2>1. TypeOK'
    BY <1>5 DEF IInv, TypeOK, vars
  <2>2. OneResponsePerRequest' /\ SessionsFollowTabs'
    BY <1>5 DEF IInv, OneResponsePerRequest, SessionsFollowTabs, HasCommand, vars
  <2>3. QuietClients' /\ ActiveIsOpen' /\ RunsOnOwnTab
    BY <1>5 DEF IInv, QuietClients, ActiveIsOpen, RunsOnOwnTab, Ready, vars
  <2> QED BY <2>1, <2>2, <2>3 DEF IInv
<1> QED BY <1>1, <1>2, <1>3, <1>4, <1>5 DEF Next

LEMMA AlwaysIInv == Spec => []IInv
<1>1. IInv /\ [Next]_vars => IInv'
  BY NextIInv
<1> QED BY <1>1, InitIInv, PTL DEF Spec

LEMMA AssignedOthers ==
  ASSUME NEW states, DOMAIN states = Clients, NEW c \in Clients, NEW t
  PROVE  /\ DOMAIN Assigned(states, c, t) = Clients
         /\ \A d \in Clients \ {c} : Assigned(states, c, t)[d] = states[d]
BY DEF Assigned

(* A step of client c leaves the state of every other client alone.        *)
LEMMA OneClientAtATime ==
  ASSUME TypeOK, NEW c \in Clients, ClientStep(c), NEW d \in Clients \ {c}
  PROVE  client_states'[d] = client_states[d]
<1>0. DOMAIN client_states = Clients
  BY DEF TypeOK
<1> DEFINE states == Assigned(client_states, c, TabForClient(c))
<1>1. DOMAIN states = Clients /\ states[d] = client_states[d]
  BY <1>0, AssignedOthers
<1> HIDE DEF states
<1>2. ASSUME NEW t, NEW opn, Reassign(c, t, opn)
      PROVE  client_states'[d] = client_states[d]
  BY <1>1, <1>2, AssignedOthers DEF Reassign, states
<1>3. CASE Connect(c) \/ OnClientDisconnected(c) \/ HandleInitialize(c)
  BY <1>0, <1>3 DEF Connect, OnClientDisconnected, HandleInitialize
<1>4. CASE HandleInitialized(c)
  <2> DEFINE ready == [client_states EXCEPT ![c].handshake_state = "kReady"]
  <2>1. DOMAIN ready = Clients /\ ready[d] = client_states[d]
    BY <1>0
  <2>2. client_states' = Assigned(ready, c, active)
    BY <1>4 DEF HandleInitialized
  <2> HIDE DEF ready
  <2> QED BY <2>1, <2>2, AssignedOthers
<1>5. CASE HandleSimpleRequest(c) \/ CallLocalTool(c)
  BY <1>1, <1>5 DEF HandleSimpleRequest, CallLocalTool, states
<1>6. CASE CallSessionTool(c, TRUE) \/ CallSessionTool(c, FALSE)
  BY <1>1, <1>6 DEF CallSessionTool, states
<1>7. CASE CallSessionToolNoWindow(c)
  <2>1. \/ UNCHANGED client_states
        \/ \E t \in Tabs : client_states' = Assigned(client_states, c, t)
    BY <1>7 DEF CallSessionToolNoWindow
  <2> QED BY <1>0, <2>1, AssignedOthers
<1>8. CASE TabsNew(c) \/ TabsNewOrSelectFails(c)
  BY <1>2, <1>8 DEF TabsNew, TabsNewOrSelectFails
<1>9. ASSUME NEW t \in Tabs, TabsSelect(c, t) \/ TabsClose(c, t)
      PROVE  client_states'[d] = client_states[d]
  BY <1>1, <1>2, <1>9 DEF TabsSelect, TabsClose, states
<1> QED BY <1>3, <1>4, <1>5, <1>6, <1>7, <1>8, <1>9 DEF ClientStep

-----------------------------------------------------------------------------
(* TypeOK: every variable keeps its type, and a client before the          *)
(* handshake never has a tab.                                              *)
THEOREM ServerTypeOK == Spec => []TypeOK
<1>1. IInv => TypeOK
  BY DEF IInv
<1> QED BY <1>1, AlwaysIInv, PTL

(* However many clients and tabs there are and whatever closes while calls *)
(* run: a request of a connected client is being worked on or has exactly  *)
(* one response.                                                           *)
THEOREM ServerAnswersOnce == Spec => []OneResponsePerRequest
<1>1. IInv => OneResponsePerRequest
  BY DEF IInv
<1> QED BY <1>1, AlwaysIInv, PTL

(* No address of a closed tab is ever attached to, an attached session has *)
(* its tab, and calls run on attached sessions only.                       *)
THEOREM ServerSessionsFollowTabs == Spec => []SessionsFollowTabs
<1>1. IInv => SessionsFollowTabs
  BY DEF IInv
<1> QED BY <1>1, AlwaysIInv, PTL

(* A tool call works on the tab of the client that made it, and only for a *)
(* client that is ready or gone.                                           *)
THEOREM ServerCallsOnOwnTab == Spec => CallsRunOnOwnTab
<1> DEFINE Own == \A c \in Clients, r \in Requests : running'[c][r] # NoTab =>
       /\ running'[c][r] = IF running[c][r] = NoTab
                             THEN client_states'[c].assigned_tab
                             ELSE running[c][r]
       /\ Ready(c)' \/ conn'[c] = "gone"
<1>1. IInv /\ [Next]_vars => Own
  BY NextIInv DEF RunsOnOwnTab, IInv, QuietClients
<1>2. IInv /\ [Next]_vars => [Own]_vars
  BY <1>1
<1> HIDE DEF Own
<1>3. Spec => [][Own]_vars
  BY <1>2, AlwaysIInv, PTL DEF Spec
<1> QED BY <1>3 DEF CallsRunOnOwnTab, Own

(* What one client does never changes the handshake or the tab of another. *)
THEOREM ServerClientsIndependent == Spec => ClientsAreIndependent
<1> DEFINE Apart == \A c, d \in Clients :
       (client_states'[c] # client_states[c] /\
        client_states'[d] # client_states[d]) => c = d
<1>1. ASSUME TypeOK, Next PROVE Apart
  <2>1. ASSUME NEW c \in Clients, ClientStep(c) PROVE Apart
    BY <2>1, <1>1, OneClientAtATime
  <2>2. CASE UNCHANGED client_states
    BY <2>2
  <2> QED BY <1>1, <2>1, <2>2 DEF Next, CdpAnswer, Parks, Resumes, OwnEvent,
             CloseTab, OpenTab, ActivateTab, NavigateTab
<1>2. TypeOK /\ [Next]_vars => [Apart]_vars
  BY <1>1
<1> HIDE DEF Apart
<1>3. Spec => [][Apart]_vars
  BY <1>2, ServerTypeOK, PTL DEF Spec
<1> QED BY <1>3 DEF ClientsAreIndependent, Apart

(* What EveryRequestAnswered rests on: a request that a client waits for   *)
(* has a command pending in a tab that is open, where its page can answer  *)
(* and the closing of the tab fails it, or is held by a waiting tool.      *)
UnansweredIsPending ==
  \A c \in Clients, r \in Requests :
    (conn[c] = "open" /\ r <= sent[c] /\ replies[c][r] = 0) =>
      /\ running[c][r] # NoTab
      /\ \/ running[c][r] \in open /\ sessions[running[c][r]] = "attached"
         \/ waits[c][r] = "parked"

(* No request of a connected client is lost, whatever tabs close meanwhile:*)
(* outside the waiting tools, whose calls may end by their own timers and  *)
(* events only, a request without an answer has a command pending in the   *)
(* session of an open tab.                                                 *)
THEOREM ServerUnansweredIsPending == Spec => []UnansweredIsPending
<1>1. IInv => UnansweredIsPending
  <2>1. SUFFICES ASSUME IInv, NEW c \in Clients, NEW r \in Requests, conn[c] = "open",
                        r <= sent[c], replies[c][r] = 0
                 PROVE  /\ running[c][r] # NoTab
                        /\ \/ /\ running[c][r] \in open
                              /\ sessions[running[c][r]] = "attached"
                           \/ waits[c][r] = "parked"
    BY DEF UnansweredIsPending
  <2>2. running[c][r] # NoTab
    BY <2>1 DEF IInv, OneResponsePerRequest
  <2>3. waits[c][r] # "parked" =>
          running[c][r] \in Tabs /\ sessions[running[c][r]] = "attached"
    BY <2>1, <2>2, CommandTab DEF HasCommand
  <2> QED BY <2>1, <2>2, <2>3 DEF IInv, SessionsFollowTabs
<1> QED BY <1>1, AlwaysIInv, PTL
=============================================================================

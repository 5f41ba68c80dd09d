----------------------------- MODULE DaemonProxy -----------------------------
(***************************************************************************)
(* handle_client and _bridge of src/scripts/chromium-mcp-daemon.py, with   *)
(* the bridge processes (StdioClient) in front and Chromium behind.        *)
(*                                                                         *)
(* One thread per client answers initialize and tools/list by itself as    *)
(* long as it can.  Any other request makes it wait for Chromium, connect, *)
(* go through a handshake of its own, pass on the request and what it has  *)
(* read beyond it, and hand the two sockets to two relay threads, each of  *)
(* which closes both sockets when its direction ends.                      *)
(*                                                                         *)
(* wait_ready() is the business of ChromiumManager: here it answers either *)
(* way.  Chromium is external: it may die and come back at any time, and   *)
(* answers, in any order, every request it has received.  A close() wakes  *)
(* the thread that is blocked in recv() on the same socket, as it does on  *)
(* macOS, the system the daemon is written for.                            *)
(***************************************************************************)
EXTENDS StdioClient, SequencesExt

CONSTANTS MaxDeaths    \* bound: times Chromium dies

ASSUME DeathsAssumption == MaxDeaths \in Nat

VARIABLES
  handler,    \* where handle_client is, per client
  buf,        \* frames in its buf
  current,    \* msg: the request at hand
  initialized,\* chromium_initialized
  clientSock, \* is client_sock open
  crSock,     \* cr_sock: none, open, reset by Chromium's end, or closed
  relay,      \* the two _bridge threads: which run
  cache,      \* tools_cache.json: none, torn (being written), full
  up,         \* external: Chromium accepts connections
  deaths,     \* external: how often it died
  arrived,    \* external: what Chromium has received on this connection
  due,        \* external: requests among it that it has not answered
  fromCr      \* answers in the socket that the daemon has not read

daemonVars == <<handler, buf, current, initialized, clientSock, crSock, relay, cache>>
chromiumVars == <<up, deaths, arrived, due, fromCr>>
vars == <<clientVars, daemonVars, chromiumVars>>

OfDaemon(k) == [from |-> "daemon", id |-> 0, kind |-> k]
NoMsg == OfDaemon("notification")

Init ==
  /\ ClientInit
  /\ handler = [c \in Clients |-> "read"]
  /\ buf = [c \in Clients |-> <<>>]
  /\ current = [c \in Clients |-> NoMsg]
  /\ initialized = [c \in Clients |-> FALSE]
  /\ clientSock = [c \in Clients |-> TRUE]
  /\ crSock = [c \in Clients |-> "none"]
  /\ relay = [c \in Clients |-> {}]
  /\ cache \in {"none", "full"}
  /\ up \in BOOLEAN
  /\ deaths = 0
  /\ arrived = [c \in Clients |-> <<>>]
  /\ due = [c \in Clients |-> {}]
  /\ fromCr = [c \in Clients |-> <<>>]

-----------------------------------------------------------------------------
(* The finally of handle_client: both sockets are closed.                  *)
Over(c) ==
  /\ handler' = [handler EXCEPT ![c] = "over"]
  /\ clientSock' = [clientSock EXCEPT ![c] = FALSE]
  /\ crSock' = [crSock EXCEPT ![c] = IF @ = "none" THEN @ ELSE "closed"]
  /\ buf' = [buf EXCEPT ![c] = <<>>]
  /\ current' = [current EXCEPT ![c] = NoMsg]

(* _recv_message(client_sock): from buf, or from a recv that may return    *)
(* several frames at once.                                                 *)
Received(c, msg) ==
  \/ /\ buf[c] # <<>>
     /\ msg = Head(buf[c])
     /\ buf' = [buf EXCEPT ![c] = Tail(@)]
     /\ UNCHANGED toDaemon
  \/ /\ buf[c] = <<>>
     /\ \E n \in 1 .. Len(toDaemon[c]) :
          /\ msg = Head(toDaemon[c])
          /\ buf' = [buf EXCEPT ![c] = SubSeq(toDaemon[c], 2, n)]
          /\ toDaemon' = [toDaemon EXCEPT ![c] = SubSeq(@, n + 1, Len(@))]

Pending(c) == IF buf[c] # <<>> THEN buf[c] ELSE toDaemon[c]
IsNext(c, kinds) ==
  /\ handler[c] = "read"
  /\ Pending(c) # <<>>
  /\ Head(Pending(c)).kind \in kinds

(* _send_message(client_sock): fails when the process at the other end is  *)
(* gone, and the handler returns.                                          *)
Answer(c, msg) ==
  /\ process[c]
  /\ toClient' = [toClient EXCEPT ![c] = Append(@, msg)]

unchangedClient == <<peer, stdin, written, held, process, sent, got>>

(* initialize, and tools/list from the cache: answered by the daemon.      *)
AnswerItself(c) ==
  /\ \/ IsNext(c, {"initialize"})
     \/ IsNext(c, {"list"}) /\ cache = "full"
  /\ \E msg \in FromClient :
       /\ Received(c, msg)
       /\ Answer(c, msg)
  /\ UNCHANGED <<unchangedClient, handler, current, initialized, clientSock, crSock,
                 relay, cache, chromiumVars>>

(* Notifications go no further.                                            *)
Absorb(c) ==
  /\ IsNext(c, {"notification"})
  /\ \E msg \in FromClient : Received(c, msg)
  /\ UNCHANGED <<unchangedClient, toClient, handler, current, initialized, clientSock,
                 crSock, relay, cache, chromiumVars>>

(* Everything else needs Chromium: wait_ready, unless this connection has  *)
(* its handshake behind it.                                                *)
NeedChromium(c) ==
  /\ \/ IsNext(c, {"call"})
     \/ IsNext(c, {"list"}) /\ cache # "full"
  /\ \E msg \in FromClient :
       /\ Received(c, msg)
       /\ current' = [current EXCEPT ![c] = msg]
  /\ handler' = [handler EXCEPT ![c] = IF initialized[c] THEN "forward" ELSE "wait"]
  /\ UNCHANGED <<unchangedClient, toClient, initialized, clientSock, crSock, relay,
                 cache, chromiumVars>>

(* End of file, a message that does not parse, or an answer that cannot be *)
(* sent: the handler returns.                                              *)
GiveUp(c) ==
  /\ handler[c] = "read"
  /\ \/ Pending(c) = <<>> /\ ~process[c]
     \/ IsNext(c, {"broken"})
     \/ IsNext(c, {"initialize"}) /\ ~process[c]
     \/ IsNext(c, {"list"}) /\ cache = "full" /\ ~process[c]
  /\ Over(c)
  /\ UNCHANGED <<clientVars, initialized, relay, cache, chromiumVars>>

-----------------------------------------------------------------------------
(* manager.wait_ready(30): either answer.                                  *)
WaitReady(c) ==
  /\ handler[c] = "wait"
  /\ \/ /\ handler' = [handler EXCEPT ![c] = "connect"]
        /\ UNCHANGED <<buf, current, clientSock, crSock>>
     \/ Over(c)
  /\ UNCHANGED <<clientVars, initialized, relay, cache, chromiumVars>>

(* What the daemon sends on cr_sock reaches Chromium, which owes an answer *)
(* to every request.                                                       *)
ToChromium(c, msgs) ==
  /\ arrived' = [arrived EXCEPT ![c] = @ \o msgs]
  /\ due' = [due EXCEPT ![c] = @ \cup {m \in ToSet(msgs) : m.kind \in Requests}]

(* _connect_chromium_with_retry: connected at one of the attempts, with    *)
(* the handshake's initialize sent, or not.                                *)
ConnectChromium(c) ==
  /\ handler[c] = "connect"
  /\ \/ /\ up
        /\ crSock' = [crSock EXCEPT ![c] = "open"]
        /\ handler' = [handler EXCEPT ![c] = "init"]
        /\ ToChromium(c, <<OfDaemon("initialize")>>)
        /\ UNCHANGED <<buf, current, clientSock>>
     \/ /\ ~up
        /\ Over(c)
        /\ UNCHANGED <<arrived, due>>
  /\ UNCHANGED <<clientVars, initialized, relay, cache, up, deaths, fromCr>>

(* Bug variant: the handshake does not wait for the list of tools.         *)
OnInitialized_NoWait(c) ==
  /\ handler[c] = "init"
  /\ fromCr[c] # <<>>
  /\ fromCr' = [fromCr EXCEPT ![c] = Tail(@)]
  /\ handler' = [handler EXCEPT ![c] = "save"]
  /\ ToChromium(c, <<OfDaemon("notification"), OfDaemon("list")>>)
  /\ cache' = "torn"
  /\ UNCHANGED <<clientVars, initialized, relay, up, deaths, buf, current,
                 clientSock, crSock>>

(* The answer to the handshake's initialize: on with the handshake.        *)
OnInitialized(c) ==
  /\ handler[c] = "init"
  /\ fromCr[c] # <<>>
  /\ fromCr' = [fromCr EXCEPT ![c] = Tail(@)]
  /\ \/ /\ crSock[c] = "open"
        /\ handler' = [handler EXCEPT ![c] = "tools"]
        /\ ToChromium(c, <<OfDaemon("notification"), OfDaemon("list")>>)
        /\ UNCHANGED <<buf, current, clientSock, crSock>>
     \/ /\ crSock[c] # "open"
        /\ Over(c)
        /\ UNCHANGED <<arrived, due>>
  /\ UNCHANGED <<clientVars, initialized, relay, cache, up, deaths>>

(* The list of tools: _save_tools_cache opens the file, which truncates it.*)
OnTools(c) ==
  /\ handler[c] = "tools"
  /\ fromCr[c] # <<>>
  /\ fromCr' = [fromCr EXCEPT ![c] = Tail(@)]
  /\ handler' = [handler EXCEPT ![c] = "save"]
  /\ cache' = "torn"
  /\ UNCHANGED <<clientVars, buf, current, initialized, clientSock, crSock, relay,
                 up, deaths, arrived, due>>

(* Chromium is gone before it has answered; or the file of the cache cannot*)
(* be opened, or not be written, and stays as it is then: the exception    *)
(* ends the handler.                                                       *)
HandshakeFails(c) ==
  /\ \/ handler[c] \in {"init", "tools"} /\ fromCr[c] = <<>> /\ crSock[c] = "reset"
     \/ handler[c] = "tools" /\ fromCr[c] # <<>>
     \/ handler[c] = "save"
  /\ Over(c)
  /\ UNCHANGED <<clientVars, initialized, relay, cache, chromiumVars>>

(* The cache is written.  A tools/list that came this far is answered now, *)
(* any other request goes on to Chromium.                                  *)
HandshakeDone(c) ==
  /\ handler[c] = "save"
  /\ cache' = "full"
  /\ initialized' = [initialized EXCEPT ![c] = TRUE]
  /\ \/ /\ current[c].kind = "list" /\ process[c]
        /\ Answer(c, current[c])
        /\ handler' = [handler EXCEPT ![c] = "read"]
        /\ current' = [current EXCEPT ![c] = NoMsg]
        /\ UNCHANGED <<buf, clientSock, crSock>>
     \/ /\ current[c].kind = "list" /\ ~process[c]
        /\ Over(c)
        /\ UNCHANGED toClient
     \/ /\ current[c].kind # "list"
        /\ handler' = [handler EXCEPT ![c] = "forward"]
        /\ UNCHANGED <<buf, current, clientSock, crSock, toClient>>
  /\ UNCHANGED <<unchangedClient, toDaemon, relay, chromiumVars>>

(* Bug variant: what was read beyond the request is dropped.               *)
Forward_DropsBuffer(c) ==
  /\ handler[c] = "forward"
  /\ \/ /\ crSock[c] = "open"
        /\ ToChromium(c, <<current[c]>>)
        /\ buf' = [buf EXCEPT ![c] = <<>>]
        /\ current' = [current EXCEPT ![c] = NoMsg]
        /\ handler' = [handler EXCEPT ![c] = "bridge"]
        /\ relay' = [relay EXCEPT ![c] = {"up", "down"}]
        /\ UNCHANGED <<clientSock, crSock>>
     \/ /\ crSock[c] # "open"
        /\ Over(c)
        /\ UNCHANGED <<relay, arrived, due>>
  /\ UNCHANGED <<clientVars, initialized, cache, up, deaths, fromCr>>

(* Bug variant: the rest of buf goes ahead of the request.                 *)
Forward_BufferFirst(c) ==
  /\ handler[c] = "forward"
  /\ \/ /\ crSock[c] = "open"
        /\ ToChromium(c, buf[c] \o <<current[c]>>)
        /\ buf' = [buf EXCEPT ![c] = <<>>]
        /\ current' = [current EXCEPT ![c] = NoMsg]
        /\ handler' = [handler EXCEPT ![c] = "bridge"]
        /\ relay' = [relay EXCEPT ![c] = {"up", "down"}]
        /\ UNCHANGED <<clientSock, crSock>>
     \/ /\ crSock[c] # "open"
        /\ Over(c)
        /\ UNCHANGED <<relay, arrived, due>>
  /\ UNCHANGED <<clientVars, initialized, cache, up, deaths, fromCr>>

(* The request and the rest of buf are passed on, and the relays start.    *)
Forward(c) ==
  /\ handler[c] = "forward"
  /\ \/ /\ crSock[c] = "open"
        /\ ToChromium(c, <<current[c]>> \o buf[c])
        /\ buf' = [buf EXCEPT ![c] = <<>>]
        /\ current' = [current EXCEPT ![c] = NoMsg]
        /\ handler' = [handler EXCEPT ![c] = "bridge"]
        /\ relay' = [relay EXCEPT ![c] = {"up", "down"}]
        /\ UNCHANGED <<clientSock, crSock>>
     \/ /\ crSock[c] # "open"
        /\ Over(c)
        /\ UNCHANGED <<relay, arrived, due>>
  /\ UNCHANGED <<clientVars, initialized, cache, up, deaths, fromCr>>

-----------------------------------------------------------------------------
(* Bug variant: a relay closes only the socket it was reading from.        *)
RelayOver_SourceOnly(c, way) ==
  /\ relay' = [relay EXCEPT ![c] = @ \ {way}]
  /\ IF way = "up"
       THEN clientSock' = [clientSock EXCEPT ![c] = FALSE] /\ UNCHANGED crSock
       ELSE crSock' = [crSock EXCEPT ![c] = "closed"] /\ UNCHANGED clientSock

(* The finally of _bridge: both sockets, whichever direction ended.        *)
RelayOver(c, way) ==
  /\ relay' = [relay EXCEPT ![c] = @ \ {way}]
  /\ clientSock' = [clientSock EXCEPT ![c] = FALSE]
  /\ crSock' = [crSock EXCEPT ![c] = "closed"]

(* _bridge(client_sock, cr_sock).                                          *)
RelayUp(c) ==
  /\ "up" \in relay[c]
  /\ clientSock[c]
  /\ toDaemon[c] # <<>>
  /\ toDaemon' = [toDaemon EXCEPT ![c] = Tail(@)]
  /\ \/ /\ crSock[c] = "open"
        /\ ToChromium(c, <<Head(toDaemon[c])>>)
        /\ UNCHANGED <<relay, clientSock, crSock>>
     \/ /\ crSock[c] # "open"
        /\ RelayOver(c, "up")
        /\ UNCHANGED <<arrived, due>>
  /\ UNCHANGED <<unchangedClient, toClient, handler, buf, current, initialized, cache,
                 up, deaths, fromCr>>

(* _bridge(cr_sock, client_sock).                                          *)
RelayDown(c) ==
  /\ "down" \in relay[c]
  /\ crSock[c] \in {"open", "reset"}
  /\ fromCr[c] # <<>>
  /\ fromCr' = [fromCr EXCEPT ![c] = Tail(@)]
  /\ \/ /\ clientSock[c]
        /\ Answer(c, Head(fromCr[c]))
        /\ UNCHANGED <<relay, clientSock, crSock>>
     \/ /\ ~clientSock[c] \/ ~process[c]
        /\ RelayOver(c, "down")
        /\ UNCHANGED toClient
  /\ UNCHANGED <<unchangedClient, toDaemon, handler, buf, current, initialized, cache,
                 up, deaths, arrived, due>>

(* recv returns nothing, or fails because the socket has been closed.      *)
RelayEnds(c) ==
  /\ \/ /\ "up" \in relay[c]
        /\ ~clientSock[c] \/ (toDaemon[c] = <<>> /\ ~process[c])
        /\ RelayOver(c, "up")
     \/ /\ "down" \in relay[c]
        /\ crSock[c] = "closed" \/ (crSock[c] = "reset" /\ fromCr[c] = <<>>)
        /\ RelayOver(c, "down")
  /\ UNCHANGED <<clientVars, handler, buf, current, initialized, cache, chromiumVars>>

(* Both relays are joined.                                                 *)
BridgeEnds(c) ==
  /\ handler[c] = "bridge"
  /\ relay[c] = {}
  /\ Over(c)
  /\ UNCHANGED <<clientVars, initialized, relay, cache, chromiumVars>>

-----------------------------------------------------------------------------
(* Chromium, external.                                                     *)
ChromiumAnswers(c) ==
  /\ crSock[c] = "open"
  /\ \E m \in due[c] :
       /\ due' = [due EXCEPT ![c] = @ \ {m}]
       /\ fromCr' = [fromCr EXCEPT ![c] = Append(@, m)]
  /\ UNCHANGED <<clientVars, daemonVars, up, deaths, arrived>>

ChromiumDies ==
  /\ up
  /\ deaths < MaxDeaths
  /\ up' = FALSE
  /\ deaths' = deaths + 1
  /\ crSock' = [c \in Clients |-> IF crSock[c] = "open" THEN "reset" ELSE crSock[c]]
  /\ due' = [c \in Clients |-> {}]
  /\ UNCHANGED <<clientVars, handler, buf, current, initialized, clientSock, relay,
                 cache, arrived, fromCr>>

ChromiumComes ==
  /\ ~up
  /\ up' = TRUE
  /\ UNCHANGED <<clientVars, daemonVars, deaths, arrived, due, fromCr>>

(* The handlers of the daemon's other clients write the cache too.         *)
OthersSave ==
  /\ cache' \in {"torn", "full"} \ {cache}
  /\ UNCHANGED <<clientVars, handler, buf, current, initialized, clientSock, crSock,
                 relay, chromiumVars>>

Handles(c) ==
  \/ AnswerItself(c)
  \/ Absorb(c)
  \/ NeedChromium(c)
  \/ GiveUp(c)
  \/ WaitReady(c)
  \/ ConnectChromium(c)
  \/ OnInitialized(c)
  \/ OnTools(c)
  \/ HandshakeFails(c)
  \/ HandshakeDone(c)
  \/ Forward(c)
  \/ BridgeEnds(c)

Bridges(c) ==
  /\ ClientStep(c, clientSock[c])
  /\ UNCHANGED <<daemonVars, chromiumVars>>

Next ==
  \/ \E c \in Clients :
       \/ Handles(c)
       \/ RelayUp(c)
       \/ RelayDown(c)
       \/ RelayEnds(c)
       \/ ChromiumAnswers(c)
       \/ Bridges(c)
       \/ /\ WriteLine(c) \/ WriteRest(c) \/ CloseStdin(c) \/ ProcessEnds(c)
          /\ UNCHANGED <<daemonVars, chromiumVars>>
  \/ OthersSave
  \/ ChromiumDies
  \/ ChromiumComes

(* Threads and processes run on, Chromium answers, and a recv that can     *)
(* return something does.                                                  *)
Fairness ==
  \A c \in Clients :
    /\ WF_vars(Handles(c))
    /\ WF_vars(RelayUp(c))
    /\ WF_vars(RelayDown(c))
    /\ WF_vars(RelayEnds(c))
    /\ WF_vars(ChromiumAnswers(c))
    /\ WF_vars(Bridges(c))

Spec == Init /\ [][Next]_vars /\ Fairness

-----------------------------------------------------------------------------
Handshake == <<OfDaemon("initialize"), OfDaemon("notification"), OfDaemon("list")>>

(* Chromium hears the daemon's handshake first, and from then on exactly   *)
(* what the client's process sent, from some message on: nothing that was  *)
(* in buf when the relays took over is lost, doubled or overtaken.         *)
HandshakeThenStream ==
  \A c \in Clients :
    LET n == Len(arrived[c]) IN
    IF n <= 3
      THEN arrived[c] = SubSeq(Handshake, 1, n)
      ELSE /\ SubSeq(arrived[c], 1, 3) = Handshake
           /\ \E k \in 0 .. Len(sent[c]) - (n - 3) :
                SubSeq(arrived[c], 4, n) = SubSeq(sent[c], k + 1, k + n - 3)

(* What comes back is an answer to a request of the client's own, at most  *)
(* once each, whether the daemon or Chromium gave it: the answers to the   *)
(* daemon's handshake stay with the daemon.                                *)
OwnAnswersOnce ==
  \A c \in Clients :
    LET back == got[c] \o toClient[c] IN
    /\ IsInjective(back)
    /\ ToSet(back) \subseteq {m \in ToSet(sent[c]) : m.kind \in Requests}

Asks(msgs, i) == \E m \in ToSet(msgs) : m.id = i /\ m.kind \in Requests

(* Every request is answered, or the client is told by the end of the      *)
(* connection: no stage of the handler forgets the request at hand, not    *)
(* when Chromium dies under it.                                            *)
AnsweredOrClosed ==
  \A c \in Clients : \A i \in 1 .. MaxLines :
    Asks(sent[c], i) ~> (Asks(got[c], i) \/ ~process[c])

(* When the client is gone, the connection to Chromium, and the session    *)
(* Chromium keeps for it, do not stay behind.                              *)
GoneReleasesChromium ==
  \A c \in Clients : ~process[c] ~> (crSock[c] \in {"none", "closed"} /\ handler[c] = "over")
=============================================================================

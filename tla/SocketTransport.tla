--------------------------- MODULE SocketTransport ---------------------------
(***************************************************************************)
(* McpTransportSocket (src/src/mcp_transport_socket.cc): the Unix socket   *)
(* server of the MCP server.  The UI thread accepts clients, sends to them *)
(* and runs the tasks that the reader threads post to it; every client has *)
(* a reader thread in ReadLoop(), which blocks in read().                  *)
(*                                                                         *)
(* Send() makes a client's socket non-blocking while it writes.  The flag  *)
(* belongs to the socket, so that a read() which the client's reader enters*)
(* meanwhile does not block either, and reports EAGAIN as an error.        *)
(*                                                                         *)
(* Stop() is left out: the server object is never destroyed (NoDestructor) *)
(* and nothing in the program calls Shutdown().                            *)
(***************************************************************************)
EXTENDS Naturals, Sequences, FiniteSets

CONSTANTS Clients,     \* client ids; next_client_id_ hands each out once
          MaxFrames,   \* bound: frames a peer sends
          Capacity     \* messages that the buffer towards a peer can hold

ASSUME TransportAssumption == MaxFrames \in Nat /\ Capacity \in Nat \ {0}

VARIABLES
  peer,       \* external: the process at the other end of each connection
  inbox,      \* external: frames on their way to the server
  sent,       \* external: frames each peer has sent
  outbox,     \* external: messages in the buffer towards each peer
  reader,     \* reader thread: "loop" is about to call read(), "blocked" in it
  nonblock,   \* O_NONBLOCK is set on the socket
  clients_,   \* clients_: the registered clients
  ui,         \* what the UI thread is in the middle of
  cur,        \* the client it is at
  todo,       \* clients Send() still has to write to
  failed,     \* clients Send() could not write to
  tasks,      \* tasks posted to the UI thread
  reported    \* disconnections reported to the server (disconnect_cb_)

vars == <<peer, inbox, sent, outbox, reader, nonblock, clients_, ui, cur, todo,
          failed, tasks, reported>>
net == <<peer, inbox, sent, outbox>>
uithread == <<ui, cur, todo, failed>>

(* A frame is a message, is passed over (no Content-Length), or makes the  *)
(* reader give the client up (a length of zero or beyond kMaxMessageSize). *)
Frames == {"message", "skipped", "refused"}
Tasks == [kind : {"message", "disconnect"}, client : Clients]

TypeOK ==
  /\ peer \in [Clients -> {"new", "connecting", "open", "closed"}]
  /\ inbox \in [Clients -> Seq(Frames)]
  /\ sent \in [Clients -> 0 .. MaxFrames]
  /\ outbox \in [Clients -> 0 .. Capacity]
  /\ reader \in [Clients -> {"none", "loop", "blocked", "done"}]
  /\ nonblock \in [Clients -> BOOLEAN]
  /\ clients_ \subseteq Clients
  /\ ui \in {"idle", "register", "send", "write", "join"}
  /\ cur \in Clients
  /\ todo \subseteq clients_
  /\ failed \subseteq Clients
  /\ tasks \in Seq(Tasks)
  /\ reported \in [Clients -> 0 .. 1]

Init ==
  /\ peer = [c \in Clients |-> "new"]
  /\ inbox = [c \in Clients |-> <<>>]
  /\ sent = [c \in Clients |-> 0]
  /\ outbox = [c \in Clients |-> 0]
  /\ reader = [c \in Clients |-> "none"]
  /\ nonblock = [c \in Clients |-> FALSE]
  /\ clients_ = {}
  /\ ui = "idle"
  /\ cur \in Clients
  /\ todo = {}
  /\ failed = {}
  /\ tasks = <<>>
  /\ reported = [c \in Clients |-> 0]

-----------------------------------------------------------------------------
(* The peers.                                                              *)

PeerConnects(c) ==
  /\ peer[c] = "new"
  /\ peer' = [peer EXCEPT ![c] = "connecting"]
  /\ UNCHANGED <<inbox, sent, outbox, reader, nonblock, clients_, uithread,
                 tasks, reported>>

PeerSends(c) ==
  /\ peer[c] = "open"
  /\ sent[c] < MaxFrames
  /\ sent' = [sent EXCEPT ![c] = @ + 1]
  /\ \E f \in Frames : inbox' = [inbox EXCEPT ![c] = Append(@, f)]
  /\ UNCHANGED <<peer, outbox, reader, nonblock, clients_, uithread, tasks,
                 reported>>

PeerReads(c) ==
  /\ peer[c] = "open"
  /\ outbox[c] > 0
  /\ outbox' = [outbox EXCEPT ![c] = @ - 1]
  /\ UNCHANGED <<peer, inbox, sent, reader, nonblock, clients_, uithread,
                 tasks, reported>>

PeerCloses(c) ==
  /\ peer[c] = "open"
  /\ peer' = [peer EXCEPT ![c] = "closed"]
  /\ UNCHANGED <<inbox, sent, outbox, reader, nonblock, clients_, uithread,
                 tasks, reported>>

-----------------------------------------------------------------------------
(* The reader of client c.                                                 *)

Post(kind, c) == tasks' = Append(tasks, [kind |-> kind, client |-> c])

(* Bug variant: the return after HandleClientDisconnect is missing.        *)
HandleClientDisconnect_NoReturn(c) ==
  /\ Post("disconnect", c)
  /\ reader' = [reader EXCEPT ![c] = "loop"]

(* HandleClientDisconnect, after which ReadLoop returns.                   *)
HandleClientDisconnect(c) ==
  /\ Post("disconnect", c)
  /\ reader' = [reader EXCEPT ![c] = "done"]

(* Bug variant: a frame with a bad length ends the loop without a word.    *)
ReadFrame_SilentRefusal(c) ==
  /\ reader[c] \in {"loop", "blocked"}
  /\ inbox[c] # <<>>
  /\ inbox' = [inbox EXCEPT ![c] = Tail(@)]
  /\ CASE Head(inbox[c]) = "message" ->
            Post("message", c) /\ reader' = [reader EXCEPT ![c] = "loop"]
       [] Head(inbox[c]) = "skipped" ->
            tasks' = tasks /\ reader' = [reader EXCEPT ![c] = "loop"]
       [] Head(inbox[c]) = "refused" ->
            tasks' = tasks /\ reader' = [reader EXCEPT ![c] = "done"]
  /\ UNCHANGED <<peer, sent, outbox, nonblock, clients_, uithread, reported>>

(* A frame is there, and is read to its end.                               *)
ReadFrame(c) ==
  /\ reader[c] \in {"loop", "blocked"}
  /\ inbox[c] # <<>>
  /\ inbox' = [inbox EXCEPT ![c] = Tail(@)]
  /\ \/ /\ Head(inbox[c]) = "message"
        /\ Post("message", c)
        /\ reader' = [reader EXCEPT ![c] = "loop"]
     \/ /\ Head(inbox[c]) = "skipped"
        /\ tasks' = tasks
        /\ reader' = [reader EXCEPT ![c] = "loop"]
     \/ /\ Head(inbox[c]) = "refused"
        /\ HandleClientDisconnect(c)
  /\ UNCHANGED <<peer, sent, outbox, nonblock, clients_, uithread, reported>>

(* Nothing is there, or not the whole of a frame: read() blocks ...        *)
ReadBlocks(c) ==
  /\ reader[c] = "loop"
  /\ inbox[c] = <<>>
  /\ peer[c] # "closed"
  /\ ~nonblock[c]
  /\ reader' = [reader EXCEPT ![c] = "blocked"]
  /\ UNCHANGED <<net, nonblock, clients_, uithread, tasks, reported>>

(* ... or fails with EAGAIN, which ReadLine and ReadExactBytes take for    *)
(* the end of the connection.                                              *)
ReadWouldBlock(c) ==
  /\ reader[c] = "loop"
  /\ inbox[c] = <<>>
  /\ peer[c] # "closed"
  /\ nonblock[c]
  /\ HandleClientDisconnect(c)
  /\ UNCHANGED <<net, nonblock, clients_, uithread, reported>>

ReadEndOfFile(c) ==
  /\ reader[c] \in {"loop", "blocked"}
  /\ inbox[c] = <<>>
  /\ peer[c] = "closed"
  /\ HandleClientDisconnect(c)
  /\ UNCHANGED <<net, nonblock, clients_, uithread, reported>>

-----------------------------------------------------------------------------
(* The UI thread.                                                          *)

(* OnAcceptReady: the reader is started, then the client is registered.    *)
(* When the thread cannot be started the socket is closed.                 *)
OnAcceptReady(c) ==
  /\ ui = "idle"
  /\ peer[c] = "connecting"
  /\ \/ /\ peer' = [peer EXCEPT ![c] = "open"]
        /\ reader' = [reader EXCEPT ![c] = "loop"]
        /\ ui' = "register"
        /\ cur' = c
     \/ /\ peer' = [peer EXCEPT ![c] = "closed"]
        /\ UNCHANGED <<reader, ui, cur>>
  /\ UNCHANGED <<inbox, sent, outbox, nonblock, clients_, todo, failed, tasks,
                 reported>>

Register ==
  /\ ui = "register"
  /\ clients_' = clients_ \cup {cur}
  /\ ui' = "idle"
  /\ UNCHANGED <<net, reader, nonblock, cur, todo, failed, tasks, reported>>

(* Send() to one client or to all of them.  (Without a registered target   *)
(* it does nothing.)                                                       *)
Send(targets) ==
  /\ ui = "idle"
  /\ targets # {}
  /\ ui' = "send"
  /\ todo' = targets
  /\ UNCHANGED <<net, reader, nonblock, clients_, cur, failed, tasks, reported>>

SendTo(c) ==
  /\ ui = "send"
  /\ c \in todo
  /\ todo' = todo \ {c}
  /\ cur' = c
  /\ nonblock' = [nonblock EXCEPT ![c] = TRUE]
  /\ ui' = "write"
  /\ UNCHANGED <<net, reader, clients_, failed, tasks, reported>>

(* write() succeeds, or fails for good; while the buffer is full it gives  *)
(* EAGAIN and is called again at once.                                     *)
WriteSucceeds ==
  /\ ui = "write"
  /\ peer[cur] # "closed"
  /\ outbox[cur] < Capacity
  /\ outbox' = [outbox EXCEPT ![cur] = @ + 1]
  /\ nonblock' = [nonblock EXCEPT ![cur] = FALSE]
  /\ ui' = "send"
  /\ UNCHANGED <<peer, inbox, sent, reader, clients_, cur, todo, failed, tasks,
                 reported>>

WriteFails ==
  /\ ui = "write"
  /\ peer[cur] = "closed"
  /\ failed' = failed \cup {cur}
  /\ nonblock' = [nonblock EXCEPT ![cur] = FALSE]
  /\ ui' = "send"
  /\ UNCHANGED <<net, reader, clients_, cur, todo, tasks, reported>>

SendEnds ==
  /\ ui = "send"
  /\ todo = {}
  /\ clients_' = clients_ \ failed
  /\ ui' = "join"
  /\ UNCHANGED <<net, reader, nonblock, cur, todo, failed, tasks, reported>>

(* Bug variant: the server is told at once of the clients that are removed.*)
Join_Tells ==
  /\ ui = "join"
  /\ \A c \in failed : reader[c] = "done"
  /\ failed' = {}
  /\ ui' = "idle"
  /\ reported' = [c \in Clients |-> IF c \in failed THEN 1 ELSE reported[c]]
  /\ UNCHANGED <<net, reader, nonblock, clients_, cur, todo, tasks>>

(* The ClientInfo of the failed clients are destroyed, the lock released:  *)
(* Thread::Stop() waits for ReadLoop to return.  The server is not told    *)
(* here: that is left to the task which the reader posts.                  *)
Join ==
  /\ ui = "join"
  /\ \A c \in failed : reader[c] = "done"
  /\ failed' = {}
  /\ ui' = "idle"
  /\ UNCHANGED <<net, reader, nonblock, clients_, cur, todo, tasks, reported>>

(* message_cb_: the server handles the message.                            *)
RunMessage ==
  /\ ui = "idle"
  /\ tasks # <<>>
  /\ Head(tasks).kind = "message"
  /\ tasks' = Tail(tasks)
  /\ UNCHANGED <<net, reader, nonblock, clients_, uithread, reported>>

(* Bug variant: a client that Send() has already removed is not reported.  *)
RunDisconnect_OnlyIfFound ==
  /\ ui = "idle"
  /\ tasks # <<>>
  /\ Head(tasks).kind = "disconnect"
  /\ tasks' = Tail(tasks)
  /\ clients_' = clients_ \ {Head(tasks).client}
  /\ reported' = IF Head(tasks).client \in clients_
                   THEN [reported EXCEPT ![Head(tasks).client] = @ + 1]
                   ELSE reported
  /\ UNCHANGED <<net, reader, nonblock, uithread>>

(* The task of HandleClientDisconnect.  Destroying the ClientInfo joins    *)
(* the reader, then the server is told.                                    *)
RunDisconnect ==
  /\ ui = "idle"
  /\ tasks # <<>>
  /\ Head(tasks).kind = "disconnect"
  /\ LET c == Head(tasks).client
     IN /\ c \in clients_ => reader[c] = "done"
        /\ clients_' = clients_ \ {c}
        /\ reported' = [reported EXCEPT ![c] = @ + 1]
  /\ tasks' = Tail(tasks)
  /\ UNCHANGED <<net, reader, nonblock, uithread>>

-----------------------------------------------------------------------------
PeerStep(c) ==
  PeerConnects(c) \/ PeerSends(c) \/ PeerReads(c) \/ PeerCloses(c)

ReaderStep(c) ==
  ReadFrame(c) \/ ReadBlocks(c) \/ ReadWouldBlock(c) \/ ReadEndOfFile(c)

(* The rest of what the UI thread has begun.                               *)
UIContinues ==
  \/ Register
  \/ \E c \in Clients : SendTo(c)
  \/ WriteSucceeds
  \/ WriteFails
  \/ SendEnds
  \/ Join

RunTask == RunMessage \/ RunDisconnect

Next ==
  \/ \E c \in Clients : PeerStep(c)
  \/ \E c \in Clients : ReaderStep(c)
  \/ \E c \in Clients : OnAcceptReady(c)
  \/ Send(clients_)
  \/ \E c \in clients_ : Send({c})
  \/ UIContinues
  \/ RunTask

(* Threads run.  The UI thread's task queue is fair: a posted task is run  *)
(* although messages keep being sent in between.                           *)
Fairness ==
  /\ \A c \in Clients : WF_vars(ReaderStep(c))
  /\ WF_vars(UIContinues)
  /\ SF_vars(RunTask)

Spec == Init /\ [][Next]_vars /\ Fairness

(* In addition, every peer reads what it is sent.                          *)
PeersRead == \A c \in Clients : WF_vars(PeerReads(c))

ReadingSpec == Spec /\ PeersRead

-----------------------------------------------------------------------------
Posted(kind, c) == {i \in 1 .. Len(tasks) : tasks[i] = [kind |-> kind, client |-> c]}

(* The server hears of a client's end once, and of nothing from this client*)
(* afterwards: McpServer would answer a late message for a client whose    *)
(* state it has erased.                                                    *)
DisconnectIsLast ==
  \A c \in Clients :
    /\ reported[c] > 0 => Posted("message", c) \cup Posted("disconnect", c) = {}
    /\ \A i \in Posted("disconnect", c) :
         Posted("message", c) \cup Posted("disconnect", c) \subseteq 1 .. i

(* A registered client has a reader, or its end is about to be reported:   *)
(* no client lingers in clients_ whom nobody reads from, and none that the *)
(* server was told is gone.  The UI thread writes to registered clients    *)
(* only, and leaves their sockets blocking, whatever way a write ended.    *)
RegisteredAreServed ==
  /\ \A c \in clients_ :
       reader[c] \in {"loop", "blocked"} \/ Posted("disconnect", c) # {}
  /\ ui = "write" => cur \in clients_
  /\ \A c \in Clients : nonblock[c] => ui = "write" /\ cur = c

(* Every peer that leaves is reported to the server, also when a failed    *)
(* Send() removed the client first.  This needs peers that read: the UI    *)
(* thread runs no task while it waits for room in another peer's buffer.   *)
LeavingIsReported ==
  \A c \in Clients :
    (peer[c] = "closed" /\ reader[c] # "none") ~> (reported[c] > 0)

-----------------------------------------------------------------------------
(* What a reader and the task queue together are to McpServer: a stream of *)
(* messages for each client, and its end.                                  *)
Stream(c) == CASE reported[c] > 0 -> "told"
               [] reported[c] = 0 /\ reader[c] = "done" -> "ended"
               [] reported[c] = 0 /\ reader[c] = "none" -> "absent"
               [] OTHER -> "present"

Arriving(c) == Cardinality(Posted("message", c))

Abstract == INSTANCE ClientStreams WITH
  stream <- [c \in Clients |-> Stream(c)],
  arriving <- [c \in Clients |-> Arriving(c)]

(* Whatever failed writes and tasks do to clients_, each client is a stream*)
(* to the server: connected once, its messages, then its end, once.        *)
ImplementsClientStreams == Abstract!Spec

-----------------------------------------------------------------------------
(* Claims of comments in Send() that fail.                                 *)

(* "temporarily switch to non-blocking, so that the UI thread does not     *)
(* block"                                                                  *)
SendDoesNotBlock == (ui = "write") ~> (ui # "write")

(* "back to blocking mode (for the ReadLoop of the IO thread)": a client   *)
(* that is connected and sends proper frames is not disconnected.          *)
BlockedReadsStay ==
  [][\A c \in Clients :
       (reader[c] = "loop" /\ reader'[c] = "done") =>
         (peer[c] = "closed" \/ inbox[c] # <<>>)]_vars
=============================================================================

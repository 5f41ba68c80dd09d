----------------------------- MODULE StdioClient -----------------------------
(***************************************************************************)
(* src/scripts/chromium-mcp-client.py: one process per MCP client, between *)
(* the client's pipes (JSON, one message per line) and a stream socket     *)
(* (Content-Length frames).  A single thread selects on stdin and socket.  *)
(*                                                                         *)
(* A message is a record; a line reaches stdin whole or in two pieces, and *)
(* a frame is a unit of the socket's stream.  The thread handles one piece *)
(* or frame per step: what one read() returns together is handled in the   *)
(* same order.                                                             *)
(***************************************************************************)
EXTENDS Naturals, Sequences

CONSTANTS Clients,    \* the processes
          MaxLines,   \* bound: lines the MCP client writes to each
          Split       \* bound: those of them that may come in two pieces

ASSUME LinesAssumption == MaxLines \in Nat /\ Split \subseteq 1 .. MaxLines

Kinds == {"initialize", "notification", "list", "call"}
Requests == {"initialize", "list", "call"}    \* what is answered

FromClient == [from : {"client"}, id : 1 .. MaxLines, kind : Kinds \cup {"broken"}]

NoLine == [from |-> "client", id |-> 0, kind |-> "broken"]

VARIABLES
  peer,      \* the MCP client: writing, or stdin closed
  stdin,     \* pieces in the pipe: [msg, part]
  written,   \* lines begun so far
  held,      \* stdin_buf: the head of a line, or NoLine
  process,   \* is the bridge process alive
  sent,      \* frames sent to the socket, all of them
  toDaemon,  \* frames in the socket that the daemon has not read
  toClient,  \* answers in the socket that the process has not read
  got        \* answers written to stdout

clientVars == <<peer, stdin, written, held, process, sent, toDaemon, toClient, got>>

ClientInit ==
  /\ peer = [c \in Clients |-> "writing"]
  /\ stdin = [c \in Clients |-> <<>>]
  /\ written = [c \in Clients |-> 0]
  /\ held = [c \in Clients |-> NoLine]
  /\ process = [c \in Clients |-> TRUE]
  /\ sent = [c \in Clients |-> <<>>]
  /\ toDaemon = [c \in Clients |-> <<>>]
  /\ toClient = [c \in Clients |-> <<>>]
  /\ got = [c \in Clients |-> <<>>]

-----------------------------------------------------------------------------
(* The MCP client, external: it writes lines, at times in two goes, and    *)
(* may close the pipe, or die in the middle of a line.                     *)
WriteLine(c) ==
  /\ peer[c] = "writing"
  /\ written[c] < MaxLines
  /\ written' = [written EXCEPT ![c] = @ + 1]
  /\ \E k \in Kinds, part \in {"whole", "head"} :
       LET msg == [from |-> "client", id |-> written[c] + 1, kind |-> k] IN
       /\ part = "head" => msg.id \in Split
       /\ stdin' = [stdin EXCEPT ![c] = Append(@, [msg |-> msg, part |-> part])]
       /\ peer' = [peer EXCEPT ![c] = IF part = "head" THEN "halfway" ELSE @]
  /\ UNCHANGED <<held, process, sent, toDaemon, toClient, got>>

WriteRest(c) ==
  /\ peer[c] = "halfway"
  /\ stdin' = [stdin EXCEPT ![c] = Append(@,
       [msg |-> [from |-> "client", id |-> written[c], kind |-> "broken"],
        part |-> "tail"])]
  /\ peer' = [peer EXCEPT ![c] = "writing"]
  /\ UNCHANGED <<written, held, process, sent, toDaemon, toClient, got>>

CloseStdin(c) ==
  /\ peer[c] \in {"writing", "halfway"}
  /\ peer' = [peer EXCEPT ![c] = "closed"]
  /\ UNCHANGED <<stdin, written, held, process, sent, toDaemon, toClient, got>>

-----------------------------------------------------------------------------
(* sock.sendall of one frame; the socket is gone when the daemon closed it.*)
SendFrame(c, msg, open) ==
  IF open
    THEN /\ sent' = [sent EXCEPT ![c] = Append(@, msg)]
         /\ toDaemon' = [toDaemon EXCEPT ![c] = Append(@, msg)]
         /\ UNCHANGED process
    ELSE /\ process' = [process EXCEPT ![c] = FALSE]
         /\ UNCHANGED <<sent, toDaemon>>

(* stdin is readable: a line that is complete goes out as a frame, a piece *)
(* of one waits in stdin_buf.                                              *)
OnStdin(c, open) ==
  /\ process[c]
  /\ stdin[c] # <<>>
  /\ stdin' = [stdin EXCEPT ![c] = Tail(@)]
  /\ LET piece == Head(stdin[c]) IN
     \/ /\ piece.part = "head"
        /\ held' = [held EXCEPT ![c] = piece.msg]
        /\ UNCHANGED <<process, sent, toDaemon>>
     \/ /\ piece.part # "head"
        /\ held' = [held EXCEPT ![c] = NoLine]
        /\ SendFrame(c, IF held[c] = NoLine THEN piece.msg ELSE held[c], open)
  /\ UNCHANGED <<peer, written, toClient, got>>

(* select() timed out with a piece of a line in stdin_buf: it goes out as  *)
(* if it were a whole message.                                             *)
OnSelectTimeout(c, open) ==
  /\ process[c]
  /\ peer[c] # "closed"
  /\ stdin[c] = <<>>
  /\ toClient[c] = <<>>
  /\ held[c] # NoLine
  /\ held' = [held EXCEPT ![c] = NoLine]
  /\ SendFrame(c, [held[c] EXCEPT !.kind = "broken"], open)
  /\ UNCHANGED <<peer, stdin, written, toClient, got>>

(* The socket is readable: the body of a frame goes to stdout as a line.   *)
OnSocket(c) ==
  /\ process[c]
  /\ toClient[c] # <<>>
  /\ got' = [got EXCEPT ![c] = Append(@, Head(toClient[c]))]
  /\ toClient' = [toClient EXCEPT ![c] = Tail(@)]
  /\ UNCHANGED <<peer, stdin, written, held, process, sent, toDaemon>>

(* The process is over, at any time: a signal came, or stdout could not be *)
(* written.                                                                *)
ProcessEnds(c) ==
  /\ process[c]
  /\ process' = [process EXCEPT ![c] = FALSE]
  /\ UNCHANGED <<peer, stdin, written, held, sent, toDaemon, toClient, got>>

(* proxy_loop returns: end of file on either side.                         *)
Returns(c, open) ==
  /\ \/ peer[c] = "closed" /\ stdin[c] = <<>>
     \/ ~open /\ toClient[c] = <<>>
  /\ ProcessEnds(c)

ClientStep(c, open) ==
  \/ OnStdin(c, open)
  \/ OnSelectTimeout(c, open)
  \/ OnSocket(c)
  \/ Returns(c, open)
=============================================================================

---------------------------- MODULE ClientStreams ----------------------------
(***************************************************************************)
(* What a transport promises to McpServer, which keeps the state of every  *)
(* client from its first message until the transport reports its end (see  *)
(* src/src/mcp_transport.h): messages of a client that is connected, all   *)
(* that were read before its end and none after it, and then the end, once.*)
(* SocketTransport implements this specification.                          *)
(***************************************************************************)
EXTENDS Naturals

CONSTANT Clients

VARIABLES stream,    \* "ended": nothing more is read from the client
          arriving   \* messages read that the server has not handled

vars == <<stream, arriving>>

TypeOK == /\ stream \in [Clients -> {"absent", "present", "ended", "told"}]
          /\ arriving \in [Clients -> Nat]

Init == /\ stream = [c \in Clients |-> "absent"]
        /\ arriving = [c \in Clients |-> 0]

Connect(c) == /\ stream[c] = "absent"
              /\ stream' = [stream EXCEPT ![c] = "present"]
              /\ UNCHANGED arriving

Receive(c) == /\ stream[c] = "present"
              /\ arriving' = [arriving EXCEPT ![c] = @ + 1]
              /\ UNCHANGED stream

End(c) == /\ stream[c] = "present"
          /\ stream' = [stream EXCEPT ![c] = "ended"]
          /\ UNCHANGED arriving

(* The server handles a message, also one of a client that has ended ...   *)
Handle(c) == /\ arriving[c] > 0
             /\ arriving' = [arriving EXCEPT ![c] = @ - 1]
             /\ UNCHANGED stream

(* ... but is told of the end when there are none left.                    *)
Tell(c) == /\ stream[c] = "ended"
           /\ arriving[c] = 0
           /\ stream' = [stream EXCEPT ![c] = "told"]
           /\ UNCHANGED arriving

Next == \E c \in Clients :
          Connect(c) \/ Receive(c) \/ End(c) \/ Handle(c) \/ Tell(c)

Spec == Init /\ [][Next]_vars

(* The server hears nothing of a client that it believes gone.             *)
ToldIsOver == \A c \in Clients : stream[c] = "told" => arriving[c] = 0
=============================================================================

------------------------------ MODULE CdpCalls ------------------------------
(***************************************************************************)
(* What a CDP session promises to the tool calls that use it: a call that  *)
(* was accepted is answered exactly once, with the renderer's answer while *)
(* the session is open, and with an error at the latest when the session   *)
(* is closed.  McpSession implements this specification.                   *)
(***************************************************************************)
CONSTANT Calls

VARIABLES open,      \* commands can reach the renderer
          waiting,   \* calls that wait for an answer
          answered   \* calls whose result callback has run

vars == <<open, waiting, answered>>

TypeOK == /\ open \in BOOLEAN
          /\ waiting \subseteq Calls
          /\ answered \subseteq Calls

Init == /\ open = FALSE
        /\ waiting = {}
        /\ answered = {}

Open == /\ ~open /\ waiting = {}
        /\ open' = TRUE
        /\ UNCHANGED <<waiting, answered>>

(* A closed session accepts nothing more, and answers what it accepted.    *)
Close == /\ open
         /\ open' = FALSE
         /\ UNCHANGED <<waiting, answered>>

Accept(c) == /\ open
             /\ c \notin waiting \cup answered
             /\ waiting' = waiting \cup {c}
             /\ UNCHANGED <<open, answered>>

(* A call that finds the session closed is answered on the spot.           *)
Refuse(c) == /\ ~open
             /\ c \notin waiting \cup answered
             /\ answered' = answered \cup {c}
             /\ UNCHANGED <<open, waiting>>

Answer(c) == /\ c \in waiting
             /\ waiting' = waiting \ {c}
             /\ answered' = answered \cup {c}
             /\ UNCHANGED open

Next == \/ Open
        \/ Close
        \/ \E c \in Calls : Accept(c) \/ Refuse(c) \/ Answer(c)

Spec == Init /\ [][Next]_vars

(* No call is both waiting and answered: its callback is spent.            *)
AnsweredOnce == waiting \cap answered = {}
=============================================================================

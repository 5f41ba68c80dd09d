------------------------ MODULE SocketTransportProofs ------------------------
(***************************************************************************)
(* Proofs about SocketTransport for any set of clients, any number of      *)
(* frames and any buffer.  The order of the posted tasks is kept because a *)
(* reader that has posted a disconnection has ended (EndedIsDone), and     *)
(* every connection has one reader (NoReaderYet): the inductive invariant  *)
(* ties the task queue to the readers, and what the UI thread has in hand  *)
(* to the registered clients (UIInHand).                                   *)
(***************************************************************************)
EXTENDS SocketTransport, SequenceTheorems, FiniteSetTheorems, TLAPS

Queue == 1 .. Len(tasks)

EndPosted(c) == \E i \in Queue : tasks[i].kind = "disconnect" /\ tasks[i].client = c

EndIsLast ==
  /\ \A i, j \in Queue :
       (tasks[i].kind = "disconnect" /\ tasks[j].client = tasks[i].client) => j <= i
  /\ \A i \in Queue : reported[tasks[i].client] = 0

EndedIsDone ==
  /\ \A i \in Queue : tasks[i].kind = "disconnect" => reader[tasks[i].client] = "done"
  /\ \A c \in Clients : reported[c] > 0 => reader[c] = "done"

NoReaderYet ==
  \A c \in Clients : peer[c] \in {"new", "connecting"} => reader[c] = "none"

(* The client that is being registered counts as registered.               *)
Served ==
  \A c \in Clients : (c \in clients_ \/ (ui = "register" /\ c = cur)) =>
    reader[c] \in {"loop", "blocked"} \/ EndPosted(c)

UIInHand ==
  /\ ui = "write" => cur \in clients_
  /\ \A c \in Clients : nonblock[c] => ui = "write" /\ cur = c
  /\ ui \notin {"send", "write"} => todo = {}

IInv == /\ TypeOK
        /\ EndIsLast
        /\ EndedIsDone
        /\ NoReaderYet
        /\ Served
        /\ UIInHand

USE TransportAssumption

-----------------------------------------------------------------------------
(* The queue of tasks.                                                     *)

LEMMA QueueType ==
  ASSUME TypeOK
  PROVE  /\ Len(tasks) \in Nat
         /\ \A i \in Queue : /\ tasks[i] \in Tasks
                             /\ tasks[i].kind \in {"message", "disconnect"}
                             /\ tasks[i].client \in Clients
<1>1. tasks \in Seq(Tasks)
  BY DEF TypeOK
<1>2. \A i \in Queue : tasks[i] \in Tasks
  BY <1>1, ElementOfSeq DEF Queue
<1> QED BY <1>1, <1>2, LenProperties DEF Tasks

LEMMA PostedFacts ==
  ASSUME TypeOK, NEW kind \in {"message", "disconnect"}, NEW c \in Clients,
         Post(kind, c)
  PROVE  /\ tasks' \in Seq(Tasks)
         /\ Len(tasks') = Len(tasks) + 1
         /\ \A i \in Queue : tasks'[i] = tasks[i]
         /\ tasks'[Len(tasks) + 1].kind = kind
         /\ tasks'[Len(tasks) + 1].client = c
<1> DEFINE e == [kind |-> kind, client |-> c]
<1>1. e \in Tasks /\ e.kind = kind /\ e.client = c
  BY DEF Tasks
<1>2. tasks \in Seq(Tasks) /\ tasks' = Append(tasks, e)
  BY DEF TypeOK, Post
<1> HIDE DEF e
<1> QED BY <1>1, <1>2, AppendProperties DEF Queue

LEMMA RunFacts ==
  ASSUME TypeOK, tasks # <<>>, tasks' = Tail(tasks)
  PROVE  /\ tasks' \in Seq(Tasks)
         /\ Len(tasks) \in Nat \ {0}
         /\ Len(tasks') = Len(tasks) - 1
         /\ Head(tasks) = tasks[1]
         /\ \A i \in Queue' : tasks'[i] = tasks[i + 1]
<1>1. tasks \in Seq(Tasks)
  BY DEF TypeOK
<1> QED BY <1>1, HeadTailProperties, EmptySeq DEF Queue

(* What the runs check, in the words of the queue.                         *)
LEMMA QueueProperties ==
  ASSUME IInv
  PROVE  DisconnectIsLast /\ RegisteredAreServed
<1>1. \A c \in Clients : /\ Posted("disconnect", c) =
                              {i \in Queue : tasks[i].kind = "disconnect" /\ tasks[i].client = c}
                         /\ Posted("message", c) \cup Posted("disconnect", c) =
                              {i \in Queue : tasks[i].client = c}
  <2>1. ASSUME NEW c \in Clients, NEW i \in Queue
        PROVE  /\ tasks[i] = [kind |-> "disconnect", client |-> c] <=>
                    tasks[i].kind = "disconnect" /\ tasks[i].client = c
               /\ tasks[i] = [kind |-> "message", client |-> c] <=>
                    tasks[i].kind = "message" /\ tasks[i].client = c
               /\ tasks[i].kind \in {"message", "disconnect"}
    BY QueueType DEF IInv, Tasks
  <2>2. ASSUME NEW c \in Clients
        PROVE  Posted("disconnect", c) =
                 {i \in Queue : tasks[i].kind = "disconnect" /\ tasks[i].client = c}
    <3>1. Posted("disconnect", c) =
            {i \in Queue : tasks[i] = [kind |-> "disconnect", client |-> c]}
      BY DEF Posted, Queue
    <3>2. \A i \in Queue : tasks[i] = [kind |-> "disconnect", client |-> c] <=>
                           tasks[i].kind = "disconnect" /\ tasks[i].client = c
      BY <2>1
    <3> QED BY <3>1, <3>2
  <2>3. ASSUME NEW c \in Clients
        PROVE  Posted("message", c) =
                 {i \in Queue : tasks[i].kind = "message" /\ tasks[i].client = c}
    <3>1. Posted("message", c) =
            {i \in Queue : tasks[i] = [kind |-> "message", client |-> c]}
      BY DEF Posted, Queue
    <3>2. \A i \in Queue : tasks[i] = [kind |-> "message", client |-> c] <=>
                           tasks[i].kind = "message" /\ tasks[i].client = c
      BY <2>1
    <3> QED BY <3>1, <3>2
  <2>4. ASSUME NEW c \in Clients
        PROVE  Posted("message", c) \cup Posted("disconnect", c) =
                 {i \in Queue : tasks[i].client = c}
    <3>1. \A i \in Posted("message", c) \cup Posted("disconnect", c) :
            i \in Queue /\ tasks[i].client = c
      BY <2>2, <2>3
    <3>2. ASSUME NEW i \in Queue, tasks[i].client = c
          PROVE  i \in Posted("message", c) \cup Posted("disconnect", c)
      <4>1. tasks[i].kind = "message" \/ tasks[i].kind = "disconnect"
        BY <2>1
      <4>2. CASE tasks[i].kind = "message"
        BY <2>3, <3>2, <4>2
      <4>3. CASE tasks[i].kind = "disconnect"
        BY <2>2, <3>2, <4>3
      <4> QED BY <4>1, <4>2, <4>3
    <3> QED BY <3>1, <3>2
  <2> QED BY <2>2, <2>4
<1>2. ASSUME NEW c \in Clients
      PROVE  /\ reported[c] > 0 => Posted("message", c) \cup Posted("disconnect", c) = {}
             /\ \A i \in Posted("disconnect", c) :
                  Posted("message", c) \cup Posted("disconnect", c) \subseteq 1 .. i
  <2>1. reported[c] > 0 => Posted("message", c) \cup Posted("disconnect", c) = {}
    BY <1>1 DEF IInv, EndIsLast
  <2>2. ASSUME NEW i \in Posted("disconnect", c),
               NEW j \in Posted("message", c) \cup Posted("disconnect", c)
        PROVE  j \in 1 .. i
    <3>1. /\ i \in Queue /\ tasks[i].kind = "disconnect" /\ tasks[i].client = c
          /\ j \in Queue /\ tasks[j].client = c
      BY <1>1
    <3>2. j <= i
      BY <3>1 DEF IInv, EndIsLast
    <3> QED BY <3>1, <3>2, QueueType DEF Queue, IInv
  <2> QED BY <2>1, <2>2
<1>3. DisconnectIsLast
  BY <1>2 DEF DisconnectIsLast
<1>4. RegisteredAreServed
  <2>1. \A c \in clients_ : c \in Clients /\ (EndPosted(c) => Posted("disconnect", c) # {})
    BY <1>1 DEF IInv, TypeOK, EndPosted
  <2> QED BY <2>1 DEF IInv, Served, UIInHand, RegisteredAreServed
<1> QED BY <1>3, <1>4

-----------------------------------------------------------------------------
(* Every step keeps IInv: peers and readers.                               *)

LEMMA InitIInv == Init => IInv
<1> SUFFICES ASSUME Init PROVE IInv
  OBVIOUS
<1>1. tasks = <<>> /\ Queue = {}
  BY EmptySeq DEF Init, Queue
<1>2. TypeOK
  BY <1>1, EmptySeq DEF Init, TypeOK
<1>3. EndIsLast /\ EndedIsDone
  BY <1>1 DEF Init, EndIsLast, EndedIsDone
<1>4. NoReaderYet /\ Served /\ UIInHand
  BY DEF Init, NoReaderYet, Served, UIInHand
<1> QED BY <1>2, <1>3, <1>4 DEF IInv

LEMMA PeerStepIInv ==
  ASSUME IInv, NEW c \in Clients, PeerStep(c)
  PROVE  IInv'
<1>1. UNCHANGED <<reader, nonblock, clients_, ui, cur, todo, failed, tasks, reported>>
  BY DEF PeerStep, PeerConnects, PeerSends, PeerReads, PeerCloses, uithread
<1>2. \A d \in Clients : peer'[d] \in {"new", "connecting"} =>
        peer[d] \in {"new", "connecting"}
  BY DEF PeerStep, PeerConnects, PeerSends, PeerReads, PeerCloses, IInv, TypeOK
<1>3. /\ peer' \in [Clients -> {"new", "connecting", "open", "closed"}]
      /\ inbox' \in [Clients -> Seq(Frames)]
      /\ sent' \in [Clients -> 0 .. MaxFrames]
      /\ outbox' \in [Clients -> 0 .. Capacity]
  <2>1. CASE PeerConnects(c) \/ PeerCloses(c)
    BY <2>1 DEF PeerConnects, PeerCloses, IInv, TypeOK
  <2>2. CASE PeerSends(c)
    <3>1. \A s \in Seq(Frames), f \in Frames : Append(s, f) \in Seq(Frames)
      BY AppendProperties
    <3> QED BY SMTT(30), <2>2, <3>1 DEF PeerSends, IInv, TypeOK
  <2>3. CASE PeerReads(c)
    BY SMTT(30), <2>3 DEF PeerReads, IInv, TypeOK
  <2> QED BY <2>1, <2>2, <2>3 DEF PeerStep
<1>4. TypeOK'
  BY <1>1, <1>3 DEF IInv, TypeOK
<1>5. EndIsLast' /\ EndedIsDone' /\ Served' /\ UIInHand'
  BY <1>1 DEF IInv, EndIsLast, EndedIsDone, Served, UIInHand, Queue, EndPosted
<1>6. NoReaderYet'
  BY <1>1, <1>2 DEF IInv, NoReaderYet
<1> QED BY <1>4, <1>5, <1>6 DEF IInv

(* What a reader that is alive posts keeps the order of the tasks; with a  *)
(* disconnection it ends.                                                  *)
LEMMA ReaderPosts ==
  ASSUME IInv, NEW c \in Clients, reader[c] \in {"loop", "blocked"},
         NEW kind \in {"message", "disconnect"}, Post(kind, c),
         reader' = [reader EXCEPT ![c] = IF kind = "message" THEN "loop" ELSE "done"],
         UNCHANGED <<peer, sent, outbox, nonblock, clients_, uithread, reported>>,
         inbox' \in [Clients -> Seq(Frames)]
  PROVE  IInv'
<1> DEFINE n == Len(tasks) + 1
<1>1. /\ tasks' \in Seq(Tasks)
      /\ Len(tasks') = n
      /\ \A i \in Queue : tasks'[i] = tasks[i]
      /\ tasks'[n].kind = kind /\ tasks'[n].client = c
  BY PostedFacts DEF IInv
<1>2. /\ Queue' = Queue \cup {n} /\ \A i \in Queue : i < n
      /\ n \in Nat /\ Queue \subseteq Nat
  BY <1>1, QueueType DEF Queue, IInv
<1>3. /\ reported[c] = 0
      /\ \A i \in Queue : tasks[i].kind = "disconnect" => tasks[i].client # c
  <2>1. reported \in [Clients -> 0 .. 1] /\ reader[c] # "done"
    BY DEF IInv, TypeOK
  <2> QED BY <2>1 DEF IInv, EndedIsDone
<1>4. UNCHANGED <<peer, sent, outbox, nonblock, clients_, ui, cur, todo, failed, reported>>
  BY DEF uithread
<1> HIDE DEF n
<1>5. TypeOK'
  BY <1>1, <1>4 DEF IInv, TypeOK
<1>6. EndIsLast'
  <2>1. ASSUME NEW i \in Queue', NEW j \in Queue', tasks'[i].kind = "disconnect",
               tasks'[j].client = tasks'[i].client
        PROVE  j <= i
    <3>1. CASE i \in Queue /\ j \in Queue
      BY <1>1, <2>1, <3>1 DEF IInv, EndIsLast
    <3>2. CASE i = n
      BY <1>2, <3>2
    <3>3. CASE i \in Queue /\ j = n
      BY <1>1, <1>3, <2>1, <3>3
    <3> QED BY <1>2, <3>1, <3>2, <3>3
  <2>2. \A i \in Queue' : reported[tasks'[i].client] = 0
    BY <1>1, <1>2, <1>3 DEF IInv, EndIsLast
  <2> QED BY <1>4, <2>1, <2>2 DEF EndIsLast
<1>7. EndedIsDone'
  <2>1. ASSUME NEW i \in Queue', tasks'[i].kind = "disconnect"
        PROVE  reader'[tasks'[i].client] = "done"
    <3>1. CASE i \in Queue
      <4>1. /\ tasks'[i] = tasks[i] /\ tasks[i].client \in Clients
            /\ tasks[i].client # c /\ reader[tasks[i].client] = "done"
        BY <1>1, <1>3, <2>1, <3>1, QueueType DEF IInv, EndedIsDone
      <4> QED BY <4>1 DEF IInv, TypeOK
    <3>2. CASE i = n
      BY <1>1, <2>1, <3>2 DEF IInv, TypeOK
    <3> QED BY <1>2, <3>1, <3>2
  <2>2. \A d \in Clients : reported[d] > 0 => reader'[d] = "done"
    BY <1>3 DEF IInv, EndedIsDone, TypeOK
  <2> QED BY <1>4, <2>1, <2>2 DEF EndedIsDone
<1>8. NoReaderYet'
  BY <1>4 DEF IInv, NoReaderYet, TypeOK
<1>9. Served'
  <2>1. ASSUME NEW d \in Clients, d \in clients_ \/ (ui = "register" /\ d = cur)
        PROVE  reader'[d] \in {"loop", "blocked"} \/ EndPosted(d)'
    <3>1. CASE d = c /\ kind = "message"
      BY <3>1 DEF IInv, TypeOK
    <3>2. CASE d = c /\ kind = "disconnect"
      BY <1>1, <1>2, <3>2 DEF EndPosted
    <3>3. CASE d # c
      <4>1. reader[d] \in {"loop", "blocked"} \/ EndPosted(d)
        BY <2>1 DEF IInv, Served
      <4>2. EndPosted(d) => EndPosted(d)'
        BY <1>1, <1>2 DEF EndPosted
      <4>3. reader'[d] = reader[d]
        BY <3>3 DEF IInv, TypeOK
      <4> QED BY <4>1, <4>2, <4>3
    <3> QED BY <3>1, <3>2, <3>3
  <2> QED BY <1>4, <2>1 DEF Served
<1>10. UIInHand'
  BY <1>4 DEF IInv, UIInHand
<1> QED BY <1>5, <1>6, <1>7, <1>8, <1>9, <1>10 DEF IInv

LEMMA ReaderStays ==
  ASSUME IInv, NEW c \in Clients, reader[c] \in {"loop", "blocked"},
         NEW s \in {"loop", "blocked"}, reader' = [reader EXCEPT ![c] = s],
         UNCHANGED <<peer, sent, outbox, nonblock, clients_, uithread, tasks, reported>>,
         inbox' \in [Clients -> Seq(Frames)]
  PROVE  IInv'
<1>1. UNCHANGED <<peer, sent, outbox, nonblock, clients_, ui, cur, todo, failed,
                  tasks, reported, Queue>>
  BY DEF uithread, Queue
<1>2. /\ reader' \in [Clients -> {"none", "loop", "blocked", "done"}]
      /\ \A d \in Clients : reader'[d] = IF d = c THEN s ELSE reader[d]
  BY DEF IInv, TypeOK
<1>3. TypeOK'
  BY SMTT(30), <1>1, <1>2 DEF IInv, TypeOK
<1>4. EndIsLast' /\ UIInHand'
  BY <1>1 DEF IInv, EndIsLast, UIInHand
<1>5. EndedIsDone'
  BY <1>1, <1>2, QueueType DEF IInv, EndedIsDone
<1>6. NoReaderYet' /\ Served'
  BY <1>1, <1>2 DEF IInv, NoReaderYet, Served, EndPosted
<1> QED BY <1>3, <1>4, <1>5, <1>6 DEF IInv

LEMMA ReaderStepIInv ==
  ASSUME IInv, NEW c \in Clients, ReaderStep(c)
  PROVE  IInv'
<1>1. inbox \in [Clients -> Seq(Frames)]
  BY DEF IInv, TypeOK
<1>2. CASE ReadFrame(c)
  <2>1. /\ reader[c] \in {"loop", "blocked"}
        /\ inbox[c] # <<>>
        /\ inbox' = [inbox EXCEPT ![c] = Tail(@)]
        /\ UNCHANGED <<peer, sent, outbox, nonblock, clients_, uithread, reported>>
    BY <1>2 DEF ReadFrame
  <2>2. inbox' \in [Clients -> Seq(Frames)]
    <3>1. Tail(inbox[c]) \in Seq(Frames)
      BY <1>1, <2>1, HeadTailProperties
    <3> QED BY <1>1, <2>1, <3>1
  <2>3. CASE Post("message", c) /\ reader' = [reader EXCEPT ![c] = "loop"]
    BY <2>1, <2>2, <2>3, ReaderPosts
  <2>4. CASE tasks' = tasks /\ reader' = [reader EXCEPT ![c] = "loop"]
    BY <2>1, <2>2, <2>4, ReaderStays
  <2>5. CASE HandleClientDisconnect(c)
    BY <2>1, <2>2, <2>5, ReaderPosts DEF HandleClientDisconnect
  <2> QED BY <1>2, <2>3, <2>4, <2>5 DEF ReadFrame
<1>3. CASE ReadBlocks(c)
  BY <1>1, <1>3, ReaderStays DEF ReadBlocks, net
<1>4. CASE ReadWouldBlock(c) \/ ReadEndOfFile(c)
  BY <1>1, <1>4, ReaderPosts
     DEF ReadWouldBlock, ReadEndOfFile, HandleClientDisconnect, net
<1> QED BY <1>2, <1>3, <1>4 DEF ReaderStep

-----------------------------------------------------------------------------
(* Every step keeps IInv: the UI thread.                                   *)

LEMMA OnAcceptReadyIInv ==
  ASSUME IInv, NEW c \in Clients, OnAcceptReady(c)
  PROVE  IInv'
<1>1. /\ ui = "idle" /\ peer[c] = "connecting" /\ reader[c] = "none"
      /\ UNCHANGED <<inbox, sent, outbox, nonblock, clients_, todo, failed, tasks,
                     reported, Queue>>
  BY DEF OnAcceptReady, IInv, NoReaderYet, Queue
<1>2. CASE /\ peer' = [peer EXCEPT ![c] = "open"]
           /\ reader' = [reader EXCEPT ![c] = "loop"]
           /\ ui' = "register"
           /\ cur' = c
  <2>1. \A d \in Clients : /\ reader'[d] = IF d = c THEN "loop" ELSE reader[d]
                           /\ peer'[d] = IF d = c THEN "open" ELSE peer[d]
    BY <1>2 DEF IInv, TypeOK
  <2>2. TypeOK'
    BY <1>1, <1>2 DEF IInv, TypeOK
  <2>3. EndIsLast'
    BY <1>1 DEF IInv, EndIsLast
  <2>4. EndedIsDone'
    <3>1. ASSUME NEW i \in Queue, tasks[i].kind = "disconnect"
          PROVE  reader'[tasks[i].client] = "done"
      BY <1>1, <2>1, <3>1, QueueType DEF IInv, EndedIsDone
    <3>2. \A d \in Clients : reported[d] > 0 => reader'[d] = "done"
      BY <1>1, <2>1 DEF IInv, EndedIsDone
    <3> QED BY <1>1, <3>1, <3>2 DEF EndedIsDone
  <2>5. NoReaderYet' /\ UIInHand'
    BY <1>1, <1>2, <2>1 DEF IInv, NoReaderYet, UIInHand
  <2>6. Served'
    BY <1>1, <1>2, <2>1 DEF IInv, Served, EndPosted
  <2> QED BY <2>2, <2>3, <2>4, <2>5, <2>6 DEF IInv
<1>3. CASE /\ peer' = [peer EXCEPT ![c] = "closed"]
           /\ UNCHANGED <<reader, ui, cur>>
  <2>1. TypeOK'
    BY <1>1, <1>3 DEF IInv, TypeOK
  <2>2. EndIsLast' /\ EndedIsDone' /\ Served' /\ UIInHand'
    BY <1>1, <1>3 DEF IInv, EndIsLast, EndedIsDone, Served, UIInHand, EndPosted
  <2>3. NoReaderYet'
    BY <1>3 DEF IInv, TypeOK, NoReaderYet
  <2> QED BY <2>1, <2>2, <2>3 DEF IInv
<1> QED BY <1>2, <1>3 DEF OnAcceptReady

(* Steps of the UI thread that neither run a task nor accept a client.     *)
LEMMA TasksUntouched ==
  ASSUME IInv, TypeOK', UIInHand', UNCHANGED <<peer, reader, tasks, reported>>,
         \A c \in Clients : (c \in clients_' \/ (ui' = "register" /\ c = cur')) =>
                            (c \in clients_ \/ (ui = "register" /\ c = cur))
  PROVE  IInv'
<1>1. EndIsLast' /\ EndedIsDone' /\ NoReaderYet'
  BY DEF IInv, EndIsLast, EndedIsDone, NoReaderYet, Queue
<1>2. Served'
  BY DEF IInv, Served, EndPosted, Queue
<1> QED BY <1>1, <1>2 DEF IInv

LEMMA SendIInv ==
  ASSUME IInv, NEW targets, targets \subseteq clients_, Send(targets)
  PROVE  IInv'
<1>1. TypeOK'
  BY DEF IInv, TypeOK, Send, net
<1>2. UIInHand'
  BY DEF IInv, UIInHand, Send
<1> QED BY <1>1, <1>2, TasksUntouched DEF Send, net

LEMMA UIContinuesIInv ==
  ASSUME IInv, UIContinues
  PROVE  IInv'
<1>1. CASE Register
  <2>1. TypeOK' /\ UIInHand'
    BY <1>1 DEF IInv, TypeOK, UIInHand, Register, net
  <2> QED BY <1>1, <2>1, TasksUntouched DEF Register, net
<1>2. ASSUME NEW c \in Clients, SendTo(c) PROVE IInv'
  <2>1. TypeOK'
    BY <1>2 DEF IInv, TypeOK, SendTo, net
  <2>2. UIInHand'
    BY <1>2 DEF IInv, TypeOK, UIInHand, SendTo
  <2> QED BY <1>2, <2>1, <2>2, TasksUntouched DEF SendTo, net
<1>3. CASE WriteSucceeds
  <2>1. outbox' \in [Clients -> 0 .. Capacity]
    BY <1>3 DEF IInv, TypeOK, WriteSucceeds
  <2>2. TypeOK'
    BY <1>3, <2>1 DEF IInv, TypeOK, WriteSucceeds
  <2>3. UIInHand'
    BY <1>3 DEF IInv, TypeOK, UIInHand, WriteSucceeds
  <2> QED BY <1>3, <2>2, <2>3, TasksUntouched DEF WriteSucceeds
<1>4. CASE WriteFails
  <2>1. TypeOK'
    BY <1>4 DEF IInv, TypeOK, WriteFails, net
  <2>2. UIInHand'
    BY <1>4 DEF IInv, TypeOK, UIInHand, WriteFails
  <2> QED BY <1>4, <2>1, <2>2, TasksUntouched DEF WriteFails, net
<1>5. CASE SendEnds
  <2>1. TypeOK' /\ UIInHand'
    BY <1>5 DEF IInv, TypeOK, UIInHand, SendEnds, net
  <2> QED BY <1>5, <2>1, TasksUntouched DEF SendEnds, net
<1>6. CASE Join
  <2>1. TypeOK' /\ UIInHand'
    BY <1>6 DEF IInv, TypeOK, UIInHand, Join, net
  <2> QED BY <1>6, <2>1, TasksUntouched DEF Join, net
<1> QED BY <1>1, <1>2, <1>3, <1>4, <1>5, <1>6 DEF UIContinues

(* The head of the queue goes.  Only the tasks of another client can follow*)
(* a disconnection, so that the tail has none of a client just reported.   *)
LEMMA RunTaskIInv ==
  ASSUME IInv, RunTask
  PROVE  IInv'
<1>1. /\ ui = "idle" /\ tasks # <<>> /\ tasks' = Tail(tasks)
      /\ UNCHANGED <<peer, inbox, sent, outbox, reader, nonblock, ui, cur, todo, failed>>
  BY DEF RunTask, RunMessage, RunDisconnect, net, uithread
<1>2. /\ tasks' \in Seq(Tasks)
      /\ Head(tasks) = tasks[1]
      /\ 1 \in Queue
      /\ \A i \in Queue' : i \in Nat \ {0} /\ i + 1 \in Queue /\ tasks'[i] = tasks[i + 1]
      /\ \A i \in Queue : i \in Nat /\ (i # 1 => i - 1 \in Queue' /\ tasks'[i - 1] = tasks[i])
  BY <1>1, RunFacts DEF IInv, Queue
<1> DEFINE c == tasks[1].client
<1>3. /\ c \in Clients
      /\ tasks[1].kind \in {"message", "disconnect"}
  BY <1>2, QueueType DEF IInv
<1>4. \A i \in Queue' : tasks[1].kind = "disconnect" => tasks'[i].client # c
  <2>1. ASSUME NEW i \in Queue', tasks[1].kind = "disconnect", tasks'[i].client = c
        PROVE  FALSE
    <3>1. i + 1 <= 1
      BY <1>2, <2>1 DEF IInv, EndIsLast
    <3> QED BY <1>2, <3>1
  <2> QED BY <2>1
<1>5. CASE tasks[1].kind = "message"
  <2>1. UNCHANGED <<clients_, reported>>
    BY <1>2, <1>5 DEF RunTask, RunMessage, RunDisconnect
  <2>2. TypeOK' /\ UIInHand' /\ NoReaderYet'
    BY <1>1, <1>2, <2>1 DEF IInv, TypeOK, UIInHand, NoReaderYet
  <2>3. EndIsLast'
    <3>1. \A i, j \in Queue' : (tasks'[i].kind = "disconnect" /\
            tasks'[j].client = tasks'[i].client) => j <= i
      <4>1. ASSUME NEW i \in Queue', NEW j \in Queue', tasks'[i].kind = "disconnect",
                   tasks'[j].client = tasks'[i].client
            PROVE  j <= i
        <5>1. j + 1 <= i + 1
          BY <1>2, <4>1 DEF IInv, EndIsLast
        <5> QED BY <1>2, <5>1
      <4> QED BY <4>1
    <3>2. \A i \in Queue' : reported'[tasks'[i].client] = 0
      BY <1>2, <2>1 DEF IInv, EndIsLast
    <3> QED BY <3>1, <3>2 DEF EndIsLast
  <2>4. EndedIsDone'
    <3>1. \A i \in Queue' : tasks'[i].kind = "disconnect" => reader[tasks'[i].client] = "done"
      BY <1>2 DEF IInv, EndedIsDone
    <3> QED BY <1>1, <2>1, <3>1 DEF IInv, EndedIsDone
  <2>5. Served'
    <3>1. \A d \in Clients : EndPosted(d) => EndPosted(d)'
      BY <1>2, <1>5 DEF EndPosted
    <3> QED BY <1>1, <2>1, <3>1 DEF IInv, Served
  <2> QED BY <2>2, <2>3, <2>4, <2>5 DEF IInv
<1>6. CASE tasks[1].kind = "disconnect"
  <2>1. /\ clients_' = clients_ \ {c}
        /\ reported' = [reported EXCEPT ![c] = @ + 1]
    BY <1>2, <1>6 DEF RunTask, RunMessage, RunDisconnect
  <2>2. /\ reported \in [Clients -> 0 .. 1]
        /\ reported[c] = 0 /\ reader[c] = "done"
    BY <1>2, <1>6 DEF IInv, TypeOK, EndIsLast, EndedIsDone
  <2>3. /\ reported' \in [Clients -> 0 .. 1]
        /\ \A d \in Clients : reported'[d] = IF d = c THEN 1 ELSE reported[d]
    BY <1>3, <2>1, <2>2
  <2>4. TypeOK' /\ UIInHand' /\ NoReaderYet'
    <3>1. todo = {}
      BY <1>1 DEF IInv, UIInHand
    <3> HIDE DEF c
    <3> QED BY <1>1, <1>2, <2>1, <2>3, <3>1 DEF IInv, TypeOK, UIInHand, NoReaderYet
  <2>5. EndIsLast'
    <3>1. \A i, j \in Queue' : (tasks'[i].kind = "disconnect" /\
            tasks'[j].client = tasks'[i].client) => j <= i
      <4>1. ASSUME NEW i \in Queue', NEW j \in Queue', tasks'[i].kind = "disconnect",
                   tasks'[j].client = tasks'[i].client
            PROVE  j <= i
        <5>1. j + 1 <= i + 1
          BY <1>2, <4>1 DEF IInv, EndIsLast
        <5> QED BY <1>2, <5>1
      <4> QED BY <4>1
    <3>2. ASSUME NEW i \in Queue' PROVE reported'[tasks'[i].client] = 0
      <4>1. /\ tasks'[i].client # c
            /\ tasks'[i].client \in Clients
            /\ reported[tasks'[i].client] = 0
        BY <1>2, <1>4, <1>6, QueueType DEF IInv, EndIsLast
      <4> QED BY <2>3, <4>1
    <3> QED BY <3>1, <3>2 DEF EndIsLast
  <2>6. EndedIsDone'
    <3>1. \A i \in Queue' : tasks'[i].kind = "disconnect" => reader[tasks'[i].client] = "done"
      BY <1>2 DEF IInv, EndedIsDone
    <3> HIDE DEF c
    <3> QED BY <1>1, <2>2, <2>3, <3>1 DEF IInv, EndedIsDone
  <2>7. Served'
    <3>1. ASSUME NEW d \in Clients, d # c, EndPosted(d) PROVE EndPosted(d)'
      BY <1>2, <3>1 DEF EndPosted
    <3> QED BY <1>1, <2>1, <3>1 DEF IInv, Served
  <2> QED BY <2>4, <2>5, <2>6, <2>7 DEF IInv
<1> QED BY <1>3, <1>5, <1>6

LEMMA NextIInv == IInv /\ [Next]_vars => IInv'
<1> SUFFICES ASSUME IInv, [Next]_vars PROVE IInv'
  OBVIOUS
<1>1. ASSUME NEW c \in Clients, PeerStep(c) \/ ReaderStep(c) \/ OnAcceptReady(c)
      PROVE  IInv'
  BY <1>1, PeerStepIInv, ReaderStepIInv, OnAcceptReadyIInv
<1>2. ASSUME NEW targets, targets \subseteq clients_, Send(targets) PROVE IInv'
  BY <1>2, SendIInv
<1>3. CASE UIContinues \/ RunTask
  BY <1>3, UIContinuesIInv, RunTaskIInv
<1>4. CASE UNCHANGED vars
  <2>1. TypeOK' /\ UIInHand'
    BY <1>4 DEF IInv, TypeOK, UIInHand, vars
  <2> QED BY <1>4, <2>1, TasksUntouched DEF vars
<1>5. ASSUME NEW c \in clients_, Send({c}) PROVE IInv'
  BY <1>2, <1>5
<1> QED BY <1>1, <1>2, <1>3, <1>4, <1>5 DEF Next

LEMMA AlwaysIInv == Spec => []IInv
<1>1. IInv /\ [Next]_vars => IInv'
  BY NextIInv
<1> QED BY <1>1, InitIInv, PTL DEF Spec

-----------------------------------------------------------------------------
(* TypeOK: among other things, no client is reported gone twice and Send() *)
(* never has an unregistered client left to write to.                      *)
THEOREM SocketTypeOK == Spec => []TypeOK
<1>1. IInv => TypeOK
  BY DEF IInv
<1> QED BY <1>1, AlwaysIInv, PTL

(* The server hears of a client's end once and of nothing from this client *)
(* afterwards, whichever thread notices the end first.                     *)
THEOREM SocketDisconnectIsLast == Spec => []DisconnectIsLast
<1>1. IInv => DisconnectIsLast
  BY QueueProperties
<1> QED BY <1>1, AlwaysIInv, PTL

(* A registered client has a reader or its end is on its way to the server;*)
(* the UI thread writes to registered clients and leaves sockets blocking. *)
THEOREM SocketRegisteredAreServed == Spec => []RegisteredAreServed
<1>1. IInv => RegisteredAreServed
  BY QueueProperties
<1> QED BY <1>1, AlwaysIInv, PTL

-----------------------------------------------------------------------------
(* SocketTransport implements ClientStreams.  The messages of a client that*)
(* are on their way are counted in the queue of tasks.                     *)

LEMMA MessagesFinite ==
  ASSUME TypeOK, NEW c \in Clients
  PROVE  /\ IsFiniteSet(Posted("message", c))
         /\ Arriving(c) \in Nat
<1>1. IsFiniteSet(1 .. Len(tasks))
  <2>1. Len(tasks) \in Int /\ 1 \in Int
    BY QueueType
  <2> QED BY <2>1, FS_Interval
<1>2. Posted("message", c) \in SUBSET (1 .. Len(tasks))
  BY DEF Posted
<1>3. IsFiniteSet(Posted("message", c))
  BY <1>1, <1>2, FS_Subset
<1> QED BY <1>3, FS_CardinalityType DEF Arriving

LEMMA SameTasksSameArriving ==
  ASSUME UNCHANGED tasks, NEW c
  PROVE  Arriving(c)' = Arriving(c)
BY DEF Arriving, Posted

(* The messages of client c, wherever they are in a queue.                 *)
LEMMA MessagesOf ==
  ASSUME NEW q \in Seq(Tasks), NEW c \in Clients
  PROVE  \A i : i \in {k \in 1 .. Len(q) : q[k] = [kind |-> "message", client |-> c]} <=>
                i \in 1 .. Len(q) /\ q[i].kind = "message" /\ q[i].client = c
<1>1. ASSUME NEW i \in 1 .. Len(q)
      PROVE  q[i] = [kind |-> "message", client |-> c] <=>
                q[i].kind = "message" /\ q[i].client = c
  <2>1. q[i] \in Tasks
    BY ElementOfSeq
  <2> QED BY <2>1 DEF Tasks
<1> QED BY <1>1

LEMMA PostCounts ==
  ASSUME TypeOK, NEW kind \in {"message", "disconnect"}, NEW c \in Clients,
         Post(kind, c), NEW d \in Clients
  PROVE  Arriving(d)' = IF kind = "message" /\ d = c THEN Arriving(d) + 1
                                                     ELSE Arriving(d)
<1> DEFINE n == Len(tasks) + 1
<1>1. /\ Len(tasks) \in Nat
      /\ Len(tasks') = n
      /\ \A i \in Queue : tasks'[i] = tasks[i]
      /\ tasks'[n].kind = kind /\ tasks'[n].client = c
  BY PostedFacts, QueueType
<1>2. Queue' = Queue \cup {n} /\ n \notin Queue
  BY <1>1 DEF Queue
<1> HIDE DEF n
<1>3. \A i : i \in Posted("message", d) <=>
             i \in Queue /\ tasks[i].kind = "message" /\ tasks[i].client = d
  <2>1. tasks \in Seq(Tasks)
    BY DEF TypeOK
  <2> QED BY <2>1, MessagesOf DEF Posted, Queue
<1>4. \A i : i \in Posted("message", d)' <=>
             i \in Queue' /\ tasks'[i].kind = "message" /\ tasks'[i].client = d
  <2>1. tasks' \in Seq(Tasks)
    BY PostedFacts
  <2> QED BY <2>1, MessagesOf DEF Posted, Queue
<1>5. IsFiniteSet(Posted("message", d))
  BY MessagesFinite
<1>6. CASE kind = "message" /\ d = c
  <2>1. Posted("message", d)' = Posted("message", d) \cup {n}
    BY <1>1, <1>2, <1>3, <1>4, <1>6
  <2>2. n \notin Posted("message", d)
    BY <1>2, <1>3
  <2> QED BY <1>5, <1>6, <2>1, <2>2, FS_AddElement DEF Arriving
<1>7. CASE ~(kind = "message" /\ d = c)
  <2>1. ~(tasks'[n].kind = "message" /\ tasks'[n].client = d)
    BY <1>1, <1>7
  <2>2. \A i : i \in Posted("message", d)' <=> i \in Posted("message", d)
    BY <1>1, <1>2, <1>3, <1>4, <2>1
  <2>3. Posted("message", d)' = Posted("message", d)
    BY <2>2
  <2> QED BY <1>7, <2>3 DEF Arriving
<1> QED BY <1>6, <1>7

(* Numbers that all move down by one, the first of them leaving.           *)
LEMMA ShiftDown ==
  ASSUME NEW S \in SUBSET (Nat \ {0}), NEW T \in SUBSET (Nat \ {0}), IsFiniteSet(S),
         \A i \in Nat \ {0} : i \in T <=> i + 1 \in S
  PROVE  Cardinality(T) = IF 1 \in S THEN Cardinality(S) - 1 ELSE Cardinality(S)
<1> DEFINE R == S \ {1}
           f == [i \in R |-> i - 1]
<1>1. /\ IsFiniteSet(R)
      /\ Cardinality(R) = IF 1 \in S THEN Cardinality(S) - 1 ELSE Cardinality(S)
  BY FS_RemoveElement
<1>2. \A i \in R : i \in Nat /\ i - 1 \in Nat \ {0} /\ i - 1 \in T
  OBVIOUS
<1>3. \A i \in T : i \in Nat /\ i + 1 \in R /\ (i + 1) - 1 = i
  OBVIOUS
<1>4. f \in Injection(R, T)
  BY <1>2 DEF Injection, IsInjective
<1>5. f \in Surjection(R, T)
  <2>1. \A t \in T : \E r \in R : f[r] = t
    BY <1>3
  <2> QED BY <1>2, <2>1 DEF Surjection
<1>6. ExistsBijection(R, T)
  BY <1>4, <1>5 DEF ExistsBijection, Bijection
<1> HIDE DEF R, f
<1> QED BY <1>1, <1>6, FS_Bijection

LEMMA RunCounts ==
  ASSUME TypeOK, tasks # <<>>, tasks' = Tail(tasks), NEW d \in Clients
  PROVE  /\ Arriving(d)' = IF Head(tasks).kind = "message" /\ Head(tasks).client = d
                             THEN Arriving(d) - 1 ELSE Arriving(d)
         /\ Head(tasks).kind = "message" /\ Head(tasks).client = d => Arriving(d) # 0
<1>1. /\ tasks \in Seq(Tasks) /\ tasks' \in Seq(Tasks)
      /\ Len(tasks) \in Nat \ {0}
      /\ Len(tasks') = Len(tasks) - 1
      /\ Head(tasks) = tasks[1]
      /\ \A i \in Queue' : tasks'[i] = tasks[i + 1]
  BY RunFacts DEF TypeOK
<1> DEFINE S == Posted("message", d)
           T == Posted("message", d)'
<1>2. \A i : i \in S <=> i \in Queue /\ tasks[i].kind = "message" /\ tasks[i].client = d
  BY <1>1, MessagesOf DEF Posted, Queue
<1>3. \A i : i \in T <=> i \in Queue' /\ tasks'[i].kind = "message" /\ tasks'[i].client = d
  BY <1>1, MessagesOf DEF Posted, Queue
<1>4. \A i \in Nat \ {0} : i \in Queue' <=> i + 1 \in Queue
  BY <1>1 DEF Queue
<1>5. Queue \subseteq Nat \ {0} /\ Queue' \subseteq Nat \ {0} /\ 1 \in Queue
  BY <1>1 DEF Queue
<1>6. IsFiniteSet(S)
  BY MessagesFinite
<1> HIDE DEF S, T
<1>7. ASSUME NEW i \in Nat \ {0} PROVE i \in T <=> i + 1 \in S
  <2>1. i \in Queue' <=> i + 1 \in Queue
    BY <1>4
  <2>2. i \in Queue' => tasks'[i] = tasks[i + 1]
    BY <1>1
  <2> QED BY <1>2, <1>3, <2>1, <2>2
<1>8. S \in SUBSET (Nat \ {0}) /\ T \in SUBSET (Nat \ {0})
  BY <1>2, <1>3, <1>5
<1>9. Cardinality(T) = IF 1 \in S THEN Cardinality(S) - 1 ELSE Cardinality(S)
  BY <1>6, <1>7, <1>8, ShiftDown
<1>10. 1 \in S <=> Head(tasks).kind = "message" /\ Head(tasks).client = d
  BY <1>1, <1>2, <1>5
<1>11. 1 \in S => Cardinality(S) # 0
  BY <1>6, FS_EmptySet
<1> QED BY <1>9, <1>10, <1>11 DEF S, T, Arriving

(* The stages of a client's stream.                                        *)
LEMMA Stages ==
  ASSUME TypeOK, NEW c \in Clients
  PROVE  Stream(c) = IF reported[c] > 0 THEN "told"
                     ELSE IF reader[c] = "done" THEN "ended"
                     ELSE IF reader[c] = "none" THEN "absent" ELSE "present"
BY DEF TypeOK, Stream

LEMMA StageTypes ==
  ASSUME TypeOK
  PROVE  /\ reported \in [Clients -> 0 .. 1]
         /\ reader \in [Clients -> {"none", "loop", "blocked", "done"}]
         /\ \A c \in Clients : reported[c] \in Nat /\ (reported[c] > 0 \/ reported[c] = 0)
BY DEF TypeOK

LEMMA MappedStutter ==
  ASSUME \A d \in Clients : Stream(d)' = Stream(d) /\ Arriving(d)' = Arriving(d)
  PROVE  UNCHANGED Abstract!vars
BY DEF Abstract!vars

(* Steps that leave readers, tasks and reports alone, or send a reader from*)
(* one read() to the next.                                                 *)
LEMMA MappedQuiet ==
  ASSUME IInv, IInv', UNCHANGED <<tasks, reported>>,
         \A d \in Clients : \/ reader'[d] = reader[d]
                            \/ reader[d] \in {"loop", "blocked"} /\ reader'[d] \in {"loop", "blocked"}
  PROVE  UNCHANGED Abstract!vars
<1>1. ASSUME NEW d \in Clients PROVE Stream(d)' = Stream(d)
  <2>1. reported'[d] = reported[d] /\ (reported[d] > 0 \/ reported[d] = 0)
    BY StageTypes DEF IInv
  <2>2. CASE reader'[d] = reader[d]
    BY <2>1, <2>2 DEF Stream
  <2>3. CASE reader[d] \in {"loop", "blocked"} /\ reader'[d] \in {"loop", "blocked"}
    BY <2>1, <2>3 DEF Stream
  <2> QED BY <2>2, <2>3
<1> QED BY <1>1, SameTasksSameArriving, MappedStutter

(* The end of client c: its reader returns, and posts that.                *)
LEMMA MappedEnd ==
  ASSUME IInv, IInv', NEW c \in Clients, reader[c] \in {"loop", "blocked"},
         HandleClientDisconnect(c), UNCHANGED reported
  PROVE  Abstract!End(c)
<1>1. reported[c] = 0
  BY StageTypes DEF IInv, EndedIsDone
<1>2. Stream(c) = "present"
  BY <1>1 DEF Stream
<1>3. \A d \in Clients : Stream(d)' = IF d = c THEN "ended" ELSE Stream(d)
  <2>1. ASSUME NEW d \in Clients
        PROVE  /\ reader'[d] = IF d = c THEN "done" ELSE reader[d]
               /\ reported'[d] = reported[d] /\ (reported[d] > 0 \/ reported[d] = 0)
    BY StageTypes DEF HandleClientDisconnect, IInv
  <2> QED BY <1>1, <2>1 DEF Stream
<1>4. \A d \in Clients : Arriving(d)' = Arriving(d)
  BY PostCounts DEF HandleClientDisconnect, IInv
<1> QED BY <1>2, <1>3, <1>4 DEF Abstract!End

LEMMA MappedReceive ==
  ASSUME IInv, IInv', NEW c \in Clients, reader[c] \in {"loop", "blocked"},
         Post("message", c), reader' = [reader EXCEPT ![c] = "loop"],
         UNCHANGED reported
  PROVE  Abstract!Receive(c)
<1>1. reported[c] = 0
  BY StageTypes DEF IInv, EndedIsDone
<1>2. Stream(c) = "present"
  BY <1>1 DEF Stream
<1>3. \A d \in Clients : Stream(d)' = Stream(d)
  <2>1. ASSUME NEW d \in Clients
        PROVE  /\ reader'[d] = IF d = c THEN "loop" ELSE reader[d]
               /\ reported'[d] = reported[d] /\ (reported[d] > 0 \/ reported[d] = 0)
    BY StageTypes DEF IInv
  <2> QED BY <1>1, <2>1 DEF Stream
<1>4. \A d \in Clients : Arriving(d)' = IF d = c THEN Arriving(d) + 1 ELSE Arriving(d)
  BY PostCounts DEF IInv
<1> QED BY <1>2, <1>3, <1>4 DEF Abstract!Receive

LEMMA MappedReader ==
  ASSUME IInv, IInv', NEW c \in Clients, ReaderStep(c)
  PROVE  Abstract!Receive(c) \/ Abstract!End(c) \/ UNCHANGED Abstract!vars
<1>1. /\ reader[c] \in {"loop", "blocked"}
      /\ UNCHANGED reported
      /\ \/ Post("message", c) /\ reader' = [reader EXCEPT ![c] = "loop"]
         \/ tasks' = tasks /\ \E r \in {"loop", "blocked"} : reader' = [reader EXCEPT ![c] = r]
         \/ HandleClientDisconnect(c)
  BY DEF ReaderStep, ReadFrame, ReadBlocks, ReadWouldBlock, ReadEndOfFile
<1>2. CASE Post("message", c) /\ reader' = [reader EXCEPT ![c] = "loop"]
  BY <1>1, <1>2, MappedReceive
<1>3. CASE tasks' = tasks /\ \E r \in {"loop", "blocked"} : reader' = [reader EXCEPT ![c] = r]
  <2>1. \A d \in Clients : \/ reader'[d] = reader[d]
                           \/ reader[d] \in {"loop", "blocked"} /\ reader'[d] \in {"loop", "blocked"}
    BY <1>1, <1>3 DEF IInv, TypeOK
  <2> QED BY <1>1, <1>3, <2>1, MappedQuiet
<1>4. CASE HandleClientDisconnect(c)
  BY <1>1, <1>4, MappedEnd
<1> QED BY <1>1, <1>2, <1>3, <1>4

LEMMA MappedAccept ==
  ASSUME IInv, IInv', NEW c \in Clients, OnAcceptReady(c)
  PROVE  Abstract!Connect(c) \/ UNCHANGED Abstract!vars
<1>1. UNCHANGED <<tasks, reported>> /\ reader[c] = "none"
  BY DEF OnAcceptReady, IInv, NoReaderYet
<1>2. CASE reader' = [reader EXCEPT ![c] = "loop"]
  <2>1. reported[c] = 0
    BY <1>1, StageTypes DEF IInv, EndedIsDone
  <2>2. Stream(c) = "absent"
    BY <1>1, <2>1, Stages DEF IInv
  <2>3. \A d \in Clients : Stream(d)' = IF d = c THEN "present" ELSE Stream(d)
    <3>1. ASSUME NEW d \in Clients
          PROVE  /\ reader'[d] = IF d = c THEN "loop" ELSE reader[d]
                 /\ reported'[d] = reported[d] /\ (reported[d] > 0 \/ reported[d] = 0)
      BY <1>1, <1>2, StageTypes DEF IInv
    <3> QED BY <2>1, <3>1 DEF Stream
  <2>4. \A d \in Clients : Arriving(d)' = Arriving(d)
    BY <1>1, SameTasksSameArriving
  <2> QED BY <2>2, <2>3, <2>4 DEF Abstract!Connect
<1>3. CASE UNCHANGED reader
  BY <1>1, <1>3, MappedQuiet
<1> QED BY <1>2, <1>3 DEF OnAcceptReady

(* The task at the head of the queue.  No message of a client is behind the*)
(* report of its end, nor was one before it left out.                      *)
LEMMA MappedTask ==
  ASSUME IInv, IInv', RunTask
  PROVE  \E c \in Clients : Abstract!Handle(c) \/ Abstract!Tell(c)
<1> DEFINE c == Head(tasks).client
<1>1. /\ tasks # <<>> /\ tasks' = Tail(tasks)
      /\ UNCHANGED reader
      /\ Head(tasks) = tasks[1] /\ 1 \in Queue
      /\ Len(tasks) \in Nat
  <2>1. /\ tasks # <<>> /\ tasks' = Tail(tasks)
        /\ UNCHANGED reader
    BY DEF RunTask, RunMessage, RunDisconnect, net
  <2> QED BY <2>1, RunFacts DEF IInv, Queue
<1>2. c \in Clients /\ Head(tasks).kind \in {"message", "disconnect"}
  BY <1>1, QueueType DEF IInv
<1>3. /\ Arriving(c) \in Nat
      /\ \A d \in Clients :
           /\ Arriving(d)' = IF Head(tasks).kind = "message" /\ c = d
                               THEN Arriving(d) - 1 ELSE Arriving(d)
           /\ Head(tasks).kind = "message" /\ c = d => Arriving(d) # 0
  BY <1>1, <1>2, MessagesFinite, RunCounts DEF IInv
<1>4. CASE Head(tasks).kind = "message"
  <2>1. UNCHANGED reported
    BY <1>4 DEF RunTask, RunMessage, RunDisconnect
  <2>2. \A d \in Clients : Stream(d)' = Stream(d)
    BY <1>1, <2>1 DEF Stream
  <2>3. Arriving(c) > 0
    BY <1>2, <1>3, <1>4
  <2> HIDE DEF c
  <2>4. Abstract!Handle(c)
    BY <1>2, <1>3, <1>4, <2>2, <2>3 DEF Abstract!Handle
  <2> QED BY <1>2, <2>4
<1>5. CASE Head(tasks).kind = "disconnect"
  <2>1. reported' = [reported EXCEPT ![c] = @ + 1]
    BY <1>5 DEF RunTask, RunMessage, RunDisconnect
  <2>2. reported[c] = 0 /\ reader[c] = "done"
    BY <1>1, <1>5 DEF IInv, EndIsLast, EndedIsDone
  <2>3. reported \in [Clients -> 0 .. 1]
    BY DEF IInv, TypeOK
  <2> HIDE DEF c
  <2>4. Stream(c) = "ended"
    BY <1>2, <2>2, Stages DEF IInv
  <2>5. \A d \in Clients : reported'[d] = IF d = c THEN 1 ELSE reported[d]
    BY <1>2, <2>1, <2>2, <2>3
  <2>6. ASSUME NEW d \in Clients
        PROVE  Stream(d)' = IF d = c THEN "told" ELSE Stream(d)
    BY <1>1, <2>5 DEF Stream
  <2>7. Arriving(c) = 0
    <3>1. \A i : i \in Posted("message", c) =>
                 i \in Queue /\ tasks[i].kind = "message" /\ tasks[i].client = c
      <4>1. tasks \in Seq(Tasks)
        BY DEF IInv, TypeOK
      <4> QED BY <1>2, <4>1, MessagesOf DEF Posted, Queue
    <3>2. ASSUME NEW i \in Posted("message", c) PROVE FALSE
      <4>1. i \in Queue /\ tasks[i].kind = "message" /\ tasks[i].client = c
        BY <3>1
      <4>2. i <= 1
        BY <1>1, <1>5, <4>1 DEF IInv, EndIsLast, c
      <4>3. i = 1
        BY <1>1, <4>1, <4>2 DEF Queue
      <4> QED BY <1>1, <1>5, <4>1, <4>3
    <3>3. Posted("message", c) = {}
      BY <3>2
    <3> QED BY <3>3, FS_EmptySet DEF Arriving
  <2>8. Abstract!Tell(c)
    BY <1>2, <1>3, <1>5, <2>4, <2>6, <2>7 DEF Abstract!Tell
  <2> QED BY <1>2, <2>8
<1> QED BY <1>2, <1>4, <1>5

LEMMA MappedInit == Init => Abstract!Init
<1> SUFFICES ASSUME Init PROVE Abstract!Init
  OBVIOUS
<1>1. \A c \in Clients : Stream(c) = "absent"
  BY DEF Init, Stream
<1>2. \A c \in Clients : Arriving(c) = 0
  <2>1. \A c \in Clients : Posted("message", c) = {}
    BY EmptySeq DEF Init, Posted
  <2> QED BY <2>1, FS_EmptySet DEF Arriving
<1> QED BY <1>1, <1>2 DEF Abstract!Init

LEMMA MappedNext == IInv /\ [Next]_vars => [Abstract!Next]_(Abstract!vars)
<1> SUFFICES ASSUME IInv, [Next]_vars PROVE [Abstract!Next]_(Abstract!vars)
  OBVIOUS
<1>1. IInv'
  BY NextIInv
<1>2. ASSUME NEW c \in Clients, ReaderStep(c) PROVE [Abstract!Next]_(Abstract!vars)
  BY <1>1, <1>2, MappedReader DEF Abstract!Next
<1>3. ASSUME NEW c \in Clients, OnAcceptReady(c) PROVE [Abstract!Next]_(Abstract!vars)
  BY <1>1, <1>3, MappedAccept DEF Abstract!Next
<1>4. CASE RunTask
  BY <1>1, <1>4, MappedTask DEF Abstract!Next
<1>5. ASSUME UNCHANGED <<reader, tasks, reported>> PROVE UNCHANGED Abstract!vars
  BY <1>1, <1>5, MappedQuiet
<1>6. ASSUME NEW c \in Clients, PeerStep(c) PROVE UNCHANGED Abstract!vars
  BY <1>5, <1>6 DEF PeerStep, PeerConnects, PeerSends, PeerReads, PeerCloses
<1>7. ASSUME NEW targets, Send(targets) PROVE UNCHANGED Abstract!vars
  BY <1>5, <1>7 DEF Send
<1>8. CASE UIContinues
  BY <1>5, <1>8 DEF UIContinues, Register, SendTo, WriteSucceeds, WriteFails,
                    SendEnds, Join
<1>9. CASE UNCHANGED vars
  BY <1>5, <1>9 DEF vars
<1> QED BY <1>2, <1>3, <1>4, <1>6, <1>7, <1>8, <1>9 DEF Next

(* To McpServer each client is a stream: connected once, its messages, and *)
(* then its end, once, whatever order the threads take.                    *)
THEOREM SocketImplementsClientStreams == Spec => ImplementsClientStreams
<1> QED BY InitIInv, NextIInv, MappedInit, MappedNext, PTL
        DEF Spec, ImplementsClientStreams, Abstract!Spec

-----------------------------------------------------------------------------
(* The UI thread joins reader threads.  What it waits for can happen: the  *)
(* reader has returned, or the peer is gone, so that the reader finds the  *)
(* frames that are left and then the end; the UI thread need not help.     *)
FailedAreClosed == \A c \in failed : peer[c] = "closed" /\ reader[c] # "none"

JoinsCanEnd ==
  /\ \A c \in failed : \/ reader[c] = "done"
                       \/ reader[c] \in {"loop", "blocked"} /\ peer[c] = "closed"
  /\ \A i \in 1 .. Len(tasks) :
       tasks[i].kind = "disconnect" => reader[tasks[i].client] = "done"

LEMMA NextFailedAreClosed ==
  ASSUME IInv, FailedAreClosed, [Next]_vars
  PROVE  FailedAreClosed'
<1>1. /\ failed \subseteq Clients
      /\ peer \in [Clients -> {"new", "connecting", "open", "closed"}]
      /\ reader \in [Clients -> {"none", "loop", "blocked", "done"}]
  BY DEF IInv, TypeOK
<1>2. ASSUME NEW c \in Clients, PeerStep(c) PROVE FailedAreClosed'
  BY <1>1, <1>2 DEF PeerStep, PeerConnects, PeerSends, PeerReads, PeerCloses,
                    FailedAreClosed, uithread
<1>3. ASSUME NEW c \in Clients, ReaderStep(c) PROVE FailedAreClosed'
  <2>1. /\ UNCHANGED <<peer, failed>>
        /\ \E r \in {"loop", "blocked", "done"} : reader' = [reader EXCEPT ![c] = r]
    BY <1>3 DEF ReaderStep, ReadFrame, ReadBlocks, ReadWouldBlock, ReadEndOfFile,
                HandleClientDisconnect, net, uithread
  <2> QED BY <1>1, <2>1 DEF FailedAreClosed
<1>4. ASSUME NEW c \in Clients, OnAcceptReady(c) PROVE FailedAreClosed'
  BY <1>1, <1>4 DEF OnAcceptReady, FailedAreClosed
<1>5. ASSUME UNCHANGED <<peer, reader>>, failed' \subseteq failed PROVE FailedAreClosed'
  BY <1>5 DEF FailedAreClosed
<1>6. ASSUME NEW targets, Send(targets) PROVE FailedAreClosed'
  BY <1>5, <1>6 DEF Send, net
<1>7. CASE WriteFails
  <2>1. /\ UNCHANGED <<peer, reader>>
        /\ failed' = failed \cup {cur}
        /\ peer[cur] = "closed" /\ cur \in clients_ /\ cur \in Clients
    BY <1>7 DEF WriteFails, net, IInv, UIInHand, TypeOK
  <2>2. reader[cur] # "none"
    BY <2>1 DEF IInv, Served, EndPosted, EndedIsDone
  <2> QED BY <2>1, <2>2 DEF FailedAreClosed
<1>8. CASE Register \/ (\E c \in Clients : SendTo(c)) \/ WriteSucceeds \/ SendEnds \/ Join
  BY <1>5, <1>8 DEF Register, SendTo, WriteSucceeds, SendEnds, Join, net
<1>9. CASE RunTask
  BY <1>5, <1>9 DEF RunTask, RunMessage, RunDisconnect, net, uithread
<1>10. CASE UNCHANGED vars
  BY <1>5, <1>10 DEF vars
<1> QED BY <1>2, <1>3, <1>4, <1>6, <1>7, <1>8, <1>9, <1>10 DEF Next, UIContinues

(* The joins of Send() and of the task of HandleClientDisconnect wait for  *)
(* readers that have returned or have only the rest of a closed connection *)
(* to read: the UI thread and a reader never wait for each other.          *)
THEOREM SocketJoinsCanEnd == Spec => []JoinsCanEnd
<1>1. Init => FailedAreClosed
  BY DEF Init, FailedAreClosed
<1>2. IInv /\ FailedAreClosed => JoinsCanEnd
  BY DEF IInv, TypeOK, FailedAreClosed, EndedIsDone, Queue, JoinsCanEnd
<1>3. IInv /\ FailedAreClosed /\ [Next]_vars => FailedAreClosed'
  BY NextFailedAreClosed
<1> QED BY <1>1, <1>2, <1>3, AlwaysIInv, PTL DEF Spec
=============================================================================

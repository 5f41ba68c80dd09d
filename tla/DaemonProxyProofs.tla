-------------------------- MODULE DaemonProxyProofs --------------------------
(***************************************************************************)
(* Proofs about DaemonProxy and StdioClient for any number of clients,     *)
(* lines and deaths of Chromium.                                           *)
(*                                                                         *)
(* Everything is said of one client (CInv): a step of another client leaves*)
(* it alone.  The frames a process has sent are numbered; Read(c) of them  *)
(* have been read by the daemon, what is buffered and what is in the socket*)
(* are the rest (Buffered), and where an answer or a frame has got to is   *)
(* said with these numbers (Streamed, Answers, Owed).                      *)
(***************************************************************************)
EXTENDS DaemonProxy, SequenceTheorems, TLAPS

Frames == [from : {"client", "daemon"}, id : 0 .. MaxLines, kind : Kinds \cup {"broken"}]
Pieces == [msg : FromClient, part : {"whole", "head", "tail"}]

(* The stages of handle_client with a request at hand.                     *)
Staged == {"wait", "connect", "init", "tools", "save", "forward"}
Handlers == Staged \cup {"read", "bridge", "over"}

ClientTypeOK ==
  /\ peer \in [Clients -> {"writing", "halfway", "closed"}]
  /\ stdin \in [Clients -> Seq(Pieces)]
  /\ written \in [Clients -> 0 .. MaxLines]
  /\ held \in [Clients -> FromClient \cup {NoLine}]
  /\ process \in [Clients -> BOOLEAN]
  /\ sent \in [Clients -> Seq(FromClient)]
  /\ toDaemon \in [Clients -> Seq(FromClient)]
  /\ toClient \in [Clients -> Seq(Frames)]
  /\ got \in [Clients -> Seq(Frames)]
  /\ \A c \in Clients : peer[c] = "halfway" => written[c] >= 1

DaemonTypeOK ==
  /\ handler \in [Clients -> Handlers]
  /\ buf \in [Clients -> Seq(FromClient)]
  /\ current \in [Clients -> FromClient \cup {NoMsg}]
  /\ initialized \in [Clients -> BOOLEAN]
  /\ clientSock \in [Clients -> BOOLEAN]
  /\ crSock \in [Clients -> {"none", "open", "reset", "closed"}]
  /\ relay \in [Clients -> SUBSET {"up", "down"}]
  /\ cache \in {"none", "torn", "full"}

ChromiumTypeOK ==
  /\ up \in BOOLEAN
  /\ deaths \in 0 .. MaxDeaths
  /\ arrived \in [Clients -> Seq(Frames)]
  /\ due \in [Clients -> SUBSET Frames]
  /\ fromCr \in [Clients -> Seq(Frames)]

TypeOK == ClientTypeOK /\ DaemonTypeOK /\ ChromiumTypeOK

-----------------------------------------------------------------------------
(* A line is sent once: what is still on its way from the MCP client has a *)
(* higher number than what has been sent, except the rest of a line whose  *)
(* beginning went out, which is no request.                                *)
Fresh(m, c) == \A i \in 1 .. Len(sent[c]) : sent[c][i].id < m.id

Ahead(m, c) ==
  \A i \in 1 .. Len(stdin[c]) : stdin[c][i].part # "tail" => m.id < stdin[c][i].msg.id

LinesOnce(c) ==
  /\ \A i \in 1 .. Len(sent[c]) : sent[c][i].id <= written[c]
  /\ held[c] # NoLine =>
       Fresh(held[c], c) /\ Ahead(held[c], c) /\ held[c].id <= written[c]
  /\ \A i \in 1 .. Len(stdin[c]) :
       /\ stdin[c][i].msg.id <= written[c]
       /\ stdin[c][i].part = "tail" => stdin[c][i].msg.kind = "broken"
       /\ stdin[c][i].part # "tail" =>
            /\ Fresh(stdin[c][i].msg, c)
            /\ \A j \in 1 .. Len(stdin[c]) :
                 j < i => stdin[c][j].msg.id < stdin[c][i].msg.id
  /\ \A i, j \in 1 .. Len(sent[c]) :
       sent[c][i] = sent[c][j] /\ sent[c][i].kind \in Requests => i = j

(* How many of the frames sent by its process the handler of c has read.   *)
Read(c) == Len(sent[c]) - Len(buf[c]) - Len(toDaemon[c])

Buffered(c) ==
  /\ Read(c) >= 0
  /\ \A i \in 1 .. Len(buf[c]) : buf[c][i] = sent[c][Read(c) + i]
  /\ \A i \in 1 .. Len(toDaemon[c]) : toDaemon[c][i] = sent[c][Read(c) + Len(buf[c]) + i]

AtHand(c) == handler[c] \in Staged => Read(c) >= 1 /\ current[c] = sent[c][Read(c)]

(* How many it has dealt with.                                             *)
Taken(c) == IF handler[c] \in Staged THEN Read(c) - 1 ELSE Read(c)

(* The handshake: what Chromium has received, and what it owes.            *)
Owes(c, m) ==
  /\ due[c] \subseteq {m}
  /\ fromCr[c] = <<>> \/ (fromCr[c] = <<m>> /\ due[c] = {})

Quiet(c) == due[c] = {} /\ fromCr[c] = <<>>

Stages(c) ==
  /\ handler[c] \in {"wait", "connect"} => ~initialized[c]
  /\ handler[c] \in {"wait", "connect"} \/ (handler[c] = "read" /\ ~initialized[c]) =>
       Len(arrived[c]) = 0 /\ Quiet(c)
  /\ handler[c] = "init" => Len(arrived[c]) = 1 /\ Owes(c, OfDaemon("initialize"))
  /\ handler[c] = "tools" => Len(arrived[c]) = 3 /\ Owes(c, OfDaemon("list"))
  /\ handler[c] \in {"save", "forward"} \/ (handler[c] = "read" /\ initialized[c]) =>
       Len(arrived[c]) = 3 /\ Quiet(c)
  /\ relay[c] # {} => handler[c] = "bridge"
  /\ handler[c] = "bridge" => buf[c] = <<>> /\ Len(arrived[c]) > 3

(* The i-th of the frames that arrived after the handshake is the (k+i)-th *)
(* of those that were sent.                                                *)
From(c, k) ==
  /\ k + (Len(arrived[c]) - 3) <= Len(sent[c])
  /\ \A i \in 1 .. Len(arrived[c]) - 3 : arrived[c][i + 3] = sent[c][k + i]

Streamed(c) ==
  /\ \A i \in 1 .. Len(arrived[c]) : i <= 3 => arrived[c][i] = Handshake[i]
  /\ Len(arrived[c]) > 3 =>
       \E k \in Nat : /\ From(c, k)
                      /\ "up" \in relay[c] => k + (Len(arrived[c]) - 3) = Read(c)

(* The answers that came back, and those that Chromium will still give.    *)
Back(c) == got[c] \o toClient[c]

IsTaken(c, m) == m.kind \in Requests /\ \E i \in 1 .. Taken(c) : m = sent[c][i]

Answers(c) ==
  /\ IsInjective(Back(c))
  /\ \A m \in ToSet(Back(c)) : IsTaken(c, m)

Owed(c) ==
  handler[c] = "bridge" =>
    /\ \A m \in due[c] : IsTaken(c, m) /\ m \notin ToSet(Back(c))
    /\ \A m \in ToSet(fromCr[c]) : IsTaken(c, m) /\ m \notin ToSet(Back(c)) \cup due[c]
    /\ IsInjective(fromCr[c])

CInv(c) ==
  /\ LinesOnce(c)
  /\ Buffered(c)
  /\ AtHand(c)
  /\ Stages(c)
  /\ Streamed(c)
  /\ Answers(c)
  /\ Owed(c)

IInv == TypeOK /\ \A c \in Clients : CInv(c)

USE LinesAssumption, DeathsAssumption

-----------------------------------------------------------------------------
(* Sequences.                                                              *)

LEMMA EmptyFacts ==
  ASSUME NEW S
  PROVE  <<>> \in Seq(S) /\ Len(<<>>) = 0 /\ ToSet(<<>>) = {} /\ IsInjective(<<>>)
BY EmptySeq DEF ToSet, IsInjective

LEMMA ToSetFacts ==
  ASSUME NEW S, NEW s \in Seq(S)
  PROVE  /\ ToSet(s) = {s[i] : i \in 1 .. Len(s)}
         /\ ToSet(s) \subseteq S
         /\ IsInjective(s) <=> \A i, j \in 1 .. Len(s) : s[i] = s[j] => i = j
<1>1. DOMAIN s = 1 .. Len(s) /\ \A i \in 1 .. Len(s) : s[i] \in S
  BY LenProperties, ElementOfSeq
<1>2. ToSet(s) = {s[i] : i \in 1 .. Len(s)}
  BY <1>1 DEF ToSet
<1>3. ToSet(s) \subseteq S
  BY <1>1, <1>2
<1>4. IsInjective(s) <=> \A i, j \in 1 .. Len(s) : s[i] = s[j] => i = j
  BY <1>1 DEF IsInjective
<1> QED BY <1>2, <1>3, <1>4

LEMMA AppendFacts ==
  ASSUME NEW S, NEW s \in Seq(S), NEW e \in S
  PROVE  /\ Append(s, e) \in Seq(S)
         /\ Len(Append(s, e)) = Len(s) + 1
         /\ \A i \in 1 .. Len(s) : Append(s, e)[i] = s[i]
         /\ Append(s, e)[Len(s) + 1] = e
         /\ ToSet(Append(s, e)) = ToSet(s) \cup {e}
         /\ IsInjective(s) /\ e \notin ToSet(s) => IsInjective(Append(s, e))
<1>1. /\ Append(s, e) \in Seq(S) /\ Len(Append(s, e)) = Len(s) + 1 /\ Len(s) \in Nat
      /\ \A i \in 1 .. Len(s) : Append(s, e)[i] = s[i]
      /\ Append(s, e)[Len(s) + 1] = e
  BY AppendProperties, LenProperties
<1>2. /\ ToSet(s) = {s[i] : i \in 1 .. Len(s)}
      /\ ToSet(Append(s, e)) = {Append(s, e)[i] : i \in 1 .. Len(s) + 1}
  BY <1>1, ToSetFacts
<1>3. ToSet(Append(s, e)) = ToSet(s) \cup {e}
  BY <1>1, <1>2
<1>4. ASSUME IsInjective(s), e \notin ToSet(s)
      PROVE  IsInjective(Append(s, e))
  <2>1. \A i, j \in 1 .. Len(s) : s[i] = s[j] => i = j
    BY <1>4, ToSetFacts
  <2>2. \A i, j \in 1 .. Len(s) + 1 : Append(s, e)[i] = Append(s, e)[j] => i = j
    BY <1>1, <1>2, <1>4, <2>1
  <2> QED BY <1>1, <2>2, ToSetFacts
<1> QED BY <1>1, <1>3, <1>4

LEMMA TailFacts ==
  ASSUME NEW S, NEW s \in Seq(S), s # <<>>
  PROVE  /\ Len(s) \in Nat /\ Len(s) >= 1
         /\ Head(s) \in S /\ Head(s) = s[1]
         /\ Tail(s) \in Seq(S) /\ Len(Tail(s)) = Len(s) - 1
         /\ \A i \in 1 .. Len(s) - 1 : Tail(s)[i] = s[i + 1]
         /\ ToSet(s) = {Head(s)} \cup ToSet(Tail(s))
         /\ IsInjective(s) => IsInjective(Tail(s)) /\ Head(s) \notin ToSet(Tail(s))
<1>1. /\ Len(s) \in Nat /\ Len(s) >= 1
      /\ Head(s) \in S /\ Head(s) = s[1]
      /\ Tail(s) \in Seq(S) /\ Len(Tail(s)) = Len(s) - 1
      /\ \A i \in 1 .. Len(s) - 1 : Tail(s)[i] = s[i + 1]
  BY HeadTailProperties, EmptySeq, LenProperties
<1>2. /\ ToSet(s) = {s[i] : i \in 1 .. Len(s)}
      /\ ToSet(Tail(s)) = {Tail(s)[i] : i \in 1 .. Len(s) - 1}
  <2>1. ToSet(s) = {s[i] : i \in 1 .. Len(s)}
    BY ToSetFacts
  <2>2. ToSet(Tail(s)) = {Tail(s)[i] : i \in 1 .. Len(Tail(s))}
    BY <1>1, ToSetFacts
  <2> QED BY <1>1, <2>1, <2>2
<1>3. ToSet(s) = {Head(s)} \cup ToSet(Tail(s))
  <2>1. \A i \in 1 .. Len(s) : i = 1 \/ (i - 1 \in 1 .. Len(s) - 1 /\ s[i] = Tail(s)[i - 1])
    BY <1>1
  <2>2. \A i \in 1 .. Len(s) - 1 : i + 1 \in 1 .. Len(s)
    BY <1>1
  <2>3. ASSUME NEW x \in ToSet(s)
        PROVE  x = Head(s) \/ x \in ToSet(Tail(s))
    <3>1. PICK i \in 1 .. Len(s) : x = s[i]
      BY <1>2
    <3>2. i = 1 \/ (i - 1 \in 1 .. Len(s) - 1 /\ s[i] = Tail(s)[i - 1])
      BY <2>1
    <3>3. CASE i = 1
      BY <1>1, <3>1, <3>3
    <3>4. CASE i - 1 \in 1 .. Len(s) - 1 /\ s[i] = Tail(s)[i - 1]
      BY <1>2, <3>1, <3>4
    <3> QED BY <3>2, <3>3, <3>4
  <2>4. Head(s) \in ToSet(s)
    BY <1>1, <1>2
  <2>5. ASSUME NEW x \in ToSet(Tail(s))
        PROVE  x \in ToSet(s)
    <3>1. PICK i \in 1 .. Len(s) - 1 : x = Tail(s)[i]
      BY <1>2
    <3>2. x = s[i + 1] /\ i + 1 \in 1 .. Len(s)
      BY <1>1, <2>2, <3>1
    <3> QED BY <1>2, <3>2
  <2> QED BY <2>3, <2>4, <2>5
<1>4. ASSUME IsInjective(s)
      PROVE  IsInjective(Tail(s)) /\ Head(s) \notin ToSet(Tail(s))
  <2>1. \A i, j \in 1 .. Len(s) : s[i] = s[j] => i = j
    BY <1>4, ToSetFacts
  <2>2. \A i, j \in 1 .. Len(s) - 1 : Tail(s)[i] = Tail(s)[j] => i = j
    <3> SUFFICES ASSUME NEW i \in 1 .. Len(s) - 1, NEW j \in 1 .. Len(s) - 1,
                        Tail(s)[i] = Tail(s)[j]
                 PROVE  i = j
      OBVIOUS
    <3>1. i + 1 \in 1 .. Len(s) /\ j + 1 \in 1 .. Len(s) /\ s[i + 1] = s[j + 1]
      BY <1>1
    <3> QED BY <1>1, <2>1, <3>1
  <2>3. IsInjective(Tail(s))
    BY <1>1, <2>2, ToSetFacts
  <2>4. \A i \in 1 .. Len(s) - 1 : i + 1 \in 1 .. Len(s) /\ i + 1 # 1 /\ 1 \in 1 .. Len(s)
    BY <1>1
  <2> QED BY <1>1, <1>2, <2>1, <2>3, <2>4
<1> QED BY <1>1, <1>3, <1>4

(* The first of t goes to the end of s.                                    *)
LEMMA HandOver ==
  ASSUME NEW S, NEW s \in Seq(S), NEW t \in Seq(S), t # <<>>
  PROVE  Append(s, Head(t)) \o Tail(t) = s \o t
<1>1. /\ Append(s, Head(t)) = s \o <<Head(t)>> /\ <<Head(t)>> \in Seq(S)
      /\ Tail(t) \in Seq(S)
  BY TailFacts, AppendIsConcat
<1>2. <<Head(t)>> \o Tail(t) = t
  <2>1. t = SubSeq(t, 1, Len(t)) /\ Tail(t) = SubSeq(t, 2, Len(t)) /\ Head(t) = t[1]
    BY SubSeqFull, TailIsSubSeq, TailFacts
  <2>2. Len(t) \in Nat /\ Len(t) >= 1
    BY TailFacts
  <2>3. SubSeq(t, 1, Len(t)) = <<t[1]>> \o SubSeq(t, 1 + 1, Len(t))
    BY <2>2, SubSeqRecursiveFirst
  <2> QED BY <2>1, <2>3
<1> QED BY <1>1, <1>2, ConcatAssociative

(* Something is appended to the second half.                               *)
LEMMA AppendBack ==
  ASSUME NEW S, NEW s \in Seq(S), NEW t \in Seq(S), NEW e \in S
  PROVE  s \o Append(t, e) = Append(s \o t, e)
<1>1. Append(t, e) = t \o <<e>> /\ <<e>> \in Seq(S) /\ s \o t \in Seq(S)
  BY AppendIsConcat, ConcatProperties
<1>2. Append(s \o t, e) = (s \o t) \o <<e>>
  BY <1>1, AppendIsConcat
<1> QED BY <1>1, <1>2, ConcatAssociative

(* A sequence is cut in a first element, what follows up to n, and the rest.*)
LEMMA SplitFacts ==
  ASSUME NEW S, NEW s \in Seq(S), NEW n \in 1 .. Len(s)
  PROVE  /\ s # <<>> /\ Len(s) \in Nat /\ Head(s) = s[1] /\ s[1] \in S
         /\ SubSeq(s, 2, n) \in Seq(S) /\ Len(SubSeq(s, 2, n)) = n - 1
         /\ \A i \in 1 .. n - 1 : SubSeq(s, 2, n)[i] = s[i + 1]
         /\ SubSeq(s, n + 1, Len(s)) \in Seq(S)
         /\ Len(SubSeq(s, n + 1, Len(s))) = Len(s) - n
         /\ \A i \in 1 .. Len(s) - n : SubSeq(s, n + 1, Len(s))[i] = s[n + i]
<1>1. Len(s) \in Nat /\ n \in Nat /\ n >= 1 /\ n <= Len(s)
  BY LenProperties
<1>2. \A i \in 1 .. Len(s) : s[i] \in S
  BY ElementOfSeq
<1>3. s # <<>>
  BY <1>1, EmptySeq
<1>4. Head(s) = s[1] /\ s[1] \in S
  BY <1>3, TailFacts, <1>1, <1>2
<1>5. /\ SubSeq(s, 2, n) \in Seq(S)
      /\ Len(SubSeq(s, 2, n)) = IF 2 <= n THEN n - 2 + 1 ELSE 0
      /\ \A i \in 1 .. n - 2 + 1 : SubSeq(s, 2, n)[i] = s[2 + i - 1]
  <2>1. \A i \in 2 .. n : s[i] \in S
    BY <1>1, <1>2
  <2> QED BY <1>1, <2>1, SubSeqProperties
<1>6. /\ SubSeq(s, n + 1, Len(s)) \in Seq(S)
      /\ Len(SubSeq(s, n + 1, Len(s))) = IF n + 1 <= Len(s) THEN Len(s) - (n + 1) + 1 ELSE 0
      /\ \A i \in 1 .. Len(s) - (n + 1) + 1 : SubSeq(s, n + 1, Len(s))[i] = s[(n + 1) + i - 1]
  <2>1. \A i \in n + 1 .. Len(s) : s[i] \in S
    BY <1>1, <1>2
  <2>2. n + 1 \in Int /\ Len(s) \in Int
    BY <1>1
  <2> QED BY <2>1, <2>2, SubSeqProperties
<1>7. /\ Len(SubSeq(s, 2, n)) = n - 1
      /\ \A i \in 1 .. n - 1 : SubSeq(s, 2, n)[i] = s[i + 1]
  BY <1>1, <1>5
<1>8. /\ Len(SubSeq(s, n + 1, Len(s))) = Len(s) - n
      /\ \A i \in 1 .. Len(s) - n : SubSeq(s, n + 1, Len(s))[i] = s[n + i]
  BY <1>1, <1>6
<1> QED BY <1>1, <1>3, <1>4, <1>5, <1>6, <1>7, <1>8

LEMMA ConcatFacts ==
  ASSUME NEW S, NEW s \in Seq(S), NEW t \in Seq(S)
  PROVE  /\ s \o t \in Seq(S) /\ Len(s) \in Nat /\ Len(t) \in Nat
         /\ Len(s \o t) = Len(s) + Len(t)
         /\ \A i \in 1 .. Len(s) : (s \o t)[i] = s[i]
         /\ \A i \in 1 .. Len(t) : (s \o t)[Len(s) + i] = t[i]
<1>1. /\ s \o t \in Seq(S) /\ Len(s) \in Nat /\ Len(t) \in Nat
      /\ Len(s \o t) = Len(s) + Len(t)
      /\ \A i \in 1 .. Len(s) + Len(t) :
           (s \o t)[i] = IF i <= Len(s) THEN s[i] ELSE t[i - Len(s)]
  BY ConcatProperties, LenProperties
<1>2. \A i \in 1 .. Len(t) : Len(s) + i \in 1 .. Len(s) + Len(t) /\ (Len(s) + i) - Len(s) = i
                             /\ ~(Len(s) + i <= Len(s))
  BY <1>1
<1> QED BY <1>1, <1>2

(* One element, two elements.                                              *)
LEMMA OneFacts ==
  ASSUME NEW S, NEW a \in S
  PROVE  <<a>> \in Seq(S) /\ Len(<<a>>) = 1 /\ <<a>>[1] = a /\ ToSet(<<a>>) = {a}
<1>1. <<a>> \in Seq(S) /\ Len(<<a>>) = 1 /\ <<a>>[1] = a
  OBVIOUS
<1>2. ToSet(<<a>>) = {<<a>>[i] : i \in 1 .. 1}
  BY <1>1, ToSetFacts
<1> QED BY <1>1, <1>2

LEMMA TwoFacts ==
  ASSUME NEW S, NEW a \in S, NEW b \in S
  PROVE  /\ <<a, b>> \in Seq(S) /\ Len(<<a, b>>) = 2 /\ <<a, b>>[1] = a /\ <<a, b>>[2] = b
         /\ ToSet(<<a, b>>) = {a, b}
<1>1. <<a, b>> \in Seq(S) /\ Len(<<a, b>>) = 2 /\ <<a, b>>[1] = a /\ <<a, b>>[2] = b
  OBVIOUS
<1>2. ToSet(<<a, b>>) = {<<a, b>>[i] : i \in 1 .. 2}
  BY <1>1, ToSetFacts
<1> QED BY <1>1, <1>2

-----------------------------------------------------------------------------
(* The types.                                                              *)

(* A frame taken out of what the daemon has to read.                       *)
LEMMA ReceivedTypes ==
  ASSUME TypeOK, NEW c \in Clients, NEW msg, Received(c, msg)
  PROVE  /\ buf' \in [Clients -> Seq(FromClient)] /\ toDaemon' \in [Clients -> Seq(FromClient)]
         /\ \A d \in Clients : d # c => buf'[d] = buf[d] /\ toDaemon'[d] = toDaemon[d]
         /\ msg \in FromClient
<1>1. /\ buf \in [Clients -> Seq(FromClient)] /\ toDaemon \in [Clients -> Seq(FromClient)]
      /\ buf[c] \in Seq(FromClient) /\ toDaemon[c] \in Seq(FromClient)
  BY DEF TypeOK, ClientTypeOK, DaemonTypeOK
<1>2. CASE buf[c] # <<>>
  <2>1. Tail(buf[c]) \in Seq(FromClient) /\ Head(buf[c]) \in FromClient
    BY <1>1, <1>2, TailFacts
  <2>2. /\ msg = Head(buf[c]) /\ buf' = [buf EXCEPT ![c] = Tail(@)] /\ toDaemon' = toDaemon
    BY <1>2 DEF Received
  <2> QED BY <1>1, <2>1, <2>2
<1>3. CASE buf[c] = <<>>
  <2>1. PICK n \in 1 .. Len(toDaemon[c]) :
          /\ msg = Head(toDaemon[c])
          /\ buf' = [buf EXCEPT ![c] = SubSeq(toDaemon[c], 2, n)]
          /\ toDaemon' = [toDaemon EXCEPT ![c] = SubSeq(@, n + 1, Len(@))]
    BY <1>3 DEF Received
  <2>2. /\ SubSeq(toDaemon[c], 2, n) \in Seq(FromClient)
        /\ SubSeq(toDaemon[c], n + 1, Len(toDaemon[c])) \in Seq(FromClient)
        /\ Head(toDaemon[c]) \in FromClient
    BY <1>1, SplitFacts
  <2> QED BY <1>1, <2>1, <2>2
<1> QED BY <1>2, <1>3

(* The pieces of the type invariant that an action leaves alone.           *)
LEMMA TypesKept ==
  /\ ClientTypeOK /\ UNCHANGED clientVars => ClientTypeOK'
  /\ DaemonTypeOK /\ UNCHANGED daemonVars => DaemonTypeOK'
  /\ ChromiumTypeOK /\ UNCHANGED chromiumVars => ChromiumTypeOK'
<1>1. ClientTypeOK /\ UNCHANGED clientVars => ClientTypeOK'
  BY DEF ClientTypeOK, clientVars
<1>2. DaemonTypeOK /\ UNCHANGED daemonVars => DaemonTypeOK'
  BY DEF DaemonTypeOK, daemonVars
<1>3. ChromiumTypeOK /\ UNCHANGED chromiumVars => ChromiumTypeOK'
  BY DEF ChromiumTypeOK, chromiumVars
<1> QED BY <1>1, <1>2, <1>3

LEMMA FrameFacts ==
  /\ FromClient \subseteq Frames
  /\ Seq(FromClient) \subseteq Seq(Frames)
  /\ NoMsg \in Frames /\ NoMsg \notin FromClient
  /\ \A k \in Kinds : OfDaemon(k) \in Frames /\ OfDaemon(k) \notin FromClient
  /\ NoLine \notin FromClient
  /\ \A m \in FromClient : m.id \in 1 .. MaxLines /\ m.kind \in Kinds \cup {"broken"}
<1>1. FromClient \subseteq Frames
  BY DEF FromClient, Frames
<1>2. Seq(FromClient) \subseteq Seq(Frames)
  BY <1>1, SeqMonotonic
<1>3. \A k \in Kinds : OfDaemon(k) \in Frames /\ OfDaemon(k) \notin FromClient
  BY DEF OfDaemon, Frames, FromClient
<1>4. NoMsg \in Frames /\ NoMsg \notin FromClient
  BY <1>3 DEF NoMsg, Kinds
<1>5. NoLine \notin FromClient
  BY DEF NoLine, FromClient
<1>6. \A m \in FromClient : m.id \in 1 .. MaxLines /\ m.kind \in Kinds \cup {"broken"}
  BY DEF FromClient
<1> QED BY <1>1, <1>2, <1>3, <1>4, <1>5, <1>6

LEMMA SendTypes ==
  ASSUME ClientTypeOK, NEW c \in Clients, NEW msg \in FromClient, NEW open \in BOOLEAN,
         SendFrame(c, msg, open)
  PROVE  /\ sent' \in [Clients -> Seq(FromClient)]
         /\ toDaemon' \in [Clients -> Seq(FromClient)]
         /\ process' \in [Clients -> BOOLEAN]
<1>1. /\ sent \in [Clients -> Seq(FromClient)] /\ toDaemon \in [Clients -> Seq(FromClient)]
      /\ process \in [Clients -> BOOLEAN]
  BY DEF ClientTypeOK
<1>2. Append(sent[c], msg) \in Seq(FromClient) /\ Append(toDaemon[c], msg) \in Seq(FromClient)
  BY <1>1, AppendFacts
<1> QED BY <1>1, <1>2 DEF SendFrame

(* The pieces at hand when stdin is read.                                  *)
LEMMA PieceTypes ==
  ASSUME ClientTypeOK, NEW c \in Clients, stdin[c] # <<>>
  PROVE  /\ Head(stdin[c]) \in Pieces /\ Tail(stdin[c]) \in Seq(Pieces)
         /\ Head(stdin[c]).msg \in FromClient
         /\ held[c] # NoLine => held[c] \in FromClient
         /\ (IF held[c] = NoLine THEN Head(stdin[c]).msg ELSE held[c]) \in FromClient
<1>1. stdin[c] \in Seq(Pieces) /\ held[c] \in FromClient \cup {NoLine}
  BY DEF ClientTypeOK
<1>2. Head(stdin[c]) \in Pieces /\ Tail(stdin[c]) \in Seq(Pieces)
  BY <1>1, TailFacts
<1>3. Head(stdin[c]).msg \in FromClient
  BY <1>2 DEF Pieces
<1> QED BY <1>1, <1>2, <1>3

LEMMA WriterTypes ==
  ASSUME ClientTypeOK, NEW c \in Clients,
         WriteLine(c) \/ WriteRest(c) \/ CloseStdin(c) \/ ProcessEnds(c)
  PROVE  ClientTypeOK'
<1> USE DEF ClientTypeOK
<1>1. CASE WriteLine(c)
  <2>1. PICK k \in Kinds, part \in {"whole", "head"} :
          /\ stdin' = [stdin EXCEPT ![c] = Append(@,
               [msg |-> [from |-> "client", id |-> written[c] + 1, kind |-> k], part |-> part])]
          /\ peer' = [peer EXCEPT ![c] = IF part = "head" THEN "halfway" ELSE @]
    BY <1>1 DEF WriteLine
  <2> DEFINE msg == [from |-> "client", id |-> written[c] + 1, kind |-> k]
  <2>2. written[c] + 1 \in 1 .. MaxLines
    BY <1>1 DEF WriteLine
  <2>3. msg \in FromClient
    BY <2>2 DEF FromClient
  <2>4. [msg |-> msg, part |-> part] \in Pieces
    BY <2>3 DEF Pieces
  <2>5. Append(stdin[c], [msg |-> msg, part |-> part]) \in Seq(Pieces)
    BY <2>4, AppendFacts
  <2>6. stdin' \in [Clients -> Seq(Pieces)]
    BY <2>1, <2>5
  <2>7. written' \in [Clients -> 0 .. MaxLines] /\ peer' \in [Clients -> {"writing", "halfway", "closed"}]
        /\ \A d \in Clients : peer'[d] = "halfway" => written'[d] >= 1
    <3>1. written' = [written EXCEPT ![c] = @ + 1] /\ written[c] + 1 \in 0 .. MaxLines
      BY <1>1, <2>2 DEF WriteLine
    <3>2. \A d \in Clients : d # c => peer'[d] = peer[d] /\ written'[d] = written[d]
      BY <2>1, <3>1
    <3>3. written'[c] >= 1
      BY <2>2, <3>1
    <3>4. \A d \in Clients : peer'[d] = "halfway" => written'[d] >= 1
      BY <3>2, <3>3
    <3> QED BY <2>1, <3>1, <3>4
  <2> QED BY <1>1, <2>6, <2>7 DEF WriteLine
<1>2. CASE WriteRest(c)
  <2> DEFINE m == [msg |-> [from |-> "client", id |-> written[c], kind |-> "broken"], part |-> "tail"]
  <2>1. written[c] \in 1 .. MaxLines
    BY <1>2 DEF WriteRest
  <2>2. m \in Pieces
    BY <2>1 DEF Pieces, FromClient
  <2>3. Append(stdin[c], m) \in Seq(Pieces)
    BY <2>2, AppendFacts
  <2>4. stdin' \in [Clients -> Seq(Pieces)]
    BY <1>2, <2>3 DEF WriteRest
  <2> QED BY <1>2, <2>4 DEF WriteRest
<1>3. CASE CloseStdin(c) \/ ProcessEnds(c)
  BY <1>3 DEF CloseStdin, ProcessEnds
<1> QED BY <1>1, <1>2, <1>3

LEMMA ClientStepTypes ==
  ASSUME ClientTypeOK, NEW c \in Clients, NEW open \in BOOLEAN, ClientStep(c, open)
  PROVE  ClientTypeOK'
<1>1. CASE OnStdin(c, open)
  <2>1. stdin' \in [Clients -> Seq(Pieces)]
    BY <1>1, PieceTypes DEF OnStdin, ClientTypeOK
  <2>2. CASE held' = [held EXCEPT ![c] = Head(stdin[c]).msg] /\ UNCHANGED <<process, sent, toDaemon>>
    <3>1. held' \in [Clients -> FromClient \cup {NoLine}]
      BY <1>1, <2>2, PieceTypes DEF OnStdin, ClientTypeOK
    <3> QED BY <1>1, <2>1, <2>2, <3>1 DEF OnStdin, ClientTypeOK
  <2>3. CASE /\ held' = [held EXCEPT ![c] = NoLine]
             /\ SendFrame(c, IF held[c] = NoLine THEN Head(stdin[c]).msg ELSE held[c], open)
    <3>1. /\ sent' \in [Clients -> Seq(FromClient)]
          /\ toDaemon' \in [Clients -> Seq(FromClient)]
          /\ process' \in [Clients -> BOOLEAN]
      BY <1>1, <2>3, PieceTypes, SendTypes DEF OnStdin
    <3> QED BY <1>1, <2>1, <2>3, <3>1 DEF OnStdin, ClientTypeOK
  <2> QED BY <1>1, <2>2, <2>3 DEF OnStdin
<1>2. CASE OnSelectTimeout(c, open)
  <2>1. [held[c] EXCEPT !.kind = "broken"] \in FromClient
    BY <1>2 DEF OnSelectTimeout, ClientTypeOK, FromClient
  <2>2. /\ sent' \in [Clients -> Seq(FromClient)]
        /\ toDaemon' \in [Clients -> Seq(FromClient)]
        /\ process' \in [Clients -> BOOLEAN]
    BY <1>2, <2>1, SendTypes DEF OnSelectTimeout
  <2> QED BY <1>2, <2>2 DEF OnSelectTimeout, ClientTypeOK
<1>3. CASE OnSocket(c)
  <2>1. toClient[c] \in Seq(Frames) /\ got[c] \in Seq(Frames)
    BY DEF ClientTypeOK
  <2>2. Head(toClient[c]) \in Frames /\ Tail(toClient[c]) \in Seq(Frames)
    BY <1>3, <2>1, TailFacts DEF OnSocket
  <2>3. Append(got[c], Head(toClient[c])) \in Seq(Frames)
    BY <2>1, <2>2, AppendFacts
  <2> QED BY <1>3, <2>2, <2>3 DEF OnSocket, ClientTypeOK
<1>4. CASE Returns(c, open)
  BY <1>4 DEF Returns, ProcessEnds, ClientTypeOK
<1> QED BY <1>1, <1>2, <1>3, <1>4 DEF ClientStep

LEMMA OverTypes ==
  ASSUME TypeOK, NEW c \in Clients, Over(c),
         UNCHANGED <<initialized, cache>>, relay' \in [Clients -> SUBSET {"up", "down"}]
  PROVE  DaemonTypeOK'
<1>1. buf' \in [Clients -> Seq(FromClient)]
  BY EmptySeq DEF Over, TypeOK, DaemonTypeOK
<1>2. handler' \in [Clients -> Handlers] /\ current' \in [Clients -> FromClient \cup {NoMsg}]
  BY DEF Over, TypeOK, DaemonTypeOK, Handlers
<1>3. clientSock' \in [Clients -> BOOLEAN] /\ crSock' \in [Clients -> {"none", "open", "reset", "closed"}]
  BY DEF Over, TypeOK, DaemonTypeOK
<1> QED BY <1>1, <1>2, <1>3 DEF TypeOK, DaemonTypeOK

LEMMA ToChromiumTypes ==
  ASSUME TypeOK, NEW c \in Clients, NEW msgs \in Seq(Frames), ToChromium(c, msgs)
  PROVE  arrived' \in [Clients -> Seq(Frames)] /\ due' \in [Clients -> SUBSET Frames]
<1>1. arrived \in [Clients -> Seq(Frames)] /\ due \in [Clients -> SUBSET Frames]
  BY DEF TypeOK, ChromiumTypeOK
<1>2. arrived[c] \o msgs \in Seq(Frames) /\ ToSet(msgs) \subseteq Frames
  BY <1>1, ConcatFacts, ToSetFacts
<1> QED BY <1>1, <1>2 DEF ToChromium

LEMMA AnswerTypes ==
  ASSUME TypeOK, NEW c \in Clients, NEW msg \in Frames, Answer(c, msg)
  PROVE  toClient' \in [Clients -> Seq(Frames)]
<1>1. toClient \in [Clients -> Seq(Frames)] /\ toClient[c] \in Seq(Frames)
  BY DEF TypeOK, ClientTypeOK
<1>2. Append(toClient[c], msg) \in Seq(Frames)
  BY <1>1, AppendFacts
<1> QED BY <1>1, <1>2 DEF Answer

LEMMA CrTailTypes ==
  ASSUME TypeOK, NEW c \in Clients, fromCr[c] # <<>>,
         fromCr' = [fromCr EXCEPT ![c] = Tail(@)]
  PROVE  fromCr' \in [Clients -> Seq(Frames)] /\ Head(fromCr[c]) \in Frames
<1>1. fromCr \in [Clients -> Seq(Frames)] /\ fromCr[c] \in Seq(Frames)
  BY DEF TypeOK, ChromiumTypeOK
<1>2. Tail(fromCr[c]) \in Seq(Frames) /\ Head(fromCr[c]) \in Frames
  BY <1>1, TailFacts
<1> QED BY <1>1, <1>2

LEMMA ReadingTypes ==
  ASSUME TypeOK, NEW c \in Clients, AnswerItself(c) \/ Absorb(c) \/ NeedChromium(c)
  PROVE  TypeOK'
<1>1. CASE AnswerItself(c)
  <2>1. PICK msg \in FromClient : Received(c, msg) /\ Answer(c, msg)
    BY <1>1 DEF AnswerItself
  <2>2. /\ buf' \in [Clients -> Seq(FromClient)] /\ toDaemon' \in [Clients -> Seq(FromClient)]
    BY <2>1, ReceivedTypes
  <2>3. toClient' \in [Clients -> Seq(Frames)]
    BY <2>1, FrameFacts, AnswerTypes
  <2>4. ClientTypeOK'
    BY <1>1, <2>2, <2>3 DEF AnswerItself, unchangedClient, TypeOK, ClientTypeOK
  <2>5. DaemonTypeOK'
    BY <1>1, <2>2 DEF AnswerItself, TypeOK, DaemonTypeOK
  <2> QED BY <1>1, <2>4, <2>5, TypesKept DEF AnswerItself, TypeOK
<1>2. CASE Absorb(c)
  <2>1. PICK msg \in FromClient : Received(c, msg)
    BY <1>2 DEF Absorb
  <2>2. /\ buf' \in [Clients -> Seq(FromClient)] /\ toDaemon' \in [Clients -> Seq(FromClient)]
    BY <2>1, ReceivedTypes
  <2>4. ClientTypeOK'
    BY <1>2, <2>2 DEF Absorb, unchangedClient, TypeOK, ClientTypeOK
  <2>5. DaemonTypeOK'
    BY <1>2, <2>2 DEF Absorb, TypeOK, DaemonTypeOK
  <2> QED BY <1>2, <2>4, <2>5, TypesKept DEF Absorb, TypeOK
<1>3. CASE NeedChromium(c)
  <2>1. PICK msg \in FromClient : Received(c, msg) /\ current' = [current EXCEPT ![c] = msg]
    BY <1>3 DEF NeedChromium
  <2>2. /\ buf' \in [Clients -> Seq(FromClient)] /\ toDaemon' \in [Clients -> Seq(FromClient)]
    BY <2>1, ReceivedTypes
  <2>3. current' \in [Clients -> FromClient \cup {NoMsg}] /\ handler' \in [Clients -> Handlers]
    BY <1>3, <2>1 DEF NeedChromium, TypeOK, DaemonTypeOK, Handlers, Staged
  <2>4. ClientTypeOK'
    BY <1>3, <2>2 DEF NeedChromium, unchangedClient, TypeOK, ClientTypeOK
  <2>5. DaemonTypeOK'
    BY <1>3, <2>2, <2>3 DEF NeedChromium, TypeOK, DaemonTypeOK
  <2> QED BY <1>3, <2>4, <2>5, TypesKept DEF NeedChromium, TypeOK
<1> QED BY <1>1, <1>2, <1>3

LEMMA HandshakeTypes ==
  ASSUME TypeOK, NEW c \in Clients,
         \/ GiveUp(c) \/ WaitReady(c) \/ ConnectChromium(c) \/ OnInitialized(c)
         \/ OnTools(c) \/ HandshakeFails(c) \/ HandshakeDone(c) \/ BridgeEnds(c)
  PROVE  TypeOK'
<1> USE DEF TypeOK
<1>1. CASE GiveUp(c)
  BY <1>1, OverTypes, TypesKept DEF GiveUp, DaemonTypeOK
<1>2. CASE WaitReady(c)
  <2>1. CASE handler' = [handler EXCEPT ![c] = "connect"] /\ UNCHANGED <<buf, current, clientSock, crSock>>
    <3>1. DaemonTypeOK'
      BY <1>2, <2>1 DEF WaitReady, DaemonTypeOK, Handlers, Staged
    <3> QED BY <1>2, <3>1, TypesKept DEF WaitReady
  <2>2. CASE Over(c)
    BY <1>2, <2>2, OverTypes, TypesKept DEF WaitReady, DaemonTypeOK
  <2> QED BY <1>2, <2>1, <2>2 DEF WaitReady
<1>3. CASE ConnectChromium(c)
  <2>1. CASE Over(c) /\ UNCHANGED <<arrived, due>>
    BY <1>3, <2>1, OverTypes, TypesKept DEF ConnectChromium, DaemonTypeOK, chromiumVars
  <2>2. CASE /\ crSock' = [crSock EXCEPT ![c] = "open"]
             /\ handler' = [handler EXCEPT ![c] = "init"]
             /\ ToChromium(c, <<OfDaemon("initialize")>>)
             /\ UNCHANGED <<buf, current, clientSock>>
    <3>1. DaemonTypeOK'
      BY <1>3, <2>2 DEF ConnectChromium, DaemonTypeOK, Handlers, Staged
    <3>2. <<OfDaemon("initialize")>> \in Seq(Frames)
      BY FrameFacts, OneFacts DEF Kinds
    <3>3. ChromiumTypeOK'
      BY <1>3, <2>2, <3>2, ToChromiumTypes DEF ConnectChromium, ChromiumTypeOK
    <3> QED BY <1>3, <3>1, <3>3, TypesKept DEF ConnectChromium
  <2> QED BY <1>3, <2>1, <2>2 DEF ConnectChromium
<1>4. CASE OnInitialized(c)
  <2>1. fromCr' \in [Clients -> Seq(Frames)]
    BY <1>4, CrTailTypes DEF OnInitialized
  <2>2. CASE Over(c) /\ UNCHANGED <<arrived, due>>
    <3>1. ChromiumTypeOK'
      BY <1>4, <2>1, <2>2 DEF OnInitialized, ChromiumTypeOK
    <3> QED BY <1>4, <2>2, <3>1, OverTypes, TypesKept DEF OnInitialized, DaemonTypeOK
  <2>3. CASE /\ handler' = [handler EXCEPT ![c] = "tools"]
             /\ ToChromium(c, <<OfDaemon("notification"), OfDaemon("list")>>)
             /\ UNCHANGED <<buf, current, clientSock, crSock>>
    <3>1. DaemonTypeOK'
      BY <1>4, <2>3 DEF OnInitialized, DaemonTypeOK, Handlers, Staged
    <3>2. <<OfDaemon("notification"), OfDaemon("list")>> \in Seq(Frames)
      BY FrameFacts, TwoFacts DEF Kinds
    <3>3. ChromiumTypeOK'
      BY <1>4, <2>1, <2>3, <3>2, ToChromiumTypes DEF OnInitialized, ChromiumTypeOK
    <3> QED BY <1>4, <3>1, <3>3, TypesKept DEF OnInitialized
  <2> QED BY <1>4, <2>2, <2>3 DEF OnInitialized
<1>5. CASE OnTools(c)
  <2>1. fromCr' \in [Clients -> Seq(Frames)]
    BY <1>5, CrTailTypes DEF OnTools
  <2>2. ChromiumTypeOK'
    BY <1>5, <2>1 DEF OnTools, ChromiumTypeOK
  <2>3. DaemonTypeOK'
    BY <1>5 DEF OnTools, DaemonTypeOK, Handlers, Staged
  <2> QED BY <1>5, <2>2, <2>3, TypesKept DEF OnTools
<1>6. CASE HandshakeFails(c)
  BY <1>6, OverTypes, TypesKept DEF HandshakeFails, DaemonTypeOK
<1>7. CASE HandshakeDone(c)
  <2>1. initialized' \in [Clients -> BOOLEAN] /\ cache' = "full" /\ ChromiumTypeOK'
    BY <1>7, TypesKept DEF HandshakeDone, DaemonTypeOK
  <2>2. CASE /\ Answer(c, current[c])
             /\ handler' = [handler EXCEPT ![c] = "read"]
             /\ current' = [current EXCEPT ![c] = NoMsg]
             /\ UNCHANGED <<buf, clientSock, crSock>>
    <3>1. current[c] \in Frames
      BY FrameFacts DEF DaemonTypeOK
    <3>2. ClientTypeOK'
      BY <1>7, <2>2, <3>1, AnswerTypes DEF HandshakeDone, unchangedClient, ClientTypeOK
    <3>3. DaemonTypeOK'
      BY <1>7, <2>1, <2>2 DEF HandshakeDone, DaemonTypeOK, Handlers
    <3> QED BY <2>1, <3>2, <3>3
  <2>3. CASE Over(c) /\ UNCHANGED toClient
    <3>1. ClientTypeOK'
      BY <1>7, <2>3 DEF HandshakeDone, unchangedClient, ClientTypeOK
    <3>2. buf' \in [Clients -> Seq(FromClient)]
      BY <2>3, EmptySeq DEF Over, DaemonTypeOK
    <3>3. DaemonTypeOK'
      BY <1>7, <2>1, <2>3, <3>2 DEF HandshakeDone, Over, DaemonTypeOK, Handlers
    <3> QED BY <2>1, <3>1, <3>3
  <2>4. CASE /\ handler' = [handler EXCEPT ![c] = "forward"]
             /\ UNCHANGED <<buf, current, clientSock, crSock, toClient>>
    <3>1. ClientTypeOK'
      BY <1>7, <2>4 DEF HandshakeDone, unchangedClient, ClientTypeOK
    <3>2. DaemonTypeOK'
      BY <1>7, <2>1, <2>4 DEF HandshakeDone, DaemonTypeOK, Handlers, Staged
    <3> QED BY <2>1, <3>1, <3>2
  <2> QED BY <1>7, <2>2, <2>3, <2>4 DEF HandshakeDone
<1>8. CASE BridgeEnds(c)
  BY <1>8, OverTypes, TypesKept DEF BridgeEnds, DaemonTypeOK
<1> QED BY <1>1, <1>2, <1>3, <1>4, <1>5, <1>6, <1>7, <1>8

LEMMA ForwardTypes ==
  ASSUME TypeOK, NEW c \in Clients, Forward(c)
  PROVE  TypeOK'
<1>1. ClientTypeOK'
  BY TypesKept DEF Forward, TypeOK
<1>2. CASE Over(c) /\ UNCHANGED <<relay, arrived, due>>
  <2>1. DaemonTypeOK'
    BY <1>2, OverTypes DEF Forward, TypeOK, DaemonTypeOK
  <2> QED BY <1>1, <1>2, <2>1, TypesKept DEF Forward, TypeOK, chromiumVars
<1>3. CASE /\ ToChromium(c, <<current[c]>> \o buf[c])
           /\ buf' = [buf EXCEPT ![c] = <<>>]
           /\ current' = [current EXCEPT ![c] = NoMsg]
           /\ handler' = [handler EXCEPT ![c] = "bridge"]
           /\ relay' = [relay EXCEPT ![c] = {"up", "down"}]
           /\ UNCHANGED <<clientSock, crSock>>
  <2>1. current[c] \in Frames /\ buf[c] \in Seq(Frames)
    BY FrameFacts DEF TypeOK, DaemonTypeOK
  <2>2. <<current[c]>> \o buf[c] \in Seq(Frames)
    BY <2>1, OneFacts, ConcatFacts
  <2>3. ChromiumTypeOK'
    BY <1>3, <2>2, ToChromiumTypes DEF Forward, TypeOK, ChromiumTypeOK
  <2>4. buf' \in [Clients -> Seq(FromClient)]
    BY <1>3, EmptySeq DEF TypeOK, DaemonTypeOK
  <2>5. DaemonTypeOK'
    BY <1>3, <2>4 DEF Forward, TypeOK, DaemonTypeOK, Handlers
  <2> QED BY <1>1, <2>3, <2>5 DEF TypeOK
<1> QED BY <1>2, <1>3 DEF Forward

LEMMA RelayOverTypes ==
  ASSUME TypeOK, NEW c \in Clients, NEW way \in {"up", "down"}, RelayOver(c, way),
         UNCHANGED <<handler, buf, current, initialized, cache>>
  PROVE  DaemonTypeOK'
BY DEF RelayOver, TypeOK, DaemonTypeOK

LEMMA RelayTypes ==
  ASSUME TypeOK, NEW c \in Clients,
         RelayUp(c) \/ RelayDown(c) \/ RelayEnds(c) \/ ChromiumAnswers(c)
  PROVE  TypeOK'
<1>1. CASE RelayUp(c)
  <2>1. toDaemon[c] \in Seq(FromClient) /\ toDaemon \in [Clients -> Seq(FromClient)]
    BY DEF TypeOK, ClientTypeOK
  <2>2. Head(toDaemon[c]) \in FromClient /\ Tail(toDaemon[c]) \in Seq(FromClient)
    BY <1>1, <2>1, TailFacts DEF RelayUp
  <2>3. ClientTypeOK'
    BY <1>1, <2>2 DEF RelayUp, unchangedClient, TypeOK, ClientTypeOK
  <2>4. CASE RelayOver(c, "up") /\ UNCHANGED <<arrived, due>>
    BY <1>1, <2>3, <2>4, RelayOverTypes, TypesKept DEF RelayUp, TypeOK, chromiumVars
  <2>5. CASE ToChromium(c, <<Head(toDaemon[c])>>) /\ UNCHANGED <<relay, clientSock, crSock>>
    <3>1. <<Head(toDaemon[c])>> \in Seq(Frames)
      BY <2>2, FrameFacts, OneFacts
    <3>2. ChromiumTypeOK'
      BY <1>1, <2>5, <3>1, ToChromiumTypes DEF RelayUp, TypeOK, ChromiumTypeOK
    <3> QED BY <1>1, <2>3, <2>5, <3>2, TypesKept DEF RelayUp, TypeOK, daemonVars
  <2> QED BY <1>1, <2>4, <2>5 DEF RelayUp
<1>2. CASE RelayDown(c)
  <2>1. fromCr' \in [Clients -> Seq(Frames)] /\ Head(fromCr[c]) \in Frames
    BY <1>2, CrTailTypes DEF RelayDown
  <2>2. ChromiumTypeOK'
    BY <1>2, <2>1 DEF RelayDown, TypeOK, ChromiumTypeOK
  <2>3. CASE Answer(c, Head(fromCr[c])) /\ UNCHANGED <<relay, clientSock, crSock>>
    <3>1. toClient' \in [Clients -> Seq(Frames)]
      BY <2>1, <2>3, AnswerTypes
    <3>2. ClientTypeOK'
      BY <1>2, <3>1 DEF RelayDown, unchangedClient, TypeOK, ClientTypeOK
    <3> QED BY <1>2, <2>2, <2>3, <3>2, TypesKept DEF RelayDown, TypeOK, daemonVars
  <2>4. CASE RelayOver(c, "down") /\ UNCHANGED toClient
    <3>1. ClientTypeOK'
      BY <1>2, <2>4 DEF RelayDown, unchangedClient, TypeOK, ClientTypeOK
    <3> QED BY <1>2, <2>2, <2>4, <3>1, RelayOverTypes DEF RelayDown, TypeOK
  <2> QED BY <1>2, <2>3, <2>4 DEF RelayDown
<1>3. CASE RelayEnds(c)
  BY <1>3, RelayOverTypes, TypesKept DEF RelayEnds, TypeOK
<1>4. CASE ChromiumAnswers(c)
  <2>1. PICK m \in due[c] : /\ due' = [due EXCEPT ![c] = @ \ {m}]
                            /\ fromCr' = [fromCr EXCEPT ![c] = Append(@, m)]
    BY <1>4 DEF ChromiumAnswers
  <2>2. fromCr[c] \in Seq(Frames) /\ m \in Frames
    BY DEF TypeOK, ChromiumTypeOK
  <2>3. Append(fromCr[c], m) \in Seq(Frames)
    BY <2>2, AppendFacts
  <2>4. ChromiumTypeOK'
    BY <1>4, <2>1, <2>3 DEF ChromiumAnswers, TypeOK, ChromiumTypeOK
  <2> QED BY <1>4, <2>4, TypesKept DEF ChromiumAnswers, TypeOK
<1> QED BY <1>1, <1>2, <1>3, <1>4

LEMMA OutsideTypes ==
  ASSUME TypeOK, OthersSave \/ ChromiumDies \/ ChromiumComes
  PROVE  TypeOK'
<1>1. CASE OthersSave
  <2>1. DaemonTypeOK'
    BY <1>1 DEF OthersSave, TypeOK, DaemonTypeOK
  <2> QED BY <1>1, <2>1, TypesKept DEF OthersSave, TypeOK
<1>2. CASE ChromiumDies
  <2>1. DaemonTypeOK'
    BY <1>2 DEF ChromiumDies, TypeOK, DaemonTypeOK
  <2>2. ChromiumTypeOK'
    <3>1. deaths' \in 0 .. MaxDeaths /\ up' \in BOOLEAN
      <4>1. deaths \in 0 .. MaxDeaths /\ deaths < MaxDeaths /\ deaths' = deaths + 1
        BY <1>2 DEF ChromiumDies, TypeOK, ChromiumTypeOK
      <4>2. deaths' \in 0 .. MaxDeaths
        BY <4>1, DeathsAssumption
      <4>3. up' = FALSE
        BY <1>2 DEF ChromiumDies
      <4> QED BY <4>2, <4>3
    <3>2. due' \in [Clients -> SUBSET Frames]
      <4>1. {} \in SUBSET Frames
        OBVIOUS
      <4> QED BY <1>2, <4>1 DEF ChromiumDies
    <3> QED BY <1>2, <3>1, <3>2 DEF ChromiumDies, TypeOK, ChromiumTypeOK
  <2> QED BY <1>2, <2>1, <2>2, TypesKept DEF ChromiumDies, TypeOK
<1>3. CASE ChromiumComes
  <2>1. ChromiumTypeOK'
    BY <1>3 DEF ChromiumComes, TypeOK, ChromiumTypeOK
  <2> QED BY <1>3, <2>1, TypesKept DEF ChromiumComes, TypeOK
<1> QED BY <1>1, <1>2, <1>3

LEMMA InitTypes == Init => TypeOK
<1> SUFFICES ASSUME Init PROVE TypeOK
  OBVIOUS
<1>1. \A S : <<>> \in Seq(S)
  BY EmptySeq
<1>2. ClientTypeOK
  BY <1>1 DEF Init, ClientInit, ClientTypeOK
<1>3. DaemonTypeOK
  BY <1>1 DEF Init, DaemonTypeOK, Handlers
<1>4. ChromiumTypeOK
  BY <1>1 DEF Init, ChromiumTypeOK
<1> QED BY <1>2, <1>3, <1>4 DEF TypeOK

LEMMA NextTypes ==
  ASSUME TypeOK, Next
  PROVE  TypeOK'
<1>1. ASSUME NEW c \in Clients, Handles(c)
      PROVE  TypeOK'
  BY <1>1, ReadingTypes, HandshakeTypes, ForwardTypes DEF Handles
<1>2. ASSUME NEW c \in Clients, RelayUp(c) \/ RelayDown(c) \/ RelayEnds(c) \/ ChromiumAnswers(c)
      PROVE  TypeOK'
  BY <1>2, RelayTypes
<1>3. ASSUME NEW c \in Clients, Bridges(c)
      PROVE  TypeOK'
  <2>1. clientSock[c] \in BOOLEAN
    BY DEF TypeOK, DaemonTypeOK
  <2> QED BY <1>3, <2>1, ClientStepTypes, TypesKept DEF Bridges, TypeOK
<1>4. ASSUME NEW c \in Clients, WriteLine(c) \/ WriteRest(c) \/ CloseStdin(c) \/ ProcessEnds(c),
             UNCHANGED <<daemonVars, chromiumVars>>
      PROVE  TypeOK'
  BY <1>4, WriterTypes, TypesKept DEF TypeOK
<1> QED BY <1>1, <1>2, <1>3, <1>4, OutsideTypes DEF Next

-----------------------------------------------------------------------------
(* What a step leaves alone.                                               *)
SameLines(c) ==
  stdin'[c] = stdin[c] /\ written'[c] = written[c] /\ held'[c] = held[c] /\ sent'[c] = sent[c]

SameFlow(c) ==
  /\ sent'[c] = sent[c] /\ buf'[c] = buf[c] /\ toDaemon'[c] = toDaemon[c]
  /\ handler'[c] = handler[c] /\ current'[c] = current[c]

SameChromium(c) ==
  /\ initialized'[c] = initialized[c] /\ relay'[c] = relay[c]
  /\ arrived'[c] = arrived[c] /\ due'[c] = due[c] /\ fromCr'[c] = fromCr[c]

SameBack(c) == got'[c] = got[c] /\ toClient'[c] = toClient[c]

Same(c) == SameLines(c) /\ SameFlow(c) /\ SameChromium(c) /\ SameBack(c)

LEMMA KeptLines ==
  ASSUME NEW c \in Clients, SameLines(c), LinesOnce(c)
  PROVE  LinesOnce(c)'
BY DEF SameLines, LinesOnce, Fresh, Ahead

LEMMA KeptFlow ==
  ASSUME NEW c \in Clients, SameFlow(c)
  PROVE  /\ Read(c)' = Read(c) /\ Taken(c)' = Taken(c)
         /\ Buffered(c) => Buffered(c)'
         /\ AtHand(c) => AtHand(c)'
         /\ \A m : IsTaken(c, m)' <=> IsTaken(c, m)
<1>1. Read(c)' = Read(c) /\ Taken(c)' = Taken(c)
  BY DEF SameFlow, Read, Taken
<1>2. Buffered(c) => Buffered(c)'
  BY <1>1 DEF SameFlow, Buffered
<1>3. AtHand(c) => AtHand(c)'
  BY <1>1 DEF SameFlow, AtHand
<1>4. \A m : IsTaken(c, m)' <=> IsTaken(c, m)
  BY <1>1 DEF SameFlow, IsTaken
<1> QED BY <1>1, <1>2, <1>3, <1>4

LEMMA KeptAll ==
  ASSUME NEW c \in Clients, Same(c), CInv(c)
  PROVE  CInv(c)'
<1>1. LinesOnce(c)'
  BY KeptLines DEF Same, CInv
<1>2. Buffered(c)' /\ AtHand(c)'
  BY KeptFlow DEF Same, CInv
<1>3. Read(c)' = Read(c) /\ Back(c)' = Back(c) /\ \A m : IsTaken(c, m)' <=> IsTaken(c, m)
  BY KeptFlow DEF Same, SameBack, Back
<1>4. Stages(c)'
  BY DEF Same, SameFlow, SameChromium, CInv, Stages, Quiet, Owes
<1>5. Streamed(c)'
  BY <1>3 DEF Same, SameFlow, SameChromium, CInv, Streamed, From
<1>6. Answers(c)'
  BY <1>3 DEF CInv, Answers
<1>7. Owed(c)'
  BY <1>3 DEF Same, SameFlow, SameChromium, CInv, Owed
<1> QED BY <1>1, <1>2, <1>4, <1>5, <1>6, <1>7 DEF CInv

LEMMA Counts ==
  ASSUME TypeOK, NEW c \in Clients, Buffered(c), AtHand(c)
  PROVE  /\ Len(sent[c]) \in Nat /\ Len(buf[c]) \in Nat /\ Len(toDaemon[c]) \in Nat
         /\ Read(c) \in Nat /\ Len(sent[c]) = Read(c) + Len(buf[c]) + Len(toDaemon[c])
         /\ Taken(c) \in Nat /\ Taken(c) <= Read(c)
<1>1. Len(sent[c]) \in Nat /\ Len(buf[c]) \in Nat /\ Len(toDaemon[c]) \in Nat
  <2>1. /\ sent[c] \in Seq(FromClient) /\ buf[c] \in Seq(FromClient)
        /\ toDaemon[c] \in Seq(FromClient)
    BY DEF TypeOK, ClientTypeOK, DaemonTypeOK
  <2>2. \A s \in Seq(FromClient) : Len(s) \in Nat
    BY LenProperties
  <2> QED BY <2>1, <2>2
<1>2. Read(c) = Len(sent[c]) - Len(buf[c]) - Len(toDaemon[c]) /\ Read(c) >= 0
  BY DEF Buffered, Read
<1>3. Read(c) \in Nat /\ Len(sent[c]) = Read(c) + Len(buf[c]) + Len(toDaemon[c])
  <2> DEFINE r == Read(c)  s == Len(sent[c])  b == Len(buf[c])  t == Len(toDaemon[c])
  <2>1. r = s - b - t /\ r >= 0 /\ s \in Nat /\ b \in Nat /\ t \in Nat
    BY <1>1, <1>2
  <2> HIDE DEF r, s, b, t
  <2>2. r \in Nat /\ s = r + b + t
    BY <2>1
  <2> QED BY <2>2 DEF r, s, b, t
<1>4. \/ Taken(c) = Read(c)
      \/ Taken(c) = Read(c) - 1 /\ Read(c) >= 1
  BY DEF AtHand, Taken
<1> QED BY <1>1, <1>3, <1>4

(* The other clients.                                                      *)
LEMMA OverOthers ==
  ASSUME TypeOK, NEW c \in Clients, NEW d \in Clients, d # c, Over(c)
  PROVE  handler'[d] = handler[d] /\ buf'[d] = buf[d] /\ current'[d] = current[d]
BY DEF Over, TypeOK, DaemonTypeOK

LEMMA ToChromiumOthers ==
  ASSUME TypeOK, NEW c \in Clients, NEW d \in Clients, d # c, NEW msgs, ToChromium(c, msgs)
  PROVE  arrived'[d] = arrived[d] /\ due'[d] = due[d]
BY DEF ToChromium, TypeOK, ChromiumTypeOK

LEMMA ClientOthers ==
  ASSUME TypeOK, NEW c \in Clients, NEW d \in Clients, d # c, NEW open \in BOOLEAN,
         ClientStep(c, open) \/ WriteLine(c) \/ WriteRest(c) \/ CloseStdin(c) \/ ProcessEnds(c),
         UNCHANGED <<daemonVars, chromiumVars>>
  PROVE  Same(d)
<1>1. handler'[d] = handler[d] /\ current'[d] = current[d] /\ buf'[d] = buf[d] /\ SameChromium(d)
  BY DEF SameChromium, daemonVars, chromiumVars
<1> USE DEF TypeOK, ClientTypeOK, SameLines, SameBack
<1>2. CASE OnStdin(c, open)
  <2>1. SameLines(d) /\ toDaemon'[d] = toDaemon[d] /\ SameBack(d)
    BY <1>2 DEF OnStdin, SendFrame
  <2> QED BY <1>1, <2>1 DEF Same, SameFlow
<1>3. CASE OnSelectTimeout(c, open)
  <2>1. SameLines(d) /\ toDaemon'[d] = toDaemon[d] /\ SameBack(d)
    BY <1>3 DEF OnSelectTimeout, SendFrame
  <2> QED BY <1>1, <2>1 DEF Same, SameFlow
<1>4. CASE OnSocket(c) \/ Returns(c, open)
  <2>1. SameLines(d) /\ toDaemon'[d] = toDaemon[d] /\ SameBack(d)
    BY <1>4 DEF OnSocket, Returns, ProcessEnds
  <2> QED BY <1>1, <2>1 DEF Same, SameFlow
<1>5. CASE WriteLine(c) \/ WriteRest(c) \/ CloseStdin(c) \/ ProcessEnds(c)
  <2>1. SameLines(d) /\ toDaemon'[d] = toDaemon[d] /\ SameBack(d)
    BY <1>5 DEF WriteLine, WriteRest, CloseStdin, ProcessEnds
  <2> QED BY <1>1, <2>1 DEF Same, SameFlow
<1> QED BY <1>2, <1>3, <1>4, <1>5 DEF ClientStep

LEMMA HandlesOthers ==
  ASSUME TypeOK, NEW c \in Clients, NEW d \in Clients, d # c, Handles(c)
  PROVE  Same(d)
<1> USE DEF Same, SameLines, SameFlow, SameChromium, SameBack
<1>1. CASE AnswerItself(c) \/ Absorb(c) \/ NeedChromium(c)
  <2>1. buf'[d] = buf[d] /\ toDaemon'[d] = toDaemon[d]
    BY <1>1, ReceivedTypes DEF AnswerItself, Absorb, NeedChromium
  <2>2. toClient'[d] = toClient[d]
    BY <1>1 DEF AnswerItself, Absorb, NeedChromium, Answer, TypeOK, ClientTypeOK
  <2>3. handler'[d] = handler[d] /\ current'[d] = current[d]
    BY <1>1 DEF AnswerItself, Absorb, NeedChromium, TypeOK, DaemonTypeOK
  <2> QED BY <1>1, <2>1, <2>2, <2>3
        DEF AnswerItself, Absorb, NeedChromium, unchangedClient, chromiumVars
<1>2. CASE GiveUp(c) \/ HandshakeFails(c) \/ BridgeEnds(c)
  BY <1>2, OverOthers DEF GiveUp, HandshakeFails, BridgeEnds, clientVars, chromiumVars
<1>3. CASE WaitReady(c)
  <2>1. handler'[d] = handler[d] /\ buf'[d] = buf[d] /\ current'[d] = current[d]
    BY <1>3, OverOthers DEF WaitReady, TypeOK, DaemonTypeOK
  <2> QED BY <1>3, <2>1 DEF WaitReady, clientVars, chromiumVars
<1>4. CASE ConnectChromium(c)
  <2>1. handler'[d] = handler[d] /\ buf'[d] = buf[d] /\ current'[d] = current[d]
    BY <1>4, OverOthers DEF ConnectChromium, TypeOK, DaemonTypeOK
  <2>2. arrived'[d] = arrived[d] /\ due'[d] = due[d]
    BY <1>4, ToChromiumOthers DEF ConnectChromium
  <2> QED BY <1>4, <2>1, <2>2 DEF ConnectChromium, clientVars
<1>5. CASE OnInitialized(c)
  <2>1. handler'[d] = handler[d] /\ buf'[d] = buf[d] /\ current'[d] = current[d]
    BY <1>5, OverOthers DEF OnInitialized, TypeOK, DaemonTypeOK
  <2>2. arrived'[d] = arrived[d] /\ due'[d] = due[d]
    BY <1>5, ToChromiumOthers DEF OnInitialized
  <2>3. fromCr'[d] = fromCr[d]
    BY <1>5 DEF OnInitialized, TypeOK, ChromiumTypeOK
  <2> QED BY <1>5, <2>1, <2>2, <2>3 DEF OnInitialized, clientVars
<1>6. CASE OnTools(c)
  BY <1>6 DEF OnTools, clientVars, TypeOK, DaemonTypeOK, ChromiumTypeOK
<1>7. CASE HandshakeDone(c)
  <2>1. handler'[d] = handler[d] /\ buf'[d] = buf[d] /\ current'[d] = current[d]
    BY <1>7, OverOthers DEF HandshakeDone, TypeOK, DaemonTypeOK
  <2>2. toClient'[d] = toClient[d] /\ initialized'[d] = initialized[d]
    BY SMTT(30), <1>7 DEF HandshakeDone, Answer, TypeOK, ClientTypeOK, DaemonTypeOK
  <2> QED BY <1>7, <2>1, <2>2 DEF HandshakeDone, unchangedClient, chromiumVars
<1>8. CASE Forward(c)
  <2>1. handler'[d] = handler[d] /\ buf'[d] = buf[d] /\ current'[d] = current[d]
        /\ relay'[d] = relay[d]
    BY <1>8, OverOthers DEF Forward, TypeOK, DaemonTypeOK
  <2>2. arrived'[d] = arrived[d] /\ due'[d] = due[d]
    BY <1>8, ToChromiumOthers DEF Forward
  <2> QED BY <1>8, <2>1, <2>2 DEF Forward, clientVars
<1> QED BY <1>1, <1>2, <1>3, <1>4, <1>5, <1>6, <1>7, <1>8 DEF Handles

LEMMA RelayOthers ==
  ASSUME TypeOK, NEW c \in Clients, NEW d \in Clients, d # c,
         RelayUp(c) \/ RelayDown(c) \/ RelayEnds(c) \/ ChromiumAnswers(c)
  PROVE  Same(d)
<1> USE DEF Same, SameLines, SameFlow, SameChromium, SameBack
<1>1. CASE RelayUp(c)
  <2>1. arrived'[d] = arrived[d] /\ due'[d] = due[d]
    BY <1>1, ToChromiumOthers DEF RelayUp
  <2>2. toDaemon'[d] = toDaemon[d]
    BY <1>1 DEF RelayUp, TypeOK, ClientTypeOK
  <2>3. relay'[d] = relay[d]
    <3>1. relay' = relay \/ relay' = [relay EXCEPT ![c] = @ \ {"up"}]
      BY <1>1 DEF RelayUp, RelayOver
    <3> QED BY <3>1 DEF TypeOK, DaemonTypeOK
  <2> QED BY <1>1, <2>1, <2>2, <2>3 DEF RelayUp, unchangedClient
<1>2. CASE RelayDown(c)
  <2>1. toClient'[d] = toClient[d]
    <3>1. toClient' = toClient \/ Answer(c, Head(fromCr[c]))
      BY <1>2 DEF RelayDown
    <3> QED BY <3>1 DEF Answer, TypeOK, ClientTypeOK
  <2>2. relay'[d] = relay[d]
    <3>1. relay' = relay \/ relay' = [relay EXCEPT ![c] = @ \ {"down"}]
      BY <1>2 DEF RelayDown, RelayOver
    <3> QED BY <3>1 DEF TypeOK, DaemonTypeOK
  <2>3. fromCr'[d] = fromCr[d]
    BY <1>2 DEF RelayDown, TypeOK, ChromiumTypeOK
  <2> QED BY <1>2, <2>1, <2>2, <2>3 DEF RelayDown, unchangedClient
<1>3. CASE RelayEnds(c)
  <2>1. relay'[d] = relay[d]
    BY <1>3 DEF RelayEnds, RelayOver, TypeOK, DaemonTypeOK
  <2> QED BY <1>3, <2>1 DEF RelayEnds, clientVars, chromiumVars
<1>4. CASE ChromiumAnswers(c)
  BY <1>4 DEF ChromiumAnswers, clientVars, daemonVars, TypeOK, ChromiumTypeOK
<1> QED BY <1>1, <1>2, <1>3, <1>4

-----------------------------------------------------------------------------
(* What is read, taken, and answered.                                      *)

(* The frame that is received is the next one that was sent.               *)
LEMMA ReceivedFacts ==
  ASSUME TypeOK, NEW c \in Clients, Buffered(c), AtHand(c), sent'[c] = sent[c],
         NEW msg, Received(c, msg)
  PROVE  /\ Read(c)' = Read(c) + 1 /\ Read(c) + 1 <= Len(sent[c])
         /\ msg = sent[c][Read(c) + 1]
         /\ Buffered(c)'
<1> DEFINE r == Read(c)  b == buf[c]  t == toDaemon[c]  s == sent[c]
<1>1. /\ Len(s) \in Nat /\ Len(b) \in Nat /\ Len(t) \in Nat /\ r \in Nat
      /\ Len(s) = r + Len(b) + Len(t)
  BY Counts
<1>2. /\ \A i \in 1 .. Len(b) : b[i] = s[r + i]
      /\ \A i \in 1 .. Len(t) : t[i] = s[r + Len(b) + i]
  BY DEF Buffered
<1>3. /\ b \in Seq(FromClient) /\ t \in Seq(FromClient)
      /\ buf \in [Clients -> Seq(FromClient)] /\ toDaemon \in [Clients -> Seq(FromClient)]
  BY DEF TypeOK, ClientTypeOK, DaemonTypeOK
<1> SUFFICES
      /\ Len(buf'[c]) \in Nat /\ Len(toDaemon'[c]) \in Nat
      /\ Len(buf'[c]) + Len(toDaemon'[c]) + 1 = Len(b) + Len(t)
      /\ msg = s[r + 1]
      /\ \A i \in 1 .. Len(buf'[c]) : buf'[c][i] = s[r + 1 + i]
      /\ \A i \in 1 .. Len(toDaemon'[c]) : toDaemon'[c][i] = s[r + 1 + Len(buf'[c]) + i]
  <2>1. Read(c)' = Len(s) - Len(buf'[c]) - Len(toDaemon'[c])
    BY DEF Read
  <2>2. Read(c)' = r + 1 /\ r + 1 <= Len(s) /\ r + 1 >= 0
    <3> DEFINE x == Len(buf'[c])  y == Len(toDaemon'[c])  ls == Len(s)  lb == Len(b)
               lt == Len(t)  q == Read(c)'
    <3>1. /\ x \in Nat /\ y \in Nat /\ ls \in Nat /\ lb \in Nat /\ lt \in Nat /\ r \in Nat
          /\ ls = r + lb + lt /\ x + y + 1 = lb + lt /\ q = ls - x - y
      BY <1>1, <2>1
    <3> HIDE DEF x, y, ls, lb, lt, q, r
    <3>2. q = r + 1 /\ r + 1 <= ls /\ r + 1 >= 0
      BY <3>1
    <3> QED BY <3>2 DEF q, ls
  <2>3. Buffered(c)'
    BY <2>2 DEF Buffered
  <2> QED BY <2>2, <2>3
<1>4. CASE b # <<>>
  <2>1. msg = Head(b) /\ buf'[c] = Tail(b) /\ toDaemon'[c] = t
    BY <1>3, <1>4 DEF Received
  <2>2. /\ Len(b) >= 1 /\ Head(b) = b[1] /\ Len(Tail(b)) = Len(b) - 1
        /\ \A i \in 1 .. Len(b) - 1 : Tail(b)[i] = b[i + 1]
    BY <1>3, <1>4, TailFacts
  <2>3. msg = s[r + 1]
    BY <1>1, <1>2, <2>1, <2>2
  <2>4. ASSUME NEW i \in 1 .. Len(b) - 1
        PROVE  Tail(b)[i] = s[r + 1 + i]
    <3>1. i + 1 \in 1 .. Len(b) /\ r + (i + 1) = r + 1 + i
      <4>1. Len(b) \in Nat /\ r \in Nat /\ i \in 1 .. Len(b) - 1
        BY <1>1
      <4> HIDE DEF b, r
      <4> QED BY <4>1
    <3> QED BY <1>2, <2>2, <3>1
  <2>5. r + 1 + (Len(b) - 1) = r + Len(b)
    BY <1>1
  <2>6. Len(buf'[c]) = Len(b) - 1 /\ Len(toDaemon'[c]) = Len(t)
    BY <2>1, <2>2
  <2>7. /\ Len(buf'[c]) \in Nat /\ Len(toDaemon'[c]) \in Nat
        /\ Len(buf'[c]) + Len(toDaemon'[c]) + 1 = Len(b) + Len(t)
    <3> HIDE DEF b, t
    <3> QED BY <1>1, <2>2, <2>6
  <2>8. \A i \in 1 .. Len(buf'[c]) : buf'[c][i] = s[r + 1 + i]
    BY <2>1, <2>4, <2>6
  <2>9. \A i \in 1 .. Len(toDaemon'[c]) : toDaemon'[c][i] = s[r + 1 + Len(buf'[c]) + i]
    BY <1>2, <2>1, <2>5, <2>6
  <2> QED BY <2>3, <2>7, <2>8, <2>9
<1>5. CASE b = <<>>
  <2>1. PICK n \in 1 .. Len(t) :
          /\ msg = Head(t)
          /\ buf'[c] = SubSeq(t, 2, n)
          /\ toDaemon'[c] = SubSeq(t, n + 1, Len(t))
    BY <1>3, <1>5 DEF Received
  <2>2. /\ Head(t) = t[1]
        /\ Len(SubSeq(t, 2, n)) = n - 1
        /\ \A i \in 1 .. n - 1 : SubSeq(t, 2, n)[i] = t[i + 1]
        /\ Len(SubSeq(t, n + 1, Len(t))) = Len(t) - n
        /\ \A i \in 1 .. Len(t) - n : SubSeq(t, n + 1, Len(t))[i] = t[n + i]
    BY <1>3, SplitFacts
  <2>3. Len(b) = 0
    BY <1>5, EmptySeq
  <2>4. msg = s[r + 1]
    BY SMTT(30), <1>1, <1>2, <2>1, <2>2, <2>3
  <2>5. ASSUME NEW i \in 1 .. n - 1
        PROVE  SubSeq(t, 2, n)[i] = s[r + 1 + i]
    <3>1. i + 1 \in 1 .. Len(t) /\ r + 0 + (i + 1) = r + 1 + i
      <4>1. Len(t) \in Nat /\ r \in Nat /\ n \in 1 .. Len(t) /\ i \in 1 .. n - 1
        BY <1>1
      <4> HIDE DEF t, r
      <4> QED BY <4>1
    <3> QED BY <1>2, <2>2, <2>3, <3>1
  <2>6. ASSUME NEW i \in 1 .. Len(t) - n
        PROVE  SubSeq(t, n + 1, Len(t))[i] = s[r + 1 + (n - 1) + i]
    <3>1. n + i \in 1 .. Len(t) /\ r + 0 + (n + i) = r + 1 + (n - 1) + i
      <4>1. Len(t) \in Nat /\ r \in Nat /\ n \in 1 .. Len(t) /\ i \in 1 .. Len(t) - n
        BY <1>1
      <4> HIDE DEF t, r
      <4> QED BY <4>1
    <3> QED BY <1>2, <2>2, <2>3, <3>1
  <2>7. Len(buf'[c]) = n - 1 /\ Len(toDaemon'[c]) = Len(t) - n
    BY <2>1, <2>2
  <2>8. /\ Len(buf'[c]) \in Nat /\ Len(toDaemon'[c]) \in Nat
        /\ Len(buf'[c]) + Len(toDaemon'[c]) + 1 = Len(b) + Len(t)
    <3> HIDE DEF b, t
    <3> QED BY <1>1, <2>3, <2>7
  <2>9. \A i \in 1 .. Len(buf'[c]) : buf'[c][i] = s[r + 1 + i]
    BY <2>1, <2>5, <2>7
  <2>10. \A i \in 1 .. Len(toDaemon'[c]) : toDaemon'[c][i] = s[r + 1 + Len(buf'[c]) + i]
    BY <2>1, <2>6, <2>7
  <2> QED BY <2>4, <2>8, <2>9, <2>10
<1> QED BY <1>4, <1>5

(* A request that the handler has not taken yet is none that it has.       *)
LEMMA NotTakenYet ==
  ASSUME TypeOK, NEW c \in Clients, LinesOnce(c), Buffered(c), AtHand(c),
         NEW i \in 1 .. Len(sent[c]), i > Taken(c)
  PROVE  ~IsTaken(c, sent[c][i])
<1> SUFFICES ASSUME sent[c][i].kind \in Requests, NEW j \in 1 .. Taken(c),
                    sent[c][i] = sent[c][j]
             PROVE  FALSE
  BY DEF IsTaken
<1>1. j \in 1 .. Len(sent[c]) /\ j # i
  BY Counts
<1> QED BY <1>1 DEF LinesOnce

(* What was taken stays taken.                                             *)
LEMMA TakenGrows ==
  ASSUME NEW c \in Clients, Taken(c) \in Nat, Taken(c)' \in Nat, Taken(c)' >= Taken(c),
         \A i \in 1 .. Taken(c) : sent'[c][i] = sent[c][i], NEW m, IsTaken(c, m)
  PROVE  IsTaken(c, m)'
<1>1. PICK i \in 1 .. Taken(c) : m = sent[c][i]
  BY DEF IsTaken
<1>2. i \in 1 .. Taken(c)' /\ m = sent'[c][i]
  BY <1>1
<1> QED BY <1>2 DEF IsTaken

(* Answers that were on their way stay so, and one may be added.           *)
LEMMA AnswersKept ==
  ASSUME NEW c \in Clients, Answers(c), Back(c)' = Back(c),
         \A m : IsTaken(c, m) => IsTaken(c, m)'
  PROVE  Answers(c)'
BY DEF Answers

LEMMA AnswersMore ==
  ASSUME TypeOK, NEW c \in Clients, Answers(c), NEW m \in Frames,
         toClient'[c] = Append(toClient[c], m), got'[c] = got[c],
         m \notin ToSet(Back(c)), IsTaken(c, m)',
         \A n : IsTaken(c, n) => IsTaken(c, n)'
  PROVE  /\ Answers(c)'
         /\ Back(c)' = Append(Back(c), m) /\ ToSet(Back(c)') = ToSet(Back(c)) \cup {m}
<1>1. got[c] \in Seq(Frames) /\ toClient[c] \in Seq(Frames)
  BY DEF TypeOK, ClientTypeOK
<1>2. Back(c)' = Append(Back(c), m)
  <2>1. Back(c)' = got[c] \o Append(toClient[c], m)
    BY DEF Back
  <2>2. got[c] \o Append(toClient[c], m) = Append(got[c] \o toClient[c], m)
    <3>1. \A s, t \in Seq(Frames), e \in Frames : s \o Append(t, e) = Append(s \o t, e)
      BY AppendBack
    <3> QED BY <1>1, <3>1, Zenon
  <2> QED BY <2>1, <2>2 DEF Back
<1>3. Back(c) \in Seq(Frames)
  BY <1>1, ConcatProperties DEF Back
<1>4. ToSet(Append(Back(c), m)) = ToSet(Back(c)) \cup {m}
      /\ (IsInjective(Back(c)) => IsInjective(Append(Back(c), m)))
  BY <1>3, AppendFacts
<1> QED BY <1>2, <1>4 DEF Answers

(* The stream stays as it is when no relay feeds it.                       *)
LEMMA StreamKept ==
  ASSUME NEW c \in Clients, Streamed(c), arrived'[c] = arrived[c], sent'[c] = sent[c],
         "up" \notin relay'[c]
  PROVE  Streamed(c)'
<1>1. \A i \in 1 .. Len(arrived'[c]) : i <= 3 => arrived'[c][i] = Handshake[i]
  BY DEF Streamed
<1>2. ASSUME Len(arrived'[c]) > 3
      PROVE  \E k \in Nat : From(c, k)'
  <2>1. PICK k \in Nat : From(c, k)
    BY <1>2 DEF Streamed
  <2>2. From(c, k)'
    BY <2>1 DEF From
  <2> QED BY <2>2
<1> QED BY <1>1, <1>2 DEF Streamed, Handshake, OfDaemon

-----------------------------------------------------------------------------
(* The steps of handle_client for its own client.                          *)

(* The handler returns: what it had read is lost, nothing else changes.    *)
LEMMA OverKeeps ==
  ASSUME TypeOK, NEW c \in Clients, CInv(c), Over(c), relay[c] = {}, relay'[c] = {},
         SameLines(c), toDaemon'[c] = toDaemon[c], arrived'[c] = arrived[c], SameBack(c)
  PROVE  CInv(c)'
<1>1. handler'[c] = "over" /\ buf'[c] = <<>> /\ sent'[c] = sent[c]
  BY DEF Over, TypeOK, DaemonTypeOK, SameLines
<1>2. /\ Len(sent[c]) \in Nat /\ Len(buf[c]) \in Nat /\ Len(toDaemon[c]) \in Nat
      /\ Read(c) \in Nat /\ Len(sent[c]) = Read(c) + Len(buf[c]) + Len(toDaemon[c])
      /\ Taken(c) \in Nat /\ Taken(c) <= Read(c)
  BY Counts DEF CInv
<1>3. Read(c)' = Len(sent[c]) - 0 - Len(toDaemon[c])
  BY <1>1, EmptySeq DEF Read
<1>4. Read(c)' = Read(c) + Len(buf[c]) /\ Read(c)' \in Nat /\ Taken(c)' = Read(c)'
      /\ Taken(c)' >= Taken(c)
  <2>1. Taken(c)' = Read(c)'
    BY <1>1 DEF Taken, Staged
  <2> DEFINE r == Read(c)  s == Len(sent[c])  b == Len(buf[c])  t == Len(toDaemon[c])
             k == Taken(c)
  <2>2. r \in Nat /\ s \in Nat /\ b \in Nat /\ t \in Nat /\ k \in Nat /\ k <= r /\ s = r + b + t
    BY <1>2
  <2>3. s - 0 - t = r + b /\ r + b \in Nat /\ r + b >= k
    <3> HIDE DEF r, s, b, t, k
    <3> QED BY <2>2
  <2> QED BY <1>3, <2>1, <2>3
<1>5. LinesOnce(c)'
  BY KeptLines DEF CInv
<1>6. Buffered(c)'
  <2>1. Len(buf'[c]) = 0
    BY <1>1, EmptySeq
  <2>2. ASSUME NEW i \in 1 .. Len(toDaemon[c])
        PROVE  toDaemon'[c][i] = sent[c][Read(c)' + 0 + i]
    <3>1. toDaemon[c][i] = sent[c][Read(c) + Len(buf[c]) + i]
      BY DEF CInv, Buffered
    <3>2. Read(c)' + 0 + i = Read(c) + Len(buf[c]) + i
      BY <1>2, <1>4
    <3> QED BY <3>1, <3>2
  <2>3. Read(c)' >= 0
    BY <1>4
  <2> QED BY <1>1, <2>1, <2>2, <2>3 DEF Buffered
<1>7. AtHand(c)' /\ Owed(c)'
  BY <1>1 DEF AtHand, Owed, Staged
<1>8. Stages(c)'
  BY <1>1 DEF Stages, Quiet, Owes
<1>9. Streamed(c)'
  BY <1>1, StreamKept DEF CInv
<1>10. Answers(c)'
  <2>1. Back(c)' = Back(c)
    BY DEF SameBack, Back
  <2>2. \A m : IsTaken(c, m) => IsTaken(c, m)'
    BY <1>1, <1>2, <1>4, TakenGrows
  <2> QED BY <2>1, <2>2, AnswersKept DEF CInv
<1> QED BY <1>5, <1>6, <1>7, <1>8, <1>9, <1>10 DEF CInv

(* One more request, list or notification is read.                         *)
LEMMA ReadingKeeps ==
  ASSUME TypeOK, NEW c \in Clients, CInv(c), AnswerItself(c) \/ Absorb(c) \/ NeedChromium(c)
  PROVE  CInv(c)'
<1>1. PICK msg \in FromClient :
        /\ Received(c, msg)
        /\ \/ AnswerItself(c) /\ Answer(c, msg) /\ handler' = handler
           \/ Absorb(c) /\ UNCHANGED toClient /\ handler' = handler
           \/ /\ NeedChromium(c) /\ UNCHANGED toClient
              /\ current' = [current EXCEPT ![c] = msg]
              /\ handler' = [handler EXCEPT ![c] = IF initialized[c] THEN "forward" ELSE "wait"]
  BY DEF AnswerItself, Absorb, NeedChromium
<1>2. /\ SameLines(c) /\ SameChromium(c) /\ got'[c] = got[c] /\ handler[c] = "read"
      /\ relay[c] = {}
  BY DEF AnswerItself, Absorb, NeedChromium, SameLines, SameChromium, unchangedClient,
         chromiumVars, IsNext, CInv, Stages
<1>3. sent'[c] = sent[c]
  BY <1>2 DEF SameLines
<1>4. /\ Read(c)' = Read(c) + 1 /\ Read(c) + 1 <= Len(sent[c])
      /\ msg = sent[c][Read(c) + 1]
      /\ Buffered(c)'
  BY <1>1, <1>3, ReceivedFacts DEF CInv
<1>5. /\ Read(c) \in Nat /\ Taken(c) = Read(c) /\ Len(sent[c]) \in Nat
  BY <1>2, Counts DEF CInv, Taken, Staged
<1>6. LinesOnce(c)'
  BY <1>2, KeptLines DEF CInv
<1>7. "up" \notin relay'[c] /\ Streamed(c)'
  BY <1>2, <1>3, StreamKept DEF CInv, SameChromium
<1>8. \/ handler'[c] = "read" /\ handler' = handler
      \/ handler'[c] = "forward" /\ initialized[c] /\ current'[c] = msg
      \/ handler'[c] = "wait" /\ ~initialized[c] /\ current'[c] = msg
  BY <1>1, <1>2 DEF TypeOK, DaemonTypeOK
<1>9. Stages(c)'
  BY <1>2, <1>8 DEF SameChromium, CInv, Stages, Quiet, Owes
<1>10. Owed(c)'
  BY <1>8 DEF Owed
<1>11. AtHand(c)' /\ Taken(c)' \in {Read(c), Read(c) + 1} /\ (handler' = handler => Taken(c)' = Read(c) + 1)
  <2>1. CASE handler'[c] = "read" /\ handler' = handler
    <3>1. AtHand(c)' /\ Taken(c)' = Read(c)'
      BY <2>1 DEF AtHand, Taken, Staged
    <3> QED BY <1>4, <3>1
  <2>2. CASE handler'[c] \in {"forward", "wait"} /\ current'[c] = msg
    <3>2. handler'[c] \in Staged /\ handler' # handler
      BY <1>2, <2>2 DEF Staged
    <3>3. Taken(c)' = Read(c)' - 1 /\ Read(c)' >= 1 /\ Read(c)' - 1 = Read(c)
      BY <1>4, <1>5, <3>2 DEF Taken
    <3>4. AtHand(c)'
      BY <1>3, <1>4, <2>2, <3>3 DEF AtHand
    <3> QED BY <3>2, <3>3, <3>4
  <2> QED BY <1>8, <2>1, <2>2
<1>12. \A m : IsTaken(c, m) => IsTaken(c, m)'
  BY <1>3, <1>5, <1>11, TakenGrows
<1>13. Answers(c)'
  <2>1. CASE AnswerItself(c) /\ Answer(c, msg) /\ handler' = handler
    <3>1. toClient'[c] = Append(toClient[c], msg) /\ msg \in Frames
      BY <2>1, FrameFacts DEF Answer, TypeOK, ClientTypeOK
    <3>2. msg.kind \in Requests
      <4>1. msg = Head(Pending(c))
        BY <1>1 DEF Received, Pending
      <4> QED BY <2>1, <4>1 DEF AnswerItself, IsNext, Requests
    <3>3. IsTaken(c, msg)'
      <4>1. Read(c) + 1 \in 1 .. Taken(c)' /\ msg = sent'[c][Read(c) + 1]
        BY <1>3, <1>4, <1>5, <1>11, <2>1
      <4> QED BY <3>2, <4>1 DEF IsTaken
    <3>4. msg \notin ToSet(Back(c))
      <4>1. Read(c) + 1 \in 1 .. Len(sent[c]) /\ Read(c) + 1 > Taken(c)
        BY <1>4, <1>5
      <4>2. ~IsTaken(c, msg)
        BY <1>4, <4>1, NotTakenYet DEF CInv
      <4> QED BY <4>2 DEF CInv, Answers
    <3> QED BY <1>2, <1>12, <3>1, <3>3, <3>4, AnswersMore DEF CInv
  <2>2. CASE UNCHANGED toClient
    <3>1. Back(c)' = Back(c)
      BY <1>2, <2>2 DEF Back
    <3> QED BY <1>12, <3>1, AnswersKept DEF CInv
  <2> QED BY <1>1, <2>1, <2>2
<1> QED BY <1>4, <1>6, <1>7, <1>9, <1>10, <1>11, <1>13 DEF CInv

(* From one stage to the next with the same request at hand.               *)
LEMMA StagedOn ==
  ASSUME TypeOK, NEW c \in Clients, CInv(c), handler[c] \in Staged, handler'[c] \in Staged,
         SameLines(c), SameBack(c),
         buf'[c] = buf[c], toDaemon'[c] = toDaemon[c], current'[c] = current[c]
  PROVE  LinesOnce(c)' /\ Buffered(c)' /\ AtHand(c)' /\ Answers(c)' /\ Owed(c)'
<1>1. LinesOnce(c)'
  BY KeptLines DEF CInv
<1>2. Read(c)' = Read(c) /\ Taken(c)' = Taken(c)
  BY DEF SameLines, Read, Taken
<1>3. Buffered(c)' /\ AtHand(c)'
  BY <1>2 DEF CInv, SameLines, Buffered, AtHand
<1>4. Back(c)' = Back(c) /\ \A m : IsTaken(c, m) => IsTaken(c, m)'
  BY <1>2 DEF SameBack, SameLines, Back, IsTaken
<1>5. Answers(c)'
  BY <1>4, AnswersKept DEF CInv
<1>6. Owed(c)'
  BY DEF Owed, Staged
<1> QED BY <1>1, <1>3, <1>5, <1>6

LEMMA ConnectKeeps ==
  ASSUME TypeOK, NEW c \in Clients, CInv(c), WaitReady(c) \/ ConnectChromium(c)
  PROVE  CInv(c)'
<1>1. /\ SameLines(c) /\ SameBack(c) /\ toDaemon'[c] = toDaemon[c]
      /\ relay[c] = {} /\ relay'[c] = {} /\ handler[c] \in Staged /\ ~initialized[c]
      /\ Len(arrived[c]) = 0 /\ due[c] = {} /\ fromCr[c] = <<>> /\ fromCr'[c] = fromCr[c]
      /\ initialized'[c] = initialized[c]
  BY DEF WaitReady, ConnectChromium, clientVars, chromiumVars, SameLines, SameBack, CInv,
         Stages, Quiet, Staged
<1>2. CASE Over(c) /\ UNCHANGED arrived
  BY <1>1, <1>2, OverKeeps
<1>3. CASE /\ WaitReady(c) /\ handler' = [handler EXCEPT ![c] = "connect"]
           /\ UNCHANGED <<buf, current, clientSock, crSock>>
  <2>1. handler'[c] = "connect" /\ arrived' = arrived /\ due' = due
    BY <1>3 DEF WaitReady, chromiumVars, TypeOK, DaemonTypeOK
  <2>2. LinesOnce(c)' /\ Buffered(c)' /\ AtHand(c)' /\ Answers(c)' /\ Owed(c)'
    BY <1>1, <1>3, <2>1, StagedOn DEF Staged
  <2>3. Stages(c)'
    BY <1>1, <2>1 DEF Stages, Quiet
  <2>4. Streamed(c)'
    BY <1>1, <2>1, StreamKept DEF CInv, SameLines
  <2> QED BY <2>2, <2>3, <2>4 DEF CInv
<1>4. CASE /\ ConnectChromium(c)
           /\ handler' = [handler EXCEPT ![c] = "init"]
           /\ ToChromium(c, <<OfDaemon("initialize")>>)
           /\ UNCHANGED <<buf, current, clientSock>>
  <2> DEFINE m == OfDaemon("initialize")
  <2>1. handler'[c] = "init"
    BY <1>4 DEF TypeOK, DaemonTypeOK
  <2>2. LinesOnce(c)' /\ Buffered(c)' /\ AtHand(c)' /\ Answers(c)' /\ Owed(c)'
    BY <1>1, <1>4, <2>1, StagedOn DEF Staged
  <2>3. /\ m \in Frames /\ <<m>> \in Seq(Frames) /\ Len(<<m>>) = 1 /\ <<m>>[1] = m
        /\ ToSet(<<m>>) = {m}
    BY FrameFacts, OneFacts DEF Kinds
  <2>4. /\ arrived'[c] = arrived[c] \o <<m>> /\ due'[c] \subseteq {m}
        /\ arrived[c] \in Seq(Frames)
    BY <1>1, <1>4, <2>3 DEF ToChromium, TypeOK, ChromiumTypeOK
  <2>5. Len(arrived'[c]) = 1 /\ arrived'[c][1] = m
    BY <1>1, <2>3, <2>4, ConcatProperties
  <2>6. Stages(c)'
    BY <1>1, <2>1, <2>4, <2>5 DEF Stages, Owes
  <2>7. Streamed(c)'
    BY <2>5 DEF Streamed, Handshake
  <2> QED BY <2>2, <2>6, <2>7 DEF CInv
<1> QED BY <1>2, <1>3, <1>4 DEF WaitReady, ConnectChromium, chromiumVars

LEMMA ShakingKeeps ==
  ASSUME TypeOK, NEW c \in Clients, CInv(c), OnInitialized(c) \/ OnTools(c)
  PROVE  CInv(c)'
<1>1. /\ SameLines(c) /\ SameBack(c) /\ toDaemon'[c] = toDaemon[c]
      /\ relay[c] = {} /\ relay'[c] = {} /\ handler[c] \in Staged
      /\ initialized'[c] = initialized[c]
  BY DEF OnInitialized, OnTools, clientVars, SameLines, SameBack, CInv, Stages, Staged
<1>2. \E m \in Frames : fromCr[c] = <<m>> /\ due[c] = {}
  BY FrameFacts DEF OnInitialized, OnTools, CInv, Stages, Owes, Kinds
<1>3. fromCr'[c] = <<>> /\ due[c] = {}
  <2>1. PICK m \in Frames : fromCr[c] = <<m>> /\ due[c] = {}
    BY <1>2
  <2>2. fromCr'[c] = Tail(<<m>>)
    BY <2>1 DEF OnInitialized, OnTools, TypeOK, ChromiumTypeOK
  <2> QED BY <2>1, <2>2
<1>4. CASE Over(c) /\ UNCHANGED arrived
  BY <1>1, <1>4, OverKeeps
<1>5. CASE /\ OnInitialized(c)
           /\ handler' = [handler EXCEPT ![c] = "tools"]
           /\ ToChromium(c, <<OfDaemon("notification"), OfDaemon("list")>>)
           /\ UNCHANGED <<buf, current, clientSock, crSock>>
  <2> DEFINE n == OfDaemon("notification")  l == OfDaemon("list")
  <2>1. handler'[c] = "tools"
    BY <1>5 DEF TypeOK, DaemonTypeOK
  <2>2. LinesOnce(c)' /\ Buffered(c)' /\ AtHand(c)' /\ Answers(c)' /\ Owed(c)'
    BY <1>1, <1>5, <2>1, StagedOn DEF Staged
  <2>3. /\ <<n, l>> \in Seq(Frames) /\ Len(<<n, l>>) = 2 /\ <<n, l>>[1] = n /\ <<n, l>>[2] = l
        /\ ToSet(<<n, l>>) = {n, l}
    <3>1. n \in Frames /\ l \in Frames
      BY FrameFacts DEF Kinds
    <3> HIDE DEF n, l
    <3>2. /\ <<n, l>> \in Seq(Frames) /\ Len(<<n, l>>) = 2
          /\ <<n, l>>[1] = n /\ <<n, l>>[2] = l
      BY <3>1
    <3>3. ToSet(<<n, l>>) = {n, l}
      BY <3>1, TwoFacts
    <3> QED BY <3>2, <3>3
  <2>4. due'[c] \subseteq {l}
    <3>1. due'[c] = due[c] \cup {m \in {n, l} : m.kind \in Requests}
      BY <1>5, <2>3 DEF ToChromium, TypeOK, ChromiumTypeOK
    <3>2. n.kind \notin Requests
      BY DEF OfDaemon, Requests
    <3> QED BY <1>3, <3>1, <3>2
  <2>5. /\ arrived'[c] = arrived[c] \o <<n, l>> /\ arrived[c] \in Seq(Frames)
        /\ Len(arrived[c]) = 1 /\ arrived[c][1] = OfDaemon("initialize")
    <3>1. arrived \in [Clients -> Seq(Frames)]
      BY DEF TypeOK, ChromiumTypeOK
    <3>2. arrived'[c] = arrived[c] \o <<n, l>> /\ arrived[c] \in Seq(Frames)
      BY <1>5, <3>1 DEF ToChromium
    <3>3. Len(arrived[c]) = 1
      BY <1>5 DEF OnInitialized, CInv, Stages
    <3>4. arrived[c][1] = Handshake[1]
      BY <3>3 DEF CInv, Streamed
    <3>5. Handshake[1] = OfDaemon("initialize")
      BY DEF Handshake
    <3> QED BY <3>2, <3>3, <3>4, <3>5
  <2>6. /\ Len(arrived'[c]) = 3 /\ arrived'[c][1] = OfDaemon("initialize")
        /\ arrived'[c][2] = n /\ arrived'[c][3] = l
    <3>1. \A i \in 1 .. 1 + 2 : (arrived[c] \o <<n, l>>)[i] =
            IF i <= 1 THEN arrived[c][i] ELSE <<n, l>>[i - 1]
      BY <2>3, <2>5, ConcatProperties
    <3>2. Len(arrived[c] \o <<n, l>>) = 1 + 2
      BY <2>3, <2>5, ConcatProperties
    <3> QED BY <2>3, <2>5, <3>1, <3>2
  <2>7. Stages(c)'
    BY <1>1, <1>3, <2>1, <2>4, <2>6 DEF Stages, Owes
  <2>8. Streamed(c)'
    BY <2>6 DEF Streamed, Handshake
  <2> QED BY <2>2, <2>7, <2>8 DEF CInv
<1>6. CASE OnTools(c)
  <2>1. handler'[c] = "save" /\ UNCHANGED <<buf, current, arrived, due>>
    BY <1>6 DEF OnTools, TypeOK, DaemonTypeOK
  <2>2. LinesOnce(c)' /\ Buffered(c)' /\ AtHand(c)' /\ Answers(c)' /\ Owed(c)'
    BY <1>1, <2>1, StagedOn DEF Staged
  <2>3. Len(arrived[c]) = 3
    BY <1>6 DEF OnTools, CInv, Stages
  <2>4. Stages(c)'
    BY <1>1, <1>3, <2>1, <2>3 DEF Stages, Quiet
  <2>5. Streamed(c)'
    BY <1>1, <2>1, StreamKept DEF CInv, SameLines
  <2> QED BY <2>2, <2>4, <2>5 DEF CInv
<1> QED BY <1>4, <1>5, <1>6 DEF OnInitialized

LEMMA EndingKeeps ==
  ASSUME TypeOK, NEW c \in Clients, CInv(c), GiveUp(c) \/ HandshakeFails(c) \/ BridgeEnds(c)
  PROVE  CInv(c)'
<1>1. /\ Over(c) /\ SameLines(c) /\ SameBack(c) /\ toDaemon'[c] = toDaemon[c]
      /\ arrived'[c] = arrived[c] /\ relay'[c] = relay[c]
  BY DEF GiveUp, HandshakeFails, BridgeEnds, clientVars, chromiumVars, SameLines, SameBack
<1>2. relay[c] = {}
  BY DEF GiveUp, HandshakeFails, BridgeEnds, CInv, Stages
<1> QED BY <1>1, <1>2, OverKeeps

LEMMA DoneKeeps ==
  ASSUME TypeOK, NEW c \in Clients, CInv(c), HandshakeDone(c)
  PROVE  CInv(c)'
<1>1. /\ SameLines(c) /\ toDaemon'[c] = toDaemon[c] /\ got'[c] = got[c] /\ handler[c] = "save"
      /\ relay[c] = {} /\ relay'[c] = {} /\ arrived'[c] = arrived[c] /\ due'[c] = due[c]
      /\ fromCr'[c] = fromCr[c] /\ Len(arrived[c]) = 3 /\ due[c] = {} /\ fromCr[c] = <<>>
      /\ initialized'[c]
  BY DEF HandshakeDone, unchangedClient, chromiumVars, SameLines, CInv, Stages, Quiet,
         TypeOK, DaemonTypeOK
<1>2. sent'[c] = sent[c] /\ Streamed(c)'
  BY <1>1, StreamKept DEF CInv, SameLines
<1>3. CASE Over(c) /\ UNCHANGED toClient
  BY <1>1, <1>3, OverKeeps DEF SameBack
<1>4. CASE /\ handler' = [handler EXCEPT ![c] = "forward"]
           /\ UNCHANGED <<buf, current, clientSock, crSock, toClient>>
  <2>1. handler'[c] = "forward"
    BY <1>4 DEF TypeOK, DaemonTypeOK
  <2>2. LinesOnce(c)' /\ Buffered(c)' /\ AtHand(c)' /\ Answers(c)' /\ Owed(c)'
    BY <1>1, <1>4, <2>1, StagedOn DEF Staged, SameBack
  <2>3. Stages(c)'
    BY <1>1, <2>1 DEF Stages, Quiet
  <2> QED BY <1>2, <2>2, <2>3 DEF CInv
<1>5. CASE /\ current[c].kind = "list"
           /\ Answer(c, current[c])
           /\ handler' = [handler EXCEPT ![c] = "read"]
           /\ current' = [current EXCEPT ![c] = NoMsg]
           /\ UNCHANGED <<buf, clientSock, crSock>>
  <2>1. handler'[c] = "read" /\ toClient'[c] = Append(toClient[c], current[c]) /\ buf'[c] = buf[c]
    BY <1>5 DEF Answer, TypeOK, ClientTypeOK, DaemonTypeOK
  <2>2. LinesOnce(c)'
    BY <1>1, KeptLines DEF CInv
  <2>3. /\ Read(c) \in Nat /\ Read(c) >= 1 /\ Read(c) <= Len(sent[c]) /\ Len(sent[c]) \in Nat
        /\ current[c] = sent[c][Read(c)]
        /\ Taken(c) = Read(c) - 1
    <3>1. Read(c) >= 1 /\ current[c] = sent[c][Read(c)] /\ Taken(c) = Read(c) - 1
      BY <1>1 DEF CInv, AtHand, Taken, Staged
    <3>2. /\ Len(sent[c]) \in Nat /\ Len(buf[c]) \in Nat /\ Len(toDaemon[c]) \in Nat
          /\ Read(c) \in Nat /\ Len(sent[c]) = Read(c) + Len(buf[c]) + Len(toDaemon[c])
      BY Counts DEF CInv
    <3>3. Read(c) <= Len(sent[c])
      BY <3>2
    <3> QED BY <3>1, <3>2, <3>3
  <2>4. Read(c)' = Read(c) /\ Taken(c)' = Read(c)
    <3>1. Read(c)' = Read(c)
      BY <1>1, <1>2, <2>1 DEF Read
    <3> QED BY <2>1, <3>1 DEF Taken, Staged
  <2>5. Buffered(c)'
    BY <1>1, <1>2, <2>1, <2>4 DEF CInv, Buffered
  <2>6. AtHand(c)' /\ Owed(c)' /\ Stages(c)'
    BY <1>1, <2>1 DEF AtHand, Owed, Stages, Staged, Quiet
  <2>7. \A m : IsTaken(c, m) => IsTaken(c, m)'
    BY <1>2, <2>3, <2>4, TakenGrows
  <2>8. PICK m \in Frames : m = current[c] /\ m.kind \in Requests
    BY <1>5, FrameFacts DEF TypeOK, DaemonTypeOK, Requests
  <2>9. IsTaken(c, m)'
    <3>1. Read(c) \in 1 .. Taken(c)' /\ m = sent'[c][Read(c)]
      BY <1>2, <2>3, <2>4, <2>8
    <3> QED BY <2>8, <3>1 DEF IsTaken
  <2>10. m \notin ToSet(Back(c))
    <3>1. Read(c) \in 1 .. Len(sent[c]) /\ Read(c) > Taken(c)
      BY <2>3
    <3>2. ~IsTaken(c, m)
      BY <2>3, <2>8, <3>1, NotTakenYet DEF CInv
    <3> QED BY <3>2 DEF CInv, Answers
  <2>11. Answers(c)'
    BY <1>1, <2>1, <2>7, <2>8, <2>9, <2>10, AnswersMore DEF CInv
  <2> QED BY <1>2, <2>2, <2>5, <2>6, <2>11 DEF CInv
<1> QED BY <1>3, <1>4, <1>5 DEF HandshakeDone

(* The request and the rest of buf are passed on.                          *)
LEMMA ForwardKeeps ==
  ASSUME TypeOK, NEW c \in Clients, CInv(c), Forward(c)
  PROVE  CInv(c)'
<1>1. /\ SameLines(c) /\ SameBack(c) /\ toDaemon'[c] = toDaemon[c] /\ handler[c] = "forward"
      /\ relay[c] = {} /\ Len(arrived[c]) = 3 /\ due[c] = {} /\ fromCr[c] = <<>>
      /\ fromCr'[c] = fromCr[c] /\ initialized'[c] = initialized[c] /\ sent'[c] = sent[c]
  BY DEF Forward, clientVars, SameLines, SameBack, CInv, Stages, Quiet
<1>2. CASE Over(c) /\ UNCHANGED <<relay, arrived, due>>
  BY <1>1, <1>2, OverKeeps
<1>3. CASE /\ ToChromium(c, <<current[c]>> \o buf[c])
           /\ buf' = [buf EXCEPT ![c] = <<>>]
           /\ current' = [current EXCEPT ![c] = NoMsg]
           /\ handler' = [handler EXCEPT ![c] = "bridge"]
           /\ relay' = [relay EXCEPT ![c] = {"up", "down"}]
  <2> DEFINE r == Read(c)  b == buf[c]  lb == Len(buf[c])  m == current[c]
             msgs == <<m>> \o b  s == sent[c]
  <2>1. handler'[c] = "bridge" /\ buf'[c] = <<>> /\ Len(buf'[c]) = 0
    BY <1>3, EmptySeq DEF TypeOK, DaemonTypeOK
  <2>2. /\ r \in Nat /\ r >= 1 /\ lb \in Nat /\ Len(toDaemon[c]) \in Nat
        /\ m = s[r] /\ Taken(c) = r - 1 /\ Len(s) = r + lb + Len(toDaemon[c])
        /\ \A i \in 1 .. lb : b[i] = s[r + i]
    BY <1>1, Counts DEF CInv, AtHand, Buffered, Taken, Staged
  <2>3. Read(c)' = r + lb /\ Taken(c)' = r + lb
    <3>1. Read(c)' = Len(s) - 0 - Len(toDaemon[c])
      BY <1>1, <2>1 DEF Read
    <3>2. ASSUME NEW x \in Nat, NEW y \in Nat, NEW z \in Nat
          PROVE  x + y + z - 0 - z = x + y
      BY <3>2
    <3>3. Read(c)' = r + lb
      BY SMTT(30), <2>2, <3>1, <3>2
    <3> QED BY <2>1, <3>3 DEF Taken, Staged
  <2>4. m \in FromClient /\ b \in Seq(FromClient)
    <3>1. r \in 1 .. Len(s) /\ s \in Seq(FromClient) /\ b \in Seq(FromClient)
      BY <2>2 DEF TypeOK, ClientTypeOK, DaemonTypeOK
    <3> QED BY <2>2, <3>1, ElementOfSeq
  <2>5. /\ msgs \in Seq(FromClient) /\ Len(msgs) = 1 + lb
        /\ \A i \in 1 .. 1 + lb : msgs[i] = s[r - 1 + i]
    <3>1. <<m>> \in Seq(FromClient) /\ Len(<<m>>) = 1 /\ <<m>>[1] = m
      BY <2>4, OneFacts
    <3>2. /\ msgs \in Seq(FromClient) /\ Len(msgs) = 1 + lb
          /\ \A i \in 1 .. 1 + lb : msgs[i] = IF i <= 1 THEN <<m>>[i] ELSE b[i - 1]
      BY <2>4, <3>1, ConcatProperties
    <3>3. ASSUME NEW i \in 1 .. 1 + lb
          PROVE  msgs[i] = s[r - 1 + i]
      <4>1. CASE i = 1
        <5>1. r - 1 + 1 = r
          BY <2>2
        <5> QED BY <2>2, <3>1, <3>2, <4>1, <5>1
      <4>2. CASE i # 1
        <5>1. i - 1 \in 1 .. lb /\ ~(i <= 1) /\ r + (i - 1) = r - 1 + i
          BY <2>2, <4>2
        <5> QED BY <2>2, <3>2, <5>1
      <4> QED BY <4>1, <4>2
    <3> QED BY <3>2, <3>3
  <2>6. arrived'[c] = arrived[c] \o msgs /\ due'[c] = {x \in ToSet(msgs) : x.kind \in Requests}
    BY <1>1, <1>3 DEF ToChromium, TypeOK, ChromiumTypeOK
  <2> HIDE DEF msgs
  <2>7. /\ Len(arrived'[c]) = 4 + lb
        /\ \A i \in 1 .. 3 : arrived'[c][i] = arrived[c][i]
        /\ \A i \in 1 .. 1 + lb : arrived'[c][i + 3] = s[r - 1 + i]
    <3>1. arrived[c] \in Seq(Frames) /\ msgs \in Seq(Frames)
      BY <2>5, FrameFacts DEF TypeOK, ChromiumTypeOK
    <3>2. /\ Len(arrived'[c]) = Len(arrived[c]) + Len(msgs)
          /\ \A i \in 1 .. Len(arrived[c]) : arrived'[c][i] = arrived[c][i]
          /\ \A i \in 1 .. Len(msgs) : arrived'[c][Len(arrived[c]) + i] = msgs[i]
      BY <2>6, <3>1, ConcatFacts
    <3>3. 3 + (1 + lb) = 4 + lb /\ \A i \in 1 .. 1 + lb : 3 + i = i + 3
      BY <2>2
    <3>4. Len(arrived[c]) = 3 /\ Len(msgs) = 1 + lb
      BY <1>1, <2>5
    <3>5. Len(arrived'[c]) = 4 + lb
      BY <3>2, <3>3, <3>4
    <3>6. \A i \in 1 .. 3 : arrived'[c][i] = arrived[c][i]
      BY <3>2, <3>4
    <3>7. ASSUME NEW i \in 1 .. 1 + lb
          PROVE  arrived'[c][i + 3] = s[r - 1 + i]
      <4>1. arrived'[c][3 + i] = msgs[i]
        BY <3>2, <3>4
      <4>2. msgs[i] = s[r - 1 + i]
        BY <2>5
      <4> QED BY <3>3, <4>1, <4>2
    <3> QED BY <3>5, <3>6, <3>7
  <2>8. LinesOnce(c)'
    BY <1>1, KeptLines DEF CInv
  <2>9. Buffered(c)'
    <3>1. Read(c)' >= 0 /\ toDaemon'[c] = toDaemon[c] /\ sent'[c] = s /\ Len(buf'[c]) = 0
      BY <1>1, <2>1, <2>2, <2>3
    <3>2. ASSUME NEW i \in 1 .. Len(toDaemon[c])
          PROVE  toDaemon[c][i] = s[Read(c)' + 0 + i]
      <4>1. toDaemon[c][i] = s[r + lb + i] /\ Read(c)' + 0 + i = r + lb + i
        BY <2>2, <2>3 DEF CInv, Buffered
      <4> QED BY <4>1
    <3> QED BY <3>1, <3>2 DEF Buffered
  <2>10. AtHand(c)'
    BY <2>1 DEF AtHand, Staged
  <2>11. Stages(c)'
    BY <2>1, <2>2, <2>7 DEF Stages
  <2>12. Streamed(c)'
    <3>1. \A i \in 1 .. Len(arrived'[c]) : i <= 3 => arrived'[c][i] = Handshake[i]
      <4>1. \A i \in 1 .. 3 : arrived[c][i] = Handshake[i]
        BY <1>1 DEF CInv, Streamed
      <4>2. \A i \in 1 .. Len(arrived'[c]) : i <= 3 => i \in 1 .. 3
        OBVIOUS
      <4> QED BY <2>7, <4>1, <4>2
    <3>2. Len(arrived'[c]) - 3 = 1 + lb
      BY <2>2, <2>7
    <3>3. r - 1 \in Nat /\ (r - 1) + (1 + lb) = r + lb /\ (r - 1) + (1 + lb) <= Len(s)
      <4> DEFINE t == Len(toDaemon[c])  n == Len(s)
      <4>1. r \in Nat /\ r >= 1 /\ lb \in Nat /\ t \in Nat /\ n = r + lb + t
        BY <2>2
      <4> HIDE DEF t, n, lb, r
      <4>2. r - 1 \in Nat /\ (r - 1) + (1 + lb) = r + lb /\ (r - 1) + (1 + lb) <= n
        BY <4>1
      <4> QED BY <4>2 DEF n
    <3>4. PICK k \in Nat : k = r - 1
      BY <3>3
    <3>5. k + (Len(arrived'[c]) - 3) = Read(c)' /\ k + (Len(arrived'[c]) - 3) <= Len(s)
      BY <2>3, <3>2, <3>3, <3>4
    <3>6. \A i \in 1 .. Len(arrived'[c]) - 3 : arrived'[c][i + 3] = s[k + i]
      BY <2>7, <3>2, <3>4
    <3>7. From(c, k)'
      BY <1>1, <3>5, <3>6 DEF From
    <3>8. Len(arrived'[c]) > 3 =>
            \E j \in Nat : /\ From(c, j)'
                           /\ "up" \in relay'[c] => j + (Len(arrived'[c]) - 3) = Read(c)'
      BY <3>5, <3>7
    <3> QED BY <3>1, <3>8 DEF Streamed, Handshake, OfDaemon
  <2>13. \A x : IsTaken(c, x) => IsTaken(c, x)'
    <3>1. Taken(c) \in Nat /\ Taken(c)' \in Nat /\ Taken(c)' >= Taken(c)
      <4>1. /\ r \in Nat /\ r >= 1 /\ lb \in Nat
            /\ Taken(c) = r - 1 /\ Taken(c)' = r + lb
        BY <2>2, <2>3
      <4> HIDE DEF r, lb
      <4>2. r - 1 \in Nat /\ r + lb \in Nat /\ r + lb >= r - 1
        BY <4>1
      <4> QED BY <4>1, <4>2
    <3> QED BY <1>1, <3>1, TakenGrows
  <2>14. Answers(c)'
    BY <1>1, <2>13, AnswersKept DEF CInv, SameBack, Back
  <2>15. Owed(c)'
    <3>1. ASSUME NEW x \in due'[c]
          PROVE  IsTaken(c, x)' /\ x \notin ToSet(Back(c)')
      <4>1. x.kind \in Requests /\ x \in ToSet(msgs)
        BY <2>6
      <4>2. PICK i \in 1 .. 1 + lb : x = msgs[i]
        BY <2>5, <4>1, ToSetFacts
      <4>3. x = s[r - 1 + i] /\ r - 1 + i \in 1 .. Len(s) /\ r - 1 + i > Taken(c)
            /\ r - 1 + i \in 1 .. Taken(c)'
        <5>1. x = s[r - 1 + i]
          BY <2>5, <4>2
        <5> DEFINE t == Len(toDaemon[c])  n == Len(s)  k == Taken(c)  q == Taken(c)'
        <5>2. /\ r \in Nat /\ r >= 1 /\ lb \in Nat /\ t \in Nat /\ n = r + lb + t
              /\ k = r - 1 /\ q = r + lb
          BY <2>2, <2>3
        <5> HIDE DEF t, n, lb, r, k, q
        <5>3. r - 1 + i \in 1 .. n /\ r - 1 + i > k /\ r - 1 + i \in 1 .. q
          BY <5>2
        <5> QED BY <5>1, <5>3 DEF n, k, q
      <4>4. IsTaken(c, x)'
        BY <1>1, <4>1, <4>3 DEF IsTaken
      <4>5. ~IsTaken(c, x)
        BY <4>3, NotTakenYet DEF CInv
      <4>6. Back(c)' = Back(c)
        BY <1>1 DEF SameBack, Back
      <4> QED BY <4>4, <4>5, <4>6 DEF CInv, Answers
    <3>2. ToSet(fromCr'[c]) = {} /\ IsInjective(fromCr'[c])
      BY <1>1, EmptyFacts
    <3> QED BY <3>1, <3>2 DEF Owed
  <2> QED BY <2>8, <2>9, <2>10, <2>11, <2>12, <2>14, <2>15 DEF CInv
<1> QED BY <1>2, <1>3 DEF Forward

-----------------------------------------------------------------------------
(* The relays.                                                             *)

LEMMA RelayUpKeeps ==
  ASSUME TypeOK, NEW c \in Clients, CInv(c), RelayUp(c)
  PROVE  CInv(c)'
<1>1. /\ SameLines(c) /\ SameBack(c) /\ handler[c] = "bridge" /\ handler'[c] = "bridge"
      /\ buf[c] = <<>> /\ buf'[c] = <<>> /\ fromCr'[c] = fromCr[c] /\ sent'[c] = sent[c]
      /\ initialized'[c] = initialized[c] /\ "up" \in relay[c] /\ Len(arrived[c]) > 3
      /\ toDaemon[c] # <<>> /\ toDaemon'[c] = Tail(toDaemon[c])
  BY DEF RelayUp, unchangedClient, SameLines, SameBack, CInv, Stages, TypeOK, ClientTypeOK
<1> DEFINE s == sent[c]  t == toDaemon[c]  a == arrived[c]  la == Len(arrived[c])
<1>2. PICK m \in FromClient : m = Head(t)
  BY <1>1, TailFacts DEF TypeOK, ClientTypeOK
<1>3. PICK r \in Nat : r = Read(c)
  BY Counts DEF CInv
<1>4. Len(s) \in Nat /\ Len(t) \in Nat /\ Len(t) >= 1 /\ Len(s) = r + Len(t)
      /\ Len(Tail(t)) = Len(t) - 1 /\ Len(buf[c]) = 0 /\ Taken(c) = r
  <2>1. Len(s) \in Nat /\ Len(t) \in Nat /\ Len(s) = r + 0 + Len(t) /\ Len(buf[c]) = 0
    BY <1>1, <1>3, Counts, EmptySeq DEF CInv
  <2>2. Len(t) >= 1 /\ Len(Tail(t)) = Len(t) - 1
    BY <1>1, TailFacts DEF TypeOK, ClientTypeOK
  <2>3. Taken(c) = r
    BY <1>1, <1>3 DEF Taken, Staged
  <2> QED BY <2>1, <2>2, <2>3
<1>5. /\ m = s[r + 1] /\ \A i \in 1 .. Len(t) - 1 : Tail(t)[i] = s[r + 1 + i]
  <2>1. m = t[1] /\ \A i \in 1 .. Len(t) - 1 : Tail(t)[i] = t[i + 1]
    BY <1>1, <1>2, TailFacts DEF TypeOK, ClientTypeOK
  <2>2. \A i \in 1 .. Len(t) : t[i] = s[r + 0 + i]
    BY <1>3, <1>4 DEF CInv, Buffered
  <2>3. m = s[r + 1]
    BY <1>4, <2>1, <2>2
  <2>4. ASSUME NEW i \in 1 .. Len(t) - 1
        PROVE  Tail(t)[i] = s[r + 1 + i]
    <3>1. i + 1 \in 1 .. Len(t) /\ r + 0 + (i + 1) = r + 1 + i
      BY <1>4
    <3> QED BY <2>1, <2>2, <3>1
  <2> QED BY <2>3, <2>4
<1>6. Read(c)' = r + 1 /\ Taken(c)' = r + 1 /\ r + 1 <= Len(s)
  <2>1. Read(c)' = Len(s) - 0 - (Len(t) - 1)
    BY <1>1, <1>4, EmptySeq DEF Read
  <2>2. Read(c)' = r + 1 /\ r + 1 <= Len(s)
    <3> DEFINE ls == Len(s)  lt == Len(t)  q == Read(c)'
    <3>1. q = ls - 0 - (lt - 1) /\ ls \in Nat /\ lt \in Nat /\ lt >= 1 /\ ls = r + lt
      BY <1>4, <2>1
    <3> HIDE DEF ls, lt, q
    <3>2. q = r + 1 /\ r + 1 <= ls
      BY <3>1
    <3> QED BY <3>2 DEF q, ls
  <2> QED BY <1>1, <2>2 DEF Taken, Staged
<1>7. LinesOnce(c)' /\ AtHand(c)'
  BY <1>1, KeptLines DEF CInv, AtHand, Staged
<1>8. Buffered(c)'
  <2>1. Len(buf'[c]) = 0 /\ Len(toDaemon'[c]) = Len(t) - 1
    BY <1>1, <1>4
  <2>2. ASSUME NEW i \in 1 .. Len(t) - 1
        PROVE  Tail(t)[i] = s[r + 1 + 0 + i]
    BY <1>5
  <2> QED BY <1>1, <1>6, <2>1, <2>2 DEF Buffered
<1>9. \A x : IsTaken(c, x) => IsTaken(c, x)'
  <2>1. Taken(c) \in Nat /\ Taken(c)' \in Nat /\ Taken(c)' >= Taken(c)
    BY <1>4, <1>6
  <2> QED BY <1>1, <2>1, TakenGrows
<1>10. Back(c)' = Back(c) /\ Answers(c)'
  BY <1>1, <1>9, AnswersKept DEF CInv, SameBack, Back
<1>11. ~IsTaken(c, m) /\ (m.kind \in Requests => IsTaken(c, m)')
  <2>1. r + 1 \in 1 .. Len(s) /\ r + 1 > Taken(c) /\ r + 1 \in 1 .. Taken(c)'
    BY <1>4, <1>6
  <2>2. ~IsTaken(c, m)
    BY <1>5, <2>1, NotTakenYet DEF CInv
  <2>3. m.kind \in Requests => IsTaken(c, m)'
    BY <1>1, <1>5, <2>1 DEF IsTaken
  <2> QED BY <2>2, <2>3
<1>12. CASE RelayOver(c, "up") /\ UNCHANGED <<arrived, due>>
  <2>1. "up" \notin relay'[c]
    BY <1>12 DEF RelayOver, TypeOK, DaemonTypeOK
  <2>2. Stages(c)'
    BY <1>1, <1>12 DEF Stages
  <2>3. Streamed(c)'
    BY <1>1, <1>12, <2>1, StreamKept DEF CInv
  <2>4. Owed(c)'
    BY <1>1, <1>9, <1>10, <1>12 DEF CInv, Owed
  <2> QED BY <1>7, <1>8, <1>10, <2>2, <2>3, <2>4 DEF CInv
<1>13. CASE ToChromium(c, <<m>>) /\ UNCHANGED <<relay, clientSock, crSock>>
  <2>1. m \in Frames /\ <<m>> \in Seq(Frames) /\ Len(<<m>>) = 1 /\ <<m>>[1] = m /\ ToSet(<<m>>) = {m}
    BY FrameFacts, OneFacts
  <2>2. /\ arrived'[c] = a \o <<m>> /\ a \in Seq(Frames) /\ la \in Nat
        /\ due'[c] = due[c] \cup {x \in {m} : x.kind \in Requests}
    BY <1>13, <2>1, LenProperties DEF ToChromium, TypeOK, ChromiumTypeOK
  <2>3. /\ Len(arrived'[c]) = la + 1
        /\ \A i \in 1 .. la : arrived'[c][i] = a[i]
        /\ arrived'[c][la + 1] = m
    <3>1. Append(a, m) = a \o <<m>>
      BY <2>1, <2>2, AppendIsConcat
    <3>2. Append(a, m) = arrived'[c]
      BY <2>2, <3>1
    <3> QED BY <2>1, <2>2, <3>2, AppendFacts
  <2>4. Stages(c)'
    BY <1>1, <2>2, <2>3 DEF Stages
  <2>5. Streamed(c)'
    <3>1. PICK k \in Nat : From(c, k) /\ k + (la - 3) = r
      BY <1>1, <1>3 DEF CInv, Streamed
    <3>2. \A i \in 1 .. Len(arrived'[c]) : i <= 3 => arrived'[c][i] = Handshake[i]
      <4>1. \A i \in 1 .. la : i <= 3 => a[i] = Handshake[i]
        BY DEF CInv, Streamed
      <4>2. \A i \in 1 .. la + 1 : i <= 3 => i \in 1 .. la
        BY <1>1, <2>2
      <4> QED BY <2>3, <4>1, <4>2
    <3>3. k + (Len(arrived'[c]) - 3) = r + 1 /\ Len(arrived'[c]) - 3 = (la - 3) + 1
      <4> DEFINE n == Len(arrived'[c])
      <4>1. n = la + 1 /\ la \in Nat /\ la > 3 /\ k + (la - 3) = r
        BY <1>1, <2>2, <2>3, <3>1
      <4> HIDE DEF n, la
      <4>2. k + (n - 3) = r + 1 /\ n - 3 = (la - 3) + 1
        BY <4>1
      <4> QED BY <4>2 DEF n
    <3>4. ASSUME NEW i \in 1 .. Len(arrived'[c]) - 3
          PROVE  arrived'[c][i + 3] = s[k + i]
      <4>1. CASE i <= la - 3
        <5>1. i \in 1 .. la - 3 /\ i + 3 \in 1 .. la
          BY <1>1, <2>2, <2>3, <4>1
        <5>2. a[i + 3] = s[k + i]
          BY <3>1, <5>1 DEF From
        <5> QED BY <2>3, <5>1, <5>2
      <4>2. CASE ~(i <= la - 3)
        <5>1. i + 3 = la + 1 /\ k + i = r + 1
          BY <1>1, <2>2, <3>1, <3>3, <4>2
        <5> QED BY <1>5, <2>3, <5>1
      <4> QED BY <4>1, <4>2
    <3>5. From(c, k)'
      BY <1>1, <1>6, <3>3, <3>4 DEF From
    <3>6. Len(arrived'[c]) > 3 =>
            \E j \in Nat : /\ From(c, j)'
                           /\ "up" \in relay'[c] => j + (Len(arrived'[c]) - 3) = Read(c)'
      BY <1>6, <3>3, <3>5
    <3> QED BY <3>2, <3>6 DEF Streamed, Handshake, OfDaemon
  <2>6. Owed(c)'
    <3>1. /\ \A x \in due[c] : IsTaken(c, x) /\ x \notin ToSet(Back(c))
          /\ \A x \in ToSet(fromCr[c]) : IsTaken(c, x) /\ x \notin ToSet(Back(c)) \cup due[c]
          /\ IsInjective(fromCr[c])
      BY <1>1 DEF CInv, Owed
    <3>2. m \notin ToSet(Back(c))
      BY <1>11 DEF CInv, Answers
    <3>3. \A x \in due'[c] : IsTaken(c, x)' /\ x \notin ToSet(Back(c)')
      BY <1>9, <1>10, <1>11, <2>2, <3>1, <3>2
    <3>4. \A x \in ToSet(fromCr'[c]) : IsTaken(c, x)' /\ x \notin ToSet(Back(c)') \cup due'[c]
      BY <1>1, <1>9, <1>10, <1>11, <2>2, <3>1
    <3> QED BY <1>1, <3>1, <3>3, <3>4 DEF Owed
  <2> QED BY <1>7, <1>8, <1>10, <2>4, <2>5, <2>6 DEF CInv
<1> QED BY <1>2, <1>12, <1>13 DEF RelayUp

(* The relay from Chromium, and the end of either relay: nothing is read   *)
(* from the client.                                                        *)
LEMMA DownKeeps ==
  ASSUME TypeOK, NEW c \in Clients, CInv(c), SameLines(c), SameFlow(c),
         handler[c] = "bridge", initialized'[c] = initialized[c], arrived'[c] = arrived[c],
         relay'[c] \subseteq relay[c], Answers(c)', Owed(c)'
  PROVE  CInv(c)'
<1>1. LinesOnce(c)' /\ Buffered(c)' /\ AtHand(c)' /\ Read(c)' = Read(c)
  BY KeptLines, KeptFlow DEF CInv
<1>2. Stages(c)'
  BY DEF CInv, Stages, SameFlow
<1>3. Streamed(c)'
  <2>1. \A i \in 1 .. Len(arrived'[c]) : i <= 3 => arrived'[c][i] = Handshake[i]
    BY DEF CInv, Streamed
  <2>2. ASSUME Len(arrived'[c]) > 3
        PROVE  \E k \in Nat : /\ From(c, k)'
                              /\ "up" \in relay'[c] => k + (Len(arrived'[c]) - 3) = Read(c)'
    <3>1. PICK k \in Nat : /\ From(c, k)
                           /\ "up" \in relay[c] => k + (Len(arrived[c]) - 3) = Read(c)
      BY <2>2 DEF CInv, Streamed
    <3>2. From(c, k)'
      BY <3>1 DEF From, SameFlow
    <3>3. "up" \in relay'[c] => "up" \in relay[c]
      OBVIOUS
    <3> QED BY <1>1, <3>1, <3>2, <3>3
  <2> QED BY <2>1, <2>2 DEF Streamed, Handshake, OfDaemon
<1> QED BY <1>1, <1>2, <1>3 DEF CInv

LEMMA RelayDownKeeps ==
  ASSUME TypeOK, NEW c \in Clients, CInv(c), RelayDown(c)
  PROVE  CInv(c)'
<1>1. /\ SameLines(c) /\ SameFlow(c) /\ handler[c] = "bridge" /\ handler'[c] = "bridge"
      /\ initialized'[c] = initialized[c] /\ arrived'[c] = arrived[c] /\ due'[c] = due[c]
      /\ got'[c] = got[c] /\ fromCr[c] # <<>> /\ fromCr'[c] = Tail(fromCr[c])
      /\ fromCr[c] \in Seq(Frames)
  BY DEF RelayDown, unchangedClient, SameLines, SameFlow, CInv, Stages, TypeOK, ChromiumTypeOK
<1>2. relay'[c] \subseteq relay[c]
  BY DEF RelayDown, RelayOver, TypeOK, DaemonTypeOK
<1>3. PICK h \in Frames : h = Head(fromCr[c])
  BY <1>1, TailFacts
<1>4. /\ ToSet(fromCr[c]) = {h} \cup ToSet(fromCr'[c])
      /\ IsInjective(fromCr[c]) => IsInjective(fromCr'[c]) /\ h \notin ToSet(fromCr'[c])
  BY <1>1, <1>3, TailFacts
<1>5. /\ \A x \in due[c] : IsTaken(c, x) /\ x \notin ToSet(Back(c))
      /\ \A x \in ToSet(fromCr[c]) : IsTaken(c, x) /\ x \notin ToSet(Back(c)) \cup due[c]
      /\ IsInjective(fromCr[c])
  BY <1>1 DEF CInv, Owed
<1>6. \A x : IsTaken(c, x) => IsTaken(c, x)'
  BY <1>1, KeptFlow
<1>7. CASE UNCHANGED toClient
  <2>1. Back(c)' = Back(c)
    BY <1>1, <1>7 DEF Back
  <2>2. Answers(c)'
    BY <1>6, <2>1, AnswersKept DEF CInv
  <2>3. Owed(c)'
    BY <1>1, <1>4, <1>5, <1>6, <2>1 DEF Owed
  <2> QED BY <1>1, <1>2, <2>2, <2>3, DownKeeps
<1>8. CASE Answer(c, h)
  <2>1. toClient'[c] = Append(toClient[c], h)
    BY <1>8 DEF Answer, TypeOK, ClientTypeOK
  <2>2. h \notin ToSet(Back(c)) /\ h \notin due[c] /\ IsTaken(c, h)'
    BY <1>4, <1>5, <1>6
  <2>3. Answers(c)' /\ ToSet(Back(c)') = ToSet(Back(c)) \cup {h}
    BY <1>1, <1>6, <2>1, <2>2, AnswersMore DEF CInv
  <2>4. Owed(c)'
    <3>1. \A x \in due'[c] : IsTaken(c, x)' /\ x \notin ToSet(Back(c)')
      BY <1>1, <1>5, <1>6, <2>2, <2>3
    <3>2. \A x \in ToSet(fromCr'[c]) : IsTaken(c, x)' /\ x \notin ToSet(Back(c)') \cup due'[c]
      BY <1>1, <1>4, <1>5, <1>6, <2>3
    <3> QED BY <1>4, <1>5, <3>1, <3>2 DEF Owed
  <2> QED BY <1>1, <1>2, <2>3, <2>4, DownKeeps
<1> QED BY <1>3, <1>7, <1>8 DEF RelayDown

LEMMA RelayEndsKeeps ==
  ASSUME TypeOK, NEW c \in Clients, CInv(c), RelayEnds(c)
  PROVE  CInv(c)'
<1>1. /\ SameLines(c) /\ SameFlow(c) /\ SameBack(c) /\ handler[c] = "bridge"
      /\ initialized'[c] = initialized[c] /\ arrived'[c] = arrived[c] /\ due'[c] = due[c]
      /\ fromCr'[c] = fromCr[c]
  BY DEF RelayEnds, clientVars, chromiumVars, SameLines, SameFlow, SameBack, CInv, Stages
<1>2. relay'[c] \subseteq relay[c]
  BY DEF RelayEnds, RelayOver, TypeOK, DaemonTypeOK
<1>3. Back(c)' = Back(c) /\ \A x : IsTaken(c, x) => IsTaken(c, x)'
  BY <1>1, KeptFlow DEF SameBack, Back
<1>4. Answers(c)' /\ Owed(c)'
  BY <1>1, <1>3, AnswersKept DEF CInv, Owed
<1> QED BY <1>1, <1>2, <1>4, DownKeeps

-----------------------------------------------------------------------------
(* Chromium.                                                               *)

LEMMA ChromiumAnswersKeeps ==
  ASSUME TypeOK, NEW c \in Clients, CInv(c), ChromiumAnswers(c)
  PROVE  CInv(c)'
<1>1. PICK m \in due[c] : /\ due' = [due EXCEPT ![c] = @ \ {m}]
                          /\ fromCr' = [fromCr EXCEPT ![c] = Append(@, m)]
  BY DEF ChromiumAnswers
<1>2. /\ SameLines(c) /\ SameFlow(c) /\ SameBack(c) /\ initialized'[c] = initialized[c]
      /\ arrived'[c] = arrived[c] /\ relay'[c] = relay[c]
  BY DEF ChromiumAnswers, clientVars, daemonVars, SameLines, SameFlow, SameBack
<1>3. /\ due'[c] = due[c] \ {m} /\ fromCr'[c] = Append(fromCr[c], m)
      /\ fromCr[c] \in Seq(Frames) /\ m \in Frames
  BY <1>1 DEF TypeOK, ChromiumTypeOK
<1>4. LinesOnce(c)' /\ Buffered(c)' /\ AtHand(c)' /\ Read(c)' = Read(c)
  BY <1>2, KeptLines, KeptFlow DEF CInv
<1>5. Back(c)' = Back(c) /\ \A x : IsTaken(c, x) => IsTaken(c, x)'
  BY <1>2, KeptFlow DEF SameBack, Back
<1>6. Answers(c)'
  BY <1>5, AnswersKept DEF CInv
<1>7. Streamed(c)'
  BY <1>2, <1>4 DEF CInv, Streamed, From, SameFlow
<1>8. Stages(c)'
  <2>1. ASSUME NEW n, Owes(c, n)
        PROVE  due'[c] = {} /\ fromCr'[c] = <<n>>
    <3>1. m = n /\ fromCr[c] = <<>>
      BY <2>1 DEF Owes
    <3>2. fromCr'[c] = Append(<<>>, n)
      BY <1>3, <3>1
    <3>3. due'[c] = {}
      BY <1>3, <2>1, <3>1 DEF Owes
    <3> QED BY <3>2, <3>3
  <2>2. ~Quiet(c)
    BY DEF Quiet
  <2>3. handler[c] = "init" => due'[c] = {} /\ fromCr'[c] = <<OfDaemon("initialize")>>
    BY <2>1 DEF CInv, Stages
  <2>4. handler[c] = "tools" => due'[c] = {} /\ fromCr'[c] = <<OfDaemon("list")>>
    BY <2>1 DEF CInv, Stages
  <2> QED BY <1>2, <2>2, <2>3, <2>4 DEF CInv, Stages, Owes, SameFlow, OfDaemon
<1>9. Owed(c)'
  <2> SUFFICES ASSUME handler'[c] = "bridge"
               PROVE  Owed(c)'
    BY DEF Owed
  <2>1. /\ \A x \in due[c] : IsTaken(c, x) /\ x \notin ToSet(Back(c))
        /\ \A x \in ToSet(fromCr[c]) : IsTaken(c, x) /\ x \notin ToSet(Back(c)) \cup due[c]
        /\ IsInjective(fromCr[c])
    BY <1>2 DEF CInv, Owed, SameFlow
  <2>2. m \notin ToSet(fromCr[c])
    BY <1>1, <2>1
  <2>3. ToSet(fromCr'[c]) = ToSet(fromCr[c]) \cup {m} /\ IsInjective(fromCr'[c])
    BY <1>3, <2>1, <2>2, AppendFacts
  <2>4. \A x \in due'[c] : IsTaken(c, x)' /\ x \notin ToSet(Back(c)')
    BY <1>3, <1>5, <2>1
  <2>5. \A x \in ToSet(fromCr'[c]) : IsTaken(c, x)' /\ x \notin ToSet(Back(c)') \cup due'[c]
    BY <1>3, <1>5, <2>1, <2>3
  <2> QED BY <2>3, <2>4, <2>5 DEF Owed
<1> QED BY <1>4, <1>6, <1>7, <1>8, <1>9 DEF CInv

LEMMA OutsideKeeps ==
  ASSUME TypeOK, NEW c \in Clients, CInv(c), OthersSave \/ ChromiumDies \/ ChromiumComes
  PROVE  CInv(c)'
<1>1. CASE OthersSave \/ ChromiumComes
  <2>1. Same(c)
    BY <1>1 DEF OthersSave, ChromiumComes, clientVars, daemonVars, chromiumVars, Same,
                SameLines, SameFlow, SameChromium, SameBack
  <2> QED BY <2>1, KeptAll
<1>2. CASE ChromiumDies
  <2>1. /\ SameLines(c) /\ SameFlow(c) /\ SameBack(c) /\ initialized'[c] = initialized[c]
        /\ arrived'[c] = arrived[c] /\ relay'[c] = relay[c] /\ fromCr'[c] = fromCr[c]
        /\ due'[c] = {}
    BY <1>2 DEF ChromiumDies, clientVars, SameLines, SameFlow, SameBack
  <2>2. LinesOnce(c)' /\ Buffered(c)' /\ AtHand(c)' /\ Read(c)' = Read(c)
    BY <2>1, KeptLines, KeptFlow DEF CInv
  <2>3. Back(c)' = Back(c) /\ \A x : IsTaken(c, x) => IsTaken(c, x)'
    BY <2>1, KeptFlow DEF SameBack, Back
  <2>4. Answers(c)'
    BY <2>3, AnswersKept DEF CInv
  <2>5. Streamed(c)'
    BY <2>1, <2>2 DEF CInv, Streamed, From, SameFlow
  <2>6. Stages(c)'
    BY <2>1 DEF CInv, Stages, Owes, Quiet, SameFlow, OfDaemon
  <2>7. Owed(c)'
    BY <2>1, <2>3 DEF CInv, Owed, SameFlow
  <2> QED BY <2>2, <2>4, <2>5, <2>6, <2>7 DEF CInv
<1> QED BY <1>1, <1>2

-----------------------------------------------------------------------------
(* The process in front and its MCP client.                                *)

(* A frame is sent: it queues up behind what the daemon has not read.      *)
LEMMA SendFlowKeeps ==
  ASSUME TypeOK, NEW c \in Clients, CInv(c), NEW m \in FromClient,
         sent'[c] = Append(sent[c], m), toDaemon'[c] = Append(toDaemon[c], m),
         buf'[c] = buf[c], handler'[c] = handler[c], current'[c] = current[c],
         SameChromium(c), SameBack(c)
  PROVE  Buffered(c)' /\ AtHand(c)' /\ Stages(c)' /\ Streamed(c)' /\ Answers(c)' /\ Owed(c)'
<1> DEFINE s == sent[c]  t == toDaemon[c]
<1>1. PICK r \in Nat, lb \in Nat, ls \in Nat, lt \in Nat :
        r = Read(c) /\ lb = Len(buf[c]) /\ ls = Len(s) /\ lt = Len(t)
  BY Counts DEF CInv
<1>2. ls = r + lb + lt /\ Taken(c) \in Nat /\ Taken(c) <= r
  BY <1>1, Counts DEF CInv
<1>3. /\ Len(sent'[c]) = ls + 1 /\ \A i \in 1 .. ls : sent'[c][i] = s[i]
      /\ sent'[c][ls + 1] = m
  BY <1>1, AppendFacts DEF TypeOK, ClientTypeOK
<1>4. /\ Len(toDaemon'[c]) = lt + 1 /\ \A i \in 1 .. lt : toDaemon'[c][i] = t[i]
      /\ toDaemon'[c][lt + 1] = m
  BY <1>1, AppendFacts DEF TypeOK, ClientTypeOK
<1>5. Read(c)' = r
  <2>1. Read(c)' = (ls + 1) - lb - (lt + 1)
    BY <1>1, <1>3, <1>4 DEF Read
  <2> QED BY <1>2, <2>1
<1>6. Taken(c)' = Taken(c)
  BY <1>1, <1>5 DEF Taken
<1>7. Buffered(c)'
  <2>1. ASSUME NEW i \in 1 .. lb
        PROVE  buf[c][i] = sent'[c][r + i]
    <3>1. r + i \in 1 .. ls
      <4>1. r + i \in 1 .. r + lb + lt
        OBVIOUS
      <4> QED BY <1>2, <4>1
    <3> QED BY <1>1, <1>3, <3>1 DEF CInv, Buffered
  <2>2. ASSUME NEW i \in 1 .. lt + 1
        PROVE  toDaemon'[c][i] = sent'[c][r + lb + i]
    <3>1. CASE i \in 1 .. lt
      <4>1. r + lb + i \in 1 .. ls
        <5>1. r + lb + i \in 1 .. r + lb + lt
          BY <3>1
        <5> QED BY <1>2, <5>1
      <4>2. t[i] = s[r + lb + i]
        BY <1>1, <3>1 DEF CInv, Buffered
      <4> QED BY <1>3, <1>4, <3>1, <4>1, <4>2
    <3>2. CASE i = lt + 1
      <4>1. r + lb + i = ls + 1
        BY <1>2, <3>2
      <4> QED BY <1>3, <1>4, <3>2, <4>1
    <3>3. i \in 1 .. lt \/ i = lt + 1
      BY <1>2
    <3> QED BY <3>1, <3>2, <3>3
  <2>3. Read(c)' >= 0
    BY <1>5
  <2>4. \A i \in 1 .. Len(buf'[c]) : buf'[c][i] = sent'[c][Read(c)' + i]
    BY <1>1, <1>5, <2>1
  <2>5. \A i \in 1 .. Len(toDaemon'[c]) :
          toDaemon'[c][i] = sent'[c][Read(c)' + Len(buf'[c]) + i]
    BY <1>1, <1>4, <1>5, <2>2
  <2> QED BY <2>3, <2>4, <2>5 DEF Buffered
<1>8. AtHand(c)'
  <2> SUFFICES ASSUME handler[c] \in Staged
               PROVE  r >= 1 /\ current[c] = sent'[c][r]
    BY <1>5 DEF AtHand
  <2>1. r >= 1 /\ current[c] = s[r]
    BY <1>1 DEF CInv, AtHand
  <2>2. r \in 1 .. ls
    BY <1>2, <2>1
  <2> QED BY <1>3, <2>1, <2>2
<1>9. Stages(c)'
  BY DEF CInv, Stages, Owes, Quiet, SameChromium, OfDaemon
<1>10. Streamed(c)'
  <2>1. \A i \in 1 .. Len(arrived'[c]) : i <= 3 => arrived'[c][i] = Handshake[i]
    BY DEF CInv, Streamed, SameChromium
  <2>2. ASSUME Len(arrived'[c]) > 3
        PROVE  \E k \in Nat : /\ From(c, k)'
                              /\ "up" \in relay'[c] => k + (Len(arrived'[c]) - 3) = Read(c)'
    <3>1. PICK k \in Nat : /\ From(c, k)
                           /\ "up" \in relay[c] => k + (Len(arrived[c]) - 3) = Read(c)
      BY <2>2 DEF CInv, Streamed, SameChromium
    <3>2. PICK n \in Nat : n = Len(arrived[c])
      BY LenProperties DEF TypeOK, ChromiumTypeOK
    <3>3. k + (n - 3) <= ls /\ n > 3
      BY <1>1, <2>2, <3>1, <3>2 DEF From, SameChromium
    <3>4. k + (n - 3) <= Len(sent'[c])
      BY <1>2, <1>3, <3>3
    <3>5. ASSUME NEW i \in 1 .. n - 3
          PROVE  arrived[c][i + 3] = sent'[c][k + i]
      <4>1. k + i \in 1 .. ls
        BY <1>2, <3>3
      <4>2. arrived[c][i + 3] = s[k + i]
        BY <3>1, <3>2 DEF From
      <4> QED BY <1>3, <4>1, <4>2
    <3>6. From(c, k)'
      BY <3>2, <3>4, <3>5 DEF From, SameChromium
    <3> QED BY <1>1, <1>5, <3>1, <3>6 DEF SameChromium
  <2> QED BY <2>1, <2>2 DEF Streamed, Handshake, OfDaemon
<1>11. \A x : IsTaken(c, x) => IsTaken(c, x)'
  <2>1. \A i \in 1 .. Taken(c) : i \in 1 .. ls
    BY <1>2
  <2>2. Taken(c)' \in Nat /\ Taken(c)' >= Taken(c) /\ Taken(c) \in Nat
    BY <1>2, <1>6
  <2> QED BY <1>3, <2>1, <2>2, TakenGrows
<1>12. Back(c)' = Back(c) /\ Answers(c)'
  BY <1>11, AnswersKept DEF CInv, SameBack, Back
<1>13. Owed(c)'
  BY <1>11, <1>12 DEF CInv, Owed, SameChromium
<1> QED BY <1>7, <1>8, <1>9, <1>10, <1>12, <1>13

(* What follows when only the lines in front of the process have changed.  *)
LEMMA FrontKeeps ==
  ASSUME TypeOK, NEW c \in Clients, CInv(c), LinesOnce(c)', SameFlow(c), SameChromium(c), SameBack(c)
  PROVE  CInv(c)'
<1>1. Buffered(c)' /\ AtHand(c)' /\ Read(c)' = Read(c)
  BY KeptFlow DEF CInv
<1>2. Back(c)' = Back(c) /\ \A x : IsTaken(c, x) => IsTaken(c, x)'
  BY KeptFlow DEF SameBack, Back
<1>3. Stages(c)'
  BY DEF CInv, Stages, Owes, Quiet, SameFlow, SameChromium, OfDaemon
<1>4. Streamed(c)'
  BY <1>1 DEF CInv, Streamed, From, SameFlow, SameChromium
<1>5. Answers(c)' /\ Owed(c)'
  BY <1>2, AnswersKept DEF CInv, Owed, SameFlow, SameChromium
<1> QED BY <1>1, <1>3, <1>4, <1>5 DEF CInv

(* A frame m is sent, or lost with a closed socket: the lines behind it    *)
(* have higher numbers.                                                    *)
LEMMA SendLinesKeeps ==
  ASSUME TypeOK, NEW c \in Clients, LinesOnce(c), NEW m \in FromClient,
         m.id <= written[c], m.kind \in Requests => Fresh(m, c),
         sent'[c] = Append(sent[c], m) \/ sent'[c] = sent[c],
         held'[c] = NoLine, written'[c] = written[c],
         \A i \in 1 .. Len(stdin'[c]) :
           /\ stdin'[c][i].msg.id <= written[c]
           /\ stdin'[c][i].part = "tail" => stdin'[c][i].msg.kind = "broken"
           /\ stdin'[c][i].part # "tail" =>
                /\ Fresh(stdin'[c][i].msg, c) /\ m.id < stdin'[c][i].msg.id
                /\ \A j \in 1 .. Len(stdin'[c]) :
                     j < i => stdin'[c][j].msg.id < stdin'[c][i].msg.id
  PROVE  LinesOnce(c)'
<1>1. Len(sent[c]) \in Nat
  BY LenProperties DEF TypeOK, ClientTypeOK
<1>2. /\ \A i \in 1 .. Len(sent'[c]) : sent'[c][i].id <= written[c]
      /\ \A i, j \in 1 .. Len(sent'[c]) :
           sent'[c][i] = sent'[c][j] /\ sent'[c][i].kind \in Requests => i = j
      /\ \A i \in 1 .. Len(sent'[c]) :
           \/ i \in 1 .. Len(sent[c]) /\ sent'[c][i] = sent[c][i]
           \/ sent'[c][i] = m
  <2>1. CASE sent'[c] = sent[c]
    BY <2>1 DEF LinesOnce
  <2>2. CASE sent'[c] = Append(sent[c], m)
    <3>1. /\ Len(sent'[c]) = Len(sent[c]) + 1
          /\ \A i \in 1 .. Len(sent[c]) : sent'[c][i] = sent[c][i]
          /\ sent'[c][Len(sent[c]) + 1] = m
      BY <2>2, AppendFacts DEF TypeOK, ClientTypeOK
    <3>2. \A i \in 1 .. Len(sent'[c]) :
            \/ i \in 1 .. Len(sent[c]) /\ sent'[c][i] = sent[c][i]
            \/ i = Len(sent[c]) + 1 /\ sent'[c][i] = m
      <4>1. PICK n \in Nat : n = Len(sent[c])
        BY <1>1
      <4>2. \A i \in 1 .. n + 1 : i \in 1 .. n \/ i = n + 1
        OBVIOUS
      <4> QED BY <3>1, <4>1, <4>2
    <3>3. m.kind \in Requests => \A i \in 1 .. Len(sent[c]) : sent[c][i] # m
      <4>1. m.id \in 1 .. MaxLines
        BY FrameFacts
      <4>2. m.kind \in Requests => \A i \in 1 .. Len(sent[c]) : sent[c][i].id < m.id
        BY DEF Fresh
      <4> QED BY <4>1, <4>2
    <3>4. \A i, j \in 1 .. Len(sent'[c]) :
            sent'[c][i] = sent'[c][j] /\ sent'[c][i].kind \in Requests => i = j
      <4>1. \A i, j \in 1 .. Len(sent[c]) :
              sent[c][i] = sent[c][j] /\ sent[c][i].kind \in Requests => i = j
        BY DEF LinesOnce
      <4> QED BY <3>2, <3>3, <4>1
    <3>5. \A i \in 1 .. Len(sent'[c]) : sent'[c][i].id <= written[c]
      BY <3>2 DEF LinesOnce
    <3> QED BY <3>2, <3>4, <3>5
  <2> QED BY <2>1, <2>2
<1>3. \A i \in 1 .. Len(stdin'[c]) :
        stdin'[c][i].part # "tail" =>
          \A j \in 1 .. Len(sent'[c]) : sent'[c][j].id < stdin'[c][i].msg.id
  BY <1>2 DEF Fresh
<1> QED BY <1>2, <1>3 DEF LinesOnce, Fresh

(* The MCP client writes, or closes the pipe.                              *)
LEMMA WriterKeeps ==
  ASSUME TypeOK, NEW c \in Clients, CInv(c),
         WriteLine(c) \/ WriteRest(c) \/ CloseStdin(c) \/ ProcessEnds(c),
         UNCHANGED <<daemonVars, chromiumVars>>
  PROVE  CInv(c)'
<1>1. SameFlow(c) /\ SameChromium(c) /\ SameBack(c) /\ held'[c] = held[c] /\ sent'[c] = sent[c]
  BY DEF WriteLine, WriteRest, CloseStdin, ProcessEnds, daemonVars, chromiumVars, SameFlow,
         SameChromium, SameBack
<1> SUFFICES LinesOnce(c)'
  BY <1>1, FrontKeeps
<1>2. CASE CloseStdin(c) \/ ProcessEnds(c)
  <2>1. SameLines(c)
    BY <1>1, <1>2 DEF CloseStdin, ProcessEnds, SameLines
  <2> QED BY <2>1, KeptLines DEF CInv
<1>3. CASE WriteLine(c) \/ WriteRest(c)
  <2>1. PICK w \in Nat : w = written[c]
    BY DEF TypeOK, ClientTypeOK
  <2>2. PICK p \in Pieces :
          /\ stdin'[c] = Append(stdin[c], p)
          /\ \/ p.part # "tail" /\ p.msg.id = w + 1 /\ written'[c] = w + 1
             \/ p.part = "tail" /\ p.msg.kind = "broken" /\ p.msg.id = w /\ written'[c] = w
    <3>1. CASE WriteLine(c)
      <4>1. PICK k \in Kinds, part \in {"whole", "head"} :
              stdin' = [stdin EXCEPT ![c] = Append(@,
                [msg |-> [from |-> "client", id |-> written[c] + 1, kind |-> k], part |-> part])]
        BY <3>1 DEF WriteLine
      <4> DEFINE p == [msg |-> [from |-> "client", id |-> w + 1, kind |-> k], part |-> part]
      <4>2. w + 1 \in 1 .. MaxLines /\ written'[c] = w + 1
        BY <2>1, <3>1 DEF WriteLine, TypeOK, ClientTypeOK
      <4>3. p \in Pieces /\ p.part # "tail" /\ p.msg.id = w + 1
        BY <4>2 DEF Pieces, FromClient
      <4>4. stdin'[c] = Append(stdin[c], p)
        BY <2>1, <4>1 DEF TypeOK, ClientTypeOK
      <4> HIDE DEF p
      <4> QED BY <4>2, <4>3, <4>4
    <3>2. CASE WriteRest(c)
      <4> DEFINE p == [msg |-> [from |-> "client", id |-> w, kind |-> "broken"], part |-> "tail"]
      <4>1. w \in 1 .. MaxLines /\ written'[c] = w
        BY <2>1, <3>2 DEF WriteRest, TypeOK, ClientTypeOK
      <4>2. p \in Pieces /\ p.part = "tail" /\ p.msg.kind = "broken" /\ p.msg.id = w
        BY <4>1 DEF Pieces, FromClient
      <4>3. stdin'[c] = Append(stdin[c], p)
        BY <2>1, <3>2 DEF WriteRest, TypeOK, ClientTypeOK
      <4> HIDE DEF p
      <4> QED BY <4>1, <4>2, <4>3
    <3> QED BY <1>3, <3>1, <3>2
  <2>3. PICK n \in Nat : n = Len(stdin[c])
    BY LenProperties DEF TypeOK, ClientTypeOK
  <2>4. /\ Len(stdin'[c]) = n + 1 /\ stdin'[c][n + 1] = p
        /\ \A i \in 1 .. n : stdin'[c][i] = stdin[c][i]
    BY <2>2, <2>3, AppendFacts DEF TypeOK, ClientTypeOK
  <2>5. w <= written'[c] /\ p.msg.id <= written'[c] /\ written'[c] \in Nat
        /\ (p.part # "tail" => p.msg.id = w + 1)
    BY <2>2
  <2>6. \A i \in 1 .. n : stdin[c][i] \in Pieces
    BY <2>3, ElementOfSeq DEF TypeOK, ClientTypeOK
  <2>7. \A m \in Pieces : m.msg.id \in Nat
    BY DEF Pieces, FromClient
  <2>8. \A i \in 1 .. Len(sent[c]) : sent[c][i].id \in Nat /\ sent[c][i].id <= w
    <3>1. \A i \in 1 .. Len(sent[c]) : sent[c][i] \in FromClient
      BY ElementOfSeq DEF TypeOK, ClientTypeOK
    <3>2. \A m \in FromClient : m.id \in Nat
      BY DEF FromClient
    <3> QED BY <2>1, <3>1, <3>2 DEF CInv, LinesOnce
  <2>9. \A i \in 1 .. Len(sent'[c]) : sent'[c][i].id <= written'[c]
    BY <1>1, <2>1, <2>5, <2>8
  <2>10. ASSUME held[c] # NoLine
         PROVE  /\ \A i \in 1 .. Len(sent[c]) : sent[c][i].id < held[c].id
                /\ held[c].id <= written'[c]
                /\ \A i \in 1 .. n + 1 :
                     stdin'[c][i].part # "tail" => held[c].id < stdin'[c][i].msg.id
    <3>1. /\ \A i \in 1 .. Len(sent[c]) : sent[c][i].id < held[c].id
          /\ \A i \in 1 .. n : stdin[c][i].part # "tail" => held[c].id < stdin[c][i].msg.id
          /\ held[c].id <= w
      BY <2>1, <2>3, <2>10 DEF CInv, LinesOnce, Fresh, Ahead
    <3>2. held[c].id \in Nat
      BY <2>10 DEF TypeOK, ClientTypeOK, FromClient
    <3>3. held[c].id <= written'[c] /\ held[c].id < w + 1
      BY <2>5, <3>1, <3>2
    <3>4. \A i \in 1 .. n + 1 : i \in 1 .. n \/ i = n + 1
      OBVIOUS
    <3> QED BY <2>4, <2>5, <3>1, <3>3, <3>4
  <2>11. ASSUME NEW i \in 1 .. n + 1
         PROVE  /\ stdin'[c][i].msg.id <= written'[c]
                /\ stdin'[c][i].part = "tail" => stdin'[c][i].msg.kind = "broken"
                /\ stdin'[c][i].part # "tail" =>
                     /\ \A j \in 1 .. Len(sent[c]) : sent[c][j].id < stdin'[c][i].msg.id
                     /\ \A j \in 1 .. n + 1 :
                          j < i => stdin'[c][j].msg.id < stdin'[c][i].msg.id
    <3>1. \A j \in 1 .. n : stdin[c][j].msg.id \in Nat /\ stdin[c][j].msg.id <= w
      BY <2>1, <2>3, <2>6, <2>7 DEF CInv, LinesOnce
    <3>2. CASE i \in 1 .. n
      <4>1. /\ stdin[c][i].part = "tail" => stdin[c][i].msg.kind = "broken"
            /\ stdin[c][i].part # "tail" =>
                 /\ \A j \in 1 .. Len(sent[c]) : sent[c][j].id < stdin[c][i].msg.id
                 /\ \A j \in 1 .. n : j < i => stdin[c][j].msg.id < stdin[c][i].msg.id
        BY <2>3, <3>2 DEF CInv, LinesOnce, Fresh
      <4>2. stdin[c][i].msg.id <= written'[c]
        BY <2>5, <3>1, <3>2
      <4>3. \A j \in 1 .. n + 1 : j < i => j \in 1 .. n
        BY <3>2
      <4> QED BY <2>4, <3>2, <4>1, <4>2, <4>3
    <3>3. CASE i = n + 1
      <4>1. \A j \in 1 .. n + 1 : j < i => j \in 1 .. n
        BY <3>3
      <4>2. \A x \in Nat : x <= w => x < w + 1
        OBVIOUS
      <4> QED BY <2>2, <2>4, <2>5, <2>8, <3>1, <3>3, <4>1, <4>2
    <3> QED BY <3>2, <3>3
  <2> QED BY <1>1, <2>4, <2>9, <2>10, <2>11 DEF CInv, LinesOnce, Fresh, Ahead
<1> QED BY <1>2, <1>3

(* What the pipe holds behind its first piece.                             *)
LEMMA StdinTail ==
  ASSUME TypeOK, NEW c \in Clients, LinesOnce(c), stdin[c] # <<>>
  PROVE  /\ Head(stdin[c]) = stdin[c][1] /\ 1 \in 1 .. Len(stdin[c])
         /\ \A i \in 1 .. Len(Tail(stdin[c])) :
              /\ i + 1 \in 1 .. Len(stdin[c]) /\ 1 < i + 1
              /\ Tail(stdin[c])[i] = stdin[c][i + 1]
              /\ stdin[c][i + 1].msg.id <= written[c]
              /\ stdin[c][i + 1].part = "tail" => stdin[c][i + 1].msg.kind = "broken"
              /\ stdin[c][i + 1].part # "tail" =>
                   /\ Fresh(stdin[c][i + 1].msg, c)
                   /\ stdin[c][1].msg.id < stdin[c][i + 1].msg.id
                   /\ \A j \in 1 .. Len(Tail(stdin[c])) :
                        j < i => Tail(stdin[c])[j].msg.id < stdin[c][i + 1].msg.id
<1> DEFINE s == stdin[c]
<1>1. PICK n \in Nat : n = Len(s)
  BY LenProperties DEF TypeOK, ClientTypeOK
<1>2. /\ n >= 1 /\ Head(s) = s[1] /\ Len(Tail(s)) = n - 1
      /\ \A i \in 1 .. n - 1 : Tail(s)[i] = s[i + 1]
  BY <1>1, TailFacts DEF TypeOK, ClientTypeOK
<1>3. \A i \in 1 .. n :
        /\ s[i].msg.id <= written[c]
        /\ s[i].part = "tail" => s[i].msg.kind = "broken"
        /\ s[i].part # "tail" =>
             /\ Fresh(s[i].msg, c)
             /\ \A j \in 1 .. n : j < i => s[j].msg.id < s[i].msg.id
  BY <1>1 DEF LinesOnce
<1> HIDE DEF s
<1>4. ASSUME NEW i \in 1 .. n - 1
      PROVE  /\ i + 1 \in 1 .. n /\ 1 < i + 1
             /\ Tail(s)[i] = s[i + 1]
             /\ s[i + 1].msg.id <= written[c]
             /\ s[i + 1].part = "tail" => s[i + 1].msg.kind = "broken"
             /\ s[i + 1].part # "tail" =>
                  /\ Fresh(s[i + 1].msg, c)
                  /\ s[1].msg.id < s[i + 1].msg.id
                  /\ \A j \in 1 .. n - 1 : j < i => Tail(s)[j].msg.id < s[i + 1].msg.id
  <2>1. i + 1 \in 1 .. n /\ 1 < i + 1 /\ 1 \in 1 .. n
    BY <1>2
  <2>2. \A j \in 1 .. n - 1 : j < i => j + 1 \in 1 .. n /\ j + 1 < i + 1
    BY <1>2
  <2> QED BY <1>2, <1>3, <2>1, <2>2
<1>5. 1 \in 1 .. n
  BY <1>2
<1> QED BY <1>1, <1>2, <1>4, <1>5 DEF s

(* The bridge process.                                                     *)
LEMMA StdinKeeps ==
  ASSUME TypeOK, NEW c \in Clients, CInv(c), NEW open \in BOOLEAN, OnStdin(c, open),
         UNCHANGED <<daemonVars, chromiumVars>>
  PROVE  CInv(c)'
<1>1. /\ SameChromium(c) /\ SameBack(c) /\ written'[c] = written[c] /\ stdin[c] # <<>>
      /\ stdin'[c] = Tail(stdin[c])
      /\ buf'[c] = buf[c] /\ handler'[c] = handler[c] /\ current'[c] = current[c]
  BY DEF OnStdin, daemonVars, chromiumVars, SameChromium, SameBack, TypeOK, ClientTypeOK
<1> DEFINE p == stdin[c][1]
<1>2. /\ Head(stdin[c]) = p /\ p.msg \in FromClient /\ p \in Pieces
      /\ (held[c] # NoLine => held[c] \in FromClient)
      /\ 1 \in 1 .. Len(stdin[c])
  BY <1>1, StdinTail, PieceTypes DEF CInv, TypeOK
<1>3. \A i \in 1 .. Len(stdin'[c]) :
        /\ stdin'[c][i] = stdin[c][i + 1] /\ i + 1 \in 1 .. Len(stdin[c])
        /\ stdin'[c][i].msg.id <= written[c]
        /\ stdin'[c][i].part = "tail" => stdin'[c][i].msg.kind = "broken"
        /\ stdin'[c][i].part # "tail" =>
             /\ Fresh(stdin'[c][i].msg, c) /\ p.msg.id < stdin'[c][i].msg.id
             /\ \A j \in 1 .. Len(stdin'[c]) :
                  j < i => stdin'[c][j].msg.id < stdin'[c][i].msg.id
  <2> DEFINE q == Tail(stdin[c])
  <2>1. ASSUME NEW i \in 1 .. Len(q)
        PROVE  /\ i + 1 \in 1 .. Len(stdin[c]) /\ q[i] = stdin[c][i + 1]
               /\ stdin[c][i + 1].msg.id <= written[c]
               /\ stdin[c][i + 1].part = "tail" => stdin[c][i + 1].msg.kind = "broken"
               /\ stdin[c][i + 1].part # "tail" =>
                    /\ Fresh(stdin[c][i + 1].msg, c) /\ p.msg.id < stdin[c][i + 1].msg.id
                    /\ \A j \in 1 .. Len(q) : j < i => q[j].msg.id < stdin[c][i + 1].msg.id
    BY <1>1, StdinTail DEF CInv
  <2>2. stdin'[c] = q
    BY <1>1
  <2> HIDE DEF q, p
  <2> QED BY <2>1, <2>2
<1>4. /\ p.msg.id <= written[c] /\ (p.part = "tail" => p.msg.kind = "broken")
      /\ (p.part # "tail" => Fresh(p.msg, c))
  BY <1>2 DEF CInv, LinesOnce
<1>5. CASE p.part = "head" /\ held' = [held EXCEPT ![c] = p.msg] /\ UNCHANGED <<process, sent, toDaemon>>
  <2>1. held'[c] = p.msg /\ sent'[c] = sent[c]
    BY <1>5 DEF TypeOK, ClientTypeOK
  <2>2. Fresh(p.msg, c)
    BY <1>4, <1>5
  <2>3. LinesOnce(c)'
    BY <1>1, <1>3, <1>4, <2>1, <2>2 DEF CInv, LinesOnce, Fresh, Ahead
  <2>4. SameFlow(c)
    BY <1>1, <1>5 DEF SameFlow
  <2> QED BY <1>1, <2>3, <2>4, FrontKeeps
<1>6. CASE /\ p.part # "head" /\ held' = [held EXCEPT ![c] = NoLine]
           /\ SendFrame(c, IF held[c] = NoLine THEN p.msg ELSE held[c], open)
  <2>1. PICK m \in FromClient : m = IF held[c] = NoLine THEN p.msg ELSE held[c]
    BY <1>2
  <2>2. /\ held'[c] = NoLine
        /\ \/ sent'[c] = Append(sent[c], m) /\ toDaemon'[c] = Append(toDaemon[c], m)
           \/ sent'[c] = sent[c] /\ toDaemon'[c] = toDaemon[c]
    BY <1>6, <2>1 DEF SendFrame, TypeOK, ClientTypeOK
  <2>3. /\ m.id <= written[c] /\ (m.kind \in Requests => Fresh(m, c))
        /\ \A i \in 1 .. Len(stdin'[c]) : stdin'[c][i].part # "tail" => m.id < stdin'[c][i].msg.id
    <3>1. CASE held[c] = NoLine
      <4>1. m = p.msg
        BY <2>1, <3>1
      <4> QED BY <1>3, <1>4, <4>1 DEF Requests
    <3>2. CASE held[c] # NoLine
      <4>1. m = held[c]
        BY <2>1, <3>2
      <4>2. Fresh(m, c) /\ Ahead(m, c) /\ m.id <= written[c]
        BY <3>2, <4>1 DEF CInv, LinesOnce
      <4>3. \A i \in 1 .. Len(stdin[c]) : stdin[c][i].part # "tail" => m.id < stdin[c][i].msg.id
        BY <4>2 DEF Ahead
      <4> QED BY <1>3, <4>2, <4>3
    <3> QED BY <3>1, <3>2
  <2>4. LinesOnce(c)'
    BY <1>1, <1>3, <2>2, <2>3, SendLinesKeeps DEF CInv
  <2>5. CASE sent'[c] = sent[c] /\ toDaemon'[c] = toDaemon[c]
    <3>1. SameFlow(c)
      BY <1>1, <2>5 DEF SameFlow
    <3> QED BY <1>1, <2>4, <3>1, FrontKeeps
  <2>6. CASE sent'[c] = Append(sent[c], m) /\ toDaemon'[c] = Append(toDaemon[c], m)
    BY <1>1, <2>4, <2>6, SendFlowKeeps DEF CInv
  <2> QED BY <2>2, <2>5, <2>6
<1> QED BY <1>2, <1>5, <1>6 DEF OnStdin

LEMMA TimeoutKeeps ==
  ASSUME TypeOK, NEW c \in Clients, CInv(c), NEW open \in BOOLEAN, OnSelectTimeout(c, open),
         UNCHANGED <<daemonVars, chromiumVars>>
  PROVE  CInv(c)'
<1>1. /\ SameChromium(c) /\ SameBack(c) /\ written'[c] = written[c]
      /\ stdin'[c] = <<>> /\ held[c] # NoLine
      /\ buf'[c] = buf[c] /\ handler'[c] = handler[c] /\ current'[c] = current[c]
  BY DEF OnSelectTimeout, daemonVars, chromiumVars, SameChromium, SameBack
<1>2. held[c] \in FromClient
  BY <1>1 DEF TypeOK, ClientTypeOK
<1>3. PICK m \in FromClient : m = [held[c] EXCEPT !.kind = "broken"]
  BY <1>2 DEF FromClient
<1>4. m.kind = "broken" /\ m.id <= written[c]
  <2>1. m.kind = "broken" /\ m.id = held[c].id
    BY <1>2, <1>3 DEF FromClient
  <2> QED BY <1>1, <2>1 DEF CInv, LinesOnce
<1>5. /\ held'[c] = NoLine
      /\ \/ sent'[c] = Append(sent[c], m) /\ toDaemon'[c] = Append(toDaemon[c], m)
         \/ sent'[c] = sent[c] /\ toDaemon'[c] = toDaemon[c]
  BY <1>3 DEF OnSelectTimeout, SendFrame, TypeOK, ClientTypeOK
<1>6. LinesOnce(c)'
  <2>1. Len(stdin'[c]) = 0
    BY <1>1, EmptySeq
  <2>2. \A i \in 1 .. Len(stdin'[c]) : FALSE
    BY <2>1
  <2> QED BY <1>1, <1>4, <1>5, <2>2, SendLinesKeeps DEF CInv, Requests
<1>7. CASE sent'[c] = sent[c] /\ toDaemon'[c] = toDaemon[c]
  <2>1. SameFlow(c)
    BY <1>1, <1>7 DEF SameFlow
  <2> QED BY <1>1, <1>6, <2>1, FrontKeeps
<1>8. CASE sent'[c] = Append(sent[c], m) /\ toDaemon'[c] = Append(toDaemon[c], m)
  BY <1>1, <1>6, <1>8, SendFlowKeeps DEF CInv
<1> QED BY <1>5, <1>7, <1>8

(* An answer goes from the socket to stdout: it stays among those that came*)
(* back, in the same place.                                                *)
LEMMA SocketKeeps ==
  ASSUME TypeOK, NEW c \in Clients, CInv(c), OnSocket(c), UNCHANGED <<daemonVars, chromiumVars>>
  PROVE  CInv(c)'
<1>1. /\ SameChromium(c) /\ SameLines(c) /\ SameFlow(c) /\ toClient[c] # <<>>
      /\ got'[c] = Append(got[c], Head(toClient[c])) /\ toClient'[c] = Tail(toClient[c])
      /\ got[c] \in Seq(Frames) /\ toClient[c] \in Seq(Frames)
  BY DEF OnSocket, daemonVars, chromiumVars, SameChromium, SameLines, SameFlow, TypeOK,
         ClientTypeOK
<1>2. Back(c)' = Back(c)
  <2>1. Append(got[c], Head(toClient[c])) \o Tail(toClient[c]) = got[c] \o toClient[c]
    BY <1>1, HandOver, Zenon
  <2>2. Back(c)' = got'[c] \o toClient'[c]
    BY DEF Back
  <2> QED BY <1>1, <2>1, <2>2 DEF Back
<1>3. LinesOnce(c)' /\ Buffered(c)' /\ AtHand(c)' /\ Read(c)' = Read(c)
  BY <1>1, KeptLines, KeptFlow DEF CInv
<1>4. \A x : IsTaken(c, x) => IsTaken(c, x)'
  BY <1>1, KeptFlow
<1>5. Stages(c)'
  BY <1>1 DEF CInv, Stages, Owes, Quiet, SameFlow, SameChromium, OfDaemon
<1>6. Streamed(c)'
  BY <1>1, <1>3 DEF CInv, Streamed, From, SameFlow, SameChromium
<1>7. Answers(c)' /\ Owed(c)'
  BY <1>1, <1>2, <1>4, AnswersKept DEF CInv, Owed, SameFlow, SameChromium
<1> QED BY <1>3, <1>5, <1>6, <1>7 DEF CInv

LEMMA BridgesKeeps ==
  ASSUME TypeOK, NEW c \in Clients, CInv(c), Bridges(c)
  PROVE  CInv(c)'
<1>1. clientSock[c] \in BOOLEAN
  BY DEF TypeOK, DaemonTypeOK
<1>2. CASE Returns(c, clientSock[c])
  <2>1. Same(c)
    BY <1>2 DEF Bridges, Returns, ProcessEnds, daemonVars, chromiumVars, Same, SameLines,
                SameFlow, SameChromium, SameBack
  <2> QED BY <2>1, KeptAll
<1> QED BY <1>1, <1>2, StdinKeeps, TimeoutKeeps, SocketKeeps DEF Bridges, ClientStep

-----------------------------------------------------------------------------
(* The theorems.                                                           *)

LEMMA InitInv == Init => IInv
<1> SUFFICES ASSUME Init, NEW c \in Clients PROVE CInv(c)
  BY InitTypes DEF IInv
<1>1. /\ sent[c] = <<>> /\ stdin[c] = <<>> /\ held[c] = NoLine /\ written[c] = 0
      /\ buf[c] = <<>> /\ toDaemon[c] = <<>> /\ handler[c] = "read" /\ initialized[c] = FALSE
      /\ relay[c] = {} /\ arrived[c] = <<>> /\ due[c] = {} /\ fromCr[c] = <<>>
      /\ got[c] = <<>> /\ toClient[c] = <<>>
  BY DEF Init, ClientInit
<1>2. Len(<<>>) = 0 /\ \A i \in 1 .. 0 : FALSE
  BY EmptySeq
<1>3. LinesOnce(c)
  BY <1>1, <1>2 DEF LinesOnce
<1>4. Buffered(c)
  BY <1>1, <1>2 DEF Buffered, Read
<1>5. AtHand(c) /\ Owed(c)
  BY <1>1 DEF AtHand, Owed, Staged
<1>6. Stages(c)
  BY <1>1, <1>2 DEF Stages, Quiet
<1>7. Streamed(c)
  BY <1>1, <1>2 DEF Streamed
<1>8. Answers(c)
  <2>1. Back(c) = <<>>
    <3>1. <<>> \in Seq(Frames)
      BY EmptySeq
    <3> QED BY <1>1, <3>1, ConcatEmptySeq DEF Back
  <2> QED BY <2>1, EmptyFacts DEF Answers
<1> QED BY <1>3, <1>4, <1>5, <1>6, <1>7, <1>8 DEF CInv

LEMMA StepInv ==
  ASSUME IInv, Next
  PROVE  IInv'
<1>1. TypeOK' /\ TypeOK /\ \A d \in Clients : CInv(d)
  BY NextTypes DEF IInv
<1> SUFFICES ASSUME NEW d \in Clients PROVE CInv(d)'
  BY <1>1 DEF IInv
<1>2. ASSUME NEW c \in Clients, Handles(c)
      PROVE  CInv(d)'
  <2>1. CASE d # c
    BY <1>1, <1>2, <2>1, HandlesOthers, KeptAll
  <2>2. CASE d = c
    BY <1>1, <1>2, <2>2, ReadingKeeps, EndingKeeps, ConnectKeeps, ShakingKeeps, DoneKeeps,
       ForwardKeeps DEF Handles
  <2> QED BY <2>1, <2>2
<1>3. ASSUME NEW c \in Clients, RelayUp(c) \/ RelayDown(c) \/ RelayEnds(c) \/ ChromiumAnswers(c)
      PROVE  CInv(d)'
  <2>1. CASE d # c
    BY <1>1, <1>3, <2>1, RelayOthers, KeptAll
  <2>2. CASE d = c
    BY <1>1, <1>3, <2>2, RelayUpKeeps, RelayDownKeeps, RelayEndsKeeps, ChromiumAnswersKeeps
  <2> QED BY <2>1, <2>2
<1>4. ASSUME NEW c \in Clients, Bridges(c)
      PROVE  CInv(d)'
  <2>1. CASE d # c
    <3>1. clientSock[c] \in BOOLEAN
      BY <1>1 DEF TypeOK, DaemonTypeOK
    <3> QED BY <1>1, <1>4, <2>1, <3>1, ClientOthers, KeptAll DEF Bridges
  <2>2. CASE d = c
    BY <1>1, <1>4, <2>2, BridgesKeeps
  <2> QED BY <2>1, <2>2
<1>5. ASSUME NEW c \in Clients, WriteLine(c) \/ WriteRest(c) \/ CloseStdin(c) \/ ProcessEnds(c),
             UNCHANGED <<daemonVars, chromiumVars>>
      PROVE  CInv(d)'
  <2>1. CASE d # c
    BY <1>1, <1>5, <2>1, ClientOthers, KeptAll
  <2>2. CASE d = c
    BY <1>1, <1>5, <2>2, WriterKeeps
  <2> QED BY <2>1, <2>2
<1> QED BY <1>1, <1>2, <1>3, <1>4, <1>5, OutsideKeeps DEF Next

LEMMA StutterInv ==
  ASSUME IInv, UNCHANGED vars
  PROVE  IInv'
<1>1. TypeOK'
  BY TypesKept DEF IInv, TypeOK, vars
<1>2. ASSUME NEW c \in Clients
      PROVE  CInv(c)'
  <2>1. Same(c)
    BY DEF vars, clientVars, daemonVars, chromiumVars, Same, SameLines, SameFlow,
           SameChromium, SameBack
  <2> QED BY <2>1, KeptAll DEF IInv
<1> QED BY <1>1, <1>2 DEF IInv

LEMMA Invariant == Spec => []IInv
<1>1. IInv /\ [Next]_vars => IInv'
  BY StepInv, StutterInv
<1> QED BY <1>1, InitInv, PTL DEF Spec

(* Every variable of the daemon's client threads, of the bridge processes  *)
(* and of Chromium keeps its type, for any number of clients and lines.    *)
THEOREM ProxyTypeOK == Spec => []TypeOK
<1>1. IInv => TypeOK
  BY DEF IInv
<1> QED BY <1>1, Invariant, PTL

(* handle_client's handshake reaches Chromium first and unbroken, and then *)
(* a contiguous piece of what the bridge process sent: the request at hand,*)
(* the rest of buf and the relayed frames, in order and without a gap.     *)
THEOREM ProxyHandshakeThenStream == Spec => []HandshakeThenStream
<1>1. ASSUME IInv, NEW c \in Clients
      PROVE  /\ Len(arrived[c]) \in Nat
             /\ Len(arrived[c]) <= 3 => arrived[c] = SubSeq(Handshake, 1, Len(arrived[c]))
             /\ ~(Len(arrived[c]) <= 3) =>
                  /\ SubSeq(arrived[c], 1, 3) = Handshake
                  /\ \E k \in 0 .. Len(sent[c]) - (Len(arrived[c]) - 3) :
                       SubSeq(arrived[c], 4, Len(arrived[c]))
                         = SubSeq(sent[c], k + 1, k + Len(arrived[c]) - 3)
  <2> DEFINE a == arrived[c]  s == sent[c]
  <2>1. PICK n \in Nat, ls \in Nat : n = Len(a) /\ ls = Len(s)
    BY <1>1, LenProperties DEF IInv, TypeOK, ClientTypeOK, ChromiumTypeOK
  <2>2. /\ a \in Seq(Frames) /\ s \in Seq(Frames)
        /\ \A i \in 1 .. n : a[i] \in Frames
        /\ \A i \in 1 .. ls : s[i] \in Frames
    <3>1. a \in Seq(Frames) /\ s \in Seq(Frames)
      BY <1>1, FrameFacts DEF IInv, TypeOK, ClientTypeOK, ChromiumTypeOK
    <3> QED BY <2>1, <3>1, ElementOfSeq
  <2>3. Handshake \in Seq(Frames) /\ Len(Handshake) = 3 /\ \A i \in 1 .. 3 : Handshake[i] \in Frames
    <3>1. /\ OfDaemon("initialize") \in Frames /\ OfDaemon("notification") \in Frames
          /\ OfDaemon("list") \in Frames
      BY FrameFacts DEF Kinds
    <3>2. Handshake \in Seq(Frames) /\ Len(Handshake) = 3
      BY <3>1 DEF Handshake
    <3> QED BY <3>2, ElementOfSeq
  <2>4. \A i \in 1 .. n : i <= 3 => a[i] = Handshake[i]
    BY <1>1, <2>1 DEF IInv, CInv, Streamed
  <2>5. CASE n <= 3
    <3>1. \A i \in 1 .. n : i \in 1 .. 3
      BY <2>5
    <3>2. /\ SubSeq(Handshake, 1, n) \in Seq(Frames)
          /\ Len(SubSeq(Handshake, 1, n)) = IF 1 <= n THEN n - 1 + 1 ELSE 0
          /\ \A i \in 1 .. n - 1 + 1 : SubSeq(Handshake, 1, n)[i] = Handshake[1 + i - 1]
      <4>1. \A i \in 1 .. n : Handshake[i] \in Frames
        BY <2>3, <3>1
      <4> QED BY <4>1, SubSeqProperties
    <3>3. Len(SubSeq(Handshake, 1, n)) = n /\ \A i \in 1 .. n : SubSeq(Handshake, 1, n)[i] = Handshake[i]
      BY <3>2
    <3>4. a = SubSeq(Handshake, 1, n)
      BY <2>1, <2>2, <2>4, <3>1, <3>2, <3>3, SeqEqual
    <3> QED BY <2>1, <2>5, <3>4
  <2>6. CASE n > 3
    <3>1. SubSeq(a, 1, 3) = Handshake
      <4>1. \A i \in 1 .. 3 : a[i] \in Frames /\ a[i] = Handshake[i]
        BY <2>2, <2>4, <2>6
      <4>2. /\ SubSeq(a, 1, 3) \in Seq(Frames) /\ Len(SubSeq(a, 1, 3)) = 3
            /\ \A i \in 1 .. 3 : SubSeq(a, 1, 3)[i] = a[i]
        <5>1. /\ SubSeq(a, 1, 3) \in Seq(Frames)
              /\ Len(SubSeq(a, 1, 3)) = IF 1 <= 3 THEN 3 - 1 + 1 ELSE 0
              /\ \A i \in 1 .. 3 - 1 + 1 : SubSeq(a, 1, 3)[i] = a[1 + i - 1]
          BY <4>1, SubSeqProperties
        <5> QED BY <5>1
      <4> QED BY <2>3, <4>1, <4>2, SeqEqual
    <3>2. PICK k \in Nat : k + (n - 3) <= ls /\ \A i \in 1 .. n - 3 : a[i + 3] = s[k + i]
      BY <1>1, <2>1, <2>6 DEF IInv, CInv, Streamed, From
    <3>3. /\ SubSeq(a, 4, n) \in Seq(Frames) /\ Len(SubSeq(a, 4, n)) = n - 3
          /\ \A i \in 1 .. n - 3 : SubSeq(a, 4, n)[i] = a[i + 3]
      <4>1. \A i \in 4 .. n : a[i] \in Frames
        BY <2>2
      <4>2. /\ SubSeq(a, 4, n) \in Seq(Frames)
            /\ Len(SubSeq(a, 4, n)) = IF 4 <= n THEN n - 4 + 1 ELSE 0
            /\ \A i \in 1 .. n - 4 + 1 : SubSeq(a, 4, n)[i] = a[4 + i - 1]
        BY <4>1, SubSeqProperties
      <4>3. \A i \in 1 .. n - 3 : i \in 1 .. n - 4 + 1 /\ 4 + i - 1 = i + 3
        OBVIOUS
      <4> QED BY <2>6, <4>2, <4>3
    <3>4. /\ SubSeq(s, k + 1, k + n - 3) \in Seq(Frames)
          /\ Len(SubSeq(s, k + 1, k + n - 3)) = n - 3
          /\ \A i \in 1 .. n - 3 : SubSeq(s, k + 1, k + n - 3)[i] = s[k + i]
      <4>1. \A i \in k + 1 .. k + n - 3 : s[i] \in Frames
        <5>1. \A i \in k + 1 .. k + n - 3 : i \in 1 .. ls
          BY <3>2
        <5> QED BY <2>2, <5>1
      <4>2. PICK x \in Int, y \in Int : x = k + 1 /\ y = k + n - 3
        OBVIOUS
      <4>3. /\ SubSeq(s, x, y) \in Seq(Frames)
            /\ Len(SubSeq(s, x, y)) = IF x <= y THEN y - x + 1 ELSE 0
            /\ \A i \in 1 .. y - x + 1 : SubSeq(s, x, y)[i] = s[x + i - 1]
        BY <4>1, <4>2, SubSeqProperties
      <4>4. x <= y /\ y - x + 1 = n - 3 /\ \A i \in 1 .. n - 3 : x + i - 1 = k + i
        BY <2>6, <4>2
      <4> QED BY <4>2, <4>3, <4>4
    <3>5. SubSeq(a, 4, n) = SubSeq(s, k + 1, k + n - 3)
      BY <3>2, <3>3, <3>4, SeqEqual
    <3>6. k \in 0 .. ls - (n - 3)
      BY <3>2
    <3>7. \E j \in 0 .. ls - (n - 3) : SubSeq(a, 4, n) = SubSeq(s, j + 1, j + n - 3)
      BY <3>5, <3>6
    <3>8. ~(n <= 3)
      BY <2>6
    <3> QED BY <2>1, <3>1, <3>7, <3>8, Zenon
  <2>7. n <= 3 \/ n > 3
    OBVIOUS
  <2> QED BY <2>5, <2>6, <2>7, Zenon
<1>2. IInv => HandshakeThenStream
  BY <1>1 DEF HandshakeThenStream
<1> QED BY <1>2, Invariant, PTL

(* What comes back to a client answers its own requests, each at most once:*)
(* what handle_client answers itself is not also passed on, and the answers*)
(* to its own handshake never come through.                                *)
THEOREM ProxyOwnAnswersOnce == Spec => []OwnAnswersOnce
<1>1. ASSUME IInv, NEW c \in Clients
      PROVE  LET back == got[c] \o toClient[c] IN
             /\ IsInjective(back)
             /\ ToSet(back) \subseteq {m \in ToSet(sent[c]) : m.kind \in Requests}
  <2>1. IsInjective(Back(c)) /\ \A m \in ToSet(Back(c)) : IsTaken(c, m)
    BY <1>1 DEF IInv, CInv, Answers
  <2>2. ASSUME NEW m, IsTaken(c, m)
        PROVE  m \in ToSet(sent[c]) /\ m.kind \in Requests
    <3>1. PICK i \in 1 .. Taken(c) : m = sent[c][i]
      BY <2>2 DEF IsTaken
    <3>2. i \in 1 .. Len(sent[c])
      BY SMTT(30), <1>1, Counts DEF IInv, CInv
    <3>3. sent[c] \in Seq(FromClient)
      BY <1>1 DEF IInv, TypeOK, ClientTypeOK
    <3>4. ToSet(sent[c]) = {sent[c][j] : j \in 1 .. Len(sent[c])}
      BY <3>3, ToSetFacts
    <3> QED BY <2>2, <3>1, <3>2, <3>4 DEF IsTaken
  <2> QED BY <2>1, <2>2 DEF Back
<1>2. IInv => OwnAnswersOnce
  BY <1>1 DEF OwnAnswersOnce
<1> QED BY <1>2, Invariant, PTL

-----------------------------------------------------------------------------
(* Where the requests are that a process has sent: answered, still to be   *)
(* read, at hand, or with Chromium.                                        *)
Whereabouts(c) ==
  ToSet(Back(c)) \cup ToSet(buf[c]) \cup ToSet(toDaemon[c])
    \cup (IF handler[c] \in Staged THEN {current[c]} ELSE {})
    \cup (IF handler[c] = "bridge" THEN due[c] \cup ToSet(fromCr[c]) ELSE {})

Asked(c) == {m \in ToSet(sent[c]) : m.kind \in Requests}

(* The client is still connected to what can answer it.                    *)
Connected(c) == clientSock[c] /\ (handler[c] = "bridge" => crSock[c] = "open")

Attended(c) ==
  clientSock[c] => /\ handler[c] # "over"
                   /\ handler[c] = "bridge" => relay[c] = {"up", "down"}

Traced(c) == Connected(c) => Asked(c) \subseteq Whereabouts(c)

(* While its connection lasts, the thread of a client or both relays are   *)
(* there, and none of its requests is lost.                                *)
NoneForgotten == \A c \in Clients : Attended(c) /\ Traced(c)

(* What the process of c has of the daemon.                                *)
SamePlace(c) ==
  /\ clientSock'[c] = clientSock[c] /\ crSock'[c] = crSock[c] /\ relay'[c] = relay[c]

LEMMA BackMore ==
  ASSUME TypeOK, NEW c \in Clients, NEW m \in Frames,
         toClient'[c] = Append(toClient[c], m), got'[c] = got[c]
  PROVE  ToSet(Back(c)') = ToSet(Back(c)) \cup {m}
<1>1. got[c] \in Seq(Frames) /\ toClient[c] \in Seq(Frames)
  BY DEF TypeOK, ClientTypeOK
<1>2. Back(c)' = got[c] \o Append(toClient[c], m)
  BY DEF Back
<1>3. got[c] \o Append(toClient[c], m) = Append(got[c] \o toClient[c], m)
  <2>1. \A s, t \in Seq(Frames), e \in Frames : s \o Append(t, e) = Append(s \o t, e)
    BY AppendBack
  <2> QED BY <1>1, <2>1, Zenon
<1>4. Back(c) \in Seq(Frames)
  BY <1>1, ConcatProperties DEF Back
<1>5. ToSet(Append(Back(c), m)) = ToSet(Back(c)) \cup {m}
  BY <1>4, AppendFacts
<1> QED BY <1>2, <1>3, <1>5 DEF Back

LEMMA SplitSets ==
  ASSUME NEW S, NEW s \in Seq(S), NEW n \in 1 .. Len(s)
  PROVE  ToSet(s) \subseteq
           {Head(s)} \cup ToSet(SubSeq(s, 2, n)) \cup ToSet(SubSeq(s, n + 1, Len(s)))
<1>1. PICK a \in Seq(S), b \in Seq(S) : a = SubSeq(s, 2, n) /\ b = SubSeq(s, n + 1, Len(s))
  BY SplitFacts
<1>2. /\ Len(s) \in Nat /\ Head(s) = s[1]
      /\ Len(a) = n - 1 /\ \A i \in 1 .. n - 1 : a[i] = s[i + 1]
      /\ Len(b) = Len(s) - n /\ \A i \in 1 .. Len(s) - n : b[i] = s[n + i]
  BY <1>1, SplitFacts
<1>3. /\ ToSet(s) = {s[i] : i \in 1 .. Len(s)}
      /\ ToSet(a) = {a[i] : i \in 1 .. n - 1}
      /\ ToSet(b) = {b[i] : i \in 1 .. Len(s) - n}
  BY SMTT(30), <1>2, ToSetFacts
<1>4. ASSUME NEW i \in 1 .. Len(s)
      PROVE  s[i] \in {Head(s)} \cup ToSet(a) \cup ToSet(b)
  <2>1. CASE i = 1
    BY <1>2, <2>1
  <2>2. CASE i - 1 \in 1 .. n - 1
    <3>1. a[i - 1] = s[i]
      BY <1>2, <2>2
    <3> QED BY <1>3, <2>2, <3>1
  <2>3. CASE i - n \in 1 .. Len(s) - n
    <3>1. b[i - n] = s[i]
      BY <1>2, <2>3
    <3> QED BY <1>3, <2>3, <3>1
  <2>4. i = 1 \/ i - 1 \in 1 .. n - 1 \/ i - n \in 1 .. Len(s) - n
    BY <1>2
  <2> QED BY <2>1, <2>2, <2>3, <2>4
<1>5. ToSet(s) \subseteq {Head(s)} \cup ToSet(a) \cup ToSet(b)
  BY <1>3, <1>4
<1> QED BY <1>1, <1>5

LEMMA BeforeSet ==
  ASSUME NEW S, NEW e \in S, NEW s \in Seq(S)
  PROVE  ToSet(<<e>> \o s) = {e} \cup ToSet(s)
<1>1. PICK t \in Seq(S) : t = <<e>> \o s
  BY OneFacts, ConcatProperties
<1>2. t # <<>> /\ Head(t) = e /\ Tail(t) = s
  BY <1>1
<1> QED BY <1>1, <1>2, TailFacts

(* A frame that is read leaves buf and the socket, and nothing else does.  *)
LEMMA ReceivedSets ==
  ASSUME TypeOK, NEW c \in Clients, NEW msg, Received(c, msg)
  PROVE  ToSet(buf[c]) \cup ToSet(toDaemon[c])
           \subseteq {msg} \cup ToSet(buf'[c]) \cup ToSet(toDaemon'[c])
<1>1. /\ buf[c] \in Seq(FromClient) /\ toDaemon[c] \in Seq(FromClient)
      /\ buf \in [Clients -> Seq(FromClient)] /\ toDaemon \in [Clients -> Seq(FromClient)]
  BY DEF TypeOK, ClientTypeOK, DaemonTypeOK
<1>2. CASE buf[c] # <<>>
  <2>1. msg = Head(buf[c]) /\ buf'[c] = Tail(buf[c]) /\ toDaemon'[c] = toDaemon[c]
    BY <1>1, <1>2 DEF Received
  <2>2. ToSet(buf[c]) = {Head(buf[c])} \cup ToSet(Tail(buf[c]))
    BY <1>1, <1>2, TailFacts
  <2> QED BY <2>1, <2>2
<1>3. CASE buf[c] = <<>>
  <2>1. PICK n \in 1 .. Len(toDaemon[c]) :
          /\ msg = Head(toDaemon[c])
          /\ buf'[c] = SubSeq(toDaemon[c], 2, n)
          /\ toDaemon'[c] = SubSeq(toDaemon[c], n + 1, Len(toDaemon[c]))
    BY <1>1, <1>3 DEF Received
  <2>2. ToSet(toDaemon[c])
          \subseteq {Head(toDaemon[c])} \cup ToSet(SubSeq(toDaemon[c], 2, n))
                     \cup ToSet(SubSeq(toDaemon[c], n + 1, Len(toDaemon[c])))
    BY <1>1, SplitSets
  <2>3. ToSet(buf[c]) = {}
    BY <1>3, EmptyFacts
  <2> QED BY <2>1, <2>2, <2>3
<1> QED BY <1>2, <1>3

(* A thread that closes the connection owes nothing any more.              *)
LEMMA ClosedIsTraced ==
  ASSUME NEW c \in Clients, ~clientSock'[c]
  PROVE  Attended(c)' /\ Traced(c)'
BY DEF Attended, Traced, Connected

LEMMA OverIsTraced ==
  ASSUME TypeOK, NEW c \in Clients, Over(c)
  PROVE  Attended(c)' /\ Traced(c)'
<1>1. ~clientSock'[c]
  BY DEF Over, TypeOK, DaemonTypeOK
<1> QED BY <1>1, ClosedIsTraced

(* The handler goes on: what was somewhere still is.                       *)
LEMMA StillTraced ==
  ASSUME NEW c \in Clients, Attended(c), Traced(c),
         handler[c] \notin {"bridge", "over"}, handler'[c] \notin {"bridge", "over"},
         clientSock'[c] = clientSock[c],
         sent'[c] = sent[c],
         Asked(c) \cap Whereabouts(c) \subseteq Whereabouts(c)'
  PROVE  Attended(c)' /\ Traced(c)'
<1>1. Asked(c)' = Asked(c)
  BY DEF Asked
<1>2. Connected(c)' => Connected(c)
  BY DEF Connected
<1> QED BY <1>1, <1>2 DEF Attended, Traced

LEMMA KeptTrace ==
  ASSUME NEW c \in Clients, SameFlow(c), SameChromium(c), SameBack(c), SamePlace(c),
         Attended(c), Traced(c)
  PROVE  Attended(c)' /\ Traced(c)'
<1>1. Back(c)' = Back(c)
  BY DEF SameBack, Back
<1>2. Whereabouts(c)' = Whereabouts(c)
  BY <1>1 DEF SameFlow, SameChromium, Whereabouts
<1>3. Asked(c)' = Asked(c) /\ (Connected(c)' <=> Connected(c)) /\ (Attended(c)' <=> Attended(c))
  BY DEF SameFlow, SamePlace, Asked, Connected, Attended
<1> QED BY <1>2, <1>3 DEF Traced

(* A request that the handler reads is answered or at hand; what it reads  *)
(* and drops is none.                                                      *)
LEMMA ReadingTraced ==
  ASSUME TypeOK, NEW c \in Clients, Attended(c), Traced(c),
         AnswerItself(c) \/ Absorb(c) \/ NeedChromium(c)
  PROVE  Attended(c)' /\ Traced(c)'
<1>1. PICK msg \in FromClient :
        /\ Received(c, msg)
        /\ \/ AnswerItself(c) /\ Answer(c, msg) /\ UNCHANGED <<handler, current>>
           \/ Absorb(c) /\ UNCHANGED <<toClient, handler, current>>
           \/ /\ NeedChromium(c) /\ UNCHANGED toClient
              /\ current' = [current EXCEPT ![c] = msg]
              /\ handler' = [handler EXCEPT ![c] = IF initialized[c] THEN "forward" ELSE "wait"]
  BY DEF AnswerItself, Absorb, NeedChromium
<1>2. /\ handler[c] = "read" /\ UNCHANGED <<clientSock, sent, got>>
      /\ handler'[c] \in {"read", "forward", "wait"}
  BY <1>1 DEF AnswerItself, Absorb, NeedChromium, unchangedClient, IsNext, TypeOK, DaemonTypeOK
<1>3. ToSet(buf[c]) \cup ToSet(toDaemon[c])
        \subseteq {msg} \cup ToSet(buf'[c]) \cup ToSet(toDaemon'[c])
  BY <1>1, ReceivedSets
<1>4. Whereabouts(c) = ToSet(Back(c)) \cup ToSet(buf[c]) \cup ToSet(toDaemon[c])
  BY <1>2 DEF Whereabouts, Staged
<1>5. ToSet(Back(c)) \subseteq ToSet(Back(c)') /\ (msg.kind \in Requests => msg \in Whereabouts(c)')
  <2>1. CASE AnswerItself(c) /\ Answer(c, msg)
    <3>1. toClient'[c] = Append(toClient[c], msg) /\ msg \in Frames /\ got'[c] = got[c]
      BY <1>2, <2>1, FrameFacts DEF Answer, TypeOK, ClientTypeOK
    <3>2. ToSet(Back(c)') = ToSet(Back(c)) \cup {msg}
      BY <3>1, BackMore
    <3>3. msg \in Whereabouts(c)'
      BY <3>2 DEF Whereabouts
    <3> QED BY <3>2, <3>3
  <2>2. CASE Absorb(c) /\ UNCHANGED toClient
    <3>1. msg = Head(Pending(c))
      BY <1>1 DEF Received, Pending
    <3>2. msg.kind \notin Requests
      BY <2>2, <3>1 DEF Absorb, IsNext, Requests
    <3>3. Back(c)' = Back(c)
      BY <1>2, <2>2 DEF Back
    <3> QED BY <3>2, <3>3
  <2>3. CASE /\ NeedChromium(c) /\ UNCHANGED toClient
             /\ current' = [current EXCEPT ![c] = msg]
             /\ handler' = [handler EXCEPT ![c] = IF initialized[c] THEN "forward" ELSE "wait"]
    <3>1. handler'[c] \in Staged /\ current'[c] = msg
      BY <2>3 DEF TypeOK, DaemonTypeOK, Staged
    <3>2. msg \in Whereabouts(c)'
      BY <3>1 DEF Whereabouts
    <3>3. Back(c)' = Back(c)
      BY <1>2, <2>3 DEF Back
    <3> QED BY <3>2, <3>3
  <2> QED BY <1>1, <2>1, <2>2, <2>3
<1>6. ToSet(Back(c)') \cup ToSet(buf'[c]) \cup ToSet(toDaemon'[c]) \subseteq Whereabouts(c)'
  BY DEF Whereabouts
<1>7. Asked(c) \cap Whereabouts(c) \subseteq Whereabouts(c)'
  BY <1>3, <1>4, <1>5, <1>6 DEF Asked
<1> QED BY <1>2, <1>7, StillTraced

(* Between two stages the request stays at hand.                           *)
LEMMA StageTraced ==
  ASSUME TypeOK, NEW c \in Clients, Attended(c), Traced(c),
         handler[c] \in Staged, handler'[c] \in Staged, clientSock'[c] = clientSock[c],
         UNCHANGED clientVars, buf'[c] = buf[c], current'[c] = current[c]
  PROVE  Attended(c)' /\ Traced(c)'
<1>1. Back(c)' = Back(c) /\ toDaemon'[c] = toDaemon[c] /\ sent'[c] = sent[c]
  BY DEF clientVars, Back
<1>2. Whereabouts(c) \subseteq Whereabouts(c)'
  BY <1>1 DEF Whereabouts, Staged
<1> QED BY <1>1, <1>2, StillTraced DEF Staged

LEMMA HandlingTraced ==
  ASSUME TypeOK, NEW c \in Clients, Attended(c), Traced(c),
         \/ GiveUp(c) \/ WaitReady(c) \/ ConnectChromium(c) \/ OnInitialized(c)
         \/ OnTools(c) \/ HandshakeFails(c) \/ BridgeEnds(c)
  PROVE  Attended(c)' /\ Traced(c)'
<1>1. CASE Over(c)
  BY <1>1, OverIsTraced
<1>2. CASE ~Over(c)
  <2>1. /\ handler[c] \in Staged /\ handler'[c] \in Staged
        /\ UNCHANGED <<clientVars, clientSock, buf, current>>
    BY <1>2 DEF GiveUp, WaitReady, ConnectChromium, OnInitialized, OnTools, HandshakeFails,
                BridgeEnds, Staged, TypeOK, DaemonTypeOK
  <2> QED BY <2>1, StageTraced
<1> QED BY <1>1, <1>2

LEMMA DoneTraced ==
  ASSUME TypeOK, NEW c \in Clients, Attended(c), Traced(c), HandshakeDone(c)
  PROVE  Attended(c)' /\ Traced(c)'
<1>1. handler[c] = "save" /\ UNCHANGED <<unchangedClient, toDaemon>>
  BY DEF HandshakeDone
<1>2. CASE Over(c)
  BY <1>2, OverIsTraced
<1>3. CASE /\ handler' = [handler EXCEPT ![c] = "forward"]
           /\ UNCHANGED <<buf, current, clientSock, crSock, toClient>>
  <2>1. handler'[c] \in Staged /\ handler[c] \in Staged
    BY <1>1, <1>3 DEF TypeOK, DaemonTypeOK, Staged
  <2> QED BY <1>1, <1>3, <2>1, StageTraced DEF unchangedClient, clientVars
<1>4. CASE /\ current[c].kind = "list"
           /\ Answer(c, current[c])
           /\ handler' = [handler EXCEPT ![c] = "read"]
           /\ UNCHANGED <<buf, clientSock, crSock>>
  <2>1. /\ handler'[c] = "read" /\ toClient'[c] = Append(toClient[c], current[c])
        /\ got'[c] = got[c] /\ current[c] \in Frames
    BY <1>1, <1>4, FrameFacts DEF Answer, unchangedClient, TypeOK, ClientTypeOK, DaemonTypeOK
  <2>2. ToSet(Back(c)') = ToSet(Back(c)) \cup {current[c]}
    BY <2>1, BackMore
  <2>3. Whereabouts(c) \subseteq Whereabouts(c)'
    BY <1>1, <1>4, <2>2 DEF Whereabouts, Staged
  <2> QED BY <1>1, <1>4, <2>1, <2>3, StillTraced DEF unchangedClient
<1> QED BY <1>2, <1>3, <1>4 DEF HandshakeDone

(* The request at hand and the rest of buf are with Chromium.              *)
LEMMA ForwardTraced ==
  ASSUME TypeOK, NEW c \in Clients, Attended(c), Traced(c), Forward(c)
  PROVE  Attended(c)' /\ Traced(c)'
<1>1. handler[c] = "forward" /\ UNCHANGED <<clientVars, fromCr>>
  BY DEF Forward
<1>2. CASE Over(c)
  BY <1>2, OverIsTraced
<1>3. CASE /\ crSock[c] = "open"
           /\ ToChromium(c, <<current[c]>> \o buf[c])
           /\ handler' = [handler EXCEPT ![c] = "bridge"]
           /\ relay' = [relay EXCEPT ![c] = {"up", "down"}]
           /\ UNCHANGED <<clientSock, crSock>>
  <2>1. handler'[c] = "bridge" /\ relay'[c] = {"up", "down"}
    BY <1>3 DEF TypeOK, DaemonTypeOK
  <2>2. due'[c] = due[c] \cup {m \in ToSet(<<current[c]>> \o buf[c]) : m.kind \in Requests}
    BY <1>3 DEF ToChromium, TypeOK, ChromiumTypeOK
  <2>3. current[c] \in Frames /\ buf[c] \in Seq(Frames)
    BY FrameFacts DEF TypeOK, DaemonTypeOK
  <2>4. ToSet(<<current[c]>> \o buf[c]) = {current[c]} \cup ToSet(buf[c])
    BY <2>3, BeforeSet
  <2>5. Whereabouts(c) = ToSet(Back(c)) \cup ToSet(buf[c]) \cup ToSet(toDaemon[c]) \cup {current[c]}
    BY <1>1 DEF Whereabouts, Staged
  <2>6. Back(c)' = Back(c) /\ toDaemon'[c] = toDaemon[c] /\ Asked(c)' = Asked(c)
    BY <1>1 DEF clientVars, Back, Asked
  <2>7. ToSet(Back(c)) \cup ToSet(toDaemon[c]) \cup due'[c] \subseteq Whereabouts(c)'
    BY <2>1, <2>6 DEF Whereabouts
  <2>8. Asked(c) \cap Whereabouts(c) \subseteq Whereabouts(c)'
    BY <2>2, <2>4, <2>5, <2>7 DEF Asked
  <2>9. Connected(c)' => Connected(c)
    BY <1>1, <1>3 DEF Connected
  <2> QED BY <2>1, <2>6, <2>8, <2>9 DEF Attended, Traced
<1> QED BY <1>2, <1>3 DEF Forward

(* A relay passes on what it has read, or closes both sockets.             *)
LEMMA RelayTraced ==
  ASSUME TypeOK, NEW c \in Clients, CInv(c), Attended(c), Traced(c),
         \/ RelayUp(c) \/ RelayDown(c) \/ RelayEnds(c) \/ ChromiumAnswers(c)
  PROVE  Attended(c)' /\ Traced(c)'
<1>1. CASE RelayOver(c, "up") \/ RelayOver(c, "down")
  <2>1. ~clientSock'[c]
    BY <1>1 DEF RelayOver, TypeOK, DaemonTypeOK
  <2> QED BY <2>1, ClosedIsTraced
<1>2. CASE /\ RelayUp(c)
           /\ crSock[c] = "open"
           /\ ToChromium(c, <<Head(toDaemon[c])>>)
           /\ UNCHANGED <<relay, clientSock, crSock>>
  <2>1. /\ handler[c] = "bridge" /\ UNCHANGED <<got, toClient, sent, handler, buf, fromCr>>
        /\ toDaemon[c] \in Seq(FromClient) /\ toDaemon[c] # <<>>
        /\ toDaemon'[c] = Tail(toDaemon[c])
    BY <1>2 DEF RelayUp, unchangedClient, CInv, Stages, TypeOK, ClientTypeOK
  <2>2. PICK m \in FromClient :
          m = Head(toDaemon[c]) /\ ToSet(toDaemon[c]) = {m} \cup ToSet(toDaemon'[c])
    BY <2>1, TailFacts
  <2>3. due'[c] = due[c] \cup {x \in {m} : x.kind \in Requests}
    <3>1. ToSet(<<m>>) = {m}
      BY OneFacts
    <3> QED BY <1>2, <2>2, <3>1 DEF ToChromium, TypeOK, ChromiumTypeOK
  <2>4. Back(c)' = Back(c) /\ Asked(c)' = Asked(c)
    BY <2>1 DEF Back, Asked
  <2>5. Asked(c) \cap Whereabouts(c) \subseteq Whereabouts(c)'
    BY <2>1, <2>2, <2>3, <2>4 DEF Whereabouts, Staged, Asked
  <2> QED BY <1>2, <2>1, <2>4, <2>5 DEF Attended, Traced, Connected
<1>3. CASE /\ RelayDown(c)
           /\ Answer(c, Head(fromCr[c]))
           /\ UNCHANGED <<relay, clientSock, crSock>>
  <2>1. /\ handler[c] = "bridge" /\ UNCHANGED <<got, sent, handler, buf, toDaemon, due>>
        /\ fromCr[c] \in Seq(Frames) /\ fromCr[c] # <<>>
        /\ fromCr'[c] = Tail(fromCr[c])
    BY <1>3 DEF RelayDown, unchangedClient, CInv, Stages, TypeOK, ChromiumTypeOK
  <2>2. PICK m \in Frames :
          m = Head(fromCr[c]) /\ ToSet(fromCr[c]) = {m} \cup ToSet(fromCr'[c])
    BY <2>1, TailFacts
  <2>3. ToSet(Back(c)') = ToSet(Back(c)) \cup {m}
    <3>1. toClient'[c] = Append(toClient[c], m) /\ got'[c] = got[c]
      BY <1>3, <2>1, <2>2 DEF Answer, TypeOK, ClientTypeOK
    <3> QED BY <3>1, BackMore
  <2>4. Whereabouts(c) \subseteq Whereabouts(c)'
    BY <2>1, <2>2, <2>3 DEF Whereabouts, Staged
  <2>5. Asked(c)' = Asked(c)
    BY <2>1 DEF Asked
  <2> QED BY <1>3, <2>1, <2>4, <2>5 DEF Attended, Traced, Connected
<1>4. CASE ChromiumAnswers(c)
  <2>1. PICK m \in due[c] : /\ due'[c] = due[c] \ {m}
                            /\ fromCr'[c] = Append(fromCr[c], m)
    BY <1>4 DEF ChromiumAnswers, TypeOK, ChromiumTypeOK
  <2>2. /\ UNCHANGED <<got, toClient, sent, toDaemon, handler, buf, current, relay>>
        /\ UNCHANGED <<clientSock, crSock>>
    BY <1>4 DEF ChromiumAnswers, clientVars, daemonVars
  <2>3. ToSet(fromCr'[c]) = ToSet(fromCr[c]) \cup {m}
    <3>1. fromCr[c] \in Seq(Frames) /\ m \in Frames
      BY <2>1 DEF TypeOK, ChromiumTypeOK
    <3> QED BY <2>1, <3>1, AppendFacts
  <2>4. Back(c)' = Back(c) /\ Asked(c)' = Asked(c)
    BY <2>2 DEF Back, Asked
  <2>5. Whereabouts(c) \subseteq Whereabouts(c)'
    BY <2>1, <2>2, <2>3, <2>4 DEF Whereabouts
  <2> QED BY <2>2, <2>4, <2>5 DEF Attended, Traced, Connected
<1> QED BY <1>1, <1>2, <1>3, <1>4 DEF RelayUp, RelayDown, RelayEnds

(* What dies with Chromium was asked of a connection that is gone with it. *)
LEMMA OutsideTraced ==
  ASSUME TypeOK, NEW c \in Clients, Attended(c), Traced(c),
         OthersSave \/ ChromiumDies \/ ChromiumComes
  PROVE  Attended(c)' /\ Traced(c)'
<1>1. /\ UNCHANGED <<clientVars, handler, buf, current, clientSock, relay, fromCr>>
      /\ Back(c)' = Back(c) /\ Asked(c)' = Asked(c)
  BY DEF OthersSave, ChromiumDies, ChromiumComes, clientVars, daemonVars, chromiumVars, Back,
         Asked
<1>2. CASE handler[c] = "bridge" /\ ChromiumDies
  <2>1. crSock'[c] # "open"
    BY <1>2 DEF ChromiumDies
  <2> QED BY <1>1, <1>2, <2>1 DEF Attended, Traced, Connected
<1>3. CASE handler[c] # "bridge"
  <2>1. Whereabouts(c)' = Whereabouts(c)
    BY <1>1, <1>3 DEF Whereabouts, clientVars
  <2> QED BY <1>1, <1>3, <2>1 DEF Attended, Traced, Connected
<1>4. CASE OthersSave \/ ChromiumComes
  <2>1. UNCHANGED <<due, crSock>>
    BY <1>4 DEF OthersSave, ChromiumComes, chromiumVars, daemonVars
  <2>2. Whereabouts(c)' = Whereabouts(c)
    BY <1>1, <2>1 DEF Whereabouts, clientVars
  <2> QED BY <1>1, <2>1, <2>2 DEF Attended, Traced, Connected
<1> QED BY <1>2, <1>3, <1>4

(* The process sends a frame, which is then to be read, or takes an answer.*)
LEMMA ClientTraced ==
  ASSUME TypeOK, NEW c \in Clients, Attended(c), Traced(c), NEW open \in BOOLEAN,
         ClientStep(c, open) \/ WriteLine(c) \/ WriteRest(c) \/ CloseStdin(c) \/ ProcessEnds(c),
         UNCHANGED <<daemonVars, chromiumVars>>
  PROVE  Attended(c)' /\ Traced(c)'
<1>1. UNCHANGED <<handler, buf, current, clientSock, crSock, relay, due, fromCr>>
  BY DEF daemonVars, chromiumVars
<1>2. (Attended(c)' <=> Attended(c)) /\ (Connected(c)' <=> Connected(c))
  BY <1>1 DEF Attended, Connected
<1>3. CASE OnSocket(c)
  <2>1. /\ UNCHANGED <<sent, toDaemon>> /\ toClient[c] # <<>>
        /\ got'[c] = Append(got[c], Head(toClient[c])) /\ toClient'[c] = Tail(toClient[c])
        /\ got[c] \in Seq(Frames) /\ toClient[c] \in Seq(Frames)
    BY <1>3 DEF OnSocket, TypeOK, ClientTypeOK
  <2>2. Append(got[c], Head(toClient[c])) \o Tail(toClient[c]) = got[c] \o toClient[c]
    BY <2>1, HandOver, Zenon
  <2>3. Back(c)' = got'[c] \o toClient'[c]
    BY DEF Back
  <2>4. Back(c)' = Back(c) /\ Asked(c)' = Asked(c)
    BY <2>1, <2>2, <2>3 DEF Back, Asked
  <2>5. Whereabouts(c)' = Whereabouts(c)
    BY <1>1, <2>1, <2>4 DEF Whereabouts
  <2> QED BY <1>2, <2>4, <2>5 DEF Traced
<1>4. CASE UNCHANGED <<sent, toDaemon, got, toClient>>
  <2>1. Back(c)' = Back(c) /\ Asked(c)' = Asked(c)
    BY <1>4 DEF Back, Asked
  <2>2. Whereabouts(c)' = Whereabouts(c)
    BY <1>1, <1>4, <2>1 DEF Whereabouts
  <2> QED BY <1>2, <2>1, <2>2 DEF Traced
<1>5. ASSUME NEW m \in FromClient, SendFrame(c, m, open), UNCHANGED <<got, toClient>>
      PROVE  Attended(c)' /\ Traced(c)'
  <2>1. CASE open
    <3>1. /\ sent'[c] = Append(sent[c], m) /\ toDaemon'[c] = Append(toDaemon[c], m)
          /\ sent[c] \in Seq(FromClient) /\ toDaemon[c] \in Seq(FromClient)
      BY <1>5, <2>1 DEF SendFrame, TypeOK, ClientTypeOK
    <3>2. /\ ToSet(sent'[c]) = ToSet(sent[c]) \cup {m}
          /\ ToSet(toDaemon'[c]) = ToSet(toDaemon[c]) \cup {m}
      BY <3>1, AppendFacts
    <3>3. Back(c)' = Back(c) /\ Asked(c)' \subseteq Asked(c) \cup {m}
      BY <1>5, <3>2 DEF Back, Asked
    <3>4. Whereabouts(c) \cup {m} \subseteq Whereabouts(c)'
      BY <1>1, <3>2, <3>3 DEF Whereabouts
    <3> QED BY <1>2, <3>3, <3>4 DEF Traced
  <2>2. CASE ~open
    BY <1>4, <1>5, <2>2 DEF SendFrame
  <2> QED BY <2>1, <2>2
<1>6. CASE OnStdin(c, open)
  <2>1. /\ Head(stdin[c]).msg \in FromClient
        /\ (IF held[c] = NoLine THEN Head(stdin[c]).msg ELSE held[c]) \in FromClient
    BY <1>6, PieceTypes DEF OnStdin, TypeOK
  <2> QED BY <1>4, <1>5, <1>6, <2>1 DEF OnStdin
<1>7. CASE OnSelectTimeout(c, open)
  <2>1. held[c] \in FromClient
    BY <1>7 DEF OnSelectTimeout, TypeOK, ClientTypeOK
  <2>2. [held[c] EXCEPT !.kind = "broken"] \in FromClient
    BY <2>1 DEF FromClient
  <2> QED BY <1>5, <1>7, <2>2 DEF OnSelectTimeout
<1>8. CASE Returns(c, open) \/ WriteLine(c) \/ WriteRest(c) \/ CloseStdin(c) \/ ProcessEnds(c)
  BY <1>4, <1>8 DEF Returns, WriteLine, WriteRest, CloseStdin, ProcessEnds
<1> QED BY <1>3, <1>6, <1>7, <1>8 DEF ClientStep

LEMMA PlaceOfOthers ==
  ASSUME TypeOK, NEW c \in Clients, NEW d \in Clients, d # c,
         Handles(c) \/ RelayUp(c) \/ RelayDown(c) \/ RelayEnds(c) \/ ChromiumAnswers(c)
  PROVE  SamePlace(d)
<1>1. /\ clientSock \in [Clients -> BOOLEAN]
      /\ crSock \in [Clients -> {"none", "open", "reset", "closed"}]
      /\ relay \in [Clients -> SUBSET {"up", "down"}]
  BY DEF TypeOK, DaemonTypeOK
<1>2. Over(c) => clientSock'[d] = clientSock[d] /\ crSock'[d] = crSock[d]
  BY <1>1 DEF Over
<1>3. CASE AnswerItself(c) \/ Absorb(c) \/ NeedChromium(c)
  BY <1>3 DEF AnswerItself, Absorb, NeedChromium, SamePlace
<1>4. CASE GiveUp(c) \/ WaitReady(c) \/ HandshakeFails(c) \/ BridgeEnds(c)
  BY <1>2, <1>4 DEF GiveUp, WaitReady, HandshakeFails, BridgeEnds, SamePlace
<1>5. CASE ConnectChromium(c)
  BY <1>1, <1>2, <1>5 DEF ConnectChromium, SamePlace
<1>6. CASE OnInitialized(c) \/ OnTools(c) \/ HandshakeDone(c)
  BY <1>2, <1>6 DEF OnInitialized, OnTools, HandshakeDone, SamePlace
<1>7. CASE Forward(c)
  BY <1>1, <1>2, <1>7 DEF Forward, SamePlace
<1>8. \A way : RelayOver(c, way) => SamePlace(d)
  BY <1>1 DEF RelayOver, SamePlace
<1>9. CASE RelayUp(c) \/ RelayDown(c) \/ RelayEnds(c) \/ ChromiumAnswers(c)
  BY <1>8, <1>9 DEF RelayUp, RelayDown, RelayEnds, ChromiumAnswers, daemonVars, SamePlace
<1> QED BY <1>3, <1>4, <1>5, <1>6, <1>7, <1>9 DEF Handles

LEMMA StepNoneForgotten ==
  ASSUME IInv, NoneForgotten, [Next]_vars
  PROVE  NoneForgotten'
<1>1. TypeOK /\ \A d \in Clients : CInv(d) /\ Attended(d) /\ Traced(d)
  BY DEF IInv, NoneForgotten
<1> SUFFICES ASSUME NEW d \in Clients PROVE Attended(d)' /\ Traced(d)'
  BY DEF NoneForgotten
<1>2. Same(d) /\ SamePlace(d) => Attended(d)' /\ Traced(d)'
  BY <1>1, KeptTrace DEF Same
<1>3. ASSUME NEW c \in Clients, Handles(c)
      PROVE  Attended(d)' /\ Traced(d)'
  <2>1. CASE d # c
    BY <1>1, <1>2, <1>3, <2>1, HandlesOthers, PlaceOfOthers
  <2>2. CASE d = c
    BY <1>1, <1>3, <2>2, ReadingTraced, HandlingTraced, DoneTraced, ForwardTraced DEF Handles
  <2> QED BY <2>1, <2>2
<1>4. ASSUME NEW c \in Clients, RelayUp(c) \/ RelayDown(c) \/ RelayEnds(c) \/ ChromiumAnswers(c)
      PROVE  Attended(d)' /\ Traced(d)'
  <2>1. CASE d # c
    BY <1>1, <1>2, <1>4, <2>1, RelayOthers, PlaceOfOthers
  <2>2. CASE d = c
    BY <1>1, <1>4, <2>2, RelayTraced
  <2> QED BY <2>1, <2>2
<1>5. ASSUME NEW c \in Clients, NEW open \in BOOLEAN,
             ClientStep(c, open) \/ WriteLine(c) \/ WriteRest(c) \/ CloseStdin(c) \/ ProcessEnds(c),
             UNCHANGED <<daemonVars, chromiumVars>>
      PROVE  Attended(d)' /\ Traced(d)'
  <2>1. CASE d # c
    <3>1. SamePlace(d)
      BY <1>5 DEF daemonVars, SamePlace
    <3> QED BY <1>1, <1>2, <1>5, <2>1, <3>1, ClientOthers
  <2>2. CASE d = c
    BY <1>1, <1>5, <2>2, ClientTraced
  <2> QED BY <2>1, <2>2
<1>6. ASSUME NEW c \in Clients, Bridges(c)
      PROVE  Attended(d)' /\ Traced(d)'
  <2>1. clientSock[c] \in BOOLEAN
    BY <1>1 DEF TypeOK, DaemonTypeOK
  <2> QED BY <1>5, <1>6, <2>1 DEF Bridges
<1>7. ASSUME NEW c \in Clients, WriteLine(c) \/ WriteRest(c) \/ CloseStdin(c) \/ ProcessEnds(c),
             UNCHANGED <<daemonVars, chromiumVars>>
      PROVE  Attended(d)' /\ Traced(d)'
  BY <1>5, <1>7
<1>8. CASE UNCHANGED vars
  <2>1. Same(d) /\ SamePlace(d)
    BY <1>8 DEF vars, clientVars, daemonVars, chromiumVars, Same, SameLines, SameFlow,
                SameChromium, SameBack, SamePlace
  <2> QED BY <1>2, <2>1
<1> QED BY <1>1, <1>3, <1>4, <1>6, <1>7, <1>8, OutsideTraced DEF Next

(* The safety part of AnsweredOrClosed: whatever handle_client is at when  *)
(* Chromium dies, comes back or answers late, a request of a client that is*)
(* still connected has been answered, or is where the thread at hand, the  *)
(* relays or Chromium will come to it.                                     *)
THEOREM ProxyForgetsNone == Spec => []NoneForgotten
<1>1. Init => NoneForgotten
  <2> SUFFICES ASSUME Init, NEW c \in Clients PROVE Attended(c) /\ Traced(c)
    BY DEF NoneForgotten
  <2>1. handler[c] = "read" /\ sent[c] = <<>>
    BY DEF Init, ClientInit
  <2>2. ToSet(<<>>) = {}
    BY EmptyFacts
  <2>3. ToSet(sent[c]) = {}
    BY <2>1, <2>2
  <2>4. Asked(c) = {}
    BY <2>3 DEF Asked
  <2>5. Traced(c)
    BY <2>4 DEF Traced
  <2> QED BY <2>1, <2>5 DEF Attended
<1>2. IInv /\ NoneForgotten /\ [Next]_vars => NoneForgotten'
  BY StepNoneForgotten
<1> QED BY <1>1, <1>2, Invariant, PTL DEF Spec

-----------------------------------------------------------------------------
(* The connection to Chromium at each stage of the handler: there is none  *)
(* before the handshake, so that none is lost by connecting; it is given   *)
(* up by the relay that ends first, and by the handler that returns.       *)
Tidy(c) ==
  /\ handler[c] = "read" => (initialized[c] <=> crSock[c] # "none") /\ crSock[c] # "closed"
  /\ handler[c] \in {"wait", "connect"} => ~initialized[c] /\ crSock[c] = "none"
  /\ handler[c] \in {"init", "tools", "save", "forward"} => crSock[c] \in {"open", "reset"}
  /\ handler[c] # "bridge" => relay[c] = {}
  /\ handler[c] = "bridge" => crSock[c] # "none"
  /\ handler[c] = "bridge" /\ relay[c] # {"up", "down"} => ~clientSock[c] /\ crSock[c] = "closed"
  /\ handler[c] = "over" => ~clientSock[c] /\ crSock[c] \in {"none", "closed"}

(* No connection to Chromium outlives the one it was made for.             *)
NoneLeftOpen == \A c \in Clients : Tidy(c)

(* The fields that Tidy looks at.                                          *)
TidyTypes ==
  /\ handler \in [Clients -> Handlers]
  /\ initialized \in [Clients -> BOOLEAN]
  /\ clientSock \in [Clients -> BOOLEAN]
  /\ crSock \in [Clients -> {"none", "open", "reset", "closed"}]
  /\ relay \in [Clients -> SUBSET {"up", "down"}]

LEMMA TypesTidy == TypeOK => TidyTypes
BY DEF TypeOK, DaemonTypeOK, TidyTypes

LEMMA KeptTidy ==
  ASSUME NEW c \in Clients, Tidy(c), SamePlace(c), handler'[c] = handler[c],
         initialized'[c] = initialized[c]
  PROVE  Tidy(c)'
BY DEF Tidy, SamePlace

LEMMA OverTidy ==
  ASSUME TidyTypes, NEW c \in Clients, Tidy(c), handler[c] # "bridge" \/ relay[c] = {},
         Over(c), relay' = relay
  PROVE  Tidy(c)'
<1>1. handler'[c] = "over" /\ ~clientSock'[c] /\ crSock'[c] \in {"none", "closed"}
  BY DEF Over, TidyTypes
<1>2. relay'[c] = {}
  BY DEF Tidy
<1> QED BY <1>1, <1>2 DEF Tidy

LEMMA HandlingTidy ==
  ASSUME TidyTypes, NEW c \in Clients, Tidy(c), Handles(c)
  PROVE  Tidy(c)'
<1>1. CASE AnswerItself(c) \/ Absorb(c)
  <2>1. SamePlace(c) /\ handler'[c] = handler[c] /\ initialized'[c] = initialized[c]
    BY <1>1 DEF AnswerItself, Absorb, SamePlace
  <2> QED BY <2>1, KeptTidy
<1>2. CASE NeedChromium(c)
  <2>1. /\ handler[c] = "read" /\ initialized'[c] = initialized[c] /\ SamePlace(c)
        /\ handler'[c] = IF initialized[c] THEN "forward" ELSE "wait"
    BY <1>2 DEF NeedChromium, IsNext, SamePlace, TidyTypes
  <2>2. crSock[c] \in {"none", "open", "reset", "closed"} /\ initialized[c] \in BOOLEAN
    BY DEF TidyTypes
  <2> QED BY <2>1, <2>2 DEF Tidy, SamePlace
<1>3. CASE GiveUp(c) \/ HandshakeFails(c) \/ BridgeEnds(c)
  <2>1. Over(c) /\ relay' = relay /\ (handler[c] # "bridge" \/ relay[c] = {})
    BY <1>3 DEF GiveUp, HandshakeFails, BridgeEnds
  <2> QED BY <2>1, OverTidy
<1>4. CASE WaitReady(c)
  <2>1. CASE Over(c)
    BY <1>4, <2>1, OverTidy DEF WaitReady
  <2>2. CASE ~Over(c)
    <3>1. /\ handler[c] = "wait" /\ handler'[c] = "connect" /\ initialized'[c] = initialized[c]
          /\ SamePlace(c)
      BY <1>4, <2>2 DEF WaitReady, SamePlace, TidyTypes
    <3> QED BY <3>1 DEF Tidy, SamePlace
  <2> QED BY <2>1, <2>2
<1>5. CASE ConnectChromium(c)
  <2>1. CASE Over(c)
    BY <1>5, <2>1, OverTidy DEF ConnectChromium
  <2>2. CASE ~Over(c)
    <3>1. /\ handler[c] = "connect" /\ handler'[c] = "init" /\ crSock'[c] = "open"
          /\ relay'[c] = relay[c]
      BY <1>5, <2>2 DEF ConnectChromium, TidyTypes
    <3> QED BY <3>1 DEF Tidy
  <2> QED BY <2>1, <2>2
<1>6. CASE OnInitialized(c) \/ OnTools(c)
  <2>1. CASE Over(c)
    BY <1>6, <2>1, OverTidy DEF OnInitialized, OnTools
  <2>2. CASE ~Over(c)
    <3>1. /\ handler[c] \in {"init", "tools"} /\ handler'[c] \in {"tools", "save"}
          /\ SamePlace(c)
      BY <1>6, <2>2 DEF OnInitialized, OnTools, SamePlace, TidyTypes
    <3> QED BY <3>1 DEF Tidy, SamePlace
  <2> QED BY <2>1, <2>2
<1>7. CASE HandshakeDone(c)
  <2>1. CASE Over(c)
    BY <1>7, <2>1, OverTidy DEF HandshakeDone
  <2>2. CASE ~Over(c)
    <3>1. /\ handler[c] = "save" /\ handler'[c] \in {"read", "forward"}
          /\ initialized'[c] = TRUE /\ SamePlace(c)
      BY <1>7, <2>2 DEF HandshakeDone, SamePlace, TidyTypes
    <3> QED BY <3>1 DEF Tidy, SamePlace
  <2> QED BY <2>1, <2>2
<1>8. CASE Forward(c)
  <2>1. CASE Over(c) /\ relay' = relay
    BY <1>8, <2>1, OverTidy DEF Forward
  <2>2. CASE ~(Over(c) /\ relay' = relay)
    <3>1. /\ handler'[c] = "bridge" /\ relay'[c] = {"up", "down"}
          /\ crSock'[c] = "open"
      BY <1>8, <2>2 DEF Forward, TidyTypes
    <3> QED BY <3>1 DEF Tidy
  <2> QED BY <2>1, <2>2
<1> QED BY <1>1, <1>2, <1>3, <1>4, <1>5, <1>6, <1>7, <1>8 DEF Handles

(* The relay that ends first takes the other's socket along.               *)
LEMMA RelayTidy ==
  ASSUME TidyTypes, NEW c \in Clients, Tidy(c),
         \/ RelayUp(c) \/ RelayDown(c) \/ RelayEnds(c) \/ ChromiumAnswers(c)
  PROVE  Tidy(c)'
<1>1. handler'[c] = handler[c] /\ initialized'[c] = initialized[c]
  BY DEF RelayUp, RelayDown, RelayEnds, ChromiumAnswers, daemonVars
<1>2. CASE SamePlace(c)
  BY <1>1, <1>2, KeptTidy
<1>3. ASSUME NEW way \in relay[c], RelayOver(c, way)
      PROVE  Tidy(c)'
  <2>1. ~clientSock'[c] /\ crSock'[c] = "closed"
    BY <1>3 DEF RelayOver, TidyTypes
  <2>2. handler[c] = "bridge"
    BY <1>3 DEF Tidy
  <2> QED BY <1>1, <2>1, <2>2 DEF Tidy
<1>4. SamePlace(c) \/ \E way \in relay[c] : RelayOver(c, way)
  BY DEF RelayUp, RelayDown, RelayEnds, ChromiumAnswers, daemonVars, SamePlace
<1> QED BY <1>2, <1>3, <1>4

LEMMA StepTidy ==
  ASSUME TypeOK, NoneLeftOpen, [Next]_vars
  PROVE  NoneLeftOpen'
<1>1. TidyTypes
  BY TypesTidy
<1> SUFFICES ASSUME NEW d \in Clients PROVE Tidy(d)'
  BY DEF NoneLeftOpen
<1>2. Tidy(d)
  BY DEF NoneLeftOpen
<1>3. Same(d) /\ SamePlace(d) => Tidy(d)'
  BY <1>2, KeptTidy DEF Same, SameFlow, SameChromium
<1>4. ASSUME NEW c \in Clients, Handles(c)
      PROVE  Tidy(d)'
  <2>1. CASE d # c
    BY <1>3, <1>4, <2>1, HandlesOthers, PlaceOfOthers
  <2>2. CASE d = c
    BY <1>1, <1>2, <1>4, <2>2, HandlingTidy
  <2> QED BY <2>1, <2>2
<1>5. ASSUME NEW c \in Clients, RelayUp(c) \/ RelayDown(c) \/ RelayEnds(c) \/ ChromiumAnswers(c)
      PROVE  Tidy(d)'
  <2>1. CASE d # c
    BY <1>3, <1>5, <2>1, RelayOthers, PlaceOfOthers
  <2>2. CASE d = c
    BY <1>1, <1>2, <1>5, <2>2, RelayTidy
  <2> QED BY <2>1, <2>2
<1>6. CASE UNCHANGED daemonVars
  <2>1. SamePlace(d) /\ handler'[d] = handler[d] /\ initialized'[d] = initialized[d]
    BY <1>6 DEF daemonVars, SamePlace
  <2> QED BY <1>2, <2>1, KeptTidy
<1>7. CASE OthersSave \/ ChromiumDies \/ ChromiumComes
  <2>1. /\ UNCHANGED <<handler, initialized, clientSock, relay>>
        /\ \/ crSock'[d] = crSock[d]
           \/ crSock[d] = "open" /\ crSock'[d] = "reset"
    BY <1>1, <1>7 DEF OthersSave, ChromiumDies, ChromiumComes, daemonVars, TidyTypes
  <2> QED BY <1>2, <2>1 DEF Tidy
<1>8. CASE UNCHANGED vars
  BY <1>6, <1>8 DEF vars
<1> QED BY <1>4, <1>5, <1>6, <1>7, <1>8 DEF Next, Bridges

(* The safety part of GoneReleasesChromium: a handler that has returned has*)
(* closed both sockets, one relay that is left finds both of them closed,  *)
(* and no connection to Chromium is replaced by a second one.              *)
THEOREM ProxyLeavesNoneOpen == Spec => []NoneLeftOpen
<1>1. Init => NoneLeftOpen
  BY DEF Init, NoneLeftOpen, Tidy
<1>2. TypeOK /\ NoneLeftOpen /\ [Next]_vars => NoneLeftOpen'
  BY StepTidy
<1>3. IInv => TypeOK
  BY DEF IInv
<1> QED BY <1>1, <1>2, <1>3, Invariant, PTL DEF Spec
=============================================================================

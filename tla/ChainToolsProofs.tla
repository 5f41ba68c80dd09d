-------------------------- MODULE ChainToolsProofs --------------------------
(***************************************************************************)
(* Proofs about ChainTools for any set of calls and tabs, any text, any    *)
(* number of moves and any settings and parts.                             *)
(***************************************************************************)
EXTENDS ChainTools, FiniteSetTheorems, TLAPS

-----------------------------------------------------------------------------
(* The inductive invariant, part by part.                                  *)

(* A call that has arrived is a call of a tab, and only such a call can    *)
(* have gone wrong.                                                        *)
Arrived ==
  \A c \in Calls :
    /\ tool[c] = "none" => at[c] = "new"
    /\ IF at[c] = "new" THEN tab[c] = NoSession /\ ~excuse[c]
                        ELSE tab[c] \in Sessions

(* What is down in a tab is held by a call that lets it go next, or was    *)
(* left by a call of which a command failed.                               *)
Held ==
  \A s \in Sessions : \A x \in pressed[s] \ {"char"} :
    \E c \in Calls :
      /\ tab[c] = s
      /\ \/ excuse[c]
         \/ item[c] = x /\ at[c] \in {"move", "release", "keyUp"}

(* Whoever presses has something to press.                                 *)
Presses ==
  \A c \in Calls :
    \/ tool[c] \in {"drag", "press"} /\ at[c] \notin Ended
    \/ at[c] = "press"
    => item[c] # "none"

(* The timer is one of a typing that waits for it with characters left.    *)
TimerOn ==
  \A c \in Calls :
    /\ char_delay_timer = c => at[c] = "delay" /\ left[c] > 0
    /\ tool[c] = "typeDelayed" => left[c] < Len(Text)

(* Characters come from calls of the tab.                                  *)
TypedHere ==
  \A s \in Sessions : \A i \in DOMAIN typed[s] : tab[typed[s][i][1]] = s

(* How many characters of a call its tab has got.                          *)
Typed(c, chars) ==
  /\ InOrder(chars, c)
  /\ \E n \in 0 .. Len(Text) : HasTyped(chars, c, n)
  /\ tool[c] = "type" =>
       /\ at[c] = "insert" => HasTyped(chars, c, 0)
       /\ at[c] = "ok" => HasTyped(chars, c, Len(Text))
  /\ tool[c] = "typeDelayed" =>
       /\ at[c] \in {"charDown", "charInsert"} =>
            HasTyped(chars, c, Len(Text) - left[c] - 1)
       /\ at[c] \in {"charUp", "delay"} =>
            HasTyped(chars, c, Len(Text) - left[c])
       /\ at[c] = "ok" => HasTyped(chars, c, Len(Text))

TypedSoFar == \A c \in Calls : tab[c] # NoSession => Typed(c, typed[tab[c]])

(* Parts are waited for only at the parts, and there at least one, none of *)
(* them uncounted.  Only element_info counts more than it asks for.        *)
PartsCounted ==
  \A c \in Calls :
    IF at[c] = "parts"
      THEN /\ parts[c] # {}
           /\ pending[c] >= Cardinality(parts[c])
           /\ tool[c] # "element_info" => pending[c] = Cardinality(parts[c])
      ELSE parts[c] = {}

(* A reset that was alone so far and failed nowhere has taken back the     *)
(* settings before the k-th, which its next command is about.              *)
ResetAt(c, k) ==
  /\ Len(commands[c]) = Len(Settings) + 1 - k
  /\ \A i \in 1 .. Len(commands[c]) :
       commands[c][i] = ResetCommand(Settings[k + i - 1])
  /\ alone[c] /\ ~excuse[c] =>
       overrides[tab[c]] \subseteq {Settings[i] : i \in k .. Len(Settings)}

Emulates(c) == tool[c] \in {"emulation", "reset"} /\ Running(c)

Resets ==
  /\ \A c \in Calls : Emulates(c) => commands[c] # <<>>
  /\ \A c \in Calls : Emulates(c) /\ tool[c] = "reset" =>
       \E k \in 1 .. Len(Settings) : ResetAt(c, k)
  /\ \A c, d \in Calls :
       Emulates(c) /\ Emulates(d) /\ tab[c] = tab[d] /\ alone[c] => c = d

IInv == /\ TypeOK /\ Arrived
        /\ Held /\ Presses
        /\ TimerOn /\ TypedHere /\ TypedSoFar
        /\ PartsCounted
        /\ Resets

USE ChainAssumption, InputAssumption, QueryAssumption, EmulationAssumption

-----------------------------------------------------------------------------
(* The stations.                                                           *)

LEMMA StationsAre ==
  /\ Stations("none") = {"new"}
  /\ Stations("refused") = {"error"}
  /\ Stations("hover") = {"root", "query", "box", "hover", "ok", "error"}
  /\ Stations("scroll") =
       {"root", "query", "box", "wheel", "evaluate", "ok", "error"}
  /\ Stations("drag") =
       {"root", "query", "box", "root2", "query2", "box2", "press", "move",
        "release", "ok", "error"}
  /\ Stations("mouse") =
       {"step", "last", "press", "move", "release", "ok", "error"}
  /\ Stations("press") = {"keyDown", "keyUp", "ok", "error"}
  /\ Stations("type") = {"insert", "ok", "error"}
  /\ Stations("typeDelayed") =
       {"charDown", "charUp", "charInsert", "delay", "ok", "error"}
  /\ Stations("select_option") = {"evaluate", "ok", "error"}
  /\ Stations("file_upload") = {"root", "query", "setFiles", "ok", "error"}
  /\ Stations("element") = {"root", "query", "parts", "ok", "error"}
  /\ Stations("element_info") =
       {"root", "query", "parts", "nothing", "ok", "error"}
  /\ Stations("find") =
       {"root", "queryAll", "performSearch", "getSearchResults", "parts",
        "ok", "error"}
  /\ Stations("emulation") = {"setting", "ok", "error"}
  /\ Stations("reset") = {"setting", "ok", "error"}
BY DEF Stations, Ended

LEMMA ToolsAre ==
  Tools = {"hover", "scroll", "drag", "mouse", "press", "type",
           "select_option", "file_upload", "none", "refused", "typeDelayed",
           "element", "element_info", "find", "emulation", "reset"}
BY DEF Tools, ChainTools

(* The chains stay in the stations of their tool.  What is pressed is      *)
(* released by the same call.                                              *)
LEMMA FollowsStations ==
  ASSUME NEW t \in ChainTools, NEW cmd \in Stations(t) \ Ended
  PROVE  /\ Follows(t, cmd) \in Stations(t) \ {"new"}
         /\ cmd \in {"press", "move", "keyDown"} =>
              Follows(t, cmd) \in {"move", "release", "keyUp"}
         /\ Follows(t, cmd) = "press" => t = "drag"
         /\ t = "type" => cmd = "insert"
<1> USE StationsAre DEF Follows, Ended
<1>1. CASE t = "hover" BY <1>1 DEF HoverChain
<1>2. CASE t = "scroll" BY <1>2 DEF ScrollChain
<1>3. CASE t = "drag" BY <1>3 DEF DragLookup, DragSequence
<1>4. CASE t = "mouse" BY <1>4 DEF MouseMove, MouseDrag
<1>5. CASE t = "press" BY <1>5 DEF PressChain
<1>6. CASE t = "type" BY <1>6 DEF TypeChain
<1>7. CASE t = "select_option" BY <1>7 DEF SelectChain
<1>8. CASE t = "file_upload" BY <1>8 DEF UploadChain
<1> QED BY <1>1, <1>2, <1>3, <1>4, <1>5, <1>6, <1>7, <1>8 DEF ChainTools

LEMMA ArrivedFacts ==
  ASSUME AtStations, Arrived, NEW c \in Calls
  PROVE  /\ tool[c] \in Tools
         /\ at[c] \in Stations(tool[c])
         /\ tool[c] = "none" <=> at[c] = "new"
BY StationsAre, ToolsAre DEF AtStations, Arrived

-----------------------------------------------------------------------------
(* What a step does to the calls: one begins, one goes on, or none moves.  *)

Begins(c, t, s, first, e) ==
  /\ at[c] = "new"
  /\ tool' = [tool EXCEPT ![c] = t]
  /\ tab' = [tab EXCEPT ![c] = s]
  /\ at' = [at EXCEPT ![c] = first]
  /\ excuse' = [excuse EXCEPT ![c] = e]
  /\ UNCHANGED attached

BeginsAny(c, t) ==
  \E s \in Sessions, first \in Stations(t), e \in BOOLEAN :
    Begins(c, t, s, first, e)

Goes(c, next, e) ==
  /\ Running(c)
  /\ excuse[c] => e
  /\ at' = [at EXCEPT ![c] = next]
  /\ excuse' = [excuse EXCEPT ![c] = e]
  /\ UNCHANGED <<attached, tool, tab>>

GoesAny(c) ==
  \E next \in Stations(tool[c]), e \in BOOLEAN : Goes(c, next, e)

NoCallMoves ==
  /\ UNCHANGED <<tool, tab, at, excuse>>
  /\ attached' \in [Sessions -> BOOLEAN]

CallSteps(c) == (\E t \in Tools \ {"none"} : BeginsAny(c, t)) \/ GoesAny(c)

LEMMA AnsweredGoes ==
  ASSUME AtStations, ChainsTypeOK, NEW c \in Calls, NEW response, NEW next,
         Answered(c, response, next)
  PROVE  \E e \in BOOLEAN :
           /\ Goes(c, next, e)
           /\ HasCdpError(response) => e
<1> DEFINE e == excuse[c] \/ HasCdpError(response)
                         \/ response = Response([nodeId |-> 0])
<1>1. excuse[c] \in BOOLEAN
  BY DEF ChainsTypeOK
<1>2. e \in BOOLEAN /\ (excuse[c] => e) /\ (HasCdpError(response) => e)
  BY <1>1
<1>3. Goes(c, next, e)
  BY <1>2 DEF Answered, Goes, Waits
<1> QED BY <1>2, <1>3

LEMMA StepsKeepTypes ==
  ASSUME AtStations, Arrived, ChainsTypeOK,
         NoCallMoves \/ \E c \in Calls : CallSteps(c)
  PROVE  AtStations' /\ Arrived' /\ ChainsTypeOK'
<1>1. CASE NoCallMoves
  BY <1>1 DEF NoCallMoves, AtStations, Arrived, ChainsTypeOK
<1>2. ASSUME NEW c \in Calls, NEW t \in Tools \ {"none"}, BeginsAny(c, t)
      PROVE  AtStations' /\ Arrived' /\ ChainsTypeOK'
  <2>1. PICK s \in Sessions, first \in Stations(t), e \in BOOLEAN :
          Begins(c, t, s, first, e)
    BY <1>2 DEF BeginsAny
  <2>2. first \in Places /\ first # "new"
    BY StationsAre, ToolsAre DEF Places
  <2>3. AtStations'
    BY <2>1, <2>2 DEF Begins, AtStations
  <2>4. Arrived'
    BY <2>1, <2>2 DEF Begins, Arrived, AtStations, ChainsTypeOK
  <2>5. ChainsTypeOK'
    BY <2>1 DEF Begins, ChainsTypeOK
  <2> QED BY <2>3, <2>4, <2>5
<1>3. ASSUME NEW c \in Calls, GoesAny(c)
      PROVE  AtStations' /\ Arrived' /\ ChainsTypeOK'
  <2>1. PICK next \in Stations(tool[c]), e \in BOOLEAN : Goes(c, next, e)
    BY <1>3 DEF GoesAny
  <2>2. tool[c] \in Tools \ {"none"} /\ at[c] # "new"
    BY <2>1, ArrivedFacts DEF Goes, Running
  <2>3. next \in Places /\ next # "new"
    BY <2>2, StationsAre, ToolsAre DEF Places
  <2>4. AtStations'
    BY <2>1, <2>3 DEF Goes, AtStations
  <2>5. Arrived'
    BY <2>1, <2>2, <2>3 DEF Goes, Arrived, AtStations, ChainsTypeOK
  <2>6. ChainsTypeOK'
    BY <2>1 DEF Goes, ChainsTypeOK
  <2> QED BY <2>4, <2>5, <2>6
<1> QED BY <1>1, <1>2, <1>3 DEF CallSteps

-----------------------------------------------------------------------------
(* The characters a tab has got.                                           *)

LEMMA TypedTypes ==
  ASSUME InputTypeOK, NEW s \in Sessions
  PROVE  /\ typed[s] \in Seq(Calls \X (1 .. Len(Text)))
         /\ Len(typed[s]) \in Nat /\ DOMAIN typed[s] = 1 .. Len(typed[s])
         /\ \A i \in DOMAIN typed[s] :
              /\ typed[s][i][1] \in Calls
              /\ typed[s][i][2] \in 1 .. Len(Text)
<1>1. typed[s] \in Seq(Calls \X (1 .. Len(Text)))
  BY DEF InputTypeOK
<1>2. \A i \in DOMAIN typed[s] : typed[s][i] \in Calls \X (1 .. Len(Text))
  BY <1>1
<1> QED BY <1>1, <1>2

LEMMA TextFacts == Text \in Seq({"ascii", "other"}) /\ Len(Text) \in Nat \ {0}
OBVIOUS

(* List r is list q, of length m, and k more characters of other calls.    *)
OthersAdded(c, m, k, q, r) ==
  /\ DOMAIN q = 1 .. m /\ DOMAIN r = 1 .. (m + k)
  /\ \A i \in 1 .. m : r[i] = q[i]
  /\ \A i \in (m + 1) .. (m + k) : r[i][1] # c

(* What is added for other calls changes nothing for this one.             *)
LEMMA OthersKeepTyped ==
  ASSUME NEW c, NEW m \in Nat, NEW k \in Nat, NEW q, NEW r,
         OthersAdded(c, m, k, q, r)
  PROVE  /\ InOrder(q, c) => InOrder(r, c)
         /\ \A n : HasTyped(q, c, n) => HasTyped(r, c, n)
<1> USE DEF OthersAdded
<1>1. Mine(r, c) = Mine(q, c)
  BY DEF Mine
<1>2. \A i \in Mine(q, c) : r[i] = q[i]
  BY DEF Mine
<1>3. InOrder(q, c) => InOrder(r, c)
  BY <1>1, <1>2 DEF InOrder
<1>4. {r[i][2] : i \in Mine(r, c)} = {q[i][2] : i \in Mine(q, c)}
  BY <1>1, <1>2
<1> QED BY <1>3, <1>4 DEF HasTyped

(* The next character of a call.                                           *)
LEMMA AppendsTyped ==
  ASSUME NEW c, NEW m \in Nat, NEW n \in Nat, NEW q, NEW r,
         DOMAIN q = 1 .. m, DOMAIN r = 1 .. (m + 1),
         \A i \in 1 .. m : r[i] = q[i], r[m + 1] = <<c, n + 1>>,
         HasTyped(q, c, n), InOrder(q, c)
  PROVE  HasTyped(r, c, n + 1) /\ InOrder(r, c)
<1>1. Mine(r, c) = Mine(q, c) \cup {m + 1} /\ Mine(q, c) \subseteq 1 .. m
  BY DEF Mine
<1>2. \A i \in Mine(q, c) : r[i] = q[i] /\ q[i][2] \in 1 .. n
  BY <1>1 DEF HasTyped
<1>3. r[m + 1][2] = n + 1
  OBVIOUS
<1>4. {r[i][2] : i \in Mine(r, c)} \subseteq 1 .. (n + 1)
  <2>1. \A i \in Mine(r, c) : r[i][2] \in 1 .. (n + 1)
    BY <1>1, <1>2, <1>3
  <2> QED BY <2>1
<1>5. ASSUME NEW j \in 1 .. (n + 1)
      PROVE  \E i \in Mine(r, c) : r[i][2] = j
  <2>1. CASE j = n + 1
    BY <2>1, <1>1, <1>3
  <2>2. CASE j \in 1 .. n
    <3> DEFINE keys == {q[i][2] : i \in Mine(q, c)}
    <3>0. keys = 1 .. n
      BY DEF HasTyped
    <3>4. j \in keys
      <4> HIDE DEF keys
      <4> QED BY <3>0, <2>2
    <3>1. PICK i \in Mine(q, c) : q[i][2] = j
      BY <3>4
    <3>2. i \in Mine(r, c) /\ r[i] = q[i]
      BY <1>1, <1>2
    <3>3. r[i][2] = j
      BY <3>1, <3>2
    <3> QED BY <3>2, <3>3
  <2> QED BY <2>1, <2>2
<1>6. HasTyped(r, c, n + 1)
  BY <1>4, <1>5 DEF HasTyped
<1>7. ASSUME NEW i \in Mine(r, c), NEW j \in Mine(r, c), i < j
      PROVE  r[i][2] < r[j][2]
  <2>1. i \in Mine(q, c) /\ r[i] = q[i] /\ q[i][2] \in 1 .. n
    BY <1>1, <1>2, <1>7
  <2>2. CASE j \in Mine(q, c)
    <3>1. q[i][2] < q[j][2] /\ r[j] = q[j]
      BY <2>1, <2>2, <1>7, <1>2 DEF InOrder
    <3> QED BY <2>1, <3>1
  <2>3. CASE j = m + 1
    <3>1. r[i][2] \in 1 .. n /\ r[j][2] = n + 1
      BY <2>1, <2>3, <1>3
    <3> QED BY <3>1
  <2> QED BY <1>1, <2>2, <2>3
<1>8. InOrder(r, c)
  BY <1>7 DEF InOrder
<1> QED BY <1>6, <1>8

(* The text all at once.                                                   *)
LEMMA InsertsTyped ==
  ASSUME NEW c, NEW m \in Nat, NEW t \in Nat, NEW q, NEW r,
         DOMAIN q = 1 .. m, DOMAIN r = 1 .. (m + t),
         \A i \in 1 .. m : r[i] = q[i],
         \A i \in (m + 1) .. (m + t) : r[i] = <<c, i - m>>,
         HasTyped(q, c, 0)
  PROVE  HasTyped(r, c, t) /\ InOrder(r, c)
<1>1. Mine(q, c) = {}
  <2>1. \A i \in Mine(q, c) : q[i][2] \in 1 .. 0
    BY DEF HasTyped
  <2> QED BY <2>1
<1>2. \A i \in 1 .. m : r[i][1] # c
  BY <1>1 DEF Mine
<1>3. \A i \in (m + 1) .. (m + t) : r[i][1] = c /\ r[i][2] = i - m
  OBVIOUS
<1>4. Mine(r, c) = (m + 1) .. (m + t)
  <2>1. \A i \in Mine(r, c) : i \in (m + 1) .. (m + t)
    BY <1>2 DEF Mine
  <2>2. \A i \in (m + 1) .. (m + t) : i \in 1 .. (m + t)
    OBVIOUS
  <2>3. \A i \in (m + 1) .. (m + t) : i \in Mine(r, c)
    BY <2>2, <1>3 DEF Mine
  <2> QED BY <2>1, <2>3
<1>5. ASSUME NEW j \in 1 .. t PROVE \E i \in Mine(r, c) : r[i][2] = j
  <2>1. j + m \in (m + 1) .. (m + t) /\ (j + m) - m = j
    OBVIOUS
  <2> QED BY <2>1, <1>3, <1>4
<1>6. \A i \in (m + 1) .. (m + t) : i - m \in 1 .. t
  OBVIOUS
<1>7. \A i \in Mine(r, c) : r[i][2] \in 1 .. t
  BY <1>3, <1>4, <1>6
<1>8. HasTyped(r, c, t)
  BY <1>5, <1>7 DEF HasTyped
<1>9. ASSUME NEW i \in Mine(r, c), NEW j \in Mine(r, c), i < j
      PROVE  r[i][2] < r[j][2]
  <2>1. r[i][2] = i - m /\ r[j][2] = j - m
    BY <1>3, <1>4
  <2> QED BY <2>1, <1>4, <1>9
<1>10. InOrder(r, c)
  BY <1>9 DEF InOrder
<1> QED BY <1>8, <1>10

-----------------------------------------------------------------------------
(* The input tools.                                                        *)

InputNames == ChainTools \cup {"typeDelayed"}

InputIInv ==
  InputTypeOK /\ Held /\ Presses /\ TimerOn /\ TypedHere /\ TypedSoFar

Chains == AtStations /\ Arrived /\ ChainsTypeOK

(* What is typed belongs to calls that have begun.                         *)
LEMMA NewTypedNothing ==
  ASSUME InputTypeOK, TypedHere, NEW s \in Sessions, NEW c \in Calls,
         tab[c] # s
  PROVE  HasTyped(typed[s], c, 0) /\ InOrder(typed[s], c)
<1>1. Mine(typed[s], c) = {}
  BY TypedTypes DEF TypedHere, Mine
<1> QED BY <1>1 DEF HasTyped, InOrder

(* A call that does not move keeps what it has typed.                      *)
LEMMA TypedKept ==
  ASSUME NEW d \in Calls, tab'[d] = tab[d],
         at'[d] = at[d], tool'[d] = tool[d], left'[d] = left[d],
         InOrder(typed[tab[d]], d) => InOrder(typed'[tab[d]], d),
         \A n : HasTyped(typed[tab[d]], d, n) => HasTyped(typed'[tab[d]], d, n),
         Typed(d, typed[tab[d]])
  PROVE  Typed(d, typed[tab[d]])'
BY DEF Typed

(* Steps of the other tools.                                               *)
LEMMA OutsideInput ==
  ASSUME Chains, InputIInv, UNCHANGED inputVars,
         \/ NoCallMoves
         \/ \E c \in Calls : CallSteps(c) /\ tool'[c] \notin InputNames
  PROVE  InputIInv'
<1>1. UNCHANGED <<left, item, char_delay_timer, pressed, typed>>
  BY DEF inputVars
<1>2. CASE NoCallMoves
  <2>1. UNCHANGED <<tool, tab, at, excuse>>
    BY <1>2 DEF NoCallMoves
  <2>2. InputTypeOK' /\ Held' /\ Presses' /\ TimerOn' /\ TypedHere'
    BY <1>1, <2>1 DEF InputIInv, InputTypeOK, Held, Presses, TimerOn, TypedHere
  <2>3. TypedSoFar'
    BY <1>1, <2>1 DEF InputIInv, TypedSoFar, Typed
  <2> QED BY <2>2, <2>3 DEF InputIInv
<1>3. ASSUME NEW c \in Calls, CallSteps(c), tool'[c] \notin InputNames
      PROVE  InputIInv'
  <2>1. /\ \A d \in Calls \ {c} :
             /\ tool'[d] = tool[d] /\ tab'[d] = tab[d]
             /\ at'[d] = at[d] /\ excuse'[d] = excuse[d]
        /\ tool[c] \notin InputNames
        /\ \/ tab[c] = NoSession /\ ~excuse[c] /\ tab'[c] \in Sessions
           \/ tab'[c] = tab[c] /\ (excuse[c] => excuse'[c])
        /\ at[c] \notin {"move", "release", "keyUp", "delay"}
        /\ at'[c] # "press"
    <3>1. ASSUME NEW t \in Tools \ {"none"}, BeginsAny(c, t)
          PROVE  <2>1
      <4>1. PICK s \in Sessions, first \in Stations(t), e \in BOOLEAN :
              Begins(c, t, s, first, e)
        BY <3>1 DEF BeginsAny
      <4>2. tool[c] = "none" /\ tab[c] = NoSession /\ ~excuse[c]
        BY <4>1, ArrivedFacts DEF Begins, Chains, Arrived
      <4>3. t \notin InputNames
        BY <1>3, <4>1 DEF Begins, Chains, AtStations
      <4>4. first # "press"
        BY <4>3, StationsAre, ToolsAre DEF InputNames, ChainTools
      <4> QED BY <4>1, <4>2, <4>4 DEF Begins, Chains, AtStations, ChainsTypeOK,
                 InputNames, ChainTools
    <3>2. CASE GoesAny(c)
      <4>1. PICK next \in Stations(tool[c]), e \in BOOLEAN : Goes(c, next, e)
        BY <3>2 DEF GoesAny
      <4>2. tool[c] \in Tools \ InputNames /\ at[c] \in Stations(tool[c])
        BY <4>1, <1>3, ArrivedFacts DEF Goes, Chains
      <4>3. at[c] \notin {"move", "release", "keyUp", "delay"} /\ next # "press"
        BY <4>2, StationsAre, ToolsAre DEF InputNames, ChainTools
      <4> QED BY <4>1, <4>2, <4>3 DEF Goes, Chains, AtStations, ChainsTypeOK
    <3> QED BY <1>3, <3>1, <3>2 DEF CallSteps
  <2>2. InputTypeOK'
    BY <1>1 DEF InputIInv, InputTypeOK
  <2>3. Held'
    BY <1>1, <2>1 DEF InputIInv, Held
  <2>4. TimerOn'
    BY <1>1, <1>3, <2>1 DEF InputIInv, TimerOn, InputNames
  <2>7. Presses'
    BY <1>1, <1>3, <2>1 DEF InputIInv, Presses, InputNames, ChainTools
  <2>5. TypedHere'
    BY SMTT(30), <1>1, <2>1, TypedTypes DEF InputIInv, TypedHere
  <2>6. TypedSoFar'
    <3> SUFFICES ASSUME NEW d \in Calls, tab'[d] # NoSession
                 PROVE  Typed(d, typed[tab[d]])'
      BY DEF TypedSoFar
    <3>1. CASE d # c
      <4>1. tab'[d] = tab[d] /\ Typed(d, typed[tab[d]])
        BY <2>1, <3>1 DEF InputIInv, TypedSoFar
      <4> QED BY <1>1, <2>1, <3>1, <4>1, TypedKept
    <3>2. CASE d = c
      <4>0. tool'[c] \notin {"type", "typeDelayed"}
        BY <1>3 DEF InputNames, ChainTools
      <4>1. /\ InOrder(typed'[tab'[c]], c)
            /\ \E n \in 0 .. Len(Text) : HasTyped(typed'[tab'[c]], c, n)
        <5>1. CASE tab[c] = NoSession /\ tab'[c] \in Sessions
          <6>1. tab[c] # tab'[c] /\ InputTypeOK /\ TypedHere
            BY <5>1 DEF InputIInv
          <6>2. /\ HasTyped(typed[tab'[c]], c, 0)
                /\ InOrder(typed[tab'[c]], c)
            BY <5>1, <6>1, NewTypedNothing
          <6>3. 0 \in 0 .. Len(Text)
            BY TextFacts
          <6> QED BY <1>1, <6>2, <6>3
        <5>2. CASE tab'[c] = tab[c]
          <6>1. Typed(c, typed[tab[c]])
            BY <5>2, <3>2 DEF InputIInv, TypedSoFar
          <6> QED BY <1>1, <5>2, <6>1 DEF Typed
        <5> QED BY <2>1, <5>1, <5>2
      <4> QED BY <3>2, <4>0, <4>1 DEF Typed
    <3> QED BY <3>1, <3>2
  <2> QED BY <2>2, <2>3, <2>4, <2>5, <2>6, <2>7 DEF InputIInv
<1> QED BY <1>2, <1>3

(* A call of these tools begins with a command that holds nothing, and     *)
(* with its characters still to come.                                      *)
StartsWith(c, s, t, first, n, i) ==
  /\ Start(c, t, s, first, n, i)
  /\ first \notin {"move", "release", "keyUp", "charUp", "delay", "new"} \cup Ended
  /\ n \in 0 .. (Steps + Len(Text))
  /\ i \in Buttons \cup {"none", "key"}
  /\ t = "typeDelayed" => n = Len(Text) - 1
  /\ t \in {"drag", "press"} \/ first = "press" => i # "none"

LEMMA InputStarts ==
  ASSUME NEW c \in Calls, NEW s \in Sessions,
         \/ ExecuteHover(c, s) \/ ExecuteScroll(c, s) \/ ExecuteDrag(c, s)
         \/ ExecuteMouse(c, s) \/ ExecutePress(c, s) \/ ExecuteType(c, s)
         \/ ExecuteTypeWithDelay(c, s) \/ ExecuteSelectOption(c, s)
         \/ ExecuteFileUpload(c, s)
  PROVE  \E t \in InputNames : \E first \in Stations(t) :
           \E n, i : StartsWith(c, s, t, first, n, i)
<1> USE StationsAre DEF Ended, InputNames, ChainTools, Buttons
<1>0. Steps \in Nat \ {0} /\ Len(Text) \in Nat \ {0}
  BY TextFacts
<1>1. CASE ExecuteHover(c, s)
  <2>1. PICK first \in {"root", "hover"} :
          Start(c, "hover", s, first, 0, "none")
    BY <1>1 DEF ExecuteHover
  <2>2. StartsWith(c, s, "hover", first, 0, "none")
    BY <1>0, <2>1 DEF StartsWith
  <2> QED BY <2>2
<1>2. CASE ExecuteScroll(c, s)
  <2>1. PICK first \in {"evaluate", "root", "wheel"} :
          Start(c, "scroll", s, first, 0, "none")
    BY <1>2 DEF ExecuteScroll
  <2>2. StartsWith(c, s, "scroll", first, 0, "none")
    BY <1>0, <2>1 DEF StartsWith
  <2> QED BY <2>2
<1>3. CASE ExecuteDrag(c, s)
  <2>1. PICK first \in {"root", "press"} :
          Start(c, "drag", s, first, Steps - 1, "left")
    BY <1>3 DEF ExecuteDrag
  <2>2. Steps - 1 \in 0 .. (Steps + Len(Text))
    BY <1>0
  <2>3. StartsWith(c, s, "drag", first, Steps - 1, "left")
    BY <2>1, <2>2 DEF StartsWith
  <2> QED BY <2>3
<1>4. CASE ExecuteMouse(c, s)
  <2>1. CASE \E n \in {1, Steps} : Start(c, "mouse", s, "step", n - 1, "none")
    <3>1. PICK n \in {1, Steps} : Start(c, "mouse", s, "step", n - 1, "none")
      BY <2>1
    <3>2. n - 1 \in 0 .. (Steps + Len(Text))
      BY <1>0
    <3>3. StartsWith(c, s, "mouse", "step", n - 1, "none")
      BY <3>1, <3>2 DEF StartsWith
    <3> QED BY <3>3
  <2>2. CASE \E button \in Buttons :
               Start(c, "mouse", s, "press", Steps - 1, button)
    <3>1. PICK button \in Buttons :
            Start(c, "mouse", s, "press", Steps - 1, button)
      BY <2>2
    <3>2. Steps - 1 \in 0 .. (Steps + Len(Text))
      BY <1>0
    <3>3. StartsWith(c, s, "mouse", "press", Steps - 1, button)
      BY <3>1, <3>2 DEF StartsWith
    <3> QED BY <3>3
  <2> QED BY <1>4, <2>1, <2>2 DEF ExecuteMouse
<1>5. CASE ExecutePress(c, s)
  <2>1. StartsWith(c, s, "press", "keyDown", 0, "key")
    BY <1>0, <1>5 DEF StartsWith, ExecutePress
  <2> QED BY <2>1
<1>6. CASE ExecuteType(c, s)
  <2>1. StartsWith(c, s, "type", "insert", 0, "none")
    BY <1>0, <1>6 DEF StartsWith, ExecuteType
  <2> QED BY <2>1
<1>7. CASE ExecuteTypeWithDelay(c, s)
  <2> DEFINE first == CharCommand(Len(Text))
  <2>1. first \in {"charDown", "charInsert"}
    BY DEF CharCommand
  <2>2. Start(c, "typeDelayed", s, first, Len(Text) - 1, "none")
    BY <1>7 DEF ExecuteTypeWithDelay
  <2>3. Len(Text) - 1 \in 0 .. (Steps + Len(Text))
    BY <1>0
  <2> HIDE DEF first
  <2>4. StartsWith(c, s, "typeDelayed", first, Len(Text) - 1, "none")
    BY <2>1, <2>2, <2>3 DEF StartsWith
  <2> QED BY <2>1, <2>4
<1>8. CASE ExecuteSelectOption(c, s)
  <2>1. StartsWith(c, s, "select_option", "evaluate", 0, "none")
    BY <1>0, <1>8 DEF StartsWith, ExecuteSelectOption
  <2> QED BY <2>1
<1>9. CASE ExecuteFileUpload(c, s)
  <2>1. StartsWith(c, s, "file_upload", "root", 0, "none")
    BY <1>0, <1>9 DEF StartsWith, ExecuteFileUpload
  <2> QED BY <2>1
<1> QED BY <1>1, <1>2, <1>3, <1>4, <1>5, <1>6, <1>7, <1>8, <1>9

LEMMA StartInput ==
  ASSUME Chains, InputIInv, NEW c \in Calls, NEW s \in Sessions,
         NEW t \in InputNames, NEW first \in Stations(t), NEW n, NEW i,
         StartsWith(c, s, t, first, n, i)
  PROVE  BeginsAny(c, t) /\ InputIInv'
<1>1. /\ at[c] = "new" /\ tool[c] = "none" /\ tab[c] = NoSession /\ ~excuse[c]
      /\ tool' = [tool EXCEPT ![c] = t]
      /\ tab' = [tab EXCEPT ![c] = s]
      /\ at' = [at EXCEPT ![c] = first]
      /\ left' = [left EXCEPT ![c] = n]
      /\ item' = [item EXCEPT ![c] = i]
      /\ UNCHANGED <<attached, excuse, char_delay_timer, pressed, typed>>
  BY ArrivedFacts DEF StartsWith, Start, Execute, Chains, Arrived
<1>2. /\ first \notin {"move", "release", "keyUp", "charUp", "delay", "new",
                       "ok", "error"}
      /\ n \in 0 .. (Steps + Len(Text))
      /\ i \in Buttons \cup {"none", "key"}
      /\ t = "typeDelayed" => n = Len(Text) - 1
      /\ t \in {"drag", "press"} \/ first = "press" => i # "none"
  BY DEF StartsWith, Ended
<1>3. BeginsAny(c, t)
  <2>1. excuse' = [excuse EXCEPT ![c] = FALSE]
    BY <1>1 DEF Chains, ChainsTypeOK
  <2>2. Begins(c, t, s, first, FALSE)
    BY <1>1, <2>1 DEF Begins
  <2> QED BY <2>2 DEF BeginsAny
<1>4. InputTypeOK'
  BY <1>1, <1>2 DEF InputIInv, InputTypeOK
<1>5. \A d \in Calls \ {c} :
        /\ tool'[d] = tool[d] /\ tab'[d] = tab[d] /\ at'[d] = at[d]
        /\ left'[d] = left[d] /\ item'[d] = item[d] /\ excuse'[d] = excuse[d]
  BY <1>1
<1>6. /\ tool'[c] = t /\ tab'[c] = s /\ at'[c] = first /\ left'[c] = n
  BY <1>1 DEF Chains, AtStations, ChainsTypeOK, InputIInv, InputTypeOK
<1>7. Held'
  <2> SUFFICES ASSUME NEW r \in Sessions, NEW x \in pressed[r] \ {"char"}
               PROVE  \E d \in Calls :
                        /\ tab'[d] = r
                        /\ \/ excuse'[d]
                           \/ /\ item'[d] = x
                              /\ at'[d] \in {"move", "release", "keyUp"}
    BY <1>1 DEF Held
  <2>1. PICK d \in Calls :
          /\ tab[d] = r
          /\ \/ excuse[d]
             \/ item[d] = x /\ at[d] \in {"move", "release", "keyUp"}
    BY DEF InputIInv, Held
  <2>2. d # c
    BY <1>1, <2>1
  <2> QED BY <2>1, <2>2, <1>5
<1>8. TimerOn'
  BY <1>1, <1>2, <1>5, <1>6, TextFacts DEF InputIInv, TimerOn
<1>11. Presses'
  BY <1>1, <1>2, <1>5, <1>6 DEF InputIInv, InputTypeOK, Presses
<1>9. TypedHere'
  BY <1>1, <1>5, TypedTypes DEF InputIInv, TypedHere
<1>10. TypedSoFar'
  <2> SUFFICES ASSUME NEW d \in Calls, tab'[d] # NoSession
               PROVE  Typed(d, typed[tab[d]])'
    BY DEF TypedSoFar
  <2>1. CASE d # c
    <3>1. tab'[d] = tab[d] /\ Typed(d, typed[tab[d]])
      BY <1>5, <2>1 DEF InputIInv, TypedSoFar
    <3> QED BY <1>1, <1>5, <2>1, <3>1, TypedKept
  <2>2. CASE d = c
    <3>1. HasTyped(typed'[tab'[c]], c, 0) /\ InOrder(typed'[tab'[c]], c)
      BY <1>1, <1>6, NewTypedNothing DEF InputIInv
    <3>2. 0 \in 0 .. Len(Text) /\ (t = "typeDelayed" => Len(Text) - n - 1 = 0)
      BY <1>2, TextFacts
    <3> QED BY <2>2, <3>1, <3>2, <1>2, <1>6, TextFacts DEF Typed
  <2> QED BY <2>1, <2>2
<1> QED BY <1>3, <1>4, <1>7, <1>8, <1>9, <1>10, <1>11 DEF InputIInv

(* The call that waits for an answer, and what it can be at.               *)
LEMMA WaitingCall ==
  ASSUME Chains, NEW c \in Calls, Waits(c)
  PROVE  /\ at[c] \in Stations(tool[c]) \ (Ended \cup {"new", "delay", "nothing"})
         /\ tool[c] \in Tools \ {"none"}
         /\ tab[c] \in Sessions
BY ArrivedFacts DEF Chains, Arrived, Waits, Running

(* Nobody presses anything more, and the holders hold on.                  *)
LEMMA HeldKept ==
  ASSUME Held, UNCHANGED tab,
         \A r \in Sessions : pressed'[r] \ {"char"} \subseteq pressed[r],
         \A d \in Calls : excuse[d] => excuse'[d],
         \A d \in Calls : at[d] \in {"move", "release", "keyUp"} =>
           \/ excuse'[d]
           \/ item'[d] = item[d] /\ at'[d] \in {"move", "release", "keyUp"}
  PROVE  Held'
<1> SUFFICES ASSUME NEW r \in Sessions, NEW x \in pressed'[r] \ {"char"}
             PROVE  \E d \in Calls :
                      /\ tab'[d] = r
                      /\ \/ excuse'[d]
                         \/ /\ item'[d] = x
                            /\ at'[d] \in {"move", "release", "keyUp"}
  BY DEF Held
<1>1. x \in pressed[r] \ {"char"}
  OBVIOUS
<1>2. PICK d \in Calls :
        /\ tab[d] = r
        /\ \/ excuse[d]
           \/ item[d] = x /\ at[d] \in {"move", "release", "keyUp"}
  BY <1>1 DEF Held
<1> QED BY <1>2

(* Only call c gets characters: the others have what they had.             *)
LEMMA OthersTyped ==
  ASSUME Chains, InputTypeOK, TypedHere, TypedSoFar,
         NEW c \in Calls, tab[c] \in Sessions, UNCHANGED <<tab, tool>>,
         \A d \in Calls \ {c} : at'[d] = at[d] /\ left'[d] = left[d],
         NEW k \in Nat,
         \A s \in Sessions \ {tab[c]} : typed'[s] = typed[s],
         DOMAIN typed'[tab[c]] = 1 .. (Len(typed[tab[c]]) + k),
         \A i \in 1 .. Len(typed[tab[c]]) : typed'[tab[c]][i] = typed[tab[c]][i],
         \A i \in (Len(typed[tab[c]]) + 1) .. (Len(typed[tab[c]]) + k) :
           typed'[tab[c]][i][1] = c
  PROVE  /\ TypedHere'
         /\ \A d \in Calls \ {c} :
              tab[d] # NoSession => Typed(d, typed[tab[d]])'
<1>0. /\ Len(typed[tab[c]]) \in Nat
      /\ DOMAIN typed[tab[c]] = 1 .. Len(typed[tab[c]])
  BY TypedTypes
<1>1. TypedHere'
  <2> SUFFICES ASSUME NEW s \in Sessions, NEW i \in DOMAIN typed'[s]
               PROVE  tab[typed'[s][i][1]] = s
    BY DEF TypedHere
  <2>1. CASE s # tab[c]
    BY <2>1 DEF TypedHere
  <2>2. CASE s = tab[c] /\ i \in 1 .. Len(typed[tab[c]])
    BY <1>0, <2>2 DEF TypedHere
  <2>3. CASE s = tab[c] /\ i \in (Len(typed[tab[c]]) + 1) .. (Len(typed[tab[c]]) + k)
    BY <2>3
  <2>4. s = tab[c] => \/ i \in 1 .. Len(typed[tab[c]])
                      \/ i \in (Len(typed[tab[c]]) + 1) .. (Len(typed[tab[c]]) + k)
    BY <1>0
  <2> QED BY <2>1, <2>2, <2>3, <2>4
<1>2. ASSUME NEW d \in Calls \ {c}, tab[d] # NoSession
      PROVE  Typed(d, typed[tab[d]])'
  <2>1. Typed(d, typed[tab[d]]) /\ tab[d] \in Sessions
    BY <1>2 DEF TypedSoFar, Chains, ChainsTypeOK
  <2>2. CASE tab[d] # tab[c]
    BY <2>1, <2>2, TypedKept
  <2>3. CASE tab[d] = tab[c]
    <3> DEFINE m == Len(typed[tab[c]])
               q == typed[tab[c]]
               r == typed'[tab[c]]
    <3>1. m \in Nat /\ OthersAdded(d, m, k, q, r)
      BY <1>0 DEF OthersAdded
    <3> HIDE DEF m, q, r
    <3>2. /\ InOrder(q, d) => InOrder(r, d)
          /\ \A n : HasTyped(q, d, n) => HasTyped(r, d, n)
      BY <3>1, OthersKeepTyped
    <3> QED BY <2>1, <2>3, <3>2, TypedKept DEF q, r
  <2> QED BY <2>2, <2>3
<1> QED BY <1>1, <1>2

(* A command of an input call fails.                                       *)
LEMMA InputFailsIInv ==
  ASSUME Chains, InputIInv, NEW c \in Calls, InputFails(c)
  PROVE  GoesAny(c) /\ InputIInv'
<1>1. /\ Waits(c)
      /\ left' = [left EXCEPT ![c] = 0]
      /\ item' = [item EXCEPT ![c] = "none"]
      /\ UNCHANGED <<char_delay_timer, pressed, typed>>
  BY DEF InputFails
<1>2. PICK response : Fails(tool[c], at[c], response) /\ Answered(c, response, "error")
  BY DEF InputFails
<1>3. PICK e \in BOOLEAN : Goes(c, "error", e) /\ (HasCdpError(response) => e)
  BY <1>2, AnsweredGoes DEF Chains
<1>4. /\ \A d \in Calls \ {c} : /\ at'[d] = at[d] /\ excuse'[d] = excuse[d]
                                /\ left'[d] = left[d] /\ item'[d] = item[d]
      /\ at'[c] = "error" /\ excuse'[c] = e /\ (excuse[c] => e)
      /\ left'[c] = 0 /\ item'[c] = "none"
      /\ UNCHANGED <<tool, tab, attached>>
  BY <1>1, <1>3 DEF Goes, Chains, AtStations, ChainsTypeOK, InputIInv, InputTypeOK
<1>5. GoesAny(c)
  <2>1. "error" \in Stations(tool[c])
    BY <1>1, WaitingCall, StationsAre, ToolsAre
  <2> QED BY <1>3, <2>1 DEF GoesAny
<1>6. InputTypeOK'
  BY <1>1, TextFacts DEF InputIInv, InputTypeOK
<1>7. Held'
  <2>1. at[c] \in {"move", "release", "keyUp"} => e
    <3>1. tool[c] = "select_option" => at[c] \notin {"move", "release", "keyUp"}
      BY <1>1, WaitingCall, StationsAre, ToolsAre
    <3> QED BY <1>2, <1>3, <3>1 DEF Fails, Lacks
  <2> QED BY <1>1, <1>4, <2>1, HeldKept DEF InputIInv
<1>8. Presses'
  BY <1>4 DEF InputIInv, Presses, Ended
<1>9. TimerOn'
  BY <1>1, <1>4, WaitingCall, TextFacts DEF InputIInv, TimerOn
<1>10. TypedHere' /\ TypedSoFar'
  <2>1. /\ tab[c] \in Sessions
        /\ Len(typed[tab[c]]) \in Nat
        /\ DOMAIN typed[tab[c]] = 1 .. Len(typed[tab[c]])
    BY <1>1, WaitingCall, TypedTypes DEF InputIInv
  <2>5. /\ DOMAIN typed'[tab[c]] = 1 .. (Len(typed[tab[c]]) + 0)
        /\ (Len(typed[tab[c]]) + 1) .. (Len(typed[tab[c]]) + 0) = {}
    BY <1>1, <2>1
  <2>2. /\ TypedHere'
        /\ \A d \in Calls \ {c} : tab[d] # NoSession => Typed(d, typed[tab[d]])'
    BY <1>1, <1>4, <2>1, <2>5, OthersTyped DEF InputIInv
  <2>3. Typed(c, typed[tab[c]])
    BY <2>1 DEF InputIInv, TypedSoFar
  <2>4. Typed(c, typed[tab[c]])'
    BY <1>1, <1>4, <2>3 DEF Typed
  <2> QED BY <1>4, <2>2, <2>4 DEF TypedSoFar
<1> QED BY <1>5, <1>6, <1>7, <1>8, <1>9, <1>10 DEF InputIInv

LEMMA Concatenated ==
  ASSUME NEW S, NEW q \in Seq(S), NEW w \in Seq(S)
  PROVE  /\ q \o w \in Seq(S)
         /\ DOMAIN (q \o w) = 1 .. (Len(q) + Len(w))
         /\ \A i \in 1 .. Len(q) : (q \o w)[i] = q[i]
         /\ \A i \in (Len(q) + 1) .. (Len(q) + Len(w)) :
              (q \o w)[i] = w[i - Len(q)]
OBVIOUS

(* What an answered command does to the characters.                        *)
LEMMA DoneTyped ==
  ASSUME Chains, InputIInv, NEW c \in Calls, Waits(c), Done(c),
         UNCHANGED <<tab, tool>>,
         \A d \in Calls \ {c} : at'[d] = at[d] /\ left'[d] = left[d]
  PROVE  /\ typed' \in [Sessions -> Seq(Calls \X (1 .. Len(Text)))]
         /\ TypedHere'
         /\ \A d \in Calls \ {c} :
              tab[d] # NoSession => Typed(d, typed[tab[d]])'
         /\ InOrder(typed'[tab[c]], c)
         /\ \E n \in 0 .. Len(Text) : HasTyped(typed'[tab[c]], c, n)
         /\ at[c] = "insert" => HasTyped(typed'[tab[c]], c, Len(Text))
         /\ at[c] \in {"charDown", "charInsert"} =>
              HasTyped(typed'[tab[c]], c, Len(Text) - left[c])
         /\ at[c] \notin {"insert", "charDown", "charInsert"} => typed' = typed
<1> DEFINE s == tab[c]
           q == typed[s]
           r == typed'[s]
           m == Len(q)
           t == Len(Text)
<1>1. /\ s \in Sessions
      /\ q \in Seq(Calls \X (1 .. t)) /\ m \in Nat /\ DOMAIN q = 1 .. m
      /\ t \in Nat \ {0} /\ DOMAIN Text = 1 .. t
      /\ Typed(c, q)
      /\ typed \in [Sessions -> Seq(Calls \X (1 .. t))]
      /\ InputTypeOK /\ TypedHere /\ TypedSoFar
      /\ left[c] \in Nat
  BY SMTT(30), WaitingCall, TypedTypes, TextFacts DEF InputIInv, InputTypeOK, TypedSoFar
<1>2. at[c] \in Stations(tool[c]) /\ tool[c] \in Tools
  BY WaitingCall
<1>3. CASE at[c] = "insert"
  <2> DEFINE chars == [i \in DOMAIN Text |-> <<c, i>>]
  <2>1. typed' = [typed EXCEPT ![s] = q \o chars]
    BY <1>1, <1>3 DEF Done
  <2>2. chars \in Seq(Calls \X (1 .. t)) /\ Len(chars) = t
        /\ \A i \in 1 .. t : chars[i] = <<c, i>>
    BY <1>1
  <2>3. r = q \o chars /\ typed' \in [Sessions -> Seq(Calls \X (1 .. t))]
        /\ \A u \in Sessions \ {s} : typed'[u] = typed[u]
    <3>1. q \o chars \in Seq(Calls \X (1 .. t))
      BY <1>1, <2>2
    <3> HIDE DEF chars
    <3> QED BY <1>1, <2>1, <3>1
  <2>4. /\ DOMAIN r = 1 .. (m + t)
        /\ \A i \in 1 .. m : r[i] = q[i]
        /\ \A i \in (m + 1) .. (m + t) : r[i] = <<c, i - m>>
    <3> HIDE DEF chars
    <3>1. /\ DOMAIN r = 1 .. (m + t)
          /\ \A i \in 1 .. m : r[i] = q[i]
          /\ \A i \in (m + 1) .. (m + t) : r[i] = chars[i - m]
      <4>1. /\ DOMAIN (q \o chars) = 1 .. (Len(q) + Len(chars))
            /\ \A i \in 1 .. Len(q) : (q \o chars)[i] = q[i]
            /\ \A i \in (Len(q) + 1) .. (Len(q) + Len(chars)) :
                 (q \o chars)[i] = chars[i - Len(q)]
        <5>1. q \in Seq(Calls \X (1 .. t)) /\ chars \in Seq(Calls \X (1 .. t))
          BY <1>1, <2>2
        <5> HIDE DEF q, t
        <5> QED BY <5>1, Concatenated
      <4>2. Len(chars) = t /\ r = q \o chars
        BY <2>2, <2>3
      <4> HIDE DEF r, t
      <4> QED BY <4>1, <4>2
    <3>2. \A i \in (m + 1) .. (m + t) : i - m \in 1 .. t
      <4> HIDE DEF m, t
      <4> QED BY <1>1
    <3> QED BY <2>2, <3>1, <3>2
  <2>5. HasTyped(q, c, 0)
    <3>1. tool[c] = "type"
      BY <1>2, <1>3, StationsAre, ToolsAre
    <3> QED BY <3>1, <1>1, <1>3 DEF Typed
  <2>6. HasTyped(r, c, t) /\ InOrder(r, c)
    <3> HIDE DEF r, q, m, t, chars
    <3> QED BY <1>1, <2>4, <2>5, InsertsTyped
  <2>7. \A i \in (m + 1) .. (m + t) : r[i][1] = c
    BY SMTT(30), <2>4
  <2>8. /\ TypedHere'
        /\ \A d \in Calls \ {c} : tab[d] # NoSession => Typed(d, typed[tab[d]])'
    <3> HIDE DEF chars
    <3> QED BY <1>1, <2>3, <2>4, <2>7, OthersTyped
  <2>9. t \in 0 .. t
    BY <1>1
  <2> HIDE DEF chars
  <2> QED BY <1>3, <2>3, <2>6, <2>8, <2>9
<1>4. CASE at[c] \in {"charDown", "charInsert"}
  <2> DEFINE n == t - left[c] - 1
  <2>1. typed' = [typed EXCEPT ![s] = Append(q, <<c, t - left[c]>>)]
    BY <1>1, <1>4 DEF Done
  <2>2. tool[c] = "typeDelayed" /\ left[c] < t
    <3>1. tool[c] = "typeDelayed"
      BY <1>2, <1>4, StationsAre, ToolsAre
    <3> QED BY <3>1 DEF InputIInv, TimerOn
  <2>3. n \in Nat /\ t - left[c] = n + 1 /\ n + 1 \in 1 .. t /\ n + 1 \in 0 .. t
    BY <1>1, <2>2
  <2>4. HasTyped(q, c, n) /\ InOrder(q, c)
    BY <1>1, <1>4, <2>2 DEF Typed
  <2> HIDE DEF n
  <2>5. r = Append(q, <<c, n + 1>>)
        /\ typed' \in [Sessions -> Seq(Calls \X (1 .. t))]
        /\ \A u \in Sessions \ {s} : typed'[u] = typed[u]
    <3>1. Append(q, <<c, n + 1>>) \in Seq(Calls \X (1 .. t))
      BY <1>1, <2>3
    <3> QED BY <1>1, <2>1, <2>3, <3>1
  <2>6. /\ DOMAIN r = 1 .. (m + 1)
        /\ \A i \in 1 .. m : r[i] = q[i]
        /\ r[m + 1] = <<c, n + 1>>
    BY SMTT(30), <1>1, <2>3, <2>5
  <2>7. HasTyped(r, c, n + 1) /\ InOrder(r, c)
    <3> HIDE DEF r, q, m, t
    <3> QED BY <1>1, <2>3, <2>4, <2>6, AppendsTyped
  <2>8. \A i \in (m + 1) .. (m + 1) : r[i][1] = c
    BY SMTT(30), <1>1, <2>6
  <2>9. /\ TypedHere'
        /\ \A d \in Calls \ {c} : tab[d] # NoSession => Typed(d, typed[tab[d]])'
    BY <1>1, <2>5, <2>6, <2>8, OthersTyped
  <2> QED BY <1>1, <1>4, <2>3, <2>5, <2>7, <2>9
<1>5. CASE at[c] \notin {"insert", "charDown", "charInsert"}
  <2>1. typed' = typed
    BY <1>1, <1>5 DEF Done
  <2>2. DOMAIN r = 1 .. (m + 0) /\ (m + 1) .. (m + 0) = {}
    BY <1>1, <2>1
  <2>3. /\ TypedHere'
        /\ \A d \in Calls \ {c} : tab[d] # NoSession => Typed(d, typed[tab[d]])'
    BY <1>1, <2>1, <2>2, OthersTyped
  <2>4. InOrder(q, c) /\ \E n \in 0 .. t : HasTyped(q, c, n)
    BY <1>1 DEF Typed
  <2> QED BY <1>1, <1>5, <2>1, <2>3, <2>4
<1> QED BY <1>3, <1>4, <1>5

(* What it does to the buttons and keys.                                   *)
LEMMA DonePressed ==
  ASSUME Chains, InputIInv, NEW c \in Calls, Waits(c), Done(c)
  PROVE  /\ pressed' \in [Sessions -> SUBSET (Buttons \cup {"key", "char"})]
         /\ \A r \in Sessions \ {tab[c]} : pressed'[r] = pressed[r]
         /\ at[c] \in {"press", "keyDown"} =>
              pressed'[tab[c]] = pressed[tab[c]] \cup {item[c]}
         /\ at[c] \in {"release", "keyUp"} =>
              pressed'[tab[c]] = pressed[tab[c]] \ {item[c]}
         /\ at[c] \notin {"press", "keyDown"} =>
              pressed'[tab[c]] \ {"char"} \subseteq pressed[tab[c]]
<1>1. /\ tab[c] \in Sessions
      /\ pressed \in [Sessions -> SUBSET (Buttons \cup {"key", "char"})]
      /\ item[c] \in Buttons \cup {"none", "key"}
  BY WaitingCall DEF InputIInv, InputTypeOK
<1>2. at[c] \in {"press", "keyDown"} => item[c] # "none"
  <2>1. at[c] = "keyDown" => tool[c] = "press"
    BY WaitingCall, StationsAre, ToolsAre
  <2> QED BY <2>1, WaitingCall DEF InputIInv, Presses
<1> QED BY <1>1, <1>2 DEF Done

(* A command of an input call succeeds.                                    *)
LEMMA InputAnsweredIInv ==
  ASSUME Chains, InputIInv, NEW c \in Calls, InputAnswered(c)
  PROVE  GoesAny(c) /\ InputIInv'
<1>1. /\ tool[c] \in ChainTools
      /\ Waits(c) /\ Done(c)
      /\ item' = [item EXCEPT ![c] = IF at'[c] = "ok" THEN "none" ELSE @]
      /\ UNCHANGED char_delay_timer
  BY DEF InputAnswered
<1>2. PICK next :
        /\ \E response : Answered(c, response, next)
        /\ \/ /\ at[c] \in {"step", "move"} /\ left[c] > 0 /\ next = at[c]
              /\ left' = [left EXCEPT ![c] = @ - 1]
           \/ /\ next = Follows(tool[c], at[c])
              /\ UNCHANGED left
  BY DEF InputAnswered
<1>3. PICK e \in BOOLEAN : Goes(c, next, e)
  BY <1>2, AnsweredGoes DEF Chains
<1>4. at[c] \in Stations(tool[c]) \ (Ended \cup {"new", "delay", "nothing"})
  BY <1>1, WaitingCall
<1>5. /\ next \in Stations(tool[c]) \ {"new"}
      /\ at[c] \in {"press", "move", "keyDown"} =>
           next \in {"move", "release", "keyUp"}
      /\ next = "press" => tool[c] = "drag"
      /\ tool[c] = "type" => at[c] = "insert"
  <2>1. CASE next = Follows(tool[c], at[c])
    BY <2>1, <1>1, <1>4, FollowsStations
  <2>2. CASE next = at[c] /\ at[c] \in {"step", "move"}
    <3>1. tool[c] # "type"
      BY <2>2, <1>4, StationsAre
    <3> QED BY <2>2, <1>4, <3>1
  <2> QED BY <1>2, <2>1, <2>2
<1>6. /\ \A d \in Calls \ {c} : /\ at'[d] = at[d] /\ excuse'[d] = excuse[d]
                                /\ left'[d] = left[d] /\ item'[d] = item[d]
      /\ at'[c] = next /\ (excuse[c] => excuse'[c])
      /\ item'[c] = IF next = "ok" THEN "none" ELSE item[c]
      /\ UNCHANGED <<tool, tab, attached>>
  BY <1>1, <1>2, <1>3 DEF Goes, Chains, AtStations, ChainsTypeOK, InputIInv,
     InputTypeOK
<1>7. GoesAny(c)
  BY <1>3, <1>5 DEF GoesAny
<1>8. /\ left' \in [Calls -> 0 .. Steps + Len(Text)]
      /\ item' \in [Calls -> Buttons \cup {"none", "key"}]
  <2>1. left \in [Calls -> 0 .. Steps + Len(Text)]
    BY DEF InputIInv, InputTypeOK
  <2>2. left[c] > 0 => left[c] - 1 \in 0 .. Steps + Len(Text)
    BY <2>1, TextFacts
  <2>3. left' \in [Calls -> 0 .. Steps + Len(Text)]
    BY <1>2, <2>1, <2>2
  <2> QED BY <1>1, <2>3 DEF InputIInv, InputTypeOK
<1>9. InputTypeOK'
  BY <1>1, <1>6, <1>8, DoneTyped, DonePressed DEF InputIInv, InputTypeOK
<1>10. Held'
  <2>1. CASE at[c] \in {"press", "keyDown"}
    <3> SUFFICES ASSUME NEW r \in Sessions, NEW x \in pressed'[r] \ {"char"}
                 PROVE  \E d \in Calls :
                          /\ tab'[d] = r
                          /\ \/ excuse'[d]
                             \/ /\ item'[d] = x
                                /\ at'[d] \in {"move", "release", "keyUp"}
      BY DEF Held
    <3>1. CASE r = tab[c] /\ x = item[c]
      BY <1>5, <1>6, <2>1, <3>1
    <3>2. CASE x \in pressed[r]
      <4>1. PICK d \in Calls :
              /\ tab[d] = r
              /\ \/ excuse[d]
                 \/ item[d] = x /\ at[d] \in {"move", "release", "keyUp"}
        BY <3>2 DEF InputIInv, Held
      <4> QED BY <4>1, <1>6, <2>1
    <3> QED BY <1>1, <2>1, <3>1, <3>2, DonePressed
  <2>2. CASE at[c] \in {"release", "keyUp"}
    <3> SUFFICES ASSUME NEW r \in Sessions, NEW x \in pressed'[r] \ {"char"}
                 PROVE  \E d \in Calls :
                          /\ tab'[d] = r
                          /\ \/ excuse'[d]
                             \/ /\ item'[d] = x
                                /\ at'[d] \in {"move", "release", "keyUp"}
      BY DEF Held
    <3>1. x \in pressed[r] /\ (r = tab[c] => x # item[c])
      BY <1>1, <2>2, DonePressed
    <3>2. PICK d \in Calls :
            /\ tab[d] = r
            /\ \/ excuse[d]
               \/ item[d] = x /\ at[d] \in {"move", "release", "keyUp"}
      BY <3>1 DEF InputIInv, Held
    <3> QED BY <3>1, <3>2, <1>6
  <2>3. CASE at[c] \notin {"press", "keyDown", "release", "keyUp"}
    <3>1. \A r \in Sessions : pressed'[r] \ {"char"} \subseteq pressed[r]
      BY <1>1, <2>3, DonePressed
    <3>2. at[c] \in {"move", "release", "keyUp"} =>
            item'[c] = item[c] /\ at'[c] \in {"move", "release", "keyUp"}
      BY <1>5, <1>6, <2>3
    <3> QED BY <1>6, <3>1, <3>2, HeldKept DEF InputIInv
  <2> QED BY <2>1, <2>2, <2>3
<1>11. Presses'
  BY <1>4, <1>5, <1>6 DEF InputIInv, Presses, Ended
<1>12. TimerOn'
  <2>1. char_delay_timer # c
    BY <1>4 DEF InputIInv, TimerOn
  <2>2. tool[c] # "typeDelayed"
    BY <1>1 DEF ChainTools
  <2> QED BY <1>1, <1>6, <2>1, <2>2 DEF InputIInv, TimerOn
<1>13. TypedHere' /\ TypedSoFar'
  <2>1. /\ TypedHere'
        /\ \A d \in Calls \ {c} : tab[d] # NoSession => Typed(d, typed[tab[d]])'
        /\ InOrder(typed'[tab[c]], c)
        /\ \E n \in 0 .. Len(Text) : HasTyped(typed'[tab[c]], c, n)
        /\ at[c] = "insert" => HasTyped(typed'[tab[c]], c, Len(Text))
    BY <1>1, <1>6, DoneTyped
  <2>2. tool[c] = "type" => next # "insert"
    <3>1. tool[c] = "type" => next = Follows("type", "insert")
      BY <1>2, <1>5
    <3> QED BY <3>1 DEF Follows, TypeChain
  <2>3. Typed(c, typed[tab[c]])'
    BY <1>1, <1>5, <1>6, <2>1, <2>2 DEF Typed, ChainTools
  <2> QED BY <1>6, <2>1, <2>3 DEF TypedSoFar
<1> QED BY <1>7, <1>9, <1>10, <1>11, <1>12, <1>13 DEF InputIInv

(* A key of a delayed typing is down.                                      *)
LEMMA OnCharKeyDownIInv ==
  ASSUME Chains, InputIInv, NEW c \in Calls, OnCharKeyDown(c)
  PROVE  GoesAny(c) /\ InputIInv'
<1>1. /\ tool[c] = "typeDelayed" /\ at[c] = "charDown"
      /\ Done(c)
      /\ UNCHANGED <<left, item, char_delay_timer>>
  BY DEF OnCharKeyDown
<1>2. PICK response : Answered(c, response, "charUp")
  BY DEF OnCharKeyDown
<1>3. PICK e \in BOOLEAN : Goes(c, "charUp", e)
  BY <1>2, AnsweredGoes DEF Chains
<1>4. /\ \A d \in Calls \ {c} : at'[d] = at[d] /\ excuse'[d] = excuse[d]
      /\ at'[c] = "charUp" /\ (excuse[c] => excuse'[c])
      /\ UNCHANGED <<tool, tab, attached, left, item, char_delay_timer>>
  BY <1>1, <1>3 DEF Goes, Chains, AtStations, ChainsTypeOK
<1>5. GoesAny(c)
  <2>1. "charUp" \in Stations(tool[c])
    BY <1>1, StationsAre
  <2> QED BY <1>3, <2>1 DEF GoesAny
<1>6. Waits(c)
  BY <1>2 DEF Answered
<1>7. InputTypeOK'
  BY <1>1, <1>4, <1>6, DoneTyped, DonePressed DEF InputIInv, InputTypeOK
<1>8. Held'
  <2>1. \A r \in Sessions : pressed'[r] \ {"char"} \subseteq pressed[r]
    BY <1>1, <1>6, DonePressed
  <2> QED BY <1>1, <1>4, <2>1, HeldKept DEF InputIInv
<1>9. Presses' /\ TimerOn'
  BY <1>1, <1>4 DEF InputIInv, Presses, TimerOn
<1>10. TypedHere' /\ TypedSoFar'
  <2>1. /\ TypedHere'
        /\ \A d \in Calls \ {c} : tab[d] # NoSession => Typed(d, typed[tab[d]])'
        /\ InOrder(typed'[tab[c]], c)
        /\ \E n \in 0 .. Len(Text) : HasTyped(typed'[tab[c]], c, n)
        /\ HasTyped(typed'[tab[c]], c, Len(Text) - left[c])
    BY <1>1, <1>4, <1>6, DoneTyped
  <2>2. Typed(c, typed[tab[c]])'
    BY <1>1, <1>4, <2>1 DEF Typed
  <2> QED BY <1>4, <2>1, <2>2 DEF TypedSoFar
<1> QED BY <1>5, <1>7, <1>8, <1>9, <1>10 DEF InputIInv

(* A character is done: the timer is set for the next one.                 *)
LEMMA OnCharKeyUpIInv ==
  ASSUME Chains, InputIInv, NEW c \in Calls, OnCharKeyUp(c)
  PROVE  GoesAny(c) /\ InputIInv'
<1>1. /\ tool[c] = "typeDelayed" /\ at[c] \in {"charUp", "charInsert"}
      /\ Done(c)
      /\ UNCHANGED <<left, item>>
  BY DEF OnCharKeyUp
<1>2. PICK next :
        /\ \E response : Answered(c, response, next)
        /\ \/ left[c] = 0 /\ next = "ok" /\ UNCHANGED char_delay_timer
           \/ left[c] # 0 /\ next = "delay" /\ char_delay_timer' = c
  BY DEF OnCharKeyUp
<1>3. PICK e \in BOOLEAN : Goes(c, next, e)
  BY <1>2, AnsweredGoes DEF Chains
<1>4. /\ \A d \in Calls \ {c} : at'[d] = at[d] /\ excuse'[d] = excuse[d]
      /\ at'[c] = next /\ (excuse[c] => excuse'[c])
      /\ UNCHANGED <<tool, tab, attached, left, item>>
  BY <1>1, <1>3 DEF Goes, Chains, AtStations, ChainsTypeOK
<1>5. GoesAny(c)
  <2>1. next \in Stations(tool[c])
    BY <1>1, <1>2, StationsAre
  <2> QED BY <1>3, <2>1 DEF GoesAny
<1>6. Waits(c)
  BY <1>2 DEF Answered
<1>7. InputTypeOK'
  BY <1>1, <1>2, <1>4, <1>6, DoneTyped, DonePressed DEF InputIInv, InputTypeOK
<1>8. Held'
  <2>1. \A r \in Sessions : pressed'[r] \ {"char"} \subseteq pressed[r]
    BY <1>1, <1>6, DonePressed
  <2> QED BY <1>1, <1>4, <2>1, HeldKept DEF InputIInv
<1>9. Presses'
  BY <1>1, <1>2, <1>4 DEF InputIInv, Presses
<1>11. TimerOn'
  <2>1. char_delay_timer # c /\ left[c] \in Nat
    BY <1>1 DEF InputIInv, TimerOn, InputTypeOK
  <2> QED BY <1>1, <1>2, <1>4, <2>1 DEF InputIInv, TimerOn
<1>10. TypedHere' /\ TypedSoFar'
  <2>1. /\ TypedHere'
        /\ \A d \in Calls \ {c} : tab[d] # NoSession => Typed(d, typed[tab[d]])'
        /\ InOrder(typed'[tab[c]], c)
        /\ \E n \in 0 .. Len(Text) : HasTyped(typed'[tab[c]], c, n)
        /\ at[c] = "charInsert" =>
             HasTyped(typed'[tab[c]], c, Len(Text) - left[c])
        /\ at[c] = "charUp" => typed' = typed
    BY <1>1, <1>4, <1>6, DoneTyped
  <2>2. at[c] = "charUp" => HasTyped(typed[tab[c]], c, Len(Text) - left[c])
    BY <1>1, <1>6, WaitingCall DEF InputIInv, TypedSoFar, Typed
  <2>3. HasTyped(typed'[tab[c]], c, Len(Text) - left[c])
    BY <1>1, <2>1, <2>2
  <2>4. left[c] = 0 => Len(Text) - left[c] = Len(Text)
    BY TextFacts
  <2>5. Typed(c, typed[tab[c]])'
    BY <1>1, <1>2, <1>4, <2>1, <2>3, <2>4 DEF Typed
  <2> QED BY <1>4, <2>1, <2>5 DEF TypedSoFar
<1> QED BY <1>5, <1>7, <1>8, <1>9, <1>10, <1>11 DEF InputIInv

(* The timer fires.                                                        *)
LEMMA DispatchNextCharIInv ==
  ASSUME Chains, InputIInv, NEW c \in Calls, DispatchNextChar(c)
  PROVE  GoesAny(c) /\ InputIInv'
<1> DEFINE next == CharCommand(left[c])
<1>1. /\ char_delay_timer = c /\ char_delay_timer' = NoCall
      /\ at' = [at EXCEPT ![c] = next]
      /\ left' = [left EXCEPT ![c] = @ - 1]
      /\ UNCHANGED <<attached, tool, tab, excuse, item, pressed, typed>>
  BY DEF DispatchNextChar
<1>2. next \in {"charDown", "charInsert"}
  BY DEF CharCommand
<1> HIDE DEF next
<1>3. at[c] = "delay" /\ left[c] > 0 /\ left[c] \in 0 .. Steps + Len(Text)
  BY <1>1 DEF InputIInv, TimerOn, InputTypeOK
<1>4. tool[c] = "typeDelayed"
  BY <1>3, ArrivedFacts, StationsAre, ToolsAre DEF Chains
<1>5. left[c] < Len(Text) /\ Len(Text) \in Nat
  BY <1>4, TextFacts DEF InputIInv, TimerOn
<1>6. /\ \A d \in Calls \ {c} : at'[d] = at[d] /\ left'[d] = left[d]
      /\ at'[c] = next /\ left'[c] = left[c] - 1
  BY <1>1 DEF Chains, AtStations, InputIInv, InputTypeOK
<1>7. GoesAny(c)
  <2>1. excuse' = [excuse EXCEPT ![c] = excuse[c]] /\ excuse[c] \in BOOLEAN
    BY <1>1 DEF Chains, ChainsTypeOK
  <2>2. Goes(c, next, excuse[c])
    BY <1>1, <1>3, <2>1 DEF Goes, Running, Ended
  <2>3. next \in Stations(tool[c])
    BY <1>2, <1>4, StationsAre
  <2> QED BY <2>1, <2>2, <2>3 DEF GoesAny
<1>8. InputTypeOK'
  BY <1>1, <1>3, TextFacts DEF InputIInv, InputTypeOK
<1>9. Held'
  BY <1>1, <1>3, <1>6, HeldKept DEF InputIInv
<1>10. Presses'
  BY <1>1, <1>2, <1>4, <1>6 DEF InputIInv, Presses
<1>11. TimerOn'
  BY <1>1, <1>3, <1>5, <1>6 DEF InputIInv, TimerOn
<1>12. TypedHere'
  BY <1>1 DEF InputIInv, TypedHere
<1>13. TypedSoFar'
  <2> SUFFICES ASSUME NEW d \in Calls, tab[d] # NoSession
               PROVE  Typed(d, typed[tab[d]])'
    BY <1>1 DEF TypedSoFar
  <2>1. Typed(d, typed[tab[d]])
    BY DEF InputIInv, TypedSoFar
  <2>2. CASE d # c
    BY <1>1, <1>6, <2>1, <2>2, TypedKept
  <2>3. CASE d = c
    <3>1. Len(Text) - (left[c] - 1) - 1 = Len(Text) - left[c]
      BY <1>3, <1>5
    <3> QED BY <1>1, <1>2, <1>3, <1>4, <1>6, <2>1, <2>3, <3>1 DEF Typed
  <2> QED BY <2>2, <2>3
<1> QED BY <1>7, <1>8, <1>9, <1>10, <1>11, <1>12, <1>13 DEF InputIInv

LEMMA InputNextIInv ==
  ASSUME Chains, InputIInv, InputNext
  PROVE  InputIInv' /\ \E c \in Calls : CallSteps(c) /\ tool'[c] \in InputNames
<1>1. ASSUME NEW c \in Calls, NEW s \in Sessions,
             \/ ExecuteHover(c, s) \/ ExecuteScroll(c, s) \/ ExecuteDrag(c, s)
             \/ ExecuteMouse(c, s) \/ ExecutePress(c, s) \/ ExecuteType(c, s)
             \/ ExecuteTypeWithDelay(c, s) \/ ExecuteSelectOption(c, s)
             \/ ExecuteFileUpload(c, s)
      PROVE  InputIInv' /\ CallSteps(c) /\ tool'[c] \in InputNames
  <2>1. PICK t \in InputNames : \E first \in Stations(t) :
          \E n, i : StartsWith(c, s, t, first, n, i)
    BY <1>1, InputStarts
  <2>2. t \in Tools \ {"none"}
    BY ToolsAre DEF InputNames, ChainTools
  <2>3. BeginsAny(c, t) /\ InputIInv'
    BY <2>1, StartInput
  <2>4. tool'[c] = t
    BY <2>3 DEF BeginsAny, Begins, Chains, AtStations
  <2> QED BY <2>2, <2>3, <2>4 DEF CallSteps
<1>2. ASSUME NEW c \in Calls,
             \/ InputFails(c) \/ InputAnswered(c) \/ OnCharKeyDown(c)
             \/ OnCharKeyUp(c) \/ DispatchNextChar(c)
      PROVE  InputIInv' /\ CallSteps(c) /\ tool'[c] \in InputNames
  <2>1. GoesAny(c) /\ InputIInv'
    BY <1>2, InputFailsIInv, InputAnsweredIInv, OnCharKeyDownIInv,
       OnCharKeyUpIInv, DispatchNextCharIInv
  <2>2. tool[c] \in InputNames
    <3>1. CASE DispatchNextChar(c)
      <4>1. at[c] = "delay"
        BY <3>1 DEF DispatchNextChar, InputIInv, TimerOn
      <4> QED BY <4>1, ArrivedFacts, StationsAre, ToolsAre DEF Chains, InputNames
    <3> QED BY <1>2, <3>1 DEF InputFails, InputAnswered, OnCharKeyDown,
               OnCharKeyUp, InputNames
  <2>3. tool'[c] = tool[c]
    BY <2>1 DEF GoesAny, Goes
  <2> QED BY <2>1, <2>2, <2>3 DEF CallSteps
<1> QED BY <1>1, <1>2 DEF InputNext

-----------------------------------------------------------------------------
(* The queries.                                                            *)

QueryNames == {"element", "element_info", "find"}

QueryIInv == QueryTypeOK /\ PartsCounted

LEMMA PartsFacts ==
  ASSUME NEW some \in SUBSET Parts
  PROVE  /\ IsFiniteSet(some)
         /\ Cardinality(some) \in 0 .. Cardinality(Parts)
         /\ Cardinality(Parts) \in Nat
         /\ Cardinality(some) = 0 <=> some = {}
<1>1. IsFiniteSet(some) /\ Cardinality(some) <= Cardinality(Parts)
  BY FS_Subset
<1>2. Cardinality(some) \in Nat /\ Cardinality(Parts) \in Nat
  BY <1>1, FS_CardinalityType
<1>3. Cardinality(some) = 0 <=> some = {}
  BY <1>1, FS_EmptySet
<1> QED BY <1>1, <1>2, <1>3

(* The names a call asks for, with "unknown" or without.                   *)
LEMMA AskedFacts ==
  ASSUME NEW asked \in Asked
  PROVE  /\ Cardinality(asked) \in 0 .. Cardinality(Parts) + 1
         /\ Cardinality(asked \cap Parts) <= Cardinality(asked)
<1> DEFINE names == Parts \cup {"unknown"}
<1>1. /\ IsFiniteSet(names)
      /\ Cardinality(names) \in Nat /\ Cardinality(names) <= Cardinality(Parts) + 1
  <2>1. Cardinality(Parts) \in Nat
    BY FS_CardinalityType
  <2>2. /\ IsFiniteSet(names)
        /\ Cardinality(names) = IF "unknown" \in Parts
                                  THEN Cardinality(Parts)
                                  ELSE Cardinality(Parts) + 1
    BY FS_AddElement
  <2> QED BY <2>1, <2>2
<1>2. asked \subseteq names
  BY DEF Asked
<1>3. /\ IsFiniteSet(asked) /\ Cardinality(asked) \in Nat
      /\ Cardinality(asked) <= Cardinality(names)
  BY <1>1, <1>2, FS_Subset, FS_CardinalityType
<1>5. Cardinality(asked \cap Parts) <= Cardinality(asked)
  BY <1>3, FS_Subset
<1>6. Cardinality(Parts) \in Nat
  BY FS_CardinalityType
<1> HIDE DEF names
<1> QED BY <1>1, <1>3, <1>5, <1>6

LEMMA AwaitsFacts ==
  ASSUME NEW some \in SUBSET Parts, NEW count \in Nat,
         Cardinality(some) <= count
  PROVE  /\ Awaits(some, count) \in {"ok", "parts", "nothing"}
         /\ Awaits(some, count) = "parts" <=> some # {}
         /\ Awaits(some, count) = "nothing" => Cardinality(some) # count
BY PartsFacts DEF Awaits

(* Steps of the other tools.                                               *)
LEMMA OutsideQueries ==
  ASSUME Chains, QueryIInv, UNCHANGED queryVars,
         \/ NoCallMoves
         \/ \E c \in Calls : CallSteps(c) /\ tool'[c] \notin QueryNames
  PROVE  QueryIInv'
<1>1. UNCHANGED <<parts, pending>>
  BY DEF queryVars
<1>2. QueryTypeOK'
  BY <1>1 DEF QueryIInv, QueryTypeOK
<1>3. PartsCounted'
  <2>1. CASE NoCallMoves
    BY <1>1, <2>1 DEF NoCallMoves, QueryIInv, PartsCounted
  <2>2. ASSUME NEW c \in Calls, CallSteps(c), tool'[c] \notin QueryNames
        PROVE  PartsCounted'
    <3>1. /\ \A d \in Calls \ {c} : at'[d] = at[d] /\ tool'[d] = tool[d]
          /\ at[c] # "parts" /\ at'[c] # "parts"
      <4>1. ASSUME NEW t \in Tools \ {"none"}, BeginsAny(c, t)
            PROVE  <3>1
        <5>1. PICK s \in Sessions, first \in Stations(t), e \in BOOLEAN :
                Begins(c, t, s, first, e)
          BY <4>1 DEF BeginsAny
        <5>2. t \notin QueryNames
          BY <2>2, <5>1 DEF Begins, Chains, AtStations
        <5>3. first # "parts"
          BY <5>2, StationsAre, ToolsAre DEF QueryNames
        <5> QED BY <5>1, <5>3 DEF Begins, Chains, AtStations
      <4>2. CASE GoesAny(c)
        <5>1. PICK next \in Stations(tool[c]), e \in BOOLEAN : Goes(c, next, e)
          BY <4>2 DEF GoesAny
        <5>2. tool[c] \in Tools \ QueryNames /\ at[c] \in Stations(tool[c])
          BY <2>2, <5>1, ArrivedFacts DEF Goes, Chains
        <5>3. next # "parts" /\ at[c] # "parts"
          BY <5>2, StationsAre, ToolsAre DEF QueryNames
        <5> QED BY <5>1, <5>3 DEF Goes, Chains, AtStations
      <4> QED BY <2>2, <4>1, <4>2 DEF CallSteps
    <3> QED BY <1>1, <3>1 DEF QueryIInv, PartsCounted
  <2> QED BY <2>1, <2>2
<1> QED BY <1>2, <1>3 DEF QueryIInv

LEMMA QueryBegins ==
  ASSUME Chains, QueryIInv, NEW c \in Calls, NEW s \in Sessions,
         \/ ExecuteElement(c, s) \/ ExecuteElementInfo(c, s) \/ ExecuteFind(c, s)
  PROVE  /\ \E t \in QueryNames : BeginsAny(c, t) /\ tool'[c] = t
         /\ QueryIInv'
<1>1. PICK t \in QueryNames, first \in {"root", "performSearch"} :
        /\ Execute(c, t, s, first) /\ UNCHANGED <<excuse, queryVars>>
        /\ first = "performSearch" => t = "find"
  BY DEF ExecuteElement, ExecuteElementInfo, ExecuteFind, ExecuteQuery, QueryNames
<1>2. first \in Stations(t) /\ first # "parts"
  BY <1>1, StationsAre DEF QueryNames
<1>3. excuse' = [excuse EXCEPT ![c] = excuse[c]] /\ excuse[c] \in BOOLEAN
  BY <1>1 DEF Chains, ChainsTypeOK
<1>4. Begins(c, t, s, first, excuse[c])
  BY <1>1, <1>3 DEF Begins, Execute
<1>5. BeginsAny(c, t) /\ tool'[c] = t
  BY <1>2, <1>3, <1>4 DEF BeginsAny, Begins, Chains, AtStations
<1>6. /\ at[c] = "new"
      /\ \A d \in Calls \ {c} : at'[d] = at[d] /\ tool'[d] = tool[d]
      /\ at'[c] = first /\ UNCHANGED <<parts, pending>>
  BY <1>1, <1>4 DEF Begins, Chains, AtStations, queryVars
<1>7. QueryIInv'
  BY <1>2, <1>6 DEF QueryIInv, QueryTypeOK, PartsCounted
<1> QED BY <1>5, <1>7

(* A step of a query to a command that is not about parts.                 *)
LEMMA QueryGoes ==
  ASSUME Chains, QueryIInv, NEW c \in Calls, at[c] # "parts",
         NEW next \in Stations(tool[c]), next # "parts",
         NEW response, Answered(c, response, next), UNCHANGED queryVars
  PROVE  GoesAny(c) /\ QueryIInv'
<1>1. PICK e \in BOOLEAN : Goes(c, next, e)
  BY AnsweredGoes DEF Chains
<1>2. GoesAny(c)
  BY <1>1 DEF GoesAny
<1>3. /\ \A d \in Calls \ {c} : at'[d] = at[d]
      /\ at'[c] = next /\ UNCHANGED <<tool, parts, pending>>
  BY <1>1 DEF Goes, Chains, AtStations, queryVars
<1>4. QueryIInv'
  BY <1>3 DEF QueryIInv, QueryTypeOK, PartsCounted
<1> QED BY <1>2, <1>4

(* A step to, or between, the parts.                                       *)
LEMMA PartsGo ==
  ASSUME Chains, QueryIInv, NEW c \in Calls, tool[c] \in QueryNames,
         NEW some \in SUBSET Parts, NEW count \in 0 .. Cardinality(Parts) + 1,
         Cardinality(some) <= count,
         tool[c] # "element_info" => count = Cardinality(some),
         NEW next \in {"ok", "parts", "nothing"},
         next = "parts" <=> some # {},
         next = "nothing" => tool[c] = "element_info",
         NEW response, Answered(c, response, next),
         parts' = [parts EXCEPT ![c] = some],
         pending' = [pending EXCEPT ![c] = count]
  PROVE  GoesAny(c) /\ QueryIInv'
<1>0. count \in Nat
  BY PartsFacts
<1>2. PICK e \in BOOLEAN : Goes(c, next, e)
  BY AnsweredGoes DEF Chains
<1>3. next \in Stations(tool[c])
  BY StationsAre DEF QueryNames
<1>4. GoesAny(c)
  BY <1>2, <1>3 DEF GoesAny
<1>5. /\ \A d \in Calls \ {c} : /\ at'[d] = at[d] /\ parts'[d] = parts[d]
                                /\ pending'[d] = pending[d]
      /\ at'[c] = next /\ parts'[c] = some /\ pending'[c] = count
      /\ UNCHANGED tool
  BY <1>2 DEF Goes, Chains, AtStations, QueryIInv, QueryTypeOK
<1>6. QueryTypeOK'
  BY DEF QueryIInv, QueryTypeOK
<1>7. PartsCounted'
  BY <1>0, <1>5, PartsFacts DEF QueryIInv, PartsCounted
<1> QED BY <1>4, <1>6, <1>7 DEF QueryIInv

(* As many answers are awaited as commands are sent.                       *)
LEMMA AllCounted ==
  ASSUME Chains, QueryIInv, NEW c \in Calls, tool[c] \in QueryNames,
         NEW some \in SUBSET Parts, NEW response,
         Fetch(c, response, Awaits(some, Cardinality(some)), some, Cardinality(some))
  PROVE  GoesAny(c) /\ QueryIInv'
<1> DEFINE count == Cardinality(some)
           next == Awaits(some, count)
<1>1. /\ count \in Nat /\ count \in 0 .. Cardinality(Parts) + 1
      /\ count <= count
  BY PartsFacts
<1>2. /\ next \in {"ok", "parts", "nothing"}
      /\ next = "parts" <=> some # {}
      /\ next # "nothing"
  BY <1>1, AwaitsFacts
<1>3. /\ Answered(c, response, next)
      /\ parts' = [parts EXCEPT ![c] = some]
      /\ pending' = [pending EXCEPT ![c] = count]
  BY DEF Fetch
<1> HIDE DEF next, count
<1> QED BY <1>1, <1>2, <1>3, PartsGo DEF count

LEMMA QuerySteps ==
  ASSUME Chains, QueryIInv, NEW c \in Calls,
         \/ QueryFails(c) \/ OnGetDocument(c) \/ DispatchRequests(c)
         \/ FetchProperties(c) \/ OnPerformSearch(c) \/ DescribeNodes(c)
         \/ OnOneRequestDone(c)
  PROVE  GoesAny(c) /\ tool[c] \in QueryNames /\ QueryIInv'
<1>1. CASE QueryFails(c)
  <2>1. PICK response : Answered(c, response, "error")
    BY <1>1 DEF QueryFails
  <2>2. tool[c] \in QueryNames /\ at[c] # "parts" /\ UNCHANGED queryVars
    BY <1>1 DEF QueryFails, QueryNames
  <2>3. "error" \in Stations(tool[c])
    BY <2>2, StationsAre DEF QueryNames
  <2> QED BY <2>1, <2>2, <2>3, QueryGoes
<1>2. CASE OnGetDocument(c)
  <2> DEFINE next == IF tool[c] = "find" THEN "queryAll" ELSE "query"
  <2>1. PICK response : Answered(c, response, next)
    BY <1>2 DEF OnGetDocument
  <2>2. tool[c] \in QueryNames /\ at[c] # "parts" /\ UNCHANGED queryVars
    BY <1>2 DEF OnGetDocument, QueryNames
  <2>3. next \in Stations(tool[c]) /\ next # "parts"
    BY <2>2, StationsAre DEF QueryNames
  <2> HIDE DEF next
  <2> QED BY <2>1, <2>2, <2>3, QueryGoes
<1>3. CASE DispatchRequests(c)
  <2>1. PICK response \in Responses(c), some \in SUBSET Parts :
          Fetch(c, response, Awaits(some, Cardinality(some)), some, Cardinality(some))
    BY <1>3 DEF DispatchRequests, Asked
  <2>2. tool[c] \in QueryNames
    BY <1>3 DEF DispatchRequests, QueryNames
  <2> QED BY <2>1, <2>2, AllCounted
<1>4. CASE FetchProperties(c)
  <2> DEFINE next(asked) == IF asked \cap Parts = {} THEN "nothing" ELSE "parts"
  <2>1. PICK response \in Responses(c), asked \in Asked :
          Fetch(c, response, next(asked), asked \cap Parts, Cardinality(asked))
    BY <1>4 DEF FetchProperties
  <2>2. /\ Cardinality(asked) \in 0 .. Cardinality(Parts) + 1
        /\ Cardinality(asked \cap Parts) <= Cardinality(asked)
    BY AskedFacts, PartsFacts
  <2>3. tool[c] = "element_info" /\ tool[c] \in QueryNames
    BY <1>4 DEF FetchProperties, QueryNames
  <2> QED BY <2>1, <2>2, <2>3, PartsGo DEF Fetch
<1>5. CASE OnPerformSearch(c)
  <2>1. PICK response \in Responses(c), next \in {"ok", "getSearchResults"} :
          Answered(c, response, next)
    BY <1>5 DEF OnPerformSearch
  <2>2. tool[c] = "find" /\ at[c] # "parts" /\ UNCHANGED queryVars
    BY <1>5 DEF OnPerformSearch
  <2>3. next \in Stations(tool[c]) /\ next # "parts"
    BY <2>2, StationsAre
  <2> QED BY <2>1, <2>2, <2>3, QueryGoes DEF QueryNames
<1>6. CASE DescribeNodes(c)
  <2>1. PICK response \in Responses(c), some \in SUBSET Parts :
          Fetch(c, response, Awaits(some, Cardinality(some)), some, Cardinality(some))
    BY <1>6 DEF DescribeNodes
  <2>2. tool[c] \in QueryNames
    BY <1>6 DEF DescribeNodes, QueryNames
  <2> QED BY <2>1, <2>2, AllCounted
<1>7. CASE OnOneRequestDone(c)
  <2>1. PICK p \in parts[c], response \in Responses(c) :
          /\ Answered(c, response, Awaits(parts[c] \ {p}, pending[c] - 1))
          /\ parts' = [parts EXCEPT ![c] = @ \ {p}]
          /\ pending' = [pending EXCEPT ![c] = @ - 1]
    BY <1>7 DEF OnOneRequestDone
  <2>2. at[c] = "parts"
    BY <1>7 DEF OnOneRequestDone
  <2>3. tool[c] \in QueryNames
    BY <2>2, ArrivedFacts, StationsAre, ToolsAre DEF Chains, QueryNames
  <2>4. /\ parts[c] \in SUBSET Parts
        /\ pending[c] \in 0 .. Cardinality(Parts) + 1
        /\ pending[c] >= Cardinality(parts[c])
        /\ tool[c] # "element_info" => pending[c] = Cardinality(parts[c])
    BY <2>2 DEF QueryIInv, QueryTypeOK, PartsCounted
  <2>5. /\ Cardinality(parts[c] \ {p}) = Cardinality(parts[c]) - 1
        /\ Cardinality(parts[c]) \in Nat \ {0}
        /\ Cardinality(Parts) \in Nat
    <3>1. IsFiniteSet(parts[c]) /\ Cardinality(parts[c]) \in Nat
      BY <2>4, PartsFacts
    <3>2. Cardinality(parts[c] \ {p}) = Cardinality(parts[c]) - 1
      BY <3>1, FS_RemoveElement
    <3>3. Cardinality(parts[c]) # 0
      BY <2>4, PartsFacts
    <3> QED BY <2>4, <3>1, <3>2, <3>3, PartsFacts
  <2>6. /\ pending[c] - 1 \in 0 .. Cardinality(Parts) + 1
        /\ Cardinality(parts[c] \ {p}) <= pending[c] - 1
        /\ tool[c] # "element_info" =>
             pending[c] - 1 = Cardinality(parts[c] \ {p})
    BY <2>4, <2>5
  <2> DEFINE some == parts[c] \ {p}
             count == pending[c] - 1
             next == Awaits(some, count)
  <2>7. /\ some \in SUBSET Parts
        /\ count \in Nat /\ count \in 0 .. Cardinality(Parts) + 1
        /\ Cardinality(some) <= count
        /\ tool[c] # "element_info" => count = Cardinality(some)
    BY <2>4, <2>5, <2>6
  <2>8. /\ Answered(c, response, next)
        /\ parts' = [parts EXCEPT ![c] = some]
        /\ pending' = [pending EXCEPT ![c] = count]
    BY <2>1
  <2> HIDE DEF some, count
  <2>9. /\ next \in {"ok", "parts", "nothing"}
        /\ next = "parts" <=> some # {}
        /\ next = "nothing" => tool[c] = "element_info"
    BY <2>7, AwaitsFacts
  <2> HIDE DEF next
  <2> QED BY <2>3, <2>7, <2>8, <2>9, PartsGo
<1> QED BY <1>1, <1>2, <1>3, <1>4, <1>5, <1>6, <1>7

LEMMA QueryNextIInv ==
  ASSUME Chains, QueryIInv, QueryNext
  PROVE  QueryIInv' /\ \E c \in Calls : CallSteps(c) /\ tool'[c] \in QueryNames
<1>1. ASSUME NEW c \in Calls, NEW s \in Sessions,
             \/ ExecuteElement(c, s) \/ ExecuteElementInfo(c, s)
             \/ ExecuteFind(c, s)
      PROVE  QueryIInv' /\ CallSteps(c) /\ tool'[c] \in QueryNames
  BY <1>1, QueryBegins, ToolsAre DEF CallSteps, QueryNames
<1>2. ASSUME NEW c \in Calls,
             \/ QueryFails(c) \/ OnGetDocument(c) \/ DispatchRequests(c)
             \/ FetchProperties(c) \/ OnPerformSearch(c) \/ DescribeNodes(c)
             \/ OnOneRequestDone(c)
      PROVE  QueryIInv' /\ CallSteps(c) /\ tool'[c] \in QueryNames
  <2>1. GoesAny(c) /\ tool[c] \in QueryNames /\ QueryIInv'
    BY <1>2, QuerySteps
  <2> QED BY <2>1 DEF CallSteps, GoesAny, Goes
<1> QED BY <1>1, <1>2 DEF QueryNext

-----------------------------------------------------------------------------
(* The emulation tool.                                                     *)

EmulationNames == {"emulation", "reset"}

EmulationIInv == EmulationTypeOK /\ Resets

LEMMA SettingsFacts ==
  /\ Len(Settings) = 8 /\ DOMAIN Settings = 1 .. 8
  /\ Range(Settings) = {Settings[i] : i \in 1 .. 8}
<1>1. Len(Settings) = 8 /\ DOMAIN Settings = 1 .. 8
  BY DEF Settings
<1>2. Range(Settings) = {Settings[i] : i \in 1 .. 8}
  BY <1>1 DEF Range
<1> QED BY <1>1, <1>2

(* The commands of a call.                                                 *)
Commands == Range(Settings) \X BOOLEAN

LEMMA ResetCommands ==
  /\ AppendResetCommands \in Seq(Commands)
  /\ Len(AppendResetCommands) = 8 /\ AppendResetCommands # <<>>
  /\ \A i \in 1 .. 8 : AppendResetCommands[i] = ResetCommand(Settings[i])
<1> DEFINE list == [i \in 1 .. 8 |-> ResetCommand(Settings[i])]
<1>1. AppendResetCommands = list
  BY SettingsFacts DEF AppendResetCommands
<1>2. \A i \in 1 .. 8 : ResetCommand(Settings[i]) \in Commands
  BY SettingsFacts DEF ResetCommand, Commands
<1>3. list \in Seq(Commands) /\ Len(list) = 8
  <2>1. list \in [1 .. 8 -> Commands]
    BY <1>2
  <2> QED BY <2>1
<1>4. list # <<>>
  BY <1>3
<1> QED BY <1>1, <1>3, <1>4

LEMMA ChosenAreFinite == Cardinality(Chosen) \in Nat
<1>1. IsFiniteSet(1 .. 8)
  BY 1 \in Int, 8 \in Int, FS_Interval
<1>2. Settings \in Surjection(1 .. 8, Range(Settings))
  <2>1. Settings \in [1 .. 8 -> Range(Settings)]
    BY SettingsFacts DEF Settings
  <2>2. \A v \in Range(Settings) : \E i \in 1 .. 8 : Settings[i] = v
    BY SettingsFacts
  <2> QED BY <2>1, <2>2 DEF Surjection
<1>3. IsFiniteSet(Range(Settings))
  BY <1>1, <1>2, FS_Surjection
<1>4. IsFiniteSet(Chosen)
  BY <1>3, EmulationAssumption, FS_Subset
<1> QED BY <1>4, FS_CardinalityType

LEMMA OrderedCommands ==
  ASSUME NEW list \in Ordered
  PROVE  [i \in DOMAIN list |-> SetCommand(list[i])] \in Seq(Commands)
<1> DEFINE cmds == [i \in DOMAIN list |-> SetCommand(list[i])]
<1>1. PICK m \in 0 .. Cardinality(Chosen) : list \in [1 .. m -> Chosen]
  BY DEF Ordered, SeqOf
<1>2. m \in Nat /\ DOMAIN list = 1 .. m
  BY <1>1, ChosenAreFinite
<1>3. \A i \in 1 .. m : SetCommand(list[i]) \in Commands
  BY <1>1 DEF SetCommand, Commands
<1>4. cmds \in [1 .. m -> Commands]
  BY <1>2, <1>3
<1> QED BY <1>2, <1>4

(* Steps of the other tools.                                               *)
LEMMA OutsideEmulation ==
  ASSUME Chains, EmulationIInv, UNCHANGED emulationVars,
         \/ NoCallMoves
         \/ \E c \in Calls : CallSteps(c) /\ tool'[c] \notin EmulationNames
  PROVE  EmulationIInv'
<1>1. UNCHANGED <<commands, overrides, alone>>
  BY DEF emulationVars
<1>2. EmulationTypeOK'
  BY <1>1 DEF EmulationIInv, EmulationTypeOK
<1>3. \A d \in Calls : Emulates(d)' =>
        /\ Emulates(d) /\ tool'[d] = tool[d] /\ tab'[d] = tab[d]
        /\ excuse'[d] = excuse[d]
  <2>1. CASE NoCallMoves
    BY <2>1 DEF NoCallMoves, Emulates, Running
  <2>2. ASSUME NEW c \in Calls, CallSteps(c), tool'[c] \notin EmulationNames,
               NEW d \in Calls, Emulates(d)'
        PROVE  /\ Emulates(d) /\ tool'[d] = tool[d] /\ tab'[d] = tab[d]
               /\ excuse'[d] = excuse[d]
    <3>1. d # c
      BY <2>2 DEF Emulates, EmulationNames
    <3>2. /\ tool'[d] = tool[d] /\ tab'[d] = tab[d]
          /\ at'[d] = at[d] /\ excuse'[d] = excuse[d]
      BY <2>2, <3>1 DEF CallSteps, BeginsAny, Begins, GoesAny, Goes, Chains,
         AtStations, ChainsTypeOK
    <3> QED BY <2>2, <3>2 DEF Emulates, Running
  <2> QED BY <2>1, <2>2
<1>4. Resets'
  <2>1. \A d \in Calls : Emulates(d)' => commands'[d] # <<>>
    BY <1>1, <1>3 DEF EmulationIInv, Resets
  <2>2. ASSUME NEW d \in Calls, Emulates(d)', tool'[d] = "reset"
        PROVE  \E k \in 1 .. Len(Settings) : ResetAt(d, k)'
    <3>1. PICK k \in 1 .. Len(Settings) : ResetAt(d, k)
      BY <1>3, <2>2 DEF EmulationIInv, Resets
    <3>2. ResetAt(d, k)'
      BY <1>1, <1>3, <2>2, <3>1 DEF ResetAt
    <3> QED BY <3>2
  <2>3. \A c, d \in Calls :
          Emulates(c)' /\ Emulates(d)' /\ tab'[c] = tab'[d] /\ alone'[c] => c = d
    BY <1>1, <1>3 DEF EmulationIInv, Resets
  <2> QED BY <2>1, <2>2, <2>3 DEF Resets
<1> QED BY <1>2, <1>4 DEF EmulationIInv

LEMMA BeginIInv ==
  ASSUME Chains, EmulationIInv, NEW c \in Calls, NEW s \in Sessions,
         NEW t \in EmulationNames, NEW list \in Seq(Commands),
         t = "reset" => list = AppendResetCommands,
         Begin(c, t, s, list)
  PROVE  BeginsAny(c, t) /\ tool'[c] = t /\ EmulationIInv'
<1> DEFINE first == IF list = <<>> THEN "error" ELSE "setting"
<1>1. Begins(c, t, s, first, list = <<>>)
  BY DEF Begin, Begins, Execute
<1>2. /\ commands' = [commands EXCEPT ![c] = list]
      /\ alone' = [d \in Calls |-> IF d = c THEN EmulatesIn(s) = {}
                                   ELSE alone[d] /\ d \notin EmulatesIn(s)]
      /\ UNCHANGED overrides
  BY DEF Begin
<1>3. first \in Stations(t)
  BY StationsAre DEF EmulationNames
<1>4. (list = <<>>) \in BOOLEAN
  OBVIOUS
<1>5. BeginsAny(c, t) /\ tool'[c] = t
  BY <1>1, <1>3, <1>4 DEF BeginsAny, Begins, Chains, AtStations
<1>6. /\ \A d \in Calls \ {c} : /\ tool'[d] = tool[d] /\ tab'[d] = tab[d]
                                /\ at'[d] = at[d] /\ excuse'[d] = excuse[d]
                                /\ commands'[d] = commands[d]
                                /\ alone'[d] = (alone[d] /\ d \notin EmulatesIn(s))
      /\ tool'[c] = t /\ tab'[c] = s /\ at'[c] = first
      /\ commands'[c] = list /\ alone'[c] = (EmulatesIn(s) = {})
  BY <1>1, <1>2 DEF Begins, Chains, AtStations, ChainsTypeOK, EmulationIInv,
     EmulationTypeOK
<1>7. EmulationTypeOK'
  <2>1. commands' \in [Calls -> Seq(Commands)]
    BY <1>2 DEF EmulationIInv, EmulationTypeOK, Commands
  <2>2. alone \in [Calls -> BOOLEAN]
    BY DEF EmulationIInv, EmulationTypeOK
  <2>3. alone' \in [Calls -> BOOLEAN]
    BY <1>2, <2>2
  <2> QED BY <1>2, <2>1, <2>3 DEF EmulationIInv, EmulationTypeOK, Commands
<1>8. \A d \in Calls \ {c} : Emulates(d)' = Emulates(d)
  BY <1>6 DEF Emulates, Running
<1>9. \A d \in Calls \ {c} :
        Emulates(d) /\ tab[d] = s => d \in EmulatesIn(s)
  BY DEF Emulates, EmulatesIn
<1>12. /\ \A d \in Calls \ {c} : alone'[d] => alone[d] /\ d \notin EmulatesIn(s)
       /\ alone'[c] => EmulatesIn(s) = {}
  <2> HIDE DEF first
  <2> QED BY <1>6
<1>10. Emulates(c)' => list # <<>>
  BY <1>6 DEF Emulates, Running, Ended
<1>11. Resets'
  <2>1. \A d \in Calls : Emulates(d)' => commands'[d] # <<>>
    BY <1>6, <1>8, <1>10 DEF EmulationIInv, Resets
  <2>2. ASSUME NEW d \in Calls, Emulates(d)', tool'[d] = "reset"
        PROVE  \E k \in 1 .. Len(Settings) : ResetAt(d, k)'
    <3>1. CASE d # c
      <4>1. PICK k \in 1 .. Len(Settings) : ResetAt(d, k)
        BY <1>6, <1>8, <2>2, <3>1 DEF EmulationIInv, Resets
      <4> HIDE DEF first
      <4>2. /\ commands'[d] = commands[d] /\ tab'[d] = tab[d]
            /\ excuse'[d] = excuse[d] /\ overrides' = overrides
            /\ alone'[d] => alone[d]
        BY <1>2, <1>6, <1>12, <3>1
      <4>3. ResetAt(d, k)'
        BY <4>1, <4>2 DEF ResetAt
      <4> QED BY <4>3
    <3>2. CASE d = c
      <4>1. list = AppendResetCommands
        BY <1>6, <2>2, <3>2
      <4>2. overrides[s] \subseteq Range(Settings)
        BY DEF EmulationIInv, EmulationTypeOK
      <4>4. /\ commands'[c] = AppendResetCommands /\ tab'[c] = s
            /\ overrides'[s] \subseteq {Settings[i] : i \in 1 .. 8}
        BY <1>2, <1>6, <4>1, <4>2, SettingsFacts
      <4>5. \A i \in 1 .. 8 : 1 + i - 1 = i
        OBVIOUS
      <4>6. /\ Len(commands'[c]) = 8
            /\ \A i \in 1 .. 8 : commands'[c][i] = ResetCommand(Settings[1 + i - 1])
        BY <4>4, <4>5, ResetCommands
      <4> HIDE DEF first
      <4>3. ResetAt(c, 1)'
        BY <4>4, <4>6, SettingsFacts DEF ResetAt
      <4> QED BY <3>2, <4>3, SettingsFacts
    <3> QED BY <3>1, <3>2
  <2>3. ASSUME NEW d \in Calls, NEW e \in Calls,
               Emulates(d)', Emulates(e)', tab'[d] = tab'[e], alone'[d]
        PROVE  d = e
    <3>1. CASE d # c /\ e # c
      BY <1>6, <1>8, <1>12, <2>3, <3>1 DEF EmulationIInv, Resets
    <3>2. CASE d = c /\ e # c
      <4>1. e \in EmulatesIn(s)
        BY <1>6, <1>8, <1>9, <2>3, <3>2
      <4> QED BY <1>12, <2>3, <3>2, <4>1
    <3>3. CASE d # c /\ e = c
      <4>1. d \in EmulatesIn(s)
        BY <1>6, <1>8, <1>9, <2>3, <3>3
      <4> QED BY <1>12, <2>3, <3>3, <4>1
    <3> QED BY <3>1, <3>2, <3>3
  <2> QED BY <2>1, <2>2, <2>3 DEF Resets
<1> QED BY <1>5, <1>7, <1>11 DEF EmulationIInv

LEMMA OnCommandResponseIInv ==
  ASSUME Chains, EmulationIInv, NEW c \in Calls, OnCommandResponse(c)
  PROVE  /\ GoesAny(c) /\ tool[c] \in EmulationNames
         /\ EmulationIInv'
         /\ tool[c] = "reset" /\ alone[c] /\ at'[c] = "ok" /\ ~excuse'[c] =>
              overrides'[tab[c]] = {}
<1> DEFINE command == Head(commands[c])
           n == Len(commands[c])
           next == IF n = 1 THEN "ok" ELSE "setting"
           r == overrides'[tab[c]]
           q == overrides[tab[c]]
<1>1. PICK response \in Responses(c) :
        /\ Answered(c, response, next)
        /\ overrides' = [overrides EXCEPT ![tab[c]] =
             IF HasCdpError(response) THEN @
             ELSE IF command[2] THEN @ \cup {command[1]} ELSE @ \ {command[1]}]
  BY DEF OnCommandResponse
<1>2. /\ tool[c] \in EmulationNames /\ Waits(c)
      /\ commands' = [commands EXCEPT ![c] = Tail(@)]
      /\ UNCHANGED alone
  BY DEF OnCommandResponse, EmulationNames
<1>3. PICK e \in BOOLEAN : Goes(c, next, e) /\ (HasCdpError(response) => e)
  BY <1>1, AnsweredGoes DEF Chains
<1>4. Emulates(c) /\ tab[c] \in Sessions
  BY <1>2, WaitingCall DEF Emulates, EmulationNames, Waits
<1>5. /\ commands[c] \in Seq(Commands) /\ commands[c] # <<>>
      /\ overrides \in [Sessions -> SUBSET Range(Settings)]
  BY <1>4 DEF EmulationIInv, EmulationTypeOK, Resets, Commands
<1>6. /\ n \in Nat \ {0} /\ command \in Commands /\ command = commands[c][1]
      /\ Tail(commands[c]) \in Seq(Commands)
      /\ Len(Tail(commands[c])) = n - 1
      /\ \A i \in 1 .. (n - 1) : Tail(commands[c])[i] = commands[c][i + 1]
  BY <1>5
<1>7. /\ command[1] \in Range(Settings) /\ command[2] \in BOOLEAN
      /\ r = IF HasCdpError(response) THEN q
             ELSE IF command[2] THEN q \cup {command[1]} ELSE q \ {command[1]}
      /\ overrides' \in [Sessions -> SUBSET Range(Settings)]
      /\ \A s \in Sessions \ {tab[c]} : overrides'[s] = overrides[s]
  <2>1. command[1] \in Range(Settings) /\ command[2] \in BOOLEAN
    BY <1>6 DEF Commands
  <2> HIDE DEF command
  <2> QED BY <1>1, <1>4, <1>5, <2>1
<1>8. next \in Stations(tool[c])
  BY <1>2, StationsAre DEF EmulationNames
<1>9. GoesAny(c)
  BY <1>3, <1>8 DEF GoesAny
<1>10. EmulationTypeOK'
  BY <1>2, <1>6, <1>7 DEF EmulationIInv, EmulationTypeOK, Commands
<1> HIDE DEF command, n, next
<1>11. /\ \A d \in Calls \ {c} : /\ at'[d] = at[d] /\ excuse'[d] = excuse[d]
                                 /\ commands'[d] = commands[d]
       /\ at'[c] = next /\ excuse'[c] = e /\ (excuse[c] => e)
       /\ commands'[c] = Tail(commands[c])
       /\ UNCHANGED <<tool, tab, alone>>
  BY <1>2, <1>3 DEF Goes, Chains, AtStations, ChainsTypeOK, EmulationIInv,
     EmulationTypeOK
<1>12. \A d \in Calls : Emulates(d)' => Emulates(d)
  BY <1>4, <1>11 DEF Emulates, Running
<1>13. Emulates(c)' => n # 1
  BY <1>11 DEF Emulates, Running, Ended, next
(* What a reset has left after this answer.                                *)
<1>14. ASSUME tool[c] = "reset"
       PROVE  \E k \in 1 .. 8 :
                /\ n = 9 - k
                /\ \A i \in 1 .. n : commands[c][i] = ResetCommand(Settings[k + i - 1])
                /\ alone[c] /\ ~e => r \subseteq {Settings[i] : i \in (k + 1) .. 8}
  <2>1. PICK k \in 1 .. 8 : ResetAt(c, k)
    BY <1>4, <1>14, SettingsFacts DEF EmulationIInv, Resets
  <2>2. n = 9 - k
    BY <2>1, SettingsFacts DEF ResetAt, n
  <2>3. \A i \in 1 .. n : commands[c][i] = ResetCommand(Settings[k + i - 1])
    BY <2>1 DEF ResetAt, n
  <2>4. alone[c] /\ ~excuse[c] => q \subseteq {Settings[i] : i \in k .. 8}
    BY <2>1, SettingsFacts DEF ResetAt
  <2>5. command = ResetCommand(Settings[k])
    <3>1. 1 \in 1 .. n /\ k + 1 - 1 = k
      BY <1>6, <2>1
    <3> QED BY <1>6, <2>3, <3>1
  <2>6. ASSUME alone[c], ~e PROVE r \subseteq {Settings[i] : i \in (k + 1) .. 8}
    <3>1. q \subseteq {Settings[i] : i \in k .. 8}
      BY <1>11, <2>4, <2>6
    <3>2. r = q \ {Settings[k]}
      BY <1>3, <1>7, <2>5, <2>6 DEF ResetCommand
    <3>3. k .. 8 = {k} \cup ((k + 1) .. 8)
      BY <2>1
    <3> QED BY <3>1, <3>2, <3>3
  <2> QED BY <2>2, <2>3, <2>6
<1>15. Resets'
  <2>1. ASSUME NEW d \in Calls, Emulates(d)' PROVE commands'[d] # <<>>
    <3>1. CASE d # c
      BY <1>11, <1>12, <2>1, <3>1 DEF EmulationIInv, Resets
    <3>2. CASE d = c
      <4>1. Len(commands'[c]) # 0
        BY <1>6, <1>11, <1>13, <2>1, <3>2
      <4>2. Len(<<>>) = 0
        OBVIOUS
      <4> QED BY <3>2, <4>1, <4>2
    <3> QED BY <3>1, <3>2
  <2>2. ASSUME NEW d \in Calls, Emulates(d)', tool'[d] = "reset"
        PROVE  \E k \in 1 .. Len(Settings) : ResetAt(d, k)'
    <3>1. CASE d # c
      <4>1. PICK k \in 1 .. Len(Settings) : ResetAt(d, k)
        BY <1>11, <1>12, <2>2 DEF EmulationIInv, Resets
      <4>2. alone[d] => tab[d] # tab[c] /\ tab[d] \in Sessions
        <5>1. alone[d] => tab[d] # tab[c]
          BY <1>4, <1>12, <2>2, <3>1 DEF EmulationIInv, Resets
        <5>2. tab[d] \in Sessions
          BY <1>12, <2>2 DEF Chains, Arrived, Emulates, Running
        <5> QED BY <5>1, <5>2
      <4>3. ResetAt(d, k)'
        BY <1>7, <1>11, <3>1, <4>1, <4>2 DEF ResetAt
      <4> QED BY <4>3
    <3>2. CASE d = c
      <4>1. PICK k \in 1 .. 8 :
              /\ n = 9 - k
              /\ \A i \in 1 .. n : commands[c][i] = ResetCommand(Settings[k + i - 1])
              /\ alone[c] /\ ~e => r \subseteq {Settings[i] : i \in (k + 1) .. 8}
        BY <1>11, <1>14, <2>2, <3>2
      <4>2. k + 1 \in 1 .. 8
        BY <1>13, <2>2, <3>2, <4>1
      <4>3. \A i \in 1 .. (n - 1) :
              commands'[c][i] = ResetCommand(Settings[(k + 1) + i - 1])
        <5> SUFFICES ASSUME NEW i \in 1 .. (n - 1)
                     PROVE  commands'[c][i] = ResetCommand(Settings[(k + 1) + i - 1])
          OBVIOUS
        <5>1. i + 1 \in 1 .. n /\ k + (i + 1) - 1 = (k + 1) + i - 1
          BY <1>6, <4>1
        <5>2. commands'[c][i] = commands[c][i + 1]
          BY <1>6, <1>11
        <5> QED BY <4>1, <5>1, <5>2
      <4>4. Len(commands'[c]) = n - 1 /\ n - 1 = Len(Settings) + 1 - (k + 1)
        BY <1>6, <1>11, <4>1, SettingsFacts
      <4>5. ResetAt(c, k + 1)'
        BY <1>11, <4>1, <4>3, <4>4, SettingsFacts DEF ResetAt
      <4> QED BY <3>2, <4>2, <4>5, SettingsFacts
    <3> QED BY <3>1, <3>2
  <2>3. \A d, f \in Calls :
          Emulates(d)' /\ Emulates(f)' /\ tab'[d] = tab'[f] /\ alone'[d] => d = f
    BY <1>11, <1>12 DEF EmulationIInv, Resets
  <2> QED BY <2>1, <2>2, <2>3 DEF Resets
<1>16. ASSUME tool[c] = "reset", alone[c], at'[c] = "ok", ~excuse'[c]
       PROVE  r = {}
  <2>1. n = 1
    BY <1>11, <1>16 DEF next
  <2>2. PICK k \in 1 .. 8 :
          /\ n = 9 - k
          /\ alone[c] /\ ~e => r \subseteq {Settings[i] : i \in (k + 1) .. 8}
    BY <1>14, <1>16
  <2>3. (k + 1) .. 8 = {}
    BY <2>1, <2>2
  <2>4. r \subseteq {Settings[i] : i \in (k + 1) .. 8}
    BY <1>11, <1>16, <2>2
  <2> QED BY <2>3, <2>4
<1> QED BY <1>2, <1>9, <1>10, <1>15, <1>16 DEF EmulationIInv

-----------------------------------------------------------------------------
(* All together.                                                           *)

LEMMA IInvParts == IInv <=> Chains /\ InputIInv /\ QueryIInv /\ EmulationIInv
BY DEF IInv, TypeOK, Chains, InputIInv, QueryIInv, EmulationIInv

LEMMA InitIInv == Init => IInv
<1> SUFFICES ASSUME Init PROVE IInv
  OBVIOUS
<1>1. /\ attached = [s \in Sessions |-> TRUE]
      /\ tool = [c \in Calls |-> "none"]
      /\ tab = [c \in Calls |-> NoSession]
      /\ at = [c \in Calls |-> "new"]
      /\ excuse = [c \in Calls |-> FALSE]
  BY DEF Init, ChainsInit
<1>2. Chains
  <2>1. "none" \in Tools /\ "new" \in Places
    BY StationsAre, ToolsAre DEF Places
  <2> QED BY <1>1, <2>1, StationsAre DEF Chains, AtStations, Arrived, ChainsTypeOK
<1>3. InputIInv
  <2>1. /\ left = [c \in Calls |-> 0]
        /\ item = [c \in Calls |-> "none"]
        /\ char_delay_timer = NoCall
        /\ pressed = [s \in Sessions |-> {}]
        /\ typed = [s \in Sessions |-> <<>>]
    BY DEF Init, InputInit
  <2>2. InputTypeOK
    <3>1. <<>> \in Seq(Calls \X (1 .. Len(Text)))
      OBVIOUS
    <3>2. typed \in [Sessions -> Seq(Calls \X (1 .. Len(Text)))]
      BY <2>1, <3>1
    <3> QED BY <2>1, <3>2, TextFacts DEF InputTypeOK
  <2>3. Held /\ Presses /\ TimerOn
    BY <1>1, <2>1 DEF Held, Presses, TimerOn
  <2>4. TypedHere
    <3>1. DOMAIN (<<>>) = {}
      OBVIOUS
    <3> QED BY <2>1, <3>1 DEF TypedHere
  <2>5. TypedSoFar
    BY <1>1 DEF TypedSoFar
  <2> QED BY <2>2, <2>3, <2>4, <2>5 DEF InputIInv
<1>4. QueryIInv
  <2>1. Cardinality(Parts) \in Nat
    BY FS_CardinalityType
  <2> QED BY <1>1, <2>1 DEF Init, QueryInit, QueryIInv, QueryTypeOK, PartsCounted
<1>5. EmulationIInv
  <2>1. /\ commands = [c \in Calls |-> <<>>]
        /\ overrides = [s \in Sessions |-> {}]
        /\ alone = [c \in Calls |-> FALSE]
    BY DEF Init, EmulationInit
  <2>2. EmulationTypeOK
    <3>1. <<>> \in Seq(Range(Settings) \X BOOLEAN)
      OBVIOUS
    <3> QED BY <2>1, <3>1 DEF EmulationTypeOK
  <2>3. Resets
    BY <1>1 DEF Resets, Emulates
  <2> QED BY <2>2, <2>3 DEF EmulationIInv
<1> QED BY <1>2, <1>3, <1>4, <1>5, IInvParts

(* What a reset ends with.                                                 *)
ResetEnds(c) ==
  (tool[c] = "reset" /\ alone[c] /\ Running(c) /\ at'[c] = "ok" /\ ~excuse'[c])
    => overrides'[tab[c]] = {}

LEMMA NextIInv ==
  ASSUME IInv, [Next]_vars
  PROVE  IInv' /\ \A c \in Calls : ResetEnds(c)
<1>0. Chains /\ InputIInv /\ QueryIInv /\ EmulationIInv
  BY IInvParts
<1>a. (Chains /\ InputIInv /\ QueryIInv /\ EmulationIInv)' => IInv'
  BY DEF IInv, TypeOK, Chains, InputIInv, QueryIInv, EmulationIInv
<1>b. ASSUME NEW c \in Calls, CallSteps(c), tool'[c] \notin EmulationNames
      PROVE  \A d \in Calls : ResetEnds(d)
  <2>1. ASSUME NEW d \in Calls, tool[d] = "reset", Running(d)
        PROVE  at'[d] = at[d]
    <3>1. CASE d # c
      BY <1>0, <1>b, <3>1 DEF CallSteps, BeginsAny, Begins, GoesAny, Goes,
         Chains, AtStations
    <3>2. CASE d = c
      <4>1. at[c] # "new"
        BY <2>1, <3>2 DEF Running
      <4>2. GoesAny(c)
        BY <1>b, <4>1 DEF CallSteps, BeginsAny, Begins
      <4>3. tool'[c] = "reset"
        BY <2>1, <3>2, <4>2 DEF GoesAny, Goes
      <4> QED BY <1>b, <4>3 DEF EmulationNames
    <3> QED BY <3>1, <3>2
  <2> QED BY <2>1 DEF ResetEnds, Running, Ended
<1>c. ASSUME NoCallMoves PROVE \A d \in Calls : ResetEnds(d)
  BY <1>c DEF NoCallMoves, ResetEnds, Running, Ended
<1>d. /\ \A t \in InputNames : t \notin QueryNames /\ t \notin EmulationNames
      /\ \A t \in QueryNames : t \notin InputNames /\ t \notin EmulationNames
      /\ \A t \in EmulationNames : t \notin InputNames /\ t \notin QueryNames
      /\ EmulationNames \subseteq Tools \ {"none"}
  BY ToolsAre DEF InputNames, ChainTools, QueryNames, EmulationNames
<1>1. CASE InputNext /\ UNCHANGED <<queryVars, emulationVars>>
  <2>1. PICK c \in Calls : CallSteps(c) /\ tool'[c] \in InputNames
    BY <1>0, <1>1, InputNextIInv
  <2>2. InputIInv' /\ Chains'
    BY <1>0, <1>1, <2>1, InputNextIInv, StepsKeepTypes DEF Chains
  <2>3. QueryIInv' /\ EmulationIInv'
    BY <1>0, <1>1, <1>d, <2>1, OutsideQueries, OutsideEmulation
  <2> QED BY <1>a, <1>b, <1>d, <2>1, <2>2, <2>3
<1>2. CASE QueryNext /\ UNCHANGED <<inputVars, emulationVars>>
  <2>1. PICK c \in Calls : CallSteps(c) /\ tool'[c] \in QueryNames
    BY <1>0, <1>2, QueryNextIInv
  <2>2. QueryIInv' /\ Chains'
    BY <1>0, <1>2, <2>1, QueryNextIInv, StepsKeepTypes DEF Chains
  <2>3. InputIInv' /\ EmulationIInv'
    BY <1>0, <1>2, <1>d, <2>1, OutsideInput, OutsideEmulation
  <2> QED BY <1>a, <1>b, <1>d, <2>1, <2>2, <2>3
<1>3. ASSUME NEW c \in Calls, UNCHANGED <<inputVars, queryVars>>,
             CallSteps(c), tool'[c] \in EmulationNames, EmulationIInv',
             \A d \in Calls : ResetEnds(d)
      PROVE  IInv' /\ \A d \in Calls : ResetEnds(d)
  <2>1. Chains'
    BY <1>0, <1>3, StepsKeepTypes DEF Chains
  <2>2. InputIInv' /\ QueryIInv'
    BY <1>0, <1>3, <1>d, OutsideInput, OutsideQueries
  <2> QED BY <1>3, <1>a, <2>1, <2>2
<1>4. ASSUME NEW c \in Calls, NEW s \in Sessions,
             ExecuteEmulation(c, s) \/ ExecuteReset(c, s),
             UNCHANGED <<inputVars, queryVars>>
      PROVE  IInv' /\ \A d \in Calls : ResetEnds(d)
  <2>1. PICK t \in EmulationNames, list \in Seq(Commands) :
          /\ Begin(c, t, s, list)
          /\ t = "reset" => list = AppendResetCommands
    <3>1. CASE ExecuteReset(c, s)
      BY <3>1, ResetCommands DEF ExecuteReset, EmulationNames
    <3>2. CASE ExecuteEmulation(c, s)
      <4>1. PICK list \in Ordered :
              Begin(c, "emulation", s, [i \in DOMAIN list |-> SetCommand(list[i])])
        BY <3>2 DEF ExecuteEmulation
      <4>2. [i \in DOMAIN list |-> SetCommand(list[i])] \in Seq(Commands)
        BY OrderedCommands
      <4> QED BY <4>1, <4>2 DEF EmulationNames
    <3> QED BY <1>4, <3>1, <3>2
  <2>2. BeginsAny(c, t) /\ tool'[c] = t /\ EmulationIInv'
    BY <1>0, <2>1, BeginIInv
  <2>3. CallSteps(c)
    BY <1>d, <2>2 DEF CallSteps
  <2>4. \A d \in Calls : ResetEnds(d)
    <3>1. ASSUME NEW d \in Calls, Running(d) PROVE at'[d] = at[d]
      <4>1. d # c
        BY <2>2, <3>1 DEF BeginsAny, Begins, Running
      <4> QED BY <1>0, <2>2, <4>1 DEF BeginsAny, Begins, Chains, AtStations
    <3> QED BY <3>1 DEF ResetEnds, Running, Ended
  <2> QED BY <1>3, <1>4, <2>2, <2>3, <2>4
<1>5. ASSUME NEW c \in Calls, OnCommandResponse(c),
             UNCHANGED <<inputVars, queryVars>>
      PROVE  IInv' /\ \A d \in Calls : ResetEnds(d)
  <2>1. /\ GoesAny(c) /\ tool[c] \in EmulationNames /\ EmulationIInv'
        /\ tool[c] = "reset" /\ alone[c] /\ at'[c] = "ok" /\ ~excuse'[c] =>
             overrides'[tab[c]] = {}
    BY <1>0, <1>5, OnCommandResponseIInv
  <2>2. CallSteps(c) /\ tool'[c] \in EmulationNames
    BY <2>1 DEF CallSteps, GoesAny, Goes
  <2>3. ASSUME NEW d \in Calls PROVE ResetEnds(d)
    <3>1. CASE d = c
      BY <2>1, <3>1 DEF ResetEnds
    <3>2. CASE d # c
      <4>1. at'[d] = at[d]
        BY <1>0, <2>1, <3>2 DEF GoesAny, Goes, Chains, AtStations
      <4> QED BY <4>1 DEF ResetEnds, Running, Ended
    <3> QED BY <3>1, <3>2
  <2> QED BY <1>3, <1>5, <2>1, <2>2, <2>3
<1>6. ASSUME NEW s \in Sessions, CloseTab(s)
      PROVE  IInv' /\ \A d \in Calls : ResetEnds(d)
  <2>1. /\ NoCallMoves /\ UNCHANGED <<inputVars, queryVars, emulationVars>>
    <3>1. attached' \in [Sessions -> BOOLEAN]
      BY <1>0, <1>6 DEF CloseTab, AgentHostClosed, Chains, ChainsTypeOK
    <3> QED BY <1>6, <3>1 DEF CloseTab, AgentHostClosed, NoCallMoves
  <2>2. Chains'
    BY <1>0, <2>1, StepsKeepTypes DEF Chains
  <2>3. InputIInv' /\ QueryIInv' /\ EmulationIInv'
    BY <1>0, <2>1, OutsideInput, OutsideQueries, OutsideEmulation
  <2> QED BY <1>a, <1>c, <2>1, <2>2, <2>3
<1>7. ASSUME NEW c \in Calls, NEW s \in Sessions, Refuse(c, s)
      PROVE  IInv' /\ \A d \in Calls : ResetEnds(d)
  <2>1. /\ Begins(c, "refused", s, "error", TRUE)
        /\ UNCHANGED <<inputVars, queryVars, emulationVars>>
    BY <1>7 DEF Refuse, Refused, Execute, Begins
  <2>2. "error" \in Stations("refused") /\ "refused" \in Tools \ {"none"}
    BY StationsAre, ToolsAre
  <2>3. CallSteps(c) /\ tool'[c] = "refused"
    BY <1>0, <2>1, <2>2 DEF CallSteps, BeginsAny, Begins, Chains, AtStations
  <2>4. "refused" \notin InputNames \cup QueryNames \cup EmulationNames
    BY DEF InputNames, ChainTools, QueryNames, EmulationNames
  <2>5. Chains'
    BY <1>0, <2>3, StepsKeepTypes DEF Chains
  <2>6. InputIInv' /\ QueryIInv' /\ EmulationIInv'
    BY <1>0, <2>1, <2>3, <2>4, OutsideInput, OutsideQueries, OutsideEmulation
  <2> QED BY <1>a, <1>b, <2>3, <2>4, <2>5, <2>6
<1>8. CASE UNCHANGED vars
  <2>1. /\ UNCHANGED <<attached, tool, tab, at, excuse>>
        /\ UNCHANGED <<inputVars, queryVars, emulationVars>>
    BY <1>8 DEF vars, chainVars
  <2>2. NoCallMoves
    BY <1>0, <2>1 DEF NoCallMoves, Chains, ChainsTypeOK
  <2>3. Chains'
    BY <1>0, <2>2, StepsKeepTypes DEF Chains
  <2>4. InputIInv' /\ QueryIInv' /\ EmulationIInv'
    BY <1>0, <2>1, <2>2, OutsideInput, OutsideQueries, OutsideEmulation
  <2> QED BY <1>a, <1>c, <2>2, <2>3, <2>4
<1>9. CASE Next
  <2>1. CASE EmulationNext /\ UNCHANGED <<inputVars, queryVars>>
    BY <1>4, <1>5, <2>1 DEF EmulationNext
  <2>2. CASE \E s \in Sessions : CloseTab(s) \/ \E c \in Calls : Refuse(c, s)
    BY <1>6, <1>7, <2>2
  <2> QED BY <1>1, <1>2, <1>9, <2>1, <2>2 DEF Next
<1> QED BY <1>8, <1>9

LEMMA AlwaysIInv == Spec => []IInv
<1>1. IInv /\ [Next]_vars => IInv'
  BY NextIInv
<1> QED BY InitIInv, <1>1, PTL DEF Spec

-----------------------------------------------------------------------------
(* The results.                                                            *)

(* Every call of the chain tools is always at a command of its own tool's  *)
(* table, or has ended; timers, counters, lists and tabs have their types. *)
THEOREM ChainTypes == Spec => []TypeOK
<1>1. IInv => TypeOK
  BY DEF IInv
<1> QED BY <1>1, AlwaysIInv, PTL

(* However the chains of several clients interleave in a tab, a button or  *)
(* a key is down only while a call that will release it runs, or after a   *)
(* command failed: between calls everything is up.                         *)
THEOREM EverythingReleased == Spec => []NothingLeftPressed
<1>1. IInv => NothingLeftPressed
  <2> SUFFICES ASSUME IInv, NEW s \in Sessions,
                      \A c \in Calls : tab[c] = s => ~Running(c) /\ ~excuse[c],
                      NEW x \in pressed[s] \ {"char"}
               PROVE  FALSE
    BY DEF NothingLeftPressed
  <2>1. PICK c \in Calls :
          /\ tab[c] = s
          /\ \/ excuse[c]
             \/ item[c] = x /\ at[c] \in {"move", "release", "keyUp"}
    BY DEF IInv, Held
  <2> QED BY <2>1 DEF Running, Ended
<1> QED BY <1>1, AlwaysIInv, PTL

(* The characters of a typing reach its tab in order, each once, for any   *)
(* text, however many typings share the tab and the timer; a typing that   *)
(* succeeds has typed them all.                                            *)
THEOREM EveryCharacterOnce == Spec => []TypedOnceInOrder
<1>1. IInv => TypedOnceInOrder
  BY DEF IInv, TypedSoFar, Typed, TypedOnceInOrder
<1> QED BY <1>1, AlwaysIInv, PTL

(* A query that has ended waits for no part, and one that waits for parts  *)
(* has counted each of them, for any set of parts: no answer comes late    *)
(* and none is missing.                                                    *)
THEOREM PartsAnswered == Spec => []LastPartAnswers
<1>1. IInv => LastPartAnswers
  BY DEF IInv, PartsCounted, LastPartAnswers, Ended
<1> QED BY <1>1, AlwaysIInv, PTL

(* The one tool whose calls can be left without an answer that would end   *)
(* them is element_info: the others count the commands they send.          *)
THEOREM OnlyElementInfoHangs ==
  Spec => [](\A c \in Calls : Uncounted(c) => tool[c] = "element_info")
<1>1. IInv => \A c \in Calls : Uncounted(c) => tool[c] = "element_info"
  <2> SUFFICES ASSUME IInv, NEW c \in Calls, at[c] = "nothing"
               PROVE  tool[c] = "element_info"
    BY DEF Uncounted
  <2>1. Chains
    BY IInvParts
  <2> QED BY <2>1, ArrivedFacts, StationsAre, ToolsAre DEF Chains
<1> QED BY <1>1, AlwaysIInv, PTL

(* A reset that was alone in its tab and of which no command failed leaves *)
(* no override there, whatever was set before.                             *)
THEOREM ResetsCompletely == Spec => ResetLeavesNothing
<1>1. IInv /\ [Next]_vars =>
        [\A c \in Calls :
           (tool[c] = "reset" /\ alone[c] /\ Running(c) /\ at'[c] = "ok"
              /\ ~excuse'[c])
             => overrides'[tab[c]] = {}]_<<chainVars, emulationVars>>
  BY NextIInv DEF ResetEnds
<1> QED BY <1>1, AlwaysIInv, PTL DEF Spec, ResetLeavesNothing
=============================================================================

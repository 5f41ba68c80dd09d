----------------------------- MODULE InputTools -----------------------------
(***************************************************************************)
(* The tools mouse, drag, hover, scroll, keyboard, select_option and       *)
(* file_upload (src/src/tools/).  Each is a table: which command follows   *)
(* which.  A tool object serves all clients; only the keyboard keeps       *)
(* anything between the steps of a call, the timer between two characters. *)
(***************************************************************************)
EXTENDS ToolChains

CONSTANTS NoCall,
          Steps,        \* the moves of a drag, or of a mouse move
          Text          \* what is typed: a sequence of "ascii" and "other"

ASSUME InputAssumption ==
  /\ NoCall \notin Calls
  /\ Steps \in Nat \ {0}
  /\ Text \in Seq({"ascii", "other"}) \ {<<>>}

VARIABLES
  left,       \* moves, or characters, a call has still to send after this one
  item,       \* the button or key of a call
  char_delay_timer,  \* the call whose closure the timer holds
  pressed,    \* external: buttons and keys that are down in each tab
  typed       \* external: characters each tab has got, as <<call, index>>

inputVars == <<left, item, char_delay_timer, pressed, typed>>

Buttons == {"left", "right"}

InputTypeOK ==
  /\ left \in [Calls -> 0 .. Steps + Len(Text)]
  /\ item \in [Calls -> Buttons \cup {"none", "key"}]
  /\ char_delay_timer \in Calls \cup {NoCall}
  /\ pressed \in [Sessions -> SUBSET (Buttons \cup {"key", "char"})]
  /\ typed \in [Sessions -> Seq(Calls \X (1 .. Len(Text)))]

InputInit ==
  /\ left = [c \in Calls |-> 0]
  /\ item = [c \in Calls |-> "none"]
  /\ char_delay_timer = NoCall
  /\ pressed = [s \in Sessions |-> {}]
  /\ typed = [s \in Sessions |-> <<>>]

-----------------------------------------------------------------------------
(* The chains: what follows the answer to each command.                    *)

HoverChain == [root |-> "query", query |-> "box", box |-> "hover",
               hover |-> "ok"]

ScrollChain == [root |-> "query", query |-> "box", box |-> "wheel",
                wheel |-> "ok", evaluate |-> "ok"]

DragLookup == [root |-> "query", query |-> "box", box |-> "root2",
               root2 |-> "query2", query2 |-> "box2", box2 |-> "press"]

(* Bug variant: the drag is not ended by a release.                        *)
DragSequence_NoRelease == [press |-> "move", move |-> "ok"]

DragSequence == [press |-> "move", move |-> "release", release |-> "ok"]

MouseDrag == [press |-> "move", move |-> "release", release |-> "ok"]

MouseMove == [step |-> "last", last |-> "ok"]

PressChain == [keyDown |-> "keyUp", keyUp |-> "ok"]

TypeChain == [insert |-> "ok"]

(* The script that selects the option; one that throws is to be an error:  *)
(* see HasJsException.                                                     *)
SelectChain == [evaluate |-> "ok"]

UploadChain == [root |-> "query", query |-> "setFiles", setFiles |-> "ok"]

Follows(t, cmd) ==
  CASE t = "hover"    -> HoverChain[cmd]
    [] t = "scroll"   -> ScrollChain[cmd]
    [] t = "drag"     -> IF cmd \in DOMAIN DragLookup THEN DragLookup[cmd]
                                                      ELSE DragSequence[cmd]
    [] t = "mouse"    -> IF cmd \in DOMAIN MouseMove THEN MouseMove[cmd]
                                                     ELSE MouseDrag[cmd]
    [] t = "press"    -> PressChain[cmd]
    [] t = "type"     -> TypeChain[cmd]
    [] t = "select_option" -> SelectChain[cmd]
    [] t = "file_upload"   -> UploadChain[cmd]

ChainTools == {"hover", "scroll", "drag", "mouse", "press", "type",
               "select_option", "file_upload"}

(* Node ids and box models are looked up under the key "result".           *)
Extracted(response, key) ==
  IF "result" \in DOMAIN response /\ key \in DOMAIN response.result
    THEN response.result[key]
    ELSE 0

Lacks(cmd, response) ==
  \/ cmd \in {"root", "root2"}   /\ Extracted(response, "root") <= 0
  \/ cmd \in {"query", "query2"} /\ Extracted(response, "nodeId") <= 0
  \/ cmd \in {"box", "box2"}     /\ Extracted(response, "model") <= 0

(* The exception of a script is looked up there, too, although it stands   *)
(* beside "result", whose value it is not: the branch is never taken, and  *)
(* select_option reports success.                                          *)
HasJsException(response) ==
  "result" \in DOMAIN response /\ "exceptionDetails" \in DOMAIN response.result

Fails(t, cmd, response) ==
  \/ HasCdpError(response)
  \/ Lacks(cmd, response)
  \/ t = "select_option" /\ HasJsException(response)

-----------------------------------------------------------------------------
(* Calls begin.                                                            *)

Start(c, t, s, first, n, i) ==
  /\ Execute(c, t, s, first)
  /\ left' = [left EXCEPT ![c] = n]
  /\ item' = [item EXCEPT ![c] = i]
  /\ UNCHANGED <<excuse, char_delay_timer, pressed, typed>>

ExecuteHover(c, s) ==
  \E first \in {"root", "hover"} : Start(c, "hover", s, first, 0, "none")

ExecuteScroll(c, s) ==
  \E first \in {"evaluate", "root", "wheel"} :
    Start(c, "scroll", s, first, 0, "none")

ExecuteDrag(c, s) ==
  \E first \in {"root", "press"} : Start(c, "drag", s, first, Steps - 1, "left")

(* The action hover is a move of one step.                                 *)
ExecuteMouse(c, s) ==
  \/ \E n \in {1, Steps} : Start(c, "mouse", s, "step", n - 1, "none")
  \/ \E button \in Buttons : Start(c, "mouse", s, "press", Steps - 1, button)

ExecutePress(c, s) == Start(c, "press", s, "keyDown", 0, "key")

ExecuteType(c, s) == Start(c, "type", s, "insert", 0, "none")

ExecuteSelectOption(c, s) ==
  Start(c, "select_option", s, "evaluate", 0, "none")

ExecuteFileUpload(c, s) == Start(c, "file_upload", s, "root", 0, "none")

(* The command that sends the next of n characters, of which those of the  *)
(* basic set are typed as keys.                                            *)
CharCommand(n) ==
  IF Text[Len(Text) - n + 1] = "ascii" THEN "charDown" ELSE "charInsert"

ExecuteTypeWithDelay(c, s) ==
  Start(c, "typeDelayed", s, CharCommand(Len(Text)), Len(Text) - 1, "none")

-----------------------------------------------------------------------------
(* What a command does to its tab, when it succeeds.                       *)
Done(c) ==
  LET s == tab[c]
  IN  /\ pressed' = [pressed EXCEPT ![s] =
           CASE at[c] \in {"press", "keyDown"} -> @ \cup {item[c]}
             [] at[c] \in {"release", "keyUp"} -> @ \ {item[c]}
             [] at[c] = "charDown"             -> @ \cup {"char"}
             [] at[c] = "charUp"               -> @ \ {"unidentified"}
             [] OTHER                          -> @]
      /\ typed' = [typed EXCEPT ![s] =
           CASE at[c] = "insert" -> @ \o [i \in DOMAIN Text |-> <<c, i>>]
             [] at[c] \in {"charDown", "charInsert"} ->
                  Append(@, <<c, Len(Text) - left[c]>>)
             [] OTHER -> @]

(* The context of a call goes with the call.                               *)
InputFails(c) ==
  /\ tool[c] \in ChainTools \cup {"typeDelayed"}
  /\ Waits(c)
  /\ \E response \in Responses(c) :
       /\ Fails(tool[c], at[c], response)
       /\ Answered(c, response, "error")
  /\ left' = [left EXCEPT ![c] = 0]
  /\ item' = [item EXCEPT ![c] = "none"]
  /\ UNCHANGED <<char_delay_timer, pressed, typed>>

(* The steps of a movement are repeated.                                   *)
InputAnswered(c) ==
  /\ tool[c] \in ChainTools
  /\ Waits(c)
  /\ \E response \in Responses(c) :
       /\ ~Fails(tool[c], at[c], response)
       /\ IF at[c] \in {"step", "move"} /\ left[c] > 0
            THEN /\ Answered(c, response, at[c])
                 /\ left' = [left EXCEPT ![c] = @ - 1]
            ELSE /\ Answered(c, response, Follows(tool[c], at[c]))
                 /\ UNCHANGED left
  /\ item' = [item EXCEPT ![c] = IF at'[c] = "ok" THEN "none" ELSE @]
  /\ Done(c)
  /\ UNCHANGED char_delay_timer

(* The key that goes up is not known any more.                             *)
OnCharKeyDown(c) ==
  /\ tool[c] = "typeDelayed"
  /\ at[c] = "charDown"
  /\ \E response \in Responses(c) :
       /\ ~HasCdpError(response)
       /\ Answered(c, response, "charUp")
  /\ Done(c)
  /\ UNCHANGED <<left, item, char_delay_timer>>

(* The timer's closure, with the call another typing waits with, is        *)
(* replaced.                                                               *)
OnCharKeyUp(c) ==
  /\ tool[c] = "typeDelayed"
  /\ at[c] \in {"charUp", "charInsert"}
  /\ \E response \in Responses(c) :
       /\ ~HasCdpError(response)
       /\ IF left[c] = 0
            THEN /\ Answered(c, response, "ok")
                 /\ UNCHANGED char_delay_timer
            ELSE /\ Answered(c, response, "delay")
                 /\ char_delay_timer' = c
  /\ Done(c)
  /\ UNCHANGED <<left, item>>

(* Bug variant: the text keeps the character that is sent.                 *)
DispatchNextChar_Keeps(c) ==
  /\ Runnable
  /\ char_delay_timer = c
  /\ char_delay_timer' = NoCall
  /\ at' = [at EXCEPT ![c] = CharCommand(left[c])]
  /\ \E n \in {left[c], left[c] - 1} : left' = [left EXCEPT ![c] = n]
  /\ UNCHANGED <<attached, tool, tab, excuse, item, pressed, typed>>

DispatchNextChar(c) ==
  /\ Runnable
  /\ char_delay_timer = c
  /\ char_delay_timer' = NoCall
  /\ at' = [at EXCEPT ![c] = CharCommand(left[c])]
  /\ left' = [left EXCEPT ![c] = @ - 1]
  /\ UNCHANGED <<attached, tool, tab, excuse, item, pressed, typed>>

InputNext ==
  \E c \in Calls :
    \/ \E s \in Sessions :
         \/ ExecuteHover(c, s)
         \/ ExecuteScroll(c, s)
         \/ ExecuteDrag(c, s)
         \/ ExecuteMouse(c, s)
         \/ ExecutePress(c, s)
         \/ ExecuteType(c, s)
         \/ ExecuteTypeWithDelay(c, s)
         \/ ExecuteSelectOption(c, s)
         \/ ExecuteFileUpload(c, s)
    \/ InputFails(c)
    \/ InputAnswered(c)
    \/ OnCharKeyDown(c)
    \/ OnCharKeyUp(c)
    \/ DispatchNextChar(c)

-----------------------------------------------------------------------------
(* The chains of several clients interleave in one tab and press and       *)
(* release the same buttons and keys.  Between calls, in a tab where no    *)
(* command has failed, everything is up again.  (The keys of characters    *)
(* typed with a delay are not: see OnCharKeyDown.)                         *)
NothingLeftPressed ==
  \A s \in Sessions :
    (\A c \in Calls : tab[c] = s => ~Running(c) /\ ~excuse[c]) =>
      pressed[s] \subseteq {"char"}

(* Where the characters of call c are among those a tab has got.           *)
Mine(chars, c) == {i \in DOMAIN chars : chars[i][1] = c}

(* The first n characters of call c have come, and no other one of it.     *)
HasTyped(chars, c, n) == {chars[i][2] : i \in Mine(chars, c)} = 1 .. n

(* ... each later than those before it.                                    *)
InOrder(chars, c) ==
  \A i, j \in Mine(chars, c) : i < j => chars[i][2] < chars[j][2]

(* The characters of a call come in order, each once, whatever else is     *)
(* typed meanwhile; a call that succeeds has typed all of them.            *)
TypedOnceInOrder ==
  \A c \in Calls : tab[c] # NoSession =>
    LET chars == typed[tab[c]]
    IN  /\ InOrder(chars, c)
        /\ \E n \in 0 .. Len(Text) : HasTyped(chars, c, n)
        /\ (tool[c] \in {"type", "typeDelayed"} /\ at[c] = "ok") =>
             HasTyped(chars, c, Len(Text))

(* Another call's typing has taken over the timer of c.                    *)
TimerTaken(c) == at[c] = "delay" /\ char_delay_timer # c
=============================================================================

----------------------------- MODULE ChainTools -----------------------------
(***************************************************************************)
(* The tools whose calls are chains of commands, together: they share the  *)
(* sessions, which a closed tab ends for all of them.                      *)
(***************************************************************************)
EXTENDS InputTools, ElementQueries, EmulationTool

vars == <<chainVars, inputVars, queryVars, emulationVars>>

(* Where a call of each tool can be: the commands it sends, in no order.   *)
Stations(t) ==
  CASE t = "none"    -> {"new"}
    [] t = "refused" -> {"error"}
    [] t = "hover"   -> {"root", "query", "box", "hover"} \cup Ended
    [] t = "scroll"  ->
         {"root", "query", "box", "wheel", "evaluate"} \cup Ended
    [] t = "drag"    ->
         {"root", "query", "box", "root2", "query2", "box2",
          "press", "move", "release"} \cup Ended
    [] t = "mouse"   -> {"step", "last", "press", "move", "release"} \cup Ended
    [] t = "press"   -> {"keyDown", "keyUp"} \cup Ended
    [] t = "type"    -> {"insert"} \cup Ended
    [] t = "typeDelayed" ->
         {"charDown", "charUp", "charInsert", "delay"} \cup Ended
    [] t = "select_option" -> {"evaluate"} \cup Ended
    [] t = "file_upload"   -> {"root", "query", "setFiles"} \cup Ended
    [] t = "element" -> {"root", "query", "parts"} \cup Ended
    [] t = "element_info" ->
         {"root", "query", "parts", "nothing"} \cup Ended
    [] t = "find"    ->
         {"root", "queryAll", "performSearch", "getSearchResults", "parts"}
           \cup Ended
    [] t \in {"emulation", "reset"} -> {"setting"} \cup Ended

Tools ==
  ChainTools \cup {"none", "refused", "typeDelayed", "element",
                   "element_info", "find", "emulation", "reset"}

Places == UNION {Stations(t) : t \in Tools}

(* A call is at a command of its tool.                                     *)
AtStations ==
  /\ tool \in [Calls -> Tools]
  /\ at \in [Calls -> Places]
  /\ \A c \in Calls : at[c] \in Stations(tool[c])

TypeOK ==
  AtStations /\ ChainsTypeOK /\ InputTypeOK /\ QueryTypeOK /\ EmulationTypeOK

Init == ChainsInit /\ InputInit /\ QueryInit /\ EmulationInit

CloseTab(s) ==
  /\ AgentHostClosed(s)
  /\ UNCHANGED <<inputVars, queryVars, emulationVars>>

(* A call with arguments the tool does not take.                           *)
Refuse(c, s) ==
  /\ Refused(c, s)
  /\ UNCHANGED <<inputVars, queryVars, emulationVars>>

Next ==
  \/ InputNext /\ UNCHANGED <<queryVars, emulationVars>>
  \/ QueryNext /\ UNCHANGED <<inputVars, emulationVars>>
  \/ EmulationNext /\ UNCHANGED <<inputVars, queryVars>>
  \/ \E s \in Sessions : CloseTab(s) \/ \E c \in Calls : Refuse(c, s)

(* The command a call waits for is answered.                               *)
Answer(c) ==
  \/ /\ \/ InputFails(c) \/ InputAnswered(c)
        \/ OnCharKeyDown(c) \/ OnCharKeyUp(c)
     /\ UNCHANGED <<queryVars, emulationVars>>
  \/ /\ \/ QueryFails(c) \/ OnGetDocument(c) \/ DispatchRequests(c)
        \/ FetchProperties(c) \/ OnPerformSearch(c) \/ DescribeNodes(c)
        \/ OnOneRequestDone(c)
     /\ UNCHANGED <<inputVars, emulationVars>>
  \/ OnCommandResponse(c) /\ UNCHANGED <<inputVars, queryVars>>

TimerFires(c) == DispatchNextChar(c) /\ UNCHANGED <<queryVars, emulationVars>>

(* The renderer answers in the end, and the timer fires while it is on.    *)
Fairness == \A c \in Calls : WF_vars(Answer(c)) /\ WF_vars(TimerFires(c))

Spec == Init /\ [][Next]_vars /\ Fairness

-----------------------------------------------------------------------------
(* A call ends, whatever the others do and also when its tab closes, with  *)
(* two exceptions: another delayed typing takes over its timer, or it asks *)
(* element_info for a property that does not exist.                        *)
CallsEnd ==
  \A c \in Calls :
    Running(c) ~> (~Running(c) \/ TimerTaken(c) \/ Uncounted(c))

(* src/src/mcp_session.h:113 says that a callback is given                 *)
(* {"result": {...}}, which is what the tools that take a selector read.   *)
(* Then a call fails only if a command failed, its arguments were wrong,   *)
(* or the element is not there.                                            *)
FailsForAReason ==
  \A c \in Calls : at[c] = "error" => excuse[c]
=============================================================================

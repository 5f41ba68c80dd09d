--------------------------- MODULE ElementQueries ---------------------------
(***************************************************************************)
(* The tools element, element_info and find (src/src/tools/): a short      *)
(* chain finds the nodes, then a command is sent for each of several       *)
(* parts, all at once, and the last of their answers ends the call.        *)
(***************************************************************************)
EXTENDS ToolChains

CONSTANT Parts      \* the properties of an element the tools know, or the
                    \* nodes a search finds

ASSUME QueryAssumption == IsFiniteSet(Parts)

VARIABLES
  parts,      \* the parts whose commands are not answered yet
  pending     \* the counter of the call's context

queryVars == <<parts, pending>>

QueryTypeOK ==
  /\ parts \in [Calls -> SUBSET Parts]
  /\ pending \in [Calls -> 0 .. Cardinality(Parts) + 1]

QueryInit ==
  /\ parts = [c \in Calls |-> {}]
  /\ pending = [c \in Calls |-> 0]

(* Unlike the input tools, these find their data with the key "result" and *)
(* without it.                                                             *)
Found(response, key) ==
  IF "result" \in DOMAIN response
    THEN response.result[key]
    ELSE IF key \in DOMAIN response THEN response[key] ELSE 0

-----------------------------------------------------------------------------
(* The properties a call asks for: without a list, all that are known; of  *)
(* a list, the strings, which may be none.  "unknown" stands for names the *)
(* tools do not know.  They are arguments, here chosen where they are      *)
(* first used.                                                             *)
Asked == SUBSET (Parts \cup {"unknown"})

ExecuteQuery(c, t, s) ==
  /\ Execute(c, t, s, "root")
  /\ UNCHANGED <<excuse, queryVars>>

ExecuteElement(c, s) == ExecuteQuery(c, "element", s)

ExecuteElementInfo(c, s) == ExecuteQuery(c, "element_info", s)

ExecuteFind(c, s) ==
  /\ \E first \in {"root", "performSearch"} : Execute(c, "find", s, first)
  /\ UNCHANGED <<excuse, queryVars>>

QueryFails(c) ==
  /\ tool[c] \in {"element", "element_info", "find"}
  /\ Waits(c) /\ at[c] # "parts"
  /\ \E response \in Responses(c) :
       /\ \/ HasCdpError(response)
          \/ at[c] = "root" /\ Found(response, "root") = 0
          \/ at[c] = "query" /\ Found(response, "nodeId") = 0
       /\ Answered(c, response, "error")
  /\ UNCHANGED queryVars

OnGetDocument(c) ==
  /\ tool[c] \in {"element", "element_info", "find"}
  /\ at[c] = "root"
  /\ \E response \in Responses(c) :
       /\ ~HasCdpError(response) /\ Found(response, "root") # 0
       /\ Answered(c, response, IF tool[c] = "find" THEN "queryAll" ELSE "query")
  /\ UNCHANGED queryVars

(* The state of a call that waits for "count" answers to these commands.   *)
Awaits(some, count) ==
  IF count = 0 THEN "ok" ELSE IF some = {} THEN "nothing" ELSE "parts"

(* The commands for these parts are sent, "count" answers are waited for.  *)
Fetch(c, response, next, some, count) ==
  /\ Answered(c, response, next)
  /\ parts' = [parts EXCEPT ![c] = some]
  /\ pending' = [pending EXCEPT ![c] = count]

(* Names that are not known are not counted; without a part the call ends. *)
DispatchRequests(c) ==
  /\ tool[c] = "element"
  /\ at[c] = "query"
  /\ \E response \in Responses(c), asked \in Asked :
       /\ ~HasCdpError(response) /\ Found(response, "nodeId") # 0
       /\ LET some == asked \cap Parts
               count == Cardinality(some)
          IN  Fetch(c, response, Awaits(some, count), some, count)

(* Here they are, although no command is sent for them, and only an answer *)
(* ends the call: without one it never ends, not even for an empty list.   *)
FetchProperties(c) ==
  /\ tool[c] = "element_info"
  /\ at[c] = "query"
  /\ \E response \in Responses(c), asked \in Asked :
       /\ ~HasCdpError(response) /\ Found(response, "nodeId") # 0
       /\ LET some == asked \cap Parts
          IN  Fetch(c, response, IF some = {} THEN "nothing" ELSE "parts", some,
                    Cardinality(asked))

(* A search that finds nothing succeeds.                                   *)
OnPerformSearch(c) ==
  /\ tool[c] = "find"
  /\ at[c] = "performSearch"
  /\ \E response \in Responses(c) :
       /\ ~HasCdpError(response)
       /\ \E next \in {"ok", "getSearchResults"} : Answered(c, response, next)
  /\ UNCHANGED queryVars

(* The nodes that were found are described.                                *)
DescribeNodes(c) ==
  /\ tool[c] = "find"
  /\ at[c] \in {"getSearchResults", "queryAll"}
  /\ \E response \in Responses(c), nodes \in SUBSET Parts :
       /\ ~HasCdpError(response)
       /\ LET count == Cardinality(nodes)
          IN  Fetch(c, response, Awaits(nodes, count), nodes, count)

(* Bug variant: the first answer ends the call.                            *)
OnOneRequestDone_First(c) ==
  /\ at[c] = "parts"
  /\ \E p \in parts[c], response \in Responses(c) :
       /\ Answered(c, response, "ok")
       /\ parts' = [parts EXCEPT ![c] = @ \ {p}]
       /\ pending' = [pending EXCEPT ![c] = @ - 1]

(* Bug variant: an error returns before the counter.                       *)
OnOneRequestDone_ErrorReturns(c) ==
  /\ at[c] = "parts"
  /\ \E p \in parts[c], response \in Responses(c) :
       LET left_over == IF HasCdpError(response) THEN pending[c]
                                                 ELSE pending[c] - 1
       IN  /\ Answered(c, response, IF left_over = 0 THEN "ok" ELSE "parts")
           /\ parts' = [parts EXCEPT ![c] = @ \ {p}]
           /\ pending' = [pending EXCEPT ![c] = left_over]

(* An error in one part leaves this part out.                              *)
OnOneRequestDone(c) ==
  /\ at[c] = "parts"
  /\ \E p \in parts[c], response \in Responses(c) :
       /\ Answered(c, response, Awaits(parts[c] \ {p}, pending[c] - 1))
       /\ parts' = [parts EXCEPT ![c] = @ \ {p}]
       /\ pending' = [pending EXCEPT ![c] = @ - 1]

QueryNext ==
  \E c \in Calls :
    \/ \E s \in Sessions :
         \/ ExecuteElement(c, s)
         \/ ExecuteElementInfo(c, s)
         \/ ExecuteFind(c, s)
    \/ QueryFails(c)
    \/ OnGetDocument(c)
    \/ DispatchRequests(c)
    \/ FetchProperties(c)
    \/ OnPerformSearch(c)
    \/ DescribeNodes(c)
    \/ OnOneRequestDone(c)

-----------------------------------------------------------------------------
(* The parts of an element are answered in any order, or fail one by one   *)
(* when the tab closes.  A call is ended by the last of them: none is      *)
(* still to come then, and as long as one is, the call can still end.      *)
LastPartAnswers ==
  \A c \in Calls :
    /\ at[c] \in Ended => parts[c] = {}
    /\ at[c] = "parts" => pending[c] >= Cardinality(parts[c])

(* No answer is left that could end call c: it was asked for a property    *)
(* nobody knows, and waits for that, too; or for none.                     *)
Uncounted(c) == at[c] = "nothing"
=============================================================================

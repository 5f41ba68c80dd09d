--------------------------- MODULE EmulationTool ---------------------------
(***************************************************************************)
(* The tool emulation (src/src/tools/emulation_tool.cc): a call makes a    *)
(* list of commands and sends them one after the other; a command that     *)
(* fails does not stop it.  What is set stays set in the tab: external.    *)
(***************************************************************************)
EXTENDS ToolChains, SequencesExt

CONSTANTS Chosen    \* settings that calls make use of

VARIABLES
  commands,   \* commands of each call that are not sent yet
  overrides,  \* external: what is emulated in each tab
  alone       \* history: no other emulation call was for this tab while this
              \* one ran

emulationVars == <<commands, overrides, alone>>

(* What can be set, in the order of the commands, and the commands.        *)
Settings ==
  <<"viewport", "geolocation", "colorScheme", "timezone", "locale",
    "userAgent", "cpuThrottling", "networkConditions">>

SetCommand(setting) == <<setting, TRUE>>
ResetCommand(setting) == <<setting, FALSE>>

(* Bug variant: the reset forgets the last of the settings.                *)
AppendResetCommands_Short ==
  [i \in 1 .. Len(Settings) - 1 |-> ResetCommand(Settings[i])]

ASSUME EmulationAssumption == Chosen \subseteq Range(Settings)

AppendResetCommands == [i \in DOMAIN Settings |-> ResetCommand(Settings[i])]

EmulationTypeOK ==
  /\ commands \in [Calls -> Seq(Range(Settings) \X BOOLEAN)]
  /\ overrides \in [Sessions -> SUBSET Range(Settings)]
  /\ alone \in [Calls -> BOOLEAN]

EmulationInit ==
  /\ commands = [c \in Calls |-> <<>>]
  /\ overrides = [s \in Sessions |-> {}]
  /\ alone = [c \in Calls |-> FALSE]

EmulatesIn(s) ==
  {c \in Calls : tool[c] \in {"emulation", "reset"} /\ tab[c] = s /\ Running(c)}

(* Call c arrives with this list of commands; an empty one is an error.    *)
Begin(c, t, s, list) ==
  /\ Execute(c, t, s, IF list = <<>> THEN "error" ELSE "setting")
  /\ commands' = [commands EXCEPT ![c] = list]
  /\ alone' = [d \in Calls |-> IF d = c THEN EmulatesIn(s) = {}
                               ELSE alone[d] /\ d \notin EmulatesIn(s)]
  /\ excuse' = [excuse EXCEPT ![c] = (list = <<>>)]
  /\ UNCHANGED overrides

(* What a call can ask for: some of the settings, in the order above.      *)
Ordered ==
  {list \in SeqOf(Chosen, Cardinality(Chosen)) :
     \A i, j \in DOMAIN list : i < j =>
       \E k, l \in DOMAIN Settings :
         k < l /\ list[i] = Settings[k] /\ list[j] = Settings[l]}

ExecuteEmulation(c, s) ==
  \E list \in Ordered :
    Begin(c, "emulation", s, [i \in DOMAIN list |-> SetCommand(list[i])])

ExecuteReset(c, s) == Begin(c, "reset", s, AppendResetCommands)

(* ... and the next command, if there is one.                              *)
OnCommandResponse(c) ==
  /\ tool[c] \in {"emulation", "reset"}
  /\ Waits(c)
  /\ \E response \in Responses(c) :
       LET command == Head(commands[c])
           setting == command[1]
       IN  /\ Answered(c, response,
                       IF Len(commands[c]) = 1 THEN "ok" ELSE "setting")
           /\ overrides' = [overrides EXCEPT ![tab[c]] =
                IF HasCdpError(response) THEN @
                ELSE IF command[2] THEN @ \cup {setting} ELSE @ \ {setting}]
  /\ commands' = [commands EXCEPT ![c] = Tail(@)]
  /\ UNCHANGED alone

EmulationNext ==
  \E c \in Calls :
    \/ \E s \in Sessions : ExecuteEmulation(c, s) \/ ExecuteReset(c, s)
    \/ OnCommandResponse(c)

-----------------------------------------------------------------------------
(* A reset takes back everything a call can have set, if none of its       *)
(* commands fails and no other call sets anything meanwhile.               *)
ResetLeavesNothing ==
  [][\A c \in Calls :
       (tool[c] = "reset" /\ alone[c] /\ Running(c) /\ at'[c] = "ok" /\ ~excuse'[c])
         => overrides'[tab[c]] = {}]_<<chainVars, emulationVars>>
=============================================================================

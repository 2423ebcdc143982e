----------------------------- MODULE CliConsole -----------------------------
(***************************************************************************)
(* The panes of the Redis console of a connection (CliConsole and          *)
(* MultiCliConsole): a command line with suggestions and recall, a warning *)
(* before a dangerous command, and requests that nothing aborts and that   *)
(* Enter sends even while others are on their way.                         *)
(*                                                                         *)
(* The commands and the starred ones kept in the browser are KeptLists'.   *)
(***************************************************************************)
EXTENDS Selection, Naturals

CONSTANTS
  Panes,      \* panes of the console: 4 in the code
  Commands,   \* command lines
  DANGEROUS,  \* those that the code's set of that name lists
  TwoWords,   \* of these, the ones it lists by two words: SCRIPT FLUSH, DEBUG SLEEP
  MaxSent     \* bound: requests of a pane on their way at once

ASSUME CommandsAssumption == None \notin Commands /\ DANGEROUS \subseteq Commands
ASSUME TwoWordsAssumption == TwoWords \subseteq DANGEROUS
ASSUME SentAssumption == MaxSent \in Nat

VARIABLES
  panes,            \* the panes open
  cliInput,         \* pane -> the command typed, or None
  suggestions,      \* pane -> are there suggestions, and is one highlighted
  pendingDangerous, \* pane -> the command warned of, or None
  sent,             \* pane -> how many of its commands are on their way
  cliLoading,       \* panes whose Run button is disabled
  warned,           \* history: pane -> what its last command warned of, or None
  unwarned          \* history: the dangerous commands that ran unwarned

cliPart ==
  <<panes, cliInput, suggestions, pendingDangerous, sent, cliLoading, warned, unwarned>>
cliVars == <<db, cliPart>>

CliTypeOK ==
  /\ db \in Databases /\ panes \subseteq Panes /\ panes # {}
  /\ cliInput \in [Panes -> Commands \cup {None}]
  /\ suggestions \in [Panes -> {"none", "listed", "highlighted"}]
  /\ pendingDangerous \in [Panes -> DANGEROUS \cup {None}]
  /\ sent \in [Panes -> 0 .. MaxSent]
  /\ warned \in [Panes -> DANGEROUS \cup {None}]
  /\ cliLoading \subseteq panes /\ unwarned \subseteq DANGEROUS

-----------------------------------------------------------------------------
CliInit ==
  /\ db \in Databases /\ \E p \in Panes : panes = {p}
  /\ cliInput = [p \in Panes |-> None] /\ suggestions = [p \in Panes |-> "none"]
  /\ pendingDangerous = [p \in Panes |-> None] /\ sent = [p \in Panes |-> 0]
  /\ cliLoading = {} /\ warned = [p \in Panes |-> None] /\ unwarned = {}

OthersStay == UNCHANGED <<db, panes, sent, cliLoading, pendingDangerous, warned, unwarned>>

(* A pane appears empty, and with it goes all it knew but its requests,     *)
(* which have no effect any more.                                           *)
addPane(p) ==
  /\ p \notin panes /\ panes' = panes \cup {p}
  /\ UNCHANGED <<db, cliInput, suggestions, pendingDangerous, sent, cliLoading, warned, unwarned>>

removePane(p) ==
  /\ p \in panes /\ panes # {p} /\ panes' = panes \ {p}
  /\ cliInput' = [cliInput EXCEPT ![p] = None]
  /\ suggestions' = [suggestions EXCEPT ![p] = "none"]
  /\ pendingDangerous' = [pendingDangerous EXCEPT ![p] = None]
  /\ warned' = [warned EXCEPT ![p] = None]
  /\ sent' = [sent EXCEPT ![p] = 0] /\ cliLoading' = cliLoading \ {p}
  /\ UNCHANGED <<db, unwarned>>

(* The panes print that the database was switched, and remember the command *)
(* they warned of.                                                          *)
PrintSwitch(d) == changeDb(d) /\ UNCHANGED cliPart

-----------------------------------------------------------------------------
(* The command line.                                                        *)
Line(p, c, s) ==
  /\ p \in panes /\ OthersStay
  /\ cliInput' = [cliInput EXCEPT ![p] = c]
  /\ suggestions' = [suggestions EXCEPT ![p] = s]

(* Suggestions are for up to two words of one line that a command begins with. *)
handleInputChange(p, c) ==
  /\ c # cliInput[p]
  /\ \E s \in {"none", "listed"} : (c = None => s = "none") /\ Line(p, c, s)

(* The keys: arrows walk through the suggestions or, when there are none,   *)
(* through the commands; Tab or Enter take a suggestion; Escape hides them. *)
WalkSuggestions(p) ==
  /\ suggestions[p] # "none"
  /\ \E s \in {"listed", "highlighted"} : Line(p, cliInput[p], s)

Recall(p, c) == suggestions[p] = "none" /\ Line(p, c, "none")

TakeSuggestion(p, c) == suggestions[p] # "none" /\ Line(p, c, "none")

HideSuggestions(p) == suggestions[p] # "none" /\ Line(p, cliInput[p], "none")

(* A command of the history or of the starred ones is clicked.              *)
selectCmd(p, c) == Line(p, c, suggestions[p])

-----------------------------------------------------------------------------
(* Running.  A dangerous command is warned of, and runs when it is the next *)
(* one submitted.  The first word alone is looked up, so what is listed by  *)
(* two words is not found.                                                  *)
Warns(p, c) == c \in DANGEROUS \ TwoWords /\ pendingDangerous[p] # c

Warn(p, c) ==
  /\ pendingDangerous' = [pendingDangerous EXCEPT ![p] = c]
  /\ warned' = [warned EXCEPT ![p] = c]
  /\ UNCHANGED <<sent, cliLoading, unwarned>>

Send(p, c) ==
  /\ sent[p] < MaxSent /\ sent' = [sent EXCEPT ![p] = @ + 1]
  /\ cliLoading' = cliLoading \cup {p}
  /\ warned' = [warned EXCEPT ![p] = None]
  /\ unwarned' = IF c \in DANGEROUS /\ warned[p] # c THEN unwarned \cup {c} ELSE unwarned

Run_KeepsThePending(p, c) == Send(p, c) /\ UNCHANGED pendingDangerous
Run(p, c) == Send(p, c) /\ pendingDangerous' = [pendingDangerous EXCEPT ![p] = None]

runCommand(p, c) == IF Warns(p, c) THEN Warn(p, c) ELSE Run(p, c)

(* By Enter, unless a suggestion is highlighted, or by the Run button.      *)
handleSubmit(p) ==
  /\ p \in panes /\ cliInput[p] # None
  /\ suggestions[p] = "highlighted" => p \notin cliLoading
  /\ cliInput' = [cliInput EXCEPT ![p] = None]
  /\ suggestions' = [suggestions EXCEPT ![p] = "none"]
  /\ runCommand(p, cliInput[p]) /\ UNCHANGED <<db, panes>>

(* The answer, of whichever request comes first, enables the Run button.    *)
CommandAnswer(p) ==
  /\ sent[p] > 0 /\ sent' = [sent EXCEPT ![p] = @ - 1]
  /\ cliLoading' = cliLoading \ {p}
  /\ UNCHANGED <<db, panes, cliInput, suggestions, pendingDangerous, warned, unwarned>>

CliNext ==
  \/ \E d \in Databases \ {db} : PrintSwitch(d)
  \/ \E p \in Panes :
       \/ addPane(p) \/ removePane(p) \/ handleSubmit(p) \/ CommandAnswer(p)
       \/ WalkSuggestions(p) \/ HideSuggestions(p)
       \/ \E c \in Commands \cup {None} : handleInputChange(p, c)
       \/ \E c \in Commands :
            Recall(p, c) \/ TakeSuggestion(p, c) \/ selectCmd(p, c)

CliSpec == CliInit /\ [][CliNext]_cliVars

-----------------------------------------------------------------------------
(* A dangerous command is sent to Redis only if the command submitted in    *)
(* the same pane right before it was the same one and was answered by its   *)
(* warning: every run needs a warning of its own.  The commands listed by   *)
(* two words never get one, although GUIDE.md:105, SECURITY.md:56-57 and    *)
(* FEATURES.md:90 name SCRIPT FLUSH among those to be confirmed (the code:  *)
(* CliConsole.tsx:397, 574-576).                                            *)
RunsOnlyWhatItWarnedOf == unwarned \subseteq TwoWords
=============================================================================

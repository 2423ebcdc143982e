--------------------------- MODULE KeyspaceStream ---------------------------
(***************************************************************************)
(* The Notifications tab of one connection (KeyspaceView.tsx): whether     *)
(* Redis sends notifications at all, and the stream of those of the        *)
(* selected database (KeyspaceService).  It does not reconnect.            *)
(*                                                                         *)
(* Answers of checks are shown in the order they come in.  A registration  *)
(* that is awaited opens its stream whatever has happened meanwhile.       *)
(***************************************************************************)
EXTENDS Selection

CONSTANTS
  Streams,  \* calls of startStream, each with its EventSource
  Checks    \* checks that may be on their way at once

ASSUME NoStreamAssumption == None \notin Streams /\ None \notin Checks
ASSUME NoStateAssumption ==
  /\ None \notin {"asked", "set", "checking", "ok", "disabled", "error"}
  /\ "asked" \notin Checks /\ "set" \notin Checks

VARIABLES
  present,  \* the tab's component is on the page
  config,   \* notify-keyspace-events of the server is not empty
  status,   \* configStatus
  check,    \* check -> None, asked, or the status it will set
  enable,   \* enableNotifications: None, asked, set, or the check it awaits
  running,  \* its running flag: the button says Stop
  es,       \* esRef: the stream the component knows of, or None
  phase,    \* stream -> what has become of it
  from,     \* stream -> the database of the connection it was started with
  raced,    \* history: stopped while a registration was awaited
  astray    \* history: see StatusIsTrue

configPart == <<config, status, check, enable, astray>>
streamPart == <<running, es, phase, from, raced>>
keyspacePart == <<present, configPart, streamPart>>
keyspaceVars == <<db, keyspacePart>>

Statuses == {"checking", "ok", "disabled", "error"}

(* ended, refused: over, and the page has not heard of it yet; connecting:  *)
(* the browser will ask again; closing: closed, and the worker has not      *)
(* noticed yet.                                                             *)
Phases == {"none", "registering", "asked", "open", "ended", "refused", "connecting", "closing"}

KeyspaceTypeOK ==
  /\ db \in Databases /\ present \in BOOLEAN
  /\ config \in BOOLEAN /\ status \in Statuses
  /\ check \in [Checks -> {None, "asked", "ok", "disabled", "error"}]
  /\ enable \in {None, "asked", "set"} \cup Checks
  /\ running \in BOOLEAN /\ es \in Streams \cup {None}
  /\ phase \in [Streams -> Phases] /\ from \in [Streams -> Databases \cup {None}]
  /\ raced \in BOOLEAN /\ astray \in BOOLEAN

KeyspaceInit ==
  /\ db \in Databases /\ present = FALSE
  /\ config \in BOOLEAN /\ status = "checking"
  /\ check = [c \in Checks |-> None] /\ enable = None
  /\ running = FALSE /\ es = None
  /\ phase = [s \in Streams |-> "none"] /\ from = [s \in Streams |-> None]
  /\ raced = FALSE /\ astray = FALSE

-----------------------------------------------------------------------------
(* The component's own helpers.                                             *)

checkConfig(c) ==
  /\ check[c] = None
  /\ check' = [check EXCEPT ![c] = "asked"]
  /\ astray' = \E x \in Checks : check[x] # None

Live(s) == phase[s] \in {"asked", "open", "ended", "refused", "connecting"}
Closed(p) == IF p \in {"asked", "open"} THEN "closing" ELSE "none"

(* A stream's database is of no interest any more when it is closed.        *)
Kept(phases) == [s \in Streams |-> IF phases[s] \in {"none", "closing"} THEN None ELSE from[s]]

(* stopStream, which closes the stream of esRef, whoever calls.             *)
stopStream(phases) ==
  /\ phase' = [s \in Streams |-> IF s = es THEN Closed(phases[s]) ELSE phases[s]]
  /\ es' = None /\ running' = FALSE
  /\ raced' = (raced \/ \E s \in Streams : phase[s] = "registering")
  /\ from' = Kept(phase')

-----------------------------------------------------------------------------
(* The effect, which runs at first and whenever the connection object       *)
(* changes, the database's number or not.                                   *)

Appear(c) ==
  /\ ~present /\ present' = TRUE
  /\ checkConfig(c)
  /\ UNCHANGED <<db, config, status, enable, streamPart>>

Reselect_KeepsListening(c, d) ==
  /\ present /\ changeDb(d)
  /\ status' = "checking" /\ checkConfig(c)
  /\ UNCHANGED <<present, config, enable, streamPart>>

Reselect(c, d) ==
  /\ present /\ changeDb(d)
  /\ stopStream(phase)
  /\ status' = "checking" /\ checkConfig(c)
  /\ UNCHANGED <<present, config, enable>>

(* The connection is removed; what is still to come for its check has no    *)
(* effect any more.  Another one's component starts afresh.                 *)
Disappear ==
  /\ present /\ present' = FALSE
  /\ stopStream(phase)
  /\ status' = "checking"
  /\ check' = [c \in Checks |-> None] /\ enable' = None
  /\ UNCHANGED <<db, config, astray>>

-----------------------------------------------------------------------------
(* The configuration of the server.                                         *)

RefreshStatus(c) ==
  /\ present /\ status # "checking"
  /\ checkConfig(c)
  /\ UNCHANGED <<db, present, config, status, enable, streamPart>>

Truth == IF config THEN "ok" ELSE "disabled"

CheckBecomes(c, answer) ==
  /\ check[c] = "asked"
  /\ check' = [check EXCEPT ![c] = answer]
  /\ UNCHANGED <<db, present, config, status, enable, streamPart>>

keyspaceCheck_UnknownStatus(c) ==
  CheckBecomes(c, IF config THEN "enabled" ELSE "disabled") /\ UNCHANGED astray

keyspaceCheck(c) == CheckBecomes(c, Truth) /\ UNCHANGED astray

(* Redis refuses CONFIG GET or cannot be reached: executeCommand answers    *)
(* with an error that keyspaceCheck does not look at.                       *)
CheckUnreadable(c) == CheckBecomes(c, "disabled") /\ astray' = TRUE

(* The backend cannot be reached.                                           *)
CheckLost(c) == CheckBecomes(c, "error") /\ UNCHANGED astray

CheckAnswer(c) ==
  /\ check[c] \in Statuses
  /\ status' = check[c]
  /\ check' = [check EXCEPT ![c] = None]
  /\ enable' = IF enable = c THEN None ELSE enable
  /\ UNCHANGED <<db, present, config, astray, streamPart>>

enableNotifications ==
  /\ present /\ status = "disabled" /\ enable = None
  /\ enable' = "asked"
  /\ UNCHANGED <<db, present, config, status, check, astray, streamPart>>

keyspaceEnable ==
  /\ enable = "asked" /\ enable' = "set"
  /\ config' = TRUE
  /\ UNCHANGED <<db, present, status, check, astray, streamPart>>

EnableAnswer_WithoutCheck(c) ==
  /\ enable = "set" /\ enable' = None
  /\ UNCHANGED <<db, present, config, status, check, astray, streamPart>>

EnableAnswer(c) ==
  /\ enable = "set" /\ enable' = c
  /\ checkConfig(c)
  /\ UNCHANGED <<db, present, config, status, streamPart>>

(* Refused, or its answer lost.                                             *)
EnableFails ==
  /\ enable \in {"asked", "set"} /\ enable' = None
  /\ astray' = (astray \/ enable = "set")
  /\ UNCHANGED <<db, present, config, status, check, streamPart>>

ConfigChangesElsewhere ==
  /\ config' = ~config /\ astray' = TRUE
  /\ UNCHANGED <<db, present, status, check, enable, streamPart>>

-----------------------------------------------------------------------------
(* The stream.                                                              *)

(* Start, up to the await.                                                  *)
startStream(s) ==
  /\ present /\ ~running /\ status # "checking"
  /\ phase[s] = "none"
  /\ running' = TRUE
  /\ phase' = [phase EXCEPT ![s] = "registering"]
  /\ from' = [from EXCEPT ![s] = db]
  /\ UNCHANGED <<db, present, configPart, es, raced>>

ClickStop ==
  /\ present /\ running
  /\ stopStream(phase)
  /\ UNCHANGED <<db, present, configPart>>

RegisterOk(s) ==
  /\ phase[s] = "registering"
  /\ phase' = [phase EXCEPT ![s] = "asked"] /\ es' = s
  /\ UNCHANGED <<db, present, configPart, running, from, raced>>

(* The catch: the running flag, and no stream, whoever has one by now.      *)
RegisterFails(s) ==
  /\ phase[s] = "registering"
  /\ phase' = [phase EXCEPT ![s] = "none"] /\ running' = FALSE
  /\ from' = Kept(phase')
  /\ UNCHANGED <<db, present, configPart, es, raced>>

(* onerror: a response that ended leaves the EventSource connecting, an     *)
(* HTTP error closed.                                                       *)
OnError(s) ==
  /\ \E p \in {"connecting", "none"} :
       /\ phase[s] = IF p = "connecting" THEN "ended" ELSE "refused"
       /\ stopStream([phase EXCEPT ![s] = p])
  /\ UNCHANGED <<db, present, configPart>>

Becomes(s, old, new) ==
  /\ phase[s] \in old /\ phase' = [phase EXCEPT ![s] = new]
  /\ UNCHANGED <<db, present, configPart, running, es, from, raced>>

(* An EventSource left connecting asks again by itself.                     *)
BrowserRetry(s) == Becomes(s, {"connecting"}, "asked")

(* startListen throws before it has a worker: no SSH tunnel.                *)
ListenRefused(s) == Becomes(s, {"asked"}, "refused")

(* The worker has subscribed.  From here on the client library reconnects   *)
(* to a Redis that goes away.                                               *)
ListenStarts(s) == Becomes(s, {"asked"}, "open")

(* A cluster, Redis not reached, or a token that is no longer known (the    *)
(* page does not listen for keyspace-error, but the response ends); or the  *)
(* network or the backend goes.                                             *)
ListenEnds(s) == Becomes(s, {"asked", "open"}, "ended")

(* A ping fails.                                                            *)
ListenNoticesClose(s) == Becomes(s, {"closing"}, "none")

-----------------------------------------------------------------------------
KeyspaceNext ==
  \/ Disappear \/ ConfigChangesElsewhere
  \/ enableNotifications \/ keyspaceEnable \/ EnableFails
  \/ \E c \in Checks :
       \/ Appear(c) \/ RefreshStatus(c) \/ EnableAnswer(c)
       \/ keyspaceCheck(c) \/ CheckUnreadable(c) \/ CheckLost(c) \/ CheckAnswer(c)
       \/ \E d \in Databases : Reselect(c, d)
  \/ ClickStop
  \/ \E s \in Streams :
       \/ startStream(s) \/ RegisterOk(s) \/ RegisterFails(s) \/ OnError(s)
       \/ BrowserRetry(s) \/ ListenRefused(s) \/ ListenStarts(s) \/ ListenEnds(s)
       \/ ListenNoticesClose(s)

KeyspaceSpec == KeyspaceInit /\ [][KeyspaceNext]_keyspaceVars

-----------------------------------------------------------------------------
(* "Monitors real-time key changes for DB n": unless it was stopped while a *)
(* registration was awaited, every stream there is, or will be, is the one  *)
(* running listener's, and of the database selected.                        *)
ListensToTheDatabase ==
  ~raced =>
    /\ \A s \in Streams : Live(s) => s = es
    /\ \A s \in Streams : Live(s) \/ phase[s] = "registering" => running /\ from[s] = db
    /\ running => \E s \in Streams : Live(s) \/ phase[s] = "registering"
    /\ \A s, x \in Streams : phase[s] = "registering" => ~Live(x)

(* With nothing on its way, the status shown is the server's: also after    *)
(* Enable, although that asks and then checks while the user may refresh    *)
(* and switch.  Where it may be wrong (astray, until a check that is alone):*)
(* somebody else has changed the configuration, the server could not be     *)
(* asked, the answer of Enable was lost, or two checks overlapped, for      *)
(* their answers may come in either order.                                  *)
StatusIsTrue ==
  present /\ ~astray /\ enable = None /\ (\A c \in Checks : check[c] = None)
    => status \in {Truth, "error"}
=============================================================================

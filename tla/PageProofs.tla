----------------------------- MODULE PageProofs -----------------------------
(***************************************************************************)
(* Proofs about the page, for any numbers of databases, streams, panes and *)
(* requests: the Notifications tab listens to the selected database and    *)
(* shows the server's status, the dashboard shows statistics of that       *)
(* database, the console runs a dangerous command only after its own       *)
(* warning, the form adds the connection that it shows, the list of        *)
(* connections keeps it, secret included, the table of an analysis shows   *)
(* its rows, and the comparison of two texts leaves as many lines the same *)
(* as can be.  At the end, all of this at once, for the page as a whole.   *)
(***************************************************************************)
EXTENDS MCPage, ListProofs

-----------------------------------------------------------------------------
(* The type invariant.                                                      *)

LEMMA StopTypes ==
  ASSUME KeyspaceTypeOK, NEW phases \in [Streams -> Phases], stopStream(phases)
  PROVE  /\ phase' \in [Streams -> Phases] /\ from' \in [Streams -> Databases \cup {None}]
         /\ es' \in Streams \cup {None} /\ running' \in BOOLEAN /\ raced' \in BOOLEAN
<1>1. \A p \in Phases : Closed(p) \in Phases
  BY DEF Closed, Phases
<1>2. phase' \in [Streams -> Phases]
  BY <1>1 DEF stopStream
<1>3. from' \in [Streams -> Databases \cup {None}]
  BY DEF stopStream, Kept, KeyspaceTypeOK
<1>4. raced' \in BOOLEAN
  <2>1. (\E s \in Streams : phase[s] = "registering") \in BOOLEAN
    OBVIOUS
  <2> QED BY <2>1 DEF stopStream, KeyspaceTypeOK
<1> QED BY <1>2, <1>3, <1>4 DEF stopStream

LEMMA CheckTypes ==
  ASSUME KeyspaceTypeOK, NEW c \in Checks, checkConfig(c)
  PROVE  check' \in [Checks -> {None, "asked", "ok", "disabled", "error"}] /\ astray' \in BOOLEAN
<1>1. (\E x \in Checks : check[x] # None) \in BOOLEAN
  OBVIOUS
<1> QED BY <1>1 DEF checkConfig, KeyspaceTypeOK

LEMMA TypeStep == KeyspaceTypeOK /\ [KeyspaceNext]_keyspaceVars => KeyspaceTypeOK'
<1> SUFFICES ASSUME KeyspaceTypeOK, [KeyspaceNext]_keyspaceVars PROVE KeyspaceTypeOK'
  OBVIOUS
<1> USE DEF KeyspaceTypeOK
<1>1. CASE Disappear
  BY <1>1, StopTypes DEF Disappear, Statuses
<1>2. CASE ConfigChangesElsewhere
  BY <1>2 DEF ConfigChangesElsewhere, streamPart
<1>3. CASE enableNotifications \/ keyspaceEnable
  BY <1>3 DEF enableNotifications, keyspaceEnable, streamPart
<1>4. CASE EnableFails
  <2>1. (enable = "set") \in BOOLEAN
    OBVIOUS
  <2> QED BY <1>4, <2>1 DEF EnableFails, streamPart
<1>5. ASSUME NEW c \in Checks, Appear(c) \/ RefreshStatus(c) \/ EnableAnswer(c)
      PROVE  KeyspaceTypeOK'
  BY <1>5, CheckTypes DEF Appear, RefreshStatus, EnableAnswer, streamPart
<1>6. ASSUME NEW c \in Checks, keyspaceCheck(c) \/ CheckUnreadable(c) \/ CheckLost(c)
      PROVE  KeyspaceTypeOK'
  <2>1. Truth \in {"ok", "disabled"}
    BY DEF Truth
  <2> QED BY <1>6, <2>1 DEF keyspaceCheck, CheckUnreadable, CheckLost, CheckBecomes, streamPart
<1>7. ASSUME NEW c \in Checks, CheckAnswer(c) PROVE KeyspaceTypeOK'
  BY <1>7 DEF CheckAnswer, streamPart
<1>8. ASSUME NEW c \in Checks, NEW d \in Databases, Reselect(c, d) PROVE KeyspaceTypeOK'
  BY <1>8, StopTypes, CheckTypes DEF Reselect, changeDb, Statuses
<1>9. CASE ClickStop
  BY <1>9, StopTypes DEF ClickStop, configPart
<1>10. ASSUME NEW s \in Streams, startStream(s) \/ RegisterOk(s) \/ RegisterFails(s)
       PROVE  KeyspaceTypeOK'
  <2>1. {"none", "registering", "asked"} \subseteq Phases
    BY DEF Phases
  <2> QED BY <1>10, <2>1 DEF startStream, RegisterOk, RegisterFails, Kept, configPart
<1>11. ASSUME NEW s \in Streams, OnError(s) PROVE KeyspaceTypeOK'
  <2>1. PICK p \in {"connecting", "none"} : stopStream([phase EXCEPT ![s] = p])
    BY <1>11 DEF OnError
  <2>2. [phase EXCEPT ![s] = p] \in [Streams -> Phases]
    BY DEF Phases
  <2> QED BY <1>11, <2>1, <2>2, StopTypes DEF OnError, configPart
<1>12. ASSUME NEW s \in Streams,
              BrowserRetry(s) \/ ListenRefused(s) \/ ListenStarts(s) \/ ListenEnds(s)
                \/ ListenNoticesClose(s)
       PROVE  KeyspaceTypeOK'
  BY <1>12 DEF BrowserRetry, ListenRefused, ListenStarts, ListenEnds, ListenNoticesClose, Becomes,
               Phases, configPart
<1>13. CASE UNCHANGED keyspaceVars
  BY <1>13 DEF keyspaceVars, keyspacePart, configPart, streamPart
<1> QED BY <1>1, <1>2, <1>3, <1>4, <1>5, <1>6, <1>7, <1>8, <1>9, <1>10, <1>11, <1>12, <1>13
        DEF KeyspaceNext

(* Every variable of the tab keeps its type: the status is one the page     *)
(* knows, and the events of a stream are those of a database.               *)
THEOREM TypeCorrect == KeyspaceSpec => []KeyspaceTypeOK
<1>1. KeyspaceInit => KeyspaceTypeOK
  BY DEF KeyspaceInit, KeyspaceTypeOK, Statuses, Phases
<1> QED BY <1>1, TypeStep, PTL DEF KeyspaceSpec

-----------------------------------------------------------------------------
(* The status.  With no exception at most one check is on its way; what it  *)
(* has read is still true, and so is what is shown when there is none,      *)
(* unless Enable has changed the setting and is not yet answered.           *)

OneCheck == ~astray => \A c, x \in Checks : check[c] # None /\ check[x] # None => c = x

ReadTruly ==
  ~astray /\ enable # "set" =>
    \A c \in Checks : check[c] \in Statuses => check[c] \in {Truth, "error"}

ShownTruly ==
  present /\ ~astray /\ enable # "set" /\ (\A c \in Checks : check[c] = None)
    => status \in {Truth, "error"}

StatusInv == OneCheck /\ ReadTruly /\ ShownTruly

LEMMA StatusInit == KeyspaceInit => StatusInv
BY NoStateAssumption DEF KeyspaceInit, StatusInv, OneCheck, ReadTruly, ShownTruly, Statuses

(* A check that is sent is the only one, or astray.                         *)
LEMMA SendingIsSafe ==
  ASSUME KeyspaceTypeOK, NEW c \in Checks, checkConfig(c) PROVE StatusInv'
<1>1. check' = [check EXCEPT ![c] = "asked"] /\ (astray' <=> \E x \in Checks : check[x] # None)
  BY DEF checkConfig
<1>2. check'[c] = "asked" /\ "asked" # None /\ "asked" \notin Statuses
  BY <1>1, NoStateAssumption DEF KeyspaceTypeOK, Statuses
<1>3. ~astray' => \A x \in Checks : x # c => check'[x] = None
  BY <1>1 DEF KeyspaceTypeOK
<1>4. None \notin Statuses
  BY NoStateAssumption DEF Statuses
<1> QED BY <1>2, <1>3, <1>4 DEF StatusInv, OneCheck, ReadTruly, ShownTruly

LEMMA StatusStep ==
  KeyspaceTypeOK /\ StatusInv /\ [KeyspaceNext]_keyspaceVars => StatusInv'
<1> SUFFICES ASSUME KeyspaceTypeOK, StatusInv, [KeyspaceNext]_keyspaceVars PROVE StatusInv'
  OBVIOUS
<1> USE DEF StatusInv, OneCheck, ReadTruly, ShownTruly, Truth
<1>1. CASE Disappear
  BY <1>1, NoStateAssumption DEF Disappear, KeyspaceTypeOK, Statuses
<1>2. CASE ConfigChangesElsewhere
  BY <1>2 DEF ConfigChangesElsewhere
<1>3. CASE enableNotifications \/ keyspaceEnable
  BY <1>3, NoStateAssumption DEF enableNotifications, keyspaceEnable, streamPart
<1>4. CASE EnableFails
  BY <1>4, NoStateAssumption DEF EnableFails, streamPart, KeyspaceTypeOK
<1>5. ASSUME NEW c \in Checks, Appear(c) \/ RefreshStatus(c) \/ EnableAnswer(c)
      PROVE  StatusInv'
  BY <1>5, SendingIsSafe DEF Appear, RefreshStatus, EnableAnswer
<1>6. ASSUME NEW c \in Checks, keyspaceCheck(c) \/ CheckUnreadable(c) \/ CheckLost(c)
      PROVE  StatusInv'
  BY <1>6, NoStateAssumption
  DEF keyspaceCheck, CheckUnreadable, CheckLost, CheckBecomes, streamPart, KeyspaceTypeOK, Statuses
<1>7. ASSUME NEW c \in Checks, CheckAnswer(c) PROVE StatusInv'
  <2>1. check[c] \in Statuses /\ check[c] # None /\ status' = check[c]
    BY <1>7, NoStateAssumption DEF CheckAnswer, Statuses
  <2>2. /\ check' = [check EXCEPT ![c] = None]
        /\ UNCHANGED <<present, config, astray>>
        /\ enable' # "set" => enable # "set"
    BY <1>7, NoStateAssumption DEF CheckAnswer
  <2> QED BY <2>1, <2>2, NoStateAssumption DEF KeyspaceTypeOK, Statuses
<1>8. ASSUME NEW c \in Checks, NEW d \in Databases, Reselect(c, d) PROVE StatusInv'
  BY <1>8, SendingIsSafe DEF Reselect
<1>9. CASE UNCHANGED <<present, configPart>>
  BY <1>9 DEF configPart
<1>10. ASSUME NEW s \in Streams PROVE
       startStream(s) \/ RegisterOk(s) \/ RegisterFails(s) \/ OnError(s) \/ BrowserRetry(s)
         \/ ListenRefused(s) \/ ListenStarts(s) \/ ListenEnds(s) \/ ListenNoticesClose(s)
         => UNCHANGED <<present, configPart>>
  BY DEF startStream, RegisterOk, RegisterFails, OnError, BrowserRetry, ListenRefused, ListenStarts,
         ListenEnds, ListenNoticesClose, Becomes
<1>11. ClickStop \/ UNCHANGED keyspaceVars => UNCHANGED <<present, configPart>>
  BY DEF ClickStop, keyspaceVars, keyspacePart
<1> QED BY <1>1, <1>2, <1>3, <1>4, <1>5, <1>6, <1>7, <1>8, <1>9, <1>10, <1>11 DEF KeyspaceNext

LEMMA StatusShows == StatusInv => StatusIsTrue
<1> SUFFICES ASSUME StatusInv, enable = None PROVE enable # "set"
  BY DEF StatusInv, ShownTruly, StatusIsTrue
<1> QED BY NoStateAssumption

(* "Currently enabled" and "disabled" tell the truth, but for what astray   *)
(* names, however the user refreshes, enables and switches.                 *)
THEOREM ShowsTheServersStatus == KeyspaceSpec => []StatusIsTrue
<1>1. StatusInv => StatusIsTrue
  BY StatusShows
<1> QED BY <1>1, StatusInit, StatusStep, TypeCorrect, PTL DEF KeyspaceSpec

-----------------------------------------------------------------------------
(* The stream.  ListensToTheDatabase as it stands does not say that at most *)
(* one registration is awaited, without which a second one could open a     *)
(* stream beside the first.                                                 *)

Active(s) == Live(s) \/ phase[s] = "registering"

OneActive ==
  ~raced =>
    /\ \A s, x \in Streams : Active(s) /\ Active(x) => s = x
    /\ \A s \in Streams : Live(s) => s = es
    /\ \A s \in Streams : Active(s) => running /\ from[s] = db
    /\ running => \E s \in Streams : Active(s)

LEMMA ActiveInit == KeyspaceInit => OneActive
BY DEF KeyspaceInit, OneActive, Active, Live

(* stopStream, if no registration is awaited, leaves nothing.               *)
LEMMA StopLeavesNothing ==
  ASSUME KeyspaceTypeOK, OneActive, NEW phases \in [Streams -> Phases], stopStream(phases), ~raced',
         \A s \in Streams : s = es \/ phases[s] = phase[s]
  PROVE  ~running' /\ \A s \in Streams : ~Active(s)'
<1>1. ~raced /\ ~running' /\ \A s \in Streams : phase[s] # "registering"
  BY DEF stopStream, KeyspaceTypeOK
<1>2. ASSUME NEW s \in Streams PROVE ~Active(s)'
  <2>1. phase'[s] = IF s = es THEN Closed(phases[s]) ELSE phases[s]
    BY DEF stopStream
  <2>2. CASE s = es
    BY <2>1, <2>2 DEF Active, Live, Closed
  <2>3. CASE s # es
    <3>1. phase'[s] = phase[s] /\ ~Active(s)
      BY <1>1, <2>1, <2>3 DEF OneActive, Active
    <3> QED BY <3>1 DEF Active, Live
  <2> QED BY <2>2, <2>3
<1> QED BY <1>1, <1>2

LEMMA NothingIsSafe ==
  ASSUME ~raced' => ~running' /\ \A s \in Streams : ~Active(s)' PROVE OneActive'
BY DEF OneActive, Active

(* A step of one stream that stays what it is to the page.                  *)
LEMMA SameActive ==
  ASSUME KeyspaceTypeOK, OneActive, NEW s \in Streams, NEW p \in Phases,
         phase' = [phase EXCEPT ![s] = p], UNCHANGED <<db, running, es, from, raced>>,
         \/ Live(s) /\ p \in {"asked", "open", "ended", "refused"}
         \/ phase[s] = "closing" /\ p = "none"
  PROVE  OneActive'
<1>1. \A x \in Streams : (Live(x)' <=> Live(x)) /\ (Active(x)' <=> Active(x))
  BY DEF KeyspaceTypeOK, Live, Active
<1> QED BY <1>1 DEF OneActive

LEMMA ActiveStep ==
  KeyspaceTypeOK /\ OneActive /\ [KeyspaceNext]_keyspaceVars => OneActive'
<1> SUFFICES ASSUME KeyspaceTypeOK, OneActive, [KeyspaceNext]_keyspaceVars PROVE OneActive'
  OBVIOUS
<1>1. ASSUME stopStream(phase) PROVE OneActive'
  <2>1. phase \in [Streams -> Phases]
    BY DEF KeyspaceTypeOK
  <2> QED BY <1>1, <2>1, StopLeavesNothing, NothingIsSafe
<1>2. CASE Disappear \/ ClickStop \/ \E c \in Checks, d \in Databases : Reselect(c, d)
  BY <1>1, <1>2 DEF Disappear, ClickStop, Reselect
<1>3. CASE UNCHANGED <<db, streamPart>>
  BY <1>3 DEF streamPart, OneActive, Active, Live
<1>4. /\ ConfigChangesElsewhere \/ enableNotifications \/ keyspaceEnable \/ EnableFails
           => UNCHANGED <<db, streamPart>>
      /\ \A c \in Checks :
           Appear(c) \/ RefreshStatus(c) \/ EnableAnswer(c) \/ keyspaceCheck(c)
             \/ CheckUnreadable(c) \/ CheckLost(c) \/ CheckAnswer(c) => UNCHANGED <<db, streamPart>>
      /\ UNCHANGED keyspaceVars => UNCHANGED <<db, streamPart>>
  BY DEF ConfigChangesElsewhere, enableNotifications, keyspaceEnable, EnableFails, Appear,
         RefreshStatus, EnableAnswer, keyspaceCheck, CheckUnreadable, CheckLost, CheckBecomes,
         CheckAnswer, keyspaceVars, keyspacePart
<1>5. ASSUME NEW s \in Streams, startStream(s) PROVE OneActive'
  <2> SUFFICES ASSUME ~raced' PROVE OneActive'
    BY DEF OneActive
  <2>1. \A x \in Streams : ~Active(x)
    BY <1>5 DEF startStream, OneActive
  <2>2. /\ phase' = [phase EXCEPT ![s] = "registering"] /\ from' = [from EXCEPT ![s] = db]
        /\ running' /\ UNCHANGED <<db, es>>
    BY <1>5 DEF startStream
  <2>3. \A x \in Streams : ~Live(x)' /\ (Active(x)' <=> x = s)
    BY <2>1, <2>2 DEF KeyspaceTypeOK, Active, Live
  <2> QED BY <2>2, <2>3 DEF KeyspaceTypeOK, OneActive
<1>6. ASSUME NEW s \in Streams, RegisterOk(s) PROVE OneActive'
  <2> SUFFICES ASSUME ~raced' PROVE OneActive'
    BY DEF OneActive
  <2>1. Active(s) /\ ~raced /\ phase' = [phase EXCEPT ![s] = "asked"] /\ es' = s
        /\ UNCHANGED <<db, running, from>>
    BY <1>6 DEF RegisterOk, Active
  <2>2. \A x \in Streams : (Active(x)' <=> x = s) /\ (Live(x)' <=> x = s)
    BY <2>1 DEF KeyspaceTypeOK, OneActive, Active, Live
  <2> QED BY <2>1, <2>2 DEF OneActive
<1>7. ASSUME NEW s \in Streams, RegisterFails(s) PROVE OneActive'
  <2> SUFFICES ASSUME ~raced' PROVE ~running' /\ \A x \in Streams : ~Active(x)'
    BY NothingIsSafe
  <2>1. Active(s) /\ ~raced /\ phase' = [phase EXCEPT ![s] = "none"] /\ ~running'
    BY <1>7 DEF RegisterFails, Active
  <2> QED BY <2>1 DEF KeyspaceTypeOK, OneActive, Active, Live
<1>8. ASSUME NEW s \in Streams, OnError(s) PROVE OneActive'
  <2>1. PICK p \in {"connecting", "none"} :
          stopStream([phase EXCEPT ![s] = p]) /\ Live(s)
    BY <1>8 DEF OnError, Live
  <2>2. [phase EXCEPT ![s] = p] \in [Streams -> Phases]
    BY DEF KeyspaceTypeOK, Phases
  <2> SUFFICES ASSUME ~raced' PROVE ~running' /\ \A x \in Streams : ~Active(x)'
    BY NothingIsSafe
  <2>3. s = es
    BY <2>1 DEF stopStream, KeyspaceTypeOK, OneActive
  <2>4. \A x \in Streams : x = es \/ [phase EXCEPT ![s] = p][x] = phase[x]
    BY <2>3 DEF KeyspaceTypeOK
  <2> QED BY <2>1, <2>2, <2>4, StopLeavesNothing
<1>9. ASSUME NEW s \in Streams,
             BrowserRetry(s) \/ ListenRefused(s) \/ ListenStarts(s) \/ ListenEnds(s)
               \/ ListenNoticesClose(s)
      PROVE  OneActive'
  <2>1. PICK q \in Phases :
          /\ phase' = [phase EXCEPT ![s] = q]
          /\ \/ Live(s) /\ q \in {"asked", "open", "ended", "refused"}
             \/ phase[s] = "closing" /\ q = "none"
    BY <1>9 DEF BrowserRetry, ListenRefused, ListenStarts, ListenEnds, ListenNoticesClose, Becomes,
                Phases, Live
  <2>2. UNCHANGED <<db, running, es, from, raced>>
    BY <1>9 DEF BrowserRetry, ListenRefused, ListenStarts, ListenEnds, ListenNoticesClose, Becomes
  <2> QED BY <2>1, <2>2, SameActive
<1> QED BY <1>2, <1>3, <1>4, <1>5, <1>6, <1>7, <1>8, <1>9 DEF KeyspaceNext

LEMMA ActiveShows == OneActive => ListensToTheDatabase
BY DEF OneActive, ListensToTheDatabase, Active, Live

(* "Monitors real-time key changes for DB n", and nothing after Stop or a   *)
(* switch, unless it was stopped during a registration.                     *)
THEOREM ListensToTheSelected == KeyspaceSpec => []ListensToTheDatabase
<1>1. OneActive => ListensToTheDatabase
  BY ActiveShows
<1> QED BY <1>1, ActiveInit, ActiveStep, TypeCorrect, PTL DEF KeyspaceSpec

-----------------------------------------------------------------------------
(* The dashboard.  Statistics are shown by the answer of a fetch or of a    *)
(* refresh: a fetch is always of the database selected, since a switch      *)
(* aborts the one before; a refresh is unless it was left behind.           *)

Of(r, what) == Under(r, what) => request[r].db = db

StatsInv ==
  /\ request = [r \in Requests |-> request[r]]
  /\ StatsOfTheDatabase
  /\ \A r \in Requests : Of(r, "fetch")
  /\ "refresh" \notin late => \A r \in Requests : Of(r, "refresh")

(* A request is sent for the database selected, answered or forgotten.      *)
LEMMA SendKeeps ==
  ASSUME StatsInv, NEW r \in Requests, NEW what \in {"fetch"} \cup Lasting, NEW d,
         what \in {"fetch", "refresh"} => d = db,
         request' = With(request, r, what, d) \/ request' = With(Without("health"), r, what, d),
         UNCHANGED <<db, stats, late>>
  PROVE  StatsInv'
<1>1. \A q \in Requests : q # r => request'[q] \in {request[q], None}
  BY DEF With, Without, StatsInv
<1>2. request'[r] = [kind |-> what, db |-> d] /\ request' = [q \in Requests |-> request'[q]]
  BY DEF With, Without, StatsInv
<1>3. ASSUME NEW k \in {"fetch", "refresh"}, \A q \in Requests : Of(q, k)
      PROVE  \A q \in Requests : Of(q, k)'
  BY <1>1, <1>2, <1>3 DEF Of, Under, Free
<1> QED BY <1>2, <1>3 DEF StatsInv, StatsOfTheDatabase

LEMMA ForgetKeeps ==
  ASSUME StatsInv, NEW r \in Requests, request' = [request EXCEPT ![r] = None],
         stats' \in {stats, None}
            \/ ((Under(r, "fetch") \/ Under(r, "refresh")) /\ stats' = request[r].db),
         UNCHANGED <<db, late>>
  PROVE  StatsInv'
<1>1. \A q \in Requests : request'[q] = IF q = r THEN None ELSE request[q]
  BY DEF StatsInv
<1>2. \A k \in {"fetch", "refresh"} : (\A q \in Requests : Of(q, k)) => \A q \in Requests : Of(q, k)'
  BY <1>1 DEF Of, Under, Free
<1>3. StatsOfTheDatabase'
  BY DEF StatsInv, StatsOfTheDatabase, Of
<1>4. request' = [q \in Requests |-> request'[q]]
  BY DEF StatsInv
<1> QED BY <1>2, <1>3, <1>4 DEF StatsInv

LEMMA SwitchKeeps ==
  ASSUME StatsInv, NEW r \in Requests, NEW d \in Databases, SwitchDb(r, d)
  PROVE  StatsInv'
<1>1. /\ db' = d /\ stats' = None /\ request' = With(Without("fetch"), r, "fetch", d)
      /\ late' = LeftBehind
  BY DEF SwitchDb, changeDb
<1>2. /\ request' = [q \in Requests |-> request'[q]]
      /\ request'[r] = [kind |-> "fetch", db |-> d]
      /\ \A q \in Requests : q # r => request'[q] = IF Under(q, "fetch") THEN None ELSE request[q]
  BY <1>1 DEF With, Without
<1>3. \A q \in Requests : Of(q, "fetch")'
  BY <1>1, <1>2 DEF Of, Under, Free
<1>4. "refresh" \notin late' => \A q \in Requests : Of(q, "refresh")'
  <2>1. "refresh" \notin late' => \A q \in Requests : ~Under(q, "refresh")
    BY <1>1 DEF LeftBehind, Lasting, NoneOf
  <2> QED BY <1>2, <2>1 DEF Of, Under, Free
<1> QED BY <1>1, <1>2, <1>3, <1>4 DEF StatsInv, StatsOfTheDatabase

LEMMA StatsInvInit == DashboardInit => StatsInv
BY DEF DashboardInit, StatsInv, StatsOfTheDatabase, Of, Under, Free

LEMMA StatsInvStep == StatsInv /\ [DashboardNext]_dashboardVars => StatsInv'
<1> SUFFICES ASSUME StatsInv, [DashboardNext]_dashboardVars PROVE StatsInv'
  OBVIOUS
<1> USE DEF shown
<1>1. CASE TickAuto \/ UNCHANGED dashboardVars
  BY <1>1 DEF TickAuto, dashboardVars, dashboardPart, StatsInv, StatsOfTheDatabase, Of, Under, Free
<1>2. ASSUME NEW r \in Requests, NEW q \in Requests, Mount(r, q) PROVE StatsInv'
  <2>1. /\ UNCHANGED <<db, stats, late>>
        /\ request' = With(With(request, r, "fetch", db), q, "health", db)
    BY <1>2 DEF Mount
  <2>2. /\ request' = [p \in Requests |-> request'[p]]
        /\ \A p \in Requests : \/ request'[p] = request[p]
                               \/ \E k \in {"fetch", "health"} : request'[p] = [kind |-> k, db |-> db]
    BY <2>1 DEF With, StatsInv
  <2>3. \A k \in {"fetch", "refresh"} :
          (\A p \in Requests : Of(p, k)) => \A p \in Requests : Of(p, k)'
    BY <2>1, <2>2 DEF Of, Under, Free
  <2> QED BY <2>1, <2>2, <2>3 DEF StatsInv, StatsOfTheDatabase
<1>3. ASSUME NEW r \in Requests, NEW d \in Databases, SwitchDb(r, d) PROVE StatsInv'
  BY <1>3, SwitchKeeps
<1>4. ASSUME NEW r \in Requests, RefreshButton(r) \/ RefreshTimer(r) \/ SettingSaved(r)
      PROVE  StatsInv'
  BY <1>4, SendKeeps DEF RefreshButton, RefreshTimer, SettingSaved, Refresh, Lasting
<1>5. ASSUME NEW r \in Requests, Operate(r) PROVE StatsInv'
  BY <1>5, SendKeeps DEF Operate, Lasting
<1>6. ASSUME NEW r \in Requests, refetchHealth(r) PROVE StatsInv'
  BY <1>6, SendKeeps DEF refetchHealth, Lasting
<1>7. ASSUME NEW r \in Requests,
             StatsAnswer(r) \/ StatsFail(r) \/ HealthAnswer(r) \/ OperationFails(r)
      PROVE  StatsInv'
  BY <1>7, ForgetKeeps DEF StatsAnswer, StatsFail, HealthAnswer, OperationFails
<1> QED BY <1>1, <1>2, <1>3, <1>4, <1>5, <1>6, <1>7 DEF DashboardNext, Answer

LEMMA StatsInvAlways == DashboardSpec => []StatsInv
<1>1. DashboardInit => StatsInv
  BY StatsInvInit
<1>2. StatsInv /\ [DashboardNext]_dashboardVars => StatsInv'
  BY StatsInvStep
<1> QED BY <1>1, <1>2, PTL DEF DashboardSpec

(* The statistics shown are of the database selected, unless a refresh was  *)
(* on its way when it was selected.                                         *)
THEOREM ShowsTheSelectedStats == DashboardSpec => []StatsOfTheDatabase
<1>1. StatsInv => StatsOfTheDatabase
  BY DEF StatsInv
<1> QED BY <1>1, StatsInvAlways, PTL

-----------------------------------------------------------------------------
(* What the dashboard settles on.  As long as it loads a fetch or a refresh *)
(* is on its way; without an error either one is, or what is shown is of    *)
(* the database selected already; and what can still change the key count   *)
(* was sent for that database, unless it was left behind.                   *)

StatsUnderWay == \E r \in Requests : Under(r, "fetch") \/ Under(r, "refresh")
ShowsDb == stats = db /\ (keyCount.status = "error" \/ keyCount.of = db)

SettleInv ==
  /\ db \in Databases
  /\ loading => StatsUnderWay
  /\ mounted /\ late = {} /\ ~failed => StatsUnderWay \/ ShowsDb
  /\ late = {} => \A r \in Requests : Of(r, "health") /\ Of(r, "keys")

(* A request that is sent replaces none of the dashboard's.                 *)
LEMMA SendSettles ==
  ASSUME StatsInv, SettleInv, NEW r \in Requests, NEW what \in Lasting, NEW d,
         what \in {"health", "keys"} => (late = {} => d = db),
         what = "refresh" => d = db,
         ~Under(r, "fetch") /\ ~Under(r, "refresh"),
         request' = With(request, r, what, d) \/ request' = With(Without("health"), r, what, d),
         UNCHANGED <<db, mounted, stats, keyCount, late>>,
         what = "refresh" \/ UNCHANGED <<loading, failed>>
  PROVE  SettleInv'
<1>1. \A q \in Requests : q # r => request'[q] = request[q]
                                   \/ (Under(q, "health") /\ request'[q] = None)
  BY DEF With, Without, StatsInv
<1>2. request'[r] = [kind |-> what, db |-> d]
  BY DEF With, Without, StatsInv
<1>3. what = "refresh" => request'[r] # None
  BY <1>2, NoRequestAssumption DEF Request, SettleInv, Lasting
<1>4. what = "refresh" => StatsUnderWay'
  BY <1>2, <1>3 DEF StatsUnderWay, Under, Free
<1>5. StatsUnderWay => StatsUnderWay'
  BY <1>1 DEF StatsUnderWay, Under, Free
<1>6. ASSUME late = {}, NEW q \in Requests PROVE Of(q, "health")' /\ Of(q, "keys")'
  BY <1>1, <1>2, <1>6 DEF SettleInv, Of, Under, Free
<1>7. (ShowsDb => ShowsDb') /\ db' \in Databases
  BY DEF ShowsDb, SettleInv
<1> QED BY <1>4, <1>5, <1>6, <1>7 DEF SettleInv

(* An answer shows what the request was for; one of the dashboard's         *)
(* requests settles it.                                                     *)
LEMMA AnswerSettles ==
  ASSUME StatsInv, SettleInv, NEW r \in Requests,
         StatsAnswer(r) \/ StatsFail(r) \/ HealthAnswer(r) \/ OperationFails(r)
  PROVE  SettleInv'
<1>1. \A q \in Requests : request'[q] = IF q = r THEN None ELSE request[q]
  BY DEF StatsInv, StatsAnswer, StatsFail, HealthAnswer, OperationFails
<1>2. UNCHANGED <<db, mounted, late>>
  BY DEF StatsAnswer, StatsFail, HealthAnswer, OperationFails
<1>3. ASSUME late = {}, NEW q \in Requests PROVE Of(q, "health")' /\ Of(q, "keys")'
  BY <1>1, <1>2, <1>3 DEF SettleInv, Of, Under, Free
<1>4. CASE StatsAnswer(r)
  <2>1. ~loading' /\ (late = {} => ShowsDb')
    BY <1>4 DEF StatsAnswer, StatsInv, Of, ShowsDb
  <2> QED BY <1>2, <1>3, <2>1 DEF SettleInv
<1>5. CASE StatsFail(r)
  BY <1>2, <1>3, <1>5 DEF StatsFail, SettleInv
<1>6. ASSUME HealthAnswer(r) \/ OperationFails(r) PROVE SettleInv'
  <2>1. ~Under(r, "fetch") /\ ~Under(r, "refresh")
    BY <1>6 DEF HealthAnswer, OperationFails, Under
  <2>2. StatsUnderWay => StatsUnderWay'
    BY <1>1, <2>1 DEF StatsUnderWay, Under, Free
  <2>3. UNCHANGED <<stats, loading, failed>>
    BY <1>6 DEF HealthAnswer, OperationFails, shown
  <2>4. late = {} => (ShowsDb => ShowsDb')
    BY <1>2, <1>6, <2>3 DEF HealthAnswer, OperationFails, SettleInv, ShowsDb, Of, shown
  <2> QED BY <1>2, <1>3, <2>2, <2>3, <2>4 DEF SettleInv
<1> QED BY <1>4, <1>5, <1>6

LEMMA SwitchSettles ==
  ASSUME StatsInv, SettleInv, NEW r \in Requests, NEW d \in Databases, SwitchDb(r, d)
  PROVE  SettleInv'
<1>1. db' = d /\ request' = With(Without("fetch"), r, "fetch", d) /\ late' = LeftBehind
  BY DEF SwitchDb, changeDb
<1>2. request'[r] = [kind |-> "fetch", db |-> d]
  BY <1>1 DEF With, Without
<1>3. \A q \in Requests : q # r => request'[q] \in {None, request[q]}
  BY <1>1 DEF With, Without
<1>4. StatsUnderWay'
  <2>1. request'[r] # None
    BY <1>2, NoRequestAssumption DEF Request
  <2> QED BY <1>2, <2>1 DEF StatsUnderWay, Under, Free
<1>5. ASSUME late' = {}, NEW q \in Requests PROVE Of(q, "health")' /\ Of(q, "keys")'
  <2>1. ~Under(q, "health") /\ ~Under(q, "keys")
    BY <1>1, <1>5 DEF LeftBehind, Lasting, NoneOf
  <2> QED BY <1>2, <1>3, <2>1 DEF Of, Under, Free
<1> QED BY <1>1, <1>4, <1>5 DEF SettleInv

LEMMA MountSettles ==
  ASSUME StatsInv, SettleInv, NEW r \in Requests, NEW q \in Requests, Mount(r, q)
  PROVE  SettleInv'
<1>1. UNCHANGED <<db, late>> /\ request' = With(With(request, r, "fetch", db), q, "health", db) /\ r # q
  BY DEF Mount
<1>2. /\ request'[r] = [kind |-> "fetch", db |-> db]
      /\ \A p \in Requests : \/ request'[p] = request[p]
                             \/ \E k \in {"fetch", "health"} : request'[p] = [kind |-> k, db |-> db]
  BY <1>1 DEF With, StatsInv
<1>3. StatsUnderWay'
  <2>1. request'[r] # None
    BY <1>2, NoRequestAssumption DEF Request, SettleInv
  <2> QED BY <1>2, <2>1 DEF StatsUnderWay, Under, Free
<1>4. ASSUME late = {}, NEW p \in Requests PROVE Of(p, "health")' /\ Of(p, "keys")'
  BY <1>1, <1>2, <1>4 DEF SettleInv, Of, Under, Free
<1> QED BY <1>1, <1>3, <1>4 DEF SettleInv

LEMMA SettleInvInit == DashboardInit => StatsInv /\ SettleInv
BY DEF DashboardInit, StatsInv, StatsOfTheDatabase, SettleInv, Of, Under, Free

LEMMA SettleInvStep == StatsInv /\ SettleInv /\ [DashboardNext]_dashboardVars => SettleInv'
<1> SUFFICES ASSUME StatsInv, SettleInv, [DashboardNext]_dashboardVars PROVE SettleInv'
  OBVIOUS
<1> USE DEF shown
<1>1. CASE TickAuto \/ UNCHANGED dashboardVars
  BY <1>1 DEF TickAuto, dashboardVars, dashboardPart, SettleInv, StatsUnderWay, ShowsDb, Of, Under, Free
<1>2. ASSUME NEW r \in Requests, NEW q \in Requests, Mount(r, q) PROVE SettleInv'
  BY <1>2, MountSettles
<1>3. ASSUME NEW r \in Requests, NEW d \in Databases, SwitchDb(r, d) PROVE SettleInv'
  BY <1>3, SwitchSettles
<1>4. ASSUME NEW r \in Requests, RefreshButton(r) \/ RefreshTimer(r) \/ SettingSaved(r)
      PROVE  SettleInv'
  <2>1. ~Under(r, "fetch") /\ ~Under(r, "refresh") /\ Refresh(r)
    BY <1>4 DEF RefreshButton, RefreshTimer, SettingSaved, Under
  <2> QED BY <2>1, SendSettles DEF Refresh, Lasting
<1>5. ASSUME NEW r \in Requests, Operate(r) PROVE SettleInv'
  BY <1>5, SendSettles DEF Operate, Lasting, Under
<1>6. ASSUME NEW r \in Requests, refetchHealth(r) PROVE SettleInv'
  BY <1>6, SendSettles DEF refetchHealth, Lasting, SettleInv, Of, Under
<1>7. ASSUME NEW r \in Requests,
             StatsAnswer(r) \/ StatsFail(r) \/ HealthAnswer(r) \/ OperationFails(r)
      PROVE  SettleInv'
  BY <1>7, AnswerSettles
<1> QED BY <1>1, <1>2, <1>3, <1>4, <1>5, <1>6, <1>7 DEF DashboardNext, Answer

LEMMA SettleInvShows == SettleInv => SettledOnTheDatabase
BY DEF SettleInv, SettledOnTheDatabase, StatsUnderWay, ShowsDb, Under

(* When every request is over the page is not loading, and without an error *)
(* it shows the database selected, in the sidebar too, unless something was *)
(* left behind by the last switch.                                          *)
THEOREM SettlesOnTheSelected == DashboardSpec => []SettledOnTheDatabase
<1>1. DashboardInit => StatsInv /\ SettleInv
  BY SettleInvInit
<1>2. StatsInv /\ SettleInv /\ [DashboardNext]_dashboardVars => SettleInv'
  BY SettleInvStep
<1>3. SettleInv => SettledOnTheDatabase
  BY SettleInvShows
<1> QED BY <1>1, <1>2, <1>3, StatsInvAlways, PTL DEF DashboardSpec

-----------------------------------------------------------------------------
(* The console.  What a pane remembers as pending is what its last command  *)
(* was answered with, however many panes, recalls, completions, switches    *)
(* and answers come in between.                                             *)

CliInv ==
  /\ RunsOnlyWhatItWarnedOf
  /\ pendingDangerous = [p \in Panes |-> pendingDangerous[p]]
  /\ warned = [p \in Panes |-> warned[p]]
  /\ panes \subseteq Panes
  /\ \A p \in Panes : pendingDangerous[p] # None => warned[p] = pendingDangerous[p]

warnings == <<panes, pendingDangerous, warned, unwarned>>

LEMMA WarningsStay == ASSUME CliInv, UNCHANGED warnings PROVE CliInv'
BY DEF CliInv, warnings, RunsOnlyWhatItWarnedOf

LEMMA SubmitKeeps ==
  ASSUME CliInv, NEW p \in Panes, handleSubmit(p)
  PROVE  CliInv'
<1> DEFINE c == cliInput[p]
<1>1. c # None /\ runCommand(p, c) /\ panes' = panes
  BY DEF handleSubmit
<1> HIDE DEF c
<1>2. CASE Warns(p, c)
  <2>1. /\ pendingDangerous' = [pendingDangerous EXCEPT ![p] = c]
        /\ warned' = [warned EXCEPT ![p] = c] /\ unwarned' = unwarned
    BY <1>1, <1>2 DEF runCommand, Warn
  <2> QED BY <1>1, <2>1 DEF CliInv, RunsOnlyWhatItWarnedOf
<1>3. CASE ~Warns(p, c)
  <2>1. /\ pendingDangerous' = [pendingDangerous EXCEPT ![p] = None]
        /\ warned' = [warned EXCEPT ![p] = None]
        /\ unwarned' = IF c \in DANGEROUS /\ warned[p] # c THEN unwarned \cup {c} ELSE unwarned
    BY <1>1, <1>3 DEF runCommand, Run, Send
  <2>2. c \in DANGEROUS \ TwoWords => warned[p] = c
    BY <1>1, <1>3 DEF Warns, CliInv
  <2>3. unwarned' \subseteq TwoWords
    BY <2>1, <2>2 DEF CliInv, RunsOnlyWhatItWarnedOf
  <2> QED BY <1>1, <2>1, <2>3 DEF CliInv, RunsOnlyWhatItWarnedOf
<1> QED BY <1>2, <1>3

LEMMA CliInvInit == CliInit => CliInv
BY DEF CliInit, CliInv, RunsOnlyWhatItWarnedOf

LEMMA CliInvStep == CliInv /\ [CliNext]_cliVars => CliInv'
<1> SUFFICES ASSUME CliInv, [CliNext]_cliVars PROVE CliInv'
  OBVIOUS
<1>1. ASSUME NEW d \in Databases, PrintSwitch(d) PROVE CliInv'
  BY <1>1, WarningsStay DEF PrintSwitch, cliPart, warnings
<1>2. ASSUME NEW p \in Panes, addPane(p) PROVE CliInv'
  BY <1>2 DEF addPane, CliInv, RunsOnlyWhatItWarnedOf
<1>3. ASSUME NEW p \in Panes, removePane(p) PROVE CliInv'
  BY <1>3 DEF removePane, CliInv, RunsOnlyWhatItWarnedOf
<1>4. ASSUME NEW p \in Panes, handleSubmit(p) PROVE CliInv'
  BY <1>4, SubmitKeeps
<1>5. ASSUME NEW p \in Panes, CommandAnswer(p) PROVE CliInv'
  BY <1>5, WarningsStay DEF CommandAnswer, warnings
<1>6. ASSUME NEW p \in Panes, WalkSuggestions(p) \/ HideSuggestions(p) PROVE CliInv'
  BY <1>6, WarningsStay DEF WalkSuggestions, HideSuggestions, Line, OthersStay, warnings
<1>7. ASSUME NEW p \in Panes, NEW c \in Commands \cup {None}, handleInputChange(p, c)
      PROVE  CliInv'
  BY <1>7, WarningsStay DEF handleInputChange, Line, OthersStay, warnings
<1>8. ASSUME NEW p \in Panes, NEW c \in Commands,
             Recall(p, c) \/ TakeSuggestion(p, c) \/ selectCmd(p, c)
      PROVE  CliInv'
  BY <1>8, WarningsStay DEF Recall, TakeSuggestion, selectCmd, Line, OthersStay, warnings
<1>9. CASE UNCHANGED cliVars
  BY <1>9, WarningsStay DEF cliVars, cliPart, warnings
<1> QED BY <1>1, <1>2, <1>3, <1>4, <1>5, <1>6, <1>7, <1>8, <1>9 DEF CliNext

(* A dangerous command runs only as the answer to its own warning, for any  *)
(* numbers of panes, commands and requests on their way - except one that   *)
(* is listed by two words (SCRIPT FLUSH, DEBUG SLEEP), which has none.      *)
THEOREM WarnsBeforeItRuns == CliSpec => []RunsOnlyWhatItWarnedOf
<1>1. CliInit => CliInv
  BY CliInvInit
<1>2. CliInv /\ [CliNext]_cliVars => CliInv'
  BY CliInvStep
<1>3. CliInv => RunsOnlyWhatItWarnedOf
  BY DEF CliInv
<1> QED BY <1>1, <1>2, <1>3, PTL DEF CliSpec

-----------------------------------------------------------------------------
(* The form.  Two leftovers have to be harmless for what is handed over to  *)
(* be what is shown: TLS, which only the ways with host and port show, and  *)
(* SSH, which stays ticked when a way is chosen that cannot use it.         *)

FormInv == authType \in AuthTypes /\ HandsOverWhatItShows

LEMMA HandedOverIsShown ==
  ASSUME authType \in AuthTypes
  PROVE  HandedOver = FormShows
<1> USE DEF HOST_PORT_TYPES, SSH_SUPPORTED_TYPES
<1>1. CASE authType = "URL"
  BY <1>1 DEF HandedOver, FormShows, Required, ShownForType, ShownForTls, ShownForSsh
<1>2. CASE authType = "SENTINEL"
  BY <1>2 DEF HandedOver, FormShows, Required, ShownForType, ShownForTls, ShownForSsh
<1>3. CASE authType = "CLUSTER"
  BY <1>3 DEF HandedOver, FormShows, Required, ShownForType, ShownForTls, ShownForSsh
<1>4. CASE authType = "SOCKET"
  BY <1>4 DEF HandedOver, FormShows, Required, ShownForType, ShownForTls, ShownForSsh
<1>5. CASE authType \in HOST_PORT_TYPES
  <2>1. tlsFields = ShownForTls
    BY <1>5 DEF tlsFields, ShownForTls
  <2>2. sshFields = ShownForSsh
    BY <1>5 DEF sshFields, sshSecret, ShownForSsh
  <2>3. {"password"} \cup Required = ShownForType
    BY <1>5 DEF Required, ShownForType
  <2> QED BY <1>5, <2>1, <2>2, <2>3 DEF HandedOver, FormShows
<1> QED BY <1>1, <1>2, <1>3, <1>4, <1>5 DEF AuthTypes

LEMMA FormInvInit == FormInit => FormInv
BY DEF FormInit, FormInv, AuthTypes, HOST_PORT_TYPES, HandsOverWhatItShows

LEMMA FormInvStep == FormInv /\ [FormNext]_formPart => FormInv'
<1> SUFFICES ASSUME FormInv, [FormNext]_formPart PROVE FormInv'
  OBVIOUS
<1>1. CASE submitForm
  <2>1. submitted' = [fields |-> HandedOver \cap filled, shown |-> FormShows \cap filled]
        /\ authType' = "PASSWORD"
    BY <1>1 DEF submitForm, resetForm
  <2> QED BY <2>1, HandedOverIsShown
          DEF FormInv, HandsOverWhatItShows, AuthTypes, HOST_PORT_TYPES
<1>2. CASE ~submitForm
  <2>1. authType' \in AuthTypes /\ (NothingSubmitted \/ submitted' = submitted)
    BY <1>2 DEF FormNext, setAuthType, FillIn, SetTls, SetSsh, formPart, FormInv
  <2> QED BY <2>1 DEF NothingSubmitted, HandsOverWhatItShows, FormInv
<1> QED BY <1>1, <1>2

(* A connection is added with what the form showed of what was typed.       *)
THEOREM AddsWhatItShows == FormSpec => []HandsOverWhatItShows
<1>1. FormInit => FormInv
  BY FormInvInit
<1>2. FormInv /\ [FormNext]_formPart => FormInv'
  BY FormInvStep
<1>3. FormInv => HandsOverWhatItShows
  BY DEF FormInv
<1> QED BY <1>1, <1>2, <1>3, PTL DEF FormSpec

-----------------------------------------------------------------------------
(* The saved connections.  A page whose copy is not out of date has what is *)
(* saved, and that is what the user chose, but for the secrets that came    *)
(* garbled out of a file; so what it saves is that with the change made to  *)
(* it.  What is saved is read again as it was, secrets included, and so is  *)
(* what is in a file, unless another browser has sealed it.                 *)

OpenedFile == Each(file, fromStored)

IsForeign(s) == s # None /\ s.secret # None /\ s.secret.by = "another"

(* A list is what it should be, but for garbled secrets at some ids.        *)
IsKept(list, choice, ids) ==
  \A id \in Ids : \/ list[id] = choice[id]
                  \/ id \in ids /\ IsButGarbled(list[id], choice[id])

StoreInv ==
  /\ stored \in ListOf(Saved) /\ chosen \in ListOf(Listed) /\ open \subseteq Pages
  /\ \A g \in Pages : connections[g] \in ListOf(Listed)
  /\ connections = [g \in Pages |-> connections[g]]
  /\ \A g \in Pages \ open : connections[g] = Empty
  /\ file \in ListOf(Saved) /\ exported \in ListOf(Listed) /\ foreign \subseteq Ids
  /\ IsKept(loadFromStorage, chosen, foreign)
  /\ \A g \in open \ behind_store : connections[g] = loadFromStorage
  /\ IsKept(OpenedFile, exported, {id \in Ids : IsForeign(file[id])})

(* A connection is read as it was saved.                                    *)
LEMMA SealedAgain ==
  ASSUME NEW c \in Listed
  PROVE  toStored(c) \in Saved /\ fromStored(toStored(c)) = c
<1>1. c.secret \in Secrets \cup {Garbled, None} /\ c.way \in Ways /\ c.db \in Databases
  BY DEF Listed
<1>2. PICK t : t = IF c.way = "url" THEN Bare(c.secret) ELSE encryptPassword(c.secret)
  OBVIOUS
<1>3. toStored(c) = [c EXCEPT !.secret = t]
  BY <1>2 DEF toStored
<1>4. CASE c.secret = None
  <2>1. t = None
    BY <1>2, <1>4 DEF encryptPassword, Bare
  <2>2. toStored(c) = c
    BY <1>3, <1>4, <2>1 DEF Listed
  <2>3. toStored(c) \in Saved
    BY <1>1, <1>4, <2>2 DEF Saved, Listed
  <2> QED BY <1>4, <2>2, <2>3 DEF fromStored
<1>5. CASE c.secret # None
  <2>1. PICK by \in {"this", "nobody"} : t = [text |-> c.secret, by |-> by]
    BY <1>2, <1>5 DEF encryptPassword, Bare
  <2>2. t \in Sealed /\ t.text = c.secret /\ t.by # "another"
    BY <1>1, <1>5, <2>1 DEF Sealed
  <2>3. t # None
    BY <2>2, NotSealedAssumption
  <2>4. toStored(c) \in Saved /\ toStored(c).secret = t
    BY <1>1, <1>3, <2>2 DEF Saved, Listed
  <2>5. decryptPassword(t) = c.secret
    BY <2>2 DEF decryptPassword
  <2>6. fromStored(toStored(c)) = [toStored(c) EXCEPT !.secret = c.secret]
    BY <2>3, <2>4, <2>5 DEF fromStored
  <2>7. [toStored(c) EXCEPT !.secret = c.secret] = c
    BY <1>3 DEF Listed
  <2> QED BY <2>4, <2>6, <2>7
<1> QED BY <1>4, <1>5

LEMMA OpenedType ==
  ASSUME NEW s \in Saved
  PROVE  fromStored(s) \in Listed
<1>1. s.secret \in Sealed \cup {None} /\ s.way \in Ways /\ s.db \in Databases
  BY DEF Saved
<1>2. CASE s.secret = None
  BY <1>1, <1>2 DEF fromStored, Saved, Listed
<1>3. CASE s.secret # None
  <2>1. decryptPassword(s.secret) \in Secrets \cup {Garbled, None}
    BY <1>1, <1>3 DEF decryptPassword, Sealed
  <2> QED BY <1>1, <1>3, <2>1 DEF fromStored, Saved, Listed
<1> QED BY <1>2, <1>3

(* Whole lists.                                                             *)
LEMMA SavedAgain ==
  ASSUME NEW L \in ListOf(Listed)
  PROVE  /\ Each(L, toStored) \in ListOf(Saved)
         /\ Each(Each(L, toStored), fromStored) = L
<1> DEFINE M == Each(L, toStored)
<1>1. ASSUME NEW id \in Ids
      PROVE  /\ M[id] \in Saved \cup {None}
             /\ (IF M[id] = None THEN None ELSE fromStored(M[id])) = L[id]
  <2>1. L[id] \in Listed \cup {None}
    BY DEF ListOf
  <2>2. M[id] = IF L[id] = None THEN None ELSE toStored(L[id])
    BY DEF Each
  <2> QED BY <2>1, <2>2, SealedAgain, NotSealedAssumption
<1>2. M \in ListOf(Saved)
  BY <1>1 DEF Each, ListOf
<1>3. Each(M, fromStored) = [id \in Ids |-> L[id]]
  BY <1>1 DEF Each
<1> QED BY <1>2, <1>3 DEF ListOf

LEMMA OpenedList ==
  ASSUME NEW L \in ListOf(Saved)
  PROVE  Each(L, fromStored) \in ListOf(Listed)
<1>1. \A id \in Ids : (IF L[id] = None THEN None ELSE fromStored(L[id])) \in Listed \cup {None}
  BY OpenedType DEF ListOf
<1> QED BY <1>1 DEF Each, ListOf

LEMMA SaveKeeps ==
  ASSUME StoreInv, NEW g \in open, NEW list \in ListOf(Listed), NEW choice \in ListOf(Listed),
         saveToStorage(g, list, choice), g \notin behind_store => IsKept(list, choice, foreign'),
         UNCHANGED <<file, exported>>, foreign' \subseteq Ids
  PROVE  StoreInv'
<1>1. /\ connections' = [connections EXCEPT ![g] = list] /\ stored' = Each(list, toStored)
      /\ behind_store' = {h \in open \ {g} : connections[h] # list}
      /\ chosen' = IF g \in behind_store THEN list ELSE choice
      /\ open' = open /\ g \in Pages
  BY DEF saveToStorage, StoreInv
<1>2. stored' \in ListOf(Saved) /\ Each(stored', fromStored) = list
  BY <1>1, SavedAgain
<1>3. loadFromStorage' = list
  BY <1>2 DEF loadFromStorage
<1>4. \A h \in Pages : connections'[h] = IF h = g THEN list ELSE connections[h]
  BY <1>1 DEF StoreInv
<1>5. IsKept(loadFromStorage, chosen, foreign)'
  BY <1>1, <1>3 DEF IsKept
<1>6. \A h \in open' \ behind_store' : connections'[h] = loadFromStorage'
  BY <1>1, <1>3, <1>4 DEF StoreInv
<1>7. connections' = [h \in Pages |-> connections'[h]]
  BY <1>1 DEF StoreInv
<1>8. IsKept(OpenedFile, exported, {id \in Ids : IsForeign(file[id])})'
  BY DEF StoreInv, OpenedFile
<1>9. chosen' \in ListOf(Listed)
  BY <1>1
<1> QED BY <1>1, <1>2, <1>4, <1>5, <1>6, <1>7, <1>8, <1>9 DEF StoreInv

LEMMA EmptyType == Empty \in ListOf(Listed) /\ Empty \in ListOf(Saved)
BY DEF Empty, ListOf

(* Only a page that is open shows connections.                              *)
LEMMA ShownIsOpen ==
  ASSUME StoreInv, NEW g \in Pages, connections[g] # Empty
  PROVE  g \in open
BY DEF StoreInv

LEMMA HeldIsOpen ==
  ASSUME StoreInv, NEW g \in Pages, NEW id \in Ids, connections[g][id] # None
  PROVE  g \in open /\ connections[g][id] \in Listed
<1>1. connections[g] # Empty
  BY DEF Empty
<1>2. connections[g] \in ListOf(Listed)
  BY DEF StoreInv
<1> QED BY <1>1, <1>2, ShownIsOpen DEF ListOf

LEMMA PageKeeps ==
  ASSUME StoreInv, NEW g \in Pages,
         OpenPage(g) \/ ClosePage(g) \/ clearAllConnections(g) \/ \E id \in Ids : Select(g, id)
  PROVE  StoreInv'
<1>1. CASE OpenPage(g)
  <2>1. /\ open' = open \cup {g} /\ connections' = [connections EXCEPT ![g] = loadFromStorage]
        /\ UNCHANGED <<stored, file, behind_store, chosen, exported, foreign>>
    BY <1>1 DEF OpenPage
  <2>2. loadFromStorage' = loadFromStorage /\ OpenedFile' = OpenedFile
        /\ loadFromStorage \in ListOf(Listed)
    BY <2>1, OpenedList DEF StoreInv, loadFromStorage, OpenedFile
  <2>3. \A h \in Pages : connections'[h] = IF h = g THEN loadFromStorage ELSE connections[h]
    BY <2>1 DEF StoreInv
  <2>4. \A h \in open' \ behind_store' : connections'[h] = loadFromStorage'
    BY <2>1, <2>2, <2>3 DEF StoreInv
  <2>5. connections' = [h \in Pages |-> connections'[h]]
    BY <2>1 DEF StoreInv
  <2> QED BY <2>1, <2>2, <2>3, <2>4, <2>5 DEF StoreInv, IsKept
<1>2. CASE ClosePage(g)
  <2>1. /\ open' = open \ {g} /\ behind_store' = behind_store \ {g}
        /\ connections' = [connections EXCEPT ![g] = Empty]
        /\ UNCHANGED <<stored, file, chosen, exported, foreign>>
    BY <1>2 DEF ClosePage
  <2>2. loadFromStorage' = loadFromStorage /\ OpenedFile' = OpenedFile
    BY <2>1 DEF StoreInv, loadFromStorage, OpenedFile
  <2>3. \A h \in Pages : connections'[h] = IF h = g THEN Empty ELSE connections[h]
    BY <2>1 DEF StoreInv
  <2>4. \A h \in open' \ behind_store' : connections'[h] = loadFromStorage'
    BY <2>1, <2>2, <2>3 DEF StoreInv
  <2>5. connections' = [h \in Pages |-> connections'[h]]
    BY <2>1 DEF StoreInv
  <2> QED BY <2>1, <2>2, <2>3, <2>4, <2>5, EmptyType DEF StoreInv, IsKept
<1>3. CASE clearAllConnections(g)
  <2>1. g \in open
    BY <1>3, ShownIsOpen DEF clearAllConnections
  <2>2. saveToStorage(g, Empty, Empty) /\ UNCHANGED <<file, exported, foreign>>
        /\ IsKept(Empty, Empty, foreign')
    BY <1>3 DEF clearAllConnections, IsKept
  <2>3. foreign' \subseteq Ids
    BY <2>2 DEF StoreInv
  <2> QED BY <2>1, <2>2, <2>3, EmptyType, SaveKeeps
<1>4. CASE \E id \in Ids : Select(g, id)
  BY <1>4 DEF Select, StoreInv, OpenedFile, loadFromStorage, IsKept
<1> QED BY <1>1, <1>2, <1>3, <1>4

(* The database of a connection is no matter of its secret.                 *)
LEMMA SetDbKeeps ==
  ASSUME NEW c \in Listed, NEW e \in Listed, NEW d \in Databases, IsButGarbled(c, e)
  PROVE  IsButGarbled([c EXCEPT !.db = d], [e EXCEPT !.db = d])
<1>1. c = [e EXCEPT !.secret = Garbled]
  BY DEF IsButGarbled
<1>2. PICK x, y : x = [c EXCEPT !.db = d] /\ y = [e EXCEPT !.db = d]
  OBVIOUS
<1>3. x = [y EXCEPT !.secret = Garbled] /\ x \in Listed /\ y \in Listed
  BY <1>1, <1>2 DEF Listed
<1> QED BY <1>2, <1>3, NotSealedAssumption DEF IsButGarbled

LEMMA ConnectionKeeps ==
  ASSUME StoreInv, NEW g \in Pages, NEW id \in Ids,
         \/ removeConnection(g, id)
         \/ \E d \in Databases : changeDbOf(g, id, d)
         \/ \E c \in Filled, d \in Databases :
              addConnection(g, id, [way |-> c.way, db |-> d, secret |-> c.secret])
  PROVE  StoreInv'
<1>0. /\ connections[g] \in ListOf(Listed) /\ chosen \in ListOf(Listed) /\ foreign \subseteq Ids
      /\ g \in open \ behind_store => IsKept(connections[g], chosen, foreign)
  BY DEF StoreInv
<1>1. CASE removeConnection(g, id)
  <2>1. g \in open
    BY <1>1, HeldIsOpen DEF removeConnection
  <2>2. PICK list, choice : list = [connections[g] EXCEPT ![id] = None]
                            /\ choice = [chosen EXCEPT ![id] = None]
    OBVIOUS
  <2>3. list \in ListOf(Listed) /\ choice \in ListOf(Listed)
    BY <1>0, <2>2 DEF ListOf
  <2>4. saveToStorage(g, list, choice) /\ UNCHANGED <<file, exported, foreign>>
    BY <1>1, <2>2 DEF removeConnection
  <2>5. g \notin behind_store => IsKept(list, choice, foreign')
    BY <1>0, <2>1, <2>2, <2>4 DEF IsKept, ListOf
  <2> QED BY <1>0, <2>1, <2>3, <2>4, <2>5, SaveKeeps
<1>2. ASSUME NEW d \in Databases, changeDbOf(g, id, d) PROVE StoreInv'
  <2>1. g \in open /\ connections[g][id] \in Listed /\ connections[g][id] # None
    BY <1>2, HeldIsOpen DEF changeDbOf
  <2>2. PICK list, choice : list = [connections[g] EXCEPT ![id].db = d]
                            /\ choice = IF chosen[id] = None THEN chosen ELSE [chosen EXCEPT ![id].db = d]
    OBVIOUS
  <2>3. list \in ListOf(Listed)
    <3>1. [connections[g][id] EXCEPT !.db = d] \in Listed
      BY <2>1 DEF Listed
    <3> QED BY <1>0, <2>2, <3>1 DEF ListOf
  <2>4. choice \in ListOf(Listed)
    <3>1. chosen[id] # None => [chosen[id] EXCEPT !.db = d] \in Listed
      BY <1>0 DEF ListOf, Listed
    <3> QED BY <1>0, <2>2, <3>1 DEF ListOf
  <2>5. saveToStorage(g, list, choice) /\ UNCHANGED <<file, exported, foreign>>
    BY <1>2, <2>2 DEF changeDbOf
  <2>6. ASSUME g \notin behind_store PROVE IsKept(list, choice, foreign')
    <3>1. IsKept(connections[g], chosen, foreign) /\ foreign' = foreign
      BY <1>0, <2>1, <2>5, <2>6
    <3>2. \A n \in Ids \ {id} : list[n] = connections[g][n] /\ choice[n] = chosen[n]
      BY <1>0, <2>2 DEF ListOf
    <3>3. chosen[id] \in Listed
      BY <1>0, <2>1, <3>1 DEF IsKept, IsButGarbled, ListOf
    <3>4. chosen[id] # None
      BY <3>3, NotSealedAssumption
    <3>5. list[id] = [connections[g][id] EXCEPT !.db = d] /\ choice[id] = [chosen[id] EXCEPT !.db = d]
      BY <1>0, <2>2, <3>4 DEF ListOf
    <3>6. \/ list[id] = choice[id]
          \/ id \in foreign /\ IsButGarbled(list[id], choice[id])
      BY <2>1, <3>1, <3>3, <3>5, SetDbKeeps DEF IsKept
    <3> QED BY <3>1, <3>2, <3>6 DEF IsKept
  <2> QED BY <1>0, <2>1, <2>3, <2>4, <2>5, <2>6, SaveKeeps
<1>3. ASSUME NEW c \in Filled, NEW d \in Databases,
             addConnection(g, id, [way |-> c.way, db |-> d, secret |-> c.secret])
      PROVE  StoreInv'
  <2>1. PICK n : n = [way |-> c.way, db |-> d, secret |-> c.secret]
    OBVIOUS
  <2>2. n \in Listed
    BY <2>1, SecretsAssumption DEF Listed
  <2>3. PICK list, choice : list = [connections[g] EXCEPT ![id] = n]
                            /\ choice = [chosen EXCEPT ![id] = n]
    OBVIOUS
  <2>4. list \in ListOf(Listed) /\ choice \in ListOf(Listed)
    BY <1>0, <2>2, <2>3 DEF ListOf
  <2>5. g \in open /\ saveToStorage(g, list, choice) /\ foreign' = foreign \ {id}
        /\ UNCHANGED <<file, exported>>
    BY <1>3, <2>1, <2>3 DEF addConnection
  <2>6. g \notin behind_store => IsKept(list, choice, foreign')
    BY <1>0, <2>3, <2>5 DEF IsKept, ListOf
  <2> QED BY <1>0, <2>4, <2>5, <2>6, SaveKeeps
<1> QED BY <1>1, <1>2, <1>3

(* KeyDiff saves past the copies: those it outdates are known to be.        *)
LEMMA PastTheCopiesKeeps ==
  ASSUME StoreInv, NEW id \in Ids, NEW d \in Databases, saveRightDb(id, d)
  PROVE  StoreInv'
<1>1. /\ stored[id] # None /\ stored' = [stored EXCEPT ![id].db = d]
      /\ chosen' = [chosen EXCEPT ![id].db = d]
      /\ behind_store' = {g \in open : connections[g] # Each(stored', fromStored)}
      /\ UNCHANGED <<open, connections, file, exported, foreign>>
  BY DEF saveRightDb
<1>2. stored \in ListOf(Saved) /\ stored[id] \in Saved /\ chosen \in ListOf(Listed)
  BY <1>1 DEF StoreInv, ListOf
<1>3. PICK s : s = [stored[id] EXCEPT !.db = d]
  OBVIOUS
<1>4. s \in Saved /\ s # None
  BY <1>2, <1>3, NotSealedAssumption DEF Saved
<1>5. stored' = [stored EXCEPT ![id] = s] /\ stored' \in ListOf(Saved)
  BY <1>1, <1>2, <1>3, <1>4 DEF ListOf
<1>6. PICK c : c = fromStored(stored[id])
  OBVIOUS
<1>7. c \in Listed /\ loadFromStorage[id] = c
  BY <1>1, <1>2, <1>6, OpenedType DEF loadFromStorage, Each
<1>8. fromStored(s) = [c EXCEPT !.db = d]
  <2>1. stored[id].secret = s.secret
    BY <1>2, <1>3 DEF Saved
  <2>2. CASE s.secret = None
    BY <1>3, <1>6, <2>1, <2>2 DEF fromStored
  <2>3. CASE s.secret # None
    <3>1. fromStored(s) = [s EXCEPT !.secret = decryptPassword(s.secret)]
      BY <2>3 DEF fromStored
    <3>2. c = [stored[id] EXCEPT !.secret = decryptPassword(s.secret)]
      BY <1>6, <2>1, <2>3 DEF fromStored
    <3>3. [s EXCEPT !.secret = decryptPassword(s.secret)]
            = [[stored[id] EXCEPT !.secret = decryptPassword(s.secret)] EXCEPT !.db = d]
      BY <1>2, <1>3 DEF Saved
    <3> QED BY <3>1, <3>2, <3>3
  <2> QED BY <2>2, <2>3
<1>9. \/ c = chosen[id]
      \/ id \in foreign /\ IsButGarbled(c, chosen[id])
  BY <1>7 DEF StoreInv, IsKept
<1>10. chosen[id] \in Listed /\ chosen[id] # None
  BY <1>2, <1>7, <1>9, NotSealedAssumption DEF IsButGarbled, ListOf
<1>11. chosen' \in ListOf(Listed) /\ chosen'[id] = [chosen[id] EXCEPT !.db = d]
  <2>1. [chosen[id] EXCEPT !.db = d] \in Listed
    BY <1>10 DEF Listed
  <2> QED BY <1>1, <1>2, <2>1 DEF ListOf
<1>12. IsKept(loadFromStorage, chosen, foreign)'
  <2> SUFFICES ASSUME NEW n \in Ids
               PROVE  \/ loadFromStorage'[n] = chosen'[n]
                      \/ n \in foreign /\ IsButGarbled(loadFromStorage'[n], chosen'[n])
    BY <1>1 DEF IsKept
  <2>1. CASE n = id
    <3>1. loadFromStorage'[id] = fromStored(s)
      BY <1>2, <1>4, <1>5 DEF loadFromStorage, Each, ListOf
    <3> QED BY <1>7, <1>8, <1>9, <1>10, <1>11, <2>1, <3>1, SetDbKeeps
  <2>2. CASE n # id
    <3>1. stored'[n] = stored[n] /\ chosen'[n] = chosen[n]
      BY <1>1, <1>2, <1>5, <2>2 DEF ListOf
    <3>2. loadFromStorage'[n] = loadFromStorage[n]
      BY <3>1 DEF loadFromStorage, Each
    <3> QED BY <3>1, <3>2 DEF StoreInv, IsKept
  <2> QED BY <2>1, <2>2
<1>13. IsKept(OpenedFile, exported, {n \in Ids : IsForeign(file[n])})'
  BY <1>1 DEF OpenedFile, StoreInv
<1>14. \A g \in open' \ behind_store' : connections'[g] = loadFromStorage'
  BY <1>1 DEF loadFromStorage
<1> QED BY <1>1, <1>5, <1>11, <1>12, <1>13, <1>14 DEF StoreInv

(* What another browser has sealed is garbled, and nothing else is.         *)
LEMMA MovedSecret ==
  ASSUME NEW s \in Saved, NEW c \in Listed,
         \/ fromStored(s) = c
         \/ IsForeign(s) /\ IsButGarbled(fromStored(s), c)
  PROVE  LET t == SealedElsewhere(s)
         IN /\ t \in Saved
            /\ \/ fromStored(t) = c
               \/ IsForeign(t) /\ IsButGarbled(fromStored(t), c)
<1>1. CASE ~(s.secret # None /\ s.secret.by = "this")
  BY <1>1 DEF SealedElsewhere
<1>2. CASE s.secret # None /\ s.secret.by = "this"
  <2>1. PICK a, t : a = [s.secret EXCEPT !.by = "another"] /\ t = [s EXCEPT !.secret = a]
    OBVIOUS
  <2>2. s.secret \in Sealed /\ a \in Sealed /\ a.by = "another"
    BY <1>2, <2>1 DEF Saved, Sealed
  <2>3. SealedElsewhere(s) = t
    BY <1>2, <2>1 DEF SealedElsewhere, Saved
  <2>4. t \in Saved /\ t.secret = a /\ t # None /\ a # None
    BY <2>1, <2>2, NotSealedAssumption DEF Saved
  <2>5. IsForeign(t) /\ decryptPassword(a) = Garbled
    BY <2>2, <2>4 DEF IsForeign, decryptPassword
  <2>6. fromStored(t) = [t EXCEPT !.secret = Garbled]
    BY <2>4, <2>5 DEF fromStored
  <2>7. fromStored(s) = c
    BY <1>2 DEF IsForeign
  <2>8. c = [s EXCEPT !.secret = decryptPassword(s.secret)]
    BY <1>2, <2>7 DEF fromStored
  <2>9. fromStored(t) = [c EXCEPT !.secret = Garbled]
    BY <2>1, <2>6, <2>8 DEF Saved
  <2>10. fromStored(t) # None /\ c # None
    BY <2>4, OpenedType, NotSealedAssumption
  <2> QED BY <2>3, <2>4, <2>5, <2>9, <2>10 DEF IsButGarbled
<1> QED BY <1>1, <1>2

(* What there is of a file: an entry of the one list is one of the other.   *)
LEMMA FileEntries ==
  ASSUME StoreInv, NEW id \in Ids
  PROVE  /\ file[id] = None <=> exported[id] = None
         /\ file[id] # None =>
              /\ file[id] \in Saved /\ exported[id] \in Listed
              /\ file[id].way = exported[id].way
              /\ OpenedFile[id] = fromStored(file[id])
              /\ \/ fromStored(file[id]) = exported[id]
                 \/ IsForeign(file[id]) /\ IsButGarbled(fromStored(file[id]), exported[id])
<1>1. PICK s, c, o : s = file[id] /\ c = exported[id] /\ o = OpenedFile[id]
  OBVIOUS
<1>2. s \in Saved \cup {None} /\ c \in Listed \cup {None} /\ (o = c \/ (IsForeign(s) /\ IsButGarbled(o, c)))
  BY <1>1 DEF StoreInv, ListOf, IsKept
<1>3. o = IF s = None THEN None ELSE fromStored(s)
  BY <1>1 DEF OpenedFile, Each
<1>4. CASE s = None
  BY <1>1, <1>2, <1>3, <1>4 DEF IsForeign
<1>5. CASE s # None
  <2>1. fromStored(s) \in Listed /\ fromStored(s) # None
    BY <1>2, <1>5, OpenedType, NotSealedAssumption
  <2>2. c \in Listed /\ c # None
    BY <1>2, <1>3, <1>5, <2>1, NotSealedAssumption DEF IsButGarbled
  <2>3. fromStored(s).way = s.way
    BY <1>2, <1>5 DEF fromStored, Saved
  <2>4. fromStored(s).way = c.way
    BY <1>2, <1>3, <1>5, <2>2 DEF IsButGarbled, Listed
  <2> QED BY <1>1, <1>2, <1>3, <1>5, <2>2, <2>3, <2>4
<1> QED BY <1>4, <1>5

LEMMA FileKeeps ==
  ASSUME StoreInv, MoveFile \/ \E g \in Pages, i \in BOOLEAN : exportConnections(g, i)
  PROVE  StoreInv'
<1>1. CASE MoveFile
  <2>1. /\ file' = Each(file, SealedElsewhere)
        /\ UNCHANGED <<stored, open, connections, behind_store, chosen, exported, foreign>>
    BY <1>1 DEF MoveFile
  <2>2. ASSUME NEW id \in Ids
        PROVE  /\ file'[id] \in Saved \cup {None}
               /\ \/ OpenedFile'[id] = exported[id]
                  \/ IsForeign(file'[id]) /\ IsButGarbled(OpenedFile'[id], exported[id])
    <3>1. /\ file'[id] = IF file[id] = None THEN None ELSE SealedElsewhere(file[id])
          /\ OpenedFile'[id] = IF file'[id] = None THEN None ELSE fromStored(file'[id])
      BY <2>1 DEF OpenedFile, Each
    <3>2. CASE file[id] = None
      BY <3>1, <3>2, FileEntries
    <3>3. CASE file[id] # None
      <4>1. PICK t : t = SealedElsewhere(file[id])
        OBVIOUS
      <4>2. t \in Saved /\ (\/ fromStored(t) = exported[id]
                            \/ IsForeign(t) /\ IsButGarbled(fromStored(t), exported[id]))
        BY <3>3, <4>1, FileEntries, MovedSecret
      <4>3. t # None
        BY <4>2, NotSealedAssumption
      <4> QED BY <3>1, <3>3, <4>1, <4>2, <4>3
    <3> QED BY <3>2, <3>3
  <2>3. file' \in ListOf(Saved)
    BY <2>1, <2>2 DEF Each, ListOf
  <2>4. IsKept(OpenedFile, exported, {id \in Ids : IsForeign(file[id])})'
    BY <2>1, <2>2 DEF IsKept
  <2>5. loadFromStorage' = loadFromStorage
    BY <2>1 DEF loadFromStorage
  <2> QED BY <2>1, <2>3, <2>4, <2>5 DEF StoreInv, IsKept
<1>2. ASSUME NEW g \in Pages, NEW i \in BOOLEAN, exportConnections(g, i) PROVE StoreInv'
  <2>1. PICK asked : asked = IF i THEN connections[g] ELSE Each(connections[g], WithoutSecret)
    OBVIOUS
  <2>2. /\ file' = Each(asked, toStored) /\ exported' = asked
        /\ UNCHANGED <<stored, open, connections, behind_store, chosen, foreign>>
    BY <1>2, <2>1 DEF exportConnections
  <2>3. connections[g] \in ListOf(Listed)
    BY DEF StoreInv
  <2>4. \A c \in Listed : WithoutSecret(c) \in Listed
    BY DEF WithoutSecret, Listed
  <2>5. Each(connections[g], WithoutSecret) \in ListOf(Listed)
    <3>1. \A id \in Ids : (IF connections[g][id] = None THEN None ELSE WithoutSecret(connections[g][id]))
                            \in Listed \cup {None}
      BY <2>3, <2>4 DEF ListOf
    <3> QED BY <3>1 DEF Each, ListOf
  <2>6. asked \in ListOf(Listed)
    BY <2>1, <2>3, <2>5
  <2>7. file' \in ListOf(Saved) /\ Each(file', fromStored) = exported'
    BY <2>2, <2>6, SavedAgain
  <2>8. IsKept(OpenedFile, exported, {id \in Ids : IsForeign(file[id])})'
    BY <2>7 DEF OpenedFile, IsKept
  <2>9. loadFromStorage' = loadFromStorage
    BY <2>2 DEF loadFromStorage
  <2> QED BY <2>2, <2>6, <2>7, <2>8, <2>9 DEF StoreInv, IsKept
<1> QED BY <1>1, <1>2

LEMMA ImportKeeps ==
  ASSUME StoreInv, NEW g \in Pages, NEW newId \in [Ids -> Ids], importConnections(g, newId)
  PROVE  StoreInv'
<1> DEFINE Taken(id) == \E e \in ValidEntries : newId[e] = id
           Entry(id) == CHOOSE e \in ValidEntries : newId[e] = id
           W(list, taken) == [id \in Ids |-> IF Taken(id) THEN taken[Entry(id)] ELSE list[id]]
<1>0. ValidEntries = WithHost
  BY FileEntries DEF ValidEntries, WithHost
<1>1. /\ g \in open /\ saveToStorage(g, W(connections[g], OpenedFile), W(chosen, exported))
      /\ foreign' = (foreign \ {newId[e] : e \in ValidEntries})
                      \cup {newId[e] : e \in {x \in ValidEntries : /\ file[x].secret # None
                                                                 /\ file[x].secret.by = "another"}}
      /\ UNCHANGED <<file, exported>>
  BY <1>0 DEF importConnections, OpenedFile
<1>2. /\ connections[g] \in ListOf(Listed) /\ chosen \in ListOf(Listed)
      /\ exported \in ListOf(Listed) /\ OpenedFile \in ListOf(Listed) /\ foreign' \subseteq Ids
  BY <1>1, OpenedList DEF StoreInv, OpenedFile, ValidEntries
<1>3. ASSUME NEW id \in Ids, Taken(id)
      PROVE  Entry(id) \in Ids /\ file[Entry(id)] # None /\ Entry(id) \in ValidEntries /\ newId[Entry(id)] = id
  BY <1>3 DEF ValidEntries
<1>4. ASSUME NEW list \in ListOf(Listed), NEW taken \in ListOf(Listed)
      PROVE  W(list, taken) \in ListOf(Listed)
  <2>1. ASSUME NEW id \in Ids
        PROVE  (IF Taken(id) THEN taken[Entry(id)] ELSE list[id]) \in Listed \cup {None}
    BY <1>3 DEF ListOf
  <2> QED BY <2>1 DEF ListOf
<1>5. ASSUME g \notin behind_store
      PROVE  IsKept(W(connections[g], OpenedFile), W(chosen, exported), foreign')
  <2> SUFFICES ASSUME NEW id \in Ids
               PROVE  LET c == W(connections[g], OpenedFile)[id]
                          e == W(chosen, exported)[id]
                      IN c = e \/ (id \in foreign' /\ IsButGarbled(c, e))
    BY DEF IsKept
  <2>1. CASE Taken(id)
    <3>1. PICK n \in Ids : n = Entry(id) /\ n \in ValidEntries /\ newId[n] = id /\ file[n] # None
      BY <1>3, <2>1
    <3>2. W(connections[g], OpenedFile)[id] = OpenedFile[n] /\ W(chosen, exported)[id] = exported[n]
      BY <2>1, <3>1
    <3>3. \/ OpenedFile[n] = exported[n]
          \/ IsForeign(file[n]) /\ IsButGarbled(OpenedFile[n], exported[n])
      BY <3>1, FileEntries
    <3>4. IsForeign(file[n]) => id \in foreign'
      BY <1>1, <3>1 DEF IsForeign
    <3> QED BY <3>2, <3>3, <3>4
  <2>2. CASE ~Taken(id)
    <3>1. W(connections[g], OpenedFile)[id] = connections[g][id] /\ W(chosen, exported)[id] = chosen[id]
      BY <2>2
    <3>2. id \in foreign => id \in foreign'
      BY <1>1, <2>2
    <3>3. connections[g][id] = loadFromStorage[id]
      BY <1>1, <1>5 DEF StoreInv
    <3> QED BY <3>1, <3>2, <3>3 DEF StoreInv, IsKept
  <2> QED BY <2>1, <2>2
<1>6. PICK list, choice : /\ list = W(connections[g], OpenedFile)
                          /\ choice = W(chosen, exported)
  OBVIOUS
<1>7. /\ list \in ListOf(Listed) /\ choice \in ListOf(Listed) /\ saveToStorage(g, list, choice)
      /\ g \notin behind_store => IsKept(list, choice, foreign')
  BY <1>1, <1>2, <1>4, <1>5, <1>6
<1> QED BY <1>1, <1>2, <1>7, SaveKeeps

LEMMA StoreInitInv == ASSUME StoreInit PROVE StoreInv
<1>1. Each(Empty, fromStored) = Empty
  BY DEF Each, Empty
<1> QED BY <1>1, EmptyType DEF StoreInit, StoreInv, loadFromStorage, OpenedFile, IsKept

LEMMA StoreInvStep == ASSUME StoreInv, StoreNext PROVE StoreInv'
BY PageKeeps, ConnectionKeeps, PastTheCopiesKeeps, FileKeeps, ImportKeeps DEF StoreNext

LEMMA StoreInvStutter == ASSUME StoreInv, UNCHANGED storePart PROVE StoreInv'
BY DEF StoreInv, storePart, loadFromStorage, OpenedFile, IsKept

(* What is saved of the connections is what the user chose last on a page   *)
(* whose copy was up to date, secrets included, however many pages save,    *)
(* and also past their copies; and an import gives back the connections     *)
(* with a host that were in the file, except for the secrets sealed in      *)
(* another browser.                                                         *)
THEOREM ConnectionsAreKept == StoreSpec => []KeepsTheConnections
<1>1. StoreInit => StoreInv
  BY StoreInitInv
<1>2. StoreInv /\ [StoreNext]_<<db, storePart>> => StoreInv'
  BY StoreInvStep, StoreInvStutter
<1>3. StoreInv => KeepsTheConnections
  BY DEF StoreInv, IsKept, KeepsTheConnections
<1> QED BY <1>1, <1>2, <1>3, PTL DEF StoreSpec

-----------------------------------------------------------------------------
(* The table of an analysis.  First the lists it is made of: the rows of an *)
(* answer, which come in any order, and the names that pass the filters,    *)
(* sorted.                                                                  *)
LEMMA SequenceOf ==
  ASSUME NEW S, IsFiniteSet(S)
  PROVE  SetToSeq(S) \in Seq(S)
<1>1. Cardinality(S) \in Nat
  BY FS_CardinalityType
<1>2. ExistsBijection(1 .. Cardinality(S), S)
  BY FS_CardinalityType
<1>3. PICK f \in [1 .. Cardinality(S) -> S] : IsInjective(f)
  BY <1>2 DEF ExistsBijection, Bijection, Injection
<1>4. SetToSeq(S) \in [1 .. Cardinality(S) -> S]
  BY <1>3 DEF SetToSeq
<1> QED BY <1>1, <1>4

LEMMA OrderOf ==
  ASSUME NEW U, NEW s \in Seq(U), NEW p \in Bijection(DOMAIN s, DOMAIN s)
  PROVE  [i \in DOMAIN s |-> s[p[i]]] \in Seq(U)
<1>1. p \in [DOMAIN s -> DOMAIN s]
  BY DEF Bijection, Injection
<1>2. DOMAIN s = 1 .. Len(s) /\ Len(s) \in Nat
  OBVIOUS
<1>3. ASSUME NEW i \in DOMAIN s PROVE s[p[i]] \in U
  <2>1. p[i] \in DOMAIN s
    BY <1>1
  <2> QED BY <2>1
<1>4. PICK t : t = [i \in DOMAIN s |-> s[p[i]]]
  OBVIOUS
<1>5. t \in [1 .. Len(s) -> U]
  BY <1>2, <1>3, <1>4
<1> QED BY <1>2, <1>4, <1>5

(* The rows of one database.                                                *)
RowsIn(d) == [db : {d}, name : Names]

LEMMA RowsInFinite == ASSUME NEW d \in Databases PROVE IsFiniteSet(RowsIn(d)) /\ RowsIn(d) \subseteq Row
<1>1. PICK f : f = [n \in Names |-> [db |-> d, name |-> n]]
  OBVIOUS
<1>2. \A n \in Names : f[n] = [db |-> d, name |-> n] /\ f[n] \in RowsIn(d)
  BY <1>1 DEF RowsIn
<1>3. f \in [Names -> RowsIn(d)]
  BY <1>1, <1>2
<1>4. ASSUME NEW row \in RowsIn(d) PROVE \E n \in Names : f[n] = row
  <2>1. row.name \in Names /\ row = [db |-> d, name |-> row.name]
    BY DEF RowsIn
  <2> QED BY <1>2, <2>1
<1>5. f \in Surjection(Names, RowsIn(d))
  BY <1>3, <1>4 DEF Surjection
<1>6. IsFiniteSet(RowsIn(d))
  BY <1>5, FS_Surjection, NamesAssumption
<1> QED BY <1>6 DEF RowsIn, Row

(* A renaming leaves the rows of a database there, if it is of that one.    *)
LEMMA RenamedRows ==
  ASSUME NEW D, NEW chg \in RowChange, chg.to # None,
         NEW list \in Seq([db : D, name : Names]),
         \A i \in DOMAIN list : list[i].name = chg.from => chg.db \in D
  PROVE  [i \in DOMAIN list |-> Renamed(list[i], chg)] \in Seq([db : D, name : Names])
<1>1. chg.to \in Names
  BY DEF RowChange
<1>2. PICK R : R = [db : D, name : Names]
  OBVIOUS
<1>3. list \in Seq(R)
  BY <1>2
<1>4. DOMAIN list = 1 .. Len(list) /\ Len(list) \in Nat /\ \A i \in DOMAIN list : list[i] \in R
  BY <1>3
<1>5. ASSUME NEW i \in DOMAIN list PROVE Renamed(list[i], chg) \in R
  <2>1. list[i] \in R
    BY <1>4
  <2> QED BY <1>1, <1>2, <2>1 DEF Renamed
<1>6. [i \in DOMAIN list |-> Renamed(list[i], chg)] \in [1 .. Len(list) -> R]
  BY <1>4, <1>5
<1> QED BY <1>2, <1>4, <1>6

(* The rows are of the one database.                                        *)
LEMMA RowsAre ==
  ASSUME NEW d, NEW list \in Seq(RowsIn(d))
  PROVE  \A i \in DOMAIN list : list[i].db = d
<1>1. PICK R : R = RowsIn(d)
  OBVIOUS
<1>2. list \in Seq(R)
  BY <1>1
<1>3. \A i \in DOMAIN list : list[i] \in R
  BY <1>2
<1> QED BY <1>1, <1>3 DEF RowsIn

(* The last page is not behind the rows.                                    *)
LEMMA LastPage ==
  ASSUME NEW L \in Nat, NEW S \in Nat \ {0}, NEW k \in Nat, k + 1 <= (L + S - 1) \div S
  PROVE  k * S < L
<1>1. PICK q \in Nat : q = (L + S - 1) \div S
  OBVIOUS
<1>2. q * S <= L + S - 1
  BY <1>1
<1>3. (k + 1) * S <= q * S
  BY <1>1
<1>4. (k + 1) * S = k * S + S /\ k * S \in Nat
  OBVIOUS
<1> QED BY <1>2, <1>3, <1>4

(* What is known of the table: with no switch under an analysis the rows    *)
(* are of the database selected; a page other than the first is turned to   *)
(* only when nothing is being analysed, and it has rows, unless rows were   *)
(* taken away since.                                                        *)
MemoryInv ==
  /\ MemoryTypeOK /\ db \in Databases
  /\ ~overtaken => rowsOf \in {None, db} /\ analysis \in {None, db}
  /\ ~overtaken /\ ~crossed => rows \in Seq(RowsIn(db))
  /\ analysis # None => page = 0
  /\ ~shrunk => page = 0 \/ page * PageSize < Len(filtered)

LEMMA MinOfTwo ==
  ASSUME NEW x \in Nat, NEW y \in Nat
  PROVE  Min({x, y}) \in Nat /\ Min({x, y}) \in {x, y} /\ Min({x, y}) <= x /\ Min({x, y}) <= y
<1>1. PICK T : T = {x, y}
  OBVIOUS
<1>2. T \in SUBSET Nat /\ T # {}
  BY <1>1
<1>3. \E n \in T : \A m \in T : n <= m
  BY <1>2, NatMin
<1>4. Min(T) \in T /\ \A m \in T : Min(T) <= m
  BY <1>3 DEF Min
<1> QED BY <1>1, <1>4

LEMMA ShownType ==
  ASSUME MemoryTypeOK
  PROVE  /\ filtered \in Seq(Row) /\ Len(filtered) \in Nat /\ ToSet(filtered) \subseteq Row
         /\ totalPages \in Nat
<1>1. filtered \in Seq(Row) /\ Len(filtered) \in Nat
  BY FilteredPart DEF FilteredIsPart, filtered, Shown, MemoryTypeOK
<1>2. ToSet(filtered) \subseteq Row
  BY <1>1 DEF ToSet
<1>3. totalPages \in Nat
  BY <1>1, PageSizeAssumption DEF totalPages
<1> QED BY <1>1, <1>2, <1>3

(* The page shown has rows.                                                 *)
LEMMA PagedSome ==
  ASSUME MemoryTypeOK, page * PageSize < Len(filtered)
  PROVE  paged # <<>>
<1>1. page * PageSize \in Nat /\ PageSize \in Nat \ {0} /\ Len(filtered) \in Nat /\ filtered \in Seq(Row)
  BY ShownType, PageSizeAssumption DEF MemoryTypeOK
<1>2. PICK a, b : a = page * PageSize + 1 /\ b = Min({Len(filtered), page * PageSize + PageSize})
  OBVIOUS
<1>3. b \in Nat /\ b <= Len(filtered) /\ a <= b
  <2>1. page * PageSize + PageSize \in Nat
    BY <1>1
  <2>2. a <= Len(filtered) /\ a <= page * PageSize + PageSize
    BY <1>1, <1>2
  <2> QED BY <1>1, <1>2, <2>1, <2>2, MinOfTwo
<1>4. Len(SubSeq(filtered, a, b)) = b - a + 1
  <2>1. PICK U, f : U = Row /\ f = filtered
    OBVIOUS
  <2>2. f \in Seq(U) /\ a \in Nat \ {0} /\ b \in Nat /\ a <= b /\ b <= Len(f) /\ Len(f) \in Nat
    BY <1>1, <1>2, <1>3, <2>1
  <2>3. Len(SubSeq(f, a, b)) = b - a + 1
    BY <2>2
  <2> QED BY <2>1, <2>3
<1>5. Len(SubSeq(filtered, a, b)) # 0
  BY <1>1, <1>2, <1>3, <1>4
<1> QED BY <1>2, <1>5 DEF paged

LEMMA RowsOfAnswer ==
  ASSUME MemoryTypeOK, AnalysisAnswer
  PROVE  rows' \in Seq(RowsIn(analysis)) /\ analysis \in Databases
<1>1. analysis \in Databases
  BY DEF MemoryTypeOK, AnalysisAnswer
<1>2. PICK S \in SUBSET RowsIn(analysis) : rows' = SetToSeq(S)
  BY DEF AnalysisAnswer, RowsIn
<1>3. IsFiniteSet(S)
  BY <1>1, <1>2, RowsInFinite, FS_Subset
<1>4. rows' \in Seq(S)
  BY <1>2, <1>3, SequenceOf
<1> QED BY <1>1, <1>2, <1>4

LEMMA MemoryInitInv == MemoryInit => MemoryInv
<1> SUFFICES ASSUME MemoryInit PROVE MemoryInv
  OBVIOUS
<1>1. <<>> \in Seq(Row) /\ <<>> \in Seq(RowsIn(db))
  OBVIOUS
<1>2. [c \in Changes |-> None] \in [Changes -> RowChange \cup {None}]
  OBVIOUS
<1>3. MemoryTypeOK
  BY <1>1, <1>2 DEF MemoryInit, MemoryTypeOK
<1> QED BY <1>1, <1>3 DEF MemoryInit, MemoryInv

LEMMA MemoryTypes ==
  ASSUME MemoryTypeOK, db \in Databases, MemoryNext \/ UNCHANGED memoryVars
  PROVE  MemoryTypeOK' /\ db' \in Databases
<1> USE DEF MemoryTypeOK
<1>0. <<>> \in Seq(Row)
  OBVIOUS
<1>1. ASSUME NEW d \in Databases, ResetView(d) PROVE MemoryTypeOK' /\ db' \in Databases
  <2>1. (analysis # None) \in BOOLEAN
    OBVIOUS
  <2> QED BY <1>0, <1>1, <2>1 DEF ResetView, changeDb, GoTo
<1>2. CASE analyze
  BY <1>0, <1>2 DEF analyze, GoTo
<1>3. CASE AnalysisAnswer
  <2>1. rows' \in Seq(RowsIn(analysis)) /\ analysis \in Databases
    BY <1>3, RowsOfAnswer DEF AnalysisAnswer
  <2>2. rows' \in Seq(Row)
    BY <2>1, RowsInFinite
  <2> QED BY <1>3, <2>1, <2>2 DEF AnalysisAnswer
<1>4. CASE AnalysisFails
  BY <1>4 DEF AnalysisFails
<1>5. CASE toggleSort
  <2>1. rows' \in Seq(Row)
    BY <1>5, OrderOf DEF toggleSort
  <2> QED BY <1>5, <2>1 DEF toggleSort, Controls, GoTo
<1>6. CASE Filter \/ FilterAnywhere \/ ClearFilter
  <2>1. CASE Filter
    BY <2>1 DEF Filter, Controls, GoTo
  <2>2. CASE FilterAnywhere
    BY <2>2 DEF FilterAnywhere, Controls, GoTo
  <2>3. CASE ClearFilter
    BY <2>3 DEF ClearFilter, Controls
  <2> QED BY <1>6, <2>1, <2>2, <2>3
<1>7. CASE ShowGroups
  <2>1. letThrough' \subseteq Names
    BY <1>7 DEF ShowGroups
  <2> QED BY <1>7, <2>1 DEF ShowGroups, Controls
<1>8. CASE TurnPage
  <2>1. page' \in Nat
    BY <1>8, ShownType DEF TurnPage, CanPageBack, CanPageForward
  <2> QED BY <1>8, <2>1 DEF TurnPage, Controls
<1>9. ASSUME NEW n \in Names, OpenRow(n) PROVE MemoryTypeOK' /\ db' \in Databases
  BY <1>9 DEF OpenRow
<1>10. CASE CloseRow
  BY <1>10 DEF CloseRow
<1>11. ASSUME NEW c \in Changes, NEW n \in Names \cup {None}, SendChange(c, n)
       PROVE  MemoryTypeOK' /\ db' \in Databases
  <2>1. [db |-> db, from |-> dialog, to |-> n] \in RowChange
    BY <1>11 DEF SendChange, RowChange
  <2>2. changes' \in [Changes -> RowChange \cup {None}]
    BY <1>11, <2>1 DEF SendChange
  <2> QED BY <1>11, <2>2 DEF SendChange
<1>12. ASSUME NEW c \in Changes, ChangeFails(c) PROVE MemoryTypeOK' /\ db' \in Databases
  <2>1. changes' \in [Changes -> RowChange \cup {None}]
    BY <1>12 DEF ChangeFails
  <2> QED BY <1>12, <2>1 DEF ChangeFails
<1>13. ASSUME NEW c \in Changes, NEW list \in Seq(Row), ChangeAnswer(c, list), crossed' \in BOOLEAN
       PROVE  MemoryTypeOK' /\ db' \in Databases
  <2>1. shrunk' \in BOOLEAN
    BY <1>13 DEF ChangeAnswer
  <2>2. changes' \in [Changes -> RowChange \cup {None}]
    BY <1>13 DEF ChangeAnswer
  <2> QED BY <1>13, <2>1, <2>2 DEF ChangeAnswer
<1>14. ASSUME NEW c \in Changes, handleDeleted(c) PROVE MemoryTypeOK' /\ db' \in Databases
  <2>1. Filtered(rows, Named(Names \ {changes[c].from})) \in Seq(Row)
    BY FilteredPart DEF FilteredIsPart
  <2> QED BY <1>13, <1>14, <2>1 DEF handleDeleted
<1>15. ASSUME NEW c \in Changes, handleRenamed(c) PROVE MemoryTypeOK' /\ db' \in Databases
  <2>1. changes[c] \in RowChange /\ changes[c].to # None /\ changes[c].db \in Databases
    BY <1>15 DEF handleRenamed, RowChange
  <2>2. [i \in DOMAIN rows |-> Renamed(rows[i], changes[c])] \in Seq(Row)
    BY <2>1, RenamedRows DEF Row
  <2>3. crossed' \in BOOLEAN
    BY <1>15 DEF handleRenamed
  <2> QED BY <1>13, <1>15, <2>2, <2>3 DEF handleRenamed
<1>16. CASE UNCHANGED memoryVars
  BY <1>16 DEF memoryVars, memoryPart
<1> QED BY <1>1, <1>2, <1>3, <1>4, <1>5, <1>6, <1>7, <1>8, <1>9, <1>10, <1>11, <1>12, <1>14, <1>15, <1>16
        DEF MemoryNext, handleDelete, handleRename

(* A filter that lets more through, or leaves the rows and the filter, keeps *)
(* the page among the rows.                                                 *)
LEMMA PageStays ==
  ASSUME MemoryInv, rows' = rows, letThrough \subseteq letThrough', page' = page, shrunk' = shrunk
  PROVE  ~shrunk' => page' = 0 \/ page' * PageSize < Len(filtered')
<1>1. PICK a, b : a = filtered /\ b = filtered'
  OBVIOUS
<1>2. a = Filtered(rows, Named(letThrough)) /\ b = Filtered(rows, Named(letThrough'))
  BY <1>1 DEF filtered, Shown
<1>3. rows \in Seq(Row) /\ Named(letThrough) \subseteq Named(letThrough')
  BY DEF MemoryInv, MemoryTypeOK, Named
<1>4. Len(a) <= Len(b) /\ Len(a) \in Nat /\ Len(b) \in Nat
  BY <1>2, <1>3, FilteredGrows, FilteredPart DEF FilteredIsPart
<1>5. page * PageSize \in Nat
  BY PageSizeAssumption DEF MemoryInv, MemoryTypeOK
<1> QED BY <1>1, <1>4, <1>5 DEF MemoryInv

LEMMA MemoryInvStep == MemoryInv /\ [MemoryNext]_memoryVars => MemoryInv'
<1> SUFFICES ASSUME MemoryInv, [MemoryNext]_memoryVars PROVE MemoryInv'
  OBVIOUS
<1>0. MemoryTypeOK /\ db \in Databases /\ MemoryTypeOK' /\ db' \in Databases
  BY MemoryTypes DEF MemoryInv
<1>1. ASSUME NEW d \in Databases, ResetView(d) PROVE MemoryInv'
  <2>1. rows' \in Seq(RowsIn(db'))
    BY <1>1 DEF ResetView
  <2> QED BY <1>0, <1>1, <2>1 DEF ResetView, changeDb, GoTo, MemoryInv
<1>2. CASE analyze
  <2>1. rows' \in Seq(RowsIn(db'))
    BY <1>2 DEF analyze
  <2> QED BY <1>0, <1>2, <2>1 DEF analyze, GoTo, MemoryInv
<1>3. CASE AnalysisAnswer
  <2>1. rows' \in Seq(RowsIn(analysis)) /\ analysis # None
    BY <1>0, <1>3, RowsOfAnswer DEF AnalysisAnswer
  <2>2. /\ analysis' = None /\ rowsOf' = analysis
        /\ UNCHANGED <<db, letThrough, page, overtaken, shrunk>>
    BY <1>3 DEF AnalysisAnswer
  <2>3. ~overtaken' => analysis = db' /\ page' = 0
    BY <2>1, <2>2 DEF MemoryInv
  <2>4. page' = 0
    BY <2>1, <2>2 DEF MemoryInv
  <2> QED BY <1>0, <2>1, <2>2, <2>3, <2>4 DEF MemoryInv
<1>4. CASE AnalysisFails
  <2>1. ~shrunk' => page' = 0 \/ page' * PageSize < Len(filtered')
    BY <1>4, PageStays DEF AnalysisFails
  <2> QED BY <1>0, <1>4, <2>1 DEF AnalysisFails, MemoryInv
<1>5. CASE toggleSort \/ Filter \/ FilterAnywhere
  <2>1. UNCHANGED <<db, analysis, rowsOf, overtaken, crossed>> /\ analysis = None /\ page' = 0
    BY <1>5 DEF toggleSort, Filter, FilterAnywhere, Controls, OnPage, GoTo
  <2>2. ASSUME rows \in Seq(RowsIn(db)) PROVE rows' \in Seq(RowsIn(db))
    <3>1. CASE toggleSort
      BY <2>2, <3>1, OrderOf DEF toggleSort
    <3>2. CASE Filter \/ FilterAnywhere
      BY <2>2, <3>2 DEF Filter, FilterAnywhere
    <3> QED BY <1>5, <3>1, <3>2
  <2> QED BY <1>0, <2>1, <2>2 DEF MemoryInv
<1>6. CASE ClearFilter \/ ShowGroups
  <2>1. rows' = rows /\ letThrough \subseteq letThrough' /\ page' = page /\ shrunk' = shrunk
    <3>1. CASE ClearFilter
      BY <3>1 DEF ClearFilter
    <3>2. CASE ShowGroups
      BY <3>2 DEF ShowGroups
    <3> QED BY <1>6, <3>1, <3>2
  <2>2. ~shrunk' => page' = 0 \/ page' * PageSize < Len(filtered')
    BY <2>1, PageStays
  <2>3. Controls
    BY <1>6 DEF ClearFilter, ShowGroups
  <2> QED BY <1>0, <2>1, <2>2, <2>3 DEF Controls, MemoryInv
<1>7. CASE TurnPage
  <2>1. /\ Len(filtered) \in Nat /\ PageSize \in Nat \ {0} /\ page \in Nat /\ totalPages \in Nat
        /\ page * PageSize \in Nat
    BY <1>0, ShownType, PageSizeAssumption DEF MemoryTypeOK
  <2>2. rows' = rows /\ letThrough' = letThrough /\ Controls /\ shrunk' = shrunk
    BY <1>7 DEF TurnPage
  <2>3. filtered' = filtered
    BY <2>2 DEF filtered, Shown
  <2>4. analysis = None
    BY <1>7 DEF TurnPage, TableShown, OnPage
  <2>5. ~shrunk => page' = 0 \/ page' * PageSize < Len(filtered)
    <3>1. CASE CanPageForward /\ page' \in {page + 1, totalPages - 1}
      <4>1. page < totalPages - 1 /\ page' \in {page + 1, totalPages - 1}
        BY <3>1 DEF CanPageForward
      <4>2. page' \in Nat /\ page' + 1 <= totalPages
        <5>1. PICK t \in Nat : t = totalPages
          BY <2>1
        <5>2. page < t - 1 /\ (page' = page + 1 \/ page' = t - 1) /\ page \in Nat
          BY <2>1, <4>1, <5>1
        <5>3. page' \in Nat /\ page' + 1 <= t
          BY <5>2
        <5> QED BY <5>1, <5>3
      <4> QED BY <2>1, <4>2, LastPage DEF totalPages
    <3>2. CASE CanPageBack /\ page' = page - 1
      <4>1. page' * PageSize = page * PageSize - PageSize /\ page - 1 \in Nat
        BY <2>1, <3>2 DEF CanPageBack
      <4>2. ~shrunk => page * PageSize < Len(filtered)
        BY <3>2 DEF CanPageBack, MemoryInv
      <4> QED BY <2>1, <4>1, <4>2
    <3> QED BY <1>7, <3>1, <3>2 DEF TurnPage
  <2> QED BY <1>0, <2>2, <2>3, <2>4, <2>5 DEF Controls, MemoryInv
<1>8. ASSUME NEW c, NEW n, OpenRow(n) \/ SendChange(c, n) \/ CloseRow \/ ChangeFails(c) PROVE MemoryInv'
  <2>1. UNCHANGED <<db, analysis, rows, rowsOf, letThrough, page, overtaken, crossed, shrunk>>
    BY <1>8 DEF OpenRow, SendChange, CloseRow, ChangeFails
  <2>2. ~shrunk' => page' = 0 \/ page' * PageSize < Len(filtered')
    BY <2>1, PageStays
  <2> QED BY <1>0, <2>1, <2>2 DEF MemoryInv
<1>9. ASSUME NEW c \in Changes, NEW list \in Seq(Row), ChangeAnswer(c, list),
             ~overtaken /\ ~crossed' => list \in Seq(RowsIn(db))
      PROVE  MemoryInv'
  <2>1. /\ shrunk' = (shrunk \/ Len(Shown(list)) < Len(filtered)) /\ rows' = list
        /\ UNCHANGED <<db, analysis, rowsOf, letThrough, page, overtaken>>
    BY <1>9 DEF ChangeAnswer
  <2>2. filtered' = Shown(list)
    BY <2>1 DEF filtered, Shown
  <2>3. /\ Len(filtered) \in Nat /\ Len(Shown(list)) \in Nat /\ page * PageSize \in Nat
    BY <1>0, ShownType, FilteredPart, PageSizeAssumption DEF FilteredIsPart, Shown, MemoryTypeOK
  <2>4. ASSUME ~shrunk' PROVE page' = 0 \/ page' * PageSize < Len(filtered')
    <3>1. ~shrunk /\ ~(Len(Shown(list)) < Len(filtered)) /\ page' = page
      BY <2>1, <2>4
    <3>2. page = 0 \/ page * PageSize < Len(filtered)
      BY <3>1 DEF MemoryInv
    <3> QED BY <2>2, <2>3, <3>1, <3>2
  <2> QED BY <1>0, <1>9, <2>1, <2>4 DEF MemoryInv
<1>10. ASSUME NEW c \in Changes, handleDeleted(c) PROVE MemoryInv'
  <2>1. PICK list : list = Filtered(rows, Named(Names \ {changes[c].from}))
    OBVIOUS
  <2>2. list \in Seq(Row)
    BY <1>0, <2>1, FilteredPart DEF FilteredIsPart, MemoryTypeOK
  <2>3. ~overtaken /\ ~crossed => list \in Seq(RowsIn(db))
    BY <2>1, FilteredPart DEF FilteredIsPart, MemoryInv
  <2> QED BY <1>9, <1>10, <2>1, <2>2, <2>3 DEF handleDeleted
<1>11. ASSUME NEW c \in Changes, handleRenamed(c) PROVE MemoryInv'
  <2>1. PICK chg, list : chg = changes[c] /\ list = [i \in DOMAIN rows |-> Renamed(rows[i], chg)]
    OBVIOUS
  <2>2. /\ chg \in RowChange /\ chg.to # None /\ chg.db \in Databases /\ ChangeAnswer(c, list)
        /\ crossed' = (crossed \/ \E i \in DOMAIN rows : rows[i].name = chg.from /\ rows[i].db # chg.db)
    BY <1>0, <1>11, <2>1 DEF handleRenamed, RowChange, MemoryTypeOK
  <2>3. list \in Seq(Row)
    BY <1>0, <2>1, <2>2, RenamedRows DEF Row, MemoryTypeOK
  <2>4. ASSUME ~overtaken, ~crossed' PROVE list \in Seq(RowsIn(db))
    <3>1. rows \in Seq(RowsIn(db)) /\ \A i \in DOMAIN rows : rows[i].name = chg.from => rows[i].db = chg.db
      BY <2>2, <2>4 DEF MemoryInv
    <3>2. \A i \in DOMAIN rows : rows[i].db = db
      BY <3>1, RowsAre
    <3>3. \A i \in DOMAIN rows : rows[i].name = chg.from => chg.db \in {db}
      BY <3>1, <3>2
    <3> QED BY <2>1, <2>2, <3>1, <3>3, RenamedRows DEF RowsIn
  <2> QED BY <1>9, <2>2, <2>3, <2>4
<1>12. CASE UNCHANGED memoryVars
  <2>1. ~shrunk' => page' = 0 \/ page' * PageSize < Len(filtered')
    BY <1>12, PageStays DEF memoryVars, memoryPart
  <2> QED BY <1>0, <1>12, <2>1 DEF memoryVars, memoryPart, MemoryInv
<1> QED BY <1>1, <1>2, <1>3, <1>4, <1>5, <1>6, <1>7, <1>8, <1>10, <1>11, <1>12
        DEF MemoryNext, handleDelete, handleRename

LEMMA MemoryInvShows == MemoryInv => TableIsTrue
<1> SUFFICES ASSUME MemoryInv PROVE TableIsTrue
  OBVIOUS
<1>1. ASSUME filtered # <<>>, ~shrunk PROVE paged # <<>>
  <2>1. Len(filtered) \in Nat /\ filtered \in Seq(Row)
    BY ShownType DEF MemoryInv
  <2>2. 0 < Len(filtered) /\ 0 * PageSize = 0
    BY <1>1, <2>1, PageSizeAssumption
  <2>3. page * PageSize < Len(filtered)
    BY <1>1, <2>2 DEF MemoryInv
  <2> QED BY <2>3, PagedSome DEF MemoryInv
<1>2. ASSUME ~overtaken, ~crossed PROVE \A i \in DOMAIN rows : rows[i].db = db
  BY <1>2, RowsAre DEF MemoryInv
<1> QED BY <1>1, <1>2 DEF MemoryInv, TableIsTrue

(* The rows of MemoryView's table are keys of the database selected, unless *)
(* that was switched while an analysis was on its way or a renaming in      *)
(* another one was answered late; and the table never shows an empty page   *)
(* of a list that has rows, unless rows were deleted or renamed since the   *)
(* page was chosen.                                                         *)
THEOREM TableShowsTheRows == MemorySpec => []TableIsTrue
<1>1. MemoryInit => MemoryInv
  BY MemoryInitInv
<1>2. MemoryInv /\ [MemoryNext]_memoryVars => MemoryInv'
  BY MemoryInvStep
<1>3. MemoryInv => TableIsTrue
  BY MemoryInvShows
<1> QED BY <1>1, <1>2, <1>3, PTL DEF MemorySpec

-----------------------------------------------------------------------------
(* The comparison of two texts.  A cell of computeDiff's table for l and r, *)
(* and the table.                                                           *)
Cells(l, r) == (0 .. Len(l)) \X (0 .. Len(r))

Cell(l, r, g, c) ==
  IF c[1] = 0 \/ c[2] = 0 THEN 0
  ELSE IF l[c[1]] = r[c[2]] THEN g[<<c[1] - 1, c[2] - 1>>] + 1
  ELSE Max({g[<<c[1] - 1, c[2]>>], g[<<c[1], c[2] - 1>>]})

IsTable(l, r, g) == g = [c \in Cells(l, r) |-> Cell(l, r, g, c)]

LEMMA CellDepends ==
  ASSUME NEW l, NEW r, NEW g, NEW h, Len(l) \in Nat, Len(r) \in Nat, NEW k \in Nat,
         \A c \in Cells(l, r) : c[1] + c[2] <= k => h[c] = g[c],
         NEW c \in Cells(l, r), c[1] + c[2] <= k + 1
  PROVE  Cell(l, r, h, c) = Cell(l, r, g, c)
<1>1. PICK x \in 0 .. Len(l), y \in 0 .. Len(r) : c[1] = x /\ c[2] = y
  BY DEF Cells
<1>2. CASE x = 0 \/ y = 0
  BY <1>1, <1>2 DEF Cell
<1>3. CASE x # 0 /\ y # 0
  <2>1. x - 1 \in 0 .. Len(l) /\ y - 1 \in 0 .. Len(r) /\ x + y <= k + 1
    BY <1>1, <1>3
  <2>2. ASSUME NEW a \in 0 .. Len(l), NEW b \in 0 .. Len(r), a + b <= k PROVE h[<<a, b>>] = g[<<a, b>>]
    <3>1. PICK d : d = <<a, b>>
      OBVIOUS
    <3>2. d \in Cells(l, r) /\ d[1] = a /\ d[2] = b
      BY <3>1 DEF Cells
    <3> QED BY <2>2, <3>1, <3>2
  <2>3. h[<<x - 1, y - 1>>] = g[<<x - 1, y - 1>>]
    BY <2>1, <2>2
  <2>4. h[<<x - 1, y>>] = g[<<x - 1, y>>]
    BY <2>1, <2>2
  <2>5. h[<<x, y - 1>>] = g[<<x, y - 1>>]
    BY <2>1, <2>2
  <2> QED BY <1>1, <2>3, <2>4, <2>5 DEF Cell
<1> QED BY <1>2, <1>3

LEMMA SumOfCell ==
  ASSUME NEW l, NEW r, Len(l) \in Nat, Len(r) \in Nat, NEW c \in Cells(l, r)
  PROVE  c[1] + c[2] \in Nat /\ c[1] + c[2] <= Len(l) + Len(r) /\ Len(l) + Len(r) \in Nat
BY DEF Cells

LEMMA TableExists ==
  ASSUME NEW l, NEW r, Len(l) \in Nat, Len(r) \in Nat
  PROVE  \E g : IsTable(l, r, g)
<1>1. PICK D : D = Cells(l, r)
  OBVIOUS
<1>2. PICK P : P = {k \in Nat : \E g : /\ DOMAIN g = D /\ g = [c \in D |-> g[c]]
                                       /\ \A c \in D : c[1] + c[2] <= k => g[c] = Cell(l, r, g, c)}
  OBVIOUS
<1>3. \A c \in D : c[1] + c[2] \in Nat /\ c[1] + c[2] <= Len(l) + Len(r)
  BY <1>1, SumOfCell
<1>4. 0 \in P
  <2>1. PICK g : g = [c \in D |-> 0]
    OBVIOUS
  <2>2. ASSUME NEW c \in D, c[1] + c[2] <= 0 PROVE g[c] = Cell(l, r, g, c)
    <3>1. c[1] = 0
      BY <1>1, <2>2 DEF Cells
    <3> QED BY <2>1, <2>2, <3>1 DEF Cell
  <2>3. DOMAIN g = D /\ g = [c \in D |-> g[c]]
    BY <2>1
  <2> QED BY <1>2, <2>2, <2>3
<1>5. ASSUME NEW k \in Nat, k \in P PROVE k + 1 \in P
  <2>1. PICK g : /\ DOMAIN g = D /\ g = [c \in D |-> g[c]]
                 /\ \A c \in D : c[1] + c[2] <= k => g[c] = Cell(l, r, g, c)
    BY <1>2, <1>5
  <2>2. PICK h : h = [c \in D |-> IF c[1] + c[2] <= k THEN g[c] ELSE Cell(l, r, g, c)]
    OBVIOUS
  <2>3. DOMAIN h = D /\ h = [c \in D |-> h[c]]
    BY <2>2
  <2>4. \A c \in D : c[1] + c[2] <= k => h[c] = g[c]
    BY <2>2
  <2>5. ASSUME NEW c \in D, c[1] + c[2] <= k + 1 PROVE h[c] = Cell(l, r, h, c)
    <3>1. Cell(l, r, h, c) = Cell(l, r, g, c)
      BY <1>1, <2>4, <2>5, CellDepends
    <3>2. h[c] = Cell(l, r, g, c)
      BY <2>1, <2>2, <2>5
    <3> QED BY <3>1, <3>2
  <2>6. k + 1 \in Nat
    BY <1>5
  <2> QED BY <1>2, <2>3, <2>5, <2>6
<1>6. Len(l) + Len(r) \in P
  <2>1. \A n \in Nat : n \in P
    BY <1>4, <1>5, NatInd
  <2> QED BY <2>1
<1>7. PICK g : /\ DOMAIN g = D /\ g = [c \in D |-> g[c]]
               /\ \A c \in D : c[1] + c[2] <= Len(l) + Len(r) => g[c] = Cell(l, r, g, c)
  BY <1>2, <1>6
<1>8. \A c \in D : g[c] = Cell(l, r, g, c)
  BY <1>3, <1>7
<1>9. [c \in D |-> g[c]] = [c \in D |-> Cell(l, r, g, c)]
  BY <1>8
<1>10. g = [c \in D |-> Cell(l, r, g, c)]
  BY <1>7, <1>9
<1>11. IsTable(l, r, g)
  BY <1>1, <1>10 DEF IsTable
<1> QED BY <1>11

(* The table.                                                               *)
Longest(l, r) == CHOOSE g : IsTable(l, r, g)

LEMMA TableIs == dp = Longest(leftText, rightText)
BY DEF dp, Longest, IsTable, Cell, Cells

LEMMA MaxOfTwo ==
  ASSUME NEW a \in Nat, NEW b \in Nat
  PROVE  Max({a, b}) = IF a >= b THEN a ELSE b
<1>1. PICK m \in {a, b} : \A n \in {a, b} : m >= n
  OBVIOUS
<1>2. Max({a, b}) \in {a, b} /\ \A n \in {a, b} : Max({a, b}) >= n
  BY <1>1 DEF Max
<1> QED BY <1>2

(* What is in its cells.                                                    *)
LcsCell(t, l, r, x, y) ==
  /\ t[<<x, y>>] \in Nat
  /\ x = 0 \/ y = 0 => t[<<x, y>>] = 0
  /\ x # 0 /\ y # 0 /\ l[x] = r[y] => t[<<x, y>>] = t[<<x - 1, y - 1>>] + 1
  /\ x # 0 /\ y # 0 /\ l[x] # r[y] =>
       t[<<x, y>>] = IF t[<<x - 1, y>>] >= t[<<x, y - 1>>] THEN t[<<x - 1, y>>] ELSE t[<<x, y - 1>>]

LEMMA RowOfTable ==
  ASSUME NEW l, NEW r, NEW t, Len(l) \in Nat, Len(r) \in Nat, IsTable(l, r, t)
  PROVE  \A x \in 0 .. Len(l), y \in 0 .. Len(r) : LcsCell(t, l, r, x, y)
<1>1. ASSUME NEW x \in 0 .. Len(l), NEW y \in 0 .. Len(r) PROVE t[<<x, y>>] = Cell(l, r, t, <<x, y>>)
  <2>1. PICK c : c = <<x, y>>
    OBVIOUS
  <2>2. c \in Cells(l, r)
    BY <2>1 DEF Cells
  <2>3. t[c] = Cell(l, r, t, c)
    BY <2>2 DEF IsTable
  <2> QED BY <2>1, <2>3
<1>2. PICK P : P = {k \in Nat : \A x \in 0 .. Len(l), y \in 0 .. Len(r) : x + y <= k => LcsCell(t, l, r, x, y)}
  OBVIOUS
<1>3. 0 \in P
  <2>1. ASSUME NEW x \in 0 .. Len(l), NEW y \in 0 .. Len(r), x + y <= 0 PROVE LcsCell(t, l, r, x, y)
    <3>1. x = 0 /\ y = 0
      BY <2>1
    <3>2. t[<<x, y>>] = 0
      BY <1>1, <3>1 DEF Cell
    <3> QED BY <3>1, <3>2 DEF LcsCell
  <2> QED BY <1>2, <2>1
<1>4. ASSUME NEW k \in Nat, k \in P PROVE k + 1 \in P
  <2>1. ASSUME NEW x \in 0 .. Len(l), NEW y \in 0 .. Len(r), x + y <= k + 1 PROVE LcsCell(t, l, r, x, y)
    <3>1. CASE x = 0 \/ y = 0
      <4>1. t[<<x, y>>] = 0
        BY <1>1, <3>1 DEF Cell
      <4> QED BY <3>1, <4>1 DEF LcsCell
    <3>2. CASE x # 0 /\ y # 0
      <4>1. PICK a, b : a = x - 1 /\ b = y - 1
        OBVIOUS
      <4>2. a \in 0 .. Len(l) /\ b \in 0 .. Len(r) /\ a + b <= k /\ x + b <= k /\ a + y <= k
        BY <2>1, <3>2, <4>1
      <4>3. t[<<a, b>>] \in Nat /\ t[<<x, b>>] \in Nat /\ t[<<a, y>>] \in Nat
        BY <1>2, <1>4, <4>2 DEF LcsCell
      <4>4. t[<<x, y>>] = IF l[x] = r[y] THEN t[<<a, b>>] + 1 ELSE Max({t[<<a, y>>], t[<<x, b>>]})
        BY <1>1, <3>2, <4>1 DEF Cell
      <4>5. Max({t[<<a, y>>], t[<<x, b>>]}) = IF t[<<a, y>>] >= t[<<x, b>>] THEN t[<<a, y>>] ELSE t[<<x, b>>]
        BY <4>3, MaxOfTwo
      <4>6. t[<<x, y>>] \in Nat
        BY <4>3, <4>4, <4>5
      <4> QED BY <3>2, <4>1, <4>4, <4>5, <4>6 DEF LcsCell
    <3> QED BY <3>1, <3>2
  <2> QED BY <1>2, <1>4, <2>1
<1>5. \A n \in Nat : n \in P
  BY <1>3, <1>4, NatInd
<1>6. ASSUME NEW x \in 0 .. Len(l), NEW y \in 0 .. Len(r) PROVE LcsCell(t, l, r, x, y)
  <2>1. x + y \in Nat /\ x + y <= x + y
    OBVIOUS
  <2> QED BY <1>2, <1>5, <2>1
<1> QED BY <1>6

LEMMA LongestIs ==
  ASSUME NEW l, NEW r, Len(l) \in Nat, Len(r) \in Nat
  PROVE  \A x \in 0 .. Len(l), y \in 0 .. Len(r) : LcsCell(Longest(l, r), l, r, x, y)
<1>1. IsTable(l, r, Longest(l, r))
  BY TableExists DEF Longest
<1> QED BY <1>1, RowOfTable

(* A way to pair equal lines among the first x of l and the first y of r.    *)
PairsUpTo(l, r, x, y) == {p \in (1 .. x) \X (1 .. y) : l[p[1]] = r[p[2]]}
InOrder(Q) == \A p, q \in Q : p[1] < q[1] <=> p[2] < q[2]

LEMMA PairIs ==
  ASSUME NEW l, NEW r, NEW x \in Nat, NEW y \in Nat, NEW p \in PairsUpTo(l, r, x, y)
  PROVE  /\ p[1] \in 1 .. x /\ p[2] \in 1 .. y /\ l[p[1]] = r[p[2]]
         /\ \A a, b \in Nat : p[1] <= a /\ p[2] <= b => p \in PairsUpTo(l, r, a, b)
BY DEF PairsUpTo

(* The same of every pair of a set of pairs.                                *)
LEMMA PairsAre ==
  ASSUME NEW l, NEW r, NEW x \in Nat, NEW y \in Nat, NEW Q \in SUBSET PairsUpTo(l, r, x, y)
  PROVE  /\ \A p \in Q : p[1] \in 1 .. x /\ p[2] \in 1 .. y /\ l[p[1]] = r[p[2]]
         /\ \A p \in Q, a, b \in Nat : p[1] <= a /\ p[2] <= b => p \in PairsUpTo(l, r, a, b)
BY DEF PairsUpTo

LEMMA PairsFinite ==
  ASSUME NEW l, NEW r, NEW x \in Nat, NEW y \in Nat, NEW Q \in SUBSET PairsUpTo(l, r, x, y)
  PROVE  IsFiniteSet(Q) /\ Cardinality(Q) \in Nat
<1>1. PICK A, B : A = 1 .. x /\ B = 1 .. y
  OBVIOUS
<1>2. IsFiniteSet(A) /\ IsFiniteSet(B)
  <2>1. 1 \in Int /\ x \in Int /\ y \in Int
    OBVIOUS
  <2> QED BY <1>1, <2>1, FS_Interval
<1>3. IsFiniteSet(A \X B)
  BY <1>2, FS_Product
<1>4. Q \in SUBSET (A \X B)
  BY <1>1 DEF PairsUpTo
<1>5. IsFiniteSet(Q)
  BY <1>3, <1>4, FS_Subset
<1> QED BY <1>5, FS_CardinalityType

(* No pairing has more pairs than the cell of the table says.               *)
LEMMA NoLongerPairing ==
  ASSUME NEW l, NEW r, Len(l) \in Nat, Len(r) \in Nat, NEW t, NEW Q \in SUBSET PairsUpTo(l, r, Len(l), Len(r)), InOrder(Q),
         \A x \in 0 .. Len(l), y \in 0 .. Len(r) : LcsCell(t, l, r, x, y)
  PROVE  Cardinality(Q) <= t[<<Len(l), Len(r)>>]
<1>1. PICK P : P = {k \in Nat : \A x \in 0 .. Len(l), y \in 0 .. Len(r) : x + y <= k =>
                      \A R \in SUBSET PairsUpTo(l, r, x, y) : InOrder(R) => Cardinality(R) <= t[<<x, y>>]}
  OBVIOUS
<1>2. ASSUME NEW x \in 0 .. Len(l), NEW y \in 0 .. Len(r), x = 0 \/ y = 0, NEW R \in SUBSET PairsUpTo(l, r, x, y)
      PROVE  Cardinality(R) <= t[<<x, y>>]
  <2>1. R = {}
    <3>1. \A p \in R : p[1] \in 1 .. x /\ p[2] \in 1 .. y
      BY <1>2, PairIs
    <3> QED BY <1>2, <3>1
  <2>2. Cardinality(R) = 0
    BY <2>1, FS_EmptySet
  <2>3. t[<<x, y>>] = 0
    BY <1>2 DEF LcsCell
  <2> QED BY <2>2, <2>3
<1>3. 0 \in P
  <2>1. ASSUME NEW x \in 0 .. Len(l), NEW y \in 0 .. Len(r), x + y <= 0 PROVE x = 0
    BY <2>1
  <2> QED BY <1>1, <1>2, <2>1
<1>4. ASSUME NEW k \in Nat, k \in P PROVE k + 1 \in P
  <2>1. ASSUME NEW x \in 0 .. Len(l), NEW y \in 0 .. Len(r), x + y <= k + 1, NEW R \in SUBSET PairsUpTo(l, r, x, y), InOrder(R),
               x # 0, y # 0
        PROVE  Cardinality(R) <= t[<<x, y>>]
    <3>1. PICK a, b : a = x - 1 /\ b = y - 1
      OBVIOUS
    <3>2. /\ a \in 0 .. Len(l) /\ b \in 0 .. Len(r) /\ a + b <= k /\ x + b <= k /\ a + y <= k
          /\ a \in Nat /\ b \in Nat /\ x \in Nat /\ y \in Nat
      BY <2>1, <3>1
    <3>3. /\ \A S \in SUBSET PairsUpTo(l, r, a, b) : InOrder(S) => Cardinality(S) <= t[<<a, b>>]
          /\ \A S \in SUBSET PairsUpTo(l, r, x, b) : InOrder(S) => Cardinality(S) <= t[<<x, b>>]
          /\ \A S \in SUBSET PairsUpTo(l, r, a, y) : InOrder(S) => Cardinality(S) <= t[<<a, y>>]
      BY <1>1, <1>4, <2>1, <3>2
    <3>4. /\ t[<<x, y>>] \in Nat /\ t[<<a, b>>] \in Nat /\ t[<<x, b>>] \in Nat /\ t[<<a, y>>] \in Nat
          /\ l[x] = r[y] => t[<<x, y>>] = t[<<a, b>>] + 1
          /\ l[x] # r[y] => t[<<x, y>>] = IF t[<<a, y>>] >= t[<<x, b>>] THEN t[<<a, y>>] ELSE t[<<x, b>>]
      BY <2>1, <3>1, <3>2 DEF LcsCell
    <3>5. IsFiniteSet(R) /\ Cardinality(R) \in Nat
      BY <2>1, <3>2, PairsFinite
    <3>6. /\ \A p \in R : p[1] \in 1 .. x /\ p[2] \in 1 .. y /\ l[p[1]] = r[p[2]]
          /\ \A p \in R, c, d \in Nat : p[1] <= c /\ p[2] <= d => p \in PairsUpTo(l, r, c, d)
      BY <2>1, <3>2, PairsAre
    <3>7. \A p, q \in R : p[1] < q[1] <=> p[2] < q[2]
      BY <2>1 DEF InOrder
    <3>8. CASE l[x] = r[y]
      <4>1. CASE \A p \in R : p[1] # x /\ p[2] # y
        <5>1. ASSUME NEW p \in R PROVE p \in PairsUpTo(l, r, a, b)
          <6>1. p[1] <= a /\ p[2] <= b
            BY <3>1, <3>2, <3>6, <4>1, <5>1
          <6> QED BY <3>2, <3>6, <5>1, <6>1
        <5>2. Cardinality(R) <= t[<<a, b>>]
          BY <2>1, <3>3, <5>1
        <5> QED BY <3>4, <3>5, <3>8, <5>2
      <4>2. ASSUME NEW q \in R, q[1] = x \/ q[2] = y PROVE Cardinality(R) <= t[<<x, y>>]
        <5>1. ASSUME NEW p \in R, p # q PROVE p \in PairsUpTo(l, r, a, b)
          <6>1. p \in PairsUpTo(l, r, x, y) /\ q \in PairsUpTo(l, r, x, y)
            BY <2>1, <4>2, <5>1
          <6>2. ~(p[1] = q[1] /\ p[2] = q[2])
            BY <5>1, <6>1 DEF PairsUpTo
          <6>3. p[1] < x /\ p[2] < y
            BY <3>2, <3>6, <3>7, <4>2, <5>1, <6>2
          <6>4. p[1] <= a /\ p[2] <= b
            BY <3>1, <3>2, <3>6, <5>1, <6>3
          <6> QED BY <3>2, <3>6, <5>1, <6>4
        <5>2. PICK S : S = R \ {q}
          OBVIOUS
        <5>3. S \in SUBSET PairsUpTo(l, r, a, b) /\ InOrder(S)
          BY <3>7, <5>1, <5>2 DEF InOrder
        <5>4. Cardinality(S) <= t[<<a, b>>]
          BY <3>3, <5>3
        <5>5. Cardinality(S) = Cardinality(R) - 1
          BY <3>5, <4>2, <5>2, FS_RemoveElement
        <5> QED BY <3>4, <3>5, <3>8, <5>4, <5>5
      <4> QED BY <4>1, <4>2
    <3>9. CASE l[x] # r[y]
      <4>1. CASE \A p \in R : p[1] # x
        <5>1. ASSUME NEW p \in R PROVE p \in PairsUpTo(l, r, a, y)
          <6>1. p[1] <= a /\ p[2] <= y
            BY <3>1, <3>2, <3>6, <4>1, <5>1
          <6> QED BY <3>2, <3>6, <5>1, <6>1
        <5>2. Cardinality(R) <= t[<<a, y>>]
          BY <2>1, <3>3, <5>1
        <5> QED BY <3>4, <3>5, <3>9, <5>2
      <4>2. ASSUME NEW q \in R, q[1] = x PROVE Cardinality(R) <= t[<<x, y>>]
        <5>1. q[2] < y
          BY <3>2, <3>6, <3>9, <4>2
        <5>2. ASSUME NEW p \in R PROVE p \in PairsUpTo(l, r, x, b)
          <6>1. p[2] <= q[2]
            BY <3>2, <3>6, <3>7, <4>2, <5>2, SMTT(30)
          <6>2. p[1] <= x /\ p[2] <= b
            BY <3>1, <3>2, <3>6, <4>2, <5>1, <5>2, <6>1
          <6> QED BY <3>2, <3>6, <5>2, <6>2
        <5>3. Cardinality(R) <= t[<<x, b>>]
          BY <2>1, <3>3, <5>2
        <5> QED BY <3>4, <3>5, <3>9, <5>3
      <4> QED BY <4>1, <4>2
    <3> QED BY <3>8, <3>9
  <2>2. ASSUME NEW x \in 0 .. Len(l), NEW y \in 0 .. Len(r), x + y <= k + 1,
               NEW R \in SUBSET PairsUpTo(l, r, x, y), InOrder(R)
        PROVE  Cardinality(R) <= t[<<x, y>>]
    BY <1>2, <2>1, <2>2
  <2>3. k + 1 \in Nat
    BY <1>4
  <2> QED BY <1>1, <2>2, <2>3
<1>5. \A n \in Nat : n \in P
  BY <1>3, <1>4, NatInd
<1>6. Len(l) + Len(r) \in P /\ Len(l) \in 0 .. Len(l) /\ Len(r) \in 0 .. Len(r) /\ Len(l) + Len(r) <= Len(l) + Len(r)
  BY <1>5
<1> QED BY <1>1, <1>6

Sames == {"same"}

(* What of the lines so far a panel shows.                                  *)
LinesOf(list, types) == Filtered(list, [type : types, text : Lines])
ShownOf(list, side) == [n \in DOMAIN LinesOf(list, {"same", side}) |-> LinesOf(list, {"same", side})[n].text]

LEMMA LinesPushed ==
  ASSUME NEW list \in Seq(Ops), NEW o \in Ops, NEW types
  PROVE  /\ LinesOf(list, types) \in Seq(Ops) /\ Len(LinesOf(list, types)) \in Nat
         /\ o.type \in types => LinesOf(<<o>> \o list, types) = <<o>> \o LinesOf(list, types)
         /\ o.type \notin types => LinesOf(<<o>> \o list, types) = LinesOf(list, types)
<1>1. PICK S : S = [type : types, text : Lines]
  OBVIOUS
<1>2. LinesOf(list, types) \in Seq(Ops) /\ Len(LinesOf(list, types)) \in Nat
  <2>1. FilteredIsPart(list, S, Ops)
    BY FilteredPart
  <2> QED BY <1>1, <2>1 DEF FilteredIsPart, LinesOf
<1>3. o.type \in types <=> o \in S
  BY <1>1 DEF Ops
<1>4. PICK one : one = <<o>>
  OBVIOUS
<1>5. one \in Seq(Ops)
  BY <1>4
<1>6. Filtered(one \o list, S) = Filtered(one, S) \o Filtered(list, S)
  BY <1>5, FilteredConcat
<1>7. Filtered(one, S) = IF o \in S THEN one ELSE <<>>
  BY <1>4, FilteredOne
<1>8. <<>> \o LinesOf(list, types) = LinesOf(list, types)
  BY <1>2
<1> QED BY <1>1, <1>2, <1>3, <1>4, <1>6, <1>7, <1>8 DEF LinesOf

LEMMA ShownPushed ==
  ASSUME NEW list \in Seq(Ops), NEW o \in Ops, NEW side
  PROVE  /\ ShownOf(list, side) \in Seq(Lines)
         /\ o.type \in {"same", side} => ShownOf(<<o>> \o list, side) = <<o.text>> \o ShownOf(list, side)
         /\ o.type \notin {"same", side} => ShownOf(<<o>> \o list, side) = ShownOf(list, side)
<1>1. PICK types : types = {"same", side}
  OBVIOUS
<1>2. PICK s : s = LinesOf(list, types)
  OBVIOUS
<1>3. PICK t : t = LinesOf(<<o>> \o list, types)
  OBVIOUS
<1>4. /\ s \in Seq(Ops) /\ Len(s) \in Nat /\ DOMAIN s = 1 .. Len(s)
      /\ (o.type \in types => t = <<o>> \o s) /\ (o.type \notin types => t = s)
  <2>1. s \in Seq(Ops) /\ Len(s) \in Nat
    BY <1>2, LinesPushed
  <2>2. o.type \in types => t = <<o>> \o s
    BY <1>2, <1>3, LinesPushed
  <2>3. o.type \notin types => t = s
    BY <1>2, <1>3, LinesPushed
  <2>4. DOMAIN s = 1 .. Len(s)
    BY <2>1
  <2> QED BY <2>1, <2>2, <2>3, <2>4
<1>5. PICK f : f = [n \in 1 .. Len(s) |-> s[n].text]
  OBVIOUS
<1>6. ShownOf(list, side) = f
  BY <1>1, <1>2, <1>4, <1>5 DEF ShownOf
<1>7. f \in Seq(Lines) /\ Len(f) = Len(s)
  <2>1. \A n \in 1 .. Len(s) : s[n] \in Ops
    BY <1>4
  <2>2. \A n \in 1 .. Len(s) : s[n].text \in Lines
    BY <2>1 DEF Ops
  <2> QED BY <1>4, <1>5, <2>2
<1>8. ASSUME o.type \in types PROVE ShownOf(<<o>> \o list, side) = <<o.text>> \o f
  <2>1. /\ t \in Seq(Ops) /\ Len(t) = Len(s) + 1 /\ t[1] = o /\ \A n \in 2 .. Len(s) + 1 : t[n] = s[n - 1]
    <3>1. t = <<o>> \o s /\ s \in Seq(Ops)
      BY <1>4, <1>8
    <3>2. PICK U : U = Ops
      OBVIOUS
    <3>3. s \in Seq(U) /\ o \in U
      BY <3>1, <3>2
    <3>4. t \in Seq(U) /\ Len(t) = Len(s) + 1 /\ t[1] = o /\ \A n \in 2 .. Len(s) + 1 : t[n] = s[n - 1]
      BY <3>1, <3>3
    <3> QED BY <3>2, <3>4
  <2>2. DOMAIN t = 1 .. Len(s) + 1
    BY <1>4, <2>1
  <2>3. PICK g : g = [n \in 1 .. Len(s) + 1 |-> t[n].text]
    OBVIOUS
  <2>4. ShownOf(<<o>> \o list, side) = g
    BY <1>1, <1>3, <2>2, <2>3 DEF ShownOf
  <2>5. o.text \in Lines
    BY DEF Ops
  <2>6. PICK h : h = <<o.text>> \o f
    OBVIOUS
  <2>7. h \in Seq(Lines) /\ Len(h) = Len(s) + 1 /\ h[1] = o.text /\ \A n \in 2 .. Len(s) + 1 : h[n] = f[n - 1]
    BY <1>4, <1>7, <2>5, <2>6
  <2>8. ASSUME NEW n \in 1 .. Len(s) + 1 PROVE h[n] = t[n].text
    <3>1. CASE n = 1
      BY <2>1, <2>7, <3>1
    <3>2. CASE n # 1
      <4>1. n \in 2 .. Len(s) + 1 /\ n - 1 \in 1 .. Len(s)
        BY <1>4, <2>8, <3>2
      <4>2. t[n] = s[n - 1] /\ h[n] = f[n - 1] /\ f[n - 1] = s[n - 1].text
        BY <1>5, <2>1, <2>7, <4>1
      <4> QED BY <4>2
    <3> QED BY <3>1, <3>2
  <2>9. h = g
    <3>1. h = [n \in 1 .. Len(s) + 1 |-> h[n]]
      BY <1>4, <2>7
    <3> QED BY <2>3, <2>8, <3>1
  <2> QED BY <2>4, <2>6, <2>9
<1>9. ASSUME o.type \notin types PROVE ShownOf(<<o>> \o list, side) = f
  BY <1>1, <1>3, <1>4, <1>5, <1>9 DEF ShownOf
<1> QED BY <1>1, <1>6, <1>7, <1>8, <1>9

(* The rest of a text, from a line of it on.                                *)
LEMMA RestFrom ==
  ASSUME NEW s \in Seq(Lines), NEW k \in 1 .. Len(s)
  PROVE  SubSeq(s, k, Len(s)) = <<s[k]>> \o SubSeq(s, k + 1, Len(s))
<1>1. PICK n \in Nat : n = Len(s)
  OBVIOUS
<1>2. PICK a, b : a = SubSeq(s, k, n) /\ b = SubSeq(s, k + 1, n)
  OBVIOUS
<1>3. a \in Seq(Lines) /\ Len(a) = n - k + 1 /\ \A i \in 1 .. n - k + 1 : a[i] = s[k + i - 1]
  BY <1>1, <1>2
<1>4. b \in Seq(Lines) /\ Len(b) = n - k /\ \A i \in 1 .. n - k : b[i] = s[k + i]
  BY <1>1, <1>2
<1>5. PICK c : c = <<s[k]>> \o b
  OBVIOUS
<1>6. c \in Seq(Lines) /\ Len(c) = n - k + 1 /\ c[1] = s[k] /\ \A i \in 2 .. n - k + 1 : c[i] = b[i - 1]
  BY <1>1, <1>4, <1>5
<1>7. ASSUME NEW i \in 1 .. n - k + 1 PROVE c[i] = a[i]
  <2>1. CASE i = 1
    BY <1>1, <1>3, <1>6, <2>1
  <2>2. CASE i # 1
    <3>1. i \in 2 .. n - k + 1 /\ i - 1 \in 1 .. n - k /\ k + (i - 1) = k + i - 1
      BY <1>1, <1>7, <2>2
    <3> QED BY <1>3, <1>4, <1>6, <1>7, <3>1
  <2> QED BY <2>1, <2>2
<1>8. c = a
  BY <1>3, <1>6, <1>7
<1> QED BY <1>1, <1>2, <1>5, <1>8

-----------------------------------------------------------------------------
(* The lines that are the same so far, and the most that can still be, are   *)
(* the most that there can be.                                              *)
TextInv ==
  /\ TextTypeOK
  /\ Panel("left-only") = SubSeq(leftText, atLeft + 1, Len(leftText))
  /\ Panel("right-only") = SubSeq(rightText, atRight + 1, Len(rightText))
  /\ Len(OfType(Sames)) + dp[<<atLeft, atRight>>] = dp[<<Len(leftText), Len(rightText)>>]

LEMMA TextTypes ==
  ASSUME TextTypeOK
  PROVE  /\ leftText \in Seq(Lines) /\ rightText \in Seq(Lines) /\ Len(leftText) \in Nat /\ Len(rightText) \in Nat
         /\ atLeft \in 0 .. Len(leftText) /\ atRight \in 0 .. Len(rightText) /\ ops \in Seq(Ops)
<1>1. \A s \in BoundedSeq(Lines, MaxLines) : s \in Seq(Lines)
  BY MaxLinesAssumption DEF BoundedSeq, SeqOf
<1> QED BY <1>1 DEF TextTypeOK

(* One line put in front of the lines so far.                               *)
LEMMA Steps ==
  ASSUME TextInv, NEW type \in {"same", "left-only", "right-only"}, NEW text \in Lines, Step(type, text)
  PROVE  /\ ops' \in Seq(Ops) /\ leftText' = leftText /\ rightText' = rightText /\ dp' = dp
         /\ Panel("left-only")' = IF type \in {"same", "left-only"} THEN <<text>> \o Panel("left-only") ELSE Panel("left-only")
         /\ Panel("right-only")' = IF type \in {"same", "right-only"} THEN <<text>> \o Panel("right-only") ELSE Panel("right-only")
         /\ Len(OfType(Sames)) \in Nat
         /\ Len(OfType(Sames))' = IF type = "same" THEN Len(OfType(Sames)) + 1 ELSE Len(OfType(Sames))
<1>1. PICK o : o = [type |-> type, text |-> text]
  OBVIOUS
<1>2. o \in Ops /\ o.type = type /\ o.text = text
  BY <1>1 DEF Ops
<1>3. ops \in Seq(Ops) /\ ops' = <<o>> \o ops /\ leftText' = leftText /\ rightText' = rightText
  BY <1>1, TextTypes DEF Step, TextInv
<1>4. <<o>> \o ops \in Seq(Ops)
  BY <1>2, <1>3
<1>5. dp' = dp
  BY <1>3 DEF dp
<1>6. \A side \in {"left-only", "right-only"} :
        /\ Panel(side)' = ShownOf(<<o>> \o ops, side) /\ Panel(side) = ShownOf(ops, side)
  BY <1>3 DEF Panel, OfType, ShownOf, LinesOf
<1>7. \A side \in {"left-only", "right-only"} :
        Panel(side)' = IF type \in {"same", side} THEN <<text>> \o Panel(side) ELSE Panel(side)
  BY <1>2, <1>3, <1>6, ShownPushed, ZenonT(40)
<1>8. OfType(Sames)' = LinesOf(<<o>> \o ops, Sames) /\ OfType(Sames) = LinesOf(ops, Sames)
  BY <1>3 DEF OfType, LinesOf, Sames
<1>9. /\ LinesOf(ops, Sames) \in Seq(Ops) /\ Len(LinesOf(ops, Sames)) \in Nat
      /\ type = "same" => LinesOf(<<o>> \o ops, Sames) = <<o>> \o LinesOf(ops, Sames)
      /\ type # "same" => LinesOf(<<o>> \o ops, Sames) = LinesOf(ops, Sames)
  BY <1>2, <1>3, LinesPushed DEF Sames
<1>10. Len(OfType(Sames))' = IF type = "same" THEN Len(OfType(Sames)) + 1 ELSE Len(OfType(Sames))
  <2>1. CASE type = "same"
    BY <1>2, <1>8, <1>9, <2>1
  <2>2. CASE type # "same"
    BY <1>8, <1>9, <2>2
  <2> QED BY <2>1, <2>2
<1> QED BY <1>3, <1>4, <1>5, <1>7, <1>8, <1>9, <1>10

LEMMA TheTable ==
  ASSUME TextTypeOK
  PROVE  \A x \in 0 .. Len(leftText), y \in 0 .. Len(rightText) : LcsCell(dp, leftText, rightText, x, y)
BY TextTypes, TableIs, LongestIs

LEMMA StepSameInv == ASSUME TextInv, StepSame PROVE TextInv'
<1>1. /\ leftText \in Seq(Lines) /\ rightText \in Seq(Lines) /\ Len(leftText) \in Nat /\ Len(rightText) \in Nat
      /\ atLeft \in 1 .. Len(leftText) /\ atRight \in 1 .. Len(rightText) /\ leftText[atLeft] = rightText[atRight]
  BY TextTypes, SMTT(30) DEF TextInv, StepSame, AtSameLine
<1>2. PICK text \in Lines : text = leftText[atLeft] /\ text = rightText[atRight]
  BY <1>1
<1>3. /\ ops' \in Seq(Ops) /\ leftText' = leftText /\ rightText' = rightText /\ dp' = dp
      /\ Panel("left-only")' = <<text>> \o Panel("left-only")
      /\ Panel("right-only")' = <<text>> \o Panel("right-only")
      /\ Len(OfType(Sames)) \in Nat /\ Len(OfType(Sames))' = Len(OfType(Sames)) + 1
  <2>1. Step("same", text) /\ "same" \in {"same", "left-only", "right-only"}
    BY <1>2 DEF StepSame
  <2> QED BY <2>1, Steps
<1>4. atLeft' = atLeft - 1 /\ atRight' = atRight - 1
  BY DEF StepSame
<1>5. TextTypeOK'
  BY <1>1, <1>3, <1>4 DEF TextTypeOK, TextInv
<1>6. Panel("left-only")' = SubSeq(leftText, atLeft, Len(leftText))
  BY <1>1, <1>2, <1>3, RestFrom DEF TextInv
<1>7. Panel("right-only")' = SubSeq(rightText, atRight, Len(rightText))
  BY <1>1, <1>2, <1>3, RestFrom DEF TextInv
<1>8. dp[<<atLeft, atRight>>] = dp[<<atLeft - 1, atRight - 1>>] + 1 /\ dp[<<atLeft - 1, atRight - 1>>] \in Nat
  <2>1. /\ atLeft \in 0 .. Len(leftText) /\ atRight \in 0 .. Len(rightText)
        /\ atLeft - 1 \in 0 .. Len(leftText) /\ atRight - 1 \in 0 .. Len(rightText)
    BY <1>1
  <2>2. /\ LcsCell(dp, leftText, rightText, atLeft, atRight)
        /\ LcsCell(dp, leftText, rightText, atLeft - 1, atRight - 1)
    BY <2>1, TheTable DEF TextInv
  <2> QED BY <1>1, <2>2 DEF LcsCell
<1>9. Len(OfType(Sames))' + dp[<<atLeft - 1, atRight - 1>>] = dp[<<Len(leftText), Len(rightText)>>]
  <2>1. PICK a, d, e, m : /\ a = Len(OfType(Sames)) /\ d = dp[<<atLeft, atRight>>] /\ e = dp[<<atLeft - 1, atRight - 1>>]
                          /\ m = dp[<<Len(leftText), Len(rightText)>>]
    OBVIOUS
  <2>2. a + d = m
    BY <2>1 DEF TextInv
  <2>3. a \in Nat /\ e \in Nat /\ d = e + 1
    BY <1>3, <1>8, <2>1
  <2>4. a + 1 + e = m
    BY <2>2, <2>3
  <2> QED BY <1>3, <2>1, <2>4
<1>10. atLeft' + 1 = atLeft /\ atRight' + 1 = atRight
  BY <1>1, <1>4
<1>11. Panel("left-only")' = SubSeq(leftText', atLeft' + 1, Len(leftText'))
  BY <1>3, <1>6, <1>10
<1>12. Panel("right-only")' = SubSeq(rightText', atRight' + 1, Len(rightText'))
  BY <1>3, <1>7, <1>10
<1>13. Len(OfType(Sames))' + dp'[<<atLeft', atRight'>>] = dp'[<<Len(leftText'), Len(rightText')>>]
  BY <1>3, <1>4, <1>9
<1> QED BY <1>5, <1>11, <1>12, <1>13 DEF TextInv

LEMMA StepRightInv == ASSUME TextInv, StepRight PROVE TextInv'
<1>1. /\ leftText \in Seq(Lines) /\ rightText \in Seq(Lines) /\ Len(leftText) \in Nat /\ Len(rightText) \in Nat
      /\ atLeft \in 0 .. Len(leftText) /\ atRight \in 1 .. Len(rightText)
  BY TextTypes DEF TextInv, StepRight, GoesRight
<1>2. PICK text \in Lines : text = rightText[atRight]
  BY <1>1
<1>3. /\ ops' \in Seq(Ops) /\ leftText' = leftText /\ rightText' = rightText /\ dp' = dp
      /\ Panel("left-only")' = Panel("left-only")
      /\ Panel("right-only")' = <<text>> \o Panel("right-only")
      /\ Len(OfType(Sames))' = Len(OfType(Sames))
  <2>1. Step("right-only", text) /\ "right-only" \in {"same", "left-only", "right-only"}
    BY <1>2 DEF StepRight
  <2> QED BY <2>1, Steps
<1>4. atLeft' = atLeft /\ atRight' = atRight - 1
  BY DEF StepRight
<1>5. TextTypeOK'
  BY <1>1, <1>3, <1>4 DEF TextTypeOK, TextInv
<1>6. Panel("right-only")' = SubSeq(rightText, atRight, Len(rightText))
  BY <1>1, <1>2, <1>3, RestFrom DEF TextInv
<1>7. dp[<<atLeft, atRight>>] = dp[<<atLeft, atRight - 1>>]
  <2>1. atRight \in 0 .. Len(rightText) /\ atRight - 1 \in 0 .. Len(rightText)
    BY <1>1
  <2>2. /\ LcsCell(dp, leftText, rightText, atLeft, atRight)
        /\ LcsCell(dp, leftText, rightText, atLeft, atRight - 1)
    BY <1>1, <2>1, TheTable DEF TextInv
  <2>3. CASE atLeft = 0
    BY <2>2, <2>3 DEF LcsCell
  <2>4. CASE atLeft # 0
    <3>1. atLeft - 1 \in 0 .. Len(leftText) /\ atLeft > 0 /\ atRight > 0
      BY <1>1, <2>4
    <3>2. LcsCell(dp, leftText, rightText, atLeft - 1, atRight)
      BY <2>1, <3>1, TheTable DEF TextInv
    <3>3. leftText[atLeft] # rightText[atRight] /\ dp[<<atLeft, atRight - 1>>] >= dp[<<atLeft - 1, atRight>>]
      BY <3>1 DEF StepRight, AtSameLine, GoesRight
    <3> QED BY <2>2, <3>1, <3>2, <3>3 DEF LcsCell
  <2> QED BY <2>3, <2>4
<1>8. Panel("left-only")' = SubSeq(leftText', atLeft' + 1, Len(leftText'))
  BY <1>3, <1>4 DEF TextInv
<1>9. atRight' + 1 = atRight
  BY <1>1, <1>4
<1>10. Panel("right-only")' = SubSeq(rightText', atRight' + 1, Len(rightText'))
  BY <1>3, <1>6, <1>9
<1>11. Len(OfType(Sames)) + dp[<<atLeft, atRight - 1>>] = dp[<<Len(leftText), Len(rightText)>>]
  BY <1>7 DEF TextInv
<1>12. Len(OfType(Sames))' + dp'[<<atLeft', atRight'>>] = dp'[<<Len(leftText'), Len(rightText')>>]
  BY <1>3, <1>4, <1>11
<1> QED BY <1>5, <1>8, <1>10, <1>12 DEF TextInv

LEMMA StepLeftInv == ASSUME TextInv, StepLeft PROVE TextInv'
<1>1. /\ leftText \in Seq(Lines) /\ rightText \in Seq(Lines) /\ Len(leftText) \in Nat /\ Len(rightText) \in Nat
      /\ atLeft \in 1 .. Len(leftText) /\ atRight \in 0 .. Len(rightText)
  BY TextTypes DEF TextInv, StepLeft
<1>2. PICK text \in Lines : text = leftText[atLeft]
  BY <1>1
<1>3. /\ ops' \in Seq(Ops) /\ leftText' = leftText /\ rightText' = rightText /\ dp' = dp
      /\ Panel("left-only")' = <<text>> \o Panel("left-only")
      /\ Panel("right-only")' = Panel("right-only")
      /\ Len(OfType(Sames))' = Len(OfType(Sames))
  <2>1. Step("left-only", text) /\ "left-only" \in {"same", "left-only", "right-only"}
    BY <1>2 DEF StepLeft
  <2> QED BY <2>1, Steps
<1>4. atLeft' = atLeft - 1 /\ atRight' = atRight
  BY DEF StepLeft
<1>5. TextTypeOK'
  BY <1>1, <1>3, <1>4 DEF TextTypeOK, TextInv
<1>6. Panel("left-only")' = SubSeq(leftText, atLeft, Len(leftText))
  BY <1>1, <1>2, <1>3, RestFrom DEF TextInv
<1>7. dp[<<atLeft, atRight>>] = dp[<<atLeft - 1, atRight>>]
  <2>1. atLeft \in 0 .. Len(leftText) /\ atLeft - 1 \in 0 .. Len(leftText)
    BY <1>1
  <2>2. /\ LcsCell(dp, leftText, rightText, atLeft, atRight)
        /\ LcsCell(dp, leftText, rightText, atLeft - 1, atRight)
    BY <1>1, <2>1, TheTable DEF TextInv
  <2>3. CASE atRight = 0
    BY <2>2, <2>3 DEF LcsCell
  <2>4. CASE atRight # 0
    <3>1. atRight - 1 \in 0 .. Len(rightText) /\ atLeft > 0 /\ atRight > 0
      BY <1>1, <2>4
    <3>2. LcsCell(dp, leftText, rightText, atLeft, atRight - 1)
      BY <2>1, <3>1, TheTable DEF TextInv
    <3>3. leftText[atLeft] # rightText[atRight] /\ ~(dp[<<atLeft, atRight - 1>>] >= dp[<<atLeft - 1, atRight>>])
      BY <3>1 DEF StepLeft, AtSameLine, GoesRight
    <3> QED BY <1>1, <2>2, <3>1, <3>2, <3>3 DEF LcsCell
  <2> QED BY <2>3, <2>4
<1>8. Panel("right-only")' = SubSeq(rightText', atRight' + 1, Len(rightText'))
  BY <1>3, <1>4 DEF TextInv
<1>9. atLeft' + 1 = atLeft
  BY <1>1, <1>4
<1>10. Panel("left-only")' = SubSeq(leftText', atLeft' + 1, Len(leftText'))
  BY <1>3, <1>6, <1>9
<1>11. Len(OfType(Sames)) + dp[<<atLeft - 1, atRight>>] = dp[<<Len(leftText), Len(rightText)>>]
  BY <1>7 DEF TextInv
<1>12. Len(OfType(Sames))' + dp'[<<atLeft', atRight'>>] = dp'[<<Len(leftText'), Len(rightText')>>]
  BY <1>3, <1>4, <1>11
<1> QED BY <1>5, <1>8, <1>10, <1>12 DEF TextInv

(* Before the walk there is nothing in the panels.                          *)
LEMMA NothingYet ==
  ASSUME NEW s \in Seq(Lines)
  PROVE  ShownOf(<<>>, "left-only") = SubSeq(s, Len(s) + 1, Len(s)) /\ ShownOf(<<>>, "right-only") = SubSeq(s, Len(s) + 1, Len(s))
         /\ Len(LinesOf(<<>>, Sames)) = 0
<1>1. \A types : LinesOf(<<>>, types) = <<>>
  BY FilteredNone DEF LinesOf
<1>2. \A side : ShownOf(<<>>, side) = <<>>
  BY <1>1 DEF ShownOf
<1>3. SubSeq(s, Len(s) + 1, Len(s)) = <<>>
  <2>1. PICK n \in Nat : n = Len(s)
    OBVIOUS
  <2>2. Len(SubSeq(s, n + 1, n)) = 0 /\ SubSeq(s, n + 1, n) \in Seq(Lines)
    BY <2>1
  <2> QED BY <2>1, <2>2
<1>4. Len(LinesOf(<<>>, Sames)) = 0
  <2>1. Len(<<>>) = 0
    OBVIOUS
  <2> QED BY <1>1, <2>1
<1>5. PICK n : n = SubSeq(s, Len(s) + 1, Len(s))
  OBVIOUS
<1>6. ShownOf(<<>>, "left-only") = n /\ ShownOf(<<>>, "right-only") = n
  BY <1>2, <1>3, <1>5
<1> QED BY <1>4, <1>5, <1>6

LEMMA TextInitInv == ASSUME TextInit PROVE TextInv
<1>1. leftText = <<>> /\ rightText = <<>> /\ atLeft = Len(leftText) /\ atRight = Len(rightText) /\ ops = <<>>
      /\ leftText \in Seq(Lines) /\ rightText \in Seq(Lines) /\ Len(leftText) = 0 /\ Len(rightText) = 0
  BY DEF TextInit
<1>2. <<>> \in BoundedSeq(Lines, MaxLines)
  <2>1. 0 \in 0 .. MaxLines
    BY MaxLinesAssumption
  <2>2. <<>> \in [1 .. 0 -> Lines]
    OBVIOUS
  <2> QED BY <2>1, <2>2 DEF BoundedSeq, SeqOf
<1>3. TextTypeOK
  BY <1>1, <1>2 DEF TextTypeOK
<1>4. /\ Panel("left-only") = ShownOf(<<>>, "left-only") /\ Panel("right-only") = ShownOf(<<>>, "right-only")
      /\ OfType(Sames) = LinesOf(<<>>, Sames)
  BY <1>1 DEF Panel, OfType, ShownOf, LinesOf, Sames
<1>5. dp[<<atLeft, atRight>>] \in Nat
  <2>1. LcsCell(dp, leftText, rightText, atLeft, atRight)
    BY <1>1, <1>3, TheTable
  <2> QED BY <2>1 DEF LcsCell
<1>6. Panel("left-only") = SubSeq(leftText, atLeft + 1, Len(leftText))
  BY <1>1, <1>4, NothingYet
<1>7. Panel("right-only") = SubSeq(rightText, atRight + 1, Len(rightText))
  BY <1>1, <1>4, NothingYet
<1>8. Len(OfType(Sames)) = 0
  BY <1>1, <1>4, NothingYet
<1> QED BY <1>1, <1>3, <1>5, <1>6, <1>7, <1>8 DEF TextInv

LEMMA NextTextsInv == ASSUME TextInv, NextTexts PROVE TextInv'
<1>1. PICK l, r \in BoundedSeq(Lines, MaxLines) : l = leftText' /\ r = rightText'
  BY DEF NextTexts, Texts
<1>2. l \in Seq(Lines) /\ r \in Seq(Lines) /\ Len(l) \in Nat /\ Len(r) \in Nat
  <2>1. \A s \in BoundedSeq(Lines, MaxLines) : s \in Seq(Lines)
    BY MaxLinesAssumption DEF BoundedSeq, SeqOf
  <2> QED BY <1>1, <2>1
<1>3. atLeft' = Len(l) /\ atRight' = Len(r) /\ ops' = <<>> /\ <<>> \in Seq(Ops)
  BY <1>1 DEF NextTexts
<1>4. TextTypeOK'
  BY <1>1, <1>2, <1>3 DEF TextTypeOK
<1>5. /\ Panel("left-only")' = ShownOf(<<>>, "left-only") /\ Panel("right-only")' = ShownOf(<<>>, "right-only")
      /\ OfType(Sames)' = LinesOf(<<>>, Sames)
  BY <1>3 DEF Panel, OfType, ShownOf, LinesOf, Sames
<1>6. dp'[<<Len(l), Len(r)>>] \in Nat
  <2>1. dp' = Longest(l, r)
    BY <1>1 DEF dp, Longest, IsTable, Cell, Cells
  <2>2. Len(l) \in 0 .. Len(l) /\ Len(r) \in 0 .. Len(r)
    BY <1>2
  <2>3. LcsCell(Longest(l, r), l, r, Len(l), Len(r))
    BY <1>2, <2>2, LongestIs
  <2> QED BY <2>1, <2>3 DEF LcsCell
<1>7. Panel("left-only")' = SubSeq(l, Len(l) + 1, Len(l))
  BY <1>2, <1>5, NothingYet
<1>8. Panel("right-only")' = SubSeq(r, Len(r) + 1, Len(r))
  BY <1>2, <1>5, NothingYet
<1>9. Len(OfType(Sames))' = 0
  BY <1>2, <1>5, NothingYet
<1> QED BY <1>1, <1>3, <1>4, <1>6, <1>7, <1>8, <1>9 DEF TextInv

LEMMA TextInvShows == ASSUME TextInv PROVE DiffIsLongest
<1>1. SUFFICES ASSUME Walked, NEW P \in Pairings PROVE Cardinality(P) <= Len(OfType(Sames))
  BY DEF TextInv, DiffIsLongest, Sames
<1>2. atLeft = 0 /\ atRight = 0 /\ leftText \in Seq(Lines) /\ rightText \in Seq(Lines)
      /\ Len(leftText) \in Nat /\ Len(rightText) \in Nat
  BY <1>1, TextTypes DEF Walked, TextInv
<1>3. \A x \in 0 .. Len(leftText), y \in 0 .. Len(rightText) : LcsCell(dp, leftText, rightText, x, y)
  BY TheTable DEF TextInv
<1>4. P \in SUBSET PairsUpTo(leftText, rightText, Len(leftText), Len(rightText)) /\ InOrder(P)
  BY <1>1 DEF Pairings, Pairs, PairsUpTo, InOrder
<1>5. Cardinality(P) <= dp[<<Len(leftText), Len(rightText)>>]
  BY <1>2, <1>3, <1>4, NoLongerPairing
<1>6. dp[<<atLeft, atRight>>] = 0
  <2>1. LcsCell(dp, leftText, rightText, atLeft, atRight)
    BY <1>2, <1>3
  <2> QED BY <1>2, <2>1 DEF LcsCell
<1>7. Len(OfType(Sames)) \in Nat
  <2>1. ops \in Seq(Ops) /\ OfType(Sames) = LinesOf(ops, Sames)
    BY TextTypes DEF TextInv, OfType, LinesOf
  <2>2. FilteredIsPart(ops, [type : Sames, text : Lines], Ops)
    BY <2>1, FilteredPart
  <2> QED BY <2>1, <2>2 DEF FilteredIsPart, LinesOf
<1> QED BY <1>5, <1>6, <1>7 DEF TextInv

LEMMA TextInvStutter == ASSUME TextInv, UNCHANGED textPart PROVE TextInv'
<1>1. UNCHANGED <<leftText, rightText, atLeft, atRight, ops>>
  BY DEF textPart
<1>2. dp' = dp
  BY <1>1 DEF dp
<1>3. \A side : Panel(side)' = Panel(side)
  BY <1>1 DEF Panel, OfType
<1>4. OfType(Sames)' = OfType(Sames)
  BY <1>1 DEF OfType, Sames
<1>5. TextTypeOK'
  BY <1>1 DEF TextInv, TextTypeOK
<1> QED BY <1>1, <1>2, <1>3, <1>4, <1>5 DEF TextInv

LEMMA TextInvStep == ASSUME TextInv, TextNext PROVE TextInv'
BY StepSameInv, StepRightInv, StepLeftInv, NextTextsInv DEF TextNext

(* The panels of computeDiff show both texts whole, and leave as many lines *)
(* the same as any way to pair equal lines in order: a longest common       *)
(* subsequence, for texts of any length.                                    *)
THEOREM DiffIsALongest == TextSpec => []DiffIsLongest
<1>1. TextInit => TextInv
  BY TextInitInv
<1>2. TextInv /\ [TextNext]_textPart => TextInv'
  BY TextInvStep, TextInvStutter
<1>3. TextInv => DiffIsLongest
  BY TextInvShows
<1> QED BY <1>1, <1>2, <1>3, PTL DEF TextSpec

-----------------------------------------------------------------------------
(* What each part does to its own types.                                    *)
LEMMA DashboardTypes == ASSUME DashboardTypeOK, DashboardNext PROVE DashboardTypeOK'
<1> USE DEF DashboardTypeOK, shown
<1>1. \A k \in {"fetch"} \cup Lasting, d \in Databases : [kind |-> k, db |-> d] \in Request
  BY DEF Request
<1>2. \A f \in [Requests -> Request \cup {None}], r \in Requests, k \in {"fetch"} \cup Lasting, d \in Databases :
        With(f, r, k, d) \in [Requests -> Request \cup {None}]
  BY <1>1 DEF With
<1>3. \A k : Without(k) \in [Requests -> Request \cup {None}]
  BY DEF Without
<1>4. ASSUME NEW r \in Requests, NEW k, Under(r, k) PROVE request[r] \in Request /\ request[r].db \in Databases
  <2>1. request[r] \in Request
    BY <1>4 DEF Under, Free
  <2> QED BY <2>1 DEF Request
<1>5. CASE TickAuto
  BY <1>5 DEF TickAuto
<1>6. ASSUME NEW r \in Requests, NEW q \in Requests, Mount(r, q) PROVE DashboardTypeOK'
  <2>1. With(request, r, "fetch", db) \in [Requests -> Request \cup {None}]
    BY <1>2
  <2>2. With(With(request, r, "fetch", db), q, "health", db) \in [Requests -> Request \cup {None}]
    BY <1>2, <2>1 DEF Lasting
  <2> QED BY <1>6, <2>2 DEF Mount, fetchStats
<1>7. ASSUME NEW r \in Requests, NEW d \in Databases, SwitchDb(r, d) PROVE DashboardTypeOK'
  <2>1. With(Without("fetch"), r, "fetch", d) \in [Requests -> Request \cup {None}]
    BY <1>2, <1>3
  <2>2. LeftBehind \subseteq Lasting
    BY DEF LeftBehind
  <2> QED BY <1>7, <2>1, <2>2 DEF SwitchDb, fetchStats, changeDb
<1>8. ASSUME NEW r \in Requests, Refresh(r) PROVE DashboardTypeOK'
  <2>1. With(request, r, "refresh", db) \in [Requests -> Request \cup {None}]
    BY <1>2 DEF Lasting
  <2> QED BY <1>8, <2>1 DEF Refresh, fetchStats
<1>9. ASSUME NEW r \in Requests, Operate(r) PROVE DashboardTypeOK'
  <2>1. \A k \in {"keys", "setting"} : With(request, r, k, db) \in [Requests -> Request \cup {None}]
    BY <1>2 DEF Lasting
  <2> QED BY <1>9, <2>1 DEF Operate
<1>10. ASSUME NEW r \in Requests, StatsAnswer(r) PROVE DashboardTypeOK'
  <2>1. request[r].db \in Databases
    BY <1>4, <1>10 DEF StatsAnswer
  <2>2. [status |-> "ok", of |-> request[r].db] \in KeyCount
    BY <2>1 DEF KeyCount
  <2> QED BY <1>10, <2>1, <2>2 DEF StatsAnswer
<1>11. ASSUME NEW r \in Requests, StatsFail(r) \/ OperationFails(r) PROVE DashboardTypeOK'
  BY <1>11 DEF StatsFail, OperationFails
<1>12. ASSUME NEW r \in Requests, HealthAnswer(r) PROVE DashboardTypeOK'
  <2>1. request[r].db \in Databases
    BY <1>4, <1>12 DEF HealthAnswer
  <2>2. {[status |-> "ok", of |-> request[r].db], [status |-> "error", of |-> None]} \subseteq KeyCount
    BY <2>1 DEF KeyCount
  <2> QED BY <1>12, <2>2 DEF HealthAnswer
<1>13. ASSUME NEW r \in Requests, refetchHealth(r) PROVE DashboardTypeOK'
  <2>1. request[r].db \in Databases
    BY <1>4, <1>13 DEF refetchHealth
  <2>2. With(Without("health"), r, "health", request[r].db) \in [Requests -> Request \cup {None}]
    BY <1>2, <1>3, <2>1 DEF Lasting
  <2> QED BY <1>13, <2>2 DEF refetchHealth
<1> QED BY <1>5, <1>6, <1>7, <1>8, <1>9, <1>10, <1>11, <1>12, <1>13
        DEF DashboardNext, RefreshButton, RefreshTimer, Answer, SettingSaved

LEMMA CliTypes == ASSUME CliTypeOK, CliNext PROVE CliTypeOK'
<1> USE DEF CliTypeOK
<1>1. ASSUME NEW d \in Databases, PrintSwitch(d) PROVE CliTypeOK'
  BY <1>1 DEF PrintSwitch, changeDb, cliPart
<1>2. ASSUME NEW p \in Panes, addPane(p) PROVE CliTypeOK'
  BY <1>2 DEF addPane
<1>3. ASSUME NEW p \in Panes, removePane(p) PROVE CliTypeOK'
  <2>1. 0 \in 0 .. MaxSent
    BY SentAssumption
  <2>2. cliLoading' \subseteq panes' /\ panes' # {}
    BY <1>3 DEF removePane
  <2> QED BY <1>3, <2>1, <2>2 DEF removePane
<1>4. ASSUME NEW p \in Panes, NEW c \in Commands \cup {None}, NEW s \in {"none", "listed", "highlighted"}, Line(p, c, s)
      PROVE  CliTypeOK'
  BY <1>4 DEF Line, OthersStay
<1>5. ASSUME NEW p \in Panes, handleSubmit(p) PROVE CliTypeOK'
  <2>1. p \in panes /\ cliInput[p] \in Commands /\ cliInput[p] # None
    BY <1>5 DEF handleSubmit
  <2>2. PICK c \in Commands : c = cliInput[p]
    BY <2>1
  <2>3. /\ cliInput' \in [Panes -> Commands \cup {None}]
        /\ suggestions' \in [Panes -> {"none", "listed", "highlighted"}]
        /\ panes' = panes /\ db' = db
    BY <1>5 DEF handleSubmit
  <2>4. CASE Warns(p, c)
    <3>1. Warn(p, c) /\ c \in DANGEROUS
      BY <1>5, <2>2, <2>4 DEF handleSubmit, runCommand, Warns
    <3> QED BY <2>3, <3>1 DEF Warn
  <2>5. CASE ~Warns(p, c)
    <3>1. Send(p, c) /\ pendingDangerous' = [pendingDangerous EXCEPT ![p] = None]
      BY <1>5, <2>2, <2>5 DEF handleSubmit, runCommand, Run
    <3>2. sent[p] + 1 \in 0 .. MaxSent
      BY <3>1, SentAssumption DEF Send
    <3>3. sent' \in [Panes -> 0 .. MaxSent]
      BY <3>1, <3>2 DEF Send
    <3>4. unwarned' \subseteq DANGEROUS /\ cliLoading' \subseteq panes
      BY <2>1, <3>1 DEF Send
    <3> QED BY <2>3, <3>1, <3>3, <3>4 DEF Send
  <2> QED BY <2>4, <2>5
<1>6. ASSUME NEW p \in Panes, CommandAnswer(p) PROVE CliTypeOK'
  <2>1. sent[p] - 1 \in 0 .. MaxSent
    BY <1>6, SentAssumption DEF CommandAnswer
  <2>2. sent' \in [Panes -> 0 .. MaxSent]
    BY <1>6, <2>1 DEF CommandAnswer
  <2> QED BY <1>6, <2>2 DEF CommandAnswer
<1>7. ASSUME NEW p \in Panes, WalkSuggestions(p) \/ HideSuggestions(p) PROVE CliTypeOK'
  BY <1>4, <1>7 DEF WalkSuggestions, HideSuggestions
<1>8. ASSUME NEW p \in Panes, NEW c \in Commands \cup {None}, handleInputChange(p, c) PROVE CliTypeOK'
  BY <1>4, <1>8 DEF handleInputChange
<1>9. ASSUME NEW p \in Panes, NEW c \in Commands, Recall(p, c) \/ TakeSuggestion(p, c) \/ selectCmd(p, c)
      PROVE  CliTypeOK'
  BY <1>4, <1>9 DEF Recall, TakeSuggestion, selectCmd
<1> QED BY <1>1, <1>2, <1>3, <1>5, <1>6, <1>7, <1>8, <1>9 DEF CliNext

LEMMA FormTypes == ASSUME FormTypeOK, FormNext PROVE FormTypeOK'
<1> USE DEF FormTypeOK
<1>1. NothingSubmitted => submitted'.fields \subseteq Fields /\ submitted'.shown \subseteq Fields
  BY DEF NothingSubmitted
<1>2. ASSUME NEW t \in AuthTypes, setAuthType(t) PROVE FormTypeOK'
  BY <1>1, <1>2 DEF setAuthType
<1>3. ASSUME NEW f \in Fields, FillIn(f) PROVE FormTypeOK'
  BY <1>1, <1>3 DEF FillIn
<1>4. CASE SetTls
  BY <1>1, <1>4 DEF SetTls
<1>5. CASE SetSsh
  BY <1>1, <1>5 DEF SetSsh
<1>6. CASE submitForm
  <2>1. submitted'.fields \subseteq Fields /\ submitted'.shown \subseteq Fields
    BY <1>6 DEF submitForm
  <2> QED BY <1>6, <2>1 DEF submitForm, resetForm, AuthTypes, HOST_PORT_TYPES
<1> QED BY <1>2, <1>3, <1>4, <1>5, <1>6 DEF FormNext

(* A page selects a connection that it has, or none.                        *)
SelectInv ==
  /\ selected \in [Pages -> Ids \cup {None}] /\ behind_store \subseteq open
  /\ \A g \in Pages : selected[g] # None => connections[g][selected[g]] # None

LEMMA SaveSelects ==
  ASSUME StoreInv, SelectInv, NEW g \in open, NEW list, NEW choice, saveToStorage(g, list, choice),
         NEW new \in Ids \cup {None}, selected' = [selected EXCEPT ![g] = new],
         new # None => list[new] # None
  PROVE  SelectInv'
<1>1. /\ connections' = [connections EXCEPT ![g] = list] /\ open' = open /\ g \in Pages
      /\ behind_store' = {h \in open \ {g} : connections[h] # list}
      /\ connections = [h \in Pages |-> connections[h]]
  BY DEF saveToStorage, StoreInv
<1>2. \A h \in Pages : connections'[h] = IF h = g THEN list ELSE connections[h]
  BY <1>1
<1>3. selected' \in [Pages -> Ids \cup {None}] /\ \A h \in Pages : selected'[h] = IF h = g THEN new ELSE selected[h]
  BY <1>1 DEF SelectInv
<1>4. \A h \in Pages : selected'[h] # None => connections'[h][selected'[h]] # None
  BY <1>2, <1>3 DEF SelectInv
<1>5. behind_store' \subseteq open'
  BY <1>1
<1> QED BY <1>3, <1>4, <1>5 DEF SelectInv

(* As above, when what is selected stays.                                   *)
LEMMA SaveStays ==
  ASSUME StoreInv, SelectInv, NEW g \in open, NEW list, NEW choice, saveToStorage(g, list, choice),
         selected' = selected, selected[g] # None => list[selected[g]] # None
  PROVE  SelectInv'
<1>1. g \in Pages
  BY DEF StoreInv
<1>2. PICK new \in Ids \cup {None} : new = selected[g]
  BY <1>1 DEF SelectInv
<1>3. selected' = [selected EXCEPT ![g] = new]
  BY <1>1, <1>2 DEF SelectInv
<1> QED BY <1>2, <1>3, SaveSelects

LEMMA SelectStep == ASSUME StoreInv, SelectInv, StoreNext PROVE SelectInv'
<1>0. \A g \in Pages : selected[g] \in Ids \cup {None} /\ connections[g] \in ListOf(Listed)
  BY DEF SelectInv, StoreInv
<1>1. ASSUME NEW g \in Pages, OpenPage(g) PROVE SelectInv'
  <2>1. connections[g] = Empty
    BY <1>1 DEF OpenPage, StoreInv
  <2>2. selected[g] = None
    BY <1>0, <2>1 DEF SelectInv, Empty
  <2>3. \A h \in Pages \ {g} : connections'[h] = connections[h]
    BY <1>1 DEF OpenPage, StoreInv
  <2> QED BY <1>1, <2>2, <2>3 DEF OpenPage, SelectInv
<1>2. ASSUME NEW g \in Pages, ClosePage(g) PROVE SelectInv'
  <2>1. \A h \in Pages \ {g} : connections'[h] = connections[h] /\ selected'[h] = selected[h]
    BY <1>2 DEF ClosePage, StoreInv, SelectInv
  <2>2. selected' \in [Pages -> Ids \cup {None}] /\ selected'[g] = None
    BY <1>2 DEF ClosePage, SelectInv
  <2> QED BY <1>2, <2>1, <2>2 DEF ClosePage, SelectInv
<1>3. ASSUME NEW g \in Pages, clearAllConnections(g) PROVE SelectInv'
  <2>1. g \in open
    BY <1>3, ShownIsOpen DEF clearAllConnections
  <2> QED BY <1>3, <2>1, SaveSelects DEF clearAllConnections
<1>4. ASSUME NEW g \in Pages, NEW id \in Ids, Select(g, id) PROVE SelectInv'
  BY <1>4 DEF Select, SelectInv
<1>5. ASSUME NEW g \in Pages, NEW id \in Ids, removeConnection(g, id) PROVE SelectInv'
  <2>1. g \in open
    BY <1>5, HeldIsOpen DEF removeConnection
  <2>2. PICK new \in Ids \cup {None} : new = IF selected[g] = id THEN None ELSE selected[g]
    BY <1>0
  <2>3. PICK list : list = [connections[g] EXCEPT ![id] = None]
    OBVIOUS
  <2>4. selected' = [selected EXCEPT ![g] = new] /\ saveToStorage(g, list, [chosen EXCEPT ![id] = None])
    BY <1>5, <2>2, <2>3 DEF removeConnection
  <2>5. new # None => list[new] # None
    BY <1>0, <2>2, <2>3 DEF SelectInv, ListOf
  <2> QED BY <2>1, <2>4, <2>5, SaveSelects
<1>6. ASSUME NEW g \in Pages, NEW id \in Ids, NEW d \in Databases, changeDbOf(g, id, d) PROVE SelectInv'
  <2>1. g \in open /\ connections[g][id] \in Listed
    BY <1>6, HeldIsOpen DEF changeDbOf
  <2>2. [connections[g][id] EXCEPT !.db = d] \in Listed
    BY <2>1 DEF Listed
  <2>3. PICK list : list = [connections[g] EXCEPT ![id].db = d]
    OBVIOUS
  <2>4. \A n \in Ids : connections[g][n] # None => list[n] # None
    BY <1>0, <2>2, <2>3, NotSealedAssumption DEF ListOf
  <2>5. PICK choice : saveToStorage(g, list, choice)
    BY <1>6, <2>3 DEF changeDbOf
  <2>6. selected' = selected
    BY <1>6 DEF changeDbOf
  <2>7. selected[g] # None => list[selected[g]] # None
    BY <1>0, <2>4 DEF SelectInv
  <2> QED BY <2>1, <2>5, <2>6, <2>7, SaveStays
<1>7. ASSUME NEW g \in Pages, NEW id \in Ids, NEW c \in Filled, NEW d \in Databases,
             addConnection(g, id, [way |-> c.way, db |-> d, secret |-> c.secret])
      PROVE  SelectInv'
  <2>1. PICK n : n = [way |-> c.way, db |-> d, secret |-> c.secret]
    OBVIOUS
  <2>2. n # None
    BY <2>1, SecretsAssumption, NotSealedAssumption DEF Listed
  <2>3. PICK list : list = [connections[g] EXCEPT ![id] = n]
    OBVIOUS
  <2>4. list[id] # None
    BY <1>0, <2>2, <2>3 DEF ListOf
  <2>5. /\ g \in open /\ saveToStorage(g, list, [chosen EXCEPT ![id] = n])
        /\ selected' = [selected EXCEPT ![g] = id]
    BY <1>7, <2>1, <2>3 DEF addConnection
  <2> QED BY <2>4, <2>5, SaveSelects
<1>8. ASSUME NEW id \in Ids, NEW d \in Databases, saveRightDb(id, d) PROVE SelectInv'
  BY <1>8 DEF saveRightDb, SelectInv
<1>9. ASSUME MoveFile \/ \E g \in Pages, i \in BOOLEAN : exportConnections(g, i) PROVE SelectInv'
  BY <1>9 DEF MoveFile, exportConnections, SelectInv
<1>10. ASSUME NEW g \in Pages, NEW newId \in [Ids -> Ids], importConnections(g, newId) PROVE SelectInv'
  <2>1. PICK from_file : from_file = Each(file, fromStored)
    OBVIOUS
  <2>2. \A e \in ValidEntries : from_file[e] # None
    BY <2>1, OpenedType, NotSealedAssumption DEF ValidEntries, Each, StoreInv, ListOf
  <2>3. PICK list : list = [id \in Ids |-> IF \E e \in ValidEntries : newId[e] = id
                                           THEN from_file[CHOOSE e \in ValidEntries : newId[e] = id]
                                           ELSE connections[g][id]]
    OBVIOUS
  <2>4. PICK choice : saveToStorage(g, list, choice)
    BY <1>10, <2>1, <2>3 DEF importConnections
  <2>5. g \in open /\ selected' = selected
    BY <1>10 DEF importConnections
  <2>6. ASSUME NEW id \in Ids, connections[g][id] # None PROVE list[id] # None
    <3>1. CASE \E e \in ValidEntries : newId[e] = id
      <4>1. (CHOOSE e \in ValidEntries : newId[e] = id) \in ValidEntries
        BY <3>1
      <4>2. list[id] = from_file[CHOOSE e \in ValidEntries : newId[e] = id]
        BY <2>3, <3>1
      <4> QED BY <2>2, <4>1, <4>2
    <3>2. CASE ~\E e \in ValidEntries : newId[e] = id
      BY <2>3, <2>6, <3>2
    <3> QED BY <3>1, <3>2
  <2>7. selected[g] # None => list[selected[g]] # None
    BY <1>0, <2>6 DEF SelectInv
  <2> QED BY <2>4, <2>5, <2>7, SaveStays
<1> QED BY <1>1, <1>2, <1>3, <1>4, <1>5, <1>6, <1>7, <1>8, <1>9, <1>10 DEF StoreNext

-----------------------------------------------------------------------------
(* What is known of each part while it is used.                             *)
DashboardPartInv == DashboardTypeOK /\ StatsInv /\ SettleInv
KeyspacePartInv == KeyspaceTypeOK /\ StatusInv /\ OneActive
CliPartInv == CliTypeOK /\ CliInv
FormPartInv == FormTypeOK /\ FormInv
StorePartInv == StoreInv /\ SelectInv

(* The page: as at most the part that is used switches the database, those  *)
(* that depend on it and are not used have to be as they were at the start. *)
PageInv ==
  /\ DashboardPartInv /\ KeyspacePartInv /\ MemoryInv
  /\ KeptInv /\ TextInv /\ CliPartInv /\ FormPartInv /\ StorePartInv
  /\ tab # "dashboard" => DashboardInit
  /\ tab # "keyspace" => KeyspaceInit
  /\ tab # "memory" => MemoryInit

LEMMA DashboardStarts == DashboardInit => DashboardPartInv
<1>1. [status |-> "checking", of |-> None] \in KeyCount
  BY DEF KeyCount
<1>2. DashboardInit => DashboardTypeOK
  BY <1>1 DEF DashboardInit, DashboardTypeOK
<1> QED BY <1>2, SettleInvInit DEF DashboardPartInv

LEMMA DashboardStep ==
  ASSUME DashboardPartInv, DashboardNext \/ UNCHANGED dashboardVars
  PROVE  DashboardPartInv'
<1>1. DashboardTypeOK'
  <2>1. UNCHANGED dashboardVars => DashboardTypeOK'
    BY DEF DashboardPartInv, DashboardTypeOK, dashboardVars, dashboardPart, shown
  <2> QED BY <2>1, DashboardTypes DEF DashboardPartInv
<1> QED BY <1>1, StatsInvStep, SettleInvStep DEF DashboardPartInv

LEMMA DashboardIdle ==
  ASSUME DashboardInit, UNCHANGED dashboardPart, db' \in Databases
  PROVE  DashboardInit' /\ DashboardPartInv'
<1>1. DashboardInit'
  BY DEF DashboardInit, dashboardPart, shown
<1>2. [status |-> "checking", of |-> None] \in KeyCount
  BY DEF KeyCount
<1>3. DashboardTypeOK'
  BY <1>1, <1>2 DEF DashboardInit, DashboardTypeOK
<1>4. StatsInv' /\ SettleInv'
  BY <1>1 DEF DashboardInit, StatsInv, StatsOfTheDatabase, SettleInv, Of, Under, Free
<1> QED BY <1>1, <1>3, <1>4 DEF DashboardPartInv

LEMMA KeyspaceStarts == KeyspaceInit => KeyspacePartInv
<1>1. KeyspaceInit => KeyspaceTypeOK
  BY DEF KeyspaceInit, KeyspaceTypeOK, Statuses, Phases
<1> QED BY <1>1, StatusInit, ActiveInit DEF KeyspacePartInv

LEMMA KeyspaceStep ==
  ASSUME KeyspacePartInv, KeyspaceNext \/ UNCHANGED keyspaceVars
  PROVE  KeyspacePartInv'
BY TypeStep, StatusStep, ActiveStep DEF KeyspacePartInv

LEMMA KeyspaceIdle ==
  ASSUME KeyspaceInit, UNCHANGED keyspacePart, db' \in Databases
  PROVE  KeyspaceInit' /\ KeyspacePartInv'
<1>1. KeyspaceInit'
  BY DEF KeyspaceInit, keyspacePart, configPart, streamPart
<1>2. KeyspaceTypeOK'
  BY <1>1 DEF KeyspaceInit, KeyspaceTypeOK, Statuses, Phases
<1>3. StatusInv'
  <2>1. \A c \in Checks : check'[c] = None
    BY <1>1 DEF KeyspaceInit
  <2>2. ~present'
    BY <1>1 DEF KeyspaceInit
  <2> QED BY <2>1, <2>2, NoStateAssumption DEF StatusInv, OneCheck, ReadTruly, ShownTruly, Statuses
<1>4. OneActive'
  BY <1>1 DEF KeyspaceInit, OneActive, Active, Live
<1> QED BY <1>1, <1>2, <1>3, <1>4 DEF KeyspacePartInv

LEMMA MemoryIdle ==
  ASSUME MemoryInit, UNCHANGED memoryPart, db' \in Databases
  PROVE  MemoryInit' /\ MemoryInv'
<1>1. MemoryInit'
  BY DEF MemoryInit, memoryPart
<1>2. <<>> \in Seq(Row) /\ <<>> \in Seq(RowsIn(db'))
  OBVIOUS
<1>3. [c \in Changes |-> None] \in [Changes -> RowChange \cup {None}]
  OBVIOUS
<1>4. /\ analysis' = None /\ rows' = <<>> /\ rowsOf' = None /\ letThrough' = Names /\ page' = 0
      /\ grouped' = FALSE /\ dialog' = None /\ overtaken' = FALSE /\ crossed' = FALSE /\ shrunk' = FALSE
      /\ changes' = [c \in Changes |-> None]
  BY <1>1 DEF MemoryInit
<1>5. rows' \in Seq(Row) /\ changes' \in [Changes -> RowChange \cup {None}]
  BY <1>2, <1>3, <1>4
<1>6. /\ analysis' \in Databases \cup {None} /\ rowsOf' \in Databases \cup {None}
      /\ letThrough' \subseteq Names /\ page' \in Nat /\ dialog' \in Names \cup {None}
  BY <1>4
<1>7. /\ grouped' \in BOOLEAN /\ overtaken' \in BOOLEAN /\ crossed' \in BOOLEAN
      /\ shrunk' \in BOOLEAN
  BY <1>4
<1>8. MemoryTypeOK'
  BY <1>5, <1>6, <1>7 DEF MemoryTypeOK
<1> QED BY <1>1, <1>2, <1>4, <1>8 DEF MemoryInv

LEMMA CliStarts == CliInit => CliPartInv
<1>1. 0 \in 0 .. MaxSent
  BY SentAssumption
<1>2. CliInit => CliTypeOK
  BY <1>1 DEF CliInit, CliTypeOK
<1> QED BY <1>2, CliInvInit DEF CliPartInv

LEMMA CliStep ==
  ASSUME CliPartInv, CliNext \/ UNCHANGED cliPart, db' \in Databases
  PROVE  CliPartInv'
<1>1. CASE CliNext
  BY <1>1, CliTypes, CliInvStep DEF CliPartInv
<1>2. CASE UNCHANGED cliPart
  <2>1. CliTypeOK'
    BY <1>2 DEF CliPartInv, CliTypeOK, cliPart
  <2>2. CliInv'
    BY <1>2, WarningsStay DEF CliPartInv, warnings, cliPart
  <2> QED BY <2>1, <2>2 DEF CliPartInv
<1> QED BY <1>1, <1>2

LEMMA FormStarts == FormInit => FormPartInv
<1>1. FormInit => FormTypeOK
  <2> SUFFICES ASSUME FormInit PROVE FormTypeOK
    OBVIOUS
  <2>1. submitted.fields \subseteq Fields /\ submitted.shown \subseteq Fields
    BY DEF FormInit
  <2>2. filled \subseteq Fields
    BY DEF FormInit
  <2> QED BY <2>1, <2>2 DEF FormInit, FormTypeOK, AuthTypes, HOST_PORT_TYPES
<1> QED BY <1>1, FormInvInit DEF FormPartInv

LEMMA FormStep == ASSUME FormPartInv, FormNext \/ UNCHANGED formPart PROVE FormPartInv'
<1>1. FormTypeOK /\ FormInv
  BY DEF FormPartInv
<1>2. FormTypeOK'
  <2>1. CASE UNCHANGED formPart
    BY <1>1, <2>1 DEF FormTypeOK, formPart
  <2>2. CASE FormNext
    BY <1>1, <2>2, FormTypes
  <2> QED BY <2>1, <2>2
<1>3. FormInv'
  BY <1>1, FormInvStep
<1> QED BY <1>2, <1>3 DEF FormPartInv

LEMMA StoreStarts == StoreInit => StorePartInv
<1>1. StoreInit => SelectInv
  BY DEF StoreInit, SelectInv
<1> QED BY <1>1, StoreInitInv DEF StorePartInv

LEMMA StoreStep == ASSUME StorePartInv, StoreNext \/ UNCHANGED storePart PROVE StorePartInv'
<1>1. UNCHANGED storePart => SelectInv'
  BY DEF StorePartInv, SelectInv, storePart
<1> QED BY <1>1, StoreInvStep, StoreInvStutter, SelectStep DEF StorePartInv

(* No step of the list of connections switches this page's database.        *)
LEMMA StoreKeepsDb == ASSUME StoreNext PROVE UNCHANGED db
<1>1. ASSUME NEW g \in Pages,
             \/ OpenPage(g) \/ ClosePage(g) \/ \E i \in BOOLEAN : exportConnections(g, i)
             \/ \E id \in Ids : Select(g, id)
      PROVE  UNCHANGED db
  BY <1>1 DEF OpenPage, ClosePage, exportConnections, Select
<1>2. ASSUME NEW g \in Pages, NEW list, NEW choice, saveToStorage(g, list, choice) PROVE UNCHANGED db
  BY <1>2 DEF saveToStorage
<1>3. ASSUME NEW g \in Pages, clearAllConnections(g) PROVE UNCHANGED db
  BY <1>2, <1>3 DEF clearAllConnections
<1>4. ASSUME NEW g \in Pages, NEW newId \in [Ids -> Ids], importConnections(g, newId) PROVE UNCHANGED db
  BY <1>2, <1>4 DEF importConnections
<1>5. ASSUME NEW g \in Pages, NEW id \in Ids, removeConnection(g, id) PROVE UNCHANGED db
  BY <1>2, <1>5 DEF removeConnection
<1>6. ASSUME NEW g \in Pages, NEW id \in Ids, NEW d \in Databases, changeDbOf(g, id, d) PROVE UNCHANGED db
  BY <1>2, <1>6 DEF changeDbOf
<1>7. ASSUME NEW g \in Pages, NEW id \in Ids, NEW c, addConnection(g, id, c) PROVE UNCHANGED db
  BY <1>2, <1>7 DEF addConnection
<1>8. MoveFile \/ (\E id \in Ids, d \in Databases : saveRightDb(id, d)) => UNCHANGED db
  BY DEF MoveFile, saveRightDb
<1> QED BY <1>1, <1>3, <1>4, <1>5, <1>6, <1>7, <1>8 DEF StoreNext

LEMMA PageInit == ASSUME Init PROVE PageInv
<1>1. /\ DashboardInit /\ KeyspaceInit /\ KeptInit /\ MemoryInit /\ TextInit
      /\ CliInit /\ FormInit /\ StoreInit
  BY DEF Init
<1>2. DashboardPartInv /\ KeyspacePartInv /\ MemoryInv
  BY <1>1, DashboardStarts, KeyspaceStarts, MemoryInitInv
<1>3. KeptInv /\ TextInv /\ CliPartInv /\ FormPartInv /\ StorePartInv
  BY <1>1, KeptInitInv, TextInitInv, CliStarts, FormStarts, StoreStarts
<1> QED BY <1>1, <1>2, <1>3 DEF PageInv

(* What a step does: one part's step, and the others stay.                  *)
OnePart ==
  /\ \/ tab = "dashboard" /\ (DashboardNext \/ UNCHANGED dashboardVars)
     \/ tab # "dashboard" /\ UNCHANGED dashboardPart
  /\ \/ tab = "keyspace" /\ (KeyspaceNext \/ UNCHANGED keyspaceVars)
     \/ tab # "keyspace" /\ UNCHANGED keyspacePart
  /\ \/ tab = "memory" /\ (MemoryNext \/ UNCHANGED memoryVars)
     \/ tab # "memory" /\ UNCHANGED memoryPart
  /\ KeptNext \/ UNCHANGED keptPart
  /\ TextNext \/ UNCHANGED textPart
  /\ CliNext \/ UNCHANGED cliPart
  /\ FormNext \/ UNCHANGED formPart
  /\ StoreNext \/ UNCHANGED storePart
  /\ tab' = tab

LEMMA NextIsOfOnePart ==
  ASSUME [Next]_All
  PROVE  OnePart /\ (DashboardNext \/ KeyspaceNext \/ MemoryNext \/ CliNext \/ UNCHANGED db)
<1> USE DEF tabsPart, otherPart, dashboardVars, keyspaceVars, memoryVars
<1>1. CASE UNCHANGED All
  BY <1>1 DEF All, OnePart
<1>2. CASE Next
  <2>1. CASE Uses("dashboard") /\ DashboardNext /\ UNCHANGED <<keyspacePart, memoryPart, otherPart>>
    BY <2>1 DEF Uses, OnePart
  <2>2. CASE Uses("keyspace") /\ KeyspaceNext /\ UNCHANGED <<dashboardPart, memoryPart, otherPart>>
    BY <2>2 DEF Uses, OnePart
  <2>3. CASE Uses("memory") /\ MemoryNext /\ UNCHANGED <<dashboardPart, keyspacePart, otherPart>>
    BY <2>3 DEF Uses, OnePart
  <2>4. CASE Uses("kept") /\ KeptNext /\ UNCHANGED <<db, tabsPart, textPart, cliPart, formPart, storePart>>
    BY <2>4 DEF Uses, OnePart
  <2>5. CASE Uses("text") /\ TextNext /\ UNCHANGED <<db, tabsPart, keptPart, cliPart, formPart, storePart>>
    BY <2>5 DEF Uses, OnePart
  <2>6. CASE Uses("console") /\ CliNext /\ UNCHANGED <<tabsPart, keptPart, textPart, formPart, storePart>>
    BY <2>6 DEF Uses, OnePart
  <2>7. CASE Uses("form") /\ FormNext /\ UNCHANGED <<db, tabsPart, keptPart, textPart, cliPart, storePart>>
    BY <2>7 DEF Uses, OnePart
  <2>8. CASE Uses("list") /\ StoreNext /\ UNCHANGED <<tabsPart, keptPart, textPart, cliPart, formPart>>
    BY <2>8, StoreKeepsDb DEF Uses, OnePart
  <2> QED BY <1>2, <2>1, <2>2, <2>3, <2>4, <2>5, <2>6, <2>7, <2>8 DEF Next
<1> QED BY <1>1, <1>2

LEMMA DbStays ==
  ASSUME PageInv, DashboardNext \/ KeyspaceNext \/ MemoryNext \/ CliNext \/ UNCHANGED db
  PROVE  db' \in Databases
<1>1. DashboardTypeOK /\ KeyspaceTypeOK /\ CliTypeOK /\ MemoryTypeOK /\ db \in Databases
  BY DEF PageInv, DashboardPartInv, KeyspacePartInv, CliPartInv, MemoryInv
<1>2. CASE DashboardNext
  BY <1>1, <1>2, DashboardTypes DEF DashboardTypeOK
<1>3. CASE KeyspaceNext
  <2>1. KeyspaceTypeOK'
    BY <1>1, <1>3, TypeStep
  <2> QED BY <2>1 DEF KeyspaceTypeOK
<1>4. CASE MemoryNext
  BY <1>1, <1>4, MemoryTypes
<1>5. CASE CliNext
  <2>1. CliTypeOK'
    BY <1>1, <1>5, CliTypes
  <2> QED BY <2>1 DEF CliTypeOK
<1> QED BY <1>1, <1>2, <1>3, <1>4, <1>5

LEMMA PageStep == ASSUME PageInv, [Next]_All PROVE PageInv'
<1>1. OnePart /\ db' \in Databases
  BY NextIsOfOnePart, DbStays
<1>2. DashboardPartInv' /\ (tab' # "dashboard" => DashboardInit')
  BY <1>1, DashboardStep, DashboardIdle DEF PageInv, OnePart
<1>3. KeyspacePartInv' /\ (tab' # "keyspace" => KeyspaceInit')
  BY <1>1, KeyspaceStep, KeyspaceIdle DEF PageInv, OnePart
<1>4. MemoryInv' /\ (tab' # "memory" => MemoryInit')
  BY <1>1, MemoryInvStep, MemoryIdle DEF PageInv, OnePart
<1>5. KeptInv' /\ TextInv'
  BY <1>1, KeptInvStep, KeptInvStutter, TextInvStep, TextInvStutter DEF PageInv, OnePart
<1>6. CliPartInv' /\ FormPartInv' /\ StorePartInv'
  BY <1>1, CliStep, FormStep, StoreStep DEF PageInv, OnePart
<1> QED BY <1>2, <1>3, <1>4, <1>5, <1>6 DEF PageInv

LEMMA PageInvariant == Spec => []PageInv
<1>1. Init => PageInv
  BY PageInit
<1>2. PageInv /\ [Next]_All => PageInv'
  BY PageStep
<1> QED BY <1>1, <1>2, PTL DEF Spec

(* Whatever part of the page is used, and whichever of them switches the    *)
(* database, every variable of every part keeps its type; in particular no  *)
(* page selects a connection that it does not have.                         *)
THEOREM PageTypeCorrect == Spec => []TypeOK
<1>1. PageInv => TypeOK
  <2> SUFFICES ASSUME PageInv PROVE TypeOK
    OBVIOUS
  <2>1. KeptTypeOK /\ TextTypeOK /\ MemoryTypeOK
    BY DEF PageInv, KeptInv, KeptPlaces, TextInv, MemoryInv
  <2>2. exported \in ListOf(Listed)
    BY OpenedList DEF PageInv, StorePartInv, StoreInv, OpenedFile
  <2>3. StoreTypeOK
    BY <2>2 DEF PageInv, StorePartInv, StoreInv, SelectInv, StoreTypeOK
  <2>4. DashboardTypeOK /\ KeyspaceTypeOK /\ CliTypeOK /\ FormTypeOK
    BY DEF PageInv, DashboardPartInv, KeyspacePartInv, CliPartInv, FormPartInv
  <2> QED BY <2>1, <2>3, <2>4 DEF TypeOK
<1> QED BY <1>1, PageInvariant, PTL

(* What is proved of each part holds on the page they share: no part is     *)
(* wrong about the database because another one switches it.                *)
PageIsTrue ==
  /\ StatsOfTheDatabase /\ SettledOnTheDatabase
  /\ ListensToTheDatabase /\ StatusIsTrue
  /\ KeepsWhatWasKept /\ TableIsTrue /\ DiffIsLongest
  /\ RunsOnlyWhatItWarnedOf /\ HandsOverWhatItShows /\ KeepsTheConnections

(* Each part keeps what it promises when all of them are on the page.       *)
THEOREM EveryPartKeepsItsPromise == Spec => []PageIsTrue
<1>1. PageInv => PageIsTrue
  <2> SUFFICES ASSUME PageInv PROVE PageIsTrue
    OBVIOUS
  <2>1. StatsOfTheDatabase /\ SettledOnTheDatabase
    BY SettleInvShows DEF PageInv, DashboardPartInv, StatsInv
  <2>2. ListensToTheDatabase /\ StatusIsTrue
    BY StatusShows, ActiveShows DEF PageInv, KeyspacePartInv
  <2>3. KeepsWhatWasKept /\ TableIsTrue /\ DiffIsLongest
    BY KeptInvShows, MemoryInvShows, TextInvShows DEF PageInv
  <2>4. RunsOnlyWhatItWarnedOf /\ HandsOverWhatItShows /\ KeepsTheConnections
    BY DEF PageInv, CliPartInv, CliInv, FormPartInv, FormInv, StorePartInv, StoreInv, IsKept,
           KeepsTheConnections
  <2> QED BY <2>1, <2>2, <2>3, <2>4 DEF PageIsTrue
<1> QED BY <1>1, PageInvariant, PTL
=============================================================================

------------------------------ MODULE Dashboard ------------------------------
(***************************************************************************)
(* The statistics of one connection's dashboard and its key count in the   *)
(* sidebar (Dashboard, StatsView and App), while the user switches the     *)
(* database.                                                               *)
(*                                                                         *)
(* Three kinds of request set them: the fetch of a newly selected          *)
(* database, which the next switch aborts; refreshes by button, timer or a *)
(* changed setting, which nothing aborts; and the health requests that     *)
(* follow an operation of a tab, of which a new one aborts the last.  An   *)
(* aborted request has no effect, so it is forgotten when it is aborted.   *)
(***************************************************************************)
EXTENDS Selection

CONSTANT Requests  \* requests that may be on their way at once

VARIABLES
  mounted,   \* the connection has its dashboard on the page
  stats,     \* the database whose statistics are shown, or None
  failed,    \* an error is shown
  loading,
  keyCount,  \* the health entry: its status, and whose keys it counts
  request,   \* requests on their way
  auto,      \* Auto-refresh is ticked
  late       \* history: requests with the old database on their way at the last switch

shown == <<stats, failed, loading, keyCount>>
dashboardPart == <<mounted, shown, request, auto, late>>
dashboardVars == <<db, dashboardPart>>

(* The kinds nothing aborts at a switch.                                    *)
Lasting  == {"refresh", "health", "keys", "setting"}
Request  == [kind : {"fetch"} \cup Lasting, db : Databases]
KeyCount == [status : {"checking", "ok", "error"}, of : Databases \cup {None}]

ASSUME NoRequestAssumption == None \notin Request

DashboardTypeOK ==
  /\ db \in Databases /\ mounted \in BOOLEAN /\ stats \in Databases \cup {None}
  /\ failed \in BOOLEAN /\ loading \in BOOLEAN /\ auto \in BOOLEAN /\ late \subseteq Lasting
  /\ keyCount \in KeyCount
  /\ request \in [Requests -> Request \cup {None}]

-----------------------------------------------------------------------------
Free(r) == request[r] = None
Under(r, kind) == ~Free(r) /\ request[r].kind = kind
NoneOf(kind) == \A r \in Requests : ~Under(r, kind)

Without(kind) == [r \in Requests |-> IF Under(r, kind) THEN None ELSE request[r]]
With(requests, r, kind, d) == [requests EXCEPT ![r] = [kind |-> kind, db |-> d]]

(* fetchStats up to its await.                                              *)
fetchStats == loading' = TRUE /\ failed' = FALSE

DashboardInit ==
  /\ db \in Databases /\ mounted = FALSE
  /\ stats = None /\ failed = FALSE /\ loading = FALSE /\ auto = FALSE /\ late = {}
  /\ keyCount = [status |-> "checking", of |-> None]
  /\ request = [r \in Requests |-> None]

(* A saved connection is loaded or a new one added: App checks its health   *)
(* and the dashboard fetches.                                               *)
Mount(r, q) ==
  /\ ~mounted /\ mounted' = TRUE /\ r # q
  /\ fetchStats
  /\ request' = With(With(request, r, "fetch", db), q, "health", db)
  /\ UNCHANGED <<db, stats, keyCount, auto, late>>

(* changeDb, by the sidebar or the Key Diff tab, and the dashboard's        *)
(* effect, which depends on the number only.                                *)
LeftBehind == {k \in Lasting \ {"setting"} : ~NoneOf(k)}

SwitchDb_LetsTheFetchRun(r, d) ==
  /\ mounted /\ d # db /\ Free(r) /\ changeDb(d)
  /\ stats' = None /\ fetchStats
  /\ request' = With(request, r, "fetch", d)
  /\ late' = LeftBehind
  /\ UNCHANGED <<mounted, keyCount, auto>>

SwitchDb_FetchesTheOld(r, d) ==
  /\ mounted /\ d # db /\ (Free(r) \/ Under(r, "fetch")) /\ changeDb(d)
  /\ stats' = None /\ fetchStats
  /\ request' = With(Without("fetch"), r, "fetch", db)
  /\ late' = LeftBehind
  /\ UNCHANGED <<mounted, keyCount, auto>>

SwitchDb(r, d) ==
  /\ mounted /\ d # db /\ (Free(r) \/ Under(r, "fetch")) /\ changeDb(d)
  /\ stats' = None /\ fetchStats
  /\ request' = With(Without("fetch"), r, "fetch", d)
  /\ late' = LeftBehind
  /\ UNCHANGED <<mounted, keyCount, auto>>

(* The page's other refreshes read the database when they are sent.         *)
Refresh(r) ==
  /\ fetchStats /\ request' = With(request, r, "refresh", db)
  /\ UNCHANGED <<db, mounted, stats, keyCount, auto, late>>

RefreshButton(r) == mounted /\ Free(r) /\ ~loading /\ Refresh(r)
RefreshTimer(r)  == Free(r) /\ auto /\ Refresh(r)

(* The checkbox is there while statistics are.                              *)
TickAuto ==
  /\ stats # None /\ auto' = ~auto
  /\ UNCHANGED <<db, mounted, shown, request, late>>

StatsAnswer(r) ==
  /\ Under(r, "fetch") \/ Under(r, "refresh")
  /\ stats' = request[r].db /\ loading' = FALSE
  /\ keyCount' = [status |-> "ok", of |-> request[r].db]
  /\ request' = [request EXCEPT ![r] = None]
  /\ UNCHANGED <<db, mounted, failed, auto, late>>

StatsFail(r) ==
  /\ Under(r, "fetch") \/ Under(r, "refresh")
  /\ failed' = TRUE /\ loading' = FALSE
  /\ request' = [request EXCEPT ![r] = None]
  /\ UNCHANGED <<db, mounted, stats, keyCount, auto, late>>

(* An operation on keys, of another tab, or a changed setting.              *)
Operate(r) ==
  /\ mounted /\ Free(r)
  /\ \/ request' = With(request, r, "keys", db)
     \/ stats # None /\ request' = With(request, r, "setting", db)
  /\ UNCHANGED <<db, mounted, shown, auto, late>>

OperationFails(r) ==
  /\ Under(r, "keys") \/ Under(r, "setting")
  /\ request' = [request EXCEPT ![r] = None]
  /\ UNCHANGED <<db, mounted, shown, auto, late>>

SettingSaved(r) == Under(r, "setting") /\ Refresh(r)

(* The handler of an operation on keys passes on the connection of the      *)
(* render that started it.                                                  *)
refetchHealth(r) ==
  /\ Under(r, "keys")
  /\ request' = With(Without("health"), r, "health", request[r].db)
  /\ UNCHANGED <<db, mounted, shown, auto, late>>

HealthAnswer(r) ==
  /\ Under(r, "health")
  /\ \/ keyCount' = [status |-> "ok", of |-> request[r].db]
     \/ keyCount' = [status |-> "error", of |-> None]
  /\ request' = [request EXCEPT ![r] = None]
  /\ UNCHANGED <<db, mounted, stats, failed, loading, auto, late>>

-----------------------------------------------------------------------------
Answer(r) ==
  \/ StatsAnswer(r) \/ StatsFail(r) \/ HealthAnswer(r)
  \/ refetchHealth(r) \/ SettingSaved(r) \/ OperationFails(r)

DashboardNext ==
  \/ TickAuto \/ \E r, q \in Requests : Mount(r, q)
  \/ \E r \in Requests :
    \/ \E d \in Databases : SwitchDb(r, d)
    \/ RefreshButton(r) \/ RefreshTimer(r) \/ Operate(r) \/ Answer(r)

DashboardSpec == DashboardInit /\ [][DashboardNext]_dashboardVars

-----------------------------------------------------------------------------
(* "Total Keys (DB n)" and the rest are of the database selected, unless a  *)
(* refresh was on its way when it was selected: a fetch "always reads       *)
(* latest db", and the one of the database before is aborted.               *)
StatsOfTheDatabase == late \cap {"refresh"} = {} => stats \in {None, db}

(* When every request is over the page is not loading, and without an error *)
(* it shows the database selected, in the sidebar too, unless something was *)
(* left behind by the last switch.                                          *)
SettledOnTheDatabase ==
  mounted /\ (\A r \in Requests : Free(r)) =>
    /\ ~loading
    /\ late = {} /\ ~failed => stats = db /\ (keyCount.status = "error" \/ keyCount.of = db)
=============================================================================

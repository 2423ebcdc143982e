--------------------------- MODULE MemoryAnalysis ---------------------------
(***************************************************************************)
(* The memory analysis of one connection (MemoryView): the rows of the     *)
(* last analysis, their filters and pages, and the dialog in which a row's *)
(* key is deleted or renamed, while the user switches the database.        *)
(*                                                                         *)
(* Neither an analysis nor a deletion or renaming is aborted by anything,  *)
(* and nothing keeps a second one from being sent (Enter renames again     *)
(* while a renaming is on its way).  The filters (search, type, TTL,       *)
(* namespace) are one set of names.                                        *)
(***************************************************************************)
EXTENDS Selection, SequencesExt, Lists

CONSTANTS
  Names,     \* names of keys
  PageSize,  \* PAGE_SIZE
  Changes    \* deletions and renamings that may be on their way together

ASSUME NamesAssumption == IsFiniteSet(Names)
ASSUME PageSizeAssumption == PageSize \in Nat \ {0}

VARIABLES
  analysis,   \* the database of the analysis on its way, or None
  rows,       \* data.keys, in the order of the table: names, and the
              \* databases they are keys of
  rowsOf,     \* the database that was analysed, or None: no data
  letThrough, \* the names the filters let through
  page,
  grouped,    \* the view by namespaces is shown
  dialog,     \* the row opened, or None
  changes,    \* the deletions and renamings on their way
  overtaken,  \* history: an analysis was on its way at the last switch
  crossed,    \* history: a row got its name by a renaming in another database
  shrunk      \* history: rows left by a change since the last page was chosen

memoryPart == <<analysis, rows, rowsOf, letThrough, page, grouped, dialog, changes,
                overtaken, crossed, shrunk>>
memoryVars == <<db, memoryPart>>

Row == [db : Databases, name : Names]
RowChange == [db : Databases, from : Names, to : Names \cup {None}]

MemoryTypeOK ==
  /\ analysis \in Databases \cup {None} /\ rowsOf \in Databases \cup {None}
  /\ rows \in Seq(Row) /\ letThrough \subseteq Names /\ page \in Nat
  /\ grouped \in BOOLEAN /\ overtaken \in BOOLEAN /\ crossed \in BOOLEAN /\ shrunk \in BOOLEAN
  /\ dialog \in Names \cup {None} /\ changes \in [Changes -> RowChange \cup {None}]

-----------------------------------------------------------------------------
(* What the table shows.                                                    *)
Named(S) == [db : Databases, name : S]
Shown(list) == Filtered(list, Named(letThrough))
filtered == Shown(rows)
totalPages == (Len(filtered) + PageSize - 1) \div PageSize
paged == SubSeq(filtered, page * PageSize + 1, Min({Len(filtered), page * PageSize + PageSize}))
OnPage == rowsOf # None /\ analysis = None
TableShown == OnPage /\ ~grouped /\ filtered # <<>>

MemoryInit ==
  /\ db \in Databases
  /\ analysis = None /\ rows = <<>> /\ rowsOf = None /\ letThrough = Names /\ page = 0
  /\ grouped = FALSE /\ dialog = None /\ changes = [c \in Changes |-> None]
  /\ overtaken = FALSE /\ crossed = FALSE /\ shrunk = FALSE

(* A page of the table is chosen, by the user or by a handler.              *)
GoTo(p) == page' = p /\ shrunk' = FALSE

(* The database is switched.  A dialog is modal, so none is open.           *)
ResetView_KeepsTheData(d) ==
  /\ dialog = None /\ changeDb(d)
  /\ letThrough' = Names /\ GoTo(0) /\ overtaken' = (analysis # None)
  /\ UNCHANGED <<analysis, rows, rowsOf, grouped, dialog, changes, crossed>>

ResetView(d) ==
  /\ dialog = None /\ changeDb(d)
  /\ rows' = <<>> /\ rowsOf' = None /\ letThrough' = Names /\ GoTo(0)
  /\ overtaken' = (analysis # None) /\ crossed' = FALSE
  /\ UNCHANGED <<analysis, grouped, dialog, changes>>

(* Search and type filter stay, TTL and namespace filter are taken away.    *)
analyze ==
  /\ dialog = None /\ analysis = None /\ analysis' = db
  /\ rows' = <<>> /\ rowsOf' = None /\ GoTo(0) /\ grouped' = FALSE
  /\ overtaken' = FALSE /\ crossed' = FALSE
  /\ letThrough' \in SUBSET Names /\ letThrough \subseteq letThrough'
  /\ UNCHANGED <<db, dialog, changes>>

AnalysisAnswer ==
  /\ analysis # None /\ analysis' = None
  /\ rowsOf' = analysis /\ crossed' = FALSE
  /\ rows' \in {SetToSeq(s) : s \in SUBSET [db : {analysis}, name : Names]}
  /\ UNCHANGED <<db, letThrough, page, grouped, dialog, changes, overtaken, shrunk>>

AnalysisFails ==
  /\ analysis # None /\ analysis' = None
  /\ UNCHANGED <<db, rows, rowsOf, letThrough, page, grouped, dialog, changes, overtaken, crossed, shrunk>>

-----------------------------------------------------------------------------
(* The controls of the page.  Search and type are disabled by namespaces.   *)
Controls ==
  OnPage /\ dialog = None /\ UNCHANGED <<db, analysis, rowsOf, dialog, changes, overtaken, crossed>>

toggleSort ==
  /\ TableShown /\ Controls /\ GoTo(0)
  /\ \E p \in Bijection(DOMAIN rows, DOMAIN rows) : rows' = [i \in DOMAIN rows |-> rows[p[i]]]
  /\ UNCHANGED <<letThrough, grouped>>

Filter ==
  /\ ~grouped /\ Controls /\ GoTo(0) /\ letThrough' \in SUBSET Names
  /\ UNCHANGED <<rows, grouped>>

(* A part of the TTL distribution or a namespace is clicked.                *)
FilterAnywhere ==
  /\ Controls /\ GoTo(0) /\ letThrough' \in SUBSET Names /\ grouped' = FALSE
  /\ UNCHANGED rows

(* The filter's own Clear, and the view by namespaces: the page stays.      *)
ClearFilter ==
  /\ Controls /\ letThrough' \in SUBSET Names /\ letThrough \subseteq letThrough'
  /\ UNCHANGED <<rows, page, grouped, shrunk>>

ShowGroups ==
  /\ Controls /\ grouped' = ~grouped
  /\ letThrough' \in IF grouped THEN {letThrough} ELSE {s \in SUBSET Names : letThrough \subseteq s}
  /\ UNCHANGED <<rows, page, shrunk>>

CanPageBack == page # 0
CanPageForward_OnePageMore == page < totalPages
CanPageForward == page < totalPages - 1

TurnPage ==
  /\ TableShown /\ totalPages > 1 /\ Controls
  /\ \/ CanPageBack /\ page' \in {0, page - 1}
     \/ CanPageForward /\ page' \in {page + 1, totalPages - 1}
  /\ UNCHANGED <<rows, letThrough, grouped, shrunk>>

-----------------------------------------------------------------------------
(* The dialog.  It may be closed while its request is on its way.           *)
OpenRow(n) ==
  /\ TableShown /\ dialog = None /\ n \in {row.name : row \in ToSet(paged)} /\ dialog' = n
  /\ UNCHANGED <<db, analysis, rows, rowsOf, letThrough, page, grouped, changes, overtaken, crossed, shrunk>>

CloseRow ==
  /\ dialog # None /\ dialog' = None
  /\ UNCHANGED <<db, analysis, rows, rowsOf, letThrough, page, grouped, changes, overtaken, crossed, shrunk>>

SendChange(c, to) ==
  /\ dialog # None /\ changes[c] = None /\ to # dialog
  /\ changes' = [changes EXCEPT ![c] = [db |-> db, from |-> dialog, to |-> to]]
  /\ UNCHANGED <<db, analysis, rows, rowsOf, letThrough, page, grouped, dialog, overtaken, crossed, shrunk>>

handleDelete(c) == SendChange(c, None)
handleRename(c, to) == SendChange(c, to)

(* Its answer goes by the name alone: it changes whatever rows there are    *)
(* and closes whatever is open.                                             *)
ChangeAnswer(c, list) ==
  /\ changes' = [changes EXCEPT ![c] = None] /\ dialog' = None
  /\ rows' = list /\ shrunk' = (shrunk \/ Len(Shown(list)) < Len(filtered))
  /\ UNCHANGED <<db, analysis, rowsOf, letThrough, page, grouped, overtaken>>

handleDeleted(c) ==
  /\ changes[c] # None /\ changes[c].to = None
  /\ ChangeAnswer(c, Filtered(rows, Named(Names \ {changes[c].from}))) /\ UNCHANGED crossed

Renamed(row, change) == IF row.name = change.from THEN [db |-> change.db, name |-> change.to] ELSE row

handleRenamed(c) ==
  /\ changes[c] # None /\ changes[c].to # None
  /\ ChangeAnswer(c, [i \in DOMAIN rows |-> Renamed(rows[i], changes[c])])
  /\ crossed' = (crossed \/ \E i \in DOMAIN rows :
                              rows[i].name = changes[c].from /\ rows[i].db # changes[c].db)

ChangeFails(c) ==
  /\ changes[c] # None /\ changes' = [changes EXCEPT ![c] = None]
  /\ UNCHANGED <<db, analysis, rows, rowsOf, letThrough, page, grouped, dialog, overtaken, crossed, shrunk>>

MemoryNext ==
  \/ \E d \in Databases \ {db} : ResetView(d)
  \/ analyze \/ AnalysisAnswer \/ AnalysisFails
  \/ toggleSort \/ Filter \/ FilterAnywhere \/ ClearFilter \/ ShowGroups \/ TurnPage
  \/ (\E n \in Names : OpenRow(n)) \/ CloseRow
  \/ \E c \in Changes :
        \/ handleDelete(c) \/ handleDeleted(c) \/ handleRenamed(c) \/ ChangeFails(c)
        \/ \E n \in Names : handleRename(c, n)

MemorySpec == MemoryInit /\ [][MemoryNext]_memoryVars

-----------------------------------------------------------------------------
(* Every row is a key of the database selected, unless an analysis was on   *)
(* its way when it was selected, or the answer to a renaming in another     *)
(* database came late and gave a row of the same name the new one; and      *)
(* while rows pass the filters the page shown has some of them, unless a    *)
(* deletion or renaming took rows away from under it: nothing clamps the    *)
(* page, and with one page left there are no buttons to leave it.           *)
TableIsTrue ==
  /\ ~overtaken => rowsOf \in {None, db}
  /\ ~overtaken /\ ~crossed => \A i \in DOMAIN rows : rows[i].db = db
  /\ filtered # <<>> /\ ~shrunk => paged # <<>>
=============================================================================

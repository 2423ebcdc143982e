---------------------------- MODULE KeysBrowser ----------------------------
(***************************************************************************)
(* The Keys tab (features/keys/index.tsx) with the value panel it mounts   *)
(* (KeyDetail.tsx) and the backend's scanKeys.                             *)
(*                                                                         *)
(* Handlers run to completion, but each awaits a fetch in the middle.  What *)
(* runs before the await is one action, what runs after it another; the    *)
(* second half sees the connection, selection and pattern of the render    *)
(* that created its closure.  Between the two the user goes on, switches   *)
(* the database, and other answers arrive.  Only scan has an               *)
(* AbortController.  An open modal covers the page: while one is shown the *)
(* user does nothing else.  Some modals can be closed while their request  *)
(* is on its way; the answer is then for a page that has gone on.          *)
(***************************************************************************)
EXTENDS Naturals, FiniteSets, Nothing

CONSTANTS
  Dbs,        \* databases of the connection
  Names,      \* key names
  Stored,     \* database -> the keys it holds at first; nobody else writes
  SecondPage, \* the names SCAN returns only from its second cursor on
  Patterns,   \* search patterns, each the set of names it matches
  ScanCap,    \* 10000 in the code: a full scan stops at this many keys
  MaxBusy,    \* bound: requests in flight at once
  MaxGone     \* bound: databases that keys are deleted from

ASSUME DataAssumption ==
  /\ IsFiniteSet(Names) /\ None \notin Names
  /\ Stored \in [Dbs -> SUBSET Names] /\ SecondPage \subseteq Names
  /\ Names \in Patterns /\ Patterns \subseteq SUBSET Names
  /\ ScanCap \in Nat /\ MaxBusy \in Nat /\ MaxGone \in Nat

VARIABLES
  db,        \* connection.db, in every closure of the current render
  input,     \* inputPattern
  pattern,   \* the pattern last searched
  keys,      \* the list; each name with the database it was scanned from
  cursor,    \* 0 or 1, the start of the second page
  done,      \* the last scan said there is no more
  scanning,  \* the flag that disables Search and Load More
  scan,      \* the scan in flight (not aborted), or None
  ask,       \* the warning before a scan of all keys is shown
  checked,   \* checkedKeys
  selected,  \* selectedKey
  loading,   \* loadingValue
  shown,     \* keyValue: the key of the value panel and where it was read
  draft,     \* KeyDetail's editor: the key whose value is being edited
  fetches,   \* slot -> the value request in flight
  write,     \* the request of KeyDetail that writes to its key, or None
  delete,    \* the delete request in flight, or None
  bulk,      \* the bulk TTL or flush request in flight, or None
  gone,      \* database -> keys a delete was sent for
  raced,     \* history: the value panel was changed by two parties at once
  mixed,     \* history: the list was cleared under a scan, or edited from another db
  strayed    \* history: a late answer has had another database listed here

list   == <<input, pattern, keys, cursor, done, scanning, scan, ask, checked, mixed,
            strayed>>
panel  == <<selected, loading, shown, draft, fetches, raced>>
writes == <<write, delete, bulk, gone>>
vars   == <<db, list, panel, writes>>

-----------------------------------------------------------------------------
All   == Names                              \* the pattern '*'
Slots == 1 .. MaxBusy
Key   == [db : Dbs, name : Names]
At(d, S) == {[db |-> d, name |-> n] : n \in S}
KeyNames == {k.name : k \in keys}

TypeOK ==
  /\ db \in Dbs /\ input \in Patterns /\ pattern \in Patterns
  /\ keys \subseteq Key /\ cursor \in {0, 1} /\ done \in BOOLEAN
  /\ scanning \in BOOLEAN /\ ask \in BOOLEAN
  /\ scan \in [db : Dbs, pattern : Patterns, cursor : {0, 1}, reset : BOOLEAN] \cup {None}
  /\ checked \subseteq Names /\ selected \in Names \cup {None}
  /\ loading \in BOOLEAN /\ shown \in Key \cup {None} /\ draft \in Key \cup {None}
  /\ draft # None => shown # None
  /\ fetches \in [Slots -> Key \cup {None}]
  /\ write \in [key : Key, draft : Key \cup {None}, selected : Names \cup {None},
                here : BOOLEAN] \cup {None}
  /\ delete \in [kind : {"bulk", "one"}, db : Dbs, names : SUBSET Names,
                 modal : BOOLEAN] \cup {None}
  /\ bulk \in [kind : {"ttl", "flush"}, db : Dbs, input : Patterns, modal : BOOLEAN] \cup {None}
  /\ gone \in [Dbs -> SUBSET Names]
  /\ {raced, mixed, strayed} \subseteq BOOLEAN

Init ==
  /\ db \in Dbs /\ input = All /\ pattern = All
  /\ keys = {} /\ cursor = 0 /\ done = FALSE /\ scanning = FALSE /\ scan = None
  /\ ask = FALSE /\ checked = {} /\ mixed = FALSE /\ strayed = FALSE
  /\ selected = None /\ loading = FALSE /\ shown = None /\ draft = None
  /\ fetches = [i \in Slots |-> None] /\ raced = FALSE
  /\ write = None /\ delete = None /\ bulk = None
  /\ gone = [d \in Dbs |-> {}]

Modal    == ask \/ (delete # None /\ delete.modal) \/ (bulk # None /\ bulk.modal)
Fetching == \E i \in Slots : fetches[i] # None
Busy == Cardinality({i \in Slots : fetches[i] # None})
        + Cardinality({r \in {"scan", "write", "delete", "bulk"} :
                         None # CASE r = "scan" -> scan [] r = "write" -> write
                                  [] r = "delete" -> delete [] r = "bulk" -> bulk})
Room == Busy < MaxBusy
FreeSlot == {i \in Slots : fetches[i] = None /\ \A j \in 1 .. i - 1 : fetches[j] # None}

-----------------------------------------------------------------------------
(* Parts of handlers, as relations on the variables they assign.           *)

(* The panel's KeyDetail leaves the page, and with it its editor, its       *)
(* delete dialog and its interest in the answer to a write.                 *)
Unmount ==
  /\ draft' = None
  /\ write' = IF write = None THEN None ELSE [write EXCEPT !.here = FALSE]
  /\ delete' = IF delete = None THEN None
               ELSE [delete EXCEPT !.modal = @ /\ delete.kind = "bulk"]

(* setSelectedKey(null); setKeyValue(null)                                  *)
Deselect ==
  /\ selected' = None /\ shown' = None
  /\ raced' = (raced \/ Fetching)
  /\ UNCHANGED <<loading, fetches>>

(* handleSelectKey up to its await, in a closure of database d.             *)
handleSelectKey(n, d) ==
  \E i \in FreeSlot :
    /\ fetches' = [fetches EXCEPT ![i] = [db |-> d, name |-> n]]
    /\ selected' = n /\ loading' = TRUE /\ shown' = None
    /\ raced' = (Fetching \/ d # db)

(* scan up to its await, in a closure of database d.  The aborted scan's    *)
(* finally clears the flag again.                                           *)
startScan(reset, p, d) ==
  /\ scan' = [db |-> d, pattern |-> p, cursor |-> IF reset THEN 0 ELSE cursor,
              reset |-> reset]
  /\ scanning' = (scan = None)

doSearch(p, d) ==
  /\ pattern' = p /\ keys' = {} /\ cursor' = 0 /\ done' = FALSE /\ checked' = {}
  /\ mixed' = FALSE /\ strayed' = (d # db)
  /\ Deselect
  /\ startScan(TRUE, p, d)

(* handleSearch, with the pattern and the database of its closure: '*' asks *)
(* first, and keeps list and panel; ticks is what the caller leaves ticked. *)
handleSearch(p, d, ticks) ==
  \/ /\ p = All
     /\ ask' = TRUE /\ checked' = ticks
     /\ UNCHANGED <<pattern, keys, cursor, done, mixed, strayed, panel, scan, scanning>>
  \/ /\ p # All
     /\ doSearch(p, d) /\ draft' = None /\ UNCHANGED ask

(* Writes of KeyDetail are told that it left, if it did.                    *)
TellWrite ==
  write' = IF write = None \/ shown' # None THEN write ELSE [write EXCEPT !.here = FALSE]

-----------------------------------------------------------------------------
(* The list: searching, paging, ticking.                                    *)

TypePattern(p) ==
  /\ ~Modal /\ input' = p
  /\ UNCHANGED <<db, pattern, keys, cursor, done, scanning, scan, ask, checked, mixed,
                 strayed, panel, writes>>

(* Enter is not disabled while scanning; the button is.                     *)
Search ==
  /\ ~Modal /\ (scan # None \/ Room) /\ handleSearch(input, db, checked) /\ TellWrite
  /\ UNCHANGED <<db, input, delete, bulk, gone>>

ConfirmScan ==
  /\ ask /\ ask' = FALSE /\ (scan # None \/ Room)
  /\ doSearch(All, db) /\ Unmount
  /\ UNCHANGED <<db, input, bulk, gone>>

CancelScan ==
  /\ ask /\ ask' = FALSE
  /\ UNCHANGED <<db, input, pattern, keys, cursor, done, scanning, scan, checked, mixed,
                 strayed, panel, writes>>

LoadMore ==
  /\ ~Modal /\ (scan # None \/ Room) /\ keys # {} /\ ~done /\ ~scanning
  /\ startScan(FALSE, pattern, db)
  /\ UNCHANGED <<db, input, pattern, keys, cursor, done, ask, checked, mixed, strayed, panel,
                 writes>>

(* RedisService.scanKeys.  '*' is paged by the cursor of the request, any   *)
(* other pattern is scanned to the end or until ScanCap keys are found, and *)
(* the answer says done either way.  Keys that are being deleted may or may *)
(* not be found.                                                            *)
Matching(d, p) == Stored[d] \cap p
Present(d, p)  == Matching(d, p) \ gone[d]

Found(d, S) == {F \in SUBSET (Stored[d] \cap S) : Present(d, S) \subseteq F}

scanKeys(r) ==
  IF r.pattern = All
  THEN {[keys |-> F, next |-> 1 - r.cursor, done |-> r.cursor = 1] :
          F \in Found(r.db, IF r.cursor = 0 THEN Names \ SecondPage ELSE SecondPage)}
  ELSE {[keys |-> F, next |-> 0, done |-> TRUE] :
          F \in Found(r.db, r.pattern)
                \cup {F \in SUBSET Matching(r.db, r.pattern) : Cardinality(F) >= ScanCap}}

ScanAnswer_Replaces ==
  /\ scan # None
  /\ \E a \in scanKeys(scan) :
       /\ keys' = At(scan.db, a.keys)
       /\ cursor' = a.next /\ done' = a.done
  /\ scan' = None /\ scanning' = FALSE
  /\ UNCHANGED <<db, input, pattern, ask, checked, mixed, strayed, panel, writes>>

ScanAnswer ==
  /\ scan # None
  /\ \E a \in scanKeys(scan) :
       /\ keys' = IF scan.reset THEN At(scan.db, a.keys) ELSE keys \cup At(scan.db, a.keys)
       /\ cursor' = a.next /\ done' = a.done
  /\ scan' = None /\ scanning' = FALSE
  /\ UNCHANGED <<db, input, pattern, ask, checked, mixed, strayed, panel, writes>>

ScanFails ==
  /\ scan # None
  /\ scan' = None /\ scanning' = FALSE
  /\ UNCHANGED <<db, input, pattern, keys, cursor, done, ask, checked, mixed, strayed, panel,
                 writes>>

(* The Clear button of the search field: pattern, cursor and a scan in      *)
(* flight stay as they are.                                                 *)
ClearFilter ==
  /\ ~Modal /\ input # All
  /\ input' = All /\ keys' = {} /\ done' = FALSE /\ checked' = {}
  /\ mixed' = (mixed \/ scan # None)
  /\ Deselect /\ Unmount
  /\ UNCHANGED <<db, pattern, cursor, scanning, scan, ask, strayed, bulk, gone>>

toggleCheck(n) ==
  /\ ~Modal /\ n \in KeyNames
  /\ checked' = IF n \in checked THEN checked \ {n} ELSE checked \cup {n}
  /\ UNCHANGED <<db, input, pattern, keys, cursor, done, scanning, scan, ask, mixed,
                 strayed, panel, writes>>

(* The effect on connection.db.                                             *)
SwitchDb_LetsTheScanRun(d) ==
  /\ ~Modal /\ d # db /\ db' = d
  /\ UNCHANGED scan
  /\ keys' = {} /\ cursor' = 0 /\ pattern' = All /\ input' = All
  /\ checked' = {} /\ scanning' = FALSE /\ mixed' = FALSE /\ strayed' = FALSE
  /\ selected' = None /\ shown' = None
  /\ raced' = (raced \/ Fetching \/ write # None)
  /\ Unmount
  /\ UNCHANGED <<done, ask, loading, fetches, bulk, gone>>

SwitchDb(d) ==
  /\ ~Modal /\ d # db /\ db' = d
  /\ scan' = None
  /\ keys' = {} /\ cursor' = 0 /\ pattern' = All /\ input' = All
  /\ checked' = {} /\ scanning' = FALSE /\ mixed' = FALSE /\ strayed' = FALSE
  /\ selected' = None /\ shown' = None
  /\ raced' = (raced \/ Fetching \/ write # None)
  /\ Unmount
  /\ UNCHANGED <<done, ask, loading, fetches, bulk, gone>>

-----------------------------------------------------------------------------
(* The value panel.  KeyDetail is on the page while a value is shown.       *)

Select_KeepsThePanel(n) ==
  /\ ~Modal /\ Room /\ n \in KeyNames
  /\ \E i \in FreeSlot :
       /\ fetches' = [fetches EXCEPT ![i] = [db |-> db, name |-> n]]
       /\ selected' = n /\ raced' = Fetching
  /\ UNCHANGED <<db, list, loading, shown, draft, writes>>

Select(n) ==
  /\ ~Modal /\ Room /\ n \in KeyNames
  /\ handleSelectKey(n, db) /\ Unmount
  /\ UNCHANGED <<db, list, bulk, gone>>

(* A bookmark searches for its key and selects it.                          *)
OpenFavorite(n) ==
  /\ ~Modal /\ Busy + 2 <= MaxBusy /\ {n} \in Patterns /\ {n} # All
  /\ input' = {n} /\ pattern' = {n}
  /\ keys' = {} /\ cursor' = 0 /\ done' = FALSE /\ checked' = {} /\ mixed' = FALSE
  /\ strayed' = FALSE
  /\ startScan(TRUE, {n}, db)
  /\ handleSelectKey(n, db) /\ Unmount
  /\ UNCHANGED <<db, ask, bulk, gone>>

(* The answer is shown whatever has happened meanwhile.  A KeyDetail that   *)
(* is on the page stays, with its editor open, and shows the new key.       *)
ValueAnswer(i) ==
  /\ fetches[i] # None
  /\ shown' = fetches[i] /\ loading' = FALSE
  /\ fetches' = [fetches EXCEPT ![i] = None]
  /\ UNCHANGED <<db, list, selected, draft, raced, writes>>

ValueFails(i) ==
  /\ fetches[i] # None
  /\ loading' = FALSE
  /\ fetches' = [fetches EXCEPT ![i] = None]
  /\ UNCHANGED <<db, list, selected, shown, draft, raced, writes>>

Edit ==
  /\ ~Modal /\ shown # None /\ draft' = shown
  /\ UNCHANGED <<db, list, selected, loading, shown, fetches, raced, writes>>

CancelEdit ==
  /\ ~Modal /\ draft # None /\ draft' = None
  /\ UNCHANGED <<db, list, selected, loading, shown, fetches, raced, writes>>

(* handleSaveString sends the editor's text to the key shown now, in the    *)
(* database of now; hashOp, listOp_, setOp and zsetOp send an element.      *)
Send(text) ==
  /\ ~Modal /\ Room /\ shown # None /\ write = None
  /\ write' = [key |-> [db |-> db, name |-> shown.name], draft |-> text,
               selected |-> selected, here |-> TRUE]
  /\ UNCHANGED <<db, list, panel, delete, bulk, gone>>

Save == draft # None /\ Send(draft)
Op   == Send(None)

(* onRefresh of the render that sent the request: its selection and its     *)
(* database.                                                                *)
WriteAnswer ==
  /\ write # None /\ write' = None
  /\ IF write.selected # None
     THEN /\ handleSelectKey(write.selected, write.key.db)
          /\ draft' = None
          /\ delete' = IF delete = None THEN None
                       ELSE [delete EXCEPT !.modal = @ /\ delete.kind = "bulk"]
     ELSE /\ draft' = IF write.draft # None /\ write.here THEN None ELSE draft
          /\ UNCHANGED <<selected, loading, shown, fetches, raced, delete>>
  /\ UNCHANGED <<db, list, bulk, gone>>

WriteFails ==
  /\ write # None /\ write' = None
  /\ UNCHANGED <<db, list, panel, delete, bulk, gone>>

-----------------------------------------------------------------------------
(* Deleting.                                                                *)

MarkGone(S) ==
  /\ gone' = [gone EXCEPT ![db] = @ \cup (Stored[db] \cap S)]
  /\ Cardinality({d \in Dbs : gone'[d] # {}}) <= MaxGone

SendDelete(kind, S) ==
  /\ ~Modal /\ Room /\ delete = None
  /\ delete' = [kind |-> kind, db |-> db, names |-> S, modal |-> TRUE]
  /\ MarkGone(S)
  /\ UNCHANGED <<db, list, panel, write, bulk>>

handleDeleteKey  == shown # None /\ SendDelete("one", {shown.name})
handleBulkDelete == checked # {} /\ SendDelete("bulk", checked)

(* The dialog of one key can be left while the key is being deleted; that   *)
(* of the ticked keys cannot.                                               *)
CancelDelete ==
  /\ delete # None /\ delete.kind = "one" /\ delete.modal
  /\ delete' = [delete EXCEPT !.modal = FALSE]
  /\ UNCHANGED <<db, list, panel, write, bulk, gone>>

(* handleKeyDeleted: by name, in whatever list there is now.                *)
KeyDeleted ==
  /\ delete # None /\ delete.kind = "one" /\ delete' = None
  /\ keys' = {k \in keys : k.name \notin delete.names}
  /\ checked' = checked \ delete.names
  /\ mixed' = (mixed \/ delete.db # db)
  /\ Deselect /\ draft' = None /\ TellWrite
  /\ UNCHANGED <<db, input, pattern, cursor, done, scanning, scan, ask, strayed, bulk, gone>>

(* setCheckedKeys(new Set()); handleSearch().  With '*' the list stays, with *)
(* the keys that were deleted.                                              *)
BulkDeleted ==
  /\ delete # None /\ delete.kind = "bulk" /\ delete' = None
  /\ handleSearch(input, db, {}) /\ TellWrite
  /\ UNCHANGED <<db, input, bulk, gone>>

DeleteFails ==
  /\ delete # None /\ delete' = None
  /\ UNCHANGED <<db, list, panel, write, bulk, gone>>

-----------------------------------------------------------------------------
(* BulkTtlModal and FlushDbModal, each from its opening to its request.     *)
(* Their Close and Cancel work while the request is on its way.             *)

SendBulk(kind) ==
  /\ ~Modal /\ Room /\ bulk = None
  /\ bulk' = [kind |-> kind, db |-> db, input |-> input, modal |-> TRUE]
  /\ UNCHANGED <<db, list, panel, write, delete>>

SendTtl   == checked # {} /\ SendBulk("ttl") /\ UNCHANGED gone
SendFlush == SendBulk("flush") /\ MarkGone(Names)

CloseBulk ==
  /\ bulk # None /\ bulk.modal
  /\ bulk' = [bulk EXCEPT !.modal = FALSE]
  /\ UNCHANGED <<db, list, panel, write, delete, gone>>

(* onSuccess of the render that sent the request: it searches for that      *)
(* render's pattern in that render's database, aborting the scan of now.    *)
TtlAnswer ==
  /\ bulk # None /\ bulk.kind = "ttl" /\ bulk' = None
  /\ handleSearch(bulk.input, bulk.db, {}) /\ TellWrite
  /\ UNCHANGED <<db, input, delete, gone>>

BulkFails ==
  /\ bulk # None /\ bulk' = None
  /\ UNCHANGED <<db, list, panel, write, delete, gone>>

(* A scan in flight is left alone.                                          *)
resetAll ==
  /\ keys' = {} /\ cursor' = 0 /\ done' = FALSE /\ checked' = {} /\ ask' = FALSE
  /\ input' = All /\ pattern' = All
  /\ mixed' = (mixed \/ scan # None)
  /\ Deselect /\ Unmount
  /\ UNCHANGED <<db, scanning, scan, strayed>>

FlushAnswer ==
  /\ bulk # None /\ bulk.kind = "flush" /\ bulk' = None
  /\ resetAll /\ UNCHANGED gone

(* Delete by Pattern, which cannot be left while it runs, from its modal's  *)
(* opening to its end.                                                      *)
DeleteByPattern(S) ==
  /\ ~Modal /\ MarkGone(S) /\ resetAll /\ UNCHANGED bulk

-----------------------------------------------------------------------------
ListUser ==
  \/ \E p \in Patterns : TypePattern(p)
  \/ Search \/ ConfirmScan \/ CancelScan \/ LoadMore \/ ClearFilter
  \/ \E n \in Names : toggleCheck(n)
  \/ \E d \in Dbs : SwitchDb(d)

PanelUser ==
  \/ \E n \in Names : Select(n) \/ OpenFavorite(n)
  \/ Edit \/ CancelEdit \/ Save \/ Op

DeleteUser ==
  \/ handleDeleteKey \/ handleBulkDelete \/ CancelDelete
  \/ SendTtl \/ SendFlush \/ CloseBulk
  \/ \E p \in Patterns : DeleteByPattern(p)

Answers ==
  \/ ScanAnswer \/ ScanFails
  \/ \E i \in Slots : ValueAnswer(i) \/ ValueFails(i)
  \/ WriteAnswer \/ WriteFails
  \/ KeyDeleted \/ BulkDeleted \/ DeleteFails
  \/ TtlAnswer \/ FlushAnswer \/ BulkFails

Next == ListUser \/ PanelUser \/ DeleteUser \/ Answers

Spec == Init /\ [][Next]_vars

-----------------------------------------------------------------------------
(* Properties.                                                              *)

(* A bulk operation acts on the ticked names in the database selected now:  *)
(* each was listed by a scan of that very database, whatever was switched,  *)
(* searched or answered late ("the key list, search, and stats all follow   *)
(* the selected database", GUIDE.md:93-94).  There is one exception: a bulk *)
(* TTL whose modal was closed and which succeeds after a switch lists the   *)
(* database it was sent for, until the next search or switch.               *)
BulkActsOnListedKeys ==
  ~strayed => At(db, checked) \subseteq keys /\ \A k \in keys : k.db = db

(* Unless two requests changed the value panel at once, the key it shows is *)
(* the one selected, read from the database selected.                       *)
PanelShowsTheSelection ==
  ~raced /\ shown # None => selected # None /\ shown = [db |-> db, name |-> selected]

(* Unless they did, an edited text is only ever saved under the key it was  *)
(* read from.                                                               *)
SavedWhereItWasRead ==
  [][write = None /\ write' # None /\ ~raced
       => write'.draft \in {None, write'.key}]_vars

(* "All keys loaded": every key that matches and that nobody deletes is in  *)
(* the list, unless the list was reset under a scan, edited or filled from  *)
(* another database, or a full scan met its cap.                            *)
Complete == Present(db, pattern) \subseteq KeyNames

AllLoadedBelowTheCap ==
  /\ done /\ keys # {} /\ ~mixed /\ ~strayed
  /\ pattern = All \/ Cardinality(Matching(db, pattern)) <= ScanCap
  => Complete

(* "All keys loaded", as the page says it.                                  *)
AllKeysLoaded == done /\ keys # {} /\ ~mixed /\ ~strayed => Complete
=============================================================================

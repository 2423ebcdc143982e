------------------------- MODULE KeysBrowserProofs -------------------------
(***************************************************************************)
(* Proofs about the Keys tab, for any databases, keys, patterns, requests  *)
(* and bounds.                                                             *)
(*                                                                         *)
(* A bulk operation acts on keys listed from the database selected now.    *)
(* This is not inductive: what a scan will put into the list is decided    *)
(* when it is sent.  The strengthening says of the scan in flight that it  *)
(* is of the current database and, if it will replace the list, that the   *)
(* list (and so every tick) is gone already.  The late answer of a bulk    *)
(* TTL that was left is the exception, and is marked as one.               *)
(*                                                                         *)
(* The panel shows the key selected, and saves a text under the key it was *)
(* read from: the same is said of what is edited and still read.  "All     *)
(* keys loaded" is true below the cap: the first page is in the list, from *)
(* its answer to that of the second.                                       *)
(*                                                                         *)
(* The dialogs take from the database what they have shown.                *)
(***************************************************************************)
EXTENDS KeysBrowser, KeyActions, FiniteSetTheorems, TLAPS

ListIsHere == \A k \in keys : k = [db |-> db, name |-> k.name]
TicksListed == \A n \in checked : [db |-> db, name |-> n] \in keys
ScanIsHere == scan # None => scan.db = db
ResetIsOfNothing == scan # None /\ scan.reset => keys = {}

ListHere == ListIsHere /\ TicksListed /\ ScanIsHere /\ ResetIsOfNothing
ListInv == ~strayed => ListHere

(* The list as each handler leaves it: as it was, extended by the answer of *)
(* a scan, without the keys of some names, or emptied.                      *)
Untouched == UNCHANGED <<db, keys, scan, strayed>> /\ checked' \subseteq checked
Emptied == keys' = {} /\ checked' = {} /\ (~strayed' /\ scan' # None => scan'.db = db')

LEMMA UntouchedKeeps == ListInv /\ Untouched => ListInv'
BY DEF ListInv, ListHere, ListIsHere, TicksListed, ScanIsHere, ResetIsOfNothing, Untouched

LEMMA EmptiedKeeps == Emptied => ListInv'
BY DEF ListInv, ListHere, ListIsHere, TicksListed, ScanIsHere, ResetIsOfNothing, Emptied

LEMMA ScanSent ==
  ASSUME NEW reset, NEW p, NEW d, startScan(reset, p, d)
  PROVE  scan'.db = d /\ scan'.reset = reset
BY DEF startScan

(* A search in the database of its closure empties the list, and what it    *)
(* will list is of the database selected unless it is marked as strayed.    *)
LEMMA SearchEmpties ==
  ASSUME NEW p, NEW d, doSearch(p, d), db' = db
  PROVE  Emptied
<1>1. keys' = {} /\ checked' = {} /\ startScan(TRUE, p, d) /\ strayed' = (d # db)
  BY DEF doSearch
<1>2. scan'.db = d
  BY <1>1, ScanSent
<1> QED BY <1>1, <1>2 DEF Emptied

LEMMA SearchKeeps ==
  ASSUME ListInv, NEW p, NEW d, NEW ticks \in SUBSET checked, handleSearch(p, d, ticks), db' = db
  PROVE  ListInv'
<1>1. CASE doSearch(p, d)
  BY <1>1, SearchEmpties, EmptiedKeeps
<1>2. CASE ~doSearch(p, d)
  BY <1>2, UntouchedKeeps DEF handleSearch, Untouched
<1> QED BY <1>1, <1>2

LEMMA ResetKeeps ==
  ASSUME ListInv, UNCHANGED <<db, scan, strayed>>, keys' = {}, checked' = {}
  PROVE  ListInv'
BY EmptiedKeeps DEF Emptied, ListInv, ListHere, ScanIsHere

LEMMA ListStep == ListInv /\ [Next]_vars => ListInv'
<1> SUFFICES ASSUME ListInv, [Next]_vars PROVE ListInv'
  OBVIOUS
<1>1. ASSUME NEW p \in Patterns, TypePattern(p) PROVE ListInv'
  BY <1>1, UntouchedKeeps DEF TypePattern, Untouched
<1>2. CASE Search
  BY <1>2, SearchKeeps DEF Search
<1>3. CASE ConfirmScan
  BY <1>3, SearchEmpties, EmptiedKeeps DEF ConfirmScan
<1>4. CASE CancelScan
  BY <1>4, UntouchedKeeps DEF CancelScan, Untouched
<1>5. CASE LoadMore
  <2>1. startScan(FALSE, pattern, db) /\ UNCHANGED <<db, keys, checked, strayed>>
    BY <1>5 DEF LoadMore
  <2>2. scan'.db = db /\ ~scan'.reset
    BY <2>1, ScanSent
  <2> QED
    BY <2>1, <2>2
    DEF ListInv, ListHere, ListIsHere, TicksListed, ScanIsHere, ResetIsOfNothing
<1>6. CASE ClearFilter
  BY <1>6, ResetKeeps DEF ClearFilter
<1>7. ASSUME NEW n \in Names, toggleCheck(n) PROVE ListInv'
  <2>1. n \in KeyNames /\ UNCHANGED <<db, keys, scan, strayed>> /\ checked' \subseteq checked \cup {n}
    BY <1>7 DEF toggleCheck
  <2>2. PICK k \in keys : k.name = n
    BY <2>1 DEF KeyNames
  <2> QED
    BY <2>1, <2>2
    DEF ListInv, ListHere, ListIsHere, TicksListed, ScanIsHere, ResetIsOfNothing
<1>8. ASSUME NEW d \in Dbs, SwitchDb(d) PROVE ListInv'
  BY <1>8, EmptiedKeeps DEF SwitchDb, Emptied
<1>9. ASSUME NEW n \in Names, Select(n) PROVE ListInv'
  BY <1>9, UntouchedKeeps DEF Select, Untouched, list
<1>10. ASSUME NEW n \in Names, OpenFavorite(n) PROVE ListInv'
  <2>1. keys' = {} /\ checked' = {} /\ startScan(TRUE, {n}, db) /\ db' = db
    BY <1>10 DEF OpenFavorite
  <2> QED BY <2>1, ScanSent, EmptiedKeeps DEF Emptied
<1>11. CASE Edit \/ CancelEdit \/ Save \/ Op
  BY <1>11, UntouchedKeeps DEF Edit, CancelEdit, Save, Op, Send, Untouched, list
<1>12. CASE handleDeleteKey \/ handleBulkDelete \/ CancelDelete
  BY <1>12, UntouchedKeeps
  DEF handleDeleteKey, handleBulkDelete, SendDelete, CancelDelete, Untouched, list
<1>13. CASE SendTtl \/ SendFlush \/ CloseBulk
  BY <1>13, UntouchedKeeps DEF SendTtl, SendFlush, SendBulk, CloseBulk, Untouched, list
<1>14. ASSUME NEW p \in Patterns, DeleteByPattern(p) PROVE ListInv'
  BY <1>14, ResetKeeps DEF DeleteByPattern, resetAll
<1>15. CASE ScanAnswer
  <2>1. PICK a \in scanKeys(scan) :
          keys' = IF scan.reset THEN At(scan.db, a.keys) ELSE keys \cup At(scan.db, a.keys)
    BY <1>15 DEF ScanAnswer
  <2>2. scan # None /\ scan' = None /\ UNCHANGED <<db, checked, strayed>>
    BY <1>15 DEF ScanAnswer
  <2> SUFFICES ASSUME ~strayed PROVE ListHere'
    BY <2>2 DEF ListInv
  <2>3. ListHere /\ scan.db = db
    BY <2>2 DEF ListInv, ListHere, ScanIsHere
  <2>4. \A k \in At(db, a.keys) : k = [db |-> db, name |-> k.name]
    BY DEF At
  <2>5. keys \subseteq keys'
    BY <2>1, <2>2, <2>3 DEF ListHere, ResetIsOfNothing
  <2>6. ListIsHere'
    BY <2>1, <2>2, <2>3, <2>4 DEF ListHere, ListIsHere
  <2>7. TicksListed'
    BY <2>2, <2>3, <2>5 DEF ListHere, TicksListed
  <2> QED BY <2>2, <2>6, <2>7 DEF ListHere, ScanIsHere, ResetIsOfNothing
<1>16. CASE ScanFails
  BY <1>16
  DEF ScanFails, ListInv, ListHere, ListIsHere, TicksListed, ScanIsHere, ResetIsOfNothing
<1>17. ASSUME NEW i \in Slots, ValueAnswer(i) \/ ValueFails(i) PROVE ListInv'
  BY <1>17, UntouchedKeeps DEF ValueAnswer, ValueFails, Untouched, list
<1>18. CASE WriteAnswer \/ WriteFails \/ DeleteFails \/ BulkFails
  BY <1>18, UntouchedKeeps DEF WriteAnswer, WriteFails, DeleteFails, BulkFails, Untouched, list
<1>19. CASE KeyDeleted
  <2>1. /\ keys' = {k \in keys : k.name \notin delete.names}
        /\ checked' = checked \ delete.names
        /\ UNCHANGED <<db, scan, strayed>>
    BY <1>19 DEF KeyDeleted
  <2>2. TicksListed => TicksListed'
    BY <2>1 DEF TicksListed
  <2> QED BY <2>1, <2>2 DEF ListInv, ListHere, ListIsHere, ScanIsHere, ResetIsOfNothing
<1>20. CASE BulkDeleted
  BY <1>20, SearchKeeps DEF BulkDeleted
<1>21. CASE TtlAnswer
  BY <1>21, SearchKeeps DEF TtlAnswer
<1>22. CASE FlushAnswer
  BY <1>22, ResetKeeps DEF FlushAnswer, resetAll
<1>23. CASE UNCHANGED vars
  BY <1>23, UntouchedKeeps DEF vars, list, Untouched
<1> QED
  BY <1>1, <1>2, <1>3, <1>4, <1>5, <1>6, <1>7, <1>8, <1>9, <1>10, <1>11, <1>12, <1>13,
     <1>14, <1>15, <1>16, <1>17, <1>18, <1>19, <1>20, <1>21, <1>22, <1>23
  DEF Next, ListUser, PanelUser, DeleteUser, Answers

(* Every name ticked in the Keys tab was listed by a scan of the database   *)
(* selected now, whatever was switched, aborted, deleted or answered late;  *)
(* except after the answer to a bulk TTL that was sent in another database  *)
(* and left, until the next search or switch.                               *)
THEOREM BulkIsSafe == Spec => []BulkActsOnListedKeys
<1>1. Init => ListInv
  BY DEF Init, ListInv, ListHere, ListIsHere, TicksListed, ScanIsHere, ResetIsOfNothing
<1>2. ListInv => BulkActsOnListedKeys
  BY DEF ListInv, ListHere, ListIsHere, TicksListed, BulkActsOnListedKeys, At
<1> QED
  BY <1>1, <1>2, ListStep, PTL DEF Spec

-----------------------------------------------------------------------------
(* The parts of the type invariant, and the handlers' parts that keep them. *)
ScanType   == [db : Dbs, pattern : Patterns, cursor : {0, 1}, reset : BOOLEAN]
WriteType  == [key : Key, draft : Key \cup {None}, selected : Names \cup {None}, here : BOOLEAN]
DeleteType == [kind : {"bulk", "one"}, db : Dbs, names : SUBSET Names, modal : BOOLEAN]
BulkType   == [kind : {"ttl", "flush"}, db : Dbs, input : Patterns, modal : BOOLEAN]

ListTypes ==
  /\ db \in Dbs /\ input \in Patterns /\ pattern \in Patterns
  /\ keys \subseteq Key /\ cursor \in {0, 1} /\ done \in BOOLEAN
  /\ scanning \in BOOLEAN /\ ask \in BOOLEAN /\ scan \in ScanType \cup {None}
  /\ checked \subseteq Names /\ mixed \in BOOLEAN /\ strayed \in BOOLEAN

PanelTypes ==
  /\ selected \in Names \cup {None}
  /\ loading \in BOOLEAN /\ shown \in Key \cup {None} /\ draft \in Key \cup {None}
  /\ draft # None => shown # None
  /\ fetches \in [Slots -> Key \cup {None}] /\ raced \in BOOLEAN

WriteTypes ==
  /\ write \in WriteType \cup {None} /\ delete \in DeleteType \cup {None}
  /\ bulk \in BulkType \cup {None} /\ gone \in [Dbs -> SUBSET Names]

LEMMA TypeParts ==
  /\ TypeOK => ListTypes /\ PanelTypes /\ WriteTypes
  /\ ListTypes' /\ PanelTypes' /\ WriteTypes' => TypeOK'
<1>1. TypeOK => ListTypes /\ PanelTypes /\ WriteTypes
  BY DEF TypeOK, ListTypes, PanelTypes, WriteTypes, ScanType, WriteType, DeleteType,
         BulkType
<1>2. ListTypes' /\ PanelTypes' /\ WriteTypes' => TypeOK'
  BY DEF TypeOK, ListTypes, PanelTypes, WriteTypes, ScanType, WriteType, DeleteType,
         BulkType
<1> QED BY <1>1, <1>2

LEMMA PatternsAreNames ==
  /\ All \in Patterns /\ \A p \in Patterns : p \subseteq Names
BY DataAssumption DEF All

LEMMA ScanSentType ==
  ASSUME ListTypes, NEW reset \in BOOLEAN, NEW p \in Patterns, NEW d \in Dbs,
         startScan(reset, p, d)
  PROVE  scan' \in ScanType /\ scanning' \in BOOLEAN
BY DEF startScan, ListTypes, ScanType

LEMMA UnmountTypes ==
  ASSUME WriteTypes, Unmount
  PROVE  write' \in WriteType \cup {None} /\ delete' \in DeleteType \cup {None} /\ draft' = None
BY DEF Unmount, WriteTypes, WriteType, DeleteType

LEMMA TellWriteTypes ==
  ASSUME WriteTypes, TellWrite
  PROVE  write' \in WriteType \cup {None}
BY DEF TellWrite, WriteTypes, WriteType

LEMMA DeselectTypes ==
  ASSUME PanelTypes, Deselect, draft' = None
  PROVE  PanelTypes'
BY DEF Deselect, PanelTypes, Fetching

LEMMA SelectTypes ==
  ASSUME PanelTypes, NEW n \in Names, NEW d \in Dbs, handleSelectKey(n, d), draft' = None
  PROVE  PanelTypes'
<1>1. PICK i \in FreeSlot : 
        /\ fetches' = [fetches EXCEPT ![i] = [db |-> d, name |-> n]]
        /\ selected' = n /\ loading' = TRUE /\ shown' = None
        /\ raced' = (Fetching \/ d # db)
  BY DEF handleSelectKey
<1>2. raced' \in BOOLEAN
  BY <1>1 DEF Fetching
<1>3. fetches' \in [Slots -> Key \cup {None}]
  BY <1>1 DEF PanelTypes, Key, FreeSlot
<1> QED BY <1>1, <1>2, <1>3 DEF PanelTypes

LEMMA DoSearchTypes ==
  ASSUME ListTypes, PanelTypes, NEW p \in Patterns, NEW d \in Dbs, doSearch(p, d),
         draft' = None, ask' \in BOOLEAN, UNCHANGED <<db, input>>
  PROVE  ListTypes' /\ PanelTypes'
<1>1. scan' \in ScanType /\ scanning' \in BOOLEAN
  BY ScanSentType DEF doSearch
<1>2. PanelTypes'
  BY DeselectTypes DEF doSearch
<1>3. strayed' \in BOOLEAN
  BY DEF doSearch
<1>4. ListTypes'
  BY <1>1, <1>3 DEF doSearch, ListTypes
<1> QED BY <1>2, <1>4

LEMMA SearchTypes ==
  ASSUME ListTypes, PanelTypes, NEW p \in Patterns, NEW d \in Dbs, NEW ticks \in SUBSET checked,
         handleSearch(p, d, ticks), UNCHANGED <<db, input>>
  PROVE  ListTypes' /\ PanelTypes'
<1>1. CASE doSearch(p, d) /\ draft' = None /\ ask' = ask
  BY <1>1, DoSearchTypes DEF ListTypes
<1>2. CASE /\ ask' = TRUE /\ checked' = ticks
           /\ UNCHANGED <<pattern, keys, cursor, done, mixed, strayed, panel, scan, scanning>>
  BY <1>2 DEF ListTypes, PanelTypes, panel
<1> QED BY <1>1, <1>2 DEF handleSearch

LEMMA ConfirmTypes ==
  ASSUME ListTypes, PanelTypes, WriteTypes, ConfirmScan
  PROVE  ListTypes' /\ PanelTypes' /\ WriteTypes'
<1>1. doSearch(All, db) /\ Unmount /\ ask' = FALSE /\ UNCHANGED <<db, input, bulk, gone>>
  BY DEF ConfirmScan
<1>2. db \in Dbs /\ draft' = None
  BY <1>1 DEF ListTypes, Unmount
<1>3. ListTypes' /\ PanelTypes'
  BY <1>1, <1>2, DoSearchTypes, PatternsAreNames
<1>4. WriteTypes'
  BY <1>1, UnmountTypes DEF WriteTypes
<1> QED BY <1>3, <1>4

(* resetAll empties the list and the panel, and lets KeyDetail leave.       *)
LEMMA ResetTypes ==
  ASSUME ListTypes, PanelTypes, WriteTypes, resetAll
  PROVE  /\ ListTypes' /\ PanelTypes'
         /\ write' \in WriteType \cup {None} /\ delete' \in DeleteType \cup {None}
<1>1. /\ Deselect /\ Unmount
      /\ keys' = {} /\ cursor' = 0 /\ done' = FALSE /\ checked' = {} /\ ask' = FALSE
      /\ input' = All /\ pattern' = All
      /\ mixed' \in BOOLEAN /\ UNCHANGED <<db, scanning, scan, strayed>>
  BY DEF resetAll, ListTypes
<1>2. PanelTypes' /\ write' \in WriteType \cup {None} /\ delete' \in DeleteType \cup {None}
  BY <1>1, UnmountTypes, DeselectTypes
<1>3. ListTypes'
  BY <1>1, PatternsAreNames DEF ListTypes
<1> QED BY <1>2, <1>3

(* What the backend answers.                                                *)
LEMMA ScanKeysType ==
  ASSUME ListTypes, scan # None, NEW a \in scanKeys(scan)
  PROVE  /\ At(scan.db, a.keys) \subseteq Key /\ a.next \in {0, 1} /\ a.done \in BOOLEAN
<1>0. scan \in ScanType /\ Stored[scan.db] \subseteq Names
  BY DataAssumption DEF ListTypes, ScanType
<1>1. a.keys \subseteq Names /\ a.next \in {0, 1} /\ a.done \in BOOLEAN
  <2>1. CASE scan.pattern = All
    <3>1. PICK F \in Found(scan.db, IF scan.cursor = 0 THEN Names \ SecondPage ELSE SecondPage) :
            a = [keys |-> F, next |-> 1 - scan.cursor, done |-> scan.cursor = 1]
      BY <2>1 DEF scanKeys
    <3>2. F \subseteq Stored[scan.db]
      BY <3>1 DEF Found
    <3>3. a.done \in BOOLEAN
      BY <3>1
    <3>4. a.next \in {0, 1}
      BY <1>0, <3>1 DEF ScanType
    <3> QED BY <1>0, <3>1, <3>2, <3>3, <3>4
  <2>2. CASE scan.pattern # All
    <3>1. PICK F \in Found(scan.db, scan.pattern) \cup SUBSET Matching(scan.db, scan.pattern) :
            a = [keys |-> F, next |-> 0, done |-> TRUE]
      BY <2>2 DEF scanKeys
    <3>2. F \subseteq Stored[scan.db]
      BY <3>1 DEF Found, Matching
    <3> QED BY <1>0, <3>1, <3>2
  <2> QED BY <2>1, <2>2
<1> QED BY <1>0, <1>1 DEF At, Key, ScanType

LEMMA MarkGoneTypes ==
  ASSUME ListTypes, WriteTypes, NEW S \in SUBSET Names, MarkGone(S)
  PROVE  gone' \in [Dbs -> SUBSET Names]
BY DataAssumption DEF ListTypes, WriteTypes, MarkGone

LEMMA TypeStep ==
  ASSUME TypeOK, [Next]_vars
  PROVE  TypeOK'
<1>0. ListTypes /\ PanelTypes /\ WriteTypes
  BY TypeParts
<1> SUFFICES ListTypes' /\ PanelTypes' /\ WriteTypes'
  BY TypeParts
<1>1. ASSUME NEW p \in Patterns, TypePattern(p) PROVE ListTypes' /\ PanelTypes' /\ WriteTypes'
  BY <1>0, <1>1 DEF TypePattern, ListTypes, PanelTypes, WriteTypes, panel, writes
<1>2. CASE Search
  <2>1. handleSearch(input, db, checked) /\ TellWrite /\ UNCHANGED <<db, input, delete, bulk, gone>>
    BY <1>2 DEF Search
  <2>2. input \in Patterns /\ db \in Dbs
    BY <1>0 DEF ListTypes
  <2> QED BY <1>0, <2>1, <2>2, SearchTypes, TellWriteTypes DEF WriteTypes
<1>3. CASE ConfirmScan
  BY <1>0, <1>3, ConfirmTypes
<1>4. CASE CancelScan
  <2>1. ask' = FALSE /\ UNCHANGED <<db, input, pattern, keys, cursor, done, scanning, scan, checked, mixed, strayed>>
    BY <1>4 DEF CancelScan
  <2>2. UNCHANGED <<panel, writes>>
    BY <1>4 DEF CancelScan
  <2>3. ListTypes'
    BY <1>0, <2>1 DEF ListTypes
  <2> QED BY <1>0, <2>2, <2>3 DEF PanelTypes, WriteTypes, panel, writes
<1>5. CASE LoadMore
  <2>1. /\ startScan(FALSE, pattern, db)
        /\ UNCHANGED <<db, input, pattern, keys, cursor, done, ask, checked, mixed, strayed, panel,
                       writes>>
    BY <1>5 DEF LoadMore
  <2>2. scan' \in ScanType /\ scanning' \in BOOLEAN
    BY <1>0, <2>1, ScanSentType DEF ListTypes
  <2> QED BY <1>0, <2>1, <2>2 DEF ListTypes, PanelTypes, WriteTypes, panel, writes
<1>6. CASE ClearFilter
  <2>1. /\ Deselect /\ Unmount /\ input' = All /\ keys' = {} /\ done' = FALSE /\ checked' = {}
        /\ mixed' \in BOOLEAN /\ UNCHANGED <<db, pattern, cursor, scanning, scan, ask, strayed, bulk, gone>>
    BY <1>0, <1>6 DEF ClearFilter, ListTypes
  <2>2. PanelTypes' /\ WriteTypes'
    BY <1>0, <2>1, UnmountTypes, DeselectTypes DEF WriteTypes
  <2> QED BY <1>0, <2>1, <2>2, PatternsAreNames DEF ListTypes
<1>7. ASSUME NEW n \in Names, toggleCheck(n) PROVE ListTypes' /\ PanelTypes' /\ WriteTypes'
  BY <1>0, <1>7 DEF toggleCheck, ListTypes, PanelTypes, WriteTypes, panel, writes
<1>8. ASSUME NEW d \in Dbs, SwitchDb(d) PROVE ListTypes' /\ PanelTypes' /\ WriteTypes'
  <2>1. /\ Unmount /\ db' = d /\ scan' = None /\ keys' = {} /\ cursor' = 0 /\ pattern' = All
        /\ input' = All /\ checked' = {} /\ scanning' = FALSE /\ mixed' = FALSE
        /\ strayed' = FALSE /\ selected' = None /\ shown' = None
        /\ raced' = (raced \/ Fetching \/ write # None)
        /\ UNCHANGED <<done, ask, loading, fetches, bulk, gone>>
    BY <1>8 DEF SwitchDb
  <2>2. raced' \in BOOLEAN
    BY <1>0, <2>1 DEF PanelTypes, Fetching
  <2>3. PanelTypes'
    BY <1>0, <2>1, <2>2, UnmountTypes DEF PanelTypes
  <2>4. WriteTypes'
    BY <1>0, <2>1, UnmountTypes DEF WriteTypes
  <2> QED BY <1>0, <2>1, <2>3, <2>4, PatternsAreNames DEF ListTypes
<1>9. ASSUME NEW n \in Names, Select(n) PROVE ListTypes' /\ PanelTypes' /\ WriteTypes'
  <2>1. handleSelectKey(n, db) /\ Unmount /\ UNCHANGED <<db, list, bulk, gone>>
    BY <1>9 DEF Select
  <2>2. PanelTypes' /\ WriteTypes'
    BY <1>0, <2>1, UnmountTypes, SelectTypes DEF WriteTypes, ListTypes
  <2> QED BY <1>0, <2>1, <2>2 DEF ListTypes, list
<1>10. ASSUME NEW n \in Names, OpenFavorite(n) PROVE ListTypes' /\ PanelTypes' /\ WriteTypes'
  <2>1. /\ handleSelectKey(n, db) /\ Unmount /\ UNCHANGED <<db, ask, bulk, gone>>
        /\ startScan(TRUE, {n}, db) /\ {n} \in Patterns
        /\ input' = {n} /\ pattern' = {n}
        /\ keys' = {} /\ cursor' = 0 /\ done' = FALSE /\ checked' = {} /\ mixed' = FALSE
        /\ strayed' = FALSE
    BY <1>10 DEF OpenFavorite
  <2>2. PanelTypes' /\ WriteTypes'
    BY <1>0, <2>1, UnmountTypes, SelectTypes DEF WriteTypes, ListTypes
  <2>3. scan' \in ScanType /\ scanning' \in BOOLEAN
    BY <1>0, <2>1, ScanSentType DEF ListTypes
  <2> QED BY <1>0, <2>1, <2>2, <2>3 DEF ListTypes
<1>11. CASE Edit \/ CancelEdit
  BY <1>0, <1>11 DEF Edit, CancelEdit, ListTypes, PanelTypes, WriteTypes, list, writes
<1>12. CASE Save \/ Op
  <2>1. PICK text \in Key \cup {None} : Send(text)
    BY <1>0, <1>12 DEF Save, Op, PanelTypes
  <2>2. /\ write' = [key |-> [db |-> db, name |-> shown.name], draft |-> text,
                     selected |-> selected, here |-> TRUE]
        /\ shown # None /\ UNCHANGED <<db, list, panel, delete, bulk, gone>>
    BY <2>1 DEF Send
  <2>3. write' \in WriteType
    BY <1>0, <2>2 DEF ListTypes, PanelTypes, WriteType, Key
  <2> QED BY <1>0, <2>2, <2>3 DEF ListTypes, PanelTypes, WriteTypes, list, panel
<1>13. CASE handleDeleteKey \/ handleBulkDelete
  <2>1. PICK kind \in {"one", "bulk"}, S \in SUBSET Names : SendDelete(kind, S)
    <3>1. CASE handleDeleteKey
      BY <1>0, <3>1 DEF handleDeleteKey, PanelTypes, Key
    <3>2. CASE handleBulkDelete
      BY <1>0, <3>2 DEF handleBulkDelete, ListTypes
    <3> QED BY <1>13, <3>1, <3>2
  <2>2. /\ delete' = [kind |-> kind, db |-> db, names |-> S, modal |-> TRUE]
        /\ MarkGone(S) /\ UNCHANGED <<db, list, panel, write, bulk>>
    BY <2>1 DEF SendDelete
  <2>3. delete' \in DeleteType
    BY <1>0, <2>2 DEF ListTypes, DeleteType
  <2> QED BY <1>0, <2>2, <2>3, MarkGoneTypes DEF ListTypes, PanelTypes, WriteTypes, list, panel
<1>14. CASE SendTtl \/ SendFlush
  <2>1. PICK kind \in {"ttl", "flush"} :
          /\ bulk' = [kind |-> kind, db |-> db, input |-> input, modal |-> TRUE]
          /\ UNCHANGED <<db, list, panel, write, delete>>
    BY <1>14 DEF SendTtl, SendFlush, SendBulk
  <2>2. bulk' \in BulkType
    BY <1>0, <2>1 DEF ListTypes, BulkType
  <2>3. gone' \in [Dbs -> SUBSET Names]
    BY <1>0, <1>14, MarkGoneTypes DEF SendTtl, SendFlush, WriteTypes
  <2> QED BY <1>0, <2>1, <2>2, <2>3 DEF ListTypes, PanelTypes, WriteTypes, list, panel
<1>15. ASSUME NEW p \in Patterns, DeleteByPattern(p) PROVE ListTypes' /\ PanelTypes' /\ WriteTypes'
  <2>1. resetAll /\ MarkGone(p) /\ bulk' = bulk
    BY <1>15 DEF DeleteByPattern
  <2> QED BY <1>0, <2>1, ResetTypes, MarkGoneTypes, PatternsAreNames DEF WriteTypes
<1>16. CASE ScanAnswer
  <2>1. PICK a \in scanKeys(scan) :
          /\ keys' = IF scan.reset THEN At(scan.db, a.keys) ELSE keys \cup At(scan.db, a.keys)
          /\ cursor' = a.next /\ done' = a.done
    BY <1>16 DEF ScanAnswer
  <2>2. scan # None /\ scan' = None /\ scanning' = FALSE
        /\ UNCHANGED <<db, input, pattern, ask, checked, mixed, strayed, panel, writes>>
    BY <1>16 DEF ScanAnswer
  <2>3. At(scan.db, a.keys) \subseteq Key /\ a.next \in {0, 1} /\ a.done \in BOOLEAN
    BY <1>0, <2>1, <2>2, ScanKeysType
  <2>4. ListTypes'
    BY <1>0, <2>1, <2>2, <2>3 DEF ListTypes
  <2> QED BY <1>0, <2>2, <2>4 DEF PanelTypes, WriteTypes, panel, writes
<1>17. CASE ScanFails
  <2>1. scan' = None /\ scanning' = FALSE
        /\ UNCHANGED <<db, input, pattern, keys, cursor, done, ask, checked, mixed, strayed>>
    BY <1>17 DEF ScanFails
  <2>2. UNCHANGED <<panel, writes>>
    BY <1>17 DEF ScanFails
  <2>3. ListTypes'
    BY <1>0, <2>1 DEF ListTypes
  <2> QED BY <1>0, <2>2, <2>3 DEF PanelTypes, WriteTypes, panel, writes
<1>18. ASSUME NEW i \in Slots, ValueAnswer(i) \/ ValueFails(i)
       PROVE  ListTypes' /\ PanelTypes' /\ WriteTypes'
  BY <1>0, <1>18 DEF ValueAnswer, ValueFails, ListTypes, PanelTypes, WriteTypes, list, writes
<1>19. CASE WriteAnswer
  <2>1. write \in WriteType /\ write' = None /\ UNCHANGED <<db, list, bulk, gone>>
    BY <1>0, <1>19 DEF WriteAnswer, WriteTypes
  <2>2. CASE write.selected # None
    <3>1. /\ handleSelectKey(write.selected, write.key.db) /\ draft' = None
          /\ delete' = IF delete = None THEN None
                       ELSE [delete EXCEPT !.modal = @ /\ delete.kind = "bulk"]
      BY <1>19, <2>2 DEF WriteAnswer
    <3>2. write.selected \in Names /\ write.key.db \in Dbs
      BY <2>1, <2>2 DEF WriteType, Key
    <3>3. PanelTypes'
      BY <1>0, <3>1, <3>2, SelectTypes
    <3>4. WriteTypes'
      BY <1>0, <2>1, <3>1 DEF WriteTypes, DeleteType
    <3> QED BY <1>0, <2>1, <3>3, <3>4 DEF ListTypes, list
  <2>3. CASE write.selected = None
    <3>1. /\ draft' = IF write.draft # None /\ write.here THEN None ELSE draft
          /\ UNCHANGED <<selected, loading, shown, fetches, raced, delete>>
      BY <1>19, <2>3 DEF WriteAnswer
    <3> QED BY <1>0, <2>1, <3>1 DEF ListTypes, PanelTypes, WriteTypes, list
  <2> QED BY <2>2, <2>3
<1>20. CASE WriteFails \/ DeleteFails \/ BulkFails
  BY <1>0, <1>20
  DEF WriteFails, DeleteFails, BulkFails, ListTypes, PanelTypes, WriteTypes, list, panel
<1>21. CASE KeyDeleted
  <2>1. /\ Deselect /\ draft' = None /\ TellWrite /\ delete' = None
        /\ keys' \subseteq keys /\ checked' \subseteq checked /\ mixed' \in BOOLEAN
        /\ UNCHANGED <<db, input, pattern, cursor, done, scanning, scan, ask, strayed, bulk, gone>>
    BY <1>0, <1>21 DEF KeyDeleted, ListTypes
  <2>2. PanelTypes' /\ WriteTypes'
    BY <1>0, <2>1, TellWriteTypes, DeselectTypes DEF WriteTypes
  <2> QED BY <1>0, <2>1, <2>2 DEF ListTypes
<1>22. CASE BulkDeleted
  <2>1. handleSearch(input, db, {}) /\ TellWrite /\ delete' = None /\ UNCHANGED <<db, input, bulk, gone>>
    BY <1>22 DEF BulkDeleted
  <2>2. input \in Patterns /\ db \in Dbs
    BY <1>0 DEF ListTypes
  <2> QED BY <1>0, <2>1, <2>2, SearchTypes, TellWriteTypes DEF WriteTypes
<1>23. CASE UNCHANGED vars
  BY <1>0, <1>23 DEF vars, list, panel, writes, ListTypes, PanelTypes, WriteTypes
<1>24. CASE CancelDelete \/ CloseBulk
  <2>1. CASE CancelDelete
    <3>1. /\ delete \in DeleteType /\ delete' = [delete EXCEPT !.modal = FALSE]
          /\ UNCHANGED <<db, list, panel, write, bulk, gone>>
      BY <1>0, <2>1 DEF CancelDelete, WriteTypes
    <3>2. delete' \in DeleteType
      BY <3>1 DEF DeleteType
    <3> QED BY <1>0, <3>1, <3>2 DEF ListTypes, PanelTypes, WriteTypes, list, panel
  <2>2. CASE CloseBulk
    <3>1. /\ bulk \in BulkType /\ bulk' = [bulk EXCEPT !.modal = FALSE]
          /\ UNCHANGED <<db, list, panel, write, delete, gone>>
      BY <1>0, <2>2 DEF CloseBulk, WriteTypes
    <3>2. bulk' \in BulkType
      BY <3>1 DEF BulkType
    <3> QED BY <1>0, <3>1, <3>2 DEF ListTypes, PanelTypes, WriteTypes, list, panel
  <2> QED BY <1>24, <2>1, <2>2
<1>25. CASE TtlAnswer
  <2>1. /\ handleSearch(bulk.input, bulk.db, {}) /\ TellWrite /\ bulk # None /\ bulk' = None
        /\ UNCHANGED <<db, input, delete, gone>>
    BY <1>25 DEF TtlAnswer
  <2>2. bulk.input \in Patterns /\ bulk.db \in Dbs
    BY <1>0, <2>1 DEF WriteTypes, BulkType
  <2> QED BY <1>0, <2>1, <2>2, SearchTypes, TellWriteTypes DEF WriteTypes
<1>26. CASE FlushAnswer
  <2>1. resetAll /\ bulk' = None /\ UNCHANGED gone
    BY <1>26 DEF FlushAnswer
  <2> QED BY <1>0, <2>1, ResetTypes DEF WriteTypes
<1> QED
  BY <1>1, <1>2, <1>3, <1>4, <1>5, <1>6, <1>7, <1>8, <1>9, <1>10, <1>11, <1>12, <1>13,
     <1>14, <1>15, <1>16, <1>17, <1>18, <1>19, <1>20, <1>21, <1>22, <1>23, <1>24, <1>25, <1>26
  DEF Next, ListUser, PanelUser, DeleteUser, Answers

LEMMA TypeInit == Init => TypeOK
BY DataAssumption DEF Init, TypeOK, All, Key

(* The type invariant of the Keys tab.                                      *)
THEOREM TypeCorrect == Spec => []TypeOK
BY TypeInit, TypeStep, PTL DEF Spec

-----------------------------------------------------------------------------
(* The value panel.  While nothing has raced, what is shown, edited and     *)
(* still read is the key selected.                                          *)
SelectedKey == [db |-> db, name |-> selected]

PanelInv ==
  ~raced =>
    /\ shown # None => selected # None /\ shown = SelectedKey
    /\ draft # None => draft = shown
    /\ \A i \in Slots : fetches[i] # None => selected # None /\ fetches[i] = SelectedKey

LEMMA PanelStays ==
  ASSUME PanelInv, UNCHANGED <<db, selected, shown, fetches, raced>>, draft' \in {None, draft}
  PROVE  PanelInv'
BY DEF PanelInv, SelectedKey

LEMMA DeselectLeavesNone ==
  ASSUME Deselect, draft' = None
  PROVE  PanelInv'
BY DEF Deselect, PanelInv, Fetching

LEMMA SelectReadsIt ==
  ASSUME PanelTypes, NEW n \in Names, NEW d \in Dbs, handleSelectKey(n, d), draft' = None, db' = db
  PROVE  PanelInv'
<1>1. PICK i \in FreeSlot :
        /\ fetches' = [fetches EXCEPT ![i] = [db |-> d, name |-> n]]
        /\ selected' = n /\ shown' = None
        /\ raced' = (Fetching \/ d # db)
  BY DEF handleSelectKey
<1> SUFFICES ASSUME ~raced' PROVE PanelInv'
  BY DEF PanelInv
<1>2. d = db /\ \A j \in Slots : fetches[j] = None
  BY <1>1 DEF Fetching
<1>3. \A j \in Slots : fetches'[j] # None => fetches'[j] = [db |-> db, name |-> n]
  BY <1>1, <1>2 DEF PanelTypes
<1>4. n # None
  BY DataAssumption
<1> QED BY <1>1, <1>3, <1>4 DEF PanelInv, SelectedKey

LEMMA SearchLeavesPanel ==
  ASSUME PanelInv, NEW p, NEW d, NEW ticks, handleSearch(p, d, ticks), UNCHANGED db
  PROVE  PanelInv'
<1>1. CASE doSearch(p, d) /\ draft' = None
  BY <1>1, DeselectLeavesNone DEF doSearch
<1>2. CASE UNCHANGED panel
  BY <1>2, PanelStays DEF panel
<1> QED BY <1>1, <1>2 DEF handleSearch

LEMMA PanelStep ==
  ASSUME TypeOK, PanelInv, [Next]_vars
  PROVE  PanelInv'
<1>0. ListTypes /\ PanelTypes /\ WriteTypes
  BY TypeParts
<1>1. CASE ListUser
  <2>1. CASE (\E p \in Patterns : TypePattern(p)) \/ CancelScan \/ LoadMore \/ (\E n \in Names : toggleCheck(n))
    BY <2>1, PanelStays DEF TypePattern, CancelScan, LoadMore, toggleCheck, panel
  <2>2. CASE Search
    BY <2>2, SearchLeavesPanel DEF Search
  <2>3. CASE ConfirmScan \/ ClearFilter
    BY <2>3, DeselectLeavesNone DEF ConfirmScan, doSearch, ClearFilter, Unmount
  <2>4. ASSUME NEW d \in Dbs, SwitchDb(d) PROVE PanelInv'
    <3>1. /\ shown' = None /\ draft' = None /\ fetches' = fetches
          /\ raced' = (raced \/ Fetching \/ write # None)
      BY <2>4 DEF SwitchDb, Unmount
    <3> QED BY <3>1 DEF PanelInv, Fetching
  <2> QED BY <1>1, <2>1, <2>2, <2>3, <2>4 DEF ListUser
<1>2. CASE PanelUser
  <2>1. ASSUME NEW n \in Names, Select(n) \/ OpenFavorite(n) PROVE PanelInv'
    <3>1. handleSelectKey(n, db) /\ draft' = None /\ db' = db
      BY <2>1 DEF Select, OpenFavorite, Unmount
    <3> QED BY <1>0, <3>1, SelectReadsIt DEF ListTypes
  <2>2. CASE Edit
    BY <2>2 DEF Edit, PanelInv, SelectedKey
  <2>3. CASE CancelEdit \/ Save \/ Op
    BY <2>3, PanelStays DEF CancelEdit, Save, Op, Send, panel
  <2> QED BY <1>2, <2>1, <2>2, <2>3 DEF PanelUser
<1>3. CASE DeleteUser
  <2>1. CASE handleDeleteKey \/ handleBulkDelete \/ CancelDelete
    BY <2>1, PanelStays DEF handleDeleteKey, handleBulkDelete, SendDelete, CancelDelete, panel
  <2>2. CASE SendTtl \/ SendFlush \/ CloseBulk
    BY <2>2, PanelStays DEF SendTtl, SendFlush, SendBulk, CloseBulk, panel
  <2>3. ASSUME NEW p \in Patterns, DeleteByPattern(p) PROVE PanelInv'
    BY <2>3, DeselectLeavesNone DEF DeleteByPattern, resetAll, Unmount
  <2> QED BY <1>3, <2>1, <2>2, <2>3 DEF DeleteUser
<1>4. CASE Answers
  <2>1. CASE ScanAnswer \/ ScanFails \/ WriteFails \/ DeleteFails \/ BulkFails
    BY <2>1, PanelStays DEF ScanAnswer, ScanFails, WriteFails, DeleteFails, BulkFails, panel
  <2>2. ASSUME NEW i \in Slots, ValueAnswer(i) PROVE PanelInv'
    <3>1. /\ fetches[i] # None /\ shown' = fetches[i]
          /\ fetches' = [fetches EXCEPT ![i] = None]
          /\ UNCHANGED <<db, selected, draft, raced>>
      BY <2>2 DEF ValueAnswer, list
    <3>2. draft # None => shown # None
      BY <1>0 DEF PanelTypes
    <3> QED BY <1>0, <3>1, <3>2 DEF PanelInv, PanelTypes, SelectedKey
  <2>3. ASSUME NEW i \in Slots, ValueFails(i) PROVE PanelInv'
    <3>1. /\ fetches' = [fetches EXCEPT ![i] = None]
          /\ UNCHANGED <<db, selected, shown, draft, raced>>
      BY <2>3 DEF ValueFails, list
    <3> QED BY <1>0, <3>1 DEF PanelInv, PanelTypes, SelectedKey
  <2>4. CASE WriteAnswer
    <3>1. CASE write.selected # None
      <4>1. /\ handleSelectKey(write.selected, write.key.db) /\ draft' = None /\ db' = db
        BY <2>4, <3>1 DEF WriteAnswer
      <4>2. write.selected \in Names /\ write.key.db \in Dbs
        BY <1>0, <2>4, <3>1 DEF WriteAnswer, WriteTypes, WriteType, Key
      <4> QED BY <1>0, <4>1, <4>2, SelectReadsIt
    <3>2. CASE write.selected = None
      BY <2>4, <3>2, PanelStays DEF WriteAnswer
    <3> QED BY <3>1, <3>2
  <2>5. CASE KeyDeleted
    BY <2>5, DeselectLeavesNone DEF KeyDeleted
  <2>6. CASE BulkDeleted
    BY <2>6, SearchLeavesPanel DEF BulkDeleted
  <2>7. CASE TtlAnswer
    BY <2>7, SearchLeavesPanel DEF TtlAnswer
  <2>8. CASE FlushAnswer
    BY <2>8, DeselectLeavesNone DEF FlushAnswer, resetAll, Unmount
  <2> QED BY <1>4, <2>1, <2>2, <2>3, <2>4, <2>5, <2>6, <2>7, <2>8 DEF Answers
<1>5. CASE UNCHANGED vars
  BY <1>5, PanelStays DEF vars, panel
<1> QED BY <1>1, <1>2, <1>3, <1>4, <1>5 DEF Next

LEMMA PanelInit == Init => PanelInv
BY DEF Init, PanelInv

(* The key in the value panel is the one selected, of the database          *)
(* selected, unless two requests changed the panel at once.                 *)
THEOREM ShowsTheSelectedKey == Spec => []PanelShowsTheSelection
<1>1. PanelInv => PanelShowsTheSelection
  BY DEF PanelInv, PanelShowsTheSelection, SelectedKey
<1> QED BY <1>1, TypeInit, TypeStep, PanelInit, PanelStep, PTL DEF Spec

(* A request of the panel: its text is of the key it goes to.               *)
LEMMA SendsWhatItRead ==
  ASSUME TypeOK, PanelInv, [Next]_vars, write = None, write' # None, ~raced
  PROVE  write'.draft \in {None, write'.key}
<1>0. PanelTypes
  BY TypeParts
<1>1. Save \/ Op
  <2>1. CASE ListUser
    BY <2>1 DEF ListUser, TypePattern, Search, ConfirmScan, CancelScan, LoadMore, ClearFilter,
         toggleCheck, SwitchDb, Unmount, TellWrite, writes
  <2>2. ASSUME NEW n \in Names, Select(n) \/ OpenFavorite(n) PROVE FALSE
    BY <2>2 DEF Select, OpenFavorite, Unmount
  <2>3. CASE Edit \/ CancelEdit
    BY <2>3 DEF Edit, CancelEdit, writes
  <2>4. CASE DeleteUser
    BY <2>4 DEF DeleteUser, handleDeleteKey, handleBulkDelete, SendDelete, CancelDelete, SendTtl,
         SendFlush, SendBulk, CloseBulk, DeleteByPattern, resetAll, Unmount
  <2>5. CASE Answers
    BY <2>5 DEF Answers, ScanAnswer, ScanFails, ValueAnswer, ValueFails, WriteAnswer, WriteFails,
         KeyDeleted, BulkDeleted, DeleteFails, TtlAnswer, FlushAnswer, BulkFails, resetAll,
         Unmount, TellWrite, writes
  <2>6. CASE UNCHANGED vars
    BY <2>6 DEF vars, writes
  <2> QED BY <2>1, <2>2, <2>3, <2>4, <2>5, <2>6 DEF Next, PanelUser
<1>2. CASE Op
  BY <1>2 DEF Op, Send
<1>3. CASE Save
  <2>1. /\ draft # None /\ shown # None
        /\ write'.key = [db |-> db, name |-> shown.name] /\ write'.draft = draft
    BY <1>3 DEF Save, Send
  <2>2. draft = shown /\ shown = SelectedKey
    BY <2>1 DEF PanelInv
  <2> QED BY <2>1, <2>2 DEF SelectedKey
<1> QED BY <1>1, <1>2, <1>3

(* An edited text is saved under the key it was read from, unless two       *)
(* requests changed the panel at once.                                      *)
THEOREM SavesWhereItRead == Spec => SavedWhereItWasRead
<1>1. TypeOK /\ PanelInv /\ [Next]_vars =>
        [write = None /\ write' # None /\ ~raced
           => write'.draft \in {None, write'.key}]_vars
  BY SendsWhatItRead
<1> QED
  BY <1>1, TypeInit, TypeStep, PanelInit, PanelStep, PTL DEF Spec, SavedWhereItWasRead

-----------------------------------------------------------------------------
(* "All keys loaded".  The invariant follows the pages: past the first one, *)
(* the list or the scan of the second page stands on a list that has all of *)
(* the first; and what a delete was sent for is gone from the server, so    *)
(* that its answer takes nothing from the list which should be there.       *)
FirstPage == Present(db, All) \ SecondPage

ScanContinues ==
  scan # None =>
    /\ scan.db = db /\ scan.pattern = pattern
    /\ scan.reset => scan.cursor = 0
    /\ ~scan.reset /\ pattern = All /\ scan.cursor = 1 => FirstPage \subseteq KeyNames

FirstPageListed == keys # {} /\ cursor = 1 /\ pattern = All => FirstPage \subseteq KeyNames

AllListed ==
  done /\ keys # {} /\ (pattern = All \/ Cardinality(Matching(db, pattern)) <= ScanCap) => Complete

DeletedIsGone == delete # None => Stored[delete.db] \cap delete.names \subseteq gone[delete.db]

Loads == ScanContinues /\ FirstPageListed /\ AllListed
LoadInv == DeletedIsGone /\ (~mixed /\ ~strayed => Loads)

LEMMA DeletedStaysGone ==
  ASSUME WriteTypes, DeletedIsGone, \A d \in Dbs : gone[d] \subseteq gone'[d],
         \/ delete' = delete
         \/ delete' = None
         \/ delete # None /\ delete' # None /\ delete'.db = delete.db /\ delete'.names = delete.names
  PROVE  DeletedIsGone'
BY DEF WriteTypes, DeletedIsGone, DeleteType

LEMMA UnmountStaysGone ==
  ASSUME WriteTypes, DeletedIsGone, Unmount, \A d \in Dbs : gone[d] \subseteq gone'[d]
  PROVE  DeletedIsGone'
<1>1. \/ delete' = None
      \/ delete # None /\ delete' # None /\ delete'.db = delete.db /\ delete'.names = delete.names
  BY DEF Unmount, WriteTypes, DeleteType
<1> QED BY <1>1, DeletedStaysGone

LEMMA MarkedGone ==
  ASSUME ListTypes, WriteTypes, NEW S, MarkGone(S)
  PROVE  /\ \A d \in Dbs : gone[d] \subseteq gone'[d]
         /\ Stored[db] \cap S \subseteq gone'[db]
BY DEF ListTypes, WriteTypes, MarkGone

(* Steps that leave the list alone, though keys may be gone.                *)
LEMMA ListStays ==
  ASSUME ListTypes, ~mixed /\ ~strayed => Loads,
         UNCHANGED <<db, pattern, keys, cursor, done, scan, mixed, strayed>>,
         \A d \in Dbs : gone[d] \subseteq gone'[d]
  PROVE  ~mixed' /\ ~strayed' => Loads'
<1>1. FirstPage' \subseteq FirstPage /\ Present(db, pattern)' \subseteq Present(db, pattern)
  BY DEF FirstPage, Present, Matching, ListTypes
<1>2. KeyNames' = KeyNames /\ Matching(db, pattern)' = Matching(db, pattern)
  BY DEF KeyNames, Matching
<1> QED BY <1>1, <1>2 DEF Loads, ScanContinues, FirstPageListed, AllListed, Complete

(* Steps that empty the list and start from its first page, or not at all.  *)
LEMMA StartsAfresh ==
  ASSUME keys' = {}, \/ scan' = None
                     \/ startScan(TRUE, pattern', db) /\ db' = db
  PROVE  Loads'
BY DEF startScan, Loads, ScanContinues, FirstPageListed, AllListed

LEMMA DoSearchLoads ==
  ASSUME NEW p, NEW d, doSearch(p, d), db' = db
  PROVE  ~strayed' => Loads'
<1> SUFFICES ASSUME ~strayed' PROVE Loads'
  OBVIOUS
<1>1. keys' = {} /\ startScan(TRUE, pattern', db)
  BY DEF doSearch
<1> QED BY <1>1, StartsAfresh

LEMMA SearchLoads ==
  ASSUME ListTypes, ~mixed /\ ~strayed => Loads,
         NEW p, NEW d, NEW ticks, handleSearch(p, d, ticks), UNCHANGED <<db, gone>>
  PROVE  ~mixed' /\ ~strayed' => Loads'
<1>1. CASE doSearch(p, d)
  BY <1>1, DoSearchLoads
<1>2. CASE UNCHANGED <<pattern, keys, cursor, done, mixed, strayed, scan>>
  BY <1>2, ListStays
<1> QED BY <1>1, <1>2 DEF handleSearch

(* resetAll leaves a scan in flight, and marks the list as mixed for it.    *)
LEMMA ResetLoads ==
  ASSUME keys' = {}, mixed' = (mixed \/ scan # None), scan' = scan
  PROVE  ~mixed' => Loads'
BY StartsAfresh

LEMMA NamesAt ==
  ASSUME NEW d, NEW F
  PROVE  {k.name : k \in At(d, F)} = F
<1>1. ASSUME NEW n \in F PROVE \E k \in At(d, F) : k.name = n
  <2>1. [db |-> d, name |-> n] \in At(d, F) /\ [db |-> d, name |-> n].name = n
    BY DEF At
  <2> QED BY <2>1
<1>2. ASSUME NEW k \in At(d, F) PROVE k.name \in F
  BY DEF At
<1> QED BY <1>1, <1>2

(* The answer of a scan of the database and pattern of now.                 *)
LEMMA AnswerLoads ==
  ASSUME ListTypes, ScanContinues, ScanAnswer
  PROVE  Loads'
<1>1. PICK a \in scanKeys(scan) :
        /\ keys' = IF scan.reset THEN At(scan.db, a.keys) ELSE keys \cup At(scan.db, a.keys)
        /\ cursor' = a.next /\ done' = a.done
  BY DEF ScanAnswer
<1>2. /\ scan # None /\ scan' = None /\ UNCHANGED <<db, pattern, gone>>
      /\ scan \in ScanType /\ scan.db = db /\ scan.pattern = pattern
      /\ scan.reset => scan.cursor = 0
      /\ ~scan.reset /\ pattern = All /\ scan.cursor = 1 => FirstPage \subseteq KeyNames
  BY DEF ScanAnswer, writes, ListTypes, ScanContinues
<1>3. a.keys \subseteq KeyNames' /\ (~scan.reset => KeyNames \subseteq KeyNames')
  BY <1>1, NamesAt DEF KeyNames
<1>4. /\ FirstPage' = FirstPage /\ Present(db, pattern)' = Present(db, pattern)
      /\ Matching(db, pattern)' = Matching(db, pattern)
  BY <1>2 DEF FirstPage, Present, Matching
<1>5. CASE pattern = All
  <2>1. PICK F \in Found(db, IF scan.cursor = 0 THEN Names \ SecondPage ELSE SecondPage) :
          a = [keys |-> F, next |-> 1 - scan.cursor, done |-> scan.cursor = 1]
    BY <1>2, <1>5 DEF scanKeys
  <2>2. Present(db, All) \subseteq Names
    BY DataAssumption DEF Present, Matching, ListTypes
  <2>3. CASE scan.cursor = 0
    <3>1. FirstPage \subseteq F
      BY <2>1, <2>2, <2>3 DEF Found, FirstPage, Present, Matching
    <3>2. done' = (scan.cursor = 1)
      BY <1>1, <2>1
    <3>3. ~done'
      <4>1. scan.cursor # 1
        BY <2>3
      <4> QED BY <3>2, <4>1, Zenon
    <3> QED BY <1>2, <1>3, <1>4, <2>1, <3>1, <3>3 DEF Loads, ScanContinues, FirstPageListed, AllListed
  <2>4. CASE scan.cursor = 1
    <3>1. Present(db, All) \cap SecondPage \subseteq F
      BY <2>1, <2>4 DEF Found, Present, Matching
    <3>2. FirstPage \subseteq KeyNames /\ ~scan.reset
      BY <1>2, <1>5, <2>4
    <3>3. Present(db, All) \subseteq KeyNames'
      BY <1>3, <2>1, <3>1, <3>2 DEF FirstPage
    <3>4. cursor' = 0
      BY <1>1, <2>1, <2>4
    <3> QED BY <1>2, <1>4, <1>5, <3>3, <3>4 DEF Loads, ScanContinues, FirstPageListed, AllListed, Complete
  <2> QED BY <1>2, <2>3, <2>4 DEF ScanType
<1>6. CASE pattern # All
  <2>1. PICK F \in Found(db, pattern)
                   \cup {G \in SUBSET Matching(db, pattern) : Cardinality(G) >= ScanCap} :
          a = [keys |-> F, next |-> 0, done |-> TRUE]
    BY <1>2, <1>6 DEF scanKeys
  <2>2. CASE F \in Found(db, pattern)
    <3>1. Present(db, pattern) \subseteq KeyNames'
      BY <1>3, <2>1, <2>2 DEF Found
    <3> QED BY <1>1, <1>2, <1>4, <1>6, <2>1, <3>1
            DEF Loads, ScanContinues, FirstPageListed, AllListed, Complete
  <2>3. CASE F \in SUBSET Matching(db, pattern) /\ Cardinality(F) >= ScanCap
    <3>1. IsFiniteSet(Matching(db, pattern))
      <4>1. Matching(db, pattern) \in SUBSET Names
        BY DataAssumption DEF Matching, ListTypes
      <4> QED BY <4>1, FS_Subset, DataAssumption
    <3>2. /\ Cardinality(F) <= Cardinality(Matching(db, pattern))
          /\ Cardinality(Matching(db, pattern)) = Cardinality(F) => F = Matching(db, pattern)
          /\ Cardinality(F) \in Nat /\ Cardinality(Matching(db, pattern)) \in Nat
      BY <2>3, <3>1, FS_Subset, FS_CardinalityType
    <3>3. Cardinality(Matching(db, pattern)) <= ScanCap => F = Matching(db, pattern)
      BY <2>3, <3>2, DataAssumption
    <3>4. Cardinality(Matching(db, pattern)) <= ScanCap => Present(db, pattern) \subseteq KeyNames'
      BY <1>3, <2>1, <3>3 DEF Present
    <3> QED BY <1>1, <1>2, <1>4, <1>6, <2>1, <3>4
            DEF Loads, ScanContinues, FirstPageListed, AllListed, Complete
  <2> QED BY <2>1, <2>2, <2>3
<1> QED BY <1>5, <1>6

LEMMA LoadStep ==
  ASSUME TypeOK, LoadInv, [Next]_vars
  PROVE  LoadInv'
<1>0. ListTypes /\ PanelTypes /\ WriteTypes
  BY TypeParts
<1>i. DeletedIsGone /\ (~mixed /\ ~strayed => Loads)
  BY DEF LoadInv
<1> DEFINE Lists == ~mixed' /\ ~strayed' => Loads'
<1> SUFFICES DeletedIsGone' /\ Lists
  BY DEF LoadInv
<1>1. CASE ListUser
  <2>1. CASE (\E p \in Patterns : TypePattern(p)) \/ CancelScan \/ (\E n \in Names : toggleCheck(n))
    <3>1. UNCHANGED <<db, pattern, keys, cursor, done, scan, mixed, strayed, delete, gone>>
      BY <2>1 DEF TypePattern, CancelScan, toggleCheck, writes
    <3> QED BY <1>0, <1>i, <3>1, ListStays, DeletedStaysGone
  <2>2. CASE LoadMore
    <3>1. /\ keys # {} /\ startScan(FALSE, pattern, db)
          /\ UNCHANGED <<db, pattern, keys, cursor, done, mixed, strayed, delete, gone>>
      BY <2>2 DEF LoadMore, writes
    <3>2. /\ scan'.db = db /\ scan'.pattern = pattern /\ scan'.cursor = cursor /\ scan'.reset = FALSE
      BY <3>1 DEF startScan
    <3>3. FirstPage' = FirstPage /\ KeyNames' = KeyNames
          /\ Present(db, pattern)' = Present(db, pattern)
          /\ Matching(db, pattern)' = Matching(db, pattern)
      BY <3>1 DEF FirstPage, Present, Matching, KeyNames
    <3>4. Lists
      BY <1>i, <3>1, <3>2, <3>3 DEF Loads, ScanContinues, FirstPageListed, AllListed, Complete
    <3> QED BY <1>0, <1>i, <3>1, <3>4, DeletedStaysGone
  <2>3. CASE Search
    BY <1>0, <1>i, <2>3, SearchLoads, DeletedStaysGone DEF Search
  <2>4. CASE ConfirmScan
    <3>1. doSearch(All, db) /\ db' = db /\ Unmount /\ gone' = gone
      BY <2>4 DEF ConfirmScan
    <3> QED BY <1>0, <1>i, <3>1, DoSearchLoads, UnmountStaysGone
  <2>5. CASE ClearFilter
    <3>1. keys' = {} /\ mixed' = (mixed \/ scan # None) /\ scan' = scan /\ Unmount /\ gone' = gone
      BY <2>5 DEF ClearFilter
    <3> QED BY <1>0, <1>i, <3>1, ResetLoads, UnmountStaysGone
  <2>6. ASSUME NEW d \in Dbs, SwitchDb(d) PROVE DeletedIsGone' /\ Lists
    <3>1. keys' = {} /\ scan' = None /\ Unmount /\ gone' = gone
      BY <2>6 DEF SwitchDb
    <3> QED BY <1>0, <1>i, <3>1, StartsAfresh, UnmountStaysGone
  <2> QED BY <1>1, <2>1, <2>2, <2>3, <2>4, <2>5, <2>6 DEF ListUser
<1>2. CASE PanelUser
  <2>1. ASSUME NEW n \in Names, Select(n) PROVE DeletedIsGone' /\ Lists
    <3>1. UNCHANGED <<db, pattern, keys, cursor, done, scan, mixed, strayed, gone>> /\ Unmount
      BY <2>1 DEF Select, list
    <3> QED BY <1>0, <1>i, <3>1, ListStays, UnmountStaysGone
  <2>2. ASSUME NEW n \in Names, OpenFavorite(n) PROVE DeletedIsGone' /\ Lists
    <3>1. keys' = {} /\ startScan(TRUE, pattern', db) /\ db' = db /\ Unmount /\ gone' = gone
      BY <2>2 DEF OpenFavorite
    <3> QED BY <1>0, <1>i, <3>1, StartsAfresh, UnmountStaysGone
  <2>3. CASE Edit \/ CancelEdit \/ Save \/ Op
    <3>1. UNCHANGED <<db, pattern, keys, cursor, done, scan, mixed, strayed, delete, gone>>
      BY <2>3 DEF Edit, CancelEdit, Save, Op, Send, list, writes
    <3> QED BY <1>0, <1>i, <3>1, ListStays, DeletedStaysGone
  <2> QED BY <1>2, <2>1, <2>2, <2>3 DEF PanelUser
<1>3. CASE DeleteUser
  <2>1. CASE handleDeleteKey \/ handleBulkDelete
    <3>1. PICK kind, S : SendDelete(kind, S)
      BY <2>1 DEF handleDeleteKey, handleBulkDelete
    <3>2. /\ delete' = [kind |-> kind, db |-> db, names |-> S, modal |-> TRUE] /\ MarkGone(S)
          /\ UNCHANGED <<db, pattern, keys, cursor, done, scan, mixed, strayed>>
      BY <3>1 DEF SendDelete, list
    <3>3. DeletedIsGone'
      BY <1>0, <3>2, MarkedGone DEF DeletedIsGone
    <3> QED BY <1>0, <1>i, <3>2, <3>3, MarkedGone, ListStays
  <2>2. CASE CancelDelete
    <3>1. /\ UNCHANGED <<db, pattern, keys, cursor, done, scan, mixed, strayed, gone>>
          /\ delete \in DeleteType /\ delete' = [delete EXCEPT !.modal = FALSE]
      BY <1>0, <2>2 DEF CancelDelete, list, WriteTypes
    <3>2. delete' \in DeleteType /\ delete'.db = delete.db /\ delete'.names = delete.names
      BY <3>1 DEF DeleteType
    <3>3. \/ delete' = None
          \/ delete # None /\ delete' # None /\ delete'.db = delete.db /\ delete'.names = delete.names
      BY <2>2, <3>2 DEF CancelDelete
    <3>4. Lists
      BY <1>0, <1>i, <3>1, ListStays
    <3>5. DeletedIsGone'
      BY <1>0, <1>i, <3>1, <3>3, DeletedStaysGone
    <3> QED BY <3>4, <3>5
  <2>3. CASE SendTtl \/ CloseBulk
    <3>1. UNCHANGED <<db, pattern, keys, cursor, done, scan, mixed, strayed, delete, gone>>
      BY <2>3 DEF SendTtl, SendBulk, CloseBulk, list
    <3> QED BY <1>0, <1>i, <3>1, ListStays, DeletedStaysGone
  <2>4. CASE SendFlush
    <3>1. UNCHANGED <<db, pattern, keys, cursor, done, scan, mixed, strayed, delete>> /\ MarkGone(Names)
      BY <2>4 DEF SendFlush, SendBulk, list
    <3> QED BY <1>0, <1>i, <3>1, MarkedGone, ListStays, DeletedStaysGone
  <2>5. ASSUME NEW p \in Patterns, DeleteByPattern(p) PROVE DeletedIsGone' /\ Lists
    <3>1. keys' = {} /\ mixed' = (mixed \/ scan # None) /\ scan' = scan /\ Unmount /\ MarkGone(p)
      BY <2>5 DEF DeleteByPattern, resetAll
    <3> QED BY <1>0, <1>i, <3>1, ResetLoads, MarkedGone, UnmountStaysGone
  <2> QED BY <1>3, <2>1, <2>2, <2>3, <2>4, <2>5 DEF DeleteUser
<1>4. CASE Answers
  <2>1. CASE ScanAnswer
    <3>1. Lists
      BY <1>0, <1>i, <2>1, AnswerLoads DEF ScanAnswer, Loads
    <3>2. UNCHANGED <<delete, gone>>
      BY <2>1 DEF ScanAnswer, writes
    <3> QED BY <1>0, <1>i, <3>1, <3>2, DeletedStaysGone
  <2>2. CASE ScanFails
    <3>1. scan' = None /\ UNCHANGED <<db, pattern, keys, cursor, done, mixed, strayed, delete, gone>>
      BY <2>2 DEF ScanFails, writes
    <3>2. FirstPage' = FirstPage /\ KeyNames' = KeyNames
          /\ Present(db, pattern)' = Present(db, pattern)
          /\ Matching(db, pattern)' = Matching(db, pattern)
      BY <3>1 DEF FirstPage, Present, Matching, KeyNames
    <3>3. Lists
      BY <1>i, <3>1, <3>2 DEF Loads, ScanContinues, FirstPageListed, AllListed, Complete
    <3> QED BY <1>0, <1>i, <3>1, <3>3, DeletedStaysGone
  <2>3. CASE (\E i \in Slots : ValueAnswer(i) \/ ValueFails(i)) \/ WriteFails \/ DeleteFails
              \/ BulkFails
    <3>1. /\ UNCHANGED <<db, pattern, keys, cursor, done, scan, mixed, strayed, gone>>
          /\ delete' = delete \/ delete' = None
      BY <2>3 DEF ValueAnswer, ValueFails, WriteFails, DeleteFails, BulkFails, list, writes
    <3> QED BY <1>0, <1>i, <3>1, ListStays, DeletedStaysGone
  <2>4. CASE WriteAnswer
    <3>1. UNCHANGED <<db, pattern, keys, cursor, done, scan, mixed, strayed, gone>>
      BY <2>4 DEF WriteAnswer, list
    <3>2. \/ delete' = delete
          \/ delete' = None
          \/ delete # None /\ delete' # None /\ delete'.db = delete.db /\ delete'.names = delete.names
      BY <1>0, <2>4 DEF WriteAnswer, WriteTypes, DeleteType
    <3> QED BY <1>0, <1>i, <3>1, <3>2, ListStays, DeletedStaysGone
  <2>5. CASE KeyDeleted
    <3>1. /\ delete # None /\ delete' = None
          /\ keys' = {k \in keys : k.name \notin delete.names}
          /\ mixed' = (mixed \/ delete.db # db)
          /\ UNCHANGED <<db, pattern, cursor, done, scan, strayed, gone>>
      BY <2>5 DEF KeyDeleted
    <3> SUFFICES ASSUME ~mixed', ~strayed' PROVE Loads'
      BY <1>0, <1>i, <3>1, DeletedStaysGone
    <3>2. Stored[db] \cap delete.names \subseteq gone[db]
      BY <1>i, <3>1 DEF DeletedIsGone
    <3>3. \A n \in KeyNames : n \in delete.names \/ n \in KeyNames'
      BY <3>1 DEF KeyNames
    <3>4. /\ FirstPage' = FirstPage
          /\ FirstPage \subseteq KeyNames => FirstPage \subseteq KeyNames'
      BY <3>1, <3>2, <3>3 DEF FirstPage, Present, Matching
    <3>5. Complete => Complete'
      BY <3>1, <3>2, <3>3 DEF Complete, Present, Matching
    <3>6. Matching(db, pattern)' = Matching(db, pattern) /\ keys' \subseteq keys
      BY <3>1 DEF Matching
    <3>7. ScanContinues /\ FirstPageListed /\ AllListed
      BY <1>i, <3>1 DEF Loads
    <3>8. ScanContinues'
      BY <3>1, <3>4, <3>7 DEF ScanContinues
    <3>9. FirstPageListed'
      BY <3>1, <3>4, <3>6, <3>7 DEF FirstPageListed
    <3>10. AllListed'
      BY <3>1, <3>5, <3>6, <3>7 DEF AllListed
    <3> QED BY <3>8, <3>9, <3>10 DEF Loads
  <2>6. CASE BulkDeleted
    BY <1>0, <1>i, <2>6, SearchLoads, DeletedStaysGone DEF BulkDeleted
  <2>7. CASE TtlAnswer
    BY <1>0, <1>i, <2>7, SearchLoads, DeletedStaysGone DEF TtlAnswer
  <2>8. CASE FlushAnswer
    <3>1. keys' = {} /\ mixed' = (mixed \/ scan # None) /\ scan' = scan /\ Unmount /\ gone' = gone
      BY <2>8 DEF FlushAnswer, resetAll
    <3> QED BY <1>0, <1>i, <3>1, ResetLoads, UnmountStaysGone
  <2> QED BY <1>4, <2>1, <2>2, <2>3, <2>4, <2>5, <2>6, <2>7, <2>8 DEF Answers
<1>5. CASE UNCHANGED vars
  <2>1. UNCHANGED <<db, pattern, keys, cursor, done, scan, mixed, strayed, delete, gone>>
    BY <1>5 DEF vars, list, writes
  <2> QED BY <1>0, <1>i, <2>1, ListStays, DeletedStaysGone
<1> QED BY <1>1, <1>2, <1>3, <1>4, <1>5 DEF Next

(* "All keys loaded" tells the truth of every pattern that matches no more  *)
(* keys than a full scan returns, whatever answers late or is deleted,      *)
(* unless the list was reset under a scan, or edited or filled from another *)
(* database.                                                                *)
THEOREM LoadsAllBelowTheCap == Spec => []AllLoadedBelowTheCap
<1>1. Init => LoadInv
  BY DEF Init, LoadInv, Loads, DeletedIsGone, ScanContinues, FirstPageListed, AllListed
<1>2. LoadInv => AllLoadedBelowTheCap
  BY DEF LoadInv, Loads, AllListed, AllLoadedBelowTheCap
<1> QED BY <1>1, <1>2, TypeInit, TypeStep, LoadStep, PTL DEF Spec

-----------------------------------------------------------------------------
(* The dialogs.  A request that takes keys takes those its dialog showed,   *)
(* because what was shown is handed on: from the search to the preview and  *)
(* from there to the deletion, with the names that have got a value since.  *)
(* A search is forgotten with its dialog, so that no other one shows it.    *)

(* What a request, while it is under way, owes to what was shown.           *)
Owes(r) ==
  /\ r.kind = "find" =>
       /\ dialog = "pattern"
       /\ r.state = "sent" /\ ~r.crossed => r.keys = typed
       /\ r.state = "done" /\ ~r.crossed => typed \cap Existing \subseteq r.shown \cup r.late
  /\ r.kind = "delete" /\ r.state = "sent" =>
       r.crossed \/ r.keys \cap Existing \subseteq r.shown \cup r.late
  /\ r.kind \in {"flush", "ttl", "rename", "undo"} /\ r.state = "sent" => r.keys \subseteq r.shown
  /\ r.kind = "copy" => dialog = "copy" /\ r.to \in CopyPlaces /\ (r.crossed \/ r.to = place)
  /\ r.kind \in {"rename", "undo", "add"} => r.to \in ActionKeys
  /\ r.kind = "rename" => r.keys # {}

PreviewOwes ==
  preview # None =>
    /\ dialog = "pattern"
    /\ ~preview.crossed => typed \cap Existing \subseteq preview.keys \cup preview.late

CopiedThere ==
  copied # None => copied.crossed \/ (place # None /\ IsNamed(place, place, copied.to))

RequestsOwe == \A c \in Sends : sends[c] # None => Owes(sends[c])

ActionInv == ActionTypeOK /\ RequestsOwe /\ PreviewOwes /\ CopiedThere

Preview == [keys : SUBSET ActionKeys, late : SUBSET ActionKeys, crossed : BOOLEAN]
Copy == [to : CopyPlaces \cup {None}, crossed : BOOLEAN]
SendsType == [Sends -> Sent \cup {None}]

-----------------------------------------------------------------------------
(* What a request reaches that sends a connection in part.                  *)
LEMMA ReachedIsNamed ==
  ASSUME NEW c, NEW Places, NEW p \in Places, NEW q \in Reached(c, p, Places)
  PROVE  q \in Places \cup {None} /\ IsNamed(c, p, q)
BY DEF Reached, IsNamed

-----------------------------------------------------------------------------
(* Types.                                                                   *)

LEMMA RequestType ==
  ASSUME NEW kind \in Kinds, NEW K \in SUBSET ActionKeys,
         NEW to \in ActionKeys \cup CopyPlaces \cup {None}, NEW S \in SUBSET ActionKeys
  PROVE  /\ Request(kind, K, to, S) \in Sent
         /\ Request(kind, K, to, S).kind = kind /\ Request(kind, K, to, S).keys = K
         /\ Request(kind, K, to, S).to = to /\ Request(kind, K, to, S).shown = S
         /\ Request(kind, K, to, S).state = "sent" /\ ~Request(kind, K, to, S).crossed
BY DEF Request, Sent

LEMMA SendingType ==
  ASSUME ActionTypeOK, NEW c \in Sends, NEW r \in Sent, Sending(c, r)
  PROVE  sends' \in SendsType
BY DEF ActionTypeOK, Sending, SendsType

LEMMA DroppingType ==
  ASSUME ActionTypeOK, NEW c, sends' = Left(c) \/ sends' = [sends EXCEPT ![c] = None]
  PROVE  sends' \in SendsType
BY DEF ActionTypeOK, Left, SendsType

LEMMA StoredTypes ==
  ASSUME ActionTypeOK
  PROVE  /\ \A k, n \in ActionKeys : Moved(k, n) \in [ActionKeys -> ActionKeys \cup {None}]
         /\ \A K : Without(K) \in [ActionKeys -> ActionKeys \cup {None}]
         /\ \A n \in ActionKeys : AfterAdd(n) \subseteq [ActionKeys -> ActionKeys \cup {None}]
<1>1. \A k, n \in ActionKeys : Moved(k, n) \in [ActionKeys -> ActionKeys \cup {None}]
  BY DEF ActionTypeOK, Moved
<1>2. \A K : Without(K) \in [ActionKeys -> ActionKeys \cup {None}]
  BY DEF ActionTypeOK, Without
<1>3. \A n \in ActionKeys : AfterAdd(n) \subseteq [ActionKeys -> ActionKeys \cup {None}]
  BY <1>2 DEF ActionTypeOK, AfterAdd
<1> QED BY <1>1, <1>2, <1>3

(* A record keeps what it says of the rest when a part of it is replaced.   *)
LEMMA Crossing ==
  ASSUME NEW r \in Sent
  PROVE  LET m == [r EXCEPT !.crossed = TRUE]
         IN  /\ m \in Sent /\ m.crossed
             /\ m.kind = r.kind /\ m.keys = r.keys /\ m.to = r.to /\ m.state = r.state
             /\ m.shown = r.shown /\ m.late = r.late
BY DEF Sent

LEMMA TellingRecord ==
  ASSUME NEW r \in Sent, NEW L \in SUBSET ActionKeys
  PROVE  LET m == [r EXCEPT !.late = @ \cup L]
         IN  /\ m \in Sent /\ m.late = r.late \cup L
             /\ m.kind = r.kind /\ m.keys = r.keys /\ m.to = r.to /\ m.state = r.state
             /\ m.shown = r.shown /\ m.crossed = r.crossed
BY DEF Sent

(* The sends and the preview when names may have got a value.               *)
LEMMA ToldLateIs ==
  ASSUME ActionTypeOK
  PROVE  /\ ToldLate \in SendsType
         /\ \A c \in Sends : sends[c] # None =>
              /\ ToldLate[c] \in Sent
              /\ ToldLate[c].kind = sends[c].kind /\ ToldLate[c].keys = sends[c].keys
              /\ ToldLate[c].to = sends[c].to /\ ToldLate[c].state = sends[c].state
              /\ ToldLate[c].shown = sends[c].shown /\ ToldLate[c].crossed = sends[c].crossed
              /\ Has(c, "find", "done") \/ Has(c, "delete", "sent")
                   => ToldLate[c].late = sends[c].late \cup Late
         /\ \A c \in Sends : sends[c] = None => ToldLate[c] = None
<1>0. Late \in SUBSET ActionKeys
  BY DEF Late
<1>1. ASSUME NEW c \in Sends
      PROVE  /\ ToldLate[c] \in Sent \cup {None}
             /\ sends[c] # None =>
                  /\ ToldLate[c] \in Sent
                  /\ ToldLate[c].kind = sends[c].kind /\ ToldLate[c].keys = sends[c].keys
                  /\ ToldLate[c].to = sends[c].to /\ ToldLate[c].state = sends[c].state
                  /\ ToldLate[c].shown = sends[c].shown /\ ToldLate[c].crossed = sends[c].crossed
                  /\ Has(c, "find", "done") \/ Has(c, "delete", "sent")
                       => ToldLate[c].late = sends[c].late \cup Late
             /\ sends[c] = None => ToldLate[c] = None
  <2>0. sends[c] \in Sent \cup {None}
    BY DEF ActionTypeOK
  <2>1. CASE Has(c, "find", "done") \/ Has(c, "delete", "sent")
    <3>1. sends[c] # None /\ ToldLate[c] = [sends[c] EXCEPT !.late = @ \cup Late]
      BY <2>1 DEF ToldLate, Has
    <3> QED BY <1>0, <2>0, <2>1, <3>1, TellingRecord
  <2>2. CASE ~(Has(c, "find", "done") \/ Has(c, "delete", "sent"))
    BY <2>0, <2>2 DEF ToldLate
  <2> QED BY <2>1, <2>2
<1>2. ToldLate = [c \in Sends |-> ToldLate[c]]
  BY DEF ToldLate
<1> QED BY <1>1, <1>2 DEF SendsType

LEMMA PreviewLateIs ==
  ASSUME ActionTypeOK, PreviewLate
  PROVE  /\ preview' \in Preview \cup {None}
         /\ preview = None => preview' = None
         /\ preview # None /\ preview' # None =>
              /\ preview'.keys = preview.keys /\ preview'.crossed = preview.crossed
              /\ preview'.late = preview.late \cup Late
<1>0. Late \in SUBSET ActionKeys
  BY DEF Late
<1>1. preview \in Preview \cup {None}
  BY DEF ActionTypeOK, Preview
<1>2. CASE preview = None
  BY <1>2 DEF PreviewLate
<1>3. CASE preview # None
  <2>1. preview \in Preview /\ preview' = [preview EXCEPT !.late = @ \cup Late]
    BY <1>1, <1>3 DEF PreviewLate
  <2> QED BY <1>0, <1>3, <2>1 DEF Preview
<1> QED BY <1>2, <1>3

(* Every name with a value had one before, or is late.                      *)
LEMMA GrowsLate == Existing' \subseteq Existing \cup Late
BY DEF Existing, Late

-----------------------------------------------------------------------------
(* The user at the dialogs.                                                 *)

UserStep ==
  \/ \E d \in Dialogs, K \in SUBSET ActionKeys \ {{}} : Open(d, K)
  \/ onClose
  \/ \E P \in SUBSET ActionKeys : TypeDeletion(P)
  \/ \E p \in CopyPlaces : SelectPlace(p)

SendStep(c) ==
  \/ handleFind(c) \/ handleDelete(c) \/ handleFlush(c) \/ applyTtl(c) \/ handleCopy(c)
  \/ \E k, n \in ActionKeys : handleRename(c, k, n)
  \/ \E n \in ActionKeys : handleSave(c, n)
  \/ \E r \in renamed : Undo(c, r)

AnswerStep(c) ==
  \/ Previewed(c) \/ Copied(c) \/ Failed(c) \/ Deleted(c) \/ markUndone(c)
  \/ \E d \in {"flush", "ttl", "rename", "add"} : Done(c, d)

(* A dialog that is closed shows nothing, and the searches of the deletion  *)
(* are forgotten with it.                                                   *)
LEMMA ClosedTypes ==
  ASSUME ActionTypeOK, Closed
  PROVE  /\ dialog' \in Dialogs \cup {None} /\ {chosen', typed'} \subseteq SUBSET ActionKeys
         /\ preview' \in Preview \cup {None} /\ place' \in CopyPlaces \cup {None}
         /\ copied' \in Copy \cup {None}
BY DEF Closed, Copy

LEMMA CloseIfTypes ==
  ASSUME ActionTypeOK, NEW d, CloseIf(d)
  PROVE  /\ dialog' \in Dialogs \cup {None} /\ {chosen', typed'} \subseteq SUBSET ActionKeys
         /\ preview' \in Preview \cup {None} /\ place' \in CopyPlaces \cup {None}
         /\ copied' \in Copy \cup {None}
BY ClosedTypes DEF CloseIf, dialogPart, ActionTypeOK, Preview, Copy

LEMMA UserTypes ==
  ASSUME ActionTypeOK, UserStep
  PROVE  ActionTypeOK'
<1>0. ActionTypeOK
  OBVIOUS
<1> USE DEF SendsType, Preview, Copy
<1>1. ASSUME NEW d \in Dialogs, NEW K \in SUBSET ActionKeys \ {{}}, Open(d, K)
      PROVE  ActionTypeOK'
  <2>1. {chosen', typed'} \subseteq SUBSET ActionKeys /\ dialog' = d
    BY <1>1 DEF Open, ActionTypeOK
  <2> QED BY <1>1, <2>1 DEF Open, ActionTypeOK
<1>2. CASE onClose
  <2>1. sends' \in SendsType
    BY <1>2, DroppingType DEF onClose
  <2> QED BY <1>2, <2>1, ClosedTypes DEF onClose, ActionTypeOK
<1>3. ASSUME NEW P \in SUBSET ActionKeys, TypeDeletion(P) PROVE ActionTypeOK'
  <2>1. \A c \in Sends : sends'[c] \in Sent \cup {None}
    BY <1>3, Crossing DEF TypeDeletion, ActionTypeOK, Has
  <2>2. sends' \in SendsType
    BY <1>3, <2>1 DEF TypeDeletion
  <2> QED BY <1>3, <2>2 DEF TypeDeletion, ActionTypeOK
<1>4. ASSUME NEW p \in CopyPlaces, SelectPlace(p) PROVE ActionTypeOK'
  <2>1. \A c \in Sends : sends'[c] \in Sent \cup {None}
    BY <1>4, Crossing DEF SelectPlace, ActionTypeOK
  <2>2. sends' \in SendsType
    BY <1>4, <2>1 DEF SelectPlace
  <2> QED BY <1>4, <2>2 DEF SelectPlace, ActionTypeOK
<1> QED BY <1>1, <1>2, <1>3, <1>4 DEF UserStep

(* A request is sent that owes what it takes to what is shown.              *)
LEMMA SentOwes ==
  ASSUME ActionInv, NEW c \in Sends, SendStep(c)
  PROVE  /\ \E r \in Sent : Sending(c, r) /\ Owes(r)
         /\ preview' \in {preview, None}
         /\ UNCHANGED <<stored, dialog, chosen, typed, place, copied, renamed, othersDone>>
<1> USE DEF dialogPart
<1>0. /\ typed \in SUBSET ActionKeys /\ chosen \in SUBSET ActionKeys
      /\ preview # None => preview \in Preview
  BY DEF ActionInv, ActionTypeOK, Preview
<1>1. CASE handleFind(c)
  <2> DEFINE r == Request("find", typed, None, {})
  <2>1. r \in Sent /\ Owes(r)
    BY <1>0, <1>1, RequestType DEF handleFind, Kinds, Owes
  <2> QED BY <1>1, <2>1 DEF handleFind
<1>2. CASE handleDelete(c)
  <2> DEFINE q == Request("delete", typed, None, preview.keys)
             r == [q EXCEPT !.late = preview.late, !.crossed = preview.crossed]
  <2>1. /\ preview.keys \in SUBSET ActionKeys /\ preview.late \in SUBSET ActionKeys
        /\ preview.crossed \in BOOLEAN
        /\ preview.crossed \/ typed \cap Existing \subseteq preview.keys \cup preview.late
    BY <1>0, <1>2 DEF handleDelete, Preview, ActionInv, PreviewOwes
  <2>2. /\ r \in Sent /\ r.kind = "delete" /\ r.keys = typed /\ r.shown = preview.keys
        /\ r.late = preview.late /\ r.crossed = preview.crossed
    BY <1>0, <2>1 DEF Request, Sent, Kinds
  <2>3. Owes(r)
    BY <2>1, <2>2 DEF Owes
  <2>4. Sending(c, r)
    BY <1>2 DEF handleDelete
  <2> QED BY <1>2, <2>2, <2>3, <2>4 DEF handleDelete
<1>3. CASE handleFlush(c)
  <2> DEFINE r == Request("flush", ActionKeys, None, ActionKeys)
  <2>1. r \in Sent /\ Owes(r)
    BY RequestType DEF Kinds, Owes
  <2> QED BY <1>3, <2>1 DEF handleFlush
<1>4. CASE applyTtl(c)
  <2> DEFINE r == Request("ttl", chosen, None, chosen)
  <2>1. r \in Sent /\ Owes(r)
    BY <1>0, RequestType DEF Kinds, Owes
  <2> QED BY <1>4, <2>1 DEF applyTtl
<1>5. CASE handleCopy(c)
  <2> DEFINE r == Request("copy", {}, place, {})
  <2>1. place \in CopyPlaces /\ dialog = "copy"
    BY <1>5 DEF handleCopy, ActionInv, ActionTypeOK
  <2>2. r \in Sent /\ Owes(r)
    BY <2>1, RequestType DEF Kinds, Owes
  <2> QED BY <1>5, <2>2 DEF handleCopy
<1>6. ASSUME NEW k \in ActionKeys, NEW n \in ActionKeys, handleRename(c, k, n)
      PROVE  \E r \in Sent : Sending(c, r) /\ Owes(r)
  <2> DEFINE r == Request("rename", {k}, n, {k})
  <2>1. r \in Sent /\ Owes(r)
    BY RequestType DEF Kinds, Owes
  <2> QED BY <1>6, <2>1 DEF handleRename
<1>7. ASSUME NEW n \in ActionKeys, handleSave(c, n)
      PROVE  \E r \in Sent : Sending(c, r) /\ Owes(r)
  <2> DEFINE r == Request("add", {}, n, {})
  <2>1. r \in Sent /\ Owes(r)
    BY RequestType DEF Kinds, Owes
  <2> QED BY <1>7, <2>1 DEF handleSave
<1>8. ASSUME NEW u \in renamed, Undo(c, u)
      PROVE  \E r \in Sent : Sending(c, r) /\ Owes(r)
  <2> DEFINE r == Request("undo", {u.to}, u.from, {u.to})
  <2>1. u.to \in ActionKeys /\ u.from \in ActionKeys
    BY DEF ActionInv, ActionTypeOK, Renaming
  <2>2. r \in Sent /\ Owes(r)
    BY <2>1, RequestType DEF Kinds, Owes
  <2> QED BY <1>8, <2>2 DEF Undo
<1>9. CASE (\E k, n \in ActionKeys : handleRename(c, k, n))
           \/ (\E n \in ActionKeys : handleSave(c, n)) \/ (\E r \in renamed : Undo(c, r))
  <2>1. UNCHANGED <<stored, dialogPart, renamed, othersDone>>
    BY <1>9 DEF handleRename, handleSave, Undo
  <2> QED BY <1>6, <1>7, <1>8, <1>9, <2>1
<1> QED BY <1>1, <1>2, <1>3, <1>4, <1>5, <1>9 DEF SendStep

LEMMA SendStepKeeps ==
  ASSUME ActionInv, NEW c \in Sends, SendStep(c)
  PROVE  ActionInv'
<1>1. PICK r \in Sent : Sending(c, r) /\ Owes(r)
  BY SentOwes
<1>2. /\ preview' \in {preview, None}
      /\ UNCHANGED <<stored, dialog, chosen, typed, place, copied, renamed, othersDone>>
  BY SentOwes
<1>3. sends' \in SendsType
  BY <1>1, SendingType DEF ActionInv
<1>4. ActionTypeOK'
  BY <1>2, <1>3 DEF ActionInv, ActionTypeOK, SendsType
<1>5. \A b \in Sends : sends'[b] = IF b = c THEN r ELSE sends[b]
  BY <1>1 DEF Sending, ActionInv, ActionTypeOK
<1>6. Existing' = Existing
  BY <1>2 DEF Existing
<1>7. RequestsOwe'
  BY <1>1, <1>2, <1>5, <1>6 DEF ActionInv, RequestsOwe, Owes
<1>8. PreviewOwes' /\ CopiedThere'
  BY <1>2, <1>6 DEF ActionInv, PreviewOwes, CopiedThere
<1> QED BY <1>4, <1>7, <1>8 DEF ActionInv

(* What Left leaves of the requests is no search.                           *)
LEMMA LeftIs ==
  ASSUME ActionTypeOK, NEW c, sends' = Left(c)
  PROVE  \A b \in Sends : sends'[b] # None => sends'[b] = sends[b] /\ sends[b].kind # "find"
BY DEF Left

LEMMA UserOwes ==
  ASSUME ActionInv, UserStep
  PROVE  RequestsOwe' /\ PreviewOwes' /\ CopiedThere'
<1>0. ActionTypeOK /\ RequestsOwe /\ PreviewOwes /\ CopiedThere
  BY DEF ActionInv
<1>1. ASSUME NEW d \in Dialogs, NEW K \in SUBSET ActionKeys \ {{}}, Open(d, K)
      PROVE  RequestsOwe' /\ PreviewOwes' /\ CopiedThere'
  <2>1. dialog = None /\ UNCHANGED <<stored, preview, place, copied, sends>>
    BY <1>1 DEF Open
  <2>2. \A c \in Sends : sends[c] # None => sends[c].kind # "find" /\ sends[c].kind # "copy"
    BY <1>0, <2>1, NoDialogAssumption DEF Dialogs, RequestsOwe, Owes
  <2>3. preview = None /\ Existing' = Existing
    BY <1>0, <2>1, NoDialogAssumption DEF Dialogs, PreviewOwes, Existing
  <2>4. RequestsOwe'
    BY <1>0, <2>1, <2>2, <2>3 DEF RequestsOwe, Owes
  <2> QED BY <1>0, <2>1, <2>3, <2>4 DEF PreviewOwes, CopiedThere
<1>2. CASE onClose
  <2>1. sends' = Left(None) /\ Closed /\ stored' = stored /\ (dialog = "copy" => ~Underway("copy"))
    BY <1>2 DEF onClose
  <2>2. \A c \in Sends : sends[c] # None => sends[c].kind # "copy"
    BY <1>0, <2>1 DEF RequestsOwe, Owes, Underway
  <2>3. RequestsOwe'
    BY <1>0, <2>1, <2>2, LeftIs DEF RequestsOwe, Owes, Existing
  <2> QED BY <2>1, <2>3 DEF Closed, PreviewOwes, CopiedThere
<1>3. ASSUME NEW P \in SUBSET ActionKeys, TypeDeletion(P)
      PROVE  RequestsOwe' /\ PreviewOwes' /\ CopiedThere'
  <2>1. dialog = "pattern" /\ preview' = None /\ UNCHANGED <<stored, dialog, place, copied>>
    BY <1>3 DEF TypeDeletion
  <2>2. ASSUME NEW c \in Sends, NEW r, r = sends'[c], r # None PROVE Owes(r)'
    <3>1. sends'[c] = IF Has(c, "find", "sent") \/ Has(c, "find", "done")
                      THEN [sends[c] EXCEPT !.crossed = TRUE] ELSE sends[c]
      BY <1>3 DEF TypeDeletion
    <3>2. CASE Has(c, "find", "sent") \/ Has(c, "find", "done")
      <4>1. /\ sends[c] \in Sent /\ sends[c].kind = "find"
            /\ sends'[c] = [sends[c] EXCEPT !.crossed = TRUE]
        BY <1>0, <3>1, <3>2 DEF Has, ActionTypeOK
      <4>2. r.kind = "find" /\ r.crossed
        BY <2>2, <4>1, Crossing
      <4> QED BY <2>1, <4>2 DEF Owes
    <3>3. CASE ~(Has(c, "find", "sent") \/ Has(c, "find", "done"))
      <4>1. r = sends[c] /\ Owes(r)
        BY <1>0, <2>2, <3>1, <3>3 DEF RequestsOwe
      <4>2. r.kind = "find" => r.state # "sent" /\ r.state # "done"
        BY <2>2, <3>3, <4>1 DEF Has
      <4> QED BY <2>1, <4>1, <4>2 DEF Owes, Existing
    <3> QED BY <3>2, <3>3
  <2> QED BY <1>0, <2>1, <2>2 DEF RequestsOwe, PreviewOwes, CopiedThere
<1>4. ASSUME NEW p \in CopyPlaces, SelectPlace(p)
      PROVE  RequestsOwe' /\ PreviewOwes' /\ CopiedThere'
  <2>1. /\ dialog = "copy" /\ copied = None
        /\ UNCHANGED <<stored, dialog, typed, preview, copied>>
    BY <1>4 DEF SelectPlace
  <2>2. ASSUME NEW c \in Sends, NEW r, r = sends'[c], r # None PROVE Owes(r)'
    <3>1. sends'[c] = IF sends[c] # None /\ sends[c].kind = "copy"
                      THEN [sends[c] EXCEPT !.crossed = TRUE] ELSE sends[c]
      BY <1>4 DEF SelectPlace
    <3>2. CASE sends[c] # None /\ sends[c].kind = "copy"
      <4>1. sends[c] \in Sent /\ sends'[c] = [sends[c] EXCEPT !.crossed = TRUE]
        BY <1>0, <3>1, <3>2 DEF ActionTypeOK
      <4>2. r.kind = "copy" /\ r.crossed /\ r.to = sends[c].to
        BY <2>2, <3>2, <4>1, Crossing
      <4>3. r.to \in CopyPlaces
        BY <1>0, <3>2, <4>2 DEF RequestsOwe, Owes
      <4> QED BY <2>1, <4>2, <4>3 DEF Owes
    <3>3. CASE ~(sends[c] # None /\ sends[c].kind = "copy")
      <4>1. r = sends[c] /\ Owes(r) /\ r.kind # "copy"
        BY <1>0, <2>2, <3>1, <3>3 DEF RequestsOwe
      <4> QED BY <2>1, <4>1 DEF Owes, Existing
    <3> QED BY <3>2, <3>3
  <2>3. PreviewOwes'
    BY <1>0, <2>1 DEF PreviewOwes, Existing
  <2> QED BY <2>1, <2>2, <2>3 DEF RequestsOwe, CopiedThere
<1> QED BY <1>1, <1>2, <1>3, <1>4 DEF UserStep

-----------------------------------------------------------------------------
(* The answers.                                                             *)

(* Requests that are left, but for the searches or all of them, owe what    *)
(* they owed, if no dialog they need is closed.                             *)
LEMMA LeftOwes ==
  ASSUME ActionInv, NEW c \in Sends, sends' = Left(c) \/ sends' = [sends EXCEPT ![c] = None],
         UNCHANGED <<stored, typed, place, dialog>>
  PROVE  RequestsOwe'
<1>1. \A b \in Sends : sends'[b] # None => sends'[b] = sends[b] /\ Owes(sends[b])
  BY DEF ActionInv, ActionTypeOK, RequestsOwe, Left
<1> QED BY <1>1 DEF RequestsOwe, Owes, Existing

LEMMA CloseIfOwes ==
  ASSUME ActionInv, NEW c \in Sends, NEW d \in Dialogs \ {"copy"}, CloseIf(d),
         sends' = Left(c) \/ (d # "pattern" /\ sends' = [sends EXCEPT ![c] = None]),
         UNCHANGED stored
  PROVE  RequestsOwe' /\ PreviewOwes' /\ CopiedThere'
<1>0. ActionTypeOK /\ RequestsOwe /\ PreviewOwes /\ CopiedThere
  BY DEF ActionInv
<1>1. CASE dialog = d
  <2>1. Closed
    BY <1>1 DEF CloseIf
  <2>2. \A b \in Sends : sends'[b] # None => sends'[b] = sends[b] /\ Owes(sends[b])
    BY <1>0 DEF ActionTypeOK, RequestsOwe, Left
  <2>3. \A b \in Sends : sends'[b] # None => sends[b].kind # "find" /\ sends[b].kind # "copy"
    BY <1>0, <1>1, <2>2, LeftIs DEF Owes
  <2>4. RequestsOwe'
    BY <2>2, <2>3 DEF RequestsOwe, Owes, Existing
  <2> QED BY <2>1, <2>4 DEF Closed, PreviewOwes, CopiedThere
<1>2. CASE dialog # d
  <2>1. UNCHANGED <<dialog, chosen, typed, preview, place, copied>>
    BY <1>2 DEF CloseIf, dialogPart
  <2>2. PreviewOwes' /\ CopiedThere'
    BY <1>0, <2>1 DEF PreviewOwes, CopiedThere, Existing
  <2> QED BY <2>1, <2>2, LeftOwes
<1> QED BY <1>1, <1>2

LEMMA AnswerKeeps ==
  ASSUME ActionInv, NEW c \in Sends, AnswerStep(c)
  PROVE  ActionInv'
<1>0. ActionTypeOK /\ RequestsOwe /\ PreviewOwes /\ CopiedThere
  BY DEF ActionInv
<1>a. sends[c] # None => sends[c] \in Sent /\ Owes(sends[c])
  BY <1>0 DEF ActionTypeOK, RequestsOwe
<1>1. CASE Previewed(c)
  <2>1. /\ sends[c] # None /\ sends[c].kind = "find" /\ sends[c].state = "done"
        /\ sends' = [sends EXCEPT ![c] = None]
        /\ preview' = [keys |-> sends[c].shown, late |-> sends[c].late, crossed |-> sends[c].crossed]
        /\ UNCHANGED <<stored, dialog, chosen, typed, place, copied, renamed, othersDone>>
    BY <1>1 DEF Previewed, Has
  <2>2. preview' \in Preview
    BY <1>a, <2>1 DEF Sent, Preview
  <2>3. sends' \in SendsType
    BY <1>0, <2>1, DroppingType
  <2>4. ActionTypeOK'
    BY <1>0, <2>1, <2>2, <2>3 DEF ActionTypeOK, SendsType, Preview
  <2>5. RequestsOwe'
    BY <2>1, LeftOwes
  <2>6. PreviewOwes'
    BY <1>a, <2>1 DEF Owes, PreviewOwes, Existing
  <2>7. CopiedThere'
    BY <1>0, <2>1 DEF CopiedThere
  <2> QED BY <2>4, <2>5, <2>6, <2>7 DEF ActionInv
<1>2. CASE Copied(c)
  <2>1. /\ sends[c] # None /\ sends[c].kind = "copy"
        /\ sends' = [sends EXCEPT ![c] = None]
        /\ UNCHANGED <<stored, dialog, chosen, typed, preview, place, renamed, othersDone>>
    BY <1>2 DEF Copied, Has
  <2>2. PICK p \in Reached(sends[c].to, sends[c].to, CopyPlaces) :
          copied' = [to |-> p, crossed |-> sends[c].crossed]
    BY <1>2 DEF Copied
  <2>r. sends[c].to \in CopyPlaces /\ (sends[c].crossed \/ sends[c].to = place)
    BY <1>a, <2>1 DEF Owes
  <2>p. p \in CopyPlaces \cup {None} /\ IsNamed(sends[c].to, sends[c].to, p)
    BY <2>2, <2>r, ReachedIsNamed
  <2>c. copied' \in Copy
    BY <1>a, <2>1, <2>2, <2>p DEF Sent, Copy
  <2>t. CopiedThere'
    BY <2>1, <2>2, <2>r, <2>p, ActionsAssumption DEF CopiedThere
  <2>3. sends' \in SendsType
    BY <1>0, <2>1, DroppingType
  <2>4. ActionTypeOK'
    BY <1>0, <2>1, <2>c, <2>3 DEF ActionTypeOK, SendsType, Copy
  <2>5. RequestsOwe'
    BY <2>1, LeftOwes
  <2>6. PreviewOwes'
    BY <1>0, <2>1 DEF PreviewOwes, Existing
  <2> QED BY <2>4, <2>5, <2>6, <2>t DEF ActionInv
<1>3. CASE Failed(c) \/ markUndone(c)
  <2>1. /\ sends' = [sends EXCEPT ![c] = None] /\ renamed' \subseteq renamed
        /\ UNCHANGED <<stored, dialog, chosen, typed, preview, place, copied, othersDone>>
    BY <1>3 DEF Failed, markUndone, dialogPart
  <2>2. sends' \in SendsType
    BY <1>0, <2>1, DroppingType
  <2>3. ActionTypeOK'
    BY <1>0, <2>1, <2>2 DEF ActionTypeOK, SendsType
  <2>4. RequestsOwe'
    BY <2>1, LeftOwes
  <2>5. PreviewOwes' /\ CopiedThere'
    BY <1>0, <2>1 DEF PreviewOwes, CopiedThere, Existing
  <2> QED BY <2>3, <2>4, <2>5 DEF ActionInv
<1>4. CASE Deleted(c)
  <2>1. CloseIf("pattern") /\ sends' = Left(c) /\ UNCHANGED <<stored, renamed, othersDone>>
    BY <1>4 DEF Deleted
  <2>2. sends' \in SendsType
    BY <1>0, <2>1, DroppingType
  <2>3. ActionTypeOK'
    BY <1>0, <2>1, <2>2, CloseIfTypes DEF ActionTypeOK, SendsType, Preview, Copy
  <2>4. RequestsOwe' /\ PreviewOwes' /\ CopiedThere'
    BY <2>1, CloseIfOwes DEF Dialogs
  <2> QED BY <2>3, <2>4 DEF ActionInv
<1>5. ASSUME NEW d \in {"flush", "ttl", "rename", "add"}, Done(c, d) PROVE ActionInv'
  <2>1. /\ sends[c] # None /\ sends[c].kind = d
        /\ CloseIf(d) /\ sends' = [sends EXCEPT ![c] = None] /\ UNCHANGED <<stored, othersDone>>
        /\ renamed' = IF d = "rename"
             THEN renamed \cup {[from |-> CHOOSE k \in sends[c].keys : TRUE, to |-> sends[c].to]}
             ELSE renamed
    BY <1>5 DEF Done, Has
  <2>2. sends' \in SendsType
    BY <1>0, <2>1, DroppingType
  <2>3. renamed' \subseteq Renaming
    <3>1. CASE d = "rename"
      <4>1. sends[c].to \in ActionKeys /\ sends[c].keys # {} /\ sends[c].keys \subseteq ActionKeys
        BY <1>a, <2>1, <3>1 DEF Owes, Sent
      <4>2. (CHOOSE k \in sends[c].keys : TRUE) \in ActionKeys
        BY <4>1
      <4> QED BY <1>0, <2>1, <3>1, <4>1, <4>2 DEF ActionTypeOK, Renaming
    <3>2. CASE d # "rename"
      BY <1>0, <2>1, <3>2 DEF ActionTypeOK
    <3> QED BY <3>1, <3>2
  <2>4. ActionTypeOK'
    BY <1>0, <2>1, <2>2, <2>3, CloseIfTypes DEF ActionTypeOK, SendsType, Preview, Copy
  <2>5. RequestsOwe' /\ PreviewOwes' /\ CopiedThere'
    BY <2>1, CloseIfOwes DEF Dialogs
  <2> QED BY <2>4, <2>5 DEF ActionInv
<1> QED BY <1>1, <1>2, <1>3, <1>4, <1>5 DEF AnswerStep

-----------------------------------------------------------------------------
(* The backend and others.                                                  *)

LEMMA SearchStepKeeps ==
  ASSUME ActionInv, NEW c \in Sends, scanAll(c)
  PROVE  ActionInv'
<1>0. ActionTypeOK /\ RequestsOwe /\ PreviewOwes /\ CopiedThere
  BY DEF ActionInv
<1>1. /\ sends[c] # None /\ sends[c].kind = "find" /\ sends[c].state = "sent"
      /\ UNCHANGED <<stored, dialog, chosen, typed, preview, place, copied, renamed, othersDone>>
  BY DEF scanAll, Has, dialogPart
<1>2. sends[c] \in Sent /\ Owes(sends[c])
  BY <1>0, <1>1 DEF ActionTypeOK, RequestsOwe
<1>3. PICK r \in Sent : sends' = [sends EXCEPT ![c] = r] /\ Owes(r)
  <2> DEFINE matched == sends[c].keys \cap Existing
  <2>1. ASSUME NEW S \in SUBSET matched,
               sends' = [sends EXCEPT ![c].state = "done", ![c].shown = S,
                                      ![c].crossed = @ \/ S # matched]
        PROVE  \E r \in Sent : sends' = [sends EXCEPT ![c] = r] /\ Owes(r)
    <3> DEFINE b == sends[c].crossed \/ S # matched
               r == [sends[c] EXCEPT !.state = "done", !.shown = S, !.crossed = b]
    <3>1. b \in BOOLEAN /\ S \in SUBSET ActionKeys
      BY <1>2 DEF Sent
    <3> HIDE DEF b
    <3>2. r \in Sent
      BY <1>2, <3>1 DEF Sent
    <3>3. /\ r.kind = "find" /\ r.state = "done" /\ r.shown = S /\ r.crossed = b
      BY <1>1, <1>2, <3>1 DEF Sent
    <3>4. Owes(r)
      <4>1. ~b => S = typed \cap Existing
        BY <1>1, <1>2 DEF b, Owes
      <4> QED BY <1>1, <1>2, <3>3, <4>1 DEF Owes
    <3>5. sends' = [sends EXCEPT ![c] = r]
      BY <1>0, <2>1 DEF b, ActionTypeOK
    <3> QED BY <3>2, <3>4, <3>5
  <2>2. ASSUME sends' = [sends EXCEPT ![c].state = "failed"]
        PROVE  \E r \in Sent : sends' = [sends EXCEPT ![c] = r] /\ Owes(r)
    <3> DEFINE r == [sends[c] EXCEPT !.state = "failed"]
    <3>1. r \in Sent /\ r.kind = "find" /\ r.state = "failed"
      BY <1>1, <1>2 DEF Sent
    <3>2. Owes(r)
      BY <1>1, <1>2, <3>1 DEF Owes
    <3>3. sends' = [sends EXCEPT ![c] = r]
      BY <1>0, <2>2 DEF ActionTypeOK
    <3> QED BY <3>1, <3>2, <3>3
  <2> QED BY <2>1, <2>2 DEF scanAll
<1>4. \A b \in Sends : sends'[b] = IF b = c THEN r ELSE sends[b]
  BY <1>0, <1>3 DEF ActionTypeOK
<1>5. ActionTypeOK'
  <2>1. sends' \in SendsType
    BY <1>0, <1>3 DEF ActionTypeOK, SendsType
  <2> QED BY <1>0, <1>1, <2>1 DEF ActionTypeOK, SendsType
<1>6. RequestsOwe'
  BY <1>0, <1>1, <1>3, <1>4 DEF RequestsOwe, Owes, Existing
<1>7. PreviewOwes' /\ CopiedThere'
  BY <1>0, <1>1 DEF PreviewOwes, CopiedThere, Existing
<1> QED BY <1>5, <1>6, <1>7 DEF ActionInv

(* What a request may leave behind is a database.                           *)
LEMMA AnyEffect ==
  ASSUME ActionTypeOK, NEW r \in Sent, Owes(r), r.kind # "find"
  PROVE  Effects(r) \cup Failures(r) \subseteq [ActionKeys -> ActionKeys \cup {None}]
<1>1. stored \in [ActionKeys -> ActionKeys \cup {None}]
  BY DEF ActionTypeOK
<1>2. Failures(r) \subseteq [ActionKeys -> ActionKeys \cup {None}]
  BY <1>1, StoredTypes DEF Failures
<1>3. CASE r.kind \in {"delete", "flush"}
  <2>1. Effects(r) = {Without(r.keys)}
    BY <1>3 DEF Effects
  <2> QED BY <1>2, <2>1, StoredTypes
<1>4. CASE r.kind = "ttl"
  <2>1. Effects(r) = {stored, Without(r.keys)}
    BY <1>4 DEF Effects
  <2> QED BY <1>1, <1>2, <2>1, StoredTypes
<1>5. CASE r.kind \in {"rename", "undo"}
  <2>1. Effects(r) = {Moved(k, r.to) : k \in r.keys \cap Existing}
    BY <1>5 DEF Effects
  <2>2. r.to \in ActionKeys
    BY <1>5 DEF Owes
  <2> QED BY <1>2, <2>1, <2>2, StoredTypes DEF Existing
<1>6. CASE r.kind = "add"
  <2>1. Effects(r) = AfterAdd(r.to)
    BY <1>6 DEF Effects
  <2>2. r.to \in ActionKeys
    BY <1>6 DEF Owes
  <2> QED BY <1>2, <2>1, <2>2, StoredTypes
<1>7. CASE r.kind = "copy"
  <2>1. Effects(r) = {stored}
    BY <1>7 DEF Effects
  <2> QED BY <1>1, <1>2, <2>1
<1> QED BY <1>3, <1>4, <1>5, <1>6, <1>7 DEF Sent, Kinds

(* A database the backend, or another, has changed: what was looked for is  *)
(* told of the names that have got a value.                                 *)
LEMMA ChangeKeeps ==
  ASSUME ActionInv, PreviewLate, NEW c,
         sends' \in SendsType,
         stored' \in [ActionKeys -> ActionKeys \cup {None}],
         \A b \in Sends \ {c} : sends'[b] = ToldLate[b],
         c \in Sends => \/ sends'[c] = ToldLate[c]
                        \/ /\ sends[c] # None
                           /\ sends[c].kind # "find" /\ sends'[c].state # "sent"
                           /\ sends'[c].kind = sends[c].kind /\ sends'[c].to = sends[c].to
                           /\ sends'[c].crossed = sends[c].crossed
                           /\ sends'[c].keys = sends[c].keys,
         othersDone' \in 0 .. MaxOthers,
         UNCHANGED <<dialog, chosen, typed, place, copied, renamed>>
  PROVE  ActionInv'
<1>0. ActionTypeOK /\ RequestsOwe /\ PreviewOwes /\ CopiedThere
  BY DEF ActionInv
<1>1. ActionTypeOK'
  BY <1>0, PreviewLateIs DEF ActionTypeOK, SendsType, Preview
<1>2. ASSUME NEW b \in Sends, NEW r, r = sends'[b], r # None PROVE Owes(r)'
  <2>1. CASE r = ToldLate[b]
    <3>1. /\ sends[b] # None /\ r.kind = sends[b].kind /\ r.keys = sends[b].keys
          /\ r.to = sends[b].to /\ r.state = sends[b].state
          /\ r.shown = sends[b].shown /\ r.crossed = sends[b].crossed
          /\ Has(b, "find", "done") \/ Has(b, "delete", "sent") => r.late = sends[b].late \cup Late
      BY <1>0, <1>2, <2>1, ToldLateIs
    <3>2. Owes(sends[b])
      BY <1>0, <3>1 DEF RequestsOwe
    <3>3. r.kind = "find" /\ r.state = "done" => r.late = sends[b].late \cup Late
      BY <3>1 DEF Has
    <3>4. r.kind = "delete" /\ r.state = "sent" => r.late = sends[b].late \cup Late
      BY <3>1 DEF Has
    <3>5. r.kind = "find" /\ r.state = "done" /\ ~r.crossed
            => typed \cap Existing' \subseteq r.shown \cup r.late
      BY <3>1, <3>2, <3>3, GrowsLate DEF Owes
    <3>6. r.kind = "delete" /\ r.state = "sent" /\ ~r.crossed
            => r.keys \cap Existing' \subseteq r.shown \cup r.late
      BY <3>1, <3>2, <3>4, GrowsLate DEF Owes
    <3>7. r.kind = "find" => dialog = "pattern" /\ (r.state = "sent" /\ ~r.crossed => r.keys = typed)
      BY <3>1, <3>2 DEF Owes
    <3>8. /\ r.kind \in {"flush", "ttl", "rename", "undo"} /\ r.state = "sent" => r.keys \subseteq r.shown
          /\ r.kind = "copy" => dialog = "copy" /\ r.to \in CopyPlaces /\ (r.crossed \/ r.to = place)
          /\ r.kind \in {"rename", "undo", "add"} => r.to \in ActionKeys
          /\ r.kind = "rename" => r.keys # {}
      BY <3>1, <3>2 DEF Owes
    <3> QED BY <3>5, <3>6, <3>7, <3>8 DEF Owes
  <2>2. CASE r # ToldLate[b]
    <3>1. /\ sends[b] # None /\ r.kind = sends[b].kind /\ r.to = sends[b].to
          /\ r.crossed = sends[b].crossed /\ r.keys = sends[b].keys
          /\ r.kind # "find" /\ r.state # "sent"
      BY <1>2, <2>2
    <3>2. Owes(sends[b])
      BY <1>0, <3>1 DEF RequestsOwe
    <3> QED BY <3>1, <3>2 DEF Owes
  <2> QED BY <2>1, <2>2
<1>3. RequestsOwe'
  BY <1>2 DEF RequestsOwe
<1>4. PreviewOwes'
  BY <1>0, PreviewLateIs, GrowsLate DEF PreviewOwes
<1>5. CopiedThere'
  BY <1>0 DEF CopiedThere
<1> QED BY <1>1, <1>3, <1>4, <1>5 DEF ActionInv

(* The one that is executed is answered, and the others are told.           *)
LEMMA ExecutedSends ==
  ASSUME ActionTypeOK, NEW c \in Sends, Execute(c)
  PROVE  /\ sends' \in SendsType
         /\ sends'[c] \in Sent /\ sends'[c].state # "sent"
         /\ sends'[c].kind = sends[c].kind /\ sends'[c].keys = sends[c].keys
         /\ sends'[c].to = sends[c].to /\ sends'[c].crossed = sends[c].crossed
         /\ \A b \in Sends \ {c} : sends'[b] = ToldLate[b]
<1>1. PICK f : f = ToldLate
  OBVIOUS
<1>2. sends[c] # None
  BY DEF Execute
<1>3. f \in SendsType /\ f[c] \in Sent
  BY <1>1, <1>2, ToldLateIs
<1>4. /\ f[c].kind = sends[c].kind /\ f[c].keys = sends[c].keys
      /\ f[c].to = sends[c].to /\ f[c].crossed = sends[c].crossed
  BY <1>1, <1>2, ToldLateIs
<1>5. PICK s \in {"done", "failed"} :
        sends' = [f EXCEPT ![c].state = s, ![c].shown = {}, ![c].late = {}]
  <2>1. PICK works \in BOOLEAN :
          sends' = [ToldLate EXCEPT ![c].state = IF works THEN "done" ELSE "failed",
                                    ![c].shown = {}, ![c].late = {}]
    BY Zenon DEF Execute
  <2> DEFINE s == IF works THEN "done" ELSE "failed"
  <2>2. sends' = [ToldLate EXCEPT ![c].state = s, ![c].shown = {}, ![c].late = {}]
    BY <2>1
  <2>3. s \in {"done", "failed"}
    OBVIOUS
  <2> HIDE DEF s
  <2>4. sends' = [f EXCEPT ![c].state = s, ![c].shown = {}, ![c].late = {}]
    BY <1>1, <2>2, Zenon
  <2> QED BY <2>3, <2>4
<1> DEFINE m == [f[c] EXCEPT !.state = s, !.shown = {}, !.late = {}]
<1>6. sends'[c] = m /\ \A b \in Sends \ {c} : sends'[b] = f[b]
  BY <1>3, <1>5 DEF SendsType, Sent
<1>7. /\ m \in Sent /\ m.state = s /\ m.kind = f[c].kind /\ m.keys = f[c].keys
      /\ m.to = f[c].to /\ m.crossed = f[c].crossed
  BY <1>3 DEF Sent
<1>8. sends' = [b \in Sends |-> sends'[b]]
  BY <1>3, <1>5 DEF SendsType
<1> HIDE DEF m
<1>9. sends' \in SendsType
  BY <1>3, <1>6, <1>7, <1>8 DEF SendsType
<1> QED BY <1>1, <1>4, <1>6, <1>7, <1>9

LEMMA ExecuteKeeps ==
  ASSUME ActionInv, NEW c \in Sends, Execute(c)
  PROVE  ActionInv'
<1>0. ActionTypeOK /\ RequestsOwe
  BY DEF ActionInv
<1>1. sends[c] # None /\ sends[c] \in Sent /\ sends[c].kind # "find" /\ Owes(sends[c])
  BY <1>0 DEF Execute, ActionTypeOK, RequestsOwe
<1>2. stored' \in Effects(sends[c]) \cup Failures(sends[c])
  BY DEF Execute
<1>3. stored' \in [ActionKeys -> ActionKeys \cup {None}]
  BY <1>0, <1>1, <1>2, AnyEffect
<1>4. /\ sends' \in SendsType
      /\ sends'[c] \in Sent /\ sends'[c].state # "sent"
      /\ sends'[c].kind = sends[c].kind /\ sends'[c].keys = sends[c].keys
      /\ sends'[c].to = sends[c].to /\ sends'[c].crossed = sends[c].crossed
      /\ \A b \in Sends \ {c} : sends'[b] = ToldLate[b]
  BY <1>0, ExecutedSends
<1>5. /\ PreviewLate /\ othersDone' \in 0 .. MaxOthers
      /\ UNCHANGED <<dialog, chosen, typed, place, copied, renamed>>
  BY <1>0 DEF Execute, ActionTypeOK
<1> QED BY <1>1, <1>3, <1>4, <1>5, ChangeKeeps

LEMMA OthersKeep ==
  ASSUME ActionInv, NEW k \in ActionKeys, OtherCreates(k) \/ OtherDeletes(k)
  PROVE  ActionInv'
<1>0. ActionTypeOK /\ RequestsOwe /\ PreviewOwes /\ CopiedThere
  BY DEF ActionInv
<1>1. /\ othersDone' \in 0 .. MaxOthers
      /\ stored' \in [ActionKeys -> ActionKeys \cup {None}]
      /\ UNCHANGED <<dialog, chosen, typed, place, copied, renamed>>
  BY <1>0, ActionsAssumption DEF OtherCreates, OtherDeletes, dialogPart, ActionTypeOK
<1>2. CASE OtherCreates(k)
  <2>1. PreviewLate /\ sends' = ToldLate
    BY <1>2 DEF OtherCreates
  <2>2. ToldLate \in SendsType
    BY <1>0, ToldLateIs
  <2> QED BY <1>1, <2>1, <2>2, ChangeKeeps
<1>3. CASE OtherDeletes(k)
  <2>1. sends' = sends /\ preview' = preview /\ stored' = [stored EXCEPT ![k] = None]
    BY <1>3 DEF OtherDeletes, dialogPart
  <2>2. Existing' \subseteq Existing
    BY <1>0, <2>1 DEF Existing, ActionTypeOK
  <2>3. ActionTypeOK'
    BY <1>0, <1>1, <2>1 DEF ActionTypeOK
  <2>4. RequestsOwe'
    BY <1>0, <1>1, <2>1, <2>2 DEF RequestsOwe, Owes
  <2>5. PreviewOwes' /\ CopiedThere'
    BY <1>0, <1>1, <2>1, <2>2 DEF PreviewOwes, CopiedThere
  <2> QED BY <2>3, <2>4, <2>5 DEF ActionInv
<1> QED BY <1>2, <1>3

LEMMA ActionInit0 == ActionInit => ActionInv
<1> SUFFICES ASSUME ActionInit PROVE ActionInv
  OBVIOUS
<1>1. ActionTypeOK
  BY ActionsAssumption DEF ActionInit, ActionTypeOK
<1>2. RequestsOwe /\ PreviewOwes /\ CopiedThere
  BY DEF ActionInit, RequestsOwe, PreviewOwes, CopiedThere
<1> QED BY <1>1, <1>2 DEF ActionInv

(* The steps, by who takes them.                                            *)
LEMMA ActionSteps ==
  ASSUME ActionNext
  PROVE  \/ UserStep
         \/ \E c \in Sends : SendStep(c) \/ AnswerStep(c) \/ scanAll(c) \/ Execute(c)
         \/ \E k \in ActionKeys : OtherCreates(k) \/ OtherDeletes(k)
BY DEF ActionNext, UserStep, SendStep, AnswerStep

LEMMA ActionKeeps ==
  ASSUME ActionInv, [ActionNext]_actionPart
  PROVE  ActionInv'
<1>1. CASE UserStep
  <2>1. ActionTypeOK'
    BY <1>1, UserTypes DEF ActionInv
  <2> QED BY <1>1, <2>1, UserOwes DEF ActionInv
<1>2. ASSUME NEW c \in Sends, SendStep(c) \/ AnswerStep(c) \/ scanAll(c) \/ Execute(c)
      PROVE  ActionInv'
  BY <1>2, SendStepKeeps, AnswerKeeps, SearchStepKeeps, ExecuteKeeps
<1>3. ASSUME NEW k \in ActionKeys, OtherCreates(k) \/ OtherDeletes(k) PROVE ActionInv'
  BY <1>3, OthersKeep
<1>4. CASE UNCHANGED actionPart
  BY <1>4 DEF actionPart, dialogPart, ActionInv, ActionTypeOK, RequestsOwe, Owes, PreviewOwes,
       CopiedThere, Existing
<1> QED BY <1>1, <1>2, <1>3, <1>4, ActionSteps

-----------------------------------------------------------------------------
(* What a step may take.                                                    *)

TakesAsShown(k) ==
  \/ othersDone' # othersDone
  \/ \E c \in Sends :
       /\ sends[c] # None /\ sends'[c] # sends[c]
       /\ \/ k \in sends[c].shown \cup sends[c].late \cup {sends[c].to}
          \/ sends[c].crossed

(* What an executed request takes is among its keys or the name it gives.   *)
LEMMA LostToRequest ==
  ASSUME ActionTypeOK, NEW r \in Sent, r.kind # "find", NEW k \in ActionKeys, Lost(k),
         stored' \in Effects(r) \cup Failures(r)
  PROVE  \/ r.kind \in {"delete", "flush", "ttl", "rename", "undo"} /\ k \in r.keys
         \/ k = r.to
<1>1. stored \in [ActionKeys -> ActionKeys \cup {None}] /\ stored' # stored
  BY DEF Lost, ActionTypeOK
<1>2. \A K : stored' = Without(K) => k \in K
  BY <1>1 DEF Without, Lost
<1>3. CASE stored' \in Failures(r)
  BY <1>1, <1>2, <1>3 DEF Failures
<1>4. CASE stored' \in Effects(r)
  <2>1. CASE r.kind \in {"delete", "flush"}
    <3>1. stored' = Without(r.keys)
      BY <1>4, <2>1 DEF Effects
    <3> QED BY <1>2, <2>1, <3>1
  <2>2. CASE r.kind = "ttl"
    <3>1. stored' \in {stored, Without(r.keys)}
      BY <1>4, <2>2 DEF Effects
    <3> QED BY <1>1, <1>2, <2>2, <3>1
  <2>3. CASE r.kind \in {"rename", "undo"}
    <3>1. Effects(r) = {Moved(n, r.to) : n \in r.keys \cap Existing}
      BY <2>3 DEF Effects
    <3>2. PICK n \in r.keys \cap Existing : stored' = Moved(n, r.to)
      BY <1>4, <3>1
    <3>3. k = n \/ k = r.to
      BY <1>1, <3>2 DEF Moved, Lost
    <3> QED BY <2>3, <3>2, <3>3
  <2>4. CASE r.kind = "add"
    <3>1. stored' \in AfterAdd(r.to)
      BY <1>4, <2>4 DEF Effects
    <3>2. stored' = [stored EXCEPT ![r.to] = r.to] \/ stored' = Without({r.to})
      BY <1>1, <3>1 DEF AfterAdd
    <3> QED BY <1>1, <1>2, <3>2 DEF Lost
  <2>5. CASE r.kind = "copy"
    BY <1>1, <1>4, <2>5 DEF Effects
  <2> QED BY <2>1, <2>2, <2>3, <2>4, <2>5 DEF Sent, Kinds
<1> QED BY <1>3, <1>4

LEMMA ExecuteTakes ==
  ASSUME ActionInv, NEW c \in Sends, Execute(c), NEW k \in ActionKeys, Lost(k)
  PROVE  TakesAsShown(k)
<1>0. ActionTypeOK /\ RequestsOwe
  BY DEF ActionInv
<1>1. stored' \in Effects(sends[c]) \cup Failures(sends[c])
  BY DEF Execute
<1>2. /\ sends[c] # None /\ sends[c] \in Sent /\ sends[c].kind # "find" /\ sends[c].state = "sent"
      /\ Owes(sends[c])
  BY <1>0 DEF Execute, ActionTypeOK, RequestsOwe
<1>3. \/ sends[c].kind \in {"delete", "flush", "ttl", "rename", "undo"} /\ k \in sends[c].keys
      \/ k = sends[c].to
  BY <1>0, <1>1, <1>2, LostToRequest
<1>4. k \in Existing
  BY DEF Lost, Existing
<1>5. \/ k \in sends[c].shown \cup sends[c].late \cup {sends[c].to}
      \/ sends[c].crossed
  <2>1. CASE k = sends[c].to
    BY <2>1
  <2>2. CASE sends[c].kind = "delete" /\ k \in sends[c].keys
    BY <1>2, <1>4, <2>2 DEF Owes
  <2>3. CASE sends[c].kind \in {"flush", "ttl", "rename", "undo"} /\ k \in sends[c].keys
    BY <1>2, <2>3 DEF Owes
  <2> QED BY <1>3, <2>1, <2>2, <2>3
<1>6. sends'[c] # sends[c]
  BY <1>0, <1>2, ExecutedSends
<1> QED BY <1>2, <1>5, <1>6 DEF TakesAsShown

LEMMA StepTakes ==
  ASSUME ActionInv, [ActionNext]_actionPart, NEW k \in ActionKeys, Lost(k)
  PROVE  TakesAsShown(k)
<1>1. stored' # stored
  BY DEF Lost
<1>2. CASE UserStep
  BY <1>1, <1>2 DEF UserStep, Open, onClose, TypeDeletion, SelectPlace
<1>3. ASSUME NEW c \in Sends, SendStep(c) PROVE FALSE
  BY <1>1, <1>3, SentOwes
<1>4. ASSUME NEW c \in Sends, AnswerStep(c) PROVE FALSE
  BY <1>1, <1>4 DEF AnswerStep, Previewed, Copied, Failed, Deleted, markUndone, Done
<1>5. ASSUME NEW c \in Sends, scanAll(c) PROVE FALSE
  BY <1>1, <1>5 DEF scanAll
<1>6. ASSUME NEW c \in Sends, Execute(c) PROVE TakesAsShown(k)
  BY <1>6, ExecuteTakes
<1>7. ASSUME NEW n \in ActionKeys, OtherCreates(n) \/ OtherDeletes(n) PROVE TakesAsShown(k)
  <2>1. othersDone' = othersDone + 1 /\ othersDone \in Nat
    BY <1>7, ActionsAssumption DEF OtherCreates, OtherDeletes, ActionInv, ActionTypeOK
  <2> QED BY <2>1 DEF TakesAsShown
<1>8. CASE UNCHANGED actionPart
  BY <1>1, <1>8 DEF actionPart
<1> QED BY <1>2, <1>3, <1>4, <1>5, <1>6, <1>7, <1>8, ActionSteps

(* The dialogs send only requests of their kinds, each with the keys and    *)
(* the place it was sent for (KeyActions!ActionTypeOK).                     *)
THEOREM ActionTypeCorrect == ActionSpec => []ActionTypeOK
<1>1. ActionInv => ActionTypeOK
  BY DEF ActionInv
<1> QED BY <1>1, ActionInit0, ActionKeeps, PTL DEF ActionSpec

(* Whatever the dialogs do, one after the other or crossing each other, a   *)
(* request takes from the database only what its dialog has shown, with the *)
(* known exceptions, and a copy is shown as done at the target it went to,  *)
(* where what is sent of the target tells it (KeyActions!ActsAsShown).      *)
THEOREM TakesWhatItShows == ActionSpec => ActsAsShown
<1>1. ActionInit => ActionInv
  BY ActionInit0
<1>2. ActionInv /\ [ActionNext]_actionPart => ActionInv'
  BY ActionKeeps
<1>3. ActionInv =>
        (copied # None =>
           copied.crossed \/ (place # None /\ IsNamed(place, place, copied.to)))
  BY DEF ActionInv, CopiedThere
<1>4. ActionInv /\ [ActionNext]_actionPart =>
        [\A k \in ActionKeys : Lost(k) =>
          \/ othersDone' # othersDone
          \/ \E c \in Sends :
               /\ sends[c] # None /\ sends'[c] # sends[c]
               /\ \/ k \in sends[c].shown \cup sends[c].late \cup {sends[c].to}
                  \/ sends[c].crossed]_actionPart
  BY StepTakes DEF TakesAsShown
<1> QED BY <1>1, <1>2, <1>3, <1>4, PTL DEF ActionSpec, ActsAsShown
=============================================================================

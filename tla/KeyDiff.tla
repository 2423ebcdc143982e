------------------------------- MODULE KeyDiff -------------------------------
(***************************************************************************)
(* The comparison of a key, and the copying of one or of many, between two *)
(* connections (KeyDiffView).  The left side is the connection whose tab   *)
(* this is, in the database selected on the page; the right one is chosen  *)
(* on the tab and has a database of its own; Swap exchanges the two.       *)
(*                                                                         *)
(* Nothing aborts a comparison, a copy or a search for keys: its answer is *)
(* shown whatever has been chosen meanwhile.                               *)
(***************************************************************************)
EXTENDS Selection, PartialConnection

CONSTANTS
  Connections,  \* connections of the page
  This,         \* the one whose tab this is
  DiffKeys,     \* key names, and patterns
  Calls         \* requests of a kind that may be on their way at once

ASSUME ThisAssumption == This \in Connections /\ None \notin Connections \cup DiffKeys

VARIABLES
  half,         \* which half of the tab is used, comparing or batch copying
  right,        \* rightId
  rightDb,
  isSwapped,
  keyInput,     \* the key to compare, None if empty, or the pattern of the batch
  diffResult,   \* the key compared and the places it was read from, or None
  comparing,    \* loading
  diffs,        \* call -> the comparison on its way, or None
  pendingSync,  \* the user is asked whether to copy
  sync,         \* the copy on its way, or None
  resync,       \* the comparison that follows a copy, or None
  moved,        \* history: see DiffIsOfTheSides
  forward,      \* batchDirection is left to right
  batchSrcDb,
  found,        \* what batchFoundKeys was found in, or None
  pendingBatch,
  searches,     \* call -> the search for keys on its way, or None
  batchRunning,
  drifted       \* history: see FoundInTheSource

sidePart == <<right, rightDb, isSwapped>>
calls == <<comparing, diffs, pendingSync, sync, resync>>
comparePart == <<keyInput, diffResult, calls, moved>>
batchPart == <<forward, batchSrcDb, found, pendingBatch, searches, batchRunning, drifted>>
diffPart == <<half, sidePart, comparePart, batchPart>>
diffVars == <<db, diffPart>>

Side == [conn : Connections, db : Databases]
Comparison == [key : DiffKeys, left : Side, right : Side]

(* A side shown is the place read; None when there is an error instead.  A  *)
(* copy is of the sides compared, to one of them, and goes into a place.    *)
Shown == [key : DiffKeys, left : Side \cup {None}, right : Side \cup {None}]
Sync == [of : Comparison, toRight : BOOLEAN, into : Side \cup {None}]

Origin == [conn : Connections, db : Databases, pattern : DiffKeys]

DiffTypeOK ==
  /\ half \in {"compare", "batch"} /\ db \in Databases
  /\ right \in Connections \cup {None} /\ rightDb \in Databases
  /\ {isSwapped, comparing, pendingSync, moved, forward, pendingBatch, batchRunning, drifted}
       \subseteq BOOLEAN
  /\ keyInput \in DiffKeys \cup {None} /\ batchSrcDb \in Databases
  /\ diffResult \in Shown \cup {None} /\ sync \in Sync \cup {None}
  /\ diffs \in [Calls -> Comparison \cup {None}] /\ resync \in Calls \cup {None}
  /\ found \in Origin \cup {None} /\ searches \in [Calls -> Origin \cup {None}]

-----------------------------------------------------------------------------
SideOf(c, d) == [conn |-> c, db |-> d]
rightConn == right # None
effectiveLeft == IF isSwapped /\ rightConn THEN SideOf(right, rightDb) ELSE SideOf(This, db)
effectiveRight == IF isSwapped \/ ~rightConn THEN SideOf(This, db) ELSE SideOf(right, rightDb)
Compared == [key |-> keyInput, left |-> effectiveLeft, right |-> effectiveRight]

(* Where a request comes to that names the side s (PartialConnection).      *)
SideReached(s) == Reached(s.conn, s, Side)
IsSide(s, r) == IsNamed(s.conn, s, r)

batchSrcConn == IF forward THEN effectiveLeft ELSE effectiveRight
BatchSource == [conn |-> batchSrcConn.conn, db |-> batchSrcDb, pattern |-> keyInput]

Underway(of) == \E c \in Calls : of[c] # None
Awaiting == Underway(diffs) \/ sync # None

DiffInit ==
  /\ half \in {"compare", "batch"} /\ db \in Databases
  /\ right = None /\ rightDb \in Databases /\ isSwapped = FALSE
  /\ IF half = "compare" THEN keyInput = None ELSE keyInput \in DiffKeys
  /\ diffResult = None /\ comparing = FALSE
  /\ diffs = [c \in Calls |-> None] /\ pendingSync = FALSE /\ sync = None
  /\ resync = None /\ moved = FALSE
  /\ forward = TRUE /\ batchSrcDb \in Databases /\ found = None /\ pendingBatch = FALSE
  /\ searches = [c \in Calls |-> None] /\ batchRunning = FALSE /\ drifted = FALSE

(* The result, or the keys found, are taken off the page.                   *)
DropResult == diffResult' = None /\ moved' = Awaiting
DropFound == found' = None /\ drifted' = Underway(searches)

-----------------------------------------------------------------------------
(* The two sides, which both halves use.  The question whether to copy is   *)
(* modal.                                                                   *)

(* The right connection, in the database stored with it.                    *)
SelectRight(c) ==
  /\ ~pendingSync /\ c # right
  /\ right' = c /\ rightDb' \in Databases /\ isSwapped' = FALSE /\ DropResult /\ DropFound
  /\ UNCHANGED <<db, half, keyInput, calls, forward, batchSrcDb>>
  /\ UNCHANGED <<pendingBatch, searches, batchRunning>>

SetSideDb(ofThis, d) ==
  /\ ~pendingSync /\ DropResult
  /\ IF ofThis THEN changeDb(d) /\ UNCHANGED rightDb ELSE rightDb' = d /\ UNCHANGED db
  /\ UNCHANGED <<half, right, isSwapped, keyInput, calls, batchPart>>

handleLeftDbChange(d) == d # effectiveLeft.db /\ SetSideDb(~isSwapped, d)
handleRightDbChange(d) == rightConn /\ d # effectiveRight.db /\ SetSideDb(isSwapped, d)

(* The database is switched anywhere else on the page.                      *)
SelectDb(d) ==
  /\ ~pendingSync /\ changeDb(d) /\ moved' = (Awaiting \/ diffResult # None)
  /\ UNCHANGED <<half, sidePart, keyInput, diffResult, calls, batchPart>>

handleSwap_KeepsTheResult ==
  /\ rightConn /\ ~pendingSync
  /\ isSwapped' = ~isSwapped /\ moved' = (moved \/ Awaiting) /\ DropFound
  /\ UNCHANGED <<db, half, right, rightDb, keyInput, diffResult, calls>>
  /\ UNCHANGED <<forward, batchSrcDb, pendingBatch, searches, batchRunning>>

handleSwap ==
  /\ rightConn /\ ~pendingSync
  /\ isSwapped' = ~isSwapped /\ DropResult /\ DropFound
  /\ UNCHANGED <<db, half, right, rightDb, keyInput, calls>>
  /\ UNCHANGED <<forward, batchSrcDb, pendingBatch, searches, batchRunning>>

-----------------------------------------------------------------------------
(* Comparing.                                                               *)
TypeKey(k) ==
  /\ half = "compare" /\ ~comparing /\ ~pendingSync /\ k # keyInput
  /\ keyInput' = k /\ DropResult
  /\ UNCHANGED <<db, half, sidePart, calls, batchPart>>

(* By the button, or by Enter even where the button is disabled because the *)
(* two sides are the same database.  Bound: while a copy is on its way a    *)
(* call is left for the comparison that follows it.                         *)
StartDiff(c, of) ==
  /\ diffs[c] = None /\ diffs' = [diffs EXCEPT ![c] = of]
  /\ comparing' = TRUE /\ diffResult' = None

handleCompare(c) ==
  /\ half = "compare" /\ keyInput # None /\ rightConn /\ ~comparing /\ ~pendingSync
  /\ sync # None => ~Underway(diffs)
  /\ StartDiff(c, Compared) /\ moved' = (moved /\ Awaiting)
  /\ UNCHANGED <<db, half, sidePart, keyInput, pendingSync, sync, resync, batchPart>>

EndDiff(c, shows) ==
  /\ diffs[c] # None /\ diffs' = [diffs EXCEPT ![c] = None]
  /\ comparing' = FALSE /\ diffResult' = shows
  /\ resync' = IF resync = c THEN None ELSE resync
  /\ UNCHANGED <<db, half, sidePart, keyInput, pendingSync, sync, moved, batchPart>>

(* getDiff reads each side, and answers the values or the errors.           *)
CompareAnswer(c) ==
  /\ diffs[c] # None
  /\ \E l \in SideReached(diffs[c].left), r \in SideReached(diffs[c].right) :
       EndDiff(c, [key |-> diffs[c].key, left |-> l, right |-> r])

CompareFails(c) == EndDiff(c, diffResult)

AskToSync ==
  /\ half = "compare" /\ diffResult # None /\ ~pendingSync /\ sync = None /\ resync = None
  /\ pendingSync' = TRUE
  /\ UNCHANGED <<db, half, sidePart, keyInput, diffResult, comparing, diffs, sync, resync, moved, batchPart>>

AnswerToSync(copies) ==
  /\ pendingSync /\ pendingSync' = FALSE /\ sync' = copies
  /\ UNCHANGED <<db, half, sidePart, keyInput, diffResult, comparing, diffs, resync, moved, batchPart>>

CancelSync == AnswerToSync(None)

(* The source is sent whole, the target in part.                            *)
handleSync ==
  \E toRight \in BOOLEAN :
    \E place \in SideReached(IF toRight THEN effectiveRight ELSE effectiveLeft) :
      AnswerToSync([of |-> Compared, toRight |-> toRight, into |-> place])

(* The copy is done, and compared again as it was when it was asked for.    *)
SyncAnswer(c) ==
  /\ sync # None /\ sync.into # None /\ sync' = None /\ StartDiff(c, sync.of) /\ resync' = c
  /\ UNCHANGED <<db, half, sidePart, keyInput, pendingSync, moved, batchPart>>

SyncFails ==
  /\ sync # None /\ sync' = None
  /\ UNCHANGED <<db, half, sidePart, keyInput, diffResult, comparing, diffs, pendingSync, resync, moved>>
  /\ UNCHANGED batchPart
-----------------------------------------------------------------------------
(* Batch copying.                                                           *)
OnBatch == half = "batch" /\ UNCHANGED <<db, half, sidePart, comparePart>>
Open == OnBatch /\ rightConn

(* The panel is opened or closed: the source's database is set again.       *)
openBatch ==
  /\ Open /\ batchSrcDb' = batchSrcConn.db /\ DropFound
  /\ UNCHANGED <<forward, pendingBatch, searches, batchRunning>>

changeBatchDir_KeepsTheKeys ==
  /\ Open /\ forward' = ~forward
  /\ batchSrcDb' = (IF forward THEN effectiveRight ELSE effectiveLeft).db
  /\ drifted' = Underway(searches)
  /\ UNCHANGED <<found, pendingBatch, searches, batchRunning>>

changeBatchDir ==
  /\ Open /\ forward' = ~forward /\ DropFound
  /\ batchSrcDb' = (IF forward THEN effectiveRight ELSE effectiveLeft).db
  /\ UNCHANGED <<pendingBatch, searches, batchRunning>>

SelectSourceDb(d) ==
  /\ Open /\ d # batchSrcDb /\ batchSrcDb' = d /\ DropFound
  /\ UNCHANGED <<forward, pendingBatch, searches, batchRunning>>

TypePattern(p) ==
  /\ half = "batch" /\ rightConn /\ p # keyInput /\ keyInput' = p /\ DropFound
  /\ UNCHANGED <<db, half, sidePart, diffResult, calls, moved>>
  /\ UNCHANGED <<forward, batchSrcDb, pendingBatch, searches, batchRunning>>

(* By the button, or by Enter even while keys are searched or copied.       *)
handleBatchScan(c) ==
  /\ Open /\ searches[c] = None /\ searches' = [searches EXCEPT ![c] = BatchSource]
  /\ found' = None /\ drifted' = (drifted /\ Underway(searches))
  /\ UNCHANGED <<forward, batchSrcDb, pendingBatch, batchRunning>>

EndSearch(c, finds) ==
  /\ OnBatch /\ searches[c] # None /\ searches' = [searches EXCEPT ![c] = None]
  /\ found' = finds
  /\ UNCHANGED <<forward, batchSrcDb, pendingBatch, batchRunning, drifted>>

(* An empty list of keys is as good as none.                                *)
ScanAnswer(c) == \E finds \in {searches[c], None} : EndSearch(c, finds)
ScanFails(c) == EndSearch(c, found)

(* The keys found are shown, with the question whether to copy them once    *)
(* the button was clicked; it is asked of the next keys found, too.         *)
AskToCopy ==
  /\ Open /\ found # None
  /\ pendingBatch' = ~pendingBatch /\ (batchRunning => pendingBatch)
  /\ UNCHANGED <<forward, batchSrcDb, found, searches, batchRunning, drifted>>

(* Where the target is, which is sent in part like that of a copy, is not   *)
(* followed.                                                                *)
handleBatchCopy ==
  /\ Open /\ found # None /\ pendingBatch /\ ~batchRunning
  /\ pendingBatch' = FALSE /\ batchRunning' = TRUE
  /\ UNCHANGED <<forward, batchSrcDb, found, searches, drifted>>

BatchCopyEnds ==
  /\ OnBatch /\ batchRunning /\ batchRunning' = FALSE
  /\ UNCHANGED <<forward, batchSrcDb, found, pendingBatch, searches, drifted>>

-----------------------------------------------------------------------------
SideChange ==
  \/ \E c \in Connections \cup {None} : SelectRight(c)
  \/ \E d \in Databases : handleLeftDbChange(d) \/ handleRightDbChange(d)
  \/ \E d \in Databases \ {db} : SelectDb(d)
  \/ handleSwap

DiffNext ==
  \/ SideChange
  \/ \E k \in DiffKeys : TypeKey(k) \/ TypePattern(k)
  \/ \E c \in Calls :
       \/ handleCompare(c) \/ CompareAnswer(c) \/ CompareFails(c) \/ SyncAnswer(c)
       \/ handleBatchScan(c) \/ ScanAnswer(c) \/ ScanFails(c)
  \/ AskToSync \/ CancelSync \/ handleSync \/ SyncFails
  \/ openBatch \/ changeBatchDir \/ \E d \in Databases : SelectSourceDb(d)
  \/ AskToCopy \/ handleBatchCopy \/ BatchCopyEnds

DiffSpec == DiffInit /\ [][DiffNext]_diffVars

-----------------------------------------------------------------------------
(* The comparison shown, from which Copy overwrites a key, is of the key    *)
(* and of the two sides that the tab names, and a copy goes into the side   *)
(* it names - unless they were changed while a comparison or a copy was on  *)
(* its way, or the database was switched elsewhere on the page, which takes *)
(* no result away; or the side is one that a part of its connection does    *)
(* not tell, which is read, or overwritten, at another place.               *)
DiffIsOfTheSides ==
  ~moved =>
    /\ diffResult # None =>
         /\ diffResult.key = keyInput
         /\ IsSide(effectiveLeft, diffResult.left) /\ IsSide(effectiveRight, diffResult.right)
    /\ sync # None => IsSide(IF sync.toRight THEN effectiveRight ELSE effectiveLeft, sync.into)

(* The keys found, which the batch copies, were found by the pattern shown  *)
(* in the connection and database it reads them from, unless one of these   *)
(* was changed while they were searched.                                    *)
FoundInTheSource == found # None /\ ~drifted => found = BatchSource
=============================================================================

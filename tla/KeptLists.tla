------------------------------ MODULE KeptLists ------------------------------
(***************************************************************************)
(* The lists the page keeps in the browser's localStorage: the snapshots   *)
(* of the memory analysis, the commands and the starred commands of the    *)
(* console, the searches and the bookmarks of the keys browser.            *)
(*                                                                         *)
(* Every view (a tab of the browser, a pane of the console) reads the list *)
(* when it appears, changes its own copy, and writes the whole copy back.  *)
(*                                                                         *)
(* The console's lists are one for all connections.  The others are one    *)
(* for a connection, with all its databases: snapshots of one database     *)
(* push out those of another, where FEATURES.md:443-444 and MemoryView:735 *)
(* speak of a list for each database.                                      *)
(***************************************************************************)
EXTENDS SequencesExt, Lists

CONSTANTS
  Views,     \* the views that may be on screen
  Entries,   \* snapshots, commands, search patterns or key names
  Limit,     \* how many entries are kept: 30 snapshots, 200 commands, 10 searches
  Unseen     \* for a view that is not on screen

ASSUME LimitAssumption == Limit \in Nat \ {0}
ASSUME UnseenAssumption == Unseen \notin Seq(Entries)

VARIABLES
  kind,      \* which of the lists this is
  saved,     \* the list in localStorage, newest first
  copy,      \* what each view shows
  mounting,  \* views that have still to write back what they read
  importing, \* the bookmarks a view had when a file to import was chosen, or Unseen
  behind,    \* history: open views whose copy another one's write made out of date
  overwrote, \* history: such a view has written
  wanted,    \* history: the newest entries added by the user and not removed
  removed    \* history: entries removed by the user and not added again

keptPart == <<kind, saved, copy, mounting, importing, behind, overwrote, wanted, removed>>

Kinds == {"snapshots", "commands", "starred", "searches", "bookmarks"}

KeptTypeOK ==
  /\ kind \in Kinds /\ overwrote \in BOOLEAN
  /\ saved \in Seq(Entries) /\ wanted \in Seq(Entries) /\ removed \subseteq Entries
  /\ {copy, importing} \subseteq [Views -> Seq(Entries) \cup {Unseen}]
  /\ mounting \subseteq Views /\ behind \subseteq Views

-----------------------------------------------------------------------------
OnScreen(v) == copy[v] # Unseen
ViewReady(v) == OnScreen(v) /\ v \notin mounting
Dropped(list, e) == Filtered(list, Entries \ {e})
Newest(list) == SubSeq(list, 1, IF Len(list) < Limit THEN Len(list) ELSE Limit)

(* What is kept of a list a view has added to.                              *)
Cut(list) == IF kind \in {"starred", "bookmarks"} THEN list ELSE Newest(list)

KeptInit ==
  /\ kind \in Kinds /\ saved = <<>> /\ copy = [v \in Views |-> Unseen]
  /\ importing = [v \in Views |-> Unseen] /\ mounting = {}
  /\ behind = {} /\ overwrote = FALSE /\ wanted = <<>> /\ removed = {}

(* A write of localStorage, which no other view is told of.                 *)
OutOfDate(v, list) == {w \in Views \ {v} : OnScreen(w) /\ Cut(copy[w]) # list}

WriteList(v, list) ==
  /\ saved' = list
  /\ behind' = OutOfDate(v, list)
  /\ overwrote' = (overwrote \/ (v \in behind /\ list # saved))

(* The two histories, which are given up when a copy out of date is written. *)
Remember(added, taken) ==
  /\ wanted' = IF overwrote' THEN <<>> ELSE added
  /\ removed' = IF overwrote' THEN {} ELSE taken

ShowList(v, list) == copy' = [copy EXCEPT ![v] = list]

(* A view appears and reads the list.  The console's effects save what was  *)
(* read once it is rendered, and the one of the starred commands runs for   *)
(* the empty list of the first render, too.                                 *)
OpenView(v) ==
  /\ ~OnScreen(v) /\ ShowList(v, saved)
  /\ mounting' = IF kind \in {"commands", "starred"} THEN mounting \cup {v} ELSE mounting
  /\ IF kind = "starred" THEN WriteList(v, <<>>) ELSE UNCHANGED <<saved, behind, overwrote>>
  /\ UNCHANGED <<kind, importing, wanted, removed>>

WriteBack(v) ==
  /\ v \in mounting /\ mounting' = mounting \ {v}
  /\ IF kind = "commands" /\ copy[v] = <<>>
       THEN UNCHANGED <<saved, behind, overwrote>> ELSE WriteList(v, copy[v])
  /\ Remember(wanted, removed) /\ UNCHANGED <<kind, copy, importing>>

CloseView(v) ==
  /\ ViewReady(v) /\ importing[v] = Unseen /\ ShowList(v, Unseen) /\ behind' = behind \ {v}
  /\ UNCHANGED <<kind, saved, mounting, importing, overwrote, wanted, removed>>

(* The database is switched: the console is told, and keeps its lists.      *)
Reread(v) ==
  /\ ViewReady(v) /\ kind \in {"snapshots", "searches", "bookmarks"}
  /\ ShowList(v, saved) /\ behind' = behind \ {v}
  /\ UNCHANGED <<kind, saved, mounting, importing, overwrote, wanted, removed>>

(* A handler shows one list and keeps another, because of what the user     *)
(* added and took away.                                                     *)
HandleList(v, k, shows, keeps, added, taken) ==
  /\ kind = k /\ ViewReady(v)
  /\ ShowList(v, shows) /\ WriteList(v, keeps) /\ Remember(added, taken)
  /\ UNCHANGED <<kind, mounting, importing>>

AddEntry(v, k, e, Made(_)) ==
  HandleList(v, k, Made(copy[v]), Made(copy[v]), Made(wanted), removed \ {e})
TakeEntry(v, k, e) ==
  /\ OnScreen(v) /\ e \in Range(copy[v])
  /\ HandleList(v, k, Dropped(copy[v], e), Cut(Dropped(copy[v], e)),
            Dropped(wanted, e), removed \cup {e})
ClearList(v, k) == copy[v] # <<>> /\ HandleList(v, k, <<>>, <<>>, <<>>, removed \cup Range(copy[v]))

(* The history of analyses shows what it no longer keeps.                   *)
saveSnapshot(v, e) ==
  /\ e \notin Range(saved) /\ \A w \in Views : OnScreen(w) => e \notin Range(copy[w])
  /\ HandleList(v, "snapshots", <<e>> \o copy[v], Newest(<<e>> \o copy[v]),
            Newest(<<e>> \o wanted), removed \ {e})

deleteSnapshot_ShowsItOnly(v, e) ==
  /\ OnScreen(v) /\ e \in Range(copy[v])
  /\ HandleList(v, "snapshots", Dropped(copy[v], e), saved, Dropped(wanted, e), removed \cup {e})
deleteSnapshot(v, e) == TakeEntry(v, "snapshots", e)
clearHistory(v) == ClearList(v, "snapshots")

(* The console's commands: its effect does not save an empty list, so Clear *)
(* is not saved.                                                           *)
addCommand(v, e) == AddEntry(v, "commands", e, LAMBDA l : Newest(<<e>> \o Dropped(l, e)))
clearCommands(v) ==
  /\ kind = "commands" /\ ViewReady(v)
  /\ ShowList(v, <<>>)
  /\ UNCHANGED <<kind, saved, mounting, importing, behind, overwrote>>
  /\ Remember(<<>>, removed \cup Range(copy[v]))

(* Its starred commands.                                                    *)
toggleStar(v, e) ==
  \/ TakeEntry(v, "starred", e)
  \/ OnScreen(v) /\ e \notin Range(copy[v]) /\ AddEntry(v, "starred", e, LAMBDA l : <<e>> \o Dropped(l, e))
clearStarred(v) == ClearList(v, "starred")

(* The searches of the keys browser.                                        *)
addToHistory(v, e) == AddEntry(v, "searches", e, LAMBDA l : Newest(<<e>> \o Dropped(l, e)))
removeFromHistory(v, e) == TakeEntry(v, "searches", e)
clearSearches(v) == ClearList(v, "searches")

(* Its bookmarks.  An import adds a file's names, once the file is read, to *)
(* the bookmarks there were when it was chosen.                             *)
Merged(list, e) == IF e \in Range(list) THEN list ELSE Append(list, e)

toggleFavorite(v, e) ==
  \/ TakeEntry(v, "bookmarks", e)
  \/ OnScreen(v) /\ e \notin Range(copy[v]) /\ AddEntry(v, "bookmarks", e, LAMBDA l : Merged(l, e))

chooseFile(v) ==
  /\ ViewReady(v) /\ kind = "bookmarks" /\ importing[v] = Unseen
  /\ importing' = [importing EXCEPT ![v] = copy[v]]
  /\ UNCHANGED <<kind, saved, copy, mounting, behind, overwrote, wanted, removed>>

importBookmarks(v, e) ==
  /\ OnScreen(v) /\ importing[v] # Unseen
  /\ importing' = [importing EXCEPT ![v] = Unseen]
  /\ ShowList(v, Merged(importing[v], e))
  /\ saved' = Merged(importing[v], e) /\ behind' = OutOfDate(v, saved')
  /\ overwrote' = (overwrote \/ v \in behind \/ importing[v] # copy[v])
  /\ Remember(Merged(wanted, e), removed \ {e})
  /\ UNCHANGED <<kind, mounting>>

ChangeEntry(v, e) ==
  \/ saveSnapshot(v, e) \/ deleteSnapshot(v, e) \/ addCommand(v, e) \/ toggleStar(v, e)
  \/ addToHistory(v, e) \/ removeFromHistory(v, e)
  \/ toggleFavorite(v, e) \/ importBookmarks(v, e)

KeptNext ==
  \E v \in Views :
    \/ OpenView(v) \/ WriteBack(v) \/ CloseView(v) \/ Reread(v) \/ chooseFile(v)
    \/ clearHistory(v) \/ clearCommands(v) \/ clearStarred(v) \/ clearSearches(v)
    \/ \E e \in Entries : ChangeEntry(v, e)

KeptSpec == KeptInit /\ [][KeptNext]_keptPart

-----------------------------------------------------------------------------
(* As long as no view writes a copy that another view has made out of date, *)
(* the newest entries the user added to a list, up to its limit, are in     *)
(* localStorage, and what the user removed is not - except the console's    *)
(* commands, whose Clear is not saved.  Newest among the entries of all     *)
(* databases of the connection, for a list they share: 30 snapshots of one  *)
(* database leave none of another.                                          *)
KeepsWhatWasKept ==
  ~overwrote /\ mounting = {} =>
    /\ Range(wanted) \subseteq Range(saved)
    /\ kind # "commands" => removed \cap Range(saved) = {}
=============================================================================

---------------------------- MODULE MigrationView ----------------------------
(***************************************************************************)
(* The Migration tab (MigrationView): copying the keys a pattern finds to  *)
(* another database, exporting them to the backend's disk and importing    *)
(* the file, and running the commands of a text file.  What the backend    *)
(* does for it is in KeyCopy and DiskTransfer.                             *)
(*                                                                         *)
(* Nothing aborts a request or a file being read: the answer is shown      *)
(* whatever has been chosen meanwhile.  A history flag, crossed, says of a *)
(* request, and then of its answer, that what it went by was changed while *)
(* it was on its way.                                                      *)
(***************************************************************************)
EXTENDS Selection, PartialConnection

CONSTANTS
  Targets,   \* connections of the page
  This,      \* the one whose tab this is
  Patterns,  \* what is typed as a pattern
  Blank,     \* the pattern that is nothing but spaces
  Exports,   \* bound: files the backend can save
  Scripts,   \* files of commands
  Jobs       \* bound: requests that may be on their way at once

ASSUME TargetsAssumption == This \in Targets /\ None \notin Targets
ASSUME BlankAssumption == Blank \in Patterns

VARIABLES
  mode,           \* "ram", "disk" or "import"
  targetId,       \* None: no target selected
  targetDb,
  pattern,
  foundKeys,      \* what the keys listed were found by, or None
  scanning,
  ramResults,     \* the target the result shown is of, or None
  exportInfo,     \* the export shown: its file, and whether it has a key
  diskResults,
  saved,          \* the files on the backend's disk
  importParsed,   \* the file whose commands are listed, None if there is none
  reading,        \* files a FileReader is reading
  importResults,  \* the file of the result shown, or None
  jobs            \* job -> the request on its way, or None

keysPart == <<targetId, targetDb, pattern, foundKeys, scanning, ramResults,
              exportInfo, diskResults, saved>>
commandsPart == <<importParsed, reading, importResults>>
migrationPart == <<mode, keysPart, commandsPart, jobs>>

Search == [pattern : Patterns, db : Databases]
Found == [of : Search, some : BOOLEAN, crossed : BOOLEAN]
ExportShown == [file : Exports, some : BOOLEAN]
Outcome == [of : Targets \cup {None}, crossed : BOOLEAN]  \* None: nothing was reached
RunOutcome == [of : Scripts, crossed : BOOLEAN]

Request ==
  [kind : {"scan", "export"}, of : Search, crossed : BOOLEAN]
  \cup [kind : {"migrate"}, of : Targets, crossed : BOOLEAN]
  \cup [kind : {"import"}, of : Targets, crossed : BOOLEAN, file : Exports]
  \cup [kind : {"run"}, of : Scripts, crossed : BOOLEAN]

MigrationTypeOK ==
  /\ db \in Databases /\ mode \in {"ram", "disk", "import"} /\ scanning \in BOOLEAN
  /\ targetId \in Targets \cup {None} /\ targetDb \in Databases /\ pattern \in Patterns
  /\ foundKeys \in Found \cup {None} /\ exportInfo \in ExportShown \cup {None}
  /\ {ramResults, diskResults} \subseteq Outcome \cup {None}
  /\ saved \subseteq Exports /\ reading \subseteq Scripts
  /\ importParsed \in Scripts \cup {None} /\ importResults \in RunOutcome \cup {None}
  /\ jobs \in [Jobs -> Request \cup {None}]

-----------------------------------------------------------------------------
(* migrating, exporting, importing and importing2 are set while their        *)
(* request is on its way, and only one can be.                               *)
Underway(kind) == \E j \in Jobs : jobs[j] # None /\ jobs[j].kind = kind

Idle(j) == jobs[j] = None
Is(j, kind) == jobs[j] # None /\ jobs[j].kind = kind
Send(j, r) == Idle(j) /\ jobs' = [jobs EXCEPT ![j] = r]
Ends(j) == jobs' = [jobs EXCEPT ![j] = None]

Crossing(kinds) ==
  jobs' = [j \in Jobs |-> IF jobs[j] # None /\ jobs[j].kind \in kinds
                          THEN [jobs[j] EXCEPT !.crossed = TRUE] ELSE jobs[j]]
Crossed(r) == IF r = None THEN None ELSE [r EXCEPT !.crossed = TRUE]

isSameConnAndDb == targetId = This /\ targetDb = db
resetResults == ramResults' = None /\ diskResults' = None

MigrationInit ==
  /\ db \in Databases /\ mode = "ram" /\ targetId = None /\ targetDb \in Databases
  /\ pattern \in Patterns \ {Blank} /\ foundKeys = None /\ scanning = FALSE
  /\ ramResults = None /\ exportInfo = None /\ diskResults = None /\ saved = {}
  /\ importParsed = None /\ reading = {} /\ importResults = None
  /\ jobs = [j \in Jobs |-> None]

(* The loading of the list of saved exports, which it starts, is left out:  *)
(* nothing is imported from that list.                                      *)
switchMode(m) ==
  /\ mode' = m
  /\ foundKeys' = None /\ exportInfo' = None /\ importParsed' = None /\ importResults' = None
  /\ resetResults
  /\ Crossing({"run"})
  /\ UNCHANGED <<db, targetId, targetDb, pattern, scanning, saved, reading>>

-----------------------------------------------------------------------------
(* Keys: from which database, by which pattern, to where.                   *)

(* The database stored with the target is selected with it.                 *)
SelectTarget(t) ==
  /\ mode # "import" /\ t # targetId
  /\ targetId' = t /\ targetDb' \in Databases
  /\ foundKeys' = None /\ resetResults
  /\ Crossing({"migrate", "import"})
  /\ UNCHANGED <<db, mode, pattern, scanning, exportInfo, saved, commandsPart>>

SelectTargetDb(d) ==
  /\ mode # "import" /\ targetId # None
  /\ targetDb' = d
  /\ UNCHANGED <<db, mode, targetId, pattern, foundKeys, scanning, ramResults,
                 exportInfo, diskResults, saved, commandsPart, jobs>>

patternDisabled == Underway("migrate") \/ Underway("import") \/ Underway("export")

TypePattern_KeepsTheKeys(p) ==
  /\ mode # "import" /\ ~patternDisabled /\ p # pattern
  /\ pattern' = p
  /\ resetResults
  /\ Crossing({"scan"})
  /\ UNCHANGED <<db, mode, targetId, targetDb, foundKeys, scanning, exportInfo, saved,
                 commandsPart>>

TypePattern(p) ==
  /\ mode # "import" /\ ~patternDisabled /\ p # pattern
  /\ pattern' = p
  /\ foundKeys' = None /\ resetResults
  /\ Crossing({"scan"})
  /\ UNCHANGED <<db, mode, targetId, targetDb, scanning, exportInfo, saved, commandsPart>>

(* Elsewhere on the page.  What was found in the other database stays, and  *)
(* the keys of these names will be copied from this one.                    *)
SwitchDb(d) ==
  /\ changeDb(d) /\ d # db
  /\ foundKeys' = Crossed(foundKeys)
  /\ Crossing({"scan"})
  /\ UNCHANGED <<mode, targetId, targetDb, pattern, scanning, ramResults, exportInfo,
                 diskResults, saved, commandsPart>>

(* By the button, or by Enter, which asks again while an answer is awaited. *)
handleScan(j) ==
  /\ mode = "ram" /\ pattern # Blank
  /\ ~patternDisabled \/ (~scanning /\ ~Underway("migrate"))
  /\ Send(j, [kind |-> "scan", of |-> [pattern |-> pattern, db |-> db], crossed |-> FALSE])
  /\ scanning' = TRUE /\ foundKeys' = None /\ ramResults' = None
  /\ UNCHANGED <<db, mode, targetId, targetDb, pattern, exportInfo, diskResults, saved,
                 commandsPart>>

ScanAnswered(j) ==
  /\ Is(j, "scan") /\ Ends(j)
  /\ scanning' = FALSE
  /\ \E some \in BOOLEAN :
       foundKeys' = [of |-> jobs[j].of, some |-> some, crossed |-> jobs[j].crossed]
  /\ UNCHANGED <<db, mode, targetId, targetDb, pattern, ramResults, exportInfo, diskResults,
                 saved, commandsPart>>

ScanFailed(j) ==
  /\ Is(j, "scan") /\ Ends(j)
  /\ scanning' = FALSE
  /\ UNCHANGED <<db, mode, targetId, targetDb, pattern, foundKeys, ramResults, exportInfo,
                 diskResults, saved, commandsPart>>

handleRamMigrate(j) ==
  /\ mode = "ram" /\ ~Underway("migrate")
  /\ targetId # None /\ ~isSameConnAndDb
  /\ foundKeys # None /\ foundKeys.some
  /\ Send(j, [kind |-> "migrate", of |-> targetId, crossed |-> FALSE])
  /\ ramResults' = None
  /\ UNCHANGED <<db, mode, targetId, targetDb, pattern, foundKeys, scanning, exportInfo,
                 diskResults, saved, commandsPart>>

(* A target is sent in part (PartialConnection).                            *)
TargetReached(t) == Reached(t, t, Targets)

(* A failure is shown as a result too.                                      *)
Migrated(j) ==
  /\ Is(j, "migrate") /\ Ends(j)
  /\ \E t \in TargetReached(jobs[j].of) : ramResults' = [of |-> t, crossed |-> jobs[j].crossed]
  /\ UNCHANGED <<db, mode, targetId, targetDb, pattern, foundKeys, scanning, exportInfo,
                 diskResults, saved, commandsPart>>

-----------------------------------------------------------------------------
(* Files of exports.                                                        *)

handleExport(j) ==
  /\ mode = "disk" /\ pattern # Blank
  /\ ~Underway("export") /\ ~Underway("import")
  /\ Send(j, [kind |-> "export", of |-> [pattern |-> pattern, db |-> db], crossed |-> FALSE])
  /\ exportInfo' = None /\ diskResults' = None
  /\ UNCHANGED <<db, mode, targetId, targetDb, pattern, foundKeys, scanning, ramResults,
                 saved, commandsPart>>

(* In whatever mode the tab is now.                                         *)
Exported(j) ==
  /\ Is(j, "export") /\ Ends(j)
  /\ \E f \in Exports \ saved, some \in BOOLEAN :
       saved' = saved \cup {f} /\ exportInfo' = [file |-> f, some |-> some]
  /\ UNCHANGED <<db, mode, targetId, targetDb, pattern, foundKeys, scanning, ramResults,
                 diskResults, commandsPart>>

ExportFailed(j) ==
  /\ Is(j, "export") /\ Ends(j)
  /\ UNCHANGED <<db, mode, keysPart, commandsPart>>

(* From the list of saved exports, on this page or on another.  The export  *)
(* shown stays, also if it is this one.                                     *)
handleDeleteExport(f) ==
  /\ f \in saved /\ saved' = saved \ {f}
  /\ UNCHANGED <<db, mode, targetId, targetDb, pattern, foundKeys, scanning, ramResults,
                 exportInfo, diskResults, commandsPart, jobs>>

handleDiskImport(j) ==
  /\ mode = "disk" /\ ~Underway("import")
  /\ targetId # None /\ ~isSameConnAndDb
  /\ exportInfo # None /\ exportInfo.some
  /\ Send(j, [kind |-> "import", of |-> targetId, crossed |-> FALSE, file |-> exportInfo.file])
  /\ diskResults' = None
  /\ UNCHANGED <<db, mode, targetId, targetDb, pattern, foundKeys, scanning, ramResults,
                 exportInfo, saved, commandsPart>>

Imported(j) ==
  /\ Is(j, "import") /\ jobs[j].file \in saved /\ Ends(j)
  /\ \E t \in TargetReached(jobs[j].of) \ {None} :
       diskResults' = [of |-> t, crossed |-> jobs[j].crossed]
  /\ UNCHANGED <<db, mode, targetId, targetDb, pattern, foundKeys, scanning, ramResults,
                 exportInfo, saved, commandsPart>>

(* As it does when the file is gone.                                        *)
ImportFailed(j) ==
  /\ Is(j, "import") /\ Ends(j)
  /\ UNCHANGED <<db, mode, keysPart, commandsPart>>

KeysNext ==
  \/ \E m \in {"ram", "disk", "import"} : switchMode(m)
  \/ \E t \in Targets \cup {None} : SelectTarget(t)
  \/ \E d \in Databases : SelectTargetDb(d) \/ SwitchDb(d)
  \/ \E p \in Patterns : TypePattern(p)
  \/ \E f \in Exports : handleDeleteExport(f)
  \/ \E j \in Jobs :
       \/ handleScan(j) \/ ScanAnswered(j) \/ ScanFailed(j)
       \/ handleRamMigrate(j) \/ Migrated(j)
       \/ handleExport(j) \/ Exported(j) \/ ExportFailed(j)
       \/ handleDiskImport(j) \/ Imported(j) \/ ImportFailed(j)

-----------------------------------------------------------------------------
(* Files of commands.                                                       *)

handleImportFileChange(s) ==
  /\ mode = "import" /\ ~Underway("run")
  /\ importParsed' = None /\ importResults' = None
  /\ reading' = reading \cup ({s} \ {None})
  /\ UNCHANGED <<db, mode, keysPart, jobs>>

(* Two files chosen one after the other may be read in either order, and    *)
(* one may be read while the commands of the other are run.                 *)
ReaderLoaded(s) ==
  /\ s \in reading /\ reading' = reading \ {s}
  /\ \E lines \in {s, None} : importParsed' = lines
  /\ importResults' = Crossed(importResults)
  /\ Crossing({"run"})
  /\ UNCHANGED <<db, mode, keysPart>>

handleRunImport(j) ==
  /\ mode = "import" /\ importParsed # None /\ ~Underway("run")
  /\ Send(j, [kind |-> "run", of |-> importParsed, crossed |-> FALSE])
  /\ importResults' = None
  /\ UNCHANGED <<db, mode, keysPart, importParsed, reading>>

RunAnswered(j) ==
  /\ Is(j, "run") /\ Ends(j)
  /\ importResults' = [of |-> jobs[j].of, crossed |-> jobs[j].crossed]
  /\ UNCHANGED <<db, mode, keysPart, importParsed, reading>>

RunFailed(j) ==
  /\ Is(j, "run") /\ Ends(j)
  /\ UNCHANGED <<db, mode, keysPart, commandsPart>>

CommandsNext ==
  \/ \E m \in {"ram", "import"} : switchMode(m)
  \/ \E s \in Scripts \cup {None} : handleImportFileChange(s)
  \/ \E s \in Scripts : ReaderLoaded(s)
  \/ \E j \in Jobs : handleRunImport(j) \/ RunAnswered(j) \/ RunFailed(j)

MigrationSpec == MigrationInit /\ [][KeysNext \/ CommandsNext]_<<db, migrationPart>>

-----------------------------------------------------------------------------
(* The keys the tab offers to copy are those of the pattern and of the      *)
(* database it shows, a result is of the target or of the commands it is    *)
(* shown with, and the pattern shown is that of the export on its way.  The *)
(* exceptions are known: the search, the copy, the import or the run was on *)
(* its way when its pattern, database, target or commands were replaced,    *)
(* the database was switched under the keys found, or the part of the       *)
(* target that is sent does not tell it, and leads to another one.          *)
ShowsWhatItMigrates ==
  /\ foundKeys # None => foundKeys.crossed \/ foundKeys.of = [pattern |-> pattern, db |-> db]
  /\ \A r \in {ramResults, diskResults} :
       r # None => r.crossed \/ (targetId # None /\ IsNamed(targetId, targetId, r.of))
  /\ importResults # None => importResults.crossed \/ importResults.of = importParsed
  /\ \A j \in Jobs : Is(j, "export") => jobs[j].of.pattern = pattern
=============================================================================

---------------------------- MODULE DiskTransfer ----------------------------
(***************************************************************************)
(* Export to disk and import from disk: RedisService.exportToDisk,         *)
(* importFromDisk and deleteExport, as the Migration tab uses them.        *)
(*                                                                         *)
(* An export scans the database, reads each key in three commands and      *)
(* writes one JSON file; it has a result only if everything worked.  An    *)
(* import reads the file and writes it key by key into some database; a    *)
(* key that fails is reported and the next one is tried.  Each Redis       *)
(* command is one action, between two of which other clients write and     *)
(* keys expire.  A command may fail with or without having been executed,  *)
(* and the backend may end in the middle.                                  *)
(***************************************************************************)
EXTENDS RedisEntries, Sequences

CONSTANTS
  Keys,          \* keys of the two databases
  KeyLists,      \* what SCAN may return: a key may come twice
  Infinite,      \* members of sorted sets whose score is infinite
  Entries,       \* entries the source may hold, or be given by others
  TargetEntries, \* the same for the target
  MaxMeddling    \* bound: steps of other clients and of time

ASSUME KeysAssumption == None \notin Keys
ASSUME BoundAssumption == MaxMeddling \in Nat
ASSUME ListsAssumption == KeyLists \subseteq Seq(Keys)
ASSUME InfiniteAssumption ==
  Infinite \subseteq Elems /\ \A x \in Elems : Decode[x] \in Infinite <=> x \in Infinite
ASSUME EntriesAssumption ==
  /\ Entries \subseteq Entry /\ TargetEntries \subseteq Entry
  /\ \A e \in Entries \cup TargetEntries : Possible(e)

VARIABLES
  source,     \* the exported database: key -> entry or None
  target,     \* the database imported into
  pc,         \* the next command of the export or import
  names,      \* export: keys still to be read, the current one first
  type,       \* export: the type TYPE answered
  ttl,        \* export: TTL answered a positive number
  snapshot,   \* export: the entries read so far
  file,       \* the export's file: its entries, or None
  replace,    \* import: the request's replace flag
  todo,       \* import: entries still to come, the current one first
  value,      \* import: what is left to write of the current value
  succeeded, skipped, failed,  \* import: the lists of the result, as sets
  before,     \* history: both databases when the export and the import began
  meddled,    \* history: keys others, or time, changed during them
  meddling,   \* history: how many such steps there were
  broken      \* history: a command of the import failed

dbs      == <<source, target>>
export   == <<names, type, ttl, snapshot>>
import   == <<replace, todo, value>>
result   == <<succeeded, skipped, failed>>
others   == <<meddled, meddling>>
vars     == <<dbs, pc, export, file, import, result, before, others, broken>>

(* An entry of the file.  The value is what the read returned, None for a   *)
(* key that had gone: null, or nothing to write.                            *)
FileEntry ==
  [key : Keys, type : Types, ttl : BOOLEAN, value : Entry \cup {None}]

ExportSteps == {"type", "ttl", "value", "save"}
ImportSteps == {"check", "clear", "write", "expire"}

Database == [Keys -> Entry \cup {None}]

DbsOK ==
  /\ source \in Database /\ target \in Database
  /\ before \in [source : Database, target : Database]

ExportOK ==
  /\ names \in Seq(Keys) /\ (pc \in {"type", "ttl", "value"} => names # <<>>)
  /\ type \in Types \cup {None} /\ (pc \in {"ttl", "value"} => type # None)
  /\ ttl \in BOOLEAN
  /\ snapshot \in Seq(FileEntry)
  /\ file \in Seq(FileEntry) \cup {None}

ImportOK ==
  /\ todo \in Seq(FileEntry) /\ (pc \in ImportSteps => todo # <<>>)
  /\ value \in Entry \cup {None}
  /\ succeeded \subseteq Keys /\ skipped \subseteq Keys /\ failed \subseteq Keys

RestOK ==
  /\ pc \in ExportSteps \cup ImportSteps \cup {"idle", "ready", "done", "aborted"}
  /\ replace \in BOOLEAN /\ broken \in BOOLEAN
  /\ meddled \in [source : SUBSET Keys, target : SUBSET Keys]
  /\ meddling \in 0 .. MaxMeddling

TypeOK == DbsOK /\ ExportOK /\ ImportOK /\ RestOK

Init ==
  /\ source \in [Keys -> Entries \cup {None}]
  /\ target \in [Keys -> TargetEntries \cup {None}]
  /\ pc = "idle"
  /\ names = <<>> /\ type = None /\ ttl = FALSE /\ snapshot = <<>>
  /\ file = None
  /\ replace = FALSE /\ todo = <<>> /\ value = None
  /\ succeeded = {} /\ skipped = {} /\ failed = {}
  /\ before = [source |-> source, target |-> target]
  /\ meddled = [source |-> {}, target |-> {}] /\ meddling = 0
  /\ broken = FALSE

-----------------------------------------------------------------------------
(* exportToDisk.                                                            *)

Existing == {k \in Keys : source[k] # None}
Listed(ks) == {ks[i] : i \in 1 .. Len(ks)}

(* The SCAN loop: every key that is there all the time, some perhaps twice. *)
exportToDisk(ks) ==
  /\ pc = "idle" /\ Listed(ks) = Existing
  /\ names' = ks /\ snapshot' = <<>>
  /\ pc' = IF ks = <<>> THEN "save" ELSE "type"
  /\ before' = [before EXCEPT !.source = source]
  /\ meddled' = [meddled EXCEPT !.source = {}]
  /\ UNCHANGED <<dbs, type, ttl, file, import, result, meddling, broken>>

NextName ==
  /\ names' = Tail(names)
  /\ pc' = IF Tail(names) = <<>> THEN "save" ELSE "type"
  /\ type' = None /\ ttl' = FALSE

Reading == UNCHANGED <<dbs, file, import, result, before, others, broken>>

(* A key that has gone is left out.                                         *)
ReadType ==
  /\ pc = "type"
  /\ LET e == source[Head(names)] IN
     \/ e = None /\ NextName
     \/ e # None /\ type' = e.type /\ pc' = "ttl" /\ UNCHANGED <<names, ttl>>
  /\ UNCHANGED snapshot /\ Reading

ReadTtl ==
  /\ pc = "ttl"
  /\ LET e == source[Head(names)] IN ttl' = (e # None /\ e.expiry = "later")
  /\ pc' = "value"
  /\ UNCHANGED <<names, type, snapshot>> /\ Reading

readValue_ForgetsTheTtl ==
  /\ pc = "value"
  /\ LET e == source[Head(names)] IN
     /\ e # None /\ type # "module" => e.type = type
     /\ snapshot' = Append(snapshot,
          [key |-> Head(names), type |-> type, ttl |-> FALSE,
           value |-> IF e = None \/ type = "module" THEN e ELSE Decoded(e)])
  /\ NextName /\ Reading

(* readValue, by the type TYPE answered (DUMP for those it has no case for). *)
readValue ==
  /\ pc = "value"
  /\ LET e == source[Head(names)] IN
     /\ e # None /\ type # "module" => e.type = type
     /\ snapshot' = Append(snapshot,
          [key |-> Head(names), type |-> type, ttl |-> ttl,
           value |-> IF e = None \/ type = "module" THEN e ELSE Decoded(e)])
  /\ NextName /\ Reading

(* The file is written and the view learns its id.                          *)
SaveFile ==
  /\ pc = "save" /\ pc' = "ready"
  /\ file' = snapshot /\ snapshot' = <<>>
  /\ UNCHANGED <<dbs, names, type, ttl, import, result, before, others, broken>>

(* A command fails, answers WRONGTYPE to a key that changed its type, or    *)
(* the file cannot be written: the whole export fails.                      *)
ExportFails ==
  /\ pc \in ExportSteps /\ pc' = "idle"
  /\ names' = <<>> /\ type' = None /\ ttl' = FALSE /\ snapshot' = <<>>
  /\ Reading

(* deleteExport, by this page or another.                                   *)
deleteExport ==
  /\ file # None /\ file' = None
  /\ UNCHANGED <<dbs, pc, export, import, result, before, others, broken>>

-----------------------------------------------------------------------------
(* importFromDisk.                                                          *)

current == Head(todo)

(* The file is read as a whole before anything else; without it the request *)
(* fails and nothing has happened.                                          *)
importFromDisk(r) ==
  /\ pc = "ready" /\ file # None
  /\ replace' = r /\ todo' = file
  /\ pc' = IF file = <<>> THEN "done" ELSE "check"
  /\ before' = [before EXCEPT !.target = target]
  /\ meddled' = [meddled EXCEPT !.target = {}]
  /\ UNCHANGED <<dbs, export, file, value, result, meddling, broken>>

NextEntry_NeverDone ==
  /\ todo' = Tail(todo) /\ value' = None
  /\ pc' = "check"

NextEntry ==
  /\ todo' = Tail(todo) /\ value' = None
  /\ pc' = IF Tail(todo) = <<>> THEN "done" ELSE "check"

Succeed == NextEntry /\ succeeded' = succeeded \cup {current.key} /\ UNCHANGED <<skipped, failed>>
Skip    == NextEntry /\ skipped' = skipped \cup {current.key} /\ UNCHANGED <<succeeded, failed>>
Fail    == NextEntry /\ failed' = failed \cup {current.key} /\ UNCHANGED <<succeeded, skipped>>
Go(p)   == pc' = p /\ UNCHANGED <<todo, result>>

(* The command at hand goes on, or is executed and its answer never comes.  *)
Answered(Going) ==
  \/ Going /\ UNCHANGED broken
  \/ Fail /\ broken' = TRUE

Importing == UNCHANGED <<source, export, file, replace, before, others>>

(* Without replace, TYPE of the target: a key that exists is skipped.       *)
CheckTarget ==
  /\ pc = "check"
  /\ IF ~replace /\ target[current.key] # None
     THEN Skip
     ELSE Go("clear") /\ UNCHANGED value
  /\ UNCHANGED <<target, broken>> /\ Importing

ClearTarget_LeavesIt ==
  /\ pc = "clear" /\ UNCHANGED target
  /\ Answered(Go("write") /\ value' = current.value)
  /\ Importing

ClearTarget_AllOfThem ==
  /\ pc = "clear"
  /\ target' = [k \in Keys |-> IF replace THEN None ELSE target[k]]
  /\ Answered(Go("write") /\ value' = current.value)
  /\ Importing

(* DEL, whatever replace says.                                              *)
ClearTarget ==
  /\ pc = "clear"
  /\ target' = [target EXCEPT ![current.key] = None]
  /\ Answered(Go("write") /\ value' = current.value)
  /\ Importing

Put(e) == target' = [target EXCEPT ![current.key] = e]
Written == Answered(Go("expire") /\ UNCHANGED value)
Left == IF value = None THEN {} ELSE value.content

(* writeValue: SET.  What it does with a null value is the client library's *)
(* business: it throws, or an empty string is written.                      *)
WriteString ==
  /\ pc = "write" /\ current.type = "string"
  /\ \/ /\ Put([type |-> "string", content |-> Left, expiry |-> "never"])
        /\ Written
     \/ value = None /\ Fail /\ UNCHANGED <<target, broken>>
  /\ Importing

(* RESTORE with no TTL and REPLACE; nothing at all for a null value, which  *)
(* is not a wrapped payload and of a type that has no case.                 *)
WriteModule ==
  /\ pc = "write" /\ current.type = "module"
  /\ IF value = None
     THEN Go("expire") /\ UNCHANGED <<target, value, broken>>
     ELSE Put([value EXCEPT !.expiry = "never"]) /\ Written
  /\ Importing

(* HSET, RPUSH or SADD of all elements at once; none for no elements.       *)
WriteCollection ==
  /\ pc = "write" /\ current.type = "collection"
  /\ LET e == target[current.key] IN
     \/ /\ value = None
        /\ Go("expire") /\ UNCHANGED <<target, value, broken>>
     \/ /\ value # None /\ Takes(e, "collection")
        /\ Put(Added(e, "collection", value.content)) /\ Written
     \/ /\ value # None /\ ~Takes(e, "collection")
        /\ Fail /\ UNCHANGED <<target, broken>>
  /\ Importing

(* A score or an id that the server or the cast will not take.              *)
Refused(x) ==
  \/ ~Takes(target[current.key], current.type)
  \/ current.type = "zset" /\ x \in Infinite
  \/ current.type = "stream" /\ ~Above(x, target[current.key])

(* ZADD or XADD element by element, in the order of the file.  An infinite  *)
(* score is the string "Infinity" in JSON, which is no Number.              *)
WriteOneByOne ==
  /\ pc = "write" /\ current.type \in {"zset", "stream"}
  /\ \/ /\ Left = {}
        /\ Go("expire") /\ UNCHANGED <<target, value, broken>>
     \/ /\ Left # {}
        /\ \E x \in Left :
           /\ Lowest(x, Left)
           /\ IF Refused(x)
              THEN Fail /\ UNCHANGED <<target, broken>>
              ELSE /\ Put(Added(target[current.key], current.type, {x}))
                   /\ Answered(Go("write") /\ value' = [value EXCEPT !.content = @ \ {x}])
  /\ Importing

ExpireTarget_OfTheNextKey ==
  /\ pc = "expire"
  /\ IF current.ttl /\ Len(todo) > 1 /\ target[todo[2].key] # None
     THEN target' = [target EXCEPT ![todo[2].key].expiry = "later"]
     ELSE UNCHANGED target
  /\ Answered(Succeed)
  /\ Importing

(* EXPIRE for a positive TTL; nothing for a missing key.                    *)
ExpireTarget ==
  /\ pc = "expire"
  /\ IF current.ttl /\ target[current.key] # None
     THEN Put([target[current.key] EXCEPT !.expiry = "later"])
     ELSE UNCHANGED target
  /\ IF current.ttl THEN Answered(Succeed) ELSE Succeed /\ UNCHANGED broken
  /\ Importing

(* A command that is not executed.  Without replace TYPE is the first, with *)
(* replace nothing is asked.                                                *)
CommandFails ==
  /\ pc \in ImportSteps /\ (pc = "check" => ~replace) /\ (pc = "expire" => current.ttl)
  /\ Fail /\ broken' = TRUE
  /\ UNCHANGED target /\ Importing

(* The backend ends: the request has no result.                             *)
BackendStops ==
  /\ pc \in ImportSteps /\ pc' = "aborted"
  /\ UNCHANGED <<dbs, export, file, import, result, before, others, broken>>

Export ==
  \/ \E ks \in KeyLists : exportToDisk(ks)
  \/ ReadType \/ ReadTtl \/ readValue \/ SaveFile \/ ExportFails

Import ==
  \/ \E r \in BOOLEAN : importFromDisk(r)
  \/ CheckTarget \/ ClearTarget
  \/ WriteString \/ WriteModule \/ WriteCollection \/ WriteOneByOne
  \/ ExpireTarget \/ CommandFails \/ BackendStops

-----------------------------------------------------------------------------
(* The other clients of the two databases, and time.  The source matters    *)
(* during the export only and the target during the import.                 *)

Meddle ==
  /\ meddling < MaxMeddling /\ meddling' = meddling + 1
  /\ UNCHANGED <<pc, export, file, import, result, before, broken>>

OthersAtSource(k) ==
  /\ pc \in ExportSteps /\ Meddle
  /\ \/ \E e \in Entries \cup {None} : source' = [source EXCEPT ![k] = e]
     \/ /\ source[k] # None /\ source[k].expiry # "never"
        /\ source' = [source EXCEPT ![k] = Later(@)]
  /\ meddled' = [meddled EXCEPT !.source = @ \cup {k}]
  /\ UNCHANGED target

OthersAtTarget(k) ==
  /\ pc \in ImportSteps /\ Meddle
  /\ \/ \E e \in TargetEntries \cup {None} : target' = [target EXCEPT ![k] = e]
     \/ /\ target[k] # None /\ target[k].expiry # "never"
        /\ target' = [target EXCEPT ![k] = Later(@)]
  /\ meddled' = [meddled EXCEPT !.target = @ \cup {k}]
  /\ UNCHANGED source

Next ==
  \/ Export \/ deleteExport \/ Import
  \/ \E k \in Keys : OthersAtSource(k) \/ OthersAtTarget(k)

Spec == Init /\ [][Next]_vars

-----------------------------------------------------------------------------
(* Properties.                                                              *)

InFile(k) == {file[i] : i \in {j \in 1 .. Len(file) : file[j].key = k}}

AsExported(k, e) ==
  [key |-> k, type |-> e.type, ttl |-> e.expiry = "later",
   value |-> IF e.type = "module" THEN e ELSE Decoded(e)]

(* "A portable snapshot of a key set": the file has exactly one value, the  *)
(* one of the database, for each key that nobody changed during the export. *)
SnapshotIsTrue ==
  file # None => \A k \in Keys \ meddled.source :
    InFile(k) = IF before.source[k] = None THEN {}
                ELSE {AsExported(k, before.source[k])}

Untouched == Keys \ (meddled.source \cup meddled.target)
Remaining == {todo[i].key : i \in 1 .. Len(todo)}

(* Export and import together: of the keys nobody else touched, those that  *)
(* are reported as imported are in the target as a copy would have left     *)
(* them, with their expiry (or are missing, if they are streams without     *)
(* entries), and those skipped are as they were.                            *)
RoundTrip ==
  \A k \in Untouched \ Remaining :
    /\ k \in succeeded \ failed =>
         /\ before.source[k] # None
         /\ target[k] = IF EmptyStream(before.source[k]) THEN None
                        ELSE Arrived(before.source[k])
    /\ k \in skipped \ (succeeded \cup failed) =>
         ~replace /\ target[k] # None /\ target[k] = before.target[k]

(* An import changes or loses a key of the target only if it says so, as    *)
(* imported or as failed, whatever fails and even if the backend ends in    *)
(* the middle: then the key at hand is the only exception.                  *)
OnlyReportedKeysChange ==
  pc \in ImportSteps \cup {"done", "aborted"} =>
    \A k \in Keys \ meddled.target :
      target[k] # before.target[k] =>
        \/ k \in succeeded \cup failed
        \/ pc \in ImportSteps \cup {"aborted"} /\ k = current.key

(* "Now handle every key type": if every command of the import works, the   *)
(* keys nobody else touched are imported or skipped, except sorted sets     *)
(* with an infinite score.                                                  *)
OnlyInfinityFails ==
  ~broken => \A k \in failed \cap Untouched :
    before.source[k].type = "zset" /\ before.source[k].content \cap Infinite # {}
=============================================================================

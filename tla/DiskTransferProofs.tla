------------------------- MODULE DiskTransferProofs -------------------------
(***************************************************************************)
(* Proofs about DiskTransfer, for any keys, entries, lists and failures:   *)
(* its type invariant; that an import changes no key of its target without *)
(* saying so; that the file of an export is what the database held, and    *)
(* what is reported as imported is what a copy would have left; and about  *)
(* the tab that asks for exports and imports: it goes by what it shows.    *)
(***************************************************************************)
EXTENDS DiskTransfer, MigrationView, TLAPS

-----------------------------------------------------------------------------
(* What the operators of RedisEntries return.                               *)

LEMMA AddedType ==
  ASSUME NEW e \in Entry \cup {None}, NEW t \in Types, NEW S \in SUBSET Elems
  PROVE  Added(e, t, S) \in Entry
<1>1. CASE e = None
  BY <1>1 DEF Added, Entry, Expiries
<1>2. CASE e # None
  <2>1. e \in Entry
    BY <1>2
  <2> QED BY <1>2, <2>1 DEF Added, Entry
<1> QED BY <1>1, <1>2

LEMMA DecodedType ==
  ASSUME NEW e \in Entry
  PROVE  Decoded(e) \in Entry
<1>1. {Decode[x] : x \in e.content} \in SUBSET Elems
  BY DecodeAssumption DEF Entry
<1> QED BY <1>1 DEF Decoded, Entry

LEMMA LaterType ==
  ASSUME NEW e \in Entry
  PROVE  Later(e) \in Entry \cup {None}
BY DEF Later, Entry, Expiries

LEMMA ExpiringType ==
  ASSUME NEW e \in Entry, NEW x \in Expiries
  PROVE  [e EXCEPT !.expiry = x] \in Entry
BY DEF Entry

LEMMA RestType ==
  ASSUME NEW e \in Entry, NEW x
  PROVE  [e EXCEPT !.content = @ \ {x}] \in Entry
BY DEF Entry

-----------------------------------------------------------------------------
(* The parts of the type invariant, step by step.                           *)

LEMMA PutType ==
  ASSUME DbsOK, NEW e \in Entry \cup {None}, Put(e), UNCHANGED <<source, before>>
  PROVE  DbsOK'
BY DEF DbsOK, Put, Database

LEMMA SameDbs == ASSUME DbsOK, UNCHANGED <<dbs, before>> PROVE DbsOK'
BY DEF DbsOK, dbs

(* The file's entry at hand.                                                *)
LEMMA CurrentType ==
  ASSUME ImportOK, pc \in ImportSteps
  PROVE  /\ current \in FileEntry
         /\ current.key \in Keys /\ current.type \in Types
         /\ current.ttl \in BOOLEAN /\ current.value \in Entry \cup {None}
         /\ Tail(todo) \in Seq(FileEntry)
<1>1. todo \in Seq(FileEntry) /\ todo # <<>>
  BY DEF ImportOK
<1>2. current \in FileEntry /\ Tail(todo) \in Seq(FileEntry)
  BY <1>1 DEF current
<1> QED BY <1>2 DEF FileEntry

(* A key's outcome leaves the import typed.                                 *)
LEMMA OutcomeType ==
  ASSUME ImportOK, pc \in ImportSteps, Succeed \/ Skip \/ Fail
  PROVE  ImportOK' /\ pc' \in {"check", "done"}
<1>1. current.key \in Keys /\ Tail(todo) \in Seq(FileEntry)
  BY CurrentType
<1>2. /\ todo' = Tail(todo) /\ value' = None
      /\ pc' = IF Tail(todo) = <<>> THEN "done" ELSE "check"
  BY DEF Succeed, Skip, Fail, NextEntry
<1>3. succeeded' \subseteq Keys /\ skipped' \subseteq Keys /\ failed' \subseteq Keys
  BY <1>1 DEF Succeed, Skip, Fail, ImportOK
<1>4. pc' \in {"check", "done"}
  BY <1>2
<1>5. pc' \in ImportSteps => todo' # <<>>
  BY <1>2 DEF ImportSteps
<1> QED BY <1>1, <1>2, <1>3, <1>4, <1>5 DEF ImportOK

LEMMA GoType ==
  ASSUME ImportOK, pc \in ImportSteps, UNCHANGED <<todo, result>>, value' \in Entry \cup {None}
  PROVE  ImportOK'
BY DEF ImportOK, result

(* The steps of an import leave the rest alone.                             *)
LEMMA ImportingType ==
  ASSUME ExportOK, RestOK, pc \in ImportSteps, Importing,
         pc' \in ImportSteps \cup {"done"}, broken' \in BOOLEAN
  PROVE  ExportOK' /\ RestOK'
<1>1. pc' \notin {"type", "ttl", "value"}
  BY DEF ImportSteps
<1>2. ExportOK'
  BY <1>1 DEF ExportOK, Importing, export
<1>3. pc' \in ExportSteps \cup ImportSteps \cup {"idle", "ready", "done", "aborted"}
  OBVIOUS
<1>4. RestOK'
  BY <1>3 DEF RestOK, Importing, others
<1> QED BY <1>2, <1>4

(* One step of an import: a write or none, and then on to p or an outcome.  *)
ImportStep ==
  /\ pc \in ImportSteps
  /\ \/ \E e \in Entry \cup {None} : Put(e)
     \/ UNCHANGED target
  /\ \/ /\ UNCHANGED <<todo, result>> /\ value' \in Entry \cup {None}
        /\ pc' \in ImportSteps
     \/ Succeed \/ Skip \/ Fail
  /\ broken' \in BOOLEAN
  /\ Importing

LEMMA ImportStepType == TypeOK /\ ImportStep => TypeOK'
<1> SUFFICES ASSUME TypeOK, ImportStep PROVE TypeOK'
  OBVIOUS
<1> USE DEF TypeOK
<1>1. pc \in ImportSteps /\ Importing /\ broken' \in BOOLEAN
  BY DEF ImportStep
<1>2. DbsOK'
  <2>1. CASE \E e \in Entry \cup {None} : Put(e)
    BY <1>1, <2>1, PutType DEF Importing
  <2>2. CASE UNCHANGED target
    BY <1>1, <2>2, SameDbs DEF Importing, dbs
  <2> QED BY <2>1, <2>2 DEF ImportStep
<1>3. ImportOK' /\ pc' \in ImportSteps \cup {"done"}
  <2>1. CASE Succeed \/ Skip \/ Fail
    BY <1>1, <2>1, OutcomeType DEF ImportSteps
  <2>2. CASE /\ UNCHANGED <<todo, result>> /\ value' \in Entry \cup {None}
             /\ pc' \in ImportSteps
    BY <1>1, <2>2, GoType
  <2> QED BY <2>1, <2>2 DEF ImportStep
<1>4. ExportOK' /\ RestOK'
  BY <1>1, <1>3, ImportingType
<1> QED BY <1>2, <1>3, <1>4

-----------------------------------------------------------------------------
(* Each action of an import is such a step.                                 *)

LEMMA PutStep ==
  ASSUME TypeOK, pc \in ImportSteps, Importing,
         NEW e \in Entry \cup {None}, Put(e),
         NEW p \in ImportSteps, NEW v \in Entry \cup {None},
         Answered(Go(p) /\ value' = v) \/ Answered(Succeed)
  PROVE  ImportStep
<1>1. broken' \in BOOLEAN
  BY DEF Answered, TypeOK, RestOK
<1>2. \/ UNCHANGED <<todo, result>> /\ value' \in Entry \cup {None} /\ pc' \in ImportSteps
      \/ Succeed \/ Skip \/ Fail
  BY DEF Answered, Go
<1> QED BY <1>1, <1>2 DEF ImportStep

LEMMA QuietStep ==
  ASSUME TypeOK, pc \in ImportSteps, Importing, UNCHANGED target, broken' \in BOOLEAN,
         NEW p \in ImportSteps,
         (Go(p) /\ UNCHANGED value) \/ Skip \/ Succeed \/ Fail
  PROVE  ImportStep
<1>1. value \in Entry \cup {None}
  BY DEF TypeOK, ImportOK
<1>2. \/ UNCHANGED <<todo, result>> /\ value' \in Entry \cup {None} /\ pc' \in ImportSteps
      \/ Succeed \/ Skip \/ Fail
  BY <1>1 DEF Go
<1> QED BY <1>2 DEF ImportStep

Writing == CheckTarget \/ ClearTarget \/ WriteString \/ WriteModule \/ WriteCollection
           \/ WriteOneByOne \/ ExpireTarget \/ CommandFails

LEMMA WritingIsAStep == TypeOK /\ Writing => ImportStep
<1> SUFFICES ASSUME TypeOK, Writing PROVE ImportStep
  OBVIOUS
<1>1. pc \in ImportSteps /\ Importing
  BY DEF Writing, CheckTarget, ClearTarget, WriteString, WriteModule, WriteCollection,
         WriteOneByOne, ExpireTarget, CommandFails, ImportSteps
<1>2. /\ current.key \in Keys /\ current.type \in Types
      /\ current.ttl \in BOOLEAN /\ current.value \in Entry \cup {None}
  BY <1>1, CurrentType DEF TypeOK
<1>3. /\ value \in Entry \cup {None} /\ broken \in BOOLEAN
      /\ target[current.key] \in Entry \cup {None}
  BY <1>2 DEF TypeOK, ImportOK, RestOK, DbsOK, Database
<1>4. /\ "clear" \in ImportSteps /\ "write" \in ImportSteps /\ "expire" \in ImportSteps
  BY DEF ImportSteps
<1>5. Left \in SUBSET Elems
  BY <1>3 DEF Left, Entry
<1>6. CASE CheckTarget
  <2>1. UNCHANGED <<target, broken>>
    BY <1>6 DEF CheckTarget
  <2>2. (Go("clear") /\ UNCHANGED value) \/ Skip
    BY <1>6 DEF CheckTarget
  <2> QED BY <1>1, <1>3, <1>4, <2>1, <2>2, QuietStep
<1>7. CASE ClearTarget
  <2>1. Put(None)
    BY <1>7 DEF ClearTarget, Put
  <2> QED BY <1>1, <1>2, <1>4, <1>7, <2>1, PutStep DEF ClearTarget
<1>8. CASE WriteString
  <2>1. CASE value = None /\ Fail /\ UNCHANGED <<target, broken>>
    BY <1>1, <1>3, <1>4, <2>1, QuietStep
  <2>2. CASE /\ Put([type |-> "string", content |-> Left, expiry |-> "never"])
             /\ Written
    <3>1. [type |-> "string", content |-> Left, expiry |-> "never"] \in Entry
      BY <1>5 DEF Entry, Types, Expiries
    <3>2. Answered(Go("expire") /\ value' = value)
      BY <2>2 DEF Written
    <3> QED BY <1>1, <1>3, <1>4, <2>2, <3>1, <3>2, PutStep
  <2> QED BY <1>8, <2>1, <2>2 DEF WriteString
<1>9. CASE WriteModule
  <2>1. CASE value = None
    BY <1>1, <1>3, <1>4, <1>9, <2>1, QuietStep DEF WriteModule
  <2>2. CASE value # None
    <3>1. [value EXCEPT !.expiry = "never"] \in Entry
      BY <1>3, <2>2, ExpiringType DEF Expiries
    <3>2. Put([value EXCEPT !.expiry = "never"]) /\ Answered(Go("expire") /\ value' = value)
      BY <1>9, <2>2 DEF WriteModule, Written
    <3> QED BY <1>1, <1>3, <1>4, <3>1, <3>2, PutStep
  <2> QED BY <2>1, <2>2
<1>10. CASE WriteCollection
  <2>1. CASE Fail /\ UNCHANGED <<target, broken>>
    BY <1>1, <1>3, <1>4, <2>1, QuietStep
  <2>2. CASE Go("expire") /\ UNCHANGED <<target, value, broken>>
    BY <1>1, <1>3, <1>4, <2>2, QuietStep
  <2>3. CASE /\ value # None
             /\ Put(Added(target[current.key], "collection", value.content)) /\ Written
    <3>1. value.content \in SUBSET Elems
      BY <1>3, <2>3 DEF Entry
    <3>2. Added(target[current.key], "collection", value.content) \in Entry
      BY <1>3, <3>1, AddedType DEF Types
    <3>3. Answered(Go("expire") /\ value' = value)
      BY <2>3 DEF Written
    <3> QED BY <1>1, <1>3, <1>4, <2>3, <3>2, <3>3, PutStep
  <2> QED BY <1>10, <2>1, <2>2, <2>3 DEF WriteCollection
<1>11. CASE WriteOneByOne
  <2>1. CASE Left = {}
    BY <1>1, <1>3, <1>4, <1>11, <2>1, QuietStep DEF WriteOneByOne
  <2>2. CASE Left # {}
    <3>1. PICK x \in Left :
            IF Refused(x)
            THEN Fail /\ UNCHANGED <<target, broken>>
            ELSE /\ Put(Added(target[current.key], current.type, {x}))
                 /\ Answered(Go("write") /\ value' = [value EXCEPT !.content = @ \ {x}])
      BY <1>11, <2>2 DEF WriteOneByOne
    <3>2. CASE Refused(x)
      BY <1>1, <1>3, <1>4, <3>1, <3>2, QuietStep
    <3>3. CASE ~Refused(x)
      <4>1. value \in Entry /\ {x} \in SUBSET Elems
        BY <1>3, <1>5, <2>2 DEF Left
      <4>2. Added(target[current.key], current.type, {x}) \in Entry
        BY <1>2, <1>3, <4>1, AddedType
      <4>3. [value EXCEPT !.content = @ \ {x}] \in Entry
        BY <4>1, RestType
      <4> QED BY <1>1, <1>4, <3>1, <3>3, <4>2, <4>3, PutStep
    <3> QED BY <3>2, <3>3
  <2> QED BY <2>1, <2>2
<1>12. CASE ExpireTarget
  <2>1. broken' \in BOOLEAN
    BY <1>3, <1>12 DEF ExpireTarget, Answered
  <2>2. Succeed \/ Fail
    BY <1>12 DEF ExpireTarget, Answered
  <2>3. CASE current.ttl /\ target[current.key] # None
    <3>1. [target[current.key] EXCEPT !.expiry = "later"] \in Entry
      BY <1>3, <2>3, ExpiringType DEF Expiries
    <3>2. Put([target[current.key] EXCEPT !.expiry = "later"])
      BY <1>12, <2>3 DEF ExpireTarget
    <3> QED BY <1>1, <2>1, <2>2, <3>1, <3>2 DEF ImportStep
  <2>4. CASE ~(current.ttl /\ target[current.key] # None)
    <3>1. UNCHANGED target
      BY <1>12, <2>4 DEF ExpireTarget
    <3> QED BY <1>1, <1>4, <2>1, <2>2, <3>1, QuietStep
  <2> QED BY <2>3, <2>4
<1>13. CASE CommandFails
  <2>1. UNCHANGED target /\ broken' \in BOOLEAN /\ Fail
    BY <1>13 DEF CommandFails
  <2> QED BY <1>1, <1>4, <2>1, QuietStep
<1> QED BY <1>6, <1>7, <1>8, <1>9, <1>10, <1>11, <1>12, <1>13 DEF Writing

-----------------------------------------------------------------------------
(* The other actions keep the types.                                        *)

LEMMA InitType == Init => TypeOK
<1> SUFFICES ASSUME Init PROVE TypeOK
  OBVIOUS
<1>1. source \in Database /\ target \in Database
  BY EntriesAssumption DEF Init, Database
<1>2. DbsOK
  BY <1>1 DEF Init, DbsOK
<1>3. ttl \in BOOLEAN /\ replace \in BOOLEAN /\ broken \in BOOLEAN
  BY DEF Init
<1>4. ExportOK
  BY <1>3 DEF Init, ExportOK
<1>5. ImportOK
  BY DEF Init, ImportOK, ImportSteps
<1>6. meddled \in [source : SUBSET Keys, target : SUBSET Keys]
  BY DEF Init
<1>7. meddling \in 0 .. MaxMeddling
  BY BoundAssumption DEF Init
<1>8. RestOK
  BY <1>3, <1>6, <1>7 DEF Init, RestOK
<1> QED BY <1>2, <1>4, <1>5, <1>8 DEF TypeOK

LEMMA ReadingType ==
  ASSUME TypeOK, Reading, ExportOK', pc' \in ExportSteps \cup {"idle"}
  PROVE  TypeOK'
<1>1. DbsOK'
  BY SameDbs DEF Reading, TypeOK
<1>2. pc' \notin ImportSteps
  BY DEF ExportSteps, ImportSteps
<1>3. ImportOK'
  BY <1>2 DEF TypeOK, ImportOK, Reading, import, result
<1>4. pc' \in ExportSteps \cup ImportSteps \cup {"idle", "ready", "done", "aborted"}
  OBVIOUS
<1>5. RestOK'
  BY <1>4 DEF TypeOK, RestOK, Reading, import, others
<1> QED BY <1>1, <1>3, <1>5 DEF TypeOK

LEMMA NextNameType ==
  ASSUME ExportOK, pc \in {"type", "ttl", "value"}, NextName,
         snapshot' \in Seq(FileEntry), UNCHANGED file
  PROVE  ExportOK' /\ pc' \in ExportSteps
<1>1. Tail(names) \in Seq(Keys)
  BY DEF ExportOK
<1>2. pc' \in {"save", "type"} /\ (pc' = "type" => names' # <<>>)
  BY DEF NextName
<1> QED BY <1>1, <1>2 DEF ExportOK, NextName, ExportSteps

LEMMA ExportType == TypeOK /\ Export => TypeOK'
<1> SUFFICES ASSUME TypeOK, Export PROVE TypeOK'
  OBVIOUS
<1>1. ExportOK /\ source \in Database
  BY DEF TypeOK, DbsOK
<1>2. ASSUME NEW ks \in KeyLists, exportToDisk(ks) PROVE TypeOK'
  <2>1. ks \in Seq(Keys)
    BY ListsAssumption
  <2>2. DbsOK'
    BY <1>2 DEF exportToDisk, TypeOK, DbsOK, dbs
  <2>3. pc' \in {"save", "type"} /\ (pc' = "type" => names' # <<>>)
    BY <1>2 DEF exportToDisk
  <2>4. ExportOK'
    BY <1>1, <1>2, <2>1, <2>3 DEF exportToDisk, ExportOK
  <2>5. ImportOK'
    BY <1>2, <2>3 DEF exportToDisk, TypeOK, ImportOK, import, result, ImportSteps
  <2>6. RestOK'
    BY <1>2, <2>3 DEF exportToDisk, TypeOK, RestOK, import, ExportSteps
  <2> QED BY <2>2, <2>4, <2>5, <2>6 DEF TypeOK
<1>3. CASE ReadType
  <2>1. Reading /\ UNCHANGED <<snapshot, file>> /\ pc = "type"
    BY <1>3 DEF ReadType, Reading
  <2>2. Head(names) \in Keys
    BY <1>1, <2>1 DEF ExportOK
  <2>3. CASE NextName
    <3>1. ExportOK' /\ pc' \in ExportSteps
      BY <1>1, <2>1, <2>3, NextNameType DEF ExportOK
    <3> QED BY <2>1, <3>1, ReadingType
  <2>4. CASE /\ source[Head(names)] # None /\ type' = source[Head(names)].type
             /\ pc' = "ttl" /\ UNCHANGED <<names, ttl>>
    <3>1. source[Head(names)] \in Entry
      BY <1>1, <2>2, <2>4 DEF Database
    <3>2. type' \in Types
      BY <2>4, <3>1 DEF Entry
    <3>3. type' # None
      BY <3>2, NoEntryAssumption
    <3>4. ExportOK'
      BY <1>1, <2>1, <2>4, <3>2, <3>3 DEF ExportOK
    <3>5. pc' \in ExportSteps
      BY <2>4 DEF ExportSteps
    <3> QED BY <2>1, <3>4, <3>5, ReadingType
  <2> QED BY <1>3, <2>3, <2>4 DEF ReadType
<1>4. CASE ReadTtl
  <2>1. ttl' \in BOOLEAN
    BY <1>4 DEF ReadTtl
  <2>2. pc = "ttl" /\ pc' = "value" /\ UNCHANGED <<names, type, snapshot, file>> /\ Reading
    BY <1>4 DEF ReadTtl, Reading
  <2>3. ExportOK'
    BY <1>1, <2>1, <2>2 DEF ExportOK
  <2>4. pc' \in ExportSteps
    BY <2>2 DEF ExportSteps
  <2> QED BY <2>2, <2>3, <2>4, ReadingType
<1>5. CASE readValue
  <2>1. pc = "value" /\ NextName /\ Reading /\ UNCHANGED file
    BY <1>5 DEF readValue, Reading
  <2>2. Head(names) \in Keys /\ type \in Types /\ ttl \in BOOLEAN
    BY <1>1, <2>1 DEF ExportOK
  <2> DEFINE e == source[Head(names)]
             v == IF e = None \/ type = "module" THEN e ELSE Decoded(e)
  <2>3. e \in Entry \cup {None}
    BY <1>1, <2>2 DEF Database
  <2>4. v \in Entry \cup {None}
    BY <2>3, DecodedType
  <2>5. snapshot' = Append(snapshot, [key |-> Head(names), type |-> type, ttl |-> ttl,
                                      value |-> v])
    BY <1>5 DEF readValue
  <2>6. [key |-> Head(names), type |-> type, ttl |-> ttl, value |-> v] \in FileEntry
    BY <2>2, <2>4 DEF FileEntry
  <2> HIDE DEF v
  <2>7. snapshot' \in Seq(FileEntry)
    BY <1>1, <2>5, <2>6 DEF ExportOK
  <2>8. ExportOK' /\ pc' \in ExportSteps
    BY <1>1, <2>1, <2>7, NextNameType
  <2> QED BY <2>1, <2>8, ReadingType
<1>6. CASE SaveFile
  <2>1. DbsOK'
    BY <1>6, SameDbs DEF SaveFile, TypeOK
  <2>2. ExportOK'
    BY <1>1, <1>6 DEF SaveFile, ExportOK
  <2>3. ImportOK'
    BY <1>6 DEF SaveFile, TypeOK, ImportOK, import, result, ImportSteps
  <2>4. RestOK'
    BY <1>6 DEF SaveFile, TypeOK, RestOK, import, others
  <2> QED BY <2>1, <2>2, <2>3, <2>4 DEF TypeOK
<1>7. CASE ExportFails
  <2>1. ttl' \in BOOLEAN
    BY <1>7 DEF ExportFails
  <2>2. /\ names' = <<>> /\ type' = None /\ snapshot' = <<>> /\ pc' = "idle"
        /\ Reading /\ UNCHANGED file
    BY <1>7 DEF ExportFails, Reading
  <2>3. ExportOK'
    BY <1>1, <2>1, <2>2 DEF ExportOK
  <2> QED BY <2>2, <2>3, ReadingType
<1> QED BY <1>2, <1>3, <1>4, <1>5, <1>6, <1>7 DEF Export

LEMMA DeleteType == TypeOK /\ deleteExport => TypeOK'
<1> SUFFICES ASSUME TypeOK, deleteExport PROVE TypeOK'
  OBVIOUS
<1>1. DbsOK'
  BY SameDbs DEF deleteExport, TypeOK
<1>2. ExportOK'
  BY DEF deleteExport, TypeOK, ExportOK, export
<1>3. ImportOK' /\ RestOK'
  BY DEF deleteExport, TypeOK, ImportOK, RestOK, import, result, others
<1> QED BY <1>1, <1>2, <1>3 DEF TypeOK

LEMMA StartType == ASSUME TypeOK, NEW r \in BOOLEAN, importFromDisk(r) PROVE TypeOK'
<1>1. DbsOK'
  BY DEF importFromDisk, TypeOK, DbsOK, dbs
<1>2. pc' \in {"done", "check"} /\ (pc' = "check" => file # <<>>)
  BY DEF importFromDisk
<1>3. ExportOK'
  BY <1>2 DEF importFromDisk, TypeOK, ExportOK, export
<1>4. ImportOK'
  BY <1>2 DEF importFromDisk, TypeOK, ExportOK, ImportOK, result, ImportSteps
<1>5. RestOK'
  BY <1>2 DEF importFromDisk, TypeOK, RestOK, ImportSteps
<1> QED BY <1>1, <1>3, <1>4, <1>5 DEF TypeOK

LEMMA StopType == TypeOK /\ BackendStops => TypeOK'
<1> SUFFICES ASSUME TypeOK, BackendStops PROVE TypeOK'
  OBVIOUS
<1>1. DbsOK'
  BY SameDbs DEF BackendStops, TypeOK
<1>2. ExportOK'
  BY DEF BackendStops, TypeOK, ExportOK, export
<1>3. ImportOK' /\ RestOK'
  BY DEF BackendStops, TypeOK, ImportOK, RestOK, import, result, others, ImportSteps
<1> QED BY <1>1, <1>2, <1>3 DEF TypeOK

LEMMA MeddleType ==
  ASSUME TypeOK, Meddle, DbsOK', meddled' \in [source : SUBSET Keys, target : SUBSET Keys]
  PROVE  TypeOK'
<1>1. meddling' \in 0 .. MaxMeddling
  BY BoundAssumption DEF TypeOK, RestOK, Meddle
<1>2. ExportOK' /\ ImportOK'
  BY DEF Meddle, TypeOK, ExportOK, ImportOK, export, import, result
<1>3. RestOK'
  BY <1>1 DEF Meddle, TypeOK, RestOK, import
<1> QED BY <1>2, <1>3 DEF TypeOK

LEMMA OthersType ==
  ASSUME TypeOK, NEW k \in Keys, OthersAtSource(k) \/ OthersAtTarget(k)
  PROVE  TypeOK'
<1>1. source \in Database /\ target \in Database
  BY DEF TypeOK, DbsOK
<1>2. Meddle /\ UNCHANGED before
  BY DEF OthersAtSource, OthersAtTarget, Meddle
<1>3. CASE OthersAtSource(k)
  <2>1. source' \in Database
    <3>1. CASE \E e \in Entries \cup {None} : source' = [source EXCEPT ![k] = e]
      BY <1>1, <3>1, EntriesAssumption DEF Database
    <3>2. CASE source[k] # None /\ source' = [source EXCEPT ![k] = Later(@)]
      <4>1. Later(source[k]) \in Entry \cup {None}
        BY <1>1, <3>2, LaterType DEF Database
      <4> QED BY <1>1, <3>2, <4>1 DEF Database
    <3> QED BY <1>3, <3>1, <3>2 DEF OthersAtSource
  <2>2. DbsOK'
    BY <1>2, <1>3, <2>1 DEF OthersAtSource, TypeOK, DbsOK
  <2>3. meddled' \in [source : SUBSET Keys, target : SUBSET Keys]
    BY <1>3 DEF OthersAtSource, TypeOK, RestOK
  <2> QED BY <1>2, <2>2, <2>3, MeddleType
<1>4. CASE OthersAtTarget(k)
  <2>1. target' \in Database
    <3>1. CASE \E e \in TargetEntries \cup {None} : target' = [target EXCEPT ![k] = e]
      BY <1>1, <3>1, EntriesAssumption DEF Database
    <3>2. CASE target[k] # None /\ target' = [target EXCEPT ![k] = Later(@)]
      <4>1. Later(target[k]) \in Entry \cup {None}
        BY <1>1, <3>2, LaterType DEF Database
      <4> QED BY <1>1, <3>2, <4>1 DEF Database
    <3> QED BY <1>4, <3>1, <3>2 DEF OthersAtTarget
  <2>2. DbsOK'
    BY <1>2, <1>4, <2>1 DEF OthersAtTarget, TypeOK, DbsOK
  <2>3. meddled' \in [source : SUBSET Keys, target : SUBSET Keys]
    BY <1>4 DEF OthersAtTarget, TypeOK, RestOK
  <2> QED BY <1>2, <2>2, <2>3, MeddleType
<1> QED BY <1>3, <1>4

LEMMA NextType == TypeOK /\ [Next]_vars => TypeOK'
<1> SUFFICES ASSUME TypeOK, [Next]_vars PROVE TypeOK'
  OBVIOUS
<1>1. CASE Export
  BY <1>1, ExportType
<1>2. CASE deleteExport
  BY <1>2, DeleteType
<1>3. CASE Import
  <2>1. CASE \E r \in BOOLEAN : importFromDisk(r)
    BY <2>1, StartType
  <2>2. CASE Writing
    BY <2>2, WritingIsAStep, ImportStepType
  <2>3. CASE BackendStops
    BY <2>3, StopType
  <2> QED BY <1>3, <2>1, <2>2, <2>3 DEF Import, Writing
<1>4. CASE \E k \in Keys : OthersAtSource(k) \/ OthersAtTarget(k)
  BY <1>4, OthersType
<1>5. CASE UNCHANGED vars
  <2>1. DbsOK'
    BY <1>5 DEF TypeOK, DbsOK, vars, dbs
  <2>2. ExportOK'
    BY <1>5 DEF TypeOK, ExportOK, vars, export
  <2>3. ImportOK' /\ RestOK'
    BY <1>5 DEF TypeOK, ImportOK, RestOK, vars, import, result, others
  <2> QED BY <2>1, <2>2, <2>3 DEF TypeOK
<1> QED BY <1>1, <1>2, <1>3, <1>4, <1>5 DEF Next

(* The databases, the file and every value under way are what their types   *)
(* say, and a step on a key has a key at hand.                              *)
THEOREM TypeCorrect == Spec => []TypeOK
<1>1. Init => TypeOK
  BY InitType
<1>2. TypeOK /\ [Next]_vars => TypeOK'
  BY NextType
<1> QED BY <1>1, <1>2, PTL DEF Spec

-----------------------------------------------------------------------------
(* An import says what it changes.  The property allows the key at hand to  *)
(* differ in any step of the import; the invariant only once DEL is due, so *)
(* that a key which is skipped has not been changed.                        *)

Past == {"clear", "write", "expire", "aborted"}

Accounted(k) == k \in succeeded \cup failed \/ (pc \in Past /\ k = current.key)

ReportInv ==
  pc \in ImportSteps \cup {"done", "aborted"} =>
    \A k \in Keys \ meddled.target : target[k] # before.target[k] => Accounted(k)

LEMMA ReportInvSuffices == ReportInv => OnlyReportedKeysChange
BY DEF ReportInv, OnlyReportedKeysChange, Accounted, Past, ImportSteps

(* The step writes at most the key at hand, past the check.                 *)
LEMMA OtherKeysStay ==
  ASSUME TypeOK, UNCHANGED target \/ \E e : Put(e),
         NEW k \in Keys, k # current.key
  PROVE  target'[k] = target[k]
BY DEF TypeOK, DbsOK, Database, Put

LEMMA ReportStep ==
  ASSUME TypeOK, ReportInv, pc \in ImportSteps, UNCHANGED <<before, meddled>>,
         UNCHANGED target \/ \E e : Put(e),
         \/ pc' \in Past /\ UNCHANGED <<todo, result>>
         \/ Succeed \/ Fail
         \/ pc = "check" /\ UNCHANGED target /\ Skip
  PROVE  ReportInv'
<1> SUFFICES ASSUME NEW k \in Keys \ meddled.target, target'[k] # before.target[k]
             PROVE  Accounted(k)'
  BY DEF ReportInv
<1>1. CASE k = current.key
  <2>1. CASE pc' \in Past /\ UNCHANGED <<todo, result>>
    BY <1>1, <2>1 DEF Accounted, current
  <2>2. CASE Succeed \/ Fail
    BY <1>1, <2>2 DEF Accounted, Succeed, Fail
  <2>3. CASE pc = "check" /\ UNCHANGED target /\ Skip
    <3>1. k \in succeeded \cup failed
      BY <2>3 DEF ReportInv, Accounted, Past, ImportSteps
    <3> QED BY <2>3, <3>1 DEF Accounted, Skip
  <2> QED BY <2>1, <2>2, <2>3
<1>2. CASE k # current.key
  <2>1. target'[k] = target[k]
    BY <1>2, OtherKeysStay
  <2>2. k \in succeeded \cup failed
    BY <1>2, <2>1 DEF ReportInv, Accounted
  <2>3. succeeded \subseteq succeeded' /\ failed \subseteq failed'
    BY DEF Succeed, Skip, Fail, result
  <2> QED BY <2>2, <2>3 DEF Accounted
<1> QED BY <1>1, <1>2

LEMMA ReportWriting == TypeOK /\ ReportInv /\ Writing => ReportInv'
<1> SUFFICES ASSUME TypeOK, ReportInv, Writing PROVE ReportInv'
  OBVIOUS
<1>1. pc \in ImportSteps /\ Importing
  BY DEF Writing, CheckTarget, ClearTarget, WriteString, WriteModule, WriteCollection,
         WriteOneByOne, ExpireTarget, CommandFails, ImportSteps
<1>2. UNCHANGED <<before, meddled>>
  BY <1>1 DEF Importing, others
<1>3. CASE CheckTarget
  <2>1. UNCHANGED target /\ pc = "check" /\ (Skip \/ Go("clear"))
    BY <1>3 DEF CheckTarget
  <2>2. Go("clear") => pc' \in Past /\ UNCHANGED <<todo, result>>
    BY DEF Go, Past
  <2> QED BY <1>1, <1>2, <2>1, <2>2, ReportStep
<1>4. CASE ~CheckTarget
  <2>1. UNCHANGED target \/ \E e : Put(e)
    <3>1. ClearTarget => Put(None)
      BY DEF ClearTarget, Put
    <3> QED BY <1>4, <3>1 DEF Writing, WriteString, WriteModule, WriteCollection,
                              WriteOneByOne, ExpireTarget, CommandFails
  <2>2. \/ Go("write") \/ Go("expire") \/ Succeed \/ Fail
    BY <1>4 DEF Writing, ClearTarget, WriteString, WriteModule, WriteCollection,
                WriteOneByOne, ExpireTarget, CommandFails, Written, Answered
  <2>3. Go("write") \/ Go("expire") => pc' \in Past /\ UNCHANGED <<todo, result>>
    BY DEF Go, Past
  <2> QED BY <1>1, <1>2, <2>1, <2>2, <2>3, ReportStep
<1> QED BY <1>3, <1>4

LEMMA ReportElsewhere ==
  ASSUME ReportInv, UNCHANGED <<target, before, meddled, todo, result>>,
         pc' = pc \/ pc' \notin ImportSteps \cup {"done", "aborted"}
                  \/ (pc \in ImportSteps /\ pc' = "aborted")
  PROVE  ReportInv'
BY DEF ReportInv, Accounted, Past, ImportSteps, current, result

LEMMA ReportNext == TypeOK /\ ReportInv /\ [Next]_vars => ReportInv'
<1> SUFFICES ASSUME TypeOK, ReportInv, [Next]_vars PROVE ReportInv'
  OBVIOUS
<1>1. CASE Export
  <2>1. pc' \in ExportSteps \cup {"idle", "ready"}
    BY <1>1 DEF Export, exportToDisk, ReadType, ReadTtl, readValue, SaveFile, ExportFails,
                NextName, ExportSteps
  <2>2. pc' \notin ImportSteps \cup {"done", "aborted"}
    BY <2>1 DEF ExportSteps, ImportSteps
  <2> QED BY <2>2 DEF ReportInv
<1>2. CASE deleteExport
  BY <1>2, ReportElsewhere DEF deleteExport, dbs, import, others
<1>3. CASE Import
  <2>1. CASE \E r \in BOOLEAN : importFromDisk(r)
    BY <2>1 DEF importFromDisk, ReportInv, TypeOK, DbsOK, dbs
  <2>2. CASE Writing
    BY <2>2, ReportWriting
  <2>3. CASE BackendStops
    BY <2>3, ReportElsewhere DEF BackendStops, dbs, import, others
  <2> QED BY <1>3, <2>1, <2>2, <2>3 DEF Import, Writing
<1>4. ASSUME NEW k \in Keys, OthersAtSource(k) PROVE ReportInv'
  <2>1. pc' \in ExportSteps
    BY <1>4 DEF OthersAtSource, Meddle
  <2>2. pc' \notin ImportSteps \cup {"done", "aborted"}
    BY <2>1 DEF ExportSteps, ImportSteps
  <2> QED BY <2>2 DEF ReportInv
<1>5. ASSUME NEW k \in Keys, OthersAtTarget(k) PROVE ReportInv'
  <2>1. UNCHANGED <<pc, todo, result, before>>
    BY <1>5 DEF OthersAtTarget, Meddle, import
  <2>2. meddled'.target = meddled.target \cup {k}
    BY <1>5 DEF OthersAtTarget, TypeOK, RestOK
  <2>3. \A j \in Keys : j # k => target'[j] = target[j]
    BY <1>5 DEF OthersAtTarget, TypeOK, DbsOK, Database
  <2> QED BY <2>1, <2>2, <2>3 DEF ReportInv, Accounted, current, result
<1>6. CASE UNCHANGED vars
  BY <1>6, ReportElsewhere DEF vars, dbs, import, others
<1> QED BY <1>1, <1>2, <1>3, <1>4, <1>5, <1>6 DEF Next

(* Whatever fails, and wherever the backend ends, a key of the target that  *)
(* nobody else touched is changed or lost only if the import reports it, or *)
(* it is the one key at hand.                                               *)
THEOREM ChangesAreReported == Spec => []OnlyReportedKeysChange
<1>1. Init => TypeOK /\ ReportInv
  <2>1. Init => ReportInv
    BY DEF Init, ReportInv, ImportSteps
  <2> QED BY <2>1, InitType
<1>2. (TypeOK /\ ReportInv) /\ [Next]_vars => (TypeOK /\ ReportInv)'
  BY NextType, ReportNext
<1>3. ReportInv => OnlyReportedKeysChange
  BY ReportInvSuffices
<1> QED BY <1>1, <1>2, <1>3, PTL DEF Spec

-----------------------------------------------------------------------------
(* The file is the snapshot it claims to be.  The invariant follows a key   *)
(* that nobody changes from the list of names, through the answers of TYPE  *)
(* and TTL, into the snapshot and the file.                                 *)
StillThere == {k \in Keys : k \notin meddled.source}
EntriesOf(S, k) == {i \in 1 .. Len(S) : S[i].key = k}

AllTrue(S) ==
  \A k \in StillThere : \A i \in EntriesOf(S, k) :
    before.source[k] # None /\ S[i] = AsExported(k, before.source[k])

KeyIsRead(k) ==
  /\ source[k] = before.source[k]
  /\ before.source[k] # None => k \in Listed(names) \/ EntriesOf(snapshot, k) # {}
  /\ pc \in {"ttl", "value"} /\ k = Head(names) =>
       before.source[k] # None /\ type = before.source[k].type
  /\ pc = "value" /\ k = Head(names) => (ttl <=> before.source[k].expiry = "later")

ExportInv ==
  /\ pc \in ExportSteps =>
       AllTrue(snapshot) /\ (\A k \in StillThere : KeyIsRead(k)) /\ (pc = "save" => names = <<>>)
  /\ pc \in ExportSteps \cup {"idle"} => file = None
  /\ file # None =>
       /\ AllTrue(file)
       /\ \A k \in StillThere : before.source[k] # None => EntriesOf(file, k) # {}

LEMMA TailListed ==
  ASSUME NEW s \in Seq(Keys), s # <<>>, NEW k \in Listed(s), k # Head(s)
  PROVE  k \in Listed(Tail(s))
<1>1. PICK i \in 1 .. Len(s) : k = s[i]
  BY DEF Listed
<1>2. i # 1
  BY <1>1
<1>3. i - 1 \in 1 .. Len(Tail(s)) /\ Tail(s)[i - 1] = s[i]
  BY <1>1, <1>2
<1> QED BY <1>1, <1>3 DEF Listed

(* An entry that is appended is the only one that is new.                   *)
Extended(S, x, T, k) ==
  /\ EntriesOf(S, k) \subseteq EntriesOf(T, k)
  /\ k = x.key => EntriesOf(T, k) # {}
  /\ \A i \in EntriesOf(T, k) :
       \/ i \in EntriesOf(S, k) /\ T[i] = S[i]
       \/ k = x.key /\ T[i] = x

LEMMA AppendEntries ==
  ASSUME NEW S \in Seq(FileEntry), NEW x \in FileEntry, NEW k
  PROVE  Extended(S, x, Append(S, x), k)
<1>0. PICK T : T = Append(S, x)
  OBVIOUS
<1>1. Len(T) = Len(S) + 1 /\ T[Len(S) + 1] = x /\ Len(S) \in Nat
  BY <1>0
<1>2. \A i \in 1 .. Len(S) : T[i] = S[i]
  BY <1>0
<1>3. EntriesOf(S, k) \subseteq EntriesOf(T, k)
  BY <1>1, <1>2 DEF EntriesOf
<1>4. k = x.key => Len(S) + 1 \in EntriesOf(T, k)
  BY <1>1 DEF EntriesOf
<1>5. ASSUME NEW i \in EntriesOf(T, k)
      PROVE  \/ i \in EntriesOf(S, k) /\ T[i] = S[i]
             \/ k = x.key /\ T[i] = x
  <2>1. i \in 1 .. Len(S) + 1 /\ T[i].key = k
    BY <1>1, <1>5 DEF EntriesOf
  <2>2. CASE i = Len(S) + 1
    BY <1>1, <2>1, <2>2
  <2>3. CASE i # Len(S) + 1
    BY <1>1, <1>2, <2>1, <2>3 DEF EntriesOf
  <2> QED BY <2>2, <2>3
<1>6. Extended(S, x, T, k)
  BY <1>3, <1>4, <1>5 DEF Extended
<1> QED BY <1>0, <1>6

(* A key that is left behind has been read, or is not there.                *)
LEMMA LeavesName ==
  ASSUME names \in Seq(Keys), names # <<>>, NextName, UNCHANGED <<source, before, meddled>>,
         NEW k \in StillThere, KeyIsRead(k),
         EntriesOf(snapshot, k) \subseteq EntriesOf(snapshot', k),
         k = Head(names) => before.source[k] = None \/ EntriesOf(snapshot', k) # {}
  PROVE  KeyIsRead(k)'
<1>1. names' = Tail(names) /\ pc' \in {"save", "type"}
  BY DEF NextName
<1>2. k \in Listed(names) /\ k # Head(names) => k \in Listed(names')
  BY <1>1, TailListed
<1>3. source'[k] = before'.source[k] /\ before'.source[k] = before.source[k]
  BY DEF KeyIsRead
<1>4. before.source[k] # None => k \in Listed(names') \/ EntriesOf(snapshot', k) # {}
  BY <1>2 DEF KeyIsRead
<1> QED BY <1>1, <1>3, <1>4 DEF KeyIsRead

LEMMA SameTrue ==
  ASSUME NEW S, AllTrue(S), UNCHANGED <<before, meddled>>
  PROVE  \A k \in StillThere' : \A i \in EntriesOf(S, k) :
           before'.source[k] # None /\ S[i] = AsExported(k, before'.source[k])
BY DEF AllTrue, StillThere

LEMMA ReadTypeKeeps ==
  ASSUME TypeOK, ExportInv, ReadType
  PROVE  ExportInv'
<1>1. /\ pc = "type" /\ snapshot' = snapshot /\ UNCHANGED <<source, file, before, meddled>>
      /\ names \in Seq(Keys) /\ names # <<>> /\ file = None
      /\ AllTrue(snapshot) /\ \A k \in StillThere : KeyIsRead(k)
  BY DEF ReadType, Reading, dbs, others, TypeOK, ExportOK, ExportInv, ExportSteps
<1>2. StillThere' = StillThere /\ AllTrue(snapshot)'
  BY <1>1 DEF StillThere, AllTrue
<1>3. CASE source[Head(names)] = None
  <2>1. NextName
    BY <1>1, <1>3, NoEntryAssumption DEF ReadType
  <2>2. \A k \in StillThere : KeyIsRead(k)'
    BY <1>1, <1>3, <2>1, LeavesName DEF KeyIsRead
  <2>3. pc' \in ExportSteps /\ (pc' = "save" => names' = <<>>)
    BY <2>1 DEF NextName, ExportSteps
  <2> QED BY <1>1, <1>2, <2>2, <2>3 DEF ExportInv
<1>4. CASE source[Head(names)] # None
  <2>1. type' = source[Head(names)].type /\ pc' = "ttl" /\ names' = names
    BY <1>4 DEF ReadType
  <2>2. \A k \in StillThere : KeyIsRead(k)'
    BY <1>1, <1>4, <2>1 DEF KeyIsRead
  <2> QED BY <1>1, <1>2, <2>1, <2>2 DEF ExportInv, ExportSteps
<1> QED BY <1>3, <1>4

LEMMA ReadTtlKeeps ==
  ASSUME TypeOK, ExportInv, ReadTtl
  PROVE  ExportInv'
<1>1. /\ pc = "ttl" /\ pc' = "value" /\ UNCHANGED <<names, type, snapshot, source, file, before, meddled>>
      /\ file = None /\ AllTrue(snapshot) /\ \A k \in StillThere : KeyIsRead(k)
  BY DEF ReadTtl, Reading, dbs, others, ExportInv, ExportSteps
<1>2. StillThere' = StillThere /\ AllTrue(snapshot)'
  BY <1>1 DEF StillThere, AllTrue
<1>3. ttl' = (source[Head(names)] # None /\ source[Head(names)].expiry = "later")
  BY DEF ReadTtl
<1>4. \A k \in StillThere : KeyIsRead(k)'
  BY <1>1, <1>3 DEF KeyIsRead
<1> QED BY <1>1, <1>2, <1>4 DEF ExportInv, ExportSteps

(* What is appended, of the key at hand and of any key.                     *)
LEMMA ReadsEntry ==
  ASSUME TypeOK, readValue
  PROVE  \E x \in FileEntry :
           /\ snapshot' = Append(snapshot, x) /\ x.key = Head(names)
           /\ x = [key |-> Head(names), type |-> type, ttl |-> ttl,
                   value |-> IF source[Head(names)] = None \/ type = "module"
                             THEN source[Head(names)] ELSE Decoded(source[Head(names)])]
<1>1. /\ pc = "value" /\ names \in Seq(Keys) /\ names # <<>> /\ type \in Types /\ ttl \in BOOLEAN
      /\ source \in Database
  BY DEF readValue, TypeOK, ExportOK, DbsOK
<1>2. Head(names) \in Keys /\ source[Head(names)] \in Entry \cup {None}
  BY <1>1 DEF Database
<1> DEFINE v == IF source[Head(names)] = None \/ type = "module"
                THEN source[Head(names)] ELSE Decoded(source[Head(names)])
           x == [key |-> Head(names), type |-> type, ttl |-> ttl, value |-> v]
<1>3. v \in Entry \cup {None}
  BY <1>2, DecodedType
<1>4. snapshot' = Append(snapshot, x)
  BY DEF readValue
<1>5. x \in FileEntry /\ x.key = Head(names)
  <2> HIDE DEF v
  <2> QED BY <1>1, <1>2, <1>3 DEF FileEntry
<1> QED BY <1>4, <1>5

LEMMA readValueKeeps ==
  ASSUME TypeOK, ExportInv, readValue
  PROVE  ExportInv'
<1>1. /\ pc = "value" /\ NextName /\ UNCHANGED <<source, file, before, meddled>>
      /\ names \in Seq(Keys) /\ names # <<>> /\ file = None /\ snapshot \in Seq(FileEntry)
      /\ ttl \in BOOLEAN
      /\ AllTrue(snapshot) /\ \A k \in StillThere : KeyIsRead(k)
  BY DEF readValue, Reading, dbs, others, TypeOK, ExportOK, ExportInv, ExportSteps
<1>2. PICK x \in FileEntry :
        /\ snapshot' = Append(snapshot, x) /\ x.key = Head(names)
        /\ x = [key |-> Head(names), type |-> type, ttl |-> ttl,
                value |-> IF source[Head(names)] = None \/ type = "module"
                          THEN source[Head(names)] ELSE Decoded(source[Head(names)])]
  BY ReadsEntry
<1>3. ASSUME NEW k \in StillThere, k = Head(names)
      PROVE  before.source[k] # None /\ x = AsExported(k, before.source[k])
  <2>1. /\ source[k] = before.source[k] /\ before.source[k] # None
        /\ type = before.source[k].type /\ (ttl <=> before.source[k].expiry = "later")
    BY <1>1, <1>3 DEF KeyIsRead
  <2>2. ttl = (before.source[k].expiry = "later")
    BY <1>1, <2>1
  <2>3. x = [key |-> k, type |-> before.source[k].type, ttl |-> before.source[k].expiry = "later",
             value |-> IF before.source[k].type = "module" THEN before.source[k]
                       ELSE Decoded(before.source[k])]
    BY <1>2, <1>3, <2>1, <2>2
  <2> QED BY <2>1, <2>3 DEF AsExported
<1>4. StillThere' = StillThere
  BY <1>1 DEF StillThere
<1>5. ASSUME NEW k \in StillThere
      PROVE  /\ EntriesOf(snapshot, k) \subseteq EntriesOf(snapshot', k)
             /\ k = Head(names) => EntriesOf(snapshot', k) # {}
             /\ \A i \in EntriesOf(snapshot', k) :
                  \/ i \in EntriesOf(snapshot, k) /\ snapshot'[i] = snapshot[i]
                  \/ k = Head(names) /\ snapshot'[i] = x
  <2>1. Extended(snapshot, x, snapshot', k)
    BY <1>1, <1>2, AppendEntries
  <2> QED BY <1>2, <2>1 DEF Extended
<1>6. AllTrue(snapshot)'
  <2> SUFFICES ASSUME NEW k \in StillThere, NEW i \in EntriesOf(snapshot', k)
               PROVE  before.source[k] # None /\ snapshot'[i] = AsExported(k, before.source[k])
    BY <1>1, <1>4 DEF AllTrue
  <2>1. CASE i \in EntriesOf(snapshot, k) /\ snapshot'[i] = snapshot[i]
    BY <1>1, <2>1 DEF AllTrue
  <2>2. CASE k = Head(names) /\ snapshot'[i] = x
    BY <1>3, <2>2
  <2> QED BY <1>5, <2>1, <2>2
<1>8. ASSUME NEW k \in StillThere PROVE KeyIsRead(k)'
  BY <1>1, <1>5, LeavesName
<1>7. pc' \in ExportSteps /\ (pc' = "save" => names' = <<>>)
  BY <1>1 DEF NextName, ExportSteps
<1> QED BY <1>1, <1>4, <1>6, <1>7, <1>8 DEF ExportInv

LEMMA ExportStep ==
  ASSUME TypeOK, ExportInv, [Next]_vars
  PROVE  ExportInv'
<1>1. ASSUME NEW ks \in KeyLists, exportToDisk(ks) PROVE ExportInv'
  <2>1. /\ pc = "idle" /\ Listed(ks) = Existing /\ names' = ks /\ snapshot' = <<>>
        /\ pc' = (IF ks = <<>> THEN "save" ELSE "type")
        /\ before' = [before EXCEPT !.source = source]
        /\ file' = file /\ source' = source /\ file = None
    BY <1>1 DEF exportToDisk, dbs, ExportInv
  <2>2. before'.source = source
    BY <2>1 DEF TypeOK, DbsOK
  <2>3. AllTrue(snapshot)'
    BY <2>1 DEF AllTrue, EntriesOf
  <2>4. \A k \in Keys : KeyIsRead(k)'
    BY <2>1, <2>2 DEF KeyIsRead, Existing
  <2> QED BY <2>1, <2>3, <2>4 DEF ExportInv, ExportSteps, StillThere
<1>2. CASE ReadType
  BY <1>2, ReadTypeKeeps
<1>3. CASE ReadTtl
  BY <1>3, ReadTtlKeeps
<1>4. CASE readValue
  BY <1>4, readValueKeeps
<1>5. CASE SaveFile
  <2>1. /\ pc = "save" /\ pc' = "ready" /\ file' = snapshot /\ UNCHANGED <<before, meddled>>
        /\ AllTrue(snapshot) /\ names = <<>> /\ \A k \in StillThere : KeyIsRead(k)
    BY <1>5 DEF SaveFile, others, ExportInv, ExportSteps
  <2>2. \A k \in StillThere : before.source[k] # None => EntriesOf(snapshot, k) # {}
    BY <2>1 DEF KeyIsRead, Listed
  <2>3. StillThere' = StillThere /\ AllTrue(file)'
    BY <2>1 DEF StillThere, AllTrue
  <2> QED BY <2>1, <2>2, <2>3 DEF ExportInv, ExportSteps
<1>6. CASE ExportFails
  BY <1>6 DEF ExportFails, Reading, ExportInv, ExportSteps
<1>7. CASE deleteExport
  BY <1>7 DEF deleteExport, export, dbs, others, ExportInv, AllTrue, StillThere, KeyIsRead
<1>8. CASE Import
  <2>1. /\ pc \notin ExportSteps \cup {"idle"} /\ pc' \notin ExportSteps \cup {"idle"}
        /\ file' = file /\ before'.source = before.source /\ meddled'.source = meddled.source
    <3>1. CASE \E r \in BOOLEAN : importFromDisk(r)
      BY <3>1 DEF importFromDisk, ExportSteps, TypeOK, DbsOK, RestOK
    <3>2. CASE Writing
      <4>1. ImportStep
        BY <3>2, WritingIsAStep
      <4>2. pc' \in ImportSteps \cup {"check", "done"}
        BY <4>1, OutcomeType DEF ImportStep, TypeOK
      <4> QED BY <4>1, <4>2 DEF ImportStep, Importing, ImportSteps, ExportSteps, others
    <3>3. CASE BackendStops
      BY <3>3 DEF BackendStops, ExportSteps, ImportSteps, others
    <3> QED BY <1>8, <3>1, <3>2, <3>3 DEF Import, Writing
  <2> QED BY <2>1 DEF ExportInv, AllTrue, StillThere
<1>9. ASSUME NEW n \in Keys, OthersAtSource(n) PROVE ExportInv'
  <2>1. /\ pc \in ExportSteps /\ UNCHANGED <<pc, export, file, before>>
        /\ \A k \in Keys \ {n} : source'[k] = source[k]
        /\ meddled' = [meddled EXCEPT !.source = @ \cup {n}]
    BY <1>9 DEF OthersAtSource, Meddle, TypeOK, DbsOK, Database
  <2>2. StillThere' = StillThere \ {n}
    BY <2>1 DEF StillThere, TypeOK, RestOK
  <2> QED BY <2>1, <2>2 DEF ExportInv, AllTrue, KeyIsRead, export, StillThere
<1>10. ASSUME NEW n \in Keys, OthersAtTarget(n) PROVE ExportInv'
  <2>1. /\ UNCHANGED <<pc, export, file, before, source>> /\ pc \in ImportSteps
        /\ meddled'.source = meddled.source
    BY <1>10 DEF OthersAtTarget, Meddle, TypeOK, RestOK
  <2> QED BY <2>1 DEF ExportInv, AllTrue, KeyIsRead, export, StillThere
<1>11. CASE UNCHANGED vars
  BY <1>11 DEF vars, dbs, export, others, ExportInv, AllTrue, KeyIsRead, StillThere
<1> QED BY <1>1, <1>2, <1>3, <1>4, <1>5, <1>6, <1>7, <1>8, <1>9, <1>10, <1>11 DEF Next, Export

(* The file of an export has exactly one value, the one of the database,    *)
(* for each key that nobody changed during the export.                      *)
THEOREM ExportsASnapshot == Spec => []SnapshotIsTrue
<1>1. Init => ExportInv
  BY DEF Init, ExportInv, ExportSteps
<1>2. ExportInv => SnapshotIsTrue
  <2> SUFFICES ASSUME ExportInv, file # None, NEW k \in Keys \ meddled.source
               PROVE  InFile(k) = IF before.source[k] = None THEN {}
                                  ELSE {AsExported(k, before.source[k])}
    BY DEF SnapshotIsTrue
  <2>1. k \in StillThere /\ InFile(k) = {file[i] : i \in EntriesOf(file, k)}
    BY DEF StillThere, InFile, EntriesOf
  <2>2. \A i \in EntriesOf(file, k) :
          before.source[k] # None /\ file[i] = AsExported(k, before.source[k])
    BY <2>1 DEF ExportInv, AllTrue
  <2>3. before.source[k] # None => EntriesOf(file, k) # {}
    BY <2>1 DEF ExportInv
  <2> QED BY <2>1, <2>2, <2>3
<1> QED BY <1>1, <1>2, InitType, NextType, ExportStep, PTL DEF Spec

-----------------------------------------------------------------------------
(* What is reported as imported is there.  The invariant follows the key at *)
(* hand through its commands: cleared, then with some of its elements and   *)
(* the others still to be written, then whole but without its expiry.  For  *)
(* streams it also says that what is written is below what is left, or      *)
(* Redis would refuse an id.                                                *)
Src(k) == before.source[k]

Holding(t, C) == IF C = {} THEN None ELSE [type |-> t, content |-> C, expiry |-> "never"]

Bare(e) ==
  IF EmptyStream(e) THEN None
  ELSE [type |-> e.type, content |-> Arrived(e).content, expiry |-> "never"]

Final(e) == IF EmptyStream(e) THEN None ELSE Arrived(e)

InHand(k) == pc \in {"clear", "write", "expire"} /\ k = current.key
Unsure(k) == InHand(k) \/ (pc = "aborted" /\ k \in Remaining)

Settled(k) ==
  /\ k \in succeeded \ failed => Src(k) # None /\ target[k] = Final(Src(k))
  /\ k \in skipped \ (succeeded \cup failed) => ~replace /\ target[k] # None
  /\ k \notin succeeded \cup failed => target[k] = before.target[k]

(* The value at hand, some of it written.                                   *)
PartWritten(k) ==
  /\ value \in Entry /\ value.type = Src(k).type
  /\ IF Src(k).type \in {"zset", "stream"}
     THEN \E C \in SUBSET Elems :
            /\ target[k] = Holding(Src(k).type, C)
            /\ C \cup value.content = Decoded(Src(k)).content
            /\ \A x \in C, y \in value.content : x < y
     ELSE /\ target[k] = None
          /\ value = IF Src(k).type = "module" THEN Src(k) ELSE Decoded(Src(k))

Halfway(k) ==
  /\ k \in skipped => k \in succeeded \cup failed
  /\ pc = "write" => PartWritten(k)
  /\ pc = "expire" => target[k] = Bare(Src(k))

FailsTruly(k) ==
  ~broken /\ k \in failed => Src(k).type = "zset" /\ Src(k).content \cap Infinite # {}

KeyTold(k) == (~Unsure(k) => Settled(k)) /\ (InHand(k) => Halfway(k)) /\ FailsTruly(k)

PossibleSource ==
  \A k \in Keys : /\ source[k] # None => Possible(source[k])
                  /\ Src(k) # None => Possible(Src(k))

NotBegun ==
  pc \in ExportSteps \cup {"idle", "ready"} =>
    todo = <<>> /\ succeeded = {} /\ skipped = {} /\ failed = {} /\ target = before.target

RoundInv ==
  /\ PossibleSource /\ NotBegun /\ AllTrue(todo) /\ (replace => skipped = {})
  /\ \A k \in Untouched : KeyTold(k)

-----------------------------------------------------------------------------
(* What a copy makes of an entry.                                           *)
LEMMA DecodedIs ==
  ASSUME NEW e \in Entry
  PROVE  /\ Decoded(e) \in Entry /\ Decoded(e).type = e.type
         /\ Decoded(e).content = {Decode[x] : x \in e.content}
         /\ Decoded(e).content \subseteq Elems
         /\ EmptyStream(e) <=> e.type = "stream" /\ Decoded(e).content = {}
<1>1. {Decode[x] : x \in e.content} \subseteq Elems
  BY DecodeAssumption DEF Entry
<1>2. Decoded(e) \in Entry /\ Decoded(e).type = e.type /\ Decoded(e).content = {Decode[x] : x \in e.content}
  BY <1>1 DEF Decoded, Entry
<1>3. e.content = {} <=> {Decode[x] : x \in e.content} = {}
  OBVIOUS
<1> QED BY <1>1, <1>2, <1>3 DEF EmptyStream

LEMMA ArrivedIs ==
  ASSUME NEW e \in Entry
  PROVE  /\ Arrived(e).type = e.type
         /\ Arrived(e).content = IF e.type = "module" THEN e.content ELSE Decoded(e).content
         /\ e.expiry = "later" => Arrived(e).expiry = "later"
         /\ e.expiry # "later" => Arrived(e).expiry = "never"
         /\ Arrived(e) = [type |-> e.type, content |-> Arrived(e).content, expiry |-> Arrived(e).expiry]
BY DEF Arrived

(* Its expiry is what is set last.                                          *)
LEMMA ExpireMakesFinal ==
  ASSUME NEW e \in Entry
  PROVE  /\ e.expiry # "later" => Bare(e) = Final(e)
         /\ e.expiry = "later" =>
              Final(e) = IF Bare(e) = None THEN None ELSE [Bare(e) EXCEPT !.expiry = "later"]
<1>1. PICK c : c = Arrived(e).content
  OBVIOUS
<1>2. /\ e.expiry = "later" => Arrived(e) = [type |-> e.type, content |-> c, expiry |-> "later"]
      /\ e.expiry # "later" => Arrived(e) = [type |-> e.type, content |-> c, expiry |-> "never"]
  BY <1>1, ArrivedIs
<1>3. CASE EmptyStream(e)
  BY <1>3 DEF Bare, Final
<1>4. CASE ~EmptyStream(e)
  <2>1. Bare(e) = [type |-> e.type, content |-> c, expiry |-> "never"] /\ Final(e) = Arrived(e)
    BY <1>1, <1>4 DEF Bare, Final
  <2>2. c \in SUBSET Elems
    BY <1>1, ArrivedIs, DecodedIs DEF Entry
  <2>3. Bare(e) \in Entry
    BY <2>1, <2>2 DEF Entry, Expiries
  <2>4. Bare(e) # None
    BY <2>3, NoEntryAssumption
  <2> QED BY <1>2, <2>1, <2>4
<1> QED BY <1>3, <1>4

(* The last element of a value makes it whole.                              *)
LEMMA AllHeldIsBare ==
  ASSUME NEW e \in Entry, Possible(e), e.type \in {"zset", "stream"}
  PROVE  Bare(e) = Holding(e.type, Decoded(e).content)
<1>1. Arrived(e).content = Decoded(e).content
  BY ArrivedIs
<1>2. EmptyStream(e) <=> Decoded(e).content = {}
  <2>1. CASE e.type = "stream"
    BY <2>1, DecodedIs
  <2>2. CASE e.type = "zset"
    BY <2>2, DecodedIs DEF Possible, EmptyStream
  <2> QED BY <2>1, <2>2
<1> QED BY <1>1, <1>2 DEF Bare, Holding

LEMMA AddsElement ==
  ASSUME NEW t \in Types, NEW C \in SUBSET Elems, NEW x \in Elems
  PROVE  /\ Added(Holding(t, C), t, {x}) = Holding(t, C \cup {x})
         /\ Takes(Holding(t, C), t)
         /\ (\A y \in C : y < x) => Above(x, Holding(t, C))
<1>1. CASE C = {}
  BY <1>1 DEF Holding, Added, Takes, Above
<1>2. CASE C # {}
  <2>1. Holding(t, C) = [type |-> t, content |-> C, expiry |-> "never"]
    BY <1>2 DEF Holding
  <2>2. Holding(t, C) \in Entry
    BY <2>1 DEF Entry, Expiries
  <2>3. Holding(t, C) # None
    BY <2>2, NoEntryAssumption
  <2>4. Holding(t, C \cup {x}) = [type |-> t, content |-> C \cup {x}, expiry |-> "never"]
    BY DEF Holding
  <2> QED BY <2>1, <2>3, <2>4 DEF Added, Takes, Above
<1> QED BY <1>1, <1>2

-----------------------------------------------------------------------------
(* The key at hand.                                                         *)

(* What is known of it while the import writes it.                          *)
Known(k) ==
  /\ pc \in ImportSteps /\ todo # <<>> /\ k \in Keys /\ k = current.key
  /\ Src(k) \in Entry /\ Possible(Src(k)) /\ current = AsExported(k, Src(k))
  /\ target \in Database /\ KeyTold(k) /\ (replace => skipped = {})

LEMMA CurrentKnown ==
  ASSUME TypeOK, RoundInv, pc \in ImportSteps, NEW k \in Untouched, k = current.key
  PROVE  Known(k)
<1>1. todo \in Seq(FileEntry) /\ todo # <<>> /\ k \in Keys
  BY DEF TypeOK, ImportOK, Untouched
<1>2. 1 \in EntriesOf(todo, k) /\ todo[1] = current
  BY <1>1 DEF current, EntriesOf
<1>3. k \in StillThere
  BY DEF Untouched, StillThere
<1>4. Src(k) # None /\ current = AsExported(k, Src(k))
  BY <1>2, <1>3 DEF RoundInv, AllTrue, Src
<1>5. Src(k) \in Entry
  BY <1>1, <1>4 DEF TypeOK, DbsOK, Database, Src
<1>6. Possible(Src(k)) /\ target \in Database /\ KeyTold(k) /\ (replace => skipped = {})
  BY <1>1, <1>4 DEF RoundInv, PossibleSource, TypeOK, DbsOK
<1> QED BY <1>1, <1>4, <1>5, <1>6 DEF Known

LEMMA KnownEntry ==
  ASSUME NEW k, Known(k)
  PROVE  /\ current.type = Src(k).type /\ Src(k).type \in Types
         /\ current.ttl <=> Src(k).expiry = "later"
         /\ current.value \in Entry /\ current.value.type = Src(k).type
         /\ current.value = IF Src(k).type = "module" THEN Src(k) ELSE Decoded(Src(k))
<1>1. PICK b \in Entry : b = Src(k)
  BY DEF Known
<1>2. current.type = b.type /\ current.value = IF b.type = "module" THEN b ELSE Decoded(b)
  BY <1>1 DEF Known, AsExported
<1>3. current.ttl = (b.expiry = "later")
  BY <1>1 DEF Known, AsExported
<1>4. current.ttl <=> b.expiry = "later"
  BY <1>3
<1>5. current.value \in Entry /\ current.value.type = b.type /\ b.type \in Types
  BY <1>2, DecodedIs DEF Entry
<1> QED BY <1>1, <1>2, <1>4, <1>5

(* How the step of the key at hand ends.                                    *)
LEMMA EndedTells ==
  ASSUME NEW k, Known(k), UNCHANGED <<before, replace>>, UNCHANGED broken \/ broken' = TRUE,
         \/ Succeed /\ target'[k] = Final(Src(k))
         \/ Fail /\ (broken' = TRUE \/ (Src(k).type = "zset" /\ Src(k).content \cap Infinite # {}))
         \/ Skip /\ pc = "check" /\ ~replace /\ target[k] # None /\ UNCHANGED target
  PROVE  KeyTold(k)'
<1>1. pc' \in {"check", "done"} /\ Src(k)' = Src(k) /\ k = current.key
  BY DEF Succeed, Fail, Skip, NextEntry, Src, Known
<1>2. ~Unsure(k)' /\ ~InHand(k)'
  BY <1>1 DEF Unsure, InHand
<1>3. CASE Succeed /\ target'[k] = Final(Src(k))
  <2>1. k \in succeeded' /\ failed' = failed /\ skipped' = skipped
    BY <1>1, <1>3 DEF Succeed
  <2>2. Src(k) # None
    BY NoEntryAssumption DEF Known
  <2>3. Settled(k)'
    BY <1>1, <1>3, <2>1, <2>2 DEF Settled
  <2>4. FailsTruly(k)'
    BY <1>1, <2>1 DEF FailsTruly, Known, KeyTold
  <2> QED BY <1>2, <2>3, <2>4 DEF KeyTold
<1>4. CASE Fail /\ (broken' = TRUE \/ (Src(k).type = "zset" /\ Src(k).content \cap Infinite # {}))
  <2>1. k \in failed'
    BY <1>1, <1>4 DEF Fail
  <2>2. Settled(k)'
    BY <2>1 DEF Settled
  <2>3. FailsTruly(k)'
    BY <1>1, <1>4 DEF FailsTruly
  <2> QED BY <1>2, <2>2, <2>3 DEF KeyTold
<1>5. CASE Skip /\ pc = "check" /\ ~replace /\ target[k] # None /\ UNCHANGED target
  <2>1. Settled(k)
    BY <1>5 DEF Known, KeyTold, Unsure, InHand
  <2>2. succeeded' = succeeded /\ failed' = failed /\ replace' = replace /\ target' = target
    BY <1>5 DEF Skip
  <2>3. Settled(k)'
    BY <1>1, <1>5, <2>1, <2>2 DEF Settled
  <2>4. FailsTruly(k)'
    BY <1>1, <2>2 DEF FailsTruly, Known, KeyTold
  <2> QED BY <1>2, <2>3, <2>4 DEF KeyTold
<1> QED BY <1>3, <1>4, <1>5

LEMMA GoesOnTells ==
  ASSUME NEW k, Known(k), UNCHANGED <<before, replace>>, UNCHANGED broken,
         NEW p, Go(p), p \in {"clear", "write", "expire"}, Halfway(k)'
  PROVE  KeyTold(k)'
<1>1. /\ pc' = p /\ UNCHANGED <<todo, succeeded, skipped, failed>> /\ Src(k)' = Src(k)
  BY DEF Go, result, Src
<1>2. Unsure(k)'
  BY <1>1 DEF Unsure, InHand, Known, current
<1>3. FailsTruly(k)'
  BY <1>1 DEF FailsTruly, Known, KeyTold
<1> QED BY <1>2, <1>3 DEF KeyTold

(* Nothing but skipped keys were skipped.                                   *)
LEMMA StillHalfway ==
  ASSUME NEW k, Known(k), pc # "check", NEW p, Go(p), p # "aborted"
  PROVE  k \in skipped' => k \in succeeded' \cup failed'
<1>1. InHand(k)
  BY DEF Known, InHand, ImportSteps
<1> QED BY <1>1 DEF Known, KeyTold, Halfway, Go, result

LEMMA CheckTells ==
  ASSUME NEW k, Known(k), CheckTarget
  PROVE  KeyTold(k)'
<1>1. /\ pc = "check" /\ UNCHANGED <<target, broken, replace, before>> /\ k = current.key
  BY DEF CheckTarget, Importing, Known
<1>2. CASE ~replace /\ target[k] # None
  <2>1. Skip
    BY <1>1, <1>2 DEF CheckTarget
  <2> QED BY <1>1, <1>2, <2>1, EndedTells
<1>3. CASE ~(~replace /\ target[k] # None)
  <2>1. Go("clear")
    BY <1>1, <1>3 DEF CheckTarget
  <2>2. Settled(k)
    BY <1>1 DEF Known, KeyTold, Unsure, InHand
  <2>3. k \in skipped => k \in succeeded \cup failed
    BY <1>3, <2>2 DEF Settled, Known
  <2>4. Halfway(k)'
    BY <2>1, <2>3 DEF Halfway, Go, result
  <2> QED BY <1>1, <2>1, <2>4, GoesOnTells
<1> QED BY <1>2, <1>3

LEMMA ClearTells ==
  ASSUME NEW k, Known(k), ClearTarget
  PROVE  KeyTold(k)'
<1>1. /\ pc = "clear" /\ UNCHANGED <<replace, before>> /\ k = current.key /\ k \in Keys
      /\ target' = [target EXCEPT ![current.key] = None]
  BY DEF ClearTarget, Importing, Known
<1>2. CASE Fail /\ broken' = TRUE
  BY <1>1, <1>2, EndedTells
<1>3. CASE Go("write") /\ value' = current.value /\ UNCHANGED broken
  <2>1. target'[k] = None
    BY <1>1 DEF Known, Database
  <2>2. Src(k)' = Src(k)
    BY <1>1 DEF Src
  <2>3. PartWritten(k)'
    <3>1. value' \in Entry /\ value'.type = Src(k).type
          /\ value' = IF Src(k).type = "module" THEN Src(k) ELSE Decoded(Src(k))
      BY <1>3, KnownEntry
    <3>2. CASE Src(k).type \in {"zset", "stream"}
      <4>1. target'[k] = Holding(Src(k).type, {})
        BY <2>1 DEF Holding
      <4>2. {} \cup value'.content = Decoded(Src(k)).content
        BY <3>1, <3>2
      <4> QED BY <2>2, <3>1, <3>2, <4>1, <4>2 DEF PartWritten
    <3>3. CASE Src(k).type \notin {"zset", "stream"}
      BY <2>1, <2>2, <3>1, <3>3 DEF PartWritten
    <3> QED BY <3>2, <3>3
  <2>4. Halfway(k)'
    <3>1. pc' = "write"
      BY <1>3 DEF Go
    <3> QED BY <1>1, <1>3, <2>3, <3>1, StillHalfway DEF Halfway
  <2> QED BY <1>1, <1>3, <2>4, GoesOnTells
<1> QED BY <1>2, <1>3 DEF ClearTarget, Answered

(* The whole value is written at once.                                      *)
LEMMA WrittenTells ==
  ASSUME NEW k, Known(k), pc = "write", UNCHANGED <<before, replace>>,
         NEW e, e = Bare(Src(k)), Put(e), Written
  PROVE  KeyTold(k)'
<1>1. target'[k] = e
  BY DEF Put, Known, Database
<1>2. Src(k)' = Src(k)
  BY DEF Src
<1>3. CASE Fail /\ broken' = TRUE
  BY <1>3, EndedTells
<1>4. CASE Go("expire") /\ UNCHANGED broken
  <2>1. pc' = "expire"
    BY <1>4 DEF Go
  <2>2. Halfway(k)'
    BY <1>1, <1>2, <1>4, <2>1, StillHalfway DEF Halfway
  <2> QED BY <1>4, <2>2, GoesOnTells
<1> QED BY <1>3, <1>4 DEF Written, Answered

LEMMA WholeTells ==
  ASSUME NEW k, Known(k), WriteString \/ WriteModule \/ WriteCollection
  PROVE  KeyTold(k)'
<1>1. pc = "write" /\ UNCHANGED <<before, replace>> /\ k = current.key /\ PartWritten(k)
  BY DEF WriteString, WriteModule, WriteCollection, Importing, Known, KeyTold, InHand, Halfway
<1>2. current.type = Src(k).type /\ Src(k) \in Entry
  BY KnownEntry DEF Known
<1>3. value # None /\ value \in Entry
  BY <1>1, NoEntryAssumption DEF PartWritten
<1>4. ASSUME Src(k).type \in {"string", "collection", "module"}
      PROVE  /\ target[k] = None
             /\ value = IF Src(k).type = "module" THEN Src(k) ELSE Decoded(Src(k))
             /\ Bare(Src(k)) = [type |-> Src(k).type, content |-> value.content, expiry |-> "never"]
  <2>1. /\ target[k] = None
        /\ value = IF Src(k).type = "module" THEN Src(k) ELSE Decoded(Src(k))
    BY <1>1, <1>4 DEF PartWritten
  <2>2. Arrived(Src(k)).content = value.content
    BY <1>2, <2>1, ArrivedIs
  <2>3. ~EmptyStream(Src(k))
    BY <1>4 DEF EmptyStream
  <2> QED BY <2>1, <2>2, <2>3 DEF Bare
<1>5. CASE WriteString
  <2>1. Src(k).type = "string" /\ Left = value.content
    BY <1>2, <1>3, <1>5 DEF WriteString, Left
  <2>2. Put([type |-> "string", content |-> Left, expiry |-> "never"]) /\ Written
    BY <1>3, <1>5 DEF WriteString
  <2>3. Bare(Src(k)) = [type |-> "string", content |-> Left, expiry |-> "never"]
    BY <1>4, <2>1
  <2> QED BY <1>1, <2>2, <2>3, WrittenTells
<1>6. CASE WriteModule
  <2>1. Src(k).type = "module"
    BY <1>2, <1>6 DEF WriteModule
  <2>2. Put([value EXCEPT !.expiry = "never"]) /\ Written
    BY <1>3, <1>6 DEF WriteModule
  <2>3. value.type = "module" /\ Bare(Src(k)) = [type |-> "module", content |-> value.content, expiry |-> "never"]
    BY <1>4, <2>1
  <2>4. Bare(Src(k)) = [value EXCEPT !.expiry = "never"]
    BY <1>3, <2>3 DEF Entry
  <2> QED BY <1>1, <2>2, <2>4, WrittenTells
<1>7. CASE WriteCollection
  <2>1. Src(k).type = "collection" /\ target[k] = None
    BY <1>2, <1>4, <1>7 DEF WriteCollection
  <2>2. Takes(target[k], "collection")
    BY <2>1 DEF Takes
  <2>3. Put(Added(target[k], "collection", value.content)) /\ Written
    BY <1>1, <1>3, <1>7, <2>2 DEF WriteCollection
  <2>4. Added(target[k], "collection", value.content) = Bare(Src(k))
    BY <1>4, <2>1 DEF Added
  <2> QED BY <1>1, <2>3, <2>4, WrittenTells
<1> QED BY <1>5, <1>6, <1>7

(* Element by element.  For a key nobody else touches, only a score that is *)
(* infinite is refused.                                                     *)
LEMMA RefusedIsInfinite ==
  ASSUME NEW e \in Entry, NEW C \in SUBSET Elems, NEW x \in Decoded(e).content,
         e.type \in {"zset", "stream"}, target[current.key] = Holding(e.type, C),
         current.type = e.type, \A y \in C : y < x, Refused(x)
  PROVE  e.type = "zset" /\ e.content \cap Infinite # {}
<1>1. x \in Elems /\ e.type \in Types
  BY DecodedIs DEF Types
<1>2. Takes(target[current.key], current.type) /\ Above(x, target[current.key])
  BY <1>1, AddsElement, ZenonT(40)
<1>3. e.type = "zset" /\ x \in Infinite
  BY <1>2 DEF Refused
<1>4. PICK y \in e.content : x = Decode[y]
  BY DecodedIs
<1>5. y \in Infinite
  BY <1>3, <1>4, InfiniteAssumption DEF Entry
<1> QED BY <1>3, <1>4, <1>5

LEMMA OneByOneTells ==
  ASSUME NEW k, Known(k), WriteOneByOne
  PROVE  KeyTold(k)'
<1>1. pc = "write" /\ UNCHANGED <<before, replace>> /\ k = current.key /\ PartWritten(k)
  BY DEF WriteOneByOne, Importing, Known, KeyTold, InHand, Halfway
<1>2. /\ Src(k) \in Entry /\ Possible(Src(k)) /\ current.type = Src(k).type /\ Src(k).type \in Types
      /\ Src(k).type \in {"zset", "stream"}
  BY KnownEntry DEF Known, WriteOneByOne
<1>3. value # None /\ value \in Entry /\ value.type = Src(k).type /\ value.content \in SUBSET Elems
  BY <1>1, NoEntryAssumption DEF PartWritten, Entry
<1>4. PICK C \in SUBSET Elems :
        /\ target[k] = Holding(Src(k).type, C)
        /\ C \cup value.content = Decoded(Src(k)).content
        /\ \A x \in C, y \in value.content : x < y
  BY <1>1, <1>2 DEF PartWritten
<1>5. Left = value.content /\ Src(k)' = Src(k)
  BY <1>1, <1>3 DEF Left, Src
<1>6. CASE Left = {}
  <2>1. Go("expire") /\ UNCHANGED <<target, broken>>
    BY <1>6 DEF WriteOneByOne
  <2>2. target'[k] = Bare(Src(k))
    BY <1>2, <1>4, <1>5, <1>6, <2>1, AllHeldIsBare
  <2>3. Halfway(k)'
    <3>1. pc' = "expire"
      BY <2>1 DEF Go
    <3> QED BY <1>1, <1>5, <2>1, <2>2, <3>1, StillHalfway DEF Halfway
  <2> QED BY <1>1, <2>1, <2>3, GoesOnTells
<1>7. CASE Left # {}
  <2>1. PICK x \in Left :
          /\ Lowest(x, Left)
          /\ IF Refused(x)
             THEN Fail /\ UNCHANGED <<target, broken>>
             ELSE /\ Put(Added(target[current.key], current.type, {x}))
                  /\ Answered(Go("write") /\ value' = [value EXCEPT !.content = @ \ {x}])
    BY <1>7 DEF WriteOneByOne
  <2>2. x \in Elems /\ x \in Decoded(Src(k)).content /\ \A y \in C : y < x
    BY <1>3, <1>4, <1>5
  <2>3. CASE Refused(x)
    <3>1. Src(k).type = "zset" /\ Src(k).content \cap Infinite # {}
      BY <1>1, <1>2, <1>4, <2>2, <2>3, RefusedIsInfinite
    <3> QED BY <1>1, <2>1, <2>3, <3>1, EndedTells
  <2>4. CASE ~Refused(x)
    <3>1. /\ Put(Added(target[current.key], current.type, {x}))
          /\ Answered(Go("write") /\ value' = [value EXCEPT !.content = @ \ {x}])
      BY <2>1, <2>4
    <3>2. CASE Fail /\ broken' = TRUE
      BY <1>1, <3>2, EndedTells
    <3>3. CASE Go("write") /\ value' = [value EXCEPT !.content = @ \ {x}] /\ UNCHANGED broken
      <4>1. target'[k] = Holding(Src(k).type, C \cup {x})
        <5>1. PICK h : h = Added(target[k], Src(k).type, {x})
          OBVIOUS
        <5>2. h = Holding(Src(k).type, C \cup {x})
          BY <1>2, <1>4, <2>2, <5>1, AddsElement
        <5>3. Put(h) /\ k \in Keys /\ target \in Database
          BY <1>1, <1>2, <3>1, <5>1 DEF Known
        <5>4. target'[k] = h
          BY <1>1, <5>3 DEF Put, Database
        <5> QED BY <5>2, <5>4
      <4>2. value' \in Entry /\ value'.type = Src(k).type /\ value'.content = value.content \ {x}
        BY <1>3, <3>3 DEF Entry
      <4>3. (C \cup {x}) \cup value'.content = Decoded(Src(k)).content
        BY <1>4, <1>5, <2>1, <4>2
      <4>4. \A y \in C \cup {x}, z \in value'.content : y < z
        <5> SUFFICES ASSUME NEW y \in C \cup {x}, NEW z \in value'.content PROVE y < z
          OBVIOUS
        <5>1. z \in value.content /\ z # x
          BY <4>2
        <5>2. x \in Nat /\ z \in Nat /\ x <= z
          BY <1>3, <1>5, <2>1, <2>2, <5>1, ElemsAssumption DEF Lowest
        <5> QED BY <1>4, <5>1, <5>2
      <4>5. C \cup {x} \in SUBSET Elems
        BY <2>2
      <4>6. PartWritten(k)'
        BY <1>2, <1>5, <4>1, <4>2, <4>3, <4>4, <4>5 DEF PartWritten
      <4>7. pc' = "write"
        BY <3>3 DEF Go
      <4>8. Halfway(k)'
        BY <1>1, <3>3, <4>6, <4>7, StillHalfway DEF Halfway
      <4> QED BY <1>1, <3>3, <4>8, GoesOnTells
    <3> QED BY <3>1, <3>2, <3>3 DEF Answered
  <2> QED BY <2>3, <2>4
<1> QED BY <1>6, <1>7

LEMMA ExpireTells ==
  ASSUME NEW k, Known(k), ExpireTarget
  PROVE  KeyTold(k)'
<1>1. pc = "expire" /\ UNCHANGED <<before, replace>> /\ k = current.key /\ k \in Keys
      /\ target[k] = Bare(Src(k)) /\ target \in Database
  BY DEF ExpireTarget, Importing, Known, KeyTold, InHand, Halfway
<1>2. Src(k) \in Entry /\ (current.ttl <=> Src(k).expiry = "later")
  BY KnownEntry DEF Known
<1>3. target'[k] = Final(Src(k))
  <2>1. CASE current.ttl /\ target[current.key] # None
    <3>1. Put([target[current.key] EXCEPT !.expiry = "later"])
      BY <2>1 DEF ExpireTarget
    <3>2. target'[k] = [target[k] EXCEPT !.expiry = "later"]
      BY <1>1, <3>1 DEF Put, Database
    <3> QED BY <1>1, <1>2, <2>1, <3>2, ExpireMakesFinal
  <2>2. CASE ~(current.ttl /\ target[current.key] # None)
    <3>1. target' = target
      BY <2>2 DEF ExpireTarget
    <3> QED BY <1>1, <1>2, <2>2, <3>1, ExpireMakesFinal
  <2> QED BY <2>1, <2>2
<1>4. (Succeed /\ UNCHANGED broken) \/ (Fail /\ broken' = TRUE)
  BY DEF ExpireTarget, Answered
<1> QED BY <1>1, <1>3, <1>4, EndedTells

LEMMA WritingTells ==
  ASSUME NEW k, Known(k), Writing
  PROVE  KeyTold(k)'
<1>1. CASE CommandFails
  <2>1. Fail /\ broken' = TRUE /\ UNCHANGED <<before, replace>>
    BY <1>1 DEF CommandFails, Importing
  <2> QED BY <2>1, EndedTells
<1> QED BY <1>1, CheckTells, ClearTells, WholeTells, OneByOneTells, ExpireTells DEF Writing

(* Every other key.                                                         *)
LEMMA OthersTold ==
  ASSUME TypeOK, RoundInv, ImportStep, NEW k \in Untouched, k # current.key,
         UNCHANGED broken \/ broken' = TRUE
  PROVE  KeyTold(k)'
<1>1. pc \in ImportSteps /\ UNCHANGED <<before, replace>> /\ k \in Keys
  BY DEF ImportStep, Importing, Untouched
<1>2. KeyTold(k) /\ ~Unsure(k)
  BY <1>1 DEF RoundInv, Unsure, InHand, ImportSteps
<1>3. target'[k] = target[k]
  BY <1>1, OtherKeysStay DEF ImportStep
<1>4. /\ k \in succeeded' <=> k \in succeeded
      /\ k \in skipped' <=> k \in skipped
      /\ k \in failed' <=> k \in failed
  BY DEF ImportStep, Succeed, Skip, Fail, result
<1>5. ~Unsure(k)' /\ ~InHand(k)'
  <2>1. CASE UNCHANGED todo /\ pc' \in ImportSteps
    BY <2>1 DEF Unsure, InHand, current, ImportSteps
  <2>2. CASE Succeed \/ Skip \/ Fail
    <3>1. pc' \in {"check", "done"}
      BY <2>2 DEF Succeed, Skip, Fail, NextEntry
    <3> QED BY <3>1 DEF Unsure, InHand
  <2> QED BY <2>1, <2>2 DEF ImportStep
<1>6. Src(k)' = Src(k) /\ before' = before
  BY <1>1 DEF Src
<1>7. Settled(k)'
  BY <1>1, <1>2, <1>3, <1>4, <1>6 DEF KeyTold, Settled
<1>8. FailsTruly(k)'
  BY <1>2, <1>4, <1>6 DEF KeyTold, FailsTruly
<1> QED BY <1>5, <1>7, <1>8 DEF KeyTold

-----------------------------------------------------------------------------
(* Every step.                                                              *)

LEMMA TailTrue ==
  ASSUME todo \in Seq(FileEntry), todo # <<>>, AllTrue(todo), todo' = Tail(todo),
         UNCHANGED <<before, meddled>>
  PROVE  AllTrue(todo)'
<1> SUFFICES ASSUME NEW k \in StillThere, NEW i \in EntriesOf(todo', k)
             PROVE  before.source[k] # None /\ todo'[i] = AsExported(k, before.source[k])
  BY DEF AllTrue, StillThere
<1>1. i \in 1 .. Len(Tail(todo)) /\ Tail(todo)[i].key = k
  BY DEF EntriesOf
<1>2. i + 1 \in 1 .. Len(todo) /\ todo[i + 1] = Tail(todo)[i]
  BY <1>1
<1>3. i + 1 \in EntriesOf(todo, k)
  BY <1>1, <1>2 DEF EntriesOf
<1> QED BY <1>2, <1>3 DEF AllTrue

LEMMA WritingKeeps ==
  ASSUME TypeOK, RoundInv, Writing
  PROVE  RoundInv'
<1>1. ImportStep
  BY WritingIsAStep
<1>2. /\ pc \in ImportSteps /\ Importing /\ UNCHANGED <<source, before, meddled, replace>>
      /\ todo \in Seq(FileEntry) /\ todo # <<>>
  BY <1>1 DEF ImportStep, Importing, others, TypeOK, ImportOK
<1>3. PossibleSource'
  BY <1>2 DEF RoundInv, PossibleSource, Src
<1>4. pc' \notin ExportSteps \cup {"idle", "ready"}
  <2>1. CASE Succeed \/ Skip \/ Fail
    BY <2>1 DEF Succeed, Skip, Fail, NextEntry, ExportSteps
  <2>2. CASE pc' \in ImportSteps
    BY <2>2 DEF ImportSteps, ExportSteps
  <2> QED BY <1>1, <2>1, <2>2 DEF ImportStep
<1>5. NotBegun'
  BY <1>4 DEF NotBegun
<1>6. AllTrue(todo)'
  <2>1. CASE UNCHANGED todo
    BY <1>2, <2>1 DEF RoundInv, AllTrue, StillThere
  <2>2. CASE Succeed \/ Skip \/ Fail
    BY <1>2, <2>2, TailTrue DEF Succeed, Skip, Fail, NextEntry, RoundInv
  <2> QED BY <1>1, <2>1, <2>2 DEF ImportStep
<1>7. replace' => skipped' = {}
  <2>1. UNCHANGED skipped \/ ~replace
    BY DEF Writing, CheckTarget, ClearTarget, WriteString, WriteModule, WriteCollection,
         WriteOneByOne, ExpireTarget, CommandFails, Written, Answered, Go, Succeed, Fail, result
  <2> QED BY <1>2, <2>1 DEF RoundInv
<1>8. UNCHANGED broken \/ broken' = TRUE
  BY DEF Writing, CheckTarget, ClearTarget, WriteString, WriteModule, WriteCollection,
       WriteOneByOne, ExpireTarget, CommandFails, Written, Answered
<1>9. ASSUME NEW k \in Untouched PROVE KeyTold(k)'
  <2>1. CASE k = current.key
    BY <1>2, <2>1, CurrentKnown, WritingTells
  <2>2. CASE k # current.key
    BY <1>1, <1>8, <2>2, OthersTold
  <2> QED BY <2>1, <2>2
<1>10. Untouched' = Untouched
  BY <1>2 DEF Untouched
<1> QED BY <1>3, <1>5, <1>6, <1>7, <1>9, <1>10 DEF RoundInv

LEMMA NotBegunTells ==
  ASSUME pc \in ExportSteps \cup {"idle", "ready"}, NotBegun
  PROVE  /\ AllTrue(todo) /\ skipped = {}
         /\ \A k : KeyTold(k)
<1>1. todo = <<>> /\ succeeded = {} /\ skipped = {} /\ failed = {} /\ target = before.target
  BY DEF NotBegun
<1>2. AllTrue(todo)
  BY <1>1 DEF AllTrue, EntriesOf
<1>3. ASSUME NEW k PROVE KeyTold(k)
  BY <1>1 DEF KeyTold, Unsure, InHand, Settled, FailsTruly, ExportSteps
<1> QED BY <1>1, <1>2, <1>3

(* A step of an export or of a client of the source: nothing of the import. *)
LEMMA BeforeImport ==
  ASSUME PossibleSource', NotBegun, pc \in ExportSteps \cup {"idle"},
         pc' \in ExportSteps \cup {"idle", "ready"},
         UNCHANGED <<todo, result, target>>, before'.target = before.target
  PROVE  RoundInv'
<1>1. /\ todo' = <<>> /\ succeeded' = {} /\ skipped' = {} /\ failed' = {}
      /\ target' = before'.target
  BY DEF NotBegun, result
<1>2. NotBegun'
  BY <1>1 DEF NotBegun
<1>3. AllTrue(todo)'
  BY <1>1 DEF AllTrue, EntriesOf
<1>4. ASSUME NEW k PROVE KeyTold(k)'
  BY <1>1 DEF KeyTold, Unsure, InHand, Settled, FailsTruly, ExportSteps
<1> QED BY <1>1, <1>2, <1>3, <1>4 DEF RoundInv

LEMMA LaterPossible ==
  ASSUME NEW e \in Entry, Possible(e), Later(e) # None
  PROVE  Possible(Later(e))
BY DEF Later, Possible, Entry

LEMMA RoundStep ==
  ASSUME TypeOK, ExportInv, RoundInv, [Next]_vars
  PROVE  RoundInv'
<1>0. PossibleSource /\ NotBegun
  BY DEF RoundInv
<1>1. CASE Export
  <2>1. ASSUME NEW ks \in KeyLists, exportToDisk(ks) PROVE RoundInv'
    <3>1. /\ pc = "idle" /\ pc' \in {"save", "type"} /\ before' = [before EXCEPT !.source = source]
          /\ UNCHANGED <<source, todo, result, target>>
      BY <2>1 DEF exportToDisk, dbs, import
    <3>2. before'.source = source /\ before'.target = before.target
      BY <3>1 DEF TypeOK, DbsOK
    <3>3. PossibleSource'
      BY <1>0, <3>1, <3>2 DEF PossibleSource, Src
    <3> QED BY <1>0, <3>1, <3>2, <3>3, BeforeImport DEF ExportSteps
  <2>2. CASE ReadType \/ ReadTtl \/ readValue \/ SaveFile \/ ExportFails
    <3>1. /\ pc \in ExportSteps /\ UNCHANGED <<source, before, todo, result, target>>
          /\ pc' \in ExportSteps \cup {"idle", "ready"}
      BY <2>2 DEF ReadType, ReadTtl, readValue, SaveFile, ExportFails, NextName, Reading, dbs, import,
           ExportSteps
    <3>2. PossibleSource'
      BY <1>0, <3>1 DEF PossibleSource, Src
    <3> QED BY <1>0, <3>1, <3>2, BeforeImport
  <2> QED BY <1>1, <2>1, <2>2 DEF Export
<1>2. CASE Import
  <2>1. ASSUME NEW r \in BOOLEAN, importFromDisk(r) PROVE RoundInv'
    <3>1. /\ pc = "ready" /\ file # None /\ todo' = file /\ pc' \in {"done", "check"}
          /\ before' = [before EXCEPT !.target = target]
          /\ meddled' = [meddled EXCEPT !.target = {}]
          /\ UNCHANGED <<source, target, result, broken>>
      BY <2>1 DEF importFromDisk, dbs
    <3>2. /\ before'.source = before.source /\ before'.target = target
          /\ meddled'.source = meddled.source
      BY <3>1 DEF TypeOK, DbsOK, RestOK
    <3>3. succeeded' = {} /\ skipped' = {} /\ failed' = {}
      BY <1>0, <3>1 DEF NotBegun, result
    <3>4. AllTrue(todo)'
      BY <3>1, <3>2 DEF ExportInv, AllTrue, StillThere
    <3>5. PossibleSource'
      BY <1>0, <3>1, <3>2 DEF PossibleSource, Src
    <3>6. NotBegun'
      BY <3>1 DEF NotBegun, ExportSteps
    <3>7. ASSUME NEW k PROVE KeyTold(k)'
      BY <3>1, <3>2, <3>3 DEF KeyTold, Unsure, InHand, Settled, FailsTruly
    <3> QED BY <3>3, <3>4, <3>5, <3>6, <3>7 DEF RoundInv
  <2>2. CASE Writing
    BY <2>2, WritingKeeps
  <2>3. CASE BackendStops
    <3>1. /\ pc \in ImportSteps /\ pc' = "aborted" /\ todo # <<>>
          /\ UNCHANGED <<source, target, todo, replace, succeeded, skipped, failed, before, meddled, broken>>
      BY <2>3 DEF BackendStops, dbs, import, result, others, TypeOK, ImportOK
    <3>2. PossibleSource' /\ NotBegun' /\ AllTrue(todo)' /\ (replace' => skipped' = {})
      BY <3>1 DEF RoundInv, PossibleSource, NotBegun, AllTrue, StillThere, Src, ExportSteps
    <3>3. ASSUME NEW k \in Untouched PROVE KeyTold(k)'
      <4>1. KeyTold(k)
        BY DEF RoundInv
      <4>2. ~InHand(k)' /\ Src(k)' = Src(k) /\ Remaining' = Remaining
        BY <3>1 DEF InHand, Src, Remaining
      <4>3. k \notin Remaining => k # current.key
        <5>1. current = todo[1] /\ 1 \in 1 .. Len(todo)
          BY <3>1 DEF TypeOK, ImportOK, current
        <5> QED BY <5>1 DEF Remaining
      <4>4. ~Unsure(k)' => ~Unsure(k)
        BY <3>1, <4>2, <4>3 DEF Unsure, InHand, ImportSteps
      <4>5. Settled(k) => Settled(k)'
        BY <3>1, <4>2 DEF Settled
      <4>6. FailsTruly(k)'
        BY <3>1, <4>1, <4>2 DEF KeyTold, FailsTruly
      <4> QED BY <4>1, <4>2, <4>4, <4>5, <4>6 DEF KeyTold
    <3>4. Untouched' = Untouched
      BY <3>1 DEF Untouched
    <3> QED BY <3>2, <3>3, <3>4 DEF RoundInv
  <2> QED BY <1>2, <2>1, <2>2, <2>3 DEF Import, Writing
<1>3. ASSUME NEW n \in Keys, OthersAtSource(n) PROVE RoundInv'
  <2>1. /\ pc \in ExportSteps /\ UNCHANGED <<pc, before, todo, result, target>>
    BY <1>3 DEF OthersAtSource, Meddle, import
  <2>2. /\ \A k \in Keys \ {n} : source'[k] = source[k]
        /\ \/ source'[n] \in Entries \cup {None}
           \/ source[n] # None /\ source'[n] = Later(source[n])
    BY <1>3 DEF OthersAtSource, TypeOK, DbsOK, Database
  <2>3. source'[n] # None => Possible(source'[n])
    BY <1>0, <2>2, EntriesAssumption, LaterPossible DEF TypeOK, DbsOK, Database, PossibleSource
  <2>4. PossibleSource'
    BY <1>0, <2>1, <2>2, <2>3 DEF PossibleSource, Src
  <2> QED BY <1>0, <2>1, <2>4, BeforeImport
<1>4. ASSUME NEW n \in Keys, OthersAtTarget(n) PROVE RoundInv'
  <2>1. /\ pc \in ImportSteps
        /\ UNCHANGED <<pc, source, before, todo, value, replace, succeeded, skipped, failed, broken>>
        /\ meddled' = [meddled EXCEPT !.target = @ \cup {n}]
        /\ \A k \in Keys \ {n} : target'[k] = target[k]
    BY <1>4 DEF OthersAtTarget, Meddle, import, result, TypeOK, DbsOK, Database
  <2>2. Untouched' = Untouched \ {n} /\ meddled'.source = meddled.source
    BY <2>1 DEF Untouched, TypeOK, RestOK
  <2>3. PossibleSource' /\ NotBegun' /\ AllTrue(todo)' /\ (replace' => skipped' = {})
    BY <2>1, <2>2 DEF RoundInv, PossibleSource, NotBegun, AllTrue, StillThere, Src, ExportSteps,
         ImportSteps
  <2>4. ASSUME NEW k \in Untouched' PROVE KeyTold(k)'
    <3>1. KeyTold(k) /\ target'[k] = target[k] /\ Src(k)' = Src(k)
      BY <2>1, <2>2 DEF RoundInv, Untouched, Src
    <3>2. /\ Unsure(k)' <=> Unsure(k)
          /\ InHand(k)' <=> InHand(k)
      BY <2>1 DEF Unsure, InHand, current, Remaining
    <3>3. Settled(k) => Settled(k)'
      BY <2>1, <3>1 DEF Settled
    <3>4. PartWritten(k) => PartWritten(k)'
      BY <2>1, <3>1 DEF PartWritten
    <3>5. Halfway(k) => Halfway(k)'
      BY <2>1, <3>1, <3>4 DEF Halfway
    <3>6. FailsTruly(k)'
      BY <2>1, <3>1 DEF KeyTold, FailsTruly
    <3> QED BY <3>1, <3>2, <3>3, <3>5, <3>6 DEF KeyTold
  <2> QED BY <2>3, <2>4 DEF RoundInv
<1>5. CASE deleteExport \/ UNCHANGED vars
  <2>1. UNCHANGED <<dbs, pc, todo, value, replace, succeeded, skipped, failed, before, meddled, broken>>
    BY <1>5 DEF deleteExport, vars, import, result, others
  <2>2. PossibleSource' /\ NotBegun' /\ AllTrue(todo)' /\ (replace' => skipped' = {})
    BY <2>1 DEF RoundInv, PossibleSource, NotBegun, AllTrue, StillThere, Src, dbs
  <2>3. ASSUME NEW k \in Untouched PROVE KeyTold(k)'
    <3>1. KeyTold(k)
      BY DEF RoundInv
    <3> QED BY <2>1, <3>1 DEF KeyTold, Unsure, InHand, current, Remaining, Settled, Halfway,
              PartWritten, FailsTruly, Src, dbs
  <2>4. Untouched' = Untouched
    BY <2>1 DEF Untouched
  <2> QED BY <2>2, <2>3, <2>4 DEF RoundInv
<1> QED BY <1>1, <1>2, <1>3, <1>4, <1>5 DEF Next

LEMMA RoundInit == Init => RoundInv
<1> SUFFICES ASSUME Init PROVE RoundInv
  OBVIOUS
<1>1. PossibleSource
  BY EntriesAssumption DEF Init, PossibleSource, Src
<1>2. NotBegun /\ pc = "idle" /\ ~replace
  BY DEF Init, NotBegun
<1> QED BY <1>1, <1>2, NotBegunTells DEF RoundInv

LEMMA ExportInit == Init => ExportInv
BY DEF Init, ExportInv, ExportSteps

(* Of the keys nobody else touched, those reported as imported are in the   *)
(* target as a copy would have left them, and those skipped are as they     *)
(* were.                                                                    *)
THEOREM ImportsWhatWasExported == Spec => []RoundTrip
<1>1. TypeOK /\ RoundInv => RoundTrip
  <2> SUFFICES ASSUME TypeOK, RoundInv, NEW k \in Untouched \ Remaining
               PROVE  /\ k \in succeeded \ failed =>
                           /\ before.source[k] # None
                           /\ target[k] = IF EmptyStream(before.source[k]) THEN None
                                          ELSE Arrived(before.source[k])
                      /\ k \in skipped \ (succeeded \cup failed) =>
                           ~replace /\ target[k] # None /\ target[k] = before.target[k]
    BY DEF RoundTrip
  <2>1. KeyTold(k)
    BY DEF RoundInv
  <2>2. CASE ~Unsure(k)
    BY <2>1, <2>2 DEF KeyTold, Settled, Final, Src
  <2>3. ~Unsure(k)
    <3>1. todo # <<>> /\ todo \in Seq(FileEntry) => current.key \in Remaining
      <4>1. todo # <<>> /\ todo \in Seq(FileEntry) => current = todo[1] /\ 1 \in 1 .. Len(todo)
        BY DEF current
      <4> QED BY <4>1 DEF Remaining
    <3> QED BY <3>1 DEF Unsure, InHand, TypeOK, ImportOK, ImportSteps
  <2> QED BY <2>2, <2>3
<1> QED BY <1>1, InitType, NextType, ExportInit, ExportStep, RoundInit, RoundStep, PTL DEF Spec

(* If every command of an import works, of the keys nobody else touched     *)
(* only sorted sets with an infinite score fail.                            *)
THEOREM FailsForInfinityOnly == Spec => []OnlyInfinityFails
<1>1. RoundInv => OnlyInfinityFails
  BY DEF RoundInv, OnlyInfinityFails, KeyTold, FailsTruly, Src
<1> QED BY <1>1, InitType, NextType, ExportInit, ExportStep, RoundInit, RoundStep, PTL DEF Spec

-----------------------------------------------------------------------------
(* The Migration tab.  An answer is what its request went by, so the        *)
(* invariant says of each request on its way what the property says of its  *)
(* answer.                                                                  *)

(* What a request of this kind goes by, as the tab shows it now.            *)
Goes(r) ==
  /\ r.kind = "scan" => r.crossed \/ r.of = [pattern |-> pattern, db |-> db]
  /\ r.kind = "export" => r.of.pattern = pattern
  /\ r.kind \in {"migrate", "import"} => r.crossed \/ r.of = targetId
  /\ r.kind = "run" => r.crossed \/ r.of = importParsed

RequestsGo == \A j \in Jobs : jobs[j] # None => Goes(jobs[j])

MigrationInv == MigrationTypeOK /\ RequestsGo /\ ShowsWhatItMigrates

-----------------------------------------------------------------------------
(* Types.                                                                   *)

(* A record keeps what it says when it is marked.                           *)
LEMMA MarkedRequest ==
  ASSUME NEW r \in Request
  PROVE  LET m == [r EXCEPT !.crossed = TRUE]
         IN  m \in Request /\ m.crossed = TRUE /\ m.kind = r.kind /\ m.of = r.of
BY DEF Request

LEMMA MarkedAnswer ==
  ASSUME NEW r
  PROVE  /\ r \in Found => Crossed(r) = None \/ (Crossed(r) \in Found /\ Crossed(r).crossed)
         /\ r \in RunOutcome =>
              Crossed(r) = None \/ (Crossed(r) \in RunOutcome /\ Crossed(r).crossed)
         /\ r = None => Crossed(r) = None
BY DEF Crossed, Found, RunOutcome

LEMMA CrossingMarks ==
  ASSUME MigrationTypeOK, NEW kinds, Crossing(kinds)
  PROVE  /\ jobs' \in [Jobs -> Request \cup {None}]
         /\ \A j \in Jobs : jobs'[j] # None =>
              /\ jobs[j] # None /\ jobs'[j].kind = jobs[j].kind /\ jobs'[j].of = jobs[j].of
              /\ IF jobs[j].kind \in kinds THEN jobs'[j].crossed = TRUE ELSE jobs'[j] = jobs[j]
<1>1. ASSUME NEW j \in Jobs
      PROVE  jobs'[j] = IF jobs[j] # None /\ jobs[j].kind \in kinds
                        THEN [jobs[j] EXCEPT !.crossed = TRUE] ELSE jobs[j]
  BY DEF Crossing
<1>2. ASSUME NEW j \in Jobs
      PROVE  /\ jobs'[j] \in Request \cup {None}
             /\ jobs'[j] # None =>
                  /\ jobs[j] # None /\ jobs'[j].kind = jobs[j].kind /\ jobs'[j].of = jobs[j].of
                  /\ IF jobs[j].kind \in kinds THEN jobs'[j].crossed = TRUE ELSE jobs'[j] = jobs[j]
  <2>0. jobs[j] \in Request \cup {None}
    BY DEF MigrationTypeOK
  <2>1. CASE jobs[j] # None /\ jobs[j].kind \in kinds
    BY <1>1, <2>0, <2>1, MarkedRequest
  <2>2. CASE ~(jobs[j] # None /\ jobs[j].kind \in kinds)
    BY <1>1, <2>0, <2>2
  <2> QED BY <2>1, <2>2
<1> QED BY <1>1, <1>2 DEF Crossing

(* The changes by the user and by files that are read.                      *)
Change ==
  \/ \E m \in {"ram", "disk", "import"} : switchMode(m)
  \/ \E t \in Targets \cup {None} : SelectTarget(t)
  \/ \E d \in Databases : SelectTargetDb(d) \/ SwitchDb(d)
  \/ \E p \in Patterns : TypePattern(p)
  \/ \E f \in Exports : handleDeleteExport(f)
  \/ \E s \in Scripts : ReaderLoaded(s)
  \/ \E s \in Scripts \cup {None} : handleImportFileChange(s)

Sending(j) ==
  \/ handleScan(j) \/ handleRamMigrate(j) \/ handleExport(j) \/ handleDiskImport(j)
  \/ handleRunImport(j)

AnswerComes(j) ==
  \/ ScanAnswered(j) \/ ScanFailed(j) \/ Migrated(j) \/ Exported(j) \/ ExportFailed(j)
  \/ Imported(j) \/ ImportFailed(j) \/ RunAnswered(j) \/ RunFailed(j)

LEMMA ChangeTypes ==
  ASSUME MigrationTypeOK, Change
  PROVE  MigrationTypeOK'
<1> USE DEF keysPart, commandsPart, resetResults
<1>1. ASSUME NEW kinds, Crossing(kinds) PROVE jobs' \in [Jobs -> Request \cup {None}]
  BY <1>1, CrossingMarks
<1>2. ASSUME NEW m \in {"ram", "disk", "import"}, switchMode(m) PROVE MigrationTypeOK'
  BY <1>1, <1>2 DEF switchMode, MigrationTypeOK
<1>3. ASSUME NEW t \in Targets \cup {None}, SelectTarget(t) PROVE MigrationTypeOK'
  BY <1>1, <1>3 DEF SelectTarget, MigrationTypeOK
<1>4. ASSUME NEW d \in Databases, SelectTargetDb(d) PROVE MigrationTypeOK'
  BY <1>4 DEF SelectTargetDb, MigrationTypeOK
<1>5. ASSUME NEW d \in Databases, SwitchDb(d) PROVE MigrationTypeOK'
  <2>1. foundKeys' \in Found \cup {None}
    BY <1>5, MarkedAnswer DEF SwitchDb, MigrationTypeOK
  <2> QED BY <1>1, <1>5, <2>1 DEF SwitchDb, changeDb, MigrationTypeOK
<1>6. ASSUME NEW p \in Patterns, TypePattern(p) PROVE MigrationTypeOK'
  BY <1>1, <1>6 DEF TypePattern, MigrationTypeOK
<1>7. ASSUME NEW f \in Exports, handleDeleteExport(f) PROVE MigrationTypeOK'
  BY <1>7 DEF handleDeleteExport, MigrationTypeOK
<1>8. ASSUME NEW s \in Scripts, ReaderLoaded(s) PROVE MigrationTypeOK'
  <2>1. importResults' \in RunOutcome \cup {None}
    BY <1>8, MarkedAnswer DEF ReaderLoaded, MigrationTypeOK
  <2>2. importParsed' \in Scripts \cup {None} /\ reading' \subseteq Scripts
    BY <1>8 DEF ReaderLoaded, MigrationTypeOK
  <2> QED BY <1>1, <1>8, <2>1, <2>2 DEF ReaderLoaded, MigrationTypeOK
<1>9. ASSUME NEW s \in Scripts \cup {None}, handleImportFileChange(s) PROVE MigrationTypeOK'
  <2>1. s # None => s \in Scripts
    OBVIOUS
  <2>2. reading' \subseteq Scripts
    BY <1>9, <2>1 DEF handleImportFileChange, MigrationTypeOK
  <2>3. UNCHANGED <<db, mode, keysPart, jobs>> /\ importParsed' = None /\ importResults' = None
    BY <1>9 DEF handleImportFileChange
  <2> QED BY <2>2, <2>3 DEF MigrationTypeOK
<1> QED BY <1>2, <1>3, <1>4, <1>5, <1>6, <1>7, <1>8, <1>9 DEF Change

(* What is sent is a request, and goes by what is shown.                    *)
LEMMA SentGoes ==
  ASSUME MigrationTypeOK, NEW j \in Jobs, Sending(j)
  PROVE  \E r \in Request : Send(j, r) /\ Goes(r)
<1> DEFINE search == [pattern |-> pattern, db |-> db]
<1>0. search \in Search
  BY DEF MigrationTypeOK, Search
<1>1. CASE handleScan(j)
  <2> DEFINE r == [kind |-> "scan", of |-> search, crossed |-> FALSE]
  <2>1. r \in Request /\ Goes(r)
    BY <1>0 DEF Request, Goes
  <2> QED BY <1>1, <2>1 DEF handleScan
<1>2. CASE handleExport(j)
  <2> DEFINE r == [kind |-> "export", of |-> search, crossed |-> FALSE]
  <2>1. r \in Request /\ Goes(r)
    BY <1>0 DEF Request, Goes
  <2> QED BY <1>2, <2>1 DEF handleExport
<1>3. CASE handleRamMigrate(j)
  <2> DEFINE r == [kind |-> "migrate", of |-> targetId, crossed |-> FALSE]
  <2>1. r \in Request /\ Goes(r)
    BY <1>3 DEF Request, Goes, handleRamMigrate, MigrationTypeOK
  <2> QED BY <1>3, <2>1 DEF handleRamMigrate
<1>4. CASE handleDiskImport(j)
  <2> DEFINE r == [kind |-> "import", of |-> targetId, crossed |-> FALSE, file |-> exportInfo.file]
  <2>1. exportInfo.file \in Exports /\ targetId \in Targets
    BY <1>4 DEF handleDiskImport, MigrationTypeOK, ExportShown
  <2>2. r \in Request /\ Goes(r)
    BY <2>1 DEF Request, Goes
  <2> QED BY <1>4, <2>2 DEF handleDiskImport
<1>5. CASE handleRunImport(j)
  <2> DEFINE r == [kind |-> "run", of |-> importParsed, crossed |-> FALSE]
  <2>1. r \in Request /\ Goes(r)
    BY <1>5 DEF Request, Goes, handleRunImport, MigrationTypeOK
  <2> QED BY <1>5, <2>1 DEF handleRunImport
<1> QED BY <1>1, <1>2, <1>3, <1>4, <1>5 DEF Sending

LEMMA SendingTypes ==
  ASSUME MigrationTypeOK, NEW j \in Jobs, Sending(j)
  PROVE  MigrationTypeOK'
<1>1. jobs' \in [Jobs -> Request \cup {None}]
  BY SentGoes DEF Send, MigrationTypeOK
<1> USE <1>1 DEF MigrationTypeOK
<1>2. CASE handleScan(j)
  BY <1>2 DEF handleScan, commandsPart
<1>3. CASE handleRamMigrate(j)
  BY <1>3 DEF handleRamMigrate, commandsPart
<1>4. CASE handleExport(j)
  BY <1>4 DEF handleExport, commandsPart
<1>5. CASE handleDiskImport(j)
  BY <1>5 DEF handleDiskImport, commandsPart
<1>6. CASE handleRunImport(j)
  BY <1>6 DEF handleRunImport, keysPart
<1> QED BY <1>2, <1>3, <1>4, <1>5, <1>6 DEF Sending

(* What a request reaches that sends its target in part.                    *)
LEMMA ReachedIsNamed ==
  ASSUME NEW t \in Targets, NEW q \in TargetReached(t)
  PROVE  q \in Targets \cup {None} /\ IsNamed(t, t, q)
BY DEF TargetReached, Reached, IsNamed

LEMMA AnsweredTypes ==
  ASSUME MigrationTypeOK, NEW j \in Jobs, AnswerComes(j)
  PROVE  MigrationTypeOK'
<1>0. jobs' \in [Jobs -> Request \cup {None}]
  BY DEF MigrationTypeOK, AnswerComes, ScanAnswered, ScanFailed, Migrated, Exported, ExportFailed,
         Imported, ImportFailed, RunAnswered, RunFailed, Ends
<1>a. jobs[j] \in Request \cup {None}
  BY DEF MigrationTypeOK
<1> USE <1>0 DEF keysPart, commandsPart
<1>1. CASE ScanAnswered(j)
  <2>1. foundKeys' \in Found
    BY <1>a, <1>1 DEF ScanAnswered, Is, Request, Found
  <2> QED BY <1>1, <2>1 DEF ScanAnswered, MigrationTypeOK
<1>2. CASE Migrated(j) \/ Imported(j)
  <2>1. PICK t \in TargetReached(jobs[j].of) :
          \/ ramResults' = [of |-> t, crossed |-> jobs[j].crossed] /\ UNCHANGED diskResults
          \/ diskResults' = [of |-> t, crossed |-> jobs[j].crossed] /\ UNCHANGED ramResults
    BY <1>2 DEF Migrated, Imported
  <2>2. jobs[j].of \in Targets /\ jobs[j].crossed \in BOOLEAN
    BY <1>a, <1>2 DEF Migrated, Imported, Is, Request
  <2>3. t \in Targets \cup {None}
    BY <2>1, <2>2, ReachedIsNamed
  <2>4. {ramResults', diskResults'} \subseteq Outcome \cup {None}
    BY <2>1, <2>2, <2>3 DEF Outcome, MigrationTypeOK
  <2> QED BY <1>2, <2>4 DEF Migrated, Imported, MigrationTypeOK
<1>3. CASE Exported(j)
  <2>1. exportInfo' \in ExportShown /\ saved' \subseteq Exports
    BY <1>3 DEF Exported, ExportShown, MigrationTypeOK
  <2> QED BY <1>3, <2>1 DEF Exported, MigrationTypeOK
<1>4. CASE RunAnswered(j)
  <2>1. importResults' \in RunOutcome
    BY <1>a, <1>4 DEF RunAnswered, Is, Request, RunOutcome
  <2> QED BY <1>4, <2>1 DEF RunAnswered, MigrationTypeOK
<1>5. CASE ScanFailed(j) \/ ExportFailed(j) \/ ImportFailed(j) \/ RunFailed(j)
  BY <1>5 DEF ScanFailed, ExportFailed, ImportFailed, RunFailed, MigrationTypeOK
<1> QED BY <1>1, <1>2, <1>3, <1>4, <1>5 DEF AnswerComes
-----------------------------------------------------------------------------
(* What requests go by and what is shown.                                   *)

(* A step changes what requests go by and marks those on their way, or      *)
(* takes what is shown off the page.                                        *)
LEMMA ChangeGoes ==
  ASSUME MigrationInv, Change
  PROVE  RequestsGo' /\ ShowsWhatItMigrates'
<1> USE DEF keysPart, commandsPart, MigrationInv
<1>0. \A j \in Jobs : jobs[j] # None => Goes(jobs[j])
  BY DEF RequestsGo
<1>1. ASSUME RequestsGo' PROVE \A j \in Jobs : Is(j, "export")' => jobs'[j].of.pattern = pattern'
  BY <1>1 DEF RequestsGo, Goes, Is
<1>2. ASSUME NEW m \in {"ram", "disk", "import"}, switchMode(m)
      PROVE  RequestsGo' /\ ShowsWhatItMigrates'
  <2>1. /\ Crossing({"run"}) /\ UNCHANGED <<db, pattern, targetId>>
        /\ foundKeys' = None /\ importResults' = None /\ ramResults' = None /\ diskResults' = None
    BY <1>2 DEF switchMode, resetResults
  <2>2. RequestsGo'
    BY <1>0, <2>1, CrossingMarks DEF RequestsGo, Goes
  <2> QED BY <1>1, <2>1, <2>2 DEF ShowsWhatItMigrates
<1>3. ASSUME NEW t \in Targets \cup {None}, SelectTarget(t)
      PROVE  RequestsGo' /\ ShowsWhatItMigrates'
  <2>1. /\ Crossing({"migrate", "import"}) /\ UNCHANGED <<db, pattern, importParsed, importResults>>
        /\ foundKeys' = None /\ ramResults' = None /\ diskResults' = None
    BY <1>3 DEF SelectTarget, resetResults
  <2>2. RequestsGo'
    BY <1>0, <2>1, CrossingMarks, ZenonT(40) DEF RequestsGo, Goes
  <2> QED BY <1>1, <2>1, <2>2 DEF ShowsWhatItMigrates
<1>4. ASSUME NEW d \in Databases, SwitchDb(d) PROVE RequestsGo' /\ ShowsWhatItMigrates'
  <2>1. /\ Crossing({"scan"}) /\ foundKeys' = Crossed(foundKeys)
        /\ UNCHANGED <<pattern, targetId, ramResults, diskResults, importParsed, importResults>>
    BY <1>4 DEF SwitchDb
  <2>2. RequestsGo'
    BY <1>0, <2>1, CrossingMarks, ZenonT(40) DEF RequestsGo, Goes
  <2>3. foundKeys' # None => foundKeys'.crossed
    BY <2>1, MarkedAnswer DEF MigrationTypeOK
  <2> QED BY <1>1, <2>1, <2>2, <2>3 DEF ShowsWhatItMigrates
<1>5. ASSUME NEW p \in Patterns, TypePattern(p) PROVE RequestsGo' /\ ShowsWhatItMigrates'
  <2>1. /\ Crossing({"scan"}) /\ ~Underway("export")
        /\ UNCHANGED <<db, targetId, importParsed, importResults>>
        /\ foundKeys' = None /\ ramResults' = None /\ diskResults' = None
    BY <1>5 DEF TypePattern, resetResults, patternDisabled
  <2>2. \A j \in Jobs : jobs[j] # None => jobs[j].kind # "export"
    BY <2>1 DEF Underway
  <2>3. RequestsGo'
    BY <1>0, <2>1, <2>2, CrossingMarks, ZenonT(40) DEF RequestsGo, Goes
  <2> QED BY <1>1, <2>1, <2>3 DEF ShowsWhatItMigrates
<1>6. ASSUME (\E d \in Databases : SelectTargetDb(d)) \/ (\E f \in Exports : handleDeleteExport(f))
      PROVE  RequestsGo' /\ ShowsWhatItMigrates'
  <2>1. UNCHANGED <<db, pattern, targetId, foundKeys, ramResults, diskResults, importParsed,
                    importResults, jobs>>
    BY <1>6 DEF SelectTargetDb, handleDeleteExport
  <2>2. RequestsGo'
    BY <1>0, <2>1 DEF RequestsGo, Goes
  <2> QED BY <1>1, <2>1, <2>2 DEF ShowsWhatItMigrates
<1>7. ASSUME NEW s \in Scripts, ReaderLoaded(s) PROVE RequestsGo' /\ ShowsWhatItMigrates'
  <2>1. /\ Crossing({"run"}) /\ importResults' = Crossed(importResults)
        /\ UNCHANGED <<db, pattern, targetId, foundKeys, ramResults, diskResults>>
    BY <1>7 DEF ReaderLoaded
  <2>2. RequestsGo'
    BY <1>0, <2>1, CrossingMarks DEF RequestsGo, Goes
  <2>3. importResults' # None => importResults'.crossed
    BY <2>1, MarkedAnswer DEF MigrationTypeOK
  <2> QED BY <1>1, <2>1, <2>2, <2>3 DEF ShowsWhatItMigrates
<1>8. ASSUME NEW s \in Scripts \cup {None}, handleImportFileChange(s)
      PROVE  RequestsGo' /\ ShowsWhatItMigrates'
  <2>1. /\ ~Underway("run") /\ importResults' = None
        /\ UNCHANGED <<db, pattern, targetId, foundKeys, ramResults, diskResults, jobs>>
    BY <1>8 DEF handleImportFileChange
  <2>2. \A j \in Jobs : jobs[j] # None => jobs[j].kind # "run"
    BY <2>1 DEF Underway
  <2>3. RequestsGo'
    BY <1>0, <2>1, <2>2 DEF RequestsGo, Goes
  <2> QED BY <1>1, <2>1, <2>3 DEF ShowsWhatItMigrates
<1> QED BY <1>2, <1>3, <1>4, <1>5, <1>6, <1>7, <1>8 DEF Change

LEMMA RequestGoes ==
  ASSUME MigrationInv, NEW j \in Jobs, Sending(j) \/ AnswerComes(j)
  PROVE  RequestsGo' /\ ShowsWhatItMigrates'
<1> USE DEF keysPart, commandsPart, MigrationInv
<1>1. UNCHANGED <<db, pattern, targetId, importParsed>>
  BY DEF Sending, handleScan, handleRamMigrate, handleExport, handleDiskImport, handleRunImport,
         AnswerComes, ScanAnswered, ScanFailed, Migrated, Exported, ExportFailed, Imported,
         ImportFailed, RunAnswered, RunFailed
<1>2. /\ \A i \in Jobs \ {j} : jobs'[i] = jobs[i]
      /\ jobs'[j] # None => Goes(jobs'[j])
  <2>1. CASE Sending(j)
    BY <2>1, SentGoes DEF Send, MigrationTypeOK
  <2>2. CASE AnswerComes(j)
    <3>1. Ends(j)
      BY <2>2 DEF AnswerComes, ScanAnswered, ScanFailed, Migrated, Exported, ExportFailed, Imported,
                  ImportFailed, RunAnswered, RunFailed
    <3> QED BY <3>1 DEF Ends, MigrationTypeOK
  <2> QED BY <2>1, <2>2
<1>3. RequestsGo'
  BY <1>1, <1>2 DEF RequestsGo, Goes
<1>4. \A i \in Jobs : Is(i, "export")' => jobs'[i].of.pattern = pattern'
  BY <1>3 DEF RequestsGo, Goes, Is
<1>5. /\ foundKeys' \in {foundKeys, None} /\ importResults' \in {importResults, None}
      /\ {ramResults', diskResults'} \subseteq {ramResults, diskResults, None}
      => ShowsWhatItMigrates'
  BY <1>1, <1>4 DEF ShowsWhatItMigrates
<1>6. jobs[j] # None => Goes(jobs[j])
  BY DEF RequestsGo
<1>7. CASE Sending(j)
  BY <1>3, <1>5, <1>7 DEF Sending, handleScan, handleRamMigrate, handleExport, handleDiskImport,
                          handleRunImport
<1>8. CASE ScanAnswered(j)
  <2>1. foundKeys' # None => foundKeys'.crossed \/ foundKeys'.of = [pattern |-> pattern, db |-> db]
    BY <1>6, <1>8 DEF ScanAnswered, Is, Goes
  <2>2. UNCHANGED <<ramResults, diskResults, importResults>>
    BY <1>8 DEF ScanAnswered
  <2> QED BY <1>1, <1>3, <1>4, <2>1, <2>2 DEF ShowsWhatItMigrates
<1>9. CASE Migrated(j) \/ Imported(j)
  <2>a. PICK t \in TargetReached(jobs[j].of) :
          \/ ramResults' = [of |-> t, crossed |-> jobs[j].crossed] /\ UNCHANGED diskResults
          \/ diskResults' = [of |-> t, crossed |-> jobs[j].crossed] /\ UNCHANGED ramResults
    BY <1>9 DEF Migrated, Imported
  <2>b. jobs[j].of \in Targets /\ (jobs[j].crossed \/ jobs[j].of = targetId)
    BY <1>6, <1>9 DEF Migrated, Imported, Is, Goes, MigrationTypeOK, Request
  <2>c. jobs[j].crossed \/ (targetId # None /\ IsNamed(targetId, targetId, t))
    BY <2>a, <2>b, ReachedIsNamed, TargetsAssumption
  <2>1. \A r \in {ramResults', diskResults'} :
          r # None => r.crossed \/ (targetId # None /\ IsNamed(targetId, targetId, r.of))
    BY <2>a, <2>c DEF ShowsWhatItMigrates
  <2>2. UNCHANGED <<foundKeys, importResults>>
    BY <1>9 DEF Migrated, Imported
  <2> QED BY <1>1, <1>3, <1>4, <2>1, <2>2 DEF ShowsWhatItMigrates
<1>10. CASE RunAnswered(j)
  <2>1. importResults' # None => importResults'.crossed \/ importResults'.of = importParsed
    BY <1>6, <1>10 DEF RunAnswered, Is, Goes
  <2>2. UNCHANGED <<foundKeys, ramResults, diskResults>>
    BY <1>10 DEF RunAnswered
  <2> QED BY <1>1, <1>3, <1>4, <2>1, <2>2 DEF ShowsWhatItMigrates
<1>11. CASE Exported(j) \/ ScanFailed(j) \/ ExportFailed(j) \/ ImportFailed(j) \/ RunFailed(j)
  BY <1>3, <1>5, <1>11 DEF Exported, ScanFailed, ExportFailed, ImportFailed, RunFailed
<1> QED BY <1>7, <1>8, <1>9, <1>10, <1>11 DEF AnswerComes

LEMMA MigrationInvariant == MigrationSpec => []MigrationInv
<1>1. MigrationInit => MigrationInv
  BY DEF MigrationInit, MigrationInv, MigrationTypeOK, RequestsGo, ShowsWhatItMigrates, Is
<1>2. MigrationInv /\ [KeysNext \/ CommandsNext]_<<db, migrationPart>> => MigrationInv'
  <2> SUFFICES ASSUME MigrationInv, [KeysNext \/ CommandsNext]_<<db, migrationPart>>
               PROVE  MigrationInv'
    OBVIOUS
  <2>1. CASE Change
    BY <2>1, ChangeTypes, ChangeGoes DEF MigrationInv
  <2>2. ASSUME NEW j \in Jobs, Sending(j) PROVE MigrationInv'
    BY <2>2, SendingTypes, RequestGoes DEF MigrationInv
  <2>3. ASSUME NEW j \in Jobs, AnswerComes(j) PROVE MigrationInv'
    BY <2>3, AnsweredTypes, RequestGoes DEF MigrationInv
  <2>4. CASE UNCHANGED <<db, migrationPart>>
    BY <2>4 DEF migrationPart, keysPart, commandsPart, MigrationInv, MigrationTypeOK, RequestsGo,
                Goes, ShowsWhatItMigrates, Is
  <2> QED BY <2>1, <2>2, <2>3, <2>4 DEF KeysNext, CommandsNext, Change, Sending, AnswerComes
<1> QED BY <1>1, <1>2, PTL DEF MigrationSpec

(* The requests of the Migration tab, and what it shows of their answers,   *)
(* name patterns, targets and files it had (MigrationView!MigrationTypeOK). *)
THEOREM MigrationTypeCorrect == MigrationSpec => []MigrationTypeOK
<1>1. MigrationInv => MigrationTypeOK
  BY DEF MigrationInv
<1> QED BY <1>1, MigrationInvariant, PTL

(* The keys offered, the results and the pattern of an export are of what   *)
(* the tab shows, unless it was changed while the answer was awaited, or    *)
(* what is sent of the target does not tell it.                             *)
THEOREM MigratesWhatItShows == MigrationSpec => []ShowsWhatItMigrates
<1>1. MigrationInv => ShowsWhatItMigrates
  BY DEF MigrationInv
<1> QED BY <1>1, MigrationInvariant, PTL
=============================================================================

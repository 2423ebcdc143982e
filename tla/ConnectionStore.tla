--------------------------- MODULE ConnectionStore ---------------------------
(***************************************************************************)
(* The saved connections (App, encryption.ts): every page of the browser   *)
(* has its own copy of the list and writes it back whole, with its secrets *)
(* sealed, on every change; the list is exported to a file and imported    *)
(* from one.  KeyDiff writes to the saved list, too, past the copies.      *)
(***************************************************************************)
EXTENDS Selection, FiniteSets

CONSTANTS
  Pages,       \* pages of one browser
  Ids,         \* connections, by id
  Secrets,     \* passwords and keys
  Unsealable,  \* the ones btoa cannot encode: characters past Latin-1
  Garbled,     \* what a secret sealed with another browser's key decrypts to
  Filled       \* the connections that are added: [way, secret]

(* How a connection is reached: by host and port, or with an empty host by  *)
(* Sentinel or cluster nodes or a socket, or by a URL, which has its secret *)
(* in it.                                                                   *)
Ways == {"host", "nodes", "url"}

ASSUME SecretsAssumption ==
  /\ Unsealable \subseteq Secrets /\ None \notin Secrets \cup Ids
  /\ Garbled \notin Secrets \cup {None}
  /\ Filled \subseteq [way : Ways, secret : Secrets \cup {None}]

VARIABLES
  stored,      \* redivue_connections: id -> what is saved, or None
  open,        \* the pages open
  connections, \* page -> id -> the connection, or None
  selected,    \* page -> selectedConnection's id, or None
  file,        \* a file of connections
  behind_store,\* history: pages whose copy is out of date
  chosen,      \* history: what the user chose last, or what an outdated copy made of it
  exported,    \* history: what the file's connections were
  foreign      \* history: ids imported with a secret sealed in another browser

storePart == <<stored, open, connections, selected, file, behind_store, chosen, exported, foreign>>

Listed == [way : Ways, db : Databases, secret : Secrets \cup {Garbled, None}]
Sealed == [text : Secrets \cup {Garbled}, by : {"this", "another", "nobody"}]
Saved == [way : Ways, db : Databases, secret : Sealed \cup {None}]

(* None stands for no connection and for no secret.                         *)
ASSUME NotSealedAssumption == None \notin Sealed \cup Saved \cup Listed

ListOf(S) == [Ids -> S \cup {None}]

StoreTypeOK ==
  /\ {stored, file} \subseteq ListOf(Saved) /\ {chosen, exported} \subseteq ListOf(Listed)
  /\ open \subseteq Pages /\ behind_store \subseteq open /\ foreign \subseteq Ids
  /\ \A g \in Pages : connections[g] \in ListOf(Listed)
  /\ \A g \in Pages : selected[g] # None => connections[g][selected[g]] # None

-----------------------------------------------------------------------------
(* Sealing.  btoa may fail: then a secret is saved as it is, and it is not  *)
(* taken for a sealed one when it is read.                                  *)
encryptPassword(p) ==
  IF p = None THEN None ELSE [text |-> p, by |-> IF p \in Unsealable THEN "nobody" ELSE "this"]

decryptPassword(s) == IF s.by = "another" THEN Garbled ELSE s.text

(* A URL is saved as it is, with the password in it, although SECURITY.md:79 *)
(* says that it is stored as a password is.                                 *)
Bare(p) == IF p = None THEN None ELSE [text |-> p, by |-> "nobody"]

toStored(c) ==
  [c EXCEPT !.secret = IF c.way = "url" THEN Bare(c.secret) ELSE encryptPassword(c.secret)]
fromStored(s) == IF s.secret = None THEN s ELSE [s EXCEPT !.secret = decryptPassword(@)]

Each(list, Op(_)) == [id \in Ids |-> IF list[id] = None THEN None ELSE Op(list[id])]
loadFromStorage == Each(stored, fromStored)
Empty == [id \in Ids |-> None]
Free_ids(list) == {id \in Ids : list[id] = None}

StoreInit ==
  /\ stored = Empty /\ open = {} /\ connections = [g \in Pages |-> Empty]
  /\ selected = [g \in Pages |-> None] /\ file = Empty /\ behind_store = {}
  /\ chosen = Empty /\ exported = Empty /\ foreign = {}

-----------------------------------------------------------------------------
OpenPage(g) ==
  /\ g \notin open /\ open' = open \cup {g}
  /\ connections' = [connections EXCEPT ![g] = loadFromStorage]
  /\ UNCHANGED <<db, stored, selected, file, behind_store, chosen, exported, foreign>>

ClosePage(g) ==
  /\ g \in open /\ open' = open \ {g} /\ behind_store' = behind_store \ {g}
  /\ connections' = [connections EXCEPT ![g] = Empty]
  /\ selected' = [selected EXCEPT ![g] = None]
  /\ UNCHANGED <<db, stored, file, chosen, exported, foreign>>

Select(g, id) ==
  /\ connections[g][id] # None /\ selected' = [selected EXCEPT ![g] = id]
  /\ UNCHANGED <<db, stored, open, connections, file, behind_store, chosen, exported, foreign>>

(* saveToStorage, with a list the user's choice should have led to.  A page *)
(* whose copy is out of date brings back what its copy says.                *)
saveToStorage(g, list, choice) ==
  /\ connections' = [connections EXCEPT ![g] = list]
  /\ stored' = Each(list, toStored)
  /\ behind_store' = {h \in open \ {g} : connections[h] # list}
  /\ chosen' = IF g \in behind_store THEN list ELSE choice
  /\ UNCHANGED <<db, open>>

addConnection(g, id, c) ==
  /\ g \in open /\ id \in Free_ids(connections[g]) \cap Free_ids(stored)
  /\ saveToStorage(g, [connections[g] EXCEPT ![id] = c], [chosen EXCEPT ![id] = c])
  /\ selected' = [selected EXCEPT ![g] = id] /\ foreign' = foreign \ {id}
  /\ UNCHANGED <<file, exported>>

removeConnection(g, id) ==
  /\ connections[g][id] # None
  /\ saveToStorage(g, [connections[g] EXCEPT ![id] = None], [chosen EXCEPT ![id] = None])
  /\ selected' = [selected EXCEPT ![g] = IF @ = id THEN None ELSE @]
  /\ UNCHANGED <<file, exported, foreign>>

clearAllConnections(g) ==
  /\ connections[g] # Empty /\ saveToStorage(g, Empty, Empty)
  /\ selected' = [selected EXCEPT ![g] = None] /\ UNCHANGED <<file, exported, foreign>>

changeDb_ShowsItOnly(g, id, d) ==
  /\ connections[g][id] # None /\ connections[g][id].db # d
  /\ connections' = [connections EXCEPT ![g][id].db = d]
  /\ chosen' = [chosen EXCEPT ![id].db = d]
  /\ UNCHANGED <<db, stored, open, selected, file, behind_store, exported, foreign>>

(* Also the select in the sidebar, of any connection.                       *)
changeDbOf(g, id, d) ==
  /\ connections[g][id] # None /\ connections[g][id].db # d
  /\ saveToStorage(g, [connections[g] EXCEPT ![id].db = d],
       IF chosen[id] = None THEN chosen ELSE [chosen EXCEPT ![id].db = d])
  /\ UNCHANGED <<selected, file, exported, foreign>>

(* KeyDiff's saveRightDb changes what is saved, and no page's copy.         *)
saveRightDb(id, d) ==
  /\ open # {} /\ stored[id] # None /\ stored[id].db # d
  /\ stored' = [stored EXCEPT ![id].db = d] /\ chosen' = [chosen EXCEPT ![id].db = d]
  /\ behind_store' = {g \in open : connections[g] # Each(stored', fromStored)}
  /\ UNCHANGED <<db, open, connections, selected, file, exported, foreign>>

-----------------------------------------------------------------------------
(* The file.  Secrets go into it as they are saved, if at all; the one in a *)
(* URL is not among SECRET_FIELDS and goes into it always, although         *)
(* GUIDE.md:175 says that secrets are stripped unless one asks for them.    *)
WithoutSecret(c) == IF c.way = "url" THEN c ELSE [c EXCEPT !.secret = None]

exportConnections(g, includeSecrets) ==
  /\ connections[g] # Empty
  /\ LET asked == IF includeSecrets THEN connections[g] ELSE Each(connections[g], WithoutSecret)
     IN file' = Each(asked, toStored) /\ exported' = asked
  /\ UNCHANGED <<db, stored, open, connections, selected, behind_store, chosen, foreign>>

(* Instead of this file there is one of another browser, of the same        *)
(* connections: what it has sealed, this one cannot read.                   *)
SealedElsewhere(s) ==
  IF s.secret # None /\ s.secret.by = "this" THEN [s EXCEPT !.secret.by = "another"] ELSE s

MoveFile ==
  /\ file' = Each(file, SealedElsewhere) /\ file' # file
  /\ UNCHANGED <<db, stored, open, connections, selected, behind_store, chosen, exported, foreign>>

(* Entries without a host are skipped as malformed; the others get new ids. *)
ValidEntries == {id \in Ids : file[id] # None /\ file[id].way = "host"}

(* What the import of a file leads to: the user is given the connections    *)
(* that had a host as they were when the file was written.                  *)
WithHost == {id \in Ids : exported[id] # None /\ exported[id].way = "host"}

importConnections(g, newId) ==
  /\ g \in open /\ ValidEntries # {}
  /\ \A id \in ValidEntries : newId[id] \in Free_ids(connections[g]) \cap Free_ids(stored)
  /\ \A a, b \in ValidEntries : newId[a] = newId[b] => a = b
  /\ LET With_imported(list, from, entries) ==
           [id \in Ids |-> IF \E e \in entries : newId[e] = id
                           THEN from[CHOOSE e \in entries : newId[e] = id] ELSE list[id]]
     IN saveToStorage(g, With_imported(connections[g], Each(file, fromStored), ValidEntries),
                      With_imported(chosen, exported, WithHost))
  /\ LET moved == {e \in ValidEntries : file[e].secret # None /\ file[e].secret.by = "another"}
     IN foreign' = (foreign \ {newId[e] : e \in ValidEntries}) \cup {newId[e] : e \in moved}
  /\ UNCHANGED <<selected, file, exported>>

StoreNext ==
  \/ MoveFile \/ \E id \in Ids, d \in Databases : saveRightDb(id, d)
  \/ \E g \in Pages :
       \/ OpenPage(g) \/ ClosePage(g) \/ clearAllConnections(g)
       \/ \E includeSecrets \in BOOLEAN : exportConnections(g, includeSecrets)
       \/ \E newId \in [Ids -> Ids] : importConnections(g, newId)
       \/ \E id \in Ids :
            \/ Select(g, id) \/ removeConnection(g, id)
            \/ \E d \in Databases : changeDbOf(g, id, d)
            \/ \E c \in Filled, d \in Databases :
                 addConnection(g, id, [way |-> c.way, db |-> d, secret |-> c.secret])

StoreSpec == StoreInit /\ db \in Databases /\ [][StoreNext]_<<db, storePart>>

-----------------------------------------------------------------------------
(* What is saved is what the user chose, each secret readable again, as     *)
(* long as pages with an up-to-date copy do the saving; and the connections *)
(* with a host that are imported are what they were when the file was       *)
(* written, secrets included or left out as asked.  Two losses are not      *)
(* ruled out, though README.md:69, FEATURES.md:31 and 383 and GUIDE.md:173  *)
(* promise that the list can be moved to another machine: a secret of a     *)
(* file that another browser sealed comes out garbled (App.tsx:361 says it  *)
(* is plaintext), and a connection without a host is not imported.          *)
IsButGarbled(c, d) == c # None /\ d # None /\ c = [d EXCEPT !.secret = Garbled]

KeepsTheConnections ==
  \A id \in Ids :
    \/ loadFromStorage[id] = chosen[id]
    \/ id \in foreign /\ IsButGarbled(loadFromStorage[id], chosen[id])
=============================================================================

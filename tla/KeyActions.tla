------------------------------ MODULE KeyActions ------------------------------
(***************************************************************************)
(* The dialogs that change or copy keys (features/keys/modals), the undo   *)
(* of a renaming in the activity log, and what the backend does for them.  *)
(*                                                                         *)
(* A request is sent, then executed, and then its answer arrives; others   *)
(* create and delete keys at any time.  Enter sends a request again while  *)
(* one is on its way.  Expiries are left out, but for the one in the past, *)
(* which deletes the key.                                                  *)
(***************************************************************************)
EXTENDS Naturals, FiniteSets, PartialConnection

CONSTANTS
  ActionKeys,  \* names of keys
  Sends,       \* bound: requests that may be on their way at once
  CopyPlaces,  \* databases, of this connection and of others
  Here,        \* the selected database of this connection
  ScanAllCap,  \* how many keys a search has to find to stop early
  MaxOthers    \* bound: keys others create or delete

ASSUME ActionsAssumption ==
  None \notin ActionKeys \cup CopyPlaces /\ Here \in CopyPlaces /\ {ScanAllCap, MaxOthers} \subseteq Nat

VARIABLES
  stored,     \* name -> the name its value was first stored under, or None
  dialog,     \* the dialog that is open, or None
  chosen,     \* the keys it has been opened for
  typed,      \* the keys the typed pattern matches
  preview,    \* the keys found by a pattern, or None
  sends,      \* request -> what is on its way, or None
  renamed,    \* the renamings in the log that can be undone
  place,      \* the target selected for a copy, or None
  copied,     \* where the copy went that is shown as done, or None
  othersDone  \* history: how many steps others took

dialogPart == <<dialog, chosen, typed, preview, place, copied>>
actionPart == <<stored, dialogPart, sends, renamed, othersDone>>

Dialogs == {"pattern", "flush", "ttl", "rename", "add", "copy"}

(* None stands for no dialog.                                               *)
ASSUME NoDialogAssumption == None \notin Dialogs

Kinds == {"find", "delete", "flush", "ttl", "rename", "undo", "add", "copy"}

Renaming == [from : ActionKeys, to : ActionKeys]

(* The keys of the request, and those the user was shown until it is done;  *)
(* history: names that have got a value since they were looked for, and     *)
(* whether the search stopped early, or a pattern, or a target, has been    *)
(* replaced meanwhile.                                                      *)
Sent ==
  [kind : Kinds, keys : SUBSET ActionKeys, to : ActionKeys \cup CopyPlaces \cup {None},
   state : {"sent", "done", "failed"}, shown : SUBSET ActionKeys,
   late : SUBSET ActionKeys, crossed : BOOLEAN]

ActionTypeOK ==
  /\ stored \in [ActionKeys -> ActionKeys \cup {None}]
  /\ dialog \in Dialogs \cup {None} /\ {chosen, typed} \subseteq SUBSET ActionKeys
  /\ preview \in [keys : SUBSET ActionKeys, late : SUBSET ActionKeys, crossed : BOOLEAN]
                   \cup {None}
  /\ sends \in [Sends -> Sent \cup {None}]
  /\ renamed \subseteq Renaming /\ place \in CopyPlaces \cup {None}
  /\ copied \in [to : CopyPlaces \cup {None}, crossed : BOOLEAN] \cup {None}
  /\ othersDone \in 0 .. MaxOthers

-----------------------------------------------------------------------------
Existing == {k \in ActionKeys : stored[k] # None}

Has(c, kind, state) == sends[c] # None /\ sends[c].kind = kind /\ sends[c].state = state
Underway(kind) == \E c \in Sends : sends[c] # None /\ sends[c].kind = kind

Request(kind, K, to, shown) ==
  [kind |-> kind, keys |-> K, to |-> to, state |-> "sent", shown |-> shown, late |-> {},
   crossed |-> FALSE]
Sending(c, r) == sends[c] = None /\ sends' = [sends EXCEPT ![c] = r]

(* The other requests stay on their way, but nobody awaits the searches of  *)
(* a dialog that is closed.                                                 *)
Left(c) ==
  [b \in Sends |-> IF b = c \/ (sends[b] # None /\ sends[b].kind = "find")
                   THEN None ELSE sends[b]]

Closed == dialog' = None /\ chosen' = {} /\ typed' = {} /\ preview' = None
          /\ place' = None /\ copied' = None

(* The parent closes the dialog of this kind, also when it is a new one.    *)
CloseIf(d) == IF dialog = d THEN Closed ELSE UNCHANGED dialogPart

ActionInit ==
  /\ stored \in [ActionKeys -> {None}] \cup {[k \in ActionKeys |-> k]}
  /\ dialog = None /\ chosen = {} /\ typed = {} /\ preview = None
  /\ place = None /\ copied = None
  /\ sends = [c \in Sends |-> None] /\ renamed = {} /\ othersDone = 0

(* An expiry is set for the keys that are ticked, or for the one shown.     *)
Open(d, K) ==
  /\ dialog = None /\ dialog' = d
  /\ chosen' = (IF d = "ttl" THEN K ELSE {})
  /\ (IF d = "pattern" THEN typed' \in SUBSET ActionKeys ELSE typed' = typed)
  /\ UNCHANGED <<stored, preview, place, copied, sends, renamed, othersDone>>

(* The deletion by a pattern and the copy cannot be left while they run.    *)
onClose ==
  /\ dialog # None
  /\ dialog = "pattern" => ~Underway("delete")
  /\ dialog = "copy" => ~Underway("copy")
  /\ Closed /\ sends' = Left(None)
  /\ UNCHANGED <<stored, renamed, othersDone>>

-----------------------------------------------------------------------------
(* PatternDeleteModal.                                                      *)

TypeDeletion_KeepsThePreview(P) ==
  /\ dialog = "pattern" /\ ~Underway("delete") /\ P # typed
  /\ typed' = P /\ preview' = preview
  /\ sends' = [c \in Sends |-> IF Has(c, "find", "sent") \/ Has(c, "find", "done")
                               THEN [sends[c] EXCEPT !.crossed = TRUE] ELSE sends[c]]
  /\ UNCHANGED <<stored, dialog, chosen, place, copied, renamed, othersDone>>

(* It can be typed while keys are searched by what stood there before.      *)
TypeDeletion(P) ==
  /\ dialog = "pattern" /\ ~Underway("delete") /\ P # typed
  /\ typed' = P /\ preview' = None
  /\ sends' = [c \in Sends |-> IF Has(c, "find", "sent") \/ Has(c, "find", "done")
                               THEN [sends[c] EXCEPT !.crossed = TRUE] ELSE sends[c]]
  /\ UNCHANGED <<stored, dialog, chosen, place, copied, renamed, othersDone>>

handleFind(c) ==
  /\ dialog = "pattern" /\ ~Underway("delete")
  /\ Sending(c, Request("find", typed, None, {}))
  /\ preview' = None
  /\ UNCHANGED <<stored, dialog, chosen, typed, place, copied, renamed, othersDone>>

(* It stops after the page with which it has enough keys.                   *)
scanAll(c) ==
  /\ Has(c, "find", "sent")
  /\ LET matched == sends[c].keys \cap Existing IN
       \/ \E S \in SUBSET matched :
            /\ S = matched \/ Cardinality(S) >= ScanAllCap
            /\ sends' = [sends EXCEPT ![c].state = "done", ![c].shown = S,
                                      ![c].crossed = @ \/ S # matched]
       \/ sends' = [sends EXCEPT ![c].state = "failed"]
  /\ UNCHANGED <<stored, dialogPart, renamed, othersDone>>

Previewed(c) ==
  /\ Has(c, "find", "done") /\ sends' = [sends EXCEPT ![c] = None]
  /\ preview' = [keys |-> sends[c].shown, late |-> sends[c].late, crossed |-> sends[c].crossed]
  /\ UNCHANGED <<stored, dialog, chosen, typed, place, copied, renamed, othersDone>>

(* The pattern goes to the backend, which searches again; not the keys.     *)
handleDelete(c) ==
  /\ dialog = "pattern" /\ ~Underway("delete") /\ preview # None /\ preview.keys # {}
  /\ Sending(c, [Request("delete", typed, None, preview.keys)
                EXCEPT !.late = preview.late, !.crossed = preview.crossed])
  /\ UNCHANGED <<stored, dialogPart, renamed, othersDone>>

-----------------------------------------------------------------------------
(* FlushDbModal, TtlEditorModal and BulkTtlModal, RenameModal, AddKeyModal. *)

(* The number of the database has to be typed; all keys are shown as lost.  *)
handleFlush(c) ==
  /\ dialog = "flush" /\ Sending(c, Request("flush", ActionKeys, None, ActionKeys))
  /\ UNCHANGED <<stored, dialogPart, renamed, othersDone>>

applyTtl(c) ==
  /\ dialog = "ttl" /\ Sending(c, Request("ttl", chosen, None, chosen))
  /\ UNCHANGED <<stored, dialogPart, renamed, othersDone>>

handleRename(c, k, n) ==
  /\ dialog = "rename" /\ n # k /\ Sending(c, Request("rename", {k}, n, {k}))
  /\ UNCHANGED <<stored, dialogPart, renamed, othersDone>>

handleSave(c, n) ==
  /\ dialog = "add" /\ Sending(c, Request("add", {}, n, {}))
  /\ UNCHANGED <<stored, dialogPart, renamed, othersDone>>

(* UndoBtn, in the database of the renaming, whatever has happened there    *)
(* since.                                                                   *)
Undo(c, r) ==
  /\ r \in renamed /\ ~Underway("undo")
  /\ Sending(c, Request("undo", {r.to}, r.from, {r.to}))
  /\ UNCHANGED <<stored, dialogPart, renamed, othersDone>>

-----------------------------------------------------------------------------
(* The backend.                                                             *)

Moved(k, n) == [stored EXCEPT ![k] = None, ![n] = stored[k]]
Without(K) == [k \in ActionKeys |-> IF k \in K THEN None ELSE stored[k]]

(* SET replaces a value; another type is added to a value of its own type.  *)
(* Its expiry is a request of its own, whose failure nobody is told of.     *)
AfterAdd(n) ==
  {[stored EXCEPT ![n] = n], Without({n})} \cup (IF stored[n] = None THEN {} ELSE {stored})

(* The databases a request may leave behind when it works.                  *)
Effects(r) ==
  CASE r.kind \in {"delete", "flush"}  -> {Without(r.keys)}
    [] r.kind = "ttl"                  -> {stored, Without(r.keys)}
    [] r.kind \in {"rename", "undo"}   -> {Moved(k, r.to) : k \in r.keys \cap Existing}
    [] r.kind = "add"                  -> AfterAdd(r.to)
    [] r.kind = "copy"                 -> {stored}

(* When it fails, as it does when there is nothing to rename.  A deletion   *)
(* that fails has deleted some of the keys.                                 *)
Failures(r) ==
  IF r.kind = "delete" THEN {Without(K) : K \in SUBSET r.keys} ELSE {stored}

(* Names that get a value are late for the keys found and to be deleted.    *)
Late == {k \in ActionKeys : stored[k] = None /\ stored'[k] # None}
ToldLate ==
  [c \in Sends |-> IF Has(c, "find", "done") \/ Has(c, "delete", "sent")
                   THEN [sends[c] EXCEPT !.late = @ \cup Late] ELSE sends[c]]
PreviewLate == preview' = IF preview = None THEN None ELSE [preview EXCEPT !.late = @ \cup Late]

Execute(c) ==
  /\ sends[c] # None /\ sends[c].state = "sent" /\ sends[c].kind # "find"
  /\ \E works \in BOOLEAN :
       /\ stored' \in (IF works THEN Effects(sends[c]) ELSE Failures(sends[c]))
       /\ sends' = [ToldLate EXCEPT ![c].state = IF works THEN "done" ELSE "failed",
                                    ![c].shown = {}, ![c].late = {}]
  /\ PreviewLate
  /\ UNCHANGED <<dialog, chosen, typed, place, copied, renamed, othersDone>>

OtherCreates(k) ==
  /\ othersDone < MaxOthers /\ stored[k] = None
  /\ stored' = [stored EXCEPT ![k] = k]
  /\ sends' = ToldLate /\ PreviewLate
  /\ othersDone' = othersDone + 1
  /\ UNCHANGED <<dialog, chosen, typed, place, copied, renamed>>

OtherDeletes(k) ==
  /\ othersDone < MaxOthers /\ stored[k] # None
  /\ stored' = [stored EXCEPT ![k] = None] /\ othersDone' = othersDone + 1
  /\ UNCHANGED <<dialogPart, sends, renamed>>

-----------------------------------------------------------------------------
(* The answers.                                                             *)

(* The dialog shows an error and stays.                                     *)
Failed(c) ==
  /\ sends[c] # None /\ sends[c].state = "failed" /\ sends[c].kind # "copy"
  /\ sends' = [sends EXCEPT ![c] = None]
  /\ UNCHANGED <<stored, dialogPart, renamed, othersDone>>

Deleted(c) ==
  /\ Has(c, "delete", "done") /\ CloseIf("pattern") /\ sends' = Left(c)
  /\ UNCHANGED <<stored, renamed, othersDone>>

Done(c, d) ==
  /\ Has(c, d, "done") /\ CloseIf(d) /\ sends' = [sends EXCEPT ![c] = None]
  /\ renamed' = (IF d = "rename"
                 THEN renamed \cup {[from |-> CHOOSE k \in sends[c].keys : TRUE, to |-> sends[c].to]}
                 ELSE renamed)
  /\ UNCHANGED <<stored, othersDone>>

markUndone(c) ==
  /\ Has(c, "undo", "done") /\ sends' = [sends EXCEPT ![c] = None]
  /\ renamed' = {r \in renamed : {r.to} # sends[c].keys \/ r.from # sends[c].to}
  /\ UNCHANGED <<stored, dialogPart, othersDone>>

-----------------------------------------------------------------------------
(* CopyToModal.  The target can be replaced while keys are copied to it.    *)

SelectPlace(p) ==
  /\ dialog = "copy" /\ copied = None /\ p # place /\ place' = p
  /\ sends' = [c \in Sends |-> IF sends[c] # None /\ sends[c].kind = "copy"
                               THEN [sends[c] EXCEPT !.crossed = TRUE] ELSE sends[c]]
  /\ UNCHANGED <<stored, dialog, chosen, typed, preview, copied, renamed, othersDone>>

handleCopy(c) ==
  /\ dialog = "copy" /\ copied = None /\ ~Underway("copy") /\ place \notin {None, Here}
  /\ Sending(c, Request("copy", {}, place, {}))
  /\ UNCHANGED <<stored, dialogPart, renamed, othersDone>>

(* Done, with or without errors; keys that were skipped count as copied.    *)
(* The target is sent in part, and may be another place or none.            *)
Copied(c) ==
  /\ Has(c, "copy", "done") \/ Has(c, "copy", "failed")
  /\ \E p \in Reached(sends[c].to, sends[c].to, CopyPlaces) :
       copied' = [to |-> p, crossed |-> sends[c].crossed]
  /\ sends' = [sends EXCEPT ![c] = None]
  /\ UNCHANGED <<stored, dialog, chosen, typed, preview, place, renamed, othersDone>>

-----------------------------------------------------------------------------
ActionNext ==
  \/ \E d \in Dialogs, K \in SUBSET ActionKeys \ {{}} : Open(d, K)
  \/ onClose
  \/ \E P \in SUBSET ActionKeys : TypeDeletion(P)
  \/ \E c \in Sends :
       \/ handleFind(c) \/ scanAll(c) \/ Previewed(c) \/ handleDelete(c) \/ handleFlush(c)
       \/ applyTtl(c) \/ handleCopy(c) \/ Copied(c)
       \/ \E k, n \in ActionKeys : handleRename(c, k, n)
       \/ \E n \in ActionKeys : handleSave(c, n)
       \/ \E r \in renamed : Undo(c, r)
       \/ Execute(c) \/ Failed(c) \/ Deleted(c) \/ markUndone(c)
       \/ \E d \in {"flush", "ttl", "rename", "add"} : Done(c, d)
  \/ \E k \in ActionKeys : OtherCreates(k) \/ OtherDeletes(k)
  \/ \E p \in CopyPlaces : SelectPlace(p)

ActionSpec == ActionInit /\ [][ActionNext]_actionPart

-----------------------------------------------------------------------------
Lost(k) == stored[k] # None /\ stored'[k] # stored[k]

(* A request takes from the database only keys, or values, the dialog       *)
(* showed when it was sent.  The exceptions are known: a deletion searches  *)
(* again, and finds what has been created since; the preview stops early, or *)
(* is of an earlier pattern, if another was typed while it was made; a name *)
(* that is given to a key may be taken.  A copy shown as done went to the   *)
(* target it is shown with, or nowhere, unless another target was selected  *)
(* meanwhile or the part of the target that is sent does not tell it.       *)
ActsAsShown ==
  /\ [](copied # None =>
          copied.crossed \/ (place # None /\ IsNamed(place, place, copied.to)))
  /\ [][\A k \in ActionKeys : Lost(k) =>
          \/ othersDone' # othersDone
          \/ \E c \in Sends :
               /\ sends[c] # None /\ sends'[c] # sends[c]
               /\ \/ k \in sends[c].shown \cup sends[c].late \cup {sends[c].to}
                  \/ sends[c].crossed]_actionPart
=============================================================================

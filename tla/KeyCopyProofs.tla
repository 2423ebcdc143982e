--------------------------- MODULE KeyCopyProofs ---------------------------
(***************************************************************************)
(* Proofs about the copy of keys and the tab that compares and copies      *)
(* them, for any keys, values, requests and meddling.                      *)
(*                                                                         *)
(* A copy without replace changes no key that its target held, also where  *)
(* source and target are one database.  This is not inductive: after the   *)
(* look at the target (TYPE) the job writes without looking again.  The    *)
(* strengthening says that past that point the current key was not there   *)
(* when the request began, or somebody else has touched it since.          *)
(*                                                                         *)
(* The result of a copy tells the truth about every key.  For this the     *)
(* strengthening follows the current key from command to command.          *)
(*                                                                         *)
(* What the tab compares, and the keys it copies, are of the sides named.  *)
(***************************************************************************)
EXTENDS KeyCopy, KeyDiff, TLAPS

Past == {"read", "write", "restore", "expire"}

(* What the target connection's database held when the request began.       *)
Held(k) == IF aliased THEN before.source[k] ELSE before.target[k]

Shape ==
  /\ source = [k \in Keys |-> source[k]]
  /\ target = [k \in Keys |-> target[k]]

Absent ==
  ~replace /\ pc \in Past /\ key \in Keys \ meddled => Held(key) = None

KeepInv == Shape /\ KeptWithoutReplace /\ Absent

(* A write of the current key past the check keeps what was there.          *)
LEMMA WriteKeeps ==
  ASSUME KeepInv, pc \in Past, NEW e, SetTarget(key, e), UNCHANGED <<replace, others>>
  PROVE  Shape' /\ KeptWithoutReplace'
<1>1. CASE aliased
  <2>1. source' = [source EXCEPT ![key] = e] /\ UNCHANGED <<target, aliased>>
    BY <1>1 DEF SetTarget
  <2>2. Shape'
    BY <2>1 DEF KeepInv, Shape
  <2>3. ~replace => \A k \in Keys \ meddled :
          before.source[k] # None => k # key
    BY <1>1 DEF KeepInv, Absent, Held
  <2>4. \A k \in Keys : k # key => source'[k] = source[k]
    BY <2>1 DEF KeepInv, Shape
  <2>5. \A k \in Keys : target'[k] = target[k]
    BY <2>1
  <2> QED
    BY <1>1, <2>1, <2>2, <2>3, <2>4, <2>5 DEF KeepInv, KeptWithoutReplace, others
<1>2. CASE ~aliased
  <2>1. target' = [target EXCEPT ![key] = e] /\ UNCHANGED <<source, aliased>>
    BY <1>2 DEF SetTarget
  <2>2. Shape'
    BY <2>1 DEF KeepInv, Shape
  <2>3. ~replace => \A k \in Keys \ meddled :
          before.target[k] # None => k # key
    BY <1>2 DEF KeepInv, Absent, Held
  <2>4. \A k \in Keys : k # key => target'[k] = target[k]
    BY <2>1 DEF KeepInv, Shape
  <2> QED
    BY <1>2, <2>1, <2>2, <2>3, <2>4 DEF KeepInv, KeptWithoutReplace, others
<1> QED BY <1>1, <1>2

(* A step that writes nothing keeps what was there.                         *)
LEMMA ReadKeeps ==
  ASSUME KeepInv, UNCHANGED <<dbs, replace, others>>
  PROVE  Shape' /\ KeptWithoutReplace'
BY DEF KeepInv, Shape, KeptWithoutReplace, dbs, others

LEMMA DbsKeepAbsent ==
  ASSUME KeepInv, UNCHANGED <<aliased, replace, others, todo>>,
         pc \in Past \/ pc' \notin Past
  PROVE  Absent'
BY DEF KeepInv, Absent, Held, others, key

LEMMA OutcomeLeaves == Succeed \/ Skip \/ Fail => pc' \notin Past
BY DEF Succeed, Skip, Fail, NextKey, Past

LEMMA AbsentElsewhere == pc' \notin Past => Absent'
BY DEF Absent

(* A write past the check: the job goes on with the key or leaves it.       *)
LEMMA JobWrite ==
  ASSUME KeepInv, pc \in Past, NEW e, SetTarget(key, e), UNCHANGED <<replace, others>>,
         UNCHANGED todo \/ pc' \notin Past
  PROVE  KeepInv'
<1>1. Shape' /\ KeptWithoutReplace'
  BY WriteKeeps
<1>2. UNCHANGED aliased
  BY DEF SetTarget
<1>3. Absent'
  BY <1>2, DbsKeepAbsent, AbsentElsewhere
<1> QED BY <1>1, <1>3 DEF KeepInv

LEMMA JobRead ==
  ASSUME KeepInv, UNCHANGED <<dbs, replace, others>>,
         (pc \in Past /\ UNCHANGED todo) \/ pc' \notin Past
  PROVE  KeepInv'
<1>1. Shape' /\ KeptWithoutReplace'
  BY ReadKeeps
<1>2. Absent'
  BY DbsKeepAbsent, AbsentElsewhere DEF dbs
<1> QED BY <1>1, <1>2 DEF KeepInv

LEMMA JobStep == KeepInv /\ Job => KeepInv'
<1> SUFFICES ASSUME KeepInv, Job PROVE KeepInv'
  OBVIOUS
<1>1. CASE ReadType
  <2>1. pc' \notin Past
    BY <1>1, OutcomeLeaves DEF ReadType, Go, Past
  <2> QED BY <1>1, <2>1, JobRead DEF ReadType
<1>2. CASE ReadTtl
  <2>1. pc' \notin Past
    BY <1>2 DEF ReadTtl, Go, Past
  <2> QED BY <1>2, <2>1, JobRead DEF ReadTtl
<1>3. CASE CheckTarget
  <2>1. CASE AtTarget(key) # None
    <3>1. pc' \notin Past
      BY <1>3, <2>1, OutcomeLeaves DEF CheckTarget
    <3> QED BY <1>3, <3>1, JobRead DEF CheckTarget
  <2>2. CASE AtTarget(key) = None
    <3>1. UNCHANGED <<dbs, replace, others, todo>> /\ ~replace
      BY <1>3, <2>2 DEF CheckTarget, Go
    <3>2. Shape' /\ KeptWithoutReplace'
      BY <3>1, ReadKeeps
    <3>3. key \in Keys \ meddled => Held(key) = None
      BY <2>2, <3>1 DEF AtTarget, Held, KeepInv, KeptWithoutReplace
    <3>4. Absent'
      BY <3>1, <3>3 DEF Absent, Held, dbs, others, key
    <3> QED BY <3>2, <3>4 DEF KeepInv
  <2> QED BY <2>1, <2>2
<1>4. CASE ClearTarget
  <2>1. replace /\ replace' = replace /\ SetTarget(key, None) /\ UNCHANGED others
    BY <1>4 DEF ClearTarget
  <2>2. Shape'
    BY <2>1 DEF SetTarget, KeepInv, Shape
  <2> QED BY <2>1, <2>2 DEF KeepInv, KeptWithoutReplace, Absent
<1>5. CASE ReadValue
  <2>1. pc \in Past
    BY <1>5 DEF ReadValue, Past
  <2>2. UNCHANGED todo \/ pc' \notin Past
    BY <1>5, OutcomeLeaves DEF ReadValue, Go
  <2> QED BY <1>5, <2>1, <2>2, JobRead DEF ReadValue
<1>6. CASE Dump
  <2>1. pc \in Past
    BY <1>6 DEF Dump, Past
  <2>2. UNCHANGED todo \/ pc' \notin Past
    BY <1>6, OutcomeLeaves DEF Dump, Go
  <2> QED BY <1>6, <2>1, <2>2, JobRead DEF Dump
<1>7. CASE WriteString
  <2>1. pc \in Past /\ UNCHANGED <<replace, others>>
    BY <1>7 DEF WriteString, Past
  <2>2. UNCHANGED todo \/ pc' \notin Past
    BY <1>7, OutcomeLeaves DEF WriteString, Go
  <2>3. (\E e : SetTarget(key, e)) \/ UNCHANGED dbs
    BY <1>7 DEF WriteString
  <2> QED BY <2>1, <2>2, <2>3, JobWrite, JobRead
<1>8. CASE WriteCollection
  <2>1. pc \in Past /\ UNCHANGED <<replace, others>>
    BY <1>8 DEF WriteCollection, Past
  <2>2. UNCHANGED todo \/ pc' \notin Past
    BY <1>8, OutcomeLeaves DEF WriteCollection, Go
  <2>3. (\E e : SetTarget(key, e)) \/ UNCHANGED dbs
    BY <1>8 DEF WriteCollection
  <2> QED BY <2>1, <2>2, <2>3, JobWrite, JobRead
<1>9. CASE WriteStream
  <2>1. pc \in Past /\ UNCHANGED <<replace, others>>
    BY <1>9 DEF WriteStream, Past
  <2>2. UNCHANGED todo \/ pc' \notin Past
    BY <1>9, OutcomeLeaves DEF WriteStream, Go
  <2>3. (\E e : SetTarget(key, e)) \/ UNCHANGED dbs
    BY <1>9 DEF WriteStream
  <2> QED BY <2>1, <2>2, <2>3, JobWrite, JobRead
<1>10. CASE Restore
  <2>1. pc \in Past /\ pc' \notin Past
    BY <1>10, OutcomeLeaves DEF Restore, Past
  <2> QED BY <1>10, <2>1, JobWrite DEF Restore
<1>11. CASE ExpireTarget
  <2>1. pc \in Past /\ pc' \notin Past
    BY <1>11, OutcomeLeaves DEF ExpireTarget, Past
  <2>2. (\E e : SetTarget(key, e)) \/ UNCHANGED dbs
    BY <1>11 DEF ExpireTarget
  <2> QED BY <1>11, <2>1, <2>2, JobWrite, JobRead DEF ExpireTarget
<1>12. CASE CommandFails
  <2>1. pc' \notin Past
    BY <1>12, OutcomeLeaves DEF CommandFails
  <2> QED BY <1>12, <2>1, JobRead DEF CommandFails
<1> QED
  BY <1>1, <1>2, <1>3, <1>4, <1>5, <1>6, <1>7, <1>8, <1>9, <1>10, <1>11, <1>12 DEF Job

(* Others touch keys that count as meddled from then on.                    *)
LEMMA OthersStep ==
  ASSUME KeepInv, NEW k \in Keys, Meddle(k),
         NEW e,
         \/ source' = [source EXCEPT ![k] = e] /\ UNCHANGED target
         \/ target' = [target EXCEPT ![k] = e] /\ UNCHANGED source
  PROVE  KeepInv'
<1>1. UNCHANGED <<aliased, replace, before, todo, pc>> /\ meddled' = meddled \cup {k}
  BY DEF Meddle
<1>2. Shape'
  BY DEF KeepInv, Shape
<1>3. \A j \in Keys : j # k => source'[j] = source[j] /\ target'[j] = target[j]
  BY DEF KeepInv, Shape
<1>4. KeptWithoutReplace'
  BY <1>1, <1>3 DEF KeepInv, KeptWithoutReplace
<1>5. Absent'
  BY <1>1 DEF KeepInv, Absent, Held, key
<1> QED BY <1>2, <1>4, <1>5 DEF KeepInv

LEMMA KeepStep == KeepInv /\ [Next]_vars => KeepInv'
<1> SUFFICES ASSUME KeepInv, [Next]_vars PROVE KeepInv'
  OBVIOUS
<1>1. ASSUME NEW ks \in KeyLists, NEW r \in BOOLEAN, copyKeysBatch(ks, r) PROVE KeepInv'
  <2>1. UNCHANGED <<source, target, aliased>> /\ pc' \notin Past
    BY <1>1 DEF copyKeysBatch, dbs, Past
  <2>2. before' = [source |-> source, target |-> target]
    BY <1>1 DEF copyKeysBatch
  <2>3. KeptWithoutReplace'
    BY <2>1, <2>2 DEF KeptWithoutReplace
  <2> QED BY <2>1, <2>3, AbsentElsewhere DEF KeepInv, Shape
<1>2. CASE Job
  BY <1>2, JobStep
<1>3. ASSUME NEW k \in Keys, NEW e \in Entries \cup {None}, OtherWrites(k, e) PROVE KeepInv'
  BY <1>3, OthersStep DEF OtherWrites
<1>4. ASSUME NEW k \in Keys, TimePasses(k) PROVE KeepInv'
  BY <1>4, OthersStep DEF TimePasses
<1>5. CASE UNCHANGED vars
  <2>1. Shape' /\ KeptWithoutReplace'
    BY <1>5, ReadKeeps DEF vars
  <2> QED BY <1>5, <2>1 DEF vars, dbs, others, KeepInv, Absent, Held, key
<1> QED BY <1>1, <1>2, <1>3, <1>4, <1>5 DEF Next

(* Without replace, what the target held stays as it was, whatever commands *)
(* fail, whatever others do to other keys, and even if it is the source.    *)
THEOREM NothingReplaced == Spec => []KeptWithoutReplace
<1>1. Init => KeepInv
  <2> SUFFICES ASSUME Init PROVE KeepInv
    OBVIOUS
  <2>1. Shape
    <3>1. source \in [Keys -> Entries \cup {None}] /\ target \in [Keys -> Entries \cup {None}]
      BY DEF Init
    <3> QED BY <3>1 DEF Shape
  <2>2. KeptWithoutReplace
    BY DEF Init, KeptWithoutReplace
  <2>3. Absent
    BY DEF Init, Absent, Past
  <2> QED BY <2>1, <2>2, <2>3 DEF KeepInv
<1> QED
  BY <1>1, KeepStep, PTL DEF Spec, KeepInv

-----------------------------------------------------------------------------
(* The result.  It tells the truth about a key because of what is known of  *)
(* the key while it is copied: its source has not changed, its target is    *)
(* empty once it has been looked at, or cleared, and what is not yet at the *)
(* target is in the value that was read.                                    *)

(* The entry as it is before EXPIRE.                                        *)
Written(e) == [type |-> e.type, content |-> Decoded(e).content, expiry |-> "never"]

Current(k) == pc \in Past /\ k = key

CopyShape ==
  /\ source = [k \in Keys |-> source[k]] /\ target = [k \in Keys |-> target[k]]
  /\ todo \in Seq(Keys) /\ (pc \notin {"idle", "done"} => todo # <<>>)
  /\ before.source \in Database
  /\ pc = "idle" => source \in Database /\ succeeded = {} /\ skipped = {} /\ failed = {}
  /\ replace => skipped = {}

Stays ==
  \A k \in Keys \ meddled :
    /\ aliased => target[k] = before.target[k]
    /\ ~aliased => source[k] = before.source[k]

ReadOf(k) ==
  /\ pc \in {"ttl", "clear"} \cup Past =>
       before.source[k] # None /\ type = before.source[k].type
  /\ pc \in {"clear"} \cup Past => (ttl <=> before.source[k].expiry = "later")

ReadTruly == ~aliased => \A k \in Keys \ meddled : k = key => ReadOf(k)

(* What has arrived of a stream whose last entries are still to be written. *)
Arriving(k) == Decoded(before.source[k]).content \ value.content

UnderWay(k) ==
  /\ k \in skipped => k \in succeeded \cup failed
  /\ pc = "read" => target[k] = None
  /\ pc = "write" =>
       /\ value \in Entry /\ type # "module"
       /\ type # "stream" => value = Decoded(before.source[k]) /\ target[k] = None
       /\ type = "stream" =>
            /\ value.content \subseteq Decoded(before.source[k]).content
            /\ target[k] = IF Arriving(k) = {} THEN None
                           ELSE [type |-> "stream", content |-> Arriving(k), expiry |-> "never"]
  /\ pc = "restore" => type = "module" /\ value = before.source[k]
  /\ pc = "expire" =>
       /\ type # "module"
       /\ EmptyStream(before.source[k]) \/ target[k] = Written(before.source[k])

Settled(k) ==
  /\ k \in succeeded \ failed =>
       /\ before.source[k] # None
       /\ EmptyStream(before.source[k]) \/ target[k] = Arrived(before.source[k])
  /\ k \notin succeeded \cup failed => target[k] = before.target[k]
  /\ k \in skipped \ (succeeded \cup failed) => target[k] # None

KeyTold(k) == IF Current(k) THEN UnderWay(k) ELSE Settled(k)

KeysTold ==
  ~aliased => \A k \in Keys \ meddled : KeyTold(k)

CopyInv == CopyShape /\ Stays /\ ReadTruly /\ KeysTold

(* What a copy makes of an entry.                                           *)
LEMMA EntryFacts ==
  ASSUME NEW e \in Entry
  PROVE  /\ Decoded(e) \in Entry /\ Decoded(e).type = e.type
         /\ e.type = "stream" => (EmptyStream(e) <=> Decoded(e).content = {})
         /\ Arrived(e) \in Entry /\ Arrived(e) # None
         /\ e.type # "module" /\ e.expiry # "later" => Arrived(e) = Written(e)
         /\ e.type # "module" /\ e.expiry = "later" =>
              Arrived(e) = [Written(e) EXCEPT !.expiry = "later"]
         /\ e.type = "module" =>
              Arrived(e) = [e EXCEPT !.expiry = IF e.expiry = "later" THEN "later" ELSE "never"]
<1>1. e.content \subseteq Elems /\ e.type \in Types /\ e.expiry \in Expiries
  BY DEF Entry
<1>2. {Decode[x] : x \in e.content} \subseteq Elems
  BY <1>1, DecodeAssumption
<1>3. Decoded(e) \in Entry /\ Decoded(e).type = e.type /\ Decoded(e).content = {Decode[x] : x \in e.content}
  BY <1>2 DEF Decoded, Entry
<1>4. e.type = "stream" => (EmptyStream(e) <=> Decoded(e).content = {})
  BY <1>3 DEF EmptyStream
<1>5. Decoded(e).content \subseteq Elems
  BY <1>2, <1>3
<1> DEFINE c == IF e.type = "module" THEN e.content ELSE Decoded(e).content
           x == IF e.expiry = "later" THEN "later" ELSE "never"
<1>6. Arrived(e) = [type |-> e.type, content |-> c, expiry |-> x]
  BY DEF Arrived
<1>7. c \in SUBSET Elems /\ x \in Expiries
  BY <1>1, <1>5 DEF Expiries
<1>8. Arrived(e) \in Entry
  <2> HIDE DEF c, x
  <2> QED BY <1>1, <1>6, <1>7 DEF Entry
<1>9. Arrived(e) # None
  BY <1>8, NoEntryAssumption
<1>10. e.type # "module" /\ e.expiry # "later" => Arrived(e) = Written(e)
  BY <1>6 DEF Written
<1>11. e.type # "module" /\ e.expiry = "later" =>
         Arrived(e) = [Written(e) EXCEPT !.expiry = "later"]
  BY <1>6 DEF Written
<1>12. e.type = "module" =>
         Arrived(e) = [e EXCEPT !.expiry = IF e.expiry = "later" THEN "later" ELSE "never"]
  <2> SUFFICES ASSUME e.type = "module" PROVE Arrived(e) = [e EXCEPT !.expiry = x]
    OBVIOUS
  <2>1. Arrived(e) = [type |-> e.type, content |-> e.content, expiry |-> x]
    BY <1>6
  <2> HIDE DEF x
  <2> QED BY <2>1 DEF Entry
<1> QED BY <1>3, <1>4, <1>8, <1>9, <1>10, <1>11, <1>12

-----------------------------------------------------------------------------
(* The steps of a job concern the current key only.                         *)

Outcome == Succeed \/ Skip \/ Fail
NextCommands == {"ttl", "clear", "read", "write", "restore", "expire"}

LEMMA JobSteps ==
  ASSUME Job
  PROVE  /\ pc \notin {"idle", "done"} /\ UNCHANGED <<aliased, replace, others>>
         /\ (\E e : SetTarget(key, e)) \/ UNCHANGED dbs
         /\ (\E p \in NextCommands : Go(p)) \/ Outcome
         /\ replace => UNCHANGED skipped
<1> USE DEF NextCommands, Outcome
<1>1. CASE ReadType \/ ReadTtl \/ CheckTarget \/ ReadValue \/ Dump \/ CommandFails
  <2>1. UNCHANGED <<dbs, replace, others>> /\ pc \notin {"idle", "done"}
    BY <1>1 DEF ReadType, ReadTtl, CheckTarget, ReadValue, Dump, CommandFails
  <2>2. (\E p \in NextCommands : Go(p)) \/ Outcome
    BY <1>1 DEF ReadType, ReadTtl, CheckTarget, ReadValue, Dump, CommandFails
  <2>3. replace => UNCHANGED skipped
    BY <1>1 DEF ReadType, ReadTtl, CheckTarget, ReadValue, Dump, CommandFails, Go, Fail, result
  <2> QED BY <2>1, <2>2, <2>3 DEF dbs
<1>2. CASE ClearTarget \/ WriteString \/ WriteCollection \/ WriteStream \/ Restore \/ ExpireTarget
  <2>1. UNCHANGED <<replace, others>> /\ pc \notin {"idle", "done"}
    BY <1>2 DEF ClearTarget, WriteString, WriteCollection, WriteStream, Restore, ExpireTarget
  <2>2. (\E e : SetTarget(key, e)) \/ UNCHANGED dbs
    BY <1>2 DEF ClearTarget, WriteString, WriteCollection, WriteStream, Restore, ExpireTarget
  <2>3. (\E p \in NextCommands : Go(p)) \/ Succeed \/ Fail
    BY <1>2 DEF ClearTarget, WriteString, WriteCollection, WriteStream, Restore, ExpireTarget
  <2>4. replace => UNCHANGED skipped
    BY <2>3 DEF Go, Succeed, Fail, result
  <2> QED BY <2>1, <2>2, <2>3, <2>4 DEF SetTarget, dbs
<1> QED BY <1>1, <1>2 DEF Job

LEMMA JobShape ==
  ASSUME CopyInv, Job
  PROVE  CopyShape'
<1>1. todo \in Seq(Keys) /\ todo # <<>>
  BY JobSteps DEF CopyInv, CopyShape
<1>2. todo' \in Seq(Keys) /\ pc' # "idle" /\ (pc' # "done" => todo' # <<>>)
  <2>1. CASE \E p \in NextCommands : Go(p)
    BY <1>1, <2>1 DEF NextCommands, Go
  <2>2. CASE Outcome
    <3>1. todo' = Tail(todo) /\ pc' = IF Tail(todo) = <<>> THEN "done" ELSE "type"
      BY <2>2 DEF Outcome, Succeed, Skip, Fail, NextKey
    <3>2. Tail(todo) \in Seq(Keys)
      BY <1>1
    <3> QED BY <3>1, <3>2
  <2> QED BY <2>1, <2>2, JobSteps
<1>3. source' = [k \in Keys |-> source'[k]] /\ target' = [k \in Keys |-> target'[k]]
  BY JobSteps DEF SetTarget, dbs, CopyInv, CopyShape
<1>4. before' = before /\ replace' = replace /\ (replace => UNCHANGED skipped)
  BY JobSteps DEF others
<1> QED BY <1>2, <1>3, <1>4 DEF CopyInv, CopyShape

LEMMA JobStays ==
  ASSUME CopyInv, Job
  PROVE  Stays'
BY JobSteps DEF SetTarget, dbs, others, CopyInv, Stays

(* What was settled of other keys stays so.                                 *)
LEMMA OthersTold ==
  ASSUME CopyInv, Job, ~aliased, NEW k \in Keys \ meddled, k # key
  PROVE  KeyTold(k)'
<1>1. Settled(k)
  BY DEF CopyInv, KeysTold, KeyTold, Current
<1>2. target'[k] = target[k]
  BY JobSteps DEF SetTarget, dbs, CopyInv, CopyShape
<1>3. /\ k \in succeeded' <=> k \in succeeded
      /\ k \in skipped' <=> k \in skipped
      /\ k \in failed' <=> k \in failed
  BY JobSteps DEF NextCommands, Outcome, Go, Succeed, Skip, Fail, result
<1>4. ~Current(k)'
  BY JobSteps DEF NextCommands, Outcome, Go, Succeed, Skip, Fail, NextKey, Current, Past, key
<1>5. before' = before
  BY JobSteps DEF others
<1>6. Settled(k)'
  BY <1>1, <1>2, <1>3, <1>5 DEF Settled
<1> QED BY <1>4, <1>6 DEF KeyTold

-----------------------------------------------------------------------------
(* The current key.                                                         *)

(* The key that is copied, as long as nobody else has touched it.           *)
Untouched(k) ==
  /\ ~aliased /\ k \in Keys \ meddled /\ k = key
  /\ source[k] = before.source[k]
  /\ target = [j \in Keys |-> target[j]]
  /\ before.source[k] \in Entry \cup {None}
  /\ ReadOf(k) /\ KeyTold(k) /\ (replace => skipped = {})

LEMMA IsUntouched ==
  ASSUME CopyInv, ~aliased, NEW k \in Keys \ meddled, k = key
  PROVE  Untouched(k)
BY DEF CopyInv, CopyShape, Stays, ReadTruly, KeysTold, Untouched, Database

KeyIsTold(k) == KeyTold(k)' /\ (key' = k => ReadOf(k)')

LEMMA OutcomeEnds ==
  ASSUME NEW k, Outcome
  PROVE  ~Current(k)' /\ ReadOf(k)'
BY DEF Outcome, Succeed, Skip, Fail, NextKey, Current, ReadOf, Past

LEMMA FailTells ==
  ASSUME NEW k, k = key, Fail
  PROVE  KeyIsTold(k)
<1>1. k \in failed'
  BY DEF Fail
<1>2. Settled(k)'
  BY <1>1 DEF Settled
<1> QED BY <1>2, OutcomeEnds DEF Outcome, KeyIsTold, KeyTold

LEMMA SucceedTells ==
  ASSUME NEW k, k = key, Succeed, UNCHANGED others, before.source[k] # None,
         EmptyStream(before.source[k]) \/ target'[k] = Arrived(before.source[k])
  PROVE  KeyIsTold(k)
<1>1. k \in succeeded' /\ before' = before
  BY DEF Succeed, others
<1>2. Settled(k)'
  BY <1>1 DEF Settled
<1> QED BY <1>2, OutcomeEnds DEF Outcome, KeyIsTold, KeyTold

LEMMA LookTells ==
  ASSUME NEW k, Untouched(k), ReadType \/ ReadTtl \/ CheckTarget \/ ClearTarget
  PROVE  KeyIsTold(k)
<1> USE DEF Untouched
<1>0. /\ pc \in {"type", "ttl", "clear"}
      /\ UNCHANGED others
  BY DEF ReadType, ReadTtl, CheckTarget, ClearTarget
<1>a. before' = before /\ meddled' = meddled
  BY <1>0 DEF others
<1>b. Settled(k)
  BY <1>0 DEF KeyTold, Current, Past
<1>1. CASE ReadType
  <2>1. CASE Fail
    BY <2>1, FailTells
  <2>2. CASE source[k] # None /\ type' = source[k].type /\ Go("ttl") /\ UNCHANGED <<ttl, value>>
    <3>1. ReadOf(k)'
      BY <1>a, <2>2 DEF ReadOf, Go, Past
    <3>2. UNCHANGED <<target, result>> /\ pc' = "ttl"
      BY <1>1, <2>2 DEF ReadType, Go, dbs
    <3>3. Settled(k)' /\ ~Current(k)'
      BY <1>a, <1>b, <3>2 DEF Settled, Current, Past, result
    <3> QED BY <3>1, <3>3 DEF KeyIsTold, KeyTold
  <2> QED BY <1>1, <2>1, <2>2 DEF ReadType
<1>2. CASE ReadTtl
  <2>1. Go("clear") /\ type' = type /\ UNCHANGED <<target, result>> /\ pc' = "clear" /\ pc = "ttl"
    BY <1>2 DEF ReadTtl, Go, dbs
  <2>2. ttl' <=> source[k] # None /\ source[k].expiry = "later"
    <3>1. ttl' = (source[k] # None /\ source[k].expiry = "later")
      BY <1>2 DEF ReadTtl
    <3> QED BY <3>1
  <2>3. before.source[k] # None /\ type = before.source[k].type
    BY <2>1 DEF ReadOf
  <2>4. ReadOf(k)'
    BY <1>a, <2>1, <2>2, <2>3 DEF ReadOf, Past
  <2>5. Settled(k)' /\ ~Current(k)'
    BY <1>a, <1>b, <2>1 DEF Settled, Current, Past, result
  <2> QED BY <2>4, <2>5 DEF KeyIsTold, KeyTold
<1>3. ASSUME Go("read"), UNCHANGED reads, target'[k] = None, k \in skipped => k \in succeeded \cup failed,
             pc = "clear"
      PROVE  KeyIsTold(k)
  <2>1. ReadOf(k)'
    BY <1>a, <1>3 DEF ReadOf, Go, Past, reads
  <2>2. UnderWay(k)' /\ Current(k)'
    BY <1>3 DEF UnderWay, Current, Go, Past, result, key
  <2> QED BY <2>1, <2>2 DEF KeyIsTold, KeyTold
<1>4. CASE CheckTarget
  <2>1. pc = "clear" /\ ~replace /\ UNCHANGED dbs
    BY <1>4 DEF CheckTarget
  <2>2. CASE target[k] # None
    <3>1. Skip
      BY <1>4, <2>2 DEF CheckTarget, AtTarget
    <3>2. Settled(k)'
      BY <1>a, <1>b, <2>1, <2>2, <3>1 DEF Settled, Skip, dbs
    <3> QED BY <3>1, <3>2, OutcomeEnds DEF Outcome, KeyIsTold, KeyTold
  <2>3. CASE target[k] = None
    <3>1. Go("read") /\ UNCHANGED reads
      BY <1>4, <2>3 DEF CheckTarget, AtTarget
    <3> QED BY <1>3, <1>b, <2>1, <2>3, <3>1 DEF Settled, dbs
  <2> QED BY <2>2, <2>3
<1>5. CASE ClearTarget
  <2>1. pc = "clear" /\ skipped = {} /\ target' = [target EXCEPT ![k] = None]
    BY <1>5 DEF ClearTarget, SetTarget
  <2>2. target'[k] = None
    BY <2>1
  <2> QED BY <1>3, <1>5, <2>1, <2>2, FailTells DEF ClearTarget
<1> QED BY <1>1, <1>2, <1>4, <1>5

LEMMA ReadTells ==
  ASSUME NEW k, Untouched(k), ReadValue \/ Dump
  PROVE  KeyIsTold(k)
<1> USE DEF Untouched
<1>1. pc = "read" /\ UNCHANGED <<target, others>>
  BY DEF ReadValue, Dump, dbs
<1>2. /\ before' = before /\ Current(k) /\ target[k] = None
      /\ before.source[k] \in Entry /\ type = before.source[k].type
      /\ k \in skipped => k \in succeeded \cup failed
  BY <1>1 DEF others, Current, Past, KeyTold, UnderWay, ReadOf
<1>3. CASE Fail
  BY <1>3, FailTells
<1>4. ASSUME NEW p \in {"write", "restore"}, Go(p), UNCHANGED <<type, ttl>>
      PROVE  ReadOf(k)' /\ Current(k)' /\ (k \in skipped' => k \in (succeeded \cup failed)')
  BY <1>1, <1>2, <1>4 DEF Go, Current, ReadOf, Past, key, result
<1>5. CASE ReadValue /\ ~Fail
  <2>1. value' = Decoded(before.source[k]) /\ Go("write") /\ UNCHANGED <<type, ttl>> /\ type # "module"
    BY <1>2, <1>5, NoEntryAssumption DEF ReadValue
  <2>2. value' \in Entry /\ pc' = "write"
    BY <1>2, <2>1, EntryFacts DEF Go
  <2>3. UnderWay(k)'
    <3>1. Arriving(k)' = {}
      BY <1>2, <2>1 DEF Arriving
    <3> QED BY <1>1, <1>2, <1>4, <2>1, <2>2, <3>1 DEF UnderWay
  <2> QED BY <1>4, <2>1, <2>3 DEF KeyIsTold, KeyTold
<1>6. CASE Dump /\ ~Fail
  <2>1. value' = before.source[k] /\ Go("restore") /\ UNCHANGED <<type, ttl>> /\ type = "module"
    BY <1>2, <1>6 DEF Dump
  <2>2. UnderWay(k)'
    BY <1>2, <1>4, <2>1 DEF UnderWay, Go
  <2> QED BY <1>4, <2>1, <2>2 DEF KeyIsTold, KeyTold
<1> QED BY <1>3, <1>5, <1>6

(* With the last write a key has arrived, but for its expiry.               *)
LEMMA WrittenTells ==
  ASSUME NEW k, Untouched(k), pc = "write", Go("expire"), UNCHANGED <<reads, others>>,
         EmptyStream(before.source[k]) \/ target'[k] = Written(before.source[k])
  PROVE  KeyIsTold(k)
<1> USE DEF Untouched
<1>1. /\ before' = before /\ pc' = "expire" /\ key' = key /\ type' = type /\ ttl' = ttl
      /\ UNCHANGED result
  BY DEF others, Go, key, reads
<1>2. Current(k) /\ type # "module" /\ (k \in skipped => k \in succeeded \cup failed)
  BY DEF Current, Past, KeyTold, UnderWay
<1>3. UnderWay(k)'
  BY <1>1, <1>2 DEF UnderWay, result
<1>4. ReadOf(k)' /\ Current(k)'
  BY <1>1 DEF ReadOf, Current, Past
<1> QED BY <1>3, <1>4 DEF KeyIsTold, KeyTold

LEMMA WriteTells ==
  ASSUME NEW k, Untouched(k), WriteString \/ WriteCollection \/ WriteStream
  PROVE  KeyIsTold(k)
<1> USE DEF Untouched
<1> DEFINE s == before.source[k]
<1>1. pc = "write" /\ UNCHANGED others /\ before' = before
  BY DEF WriteString, WriteCollection, WriteStream, others
<1>2. Current(k) /\ UnderWay(k) /\ s \in Entry /\ type = s.type
  BY <1>1 DEF Current, Past, KeyTold, ReadOf
<1>3. value \in Entry /\ value # None
  BY <1>1, <1>2, NoEntryAssumption DEF UnderWay
<1>4. CASE Fail
  BY <1>4, FailTells
<1>5. CASE WriteString /\ ~Fail
  <2>1. /\ target' = [target EXCEPT ![k] = [type |-> "string", expiry |-> "never",
                                            content |-> value.content]]
        /\ Go("expire") /\ UNCHANGED reads /\ type = "string"
    BY <1>3, <1>5 DEF WriteString, SetTarget
  <2>2. value = Decoded(s)
    BY <1>1, <1>2, <2>1 DEF UnderWay
  <2>3. target'[k] = Written(s)
    BY <1>2, <2>1, <2>2 DEF Written
  <2> QED BY <1>1, <2>1, <2>3, WrittenTells
<1>6. CASE WriteCollection /\ ~Fail
  <2>1. type # "stream" /\ type \in {"collection", "zset"}
    BY <1>6 DEF WriteCollection
  <2>2. value = Decoded(s) /\ target[k] = None
    BY <1>1, <1>2, <2>1 DEF UnderWay
  <2>3. /\ target' = [target EXCEPT ![k] = Added(target[k], type, value.content)]
        /\ Go("expire") /\ UNCHANGED reads
    BY <1>3, <1>6 DEF WriteCollection, SetTarget, AtTarget
  <2>4. target'[k] = Written(s)
    BY <1>2, <2>2, <2>3 DEF Written, Added
  <2> QED BY <1>1, <2>3, <2>4, WrittenTells
<1>7. CASE WriteStream /\ ~Fail
  <2>1. /\ type = "stream" /\ value.content \subseteq Decoded(s).content
        /\ target[k] = IF Arriving(k) = {} THEN None
                       ELSE [type |-> "stream", content |-> Arriving(k), expiry |-> "never"]
    BY <1>1, <1>2, <1>7 DEF UnderWay, WriteStream
  <2>2. CASE value.content = {}
    <3>1. Go("expire") /\ UNCHANGED <<reads, dbs>>
      BY <1>3, <1>7, <2>2 DEF WriteStream
    <3>2. Arriving(k) = Decoded(s).content
      BY <2>2 DEF Arriving
    <3>3. EmptyStream(s) \/ target'[k] = Written(s)
      BY <1>2, <2>1, <3>1, <3>2, EntryFacts DEF Written, dbs
    <3> QED BY <1>1, <3>1, <3>3, WrittenTells
  <2>3. CASE value.content # {}
    <3>1. PICK id \in value.content :
            /\ target' = [target EXCEPT ![k] = Added(target[k], "stream", {id})]
            /\ value' = [value EXCEPT !.content = @ \ {id}]
            /\ Go("write") /\ UNCHANGED <<type, ttl>>
      BY <1>3, <1>7, <2>1, <2>3 DEF WriteStream, SetTarget, AtTarget
    <3>2. value' \in Entry /\ value'.content = value.content \ {id}
      BY <1>3, <3>1 DEF Entry
    <3>3. Arriving(k)' = Arriving(k) \cup {id} /\ Arriving(k)' # {}
      BY <1>1, <2>1, <3>1, <3>2 DEF Arriving
    <3>4. target'[k] = [type |-> "stream", content |-> Arriving(k)', expiry |-> "never"]
      <4>1. target'[k] = Added(target[k], "stream", {id})
        BY <3>1
      <4>2. CASE Arriving(k) = {}
        BY <2>1, <3>3, <4>1, <4>2 DEF Added
      <4>3. CASE Arriving(k) # {}
        <5>1. PICK m : m = [type |-> "stream", content |-> Arriving(k), expiry |-> "never"]
          OBVIOUS
        <5>2. m # None
          <6>1. Arriving(k) \subseteq Elems
            BY <1>2, EntryFacts DEF Arriving, Entry
          <6>2. m \in Entry
            BY <5>1, <6>1 DEF Entry, Types, Expiries
          <6> QED BY <6>2, NoEntryAssumption
        <5>3. target'[k] = [m EXCEPT !.content = @ \cup {id}]
          BY <2>1, <4>1, <4>3, <5>1, <5>2 DEF Added
        <5> QED BY <3>3, <5>1, <5>3
      <4> QED BY <4>2, <4>3
    <3>5. type' = "stream" /\ pc' = "write" /\ key' = key /\ UNCHANGED result
      BY <2>1, <3>1 DEF Go, key
    <3>6. UnderWay(k)'
      BY <1>1, <1>2, <2>1, <3>2, <3>3, <3>4, <3>5 DEF UnderWay, result
    <3>7. ReadOf(k)' /\ Current(k)'
      BY <1>1, <3>1, <3>5 DEF ReadOf, Current, Past
    <3> QED BY <3>6, <3>7 DEF KeyIsTold, KeyTold
  <2> QED BY <2>2, <2>3
<1> QED BY <1>4, <1>5, <1>6, <1>7

LEMMA EndTells ==
  ASSUME NEW k, Untouched(k), Restore \/ ExpireTarget \/ CommandFails
  PROVE  KeyIsTold(k)
<1> USE DEF Untouched
<1> DEFINE s == before.source[k]
<1>1. CASE Fail
  BY <1>1, FailTells
<1>2. CASE Restore /\ ~Fail
  <2>1. /\ pc = "restore" /\ Succeed /\ UNCHANGED others
        /\ target' = [target EXCEPT ![k] = [value EXCEPT !.expiry = IF ttl THEN "later" ELSE "never"]]
    BY <1>2 DEF Restore, SetTarget
  <2>2. /\ Current(k) /\ UnderWay(k) /\ s \in Entry /\ type = s.type
        /\ ttl <=> s.expiry = "later"
    BY <2>1 DEF Current, Past, KeyTold, ReadOf
  <2>3. value = s /\ s.type = "module"
    BY <2>1, <2>2 DEF UnderWay
  <2>4. target'[k] = [s EXCEPT !.expiry = IF s.expiry = "later" THEN "later" ELSE "never"]
    BY <2>1, <2>2, <2>3
  <2>5. target'[k] = Arrived(s)
    BY <2>2, <2>3, <2>4, EntryFacts
  <2> QED BY <2>1, <2>2, <2>5, NoEntryAssumption, SucceedTells
<1>3. CASE ExpireTarget /\ ~Fail
  <2>1. pc = "expire" /\ Succeed /\ UNCHANGED others
    BY <1>3 DEF ExpireTarget
  <2>2. /\ Current(k) /\ UnderWay(k) /\ s \in Entry /\ type = s.type /\ type # "module"
        /\ ttl <=> s.expiry = "later"
        /\ EmptyStream(s) \/ target[k] = Written(s)
    BY <2>1 DEF Current, Past, KeyTold, ReadOf, UnderWay
  <2>3. CASE EmptyStream(s)
    BY <2>1, <2>2, <2>3, NoEntryAssumption, SucceedTells
  <2>4. CASE target[k] = Written(s)
    <3>1. Written(s) # None
      <4>1. Written(s) \in Entry
        <5>1. Decoded(s).content \subseteq Elems /\ s.type \in Types
          BY <2>2, EntryFacts DEF Entry
        <5> QED BY <5>1 DEF Written, Entry, Expiries
      <4> QED BY <4>1, NoEntryAssumption
    <3>2. target'[k] = IF ttl THEN [Written(s) EXCEPT !.expiry = "later"] ELSE Written(s)
      BY <1>3, <2>4, <3>1 DEF ExpireTarget, SetTarget, AtTarget, dbs
    <3>3. target'[k] = Arrived(s)
      BY <2>2, <3>2, EntryFacts
    <3> QED BY <2>1, <2>2, <3>3, NoEntryAssumption, SucceedTells
  <2> QED BY <2>2, <2>3, <2>4
<1> QED BY <1>1, <1>2, <1>3 DEF CommandFails

LEMMA JobTells ==
  ASSUME CopyInv, Job
  PROVE  CopyInv'
<1>1. CopyShape' /\ Stays'
  BY JobShape, JobStays
<1>2. aliased' = aliased /\ meddled' = meddled
  BY JobSteps DEF others
<1>3. ASSUME ~aliased, NEW k \in Keys \ meddled, k = key PROVE KeyIsTold(k)
  <2>1. Untouched(k)
    BY <1>3, IsUntouched
  <2> QED BY <2>1, LookTells, ReadTells, WriteTells, EndTells DEF Job
<1>4. KeysTold'
  <2>1. ASSUME ~aliased, NEW k \in Keys \ meddled PROVE KeyTold(k)'
    BY <1>3, <2>1, OthersTold DEF KeyIsTold
  <2> QED BY <1>2, <2>1 DEF KeysTold
<1>5. ReadTruly'
  <2>1. ASSUME ~aliased, NEW k \in Keys \ meddled, k = key' PROVE ReadOf(k)'
    <3>1. CASE Outcome
      BY <3>1, OutcomeEnds
    <3>2. CASE ~Outcome
      <4>1. key' = key
        BY <3>2, JobSteps DEF Go, key
      <4> QED BY <1>3, <2>1, <4>1 DEF KeyIsTold
    <3> QED BY <3>1, <3>2
  <2> QED BY <1>2, <2>1 DEF ReadTruly
<1> QED BY <1>1, <1>4, <1>5 DEF CopyInv

-----------------------------------------------------------------------------
LEMMA MeddlingTells ==
  ASSUME CopyInv, NEW j \in Keys, Meddle(j), NEW e,
         \/ source' = [source EXCEPT ![j] = e] /\ UNCHANGED target
         \/ target' = [target EXCEPT ![j] = e] /\ UNCHANGED source
  PROVE  CopyInv'
<1>1. /\ UNCHANGED <<aliased, replace, before, todo, pc, type, ttl, value, succeeded, skipped, failed>>
      /\ meddled' = meddled \cup {j} /\ pc \notin {"idle", "done"} /\ key' = key
  BY DEF Meddle, reads, result, key
<1>2. \A k \in Keys : k # j => source'[k] = source[k] /\ target'[k] = target[k]
  BY DEF CopyInv, CopyShape
<1>3. CopyShape'
  BY <1>1 DEF CopyInv, CopyShape
<1>4. Stays'
  BY <1>1, <1>2 DEF CopyInv, Stays
<1>5. ReadTruly'
  BY <1>1 DEF CopyInv, ReadTruly, ReadOf
<1>6. ASSUME ~aliased, NEW k \in Keys \ meddled' PROVE KeyTold(k)'
  <2>1. KeyTold(k) /\ target'[k] = target[k]
    BY <1>1, <1>2, <1>6 DEF CopyInv, KeysTold
  <2> QED BY <1>1, <2>1 DEF KeyTold, Current, UnderWay, Settled, Arriving
<1>7. KeysTold'
  BY <1>1, <1>6 DEF KeysTold
<1> QED BY <1>3, <1>4, <1>5, <1>7 DEF CopyInv

LEMMA RequestTells ==
  ASSUME CopyInv, NEW ks \in KeyLists, NEW r \in BOOLEAN, copyKeysBatch(ks, r)
  PROVE  CopyInv'
<1>1. /\ pc = "idle" /\ todo' = ks /\ pc' = (IF ks = <<>> THEN "done" ELSE "type")
      /\ before' = [source |-> source, target |-> target] /\ meddled' = {}
      /\ UNCHANGED <<source, target, aliased, succeeded, skipped, failed>>
  BY DEF copyKeysBatch, dbs, result
<1>2. source \in Database /\ succeeded = {} /\ skipped = {} /\ failed = {}
  BY <1>1 DEF CopyInv, CopyShape
<1>3. CopyShape'
  BY <1>1, <1>2, ListsAssumption DEF CopyInv, CopyShape
<1>4. Stays'
  BY <1>1 DEF Stays
<1>5. ReadTruly'
  BY <1>1 DEF ReadTruly, ReadOf, Past
<1>6. KeysTold'
  BY <1>1, <1>2 DEF KeysTold, KeyTold, Current, Past, Settled
<1> QED BY <1>3, <1>4, <1>5, <1>6 DEF CopyInv

LEMMA InitTells == Init => CopyInv
<1> SUFFICES ASSUME Init PROVE CopyInv
  OBVIOUS
<1>1. /\ pc = "idle" /\ todo = <<>> /\ replace = FALSE
      /\ before = [source |-> source, target |-> target]
      /\ succeeded = {} /\ skipped = {} /\ failed = {}
  BY DEF Init
<1>2. source \in Database /\ target \in Database
  BY EntriesAssumption DEF Init, Database
<1>3. CopyShape
  BY <1>1, <1>2 DEF CopyShape, Database
<1>4. Stays /\ ReadTruly /\ KeysTold
  BY <1>1 DEF Stays, ReadTruly, ReadOf, KeysTold, KeyTold, Current, Past, Settled
<1> QED BY <1>3, <1>4 DEF CopyInv

LEMMA CopyTells == CopyInv /\ [Next]_vars => CopyInv'
<1> SUFFICES ASSUME CopyInv, [Next]_vars PROVE CopyInv'
  OBVIOUS
<1>1. ASSUME NEW k \in Keys, NEW e \in Entries \cup {None}, OtherWrites(k, e) PROVE CopyInv'
  BY <1>1, MeddlingTells DEF OtherWrites
<1>2. ASSUME NEW k \in Keys, TimePasses(k) PROVE CopyInv'
  BY <1>2, MeddlingTells DEF TimePasses
<1>3. CASE UNCHANGED vars
  <2>1. UNCHANGED <<source, target, aliased, replace, todo, pc, type, ttl, value, succeeded, skipped,
                    failed, before, meddled>> /\ key' = key
    BY <1>3 DEF vars, dbs, reads, result, others, key
  <2>2. CopyShape' /\ Stays' /\ ReadTruly'
    BY <2>1 DEF CopyInv, CopyShape, Stays, ReadTruly, ReadOf
  <2>3. KeysTold'
    BY <2>1 DEF CopyInv, KeysTold, KeyTold, Current, UnderWay, Settled, Arriving
  <2> QED BY <2>2, <2>3 DEF CopyInv
<1> QED BY <1>1, <1>2, <1>3, JobTells, RequestTells DEF Next

(* A key is at the target if the result says that it was copied, and as it  *)
(* was if the result says that it was skipped, whatever fails on the way,   *)
(* and whatever others do to other keys.                                    *)
THEOREM ResultTellsTheTruth == Spec => []ResultIsTrue
<1>1. CopyInv => ResultIsTrue
  <2> SUFFICES ASSUME CopyInv, NEW k \in Keys \ (meddled \cup Remaining), ~aliased
               PROVE  /\ k \in succeeded \ failed =>
                           /\ before.source[k] # None
                           /\ EmptyStream(before.source[k]) \/ target[k] = Arrived(before.source[k])
                      /\ k \in skipped \ (succeeded \cup failed) =>
                           target[k] = before.target[k] /\ target[k] # None
    BY DEF ResultIsTrue
  <2>1. ~Current(k)
    <3>1. SUFFICES ASSUME Current(k) PROVE FALSE
      OBVIOUS
    <3>2. todo \in Seq(Keys) /\ todo # <<>>
      BY <3>1 DEF Current, Past, CopyInv, CopyShape
    <3>3. 1 \in 1 .. Len(todo) /\ key = todo[1]
      BY <3>2 DEF key
    <3> QED BY <3>1, <3>3 DEF Current, Remaining
  <2>2. Settled(k)
    BY <2>1 DEF CopyInv, KeysTold, KeyTold
  <2> QED BY <2>2 DEF Settled
<1> QED BY <1>1, InitTells, CopyTells, PTL DEF Spec

(* A key that has been at the target and got lost is reported as failed,    *)
(* whatever fails on the way, unless it is still at hand.                   *)
THEOREM LossesAreReported == Spec => []LossIsReported
<1>1. CopyInv => LossIsReported
  <2> SUFFICES ASSUME CopyInv, NEW k \in Keys \ meddled,
                      before.target[k] # None, target[k] = None, k \notin failed,
                      ~(pc \notin {"idle", "done"} /\ k = key)
               PROVE  before.source[k] # None /\ EmptyStream(before.source[k])
    BY DEF LossIsReported
  <2>1. ~aliased
    BY DEF CopyInv, Stays
  <2>2. Settled(k)
    BY <2>1 DEF CopyInv, KeysTold, KeyTold, Current, Past
  <2>3. before.source[k] \in Entry \cup {None}
    BY DEF CopyInv, CopyShape, Database
  <2> QED BY <2>2, <2>3, EntryFacts DEF Settled
<1> QED BY <1>1, InitTells, CopyTells, PTL DEF Spec

-----------------------------------------------------------------------------
(* Types.  What is read, added and written is an entry; an outcome is of    *)
(* the current key, and past TYPE and DUMP there is a type and a value.     *)

LEMMA SetTargetType ==
  ASSUME TypeOK, pc \notin {"idle", "done"}, NEW e \in Entry \cup {None}, SetTarget(key, e),
         UNCHANGED <<replace, others>>
  PROVE  DbsOK' /\ aliased' \in BOOLEAN
BY DEF TypeOK, DbsOK, JobOK, RestOK, Database, SetTarget, others

LEMMA SameType == ASSUME TypeOK, UNCHANGED <<dbs, before>> PROVE DbsOK' /\ aliased' \in BOOLEAN
BY DEF TypeOK, DbsOK, RestOK, dbs

LEMMA OutcomeType ==
  ASSUME TypeOK, pc \notin {"idle", "done"}, Outcome, UNCHANGED <<replace, others, aliased>>
  PROVE  JobOK' /\ RestOK'
<1>1. todo \in Seq(Keys) /\ todo # <<>>
  BY DEF TypeOK, JobOK
<1>2. key \in Keys /\ Tail(todo) \in Seq(Keys)
  BY <1>1 DEF key
<1>3. NextKey /\ succeeded' \subseteq Keys /\ skipped' \subseteq Keys /\ failed' \subseteq Keys
  BY <1>2 DEF TypeOK, JobOK, Outcome, Succeed, Skip, Fail
<1> QED BY <1>2, <1>3 DEF TypeOK, JobOK, RestOK, NextKey, others

LEMMA GoType ==
  ASSUME TypeOK, pc \notin {"idle", "done"}, NEW p \in NextCommands, Go(p),
         UNCHANGED <<replace, others, aliased>>,
         type' \in Types, ttl' \in BOOLEAN, value' \in Entry \cup {None},
         p = "restore" => value' # None
  PROVE  JobOK' /\ RestOK'
<1>1. type' # None
  BY NoEntryAssumption
<1>2. todo' = todo /\ UNCHANGED result /\ pc' = p
  BY DEF Go
<1> QED BY <1>1, <1>2 DEF TypeOK, JobOK, RestOK, NextCommands, result, others

LEMMA DecodedType == ASSUME NEW e \in Entry PROVE Decoded(e) \in Entry
BY EntryFacts

LEMMA AddedType ==
  ASSUME NEW e \in Entry \cup {None}, NEW t \in Types, NEW S \in SUBSET Elems
  PROVE  Added(e, t, S) \in Entry
<1>1. CASE e = None
  BY <1>1 DEF Added, Entry, Expiries
<1>2. CASE e # None
  <2>1. Added(e, t, S) = [e EXCEPT !.content = e.content \cup S] /\ e.content \cup S \in SUBSET Elems
    BY <1>2 DEF Added, Entry
  <2> QED BY <1>2, <2>1 DEF Entry
<1> QED BY <1>1, <1>2

LEMMA JobType == ASSUME TypeOK, Job PROVE TypeOK'
<1>0. /\ pc \notin {"idle", "done"} /\ UNCHANGED <<aliased, replace, others>>
      /\ key \in Keys /\ source[key] \in Entry \cup {None} /\ AtTarget(key) \in Entry \cup {None}
  BY JobSteps DEF TypeOK, JobOK, DbsOK, Database, key, AtTarget
<1>a. (pc # "type" => type \in Types) /\ ttl \in BOOLEAN /\ value \in Entry \cup {None}
  BY <1>0 DEF TypeOK, JobOK, RestOK
<1>b. Outcome => JobOK' /\ RestOK'
  BY <1>0, OutcomeType
<1>c. UNCHANGED dbs => DbsOK'
  BY <1>0, SameType DEF others
<1>d. ASSUME NEW e \in Entry \cup {None}, SetTarget(key, e) PROVE DbsOK'
  BY <1>0, <1>d, SetTargetType
<1> USE DEF Outcome
<1>1. CASE ReadType
  <2>1. DbsOK'
    BY <1>1, <1>c DEF ReadType
  <2>2. CASE Fail
    BY <1>b, <2>1, <2>2 DEF TypeOK
  <2>3. CASE source[key] # None /\ type' = source[key].type /\ Go("ttl") /\ UNCHANGED <<ttl, value>>
    <3>1. type' \in Types
      BY <1>0, <2>3 DEF Entry
    <3>2. JobOK' /\ RestOK'
      BY <1>0, <1>a, <2>3, <3>1, GoType DEF NextCommands
    <3> QED BY <2>1, <3>2 DEF TypeOK
  <2> QED BY <1>1, <2>2, <2>3 DEF ReadType
<1>2. CASE ReadTtl
  <2>1. DbsOK'
    BY <1>2, <1>c DEF ReadTtl
  <2>2. ttl' \in BOOLEAN
    <3>1. ttl' = (source[key] # None /\ source[key].expiry = "later")
      BY <1>2 DEF ReadTtl
    <3> QED BY <3>1, Zenon
  <2>3. pc = "ttl" /\ Go("clear") /\ UNCHANGED <<type, value>>
    BY <1>2 DEF ReadTtl
  <2>4. JobOK' /\ RestOK'
    BY <1>0, <1>a, <2>2, <2>3, GoType DEF NextCommands
  <2> QED BY <2>1, <2>4 DEF TypeOK
<1>3. CASE CheckTarget \/ ClearTarget
  <2>1. DbsOK'
    BY <1>3, <1>c, <1>d DEF CheckTarget, ClearTarget
  <2>2. pc = "clear" /\ ((Go("read") /\ UNCHANGED reads) \/ Outcome)
    BY <1>3 DEF CheckTarget, ClearTarget
  <2>3. JobOK' /\ RestOK'
    BY <1>0, <1>a, <1>b, <2>2, GoType DEF NextCommands, reads
  <2> QED BY <2>1, <2>3 DEF TypeOK
<1>4. CASE ReadValue \/ Dump
  <2>1. DbsOK'
    BY <1>4, <1>c DEF ReadValue, Dump
  <2>2. \/ Fail
        \/ \E p \in {"write", "restore"} :
             Go(p) /\ UNCHANGED <<type, ttl>> /\ value' \in Entry \cup {None} /\ (p = "restore" => value' # None)
    BY <1>0, <1>4, DecodedType DEF ReadValue, Dump
  <2>3. pc = "read"
    BY <1>4 DEF ReadValue, Dump
  <2>4. JobOK' /\ RestOK'
    BY <1>0, <1>a, <1>b, <2>2, <2>3, GoType DEF NextCommands
  <2> QED BY <2>1, <2>4 DEF TypeOK
<1>5. ASSUME DbsOK', pc # "type", Fail \/ (Go("expire") /\ UNCHANGED reads) PROVE TypeOK'
  BY <1>0, <1>a, <1>b, <1>5, GoType DEF NextCommands, reads, TypeOK
<1>6. CASE WriteString
  <2>1. pc = "write" /\ (Fail \/ (Go("expire") /\ UNCHANGED reads))
    BY <1>6 DEF WriteString
  <2>2. [type |-> "string", expiry |-> "never",
         content |-> IF value = None THEN {} ELSE value.content] \in Entry
    <3>1. (IF value = None THEN {} ELSE value.content) \in SUBSET Elems
      BY <1>a DEF Entry
    <3> QED BY <3>1 DEF Entry, Types, Expiries
  <2>3. DbsOK'
    BY <1>6, <1>c, <1>d, <2>2 DEF WriteString
  <2> QED BY <1>5, <2>1, <2>3
<1>7. CASE WriteCollection
  <2>1. pc = "write" /\ (Fail \/ (Go("expire") /\ UNCHANGED reads))
    BY <1>7 DEF WriteCollection
  <2>2. value # None => Added(AtTarget(key), type, value.content) \in Entry
    <3>1. value # None => value.content \in SUBSET Elems
      BY <1>a DEF Entry
    <3> QED BY <1>0, <1>a, <2>1, <3>1, AddedType
  <2>3. DbsOK'
    BY <1>7, <1>c, <1>d, <2>2 DEF WriteCollection
  <2> QED BY <1>5, <2>1, <2>3
<1>8. CASE WriteStream
  <2>0. pc = "write"
    BY <1>8 DEF WriteStream
  <2>1. CASE value = None
    BY <1>5, <1>8, <1>c, <2>0, <2>1 DEF WriteStream
  <2>2. CASE value # None
    <3>0. value.content \subseteq Elems
      BY <1>a, <2>2 DEF Entry
    <3>1. CASE value.content = {}
      BY <1>5, <1>8, <1>c, <2>0, <2>2, <3>1 DEF WriteStream
    <3>2. CASE value.content # {}
      <4>1. PICK id \in value.content :
              \/ /\ SetTarget(key, Added(AtTarget(key), type, {id}))
                 /\ \/ /\ value' = [value EXCEPT !.content = @ \ {id}]
                       /\ Go("write") /\ UNCHANGED <<type, ttl>>
                    \/ Fail
              \/ Fail /\ UNCHANGED dbs
        BY <1>8, <2>2, <3>2 DEF WriteStream
      <4>2. Added(AtTarget(key), type, {id}) \in Entry
        BY <1>0, <1>a, <2>0, <3>0, AddedType
      <4>3. DbsOK'
        BY <1>c, <1>d, <4>1, <4>2
      <4>4. CASE Fail
        BY <1>5, <2>0, <4>3, <4>4
      <4>5. CASE value' = [value EXCEPT !.content = @ \ {id}] /\ Go("write") /\ UNCHANGED <<type, ttl>>
        <5>1. value' \in Entry
          BY <1>a, <2>2, <4>5 DEF Entry
        <5>2. JobOK' /\ RestOK'
          BY <1>0, <1>a, <2>0, <4>5, <5>1, GoType DEF NextCommands
        <5> QED BY <4>3, <5>2 DEF TypeOK
      <4> QED BY <4>1, <4>4, <4>5
    <3> QED BY <3>1, <3>2
  <2> QED BY <2>1, <2>2
<1>9. CASE Restore
  <2>1. pc = "restore" /\ value \in Entry
    BY <1>a, <1>9 DEF Restore, TypeOK, JobOK
  <2>2. [value EXCEPT !.expiry = IF ttl THEN "later" ELSE "never"] \in Entry
    BY <2>1 DEF Entry, Expiries
  <2>3. DbsOK' /\ Outcome
    BY <1>9, <1>d, <2>2 DEF Restore
  <2> QED BY <1>b, <2>3 DEF TypeOK
<1>10. CASE ExpireTarget
  <2>1. AtTarget(key) # None => [AtTarget(key) EXCEPT !.expiry = "later"] \in Entry
    BY <1>0 DEF Entry, Expiries
  <2>2. DbsOK' /\ Outcome
    BY <1>10, <1>c, <1>d, <2>1 DEF ExpireTarget
  <2> QED BY <1>b, <2>2 DEF TypeOK
<1>11. CASE CommandFails
  BY <1>11, <1>b, <1>c DEF CommandFails, TypeOK
<1> QED BY <1>1, <1>2, <1>3, <1>4, <1>6, <1>7, <1>8, <1>9, <1>10, <1>11 DEF Job

LEMMA MeddleType ==
  ASSUME TypeOK, NEW k \in Keys, Meddle(k), NEW e \in Entry \cup {None},
         \/ source' = [source EXCEPT ![k] = e] /\ UNCHANGED target
         \/ target' = [target EXCEPT ![k] = e] /\ UNCHANGED source
  PROVE  TypeOK'
<1>1. DbsOK'
  BY DEF TypeOK, DbsOK, Database, Meddle
<1>2. JobOK'
  BY DEF TypeOK, JobOK, Meddle, reads, result
<1>3. RestOK'
  BY BoundAssumption DEF TypeOK, RestOK, Meddle, reads
<1> QED BY <1>1, <1>2, <1>3 DEF TypeOK

(* Whatever the connections hold, lead to or refuse, the job's variables    *)
(* stay what they are declared to be: a key at hand while a command is to   *)
(* come, a type after TYPE, a value to restore after DUMP.                  *)
THEOREM TypeCorrect == Spec => []TypeOK
<1>1. Init => TypeOK
  <2> SUFFICES ASSUME Init PROVE TypeOK
    OBVIOUS
  <2>1. DbsOK
    <3>1. source \in Database /\ target \in Database
      BY EntriesAssumption DEF Init, Database
    <3> QED BY <3>1 DEF Init, DbsOK
  <2>2. JobOK
    BY DEF Init, JobOK
  <2>3. RestOK
    <3>1. aliased \in BOOLEAN /\ replace = FALSE /\ pc = "idle" /\ ttl = FALSE
          /\ meddled = {} /\ meddling = 0
      BY DEF Init
    <3>2. meddling \in 0 .. MaxMeddling /\ meddled \subseteq Keys
      BY <3>1, BoundAssumption
    <3> QED BY <3>1, <3>2 DEF RestOK
  <2> QED BY <2>1, <2>2, <2>3 DEF TypeOK
<1>2. TypeOK /\ [Next]_vars => TypeOK'
  <2> SUFFICES ASSUME TypeOK, [Next]_vars PROVE TypeOK'
    OBVIOUS
  <2>1. ASSUME NEW ks \in KeyLists, NEW r \in BOOLEAN, copyKeysBatch(ks, r) PROVE TypeOK'
    <3>1. DbsOK'
      BY <2>1 DEF TypeOK, DbsOK, copyKeysBatch, dbs
    <3>2. JobOK'
      BY <2>1, ListsAssumption DEF TypeOK, JobOK, copyKeysBatch, reads, result
    <3>3. RestOK'
      BY <2>1 DEF TypeOK, RestOK, copyKeysBatch, dbs, reads
    <3> QED BY <3>1, <3>2, <3>3 DEF TypeOK
  <2>2. ASSUME NEW k \in Keys, NEW e \in Entries \cup {None}, OtherWrites(k, e) PROVE TypeOK'
    BY <2>2, MeddleType, EntriesAssumption DEF OtherWrites
  <2>3. ASSUME NEW k \in Keys, TimePasses(k) PROVE TypeOK'
    <3>1. /\ source[k] # None => Later(source[k]) \in Entry \cup {None}
          /\ target[k] # None => Later(target[k]) \in Entry \cup {None}
      BY DEF TypeOK, DbsOK, Database, Later, Entry, Expiries
    <3> QED BY <2>3, <3>1, MeddleType DEF TimePasses
  <2>4. CASE UNCHANGED vars
    BY <2>4 DEF vars, dbs, reads, result, others, TypeOK, DbsOK, JobOK, RestOK
  <2> QED BY <2>1, <2>2, <2>3, <2>4, JobType DEF Next
<1> QED BY <1>1, <1>2, PTL DEF Spec

-----------------------------------------------------------------------------
(* The comparison tab.  An answer is shown as it was asked for, so the      *)
(* invariants say of what is awaited what the properties say of what is     *)
(* shown: unless the history says otherwise, it is of the sides there are   *)
(* now.  A half of the tab that is not used awaits nothing.                 *)

(* What is shown of a comparison, and where a copy goes: to the sides asked *)
(* for, wherever what is sent of their connections tells them.              *)
ShowsIt(r, of) == r.key = of.key /\ IsSide(of.left, r.left) /\ IsSide(of.right, r.right)
CopiesIt(s, of) == s.of = of /\ IsSide(IF s.toRight THEN of.right ELSE of.left, s.into)

ComparesNow ==
  /\ diffs = [c \in Calls |-> diffs[c]]
  /\ diffResult # None /\ ~moved => ShowsIt(diffResult, Compared)
  /\ ~moved => \A c \in Calls : diffs[c] # None => diffs[c] = Compared
  /\ ~moved /\ sync # None => CopiesIt(sync, Compared)
  /\ half = "batch" => diffResult = None /\ ~Awaiting /\ ~pendingSync

SearchesNow ==
  /\ searches = [c \in Calls |-> searches[c]]
  /\ found # None /\ ~drifted => found = BatchSource
  /\ ~drifted => \A c \in Calls : searches[c] # None => searches[c] = BatchSource
  /\ half = "compare" => found = None /\ ~Underway(searches)

DiffInv == half \in {"compare", "batch"} /\ ComparesNow /\ SearchesNow

(* What leaves the sides and the key alone leaves the comparison alone.     *)
LEMMA SameCompared ==
  ASSUME UNCHANGED <<db, sidePart, keyInput>>
  PROVE  Compared' = Compared
BY DEF sidePart, Compared, effectiveLeft, effectiveRight, SideOf, rightConn

(* The source names its database itself, so a switch leaves it alone.       *)
LEMMA SameSource ==
  ASSUME UNCHANGED <<right, isSwapped, keyInput, forward, batchSrcDb>>
  PROVE  BatchSource' = BatchSource
BY DEF BatchSource, batchSrcConn, effectiveLeft, effectiveRight, SideOf, rightConn

LEMMA ReachesTheSide ==
  ASSUME NEW s, NEW p \in SideReached(s)
  PROVE  IsSide(s, p)
BY DEF SideReached, IsSide, Reached, IsNamed

LEMMA CompareHalfStays ==
  ASSUME ComparesNow, UNCHANGED <<half, db, sidePart, comparePart>>
  PROVE  ComparesNow'
BY SameCompared DEF ComparesNow, comparePart, calls, Awaiting, Underway

LEMMA BatchHalfStays ==
  ASSUME SearchesNow, UNCHANGED <<half, right, isSwapped, keyInput, batchPart>>
  PROVE  SearchesNow'
BY SameSource DEF SearchesNow, batchPart, Underway

(* What is taken off the page is not wrong, whatever changes.               *)
LEMMA DroppedResult ==
  ASSUME ComparesNow, DropResult, UNCHANGED <<half, calls>>
  PROVE  ComparesNow'
BY DEF ComparesNow, DropResult, calls, Awaiting, Underway

LEMMA DroppedFound ==
  ASSUME SearchesNow, DropFound, UNCHANGED <<half, searches>>
  PROVE  SearchesNow'
BY DEF SearchesNow, DropFound, Underway

(* A change of a side, a key or a pattern.                                  *)
LEMMA ChangeStep ==
  ASSUME DiffInv, SideChange \/ \E k \in DiffKeys : TypeKey(k) \/ TypePattern(k)
  PROVE  DiffInv'
<1> USE DEF DiffInv
<1>1. ASSUME NEW c \in Connections \cup {None}, SelectRight(c) PROVE DiffInv'
  BY <1>1, DroppedResult, DroppedFound DEF SelectRight
<1>2. ASSUME NEW d \in Databases, handleLeftDbChange(d) \/ handleRightDbChange(d)
      PROVE  DiffInv'
  <2>1. PICK x : SetSideDb(x, d)
    BY <1>2 DEF handleLeftDbChange, handleRightDbChange
  <2>2. UNCHANGED <<half, right, isSwapped, keyInput, calls, batchPart>> /\ DropResult
    BY <2>1 DEF SetSideDb
  <2> QED BY <2>2, DroppedResult, BatchHalfStays
<1>3. ASSUME NEW d \in Databases, SelectDb(d) PROVE DiffInv'
  <2>1. ComparesNow'
    BY <1>3 DEF SelectDb, ComparesNow, calls, Awaiting, Underway
  <2> QED BY <1>3, <2>1, BatchHalfStays DEF SelectDb, sidePart
<1>4. CASE handleSwap
  BY <1>4, DroppedResult, DroppedFound DEF handleSwap
<1>5. ASSUME NEW k \in DiffKeys, TypeKey(k) PROVE DiffInv'
  <2>1. SearchesNow'
    BY <1>5 DEF TypeKey, SearchesNow, batchPart, Underway
  <2> QED BY <1>5, <2>1, DroppedResult DEF TypeKey
<1>6. ASSUME NEW k \in DiffKeys, TypePattern(k) PROVE DiffInv'
  <2>1. ComparesNow'
    BY <1>6 DEF TypePattern, ComparesNow, calls, Awaiting, Underway
  <2> QED BY <1>6, <2>1, DroppedFound DEF TypePattern
<1> QED BY <1>1, <1>2, <1>3, <1>4, <1>5, <1>6 DEF SideChange

(* Comparing and copying one key.                                           *)
LEMMA CompareStep ==
  ASSUME DiffInv,
         \/ AskToSync \/ CancelSync \/ handleSync \/ SyncFails
         \/ \E c \in Calls :
              handleCompare(c) \/ CompareAnswer(c) \/ CompareFails(c) \/ SyncAnswer(c)
  PROVE  DiffInv'
<1>1. UNCHANGED <<db, half, sidePart, keyInput, batchPart>>
  BY DEF AskToSync, CancelSync, handleSync, AnswerToSync, SyncFails, handleCompare,
         CompareAnswer, CompareFails, EndDiff, SyncAnswer
<1>2. SearchesNow'
  BY <1>1, BatchHalfStays DEF DiffInv, sidePart
<1>3. Compared' = Compared
  BY <1>1, SameCompared
<1> USE DEF DiffInv, ComparesNow
<1>4. ASSUME NEW c \in Calls, handleCompare(c) PROVE ComparesNow'
  <2>1. /\ diffs' = [diffs EXCEPT ![c] = Compared] /\ diffResult' = None /\ sync' = sync
        /\ moved' = (moved /\ Awaiting) /\ half = "compare" /\ half' = half
    BY <1>4 DEF handleCompare, StartDiff
  <2>2. ~moved' => \A x \in Calls : diffs[x] # None => diffs[x] = Compared
    BY <2>1 DEF Awaiting, Underway
  <2>3. ~moved' /\ sync' # None => CopiesIt(sync, Compared)
    BY <2>1 DEF Awaiting
  <2> QED BY <1>3, <2>1, <2>2, <2>3
<1>5. ASSUME NEW c \in Calls, CompareAnswer(c) \/ CompareFails(c) PROVE ComparesNow'
  <2>1. diffs[c] # None /\ diffs' = [diffs EXCEPT ![c] = None]
        /\ UNCHANGED <<half, sync, moved, pendingSync>>
    BY <1>5 DEF CompareAnswer, CompareFails, EndDiff
  <2>2. half # "batch"
    BY <2>1 DEF Awaiting, Underway
  <2>3. diffResult' = diffResult \/ ShowsIt(diffResult', diffs[c])
    <3>1. CASE CompareAnswer(c)
      <4>1. PICK x \in SideReached(diffs[c].left), y \in SideReached(diffs[c].right) :
              diffResult' = [key |-> diffs[c].key, left |-> x, right |-> y]
        BY <3>1 DEF CompareAnswer, EndDiff
      <4>2. IsSide(diffs[c].left, x) /\ IsSide(diffs[c].right, y)
        BY <4>1, ReachesTheSide
      <4> QED BY <4>1, <4>2 DEF ShowsIt
    <3>2. CASE CompareFails(c)
      BY <3>2 DEF CompareFails, EndDiff
    <3> QED BY <1>5, <3>1, <3>2
  <2>4. diffResult' # None /\ ~moved' => ShowsIt(diffResult', Compared)
    BY <2>1, <2>3
  <2> QED BY <1>3, <2>1, <2>2, <2>4
<1>6. ASSUME AskToSync PROVE ComparesNow'
  <2>1. half = "compare" /\ UNCHANGED <<half, diffResult, diffs, sync, moved>>
    BY <1>6 DEF AskToSync
  <2> QED BY <1>3, <2>1
<1>7. ASSUME CancelSync \/ handleSync PROVE ComparesNow'
  <2>1. pendingSync /\ UNCHANGED <<half, diffResult, diffs, moved>>
    BY <1>7 DEF CancelSync, handleSync, AnswerToSync
  <2>2. sync' # None => CopiesIt(sync', Compared)
    <3>1. CASE CancelSync
      BY <3>1 DEF CancelSync, AnswerToSync
    <3>2. CASE handleSync
      <4>0. PICK toRight \in BOOLEAN :
              \E place \in SideReached(IF toRight THEN effectiveRight ELSE effectiveLeft) :
                sync' = [of |-> Compared, toRight |-> toRight, into |-> place]
        BY <3>2 DEF handleSync, AnswerToSync
      <4>1. PICK place \in SideReached(IF toRight THEN effectiveRight ELSE effectiveLeft) :
              sync' = [of |-> Compared, toRight |-> toRight, into |-> place]
        BY <4>0
      <4>2. IsSide(IF toRight THEN Compared.right ELSE Compared.left, place)
        BY <4>1, ReachesTheSide DEF Compared
      <4> QED BY <4>1, <4>2 DEF CopiesIt
    <3> QED BY <1>7, <3>1, <3>2
  <2> QED BY <1>3, <2>1, <2>2
<1>8. ASSUME NEW c \in Calls, SyncAnswer(c) PROVE ComparesNow'
  <2>1. /\ sync # None /\ sync' = None
        /\ diffs' = [diffs EXCEPT ![c] = sync.of] /\ diffResult' = None
        /\ UNCHANGED <<half, moved>>
    BY <1>8 DEF SyncAnswer, StartDiff
  <2>2. half # "batch"
    BY <2>1 DEF Awaiting
  <2>3. ~moved => sync.of = Compared
    BY <2>1 DEF CopiesIt
  <2> QED BY <1>3, <2>1, <2>2, <2>3
<1>9. ASSUME SyncFails PROVE ComparesNow'
  <2>1. /\ sync # None /\ sync' = None
        /\ UNCHANGED <<half, diffResult, diffs, moved>>
    BY <1>9 DEF SyncFails
  <2>2. half # "batch"
    BY <2>1 DEF Awaiting
  <2> QED BY <1>3, <2>1, <2>2
<1> QED BY <1>1, <1>2, <1>4, <1>5, <1>6, <1>7, <1>8, <1>9

(* Copying a batch.                                                         *)
LEMMA BatchStep ==
  ASSUME DiffInv,
         \/ openBatch \/ changeBatchDir \/ (\E d \in Databases : SelectSourceDb(d))
         \/ AskToCopy \/ handleBatchCopy \/ BatchCopyEnds
         \/ \E c \in Calls : handleBatchScan(c) \/ ScanAnswer(c) \/ ScanFails(c)
  PROVE  DiffInv'
<1>1. OnBatch
  BY DEF openBatch, changeBatchDir, SelectSourceDb, AskToCopy, handleBatchCopy, BatchCopyEnds,
         handleBatchScan, ScanAnswer, ScanFails, EndSearch, Open
<1>2. ComparesNow'
  BY <1>1, CompareHalfStays DEF OnBatch, DiffInv
<1>3. half' = half /\ half = "batch" /\ UNCHANGED <<right, isSwapped, keyInput>>
  BY <1>1 DEF OnBatch, sidePart, comparePart
<1> USE DEF DiffInv
<1>4. CASE openBatch \/ changeBatchDir \/ (\E d \in Databases : SelectSourceDb(d))
  <2>1. DropFound /\ searches' = searches
    BY <1>4 DEF openBatch, changeBatchDir, SelectSourceDb
  <2>2. SearchesNow'
    BY <1>3, <2>1, DroppedFound
  <2> QED BY <1>2, <1>3, <2>2
<1>5. CASE AskToCopy \/ handleBatchCopy \/ BatchCopyEnds
  <2>1. UNCHANGED <<forward, batchSrcDb, found, searches, drifted>>
    BY <1>5 DEF AskToCopy, handleBatchCopy, BatchCopyEnds
  <2>2. BatchSource' = BatchSource
    BY <1>3, <2>1, SameSource
  <2>3. SearchesNow'
    BY <1>3, <2>1, <2>2 DEF SearchesNow, Underway
  <2> QED BY <1>2, <1>3, <2>3
<1>6. ASSUME NEW c \in Calls, handleBatchScan(c) PROVE SearchesNow'
  <2>1. /\ searches' = [searches EXCEPT ![c] = BatchSource] /\ found' = None
        /\ drifted' = (drifted /\ Underway(searches)) /\ UNCHANGED <<forward, batchSrcDb>>
    BY <1>6 DEF handleBatchScan
  <2>2. ~drifted' => \A x \in Calls : searches[x] # None => searches[x] = BatchSource
    BY <2>1 DEF SearchesNow, Underway
  <2> QED BY <1>3, <2>1, <2>2, SameSource DEF SearchesNow
<1>7. ASSUME NEW c \in Calls, ScanAnswer(c) \/ ScanFails(c) PROVE SearchesNow'
  <2>1. /\ searches[c] # None /\ searches' = [searches EXCEPT ![c] = None]
        /\ found' \in {searches[c], None, found} /\ UNCHANGED <<forward, batchSrcDb, drifted>>
    BY <1>7 DEF ScanAnswer, ScanFails, EndSearch
  <2> QED BY <1>3, <2>1, SameSource DEF SearchesNow
<1> QED BY <1>2, <1>3, <1>4, <1>5, <1>6, <1>7

LEMMA DiffInvariant == DiffSpec => []DiffInv
<1>1. DiffInit => DiffInv
  BY DEF DiffInit, DiffInv, ComparesNow, SearchesNow, Awaiting, Underway
<1>2. DiffInv /\ [DiffNext]_diffVars => DiffInv'
  <2>1. DiffInv /\ UNCHANGED diffVars => DiffInv'
    BY CompareHalfStays, BatchHalfStays DEF DiffInv, diffVars, diffPart, sidePart, comparePart
  <2> QED BY <2>1, ChangeStep, CompareStep, BatchStep DEF DiffNext
<1> QED BY <1>1, <1>2, PTL DEF DiffSpec

(* The comparison on the tab, from which Copy overwrites a key, is of the   *)
(* key and the sides named, and a copy goes into the side it names, unless  *)
(* one was changed while it was awaited; for each side that is told by what *)
(* is sent of its connection.                                               *)
THEOREM ComparesTheSides == DiffSpec => []DiffIsOfTheSides
<1>1. DiffInv => DiffIsOfTheSides
  BY DEF DiffInv, ComparesNow, DiffIsOfTheSides, ShowsIt, CopiesIt, Compared
<1> QED BY <1>1, DiffInvariant, PTL

(* The keys a batch copies were found by the pattern and in the source      *)
(* named, unless one of these was changed while they were searched.         *)
THEOREM CopiesFromTheSource == DiffSpec => []FoundInTheSource
<1>1. DiffInv => FoundInTheSource
  BY DEF DiffInv, SearchesNow, FoundInTheSource
<1> QED BY <1>1, DiffInvariant, PTL
-----------------------------------------------------------------------------
(* Types of the comparison tab.  A key is compared, and copied, only when   *)
(* there is one, so as long as none was typed nothing is awaited, shown or  *)
(* asked: without that, the answer to the question whether to copy need not *)
(* name a key.                                                              *)

NoKeyYet == keyInput = None => half = "compare" /\ diffResult = None /\ ~pendingSync /\ ~Awaiting

DiffTypes == DiffTypeOK /\ NoKeyYet

LEMMA Flags ==
  /\ Awaiting \in BOOLEAN /\ Underway(searches) \in BOOLEAN
  /\ \A p, q : (p /\ q) \in BOOLEAN /\ (p \/ q) \in BOOLEAN /\ (~p) \in BOOLEAN
BY DEF Awaiting, Underway

LEMMA SidesAreSides ==
  ASSUME DiffTypeOK
  PROVE  {effectiveLeft, effectiveRight, batchSrcConn} \subseteq Side
BY ThisAssumption
   DEF DiffTypeOK, effectiveLeft, effectiveRight, batchSrcConn, SideOf, rightConn, Side

LEMMA ReachedSides ==
  ASSUME NEW s \in Side, NEW p \in SideReached(s)
  PROVE  p \in Side \cup {None}
BY DEF SideReached, Reached

LEMMA ComparedType ==
  ASSUME DiffTypeOK, keyInput # None
  PROVE  Compared \in Comparison /\ BatchSource \in Origin
<1>1. keyInput \in DiffKeys /\ batchSrcDb \in Databases
  BY DEF DiffTypeOK
<1>2. batchSrcConn.conn \in Connections
  BY SidesAreSides DEF Side
<1> QED BY <1>1, <1>2, SidesAreSides DEF Compared, Comparison, BatchSource, Origin

(* The parts of the type invariant that a step of one half can disturb.     *)
SidesTyped ==
  /\ half \in {"compare", "batch"} /\ db \in Databases
  /\ right \in Connections \cup {None} /\ rightDb \in Databases /\ isSwapped \in BOOLEAN
  /\ keyInput \in DiffKeys \cup {None}
CompareTyped ==
  /\ diffResult \in Shown \cup {None} /\ sync \in Sync \cup {None}
  /\ diffs \in [Calls -> Comparison \cup {None}] /\ resync \in Calls \cup {None}
  /\ {comparing, pendingSync, moved} \subseteq BOOLEAN
BatchTyped ==
  /\ {forward, pendingBatch, batchRunning, drifted} \subseteq BOOLEAN
  /\ batchSrcDb \in Databases
  /\ found \in Origin \cup {None} /\ searches \in [Calls -> Origin \cup {None}]

LEMMA TypeParts == DiffTypeOK <=> SidesTyped /\ CompareTyped /\ BatchTyped
BY DEF DiffTypeOK, SidesTyped, CompareTyped, BatchTyped

LEMMA PrimedParts == SidesTyped' /\ CompareTyped' /\ BatchTyped' => DiffTypeOK'
BY DEF DiffTypeOK, SidesTyped, CompareTyped, BatchTyped

LEMMA KeptCompare ==
  ASSUME CompareTyped, UNCHANGED calls,
         DropResult \/ (diffResult' = diffResult /\ moved' \in BOOLEAN)
  PROVE  CompareTyped'
BY Flags DEF CompareTyped, calls, DropResult

LEMMA KeptBatch ==
  ASSUME BatchTyped, UNCHANGED searches, forward' \in BOOLEAN, pendingBatch' \in BOOLEAN,
         batchRunning' \in BOOLEAN, batchSrcDb' \in Databases,
         DropFound \/ UNCHANGED <<found, drifted>>
  PROVE  BatchTyped'
BY Flags DEF BatchTyped, DropFound

LEMMA ChangeTyped ==
  ASSUME DiffTypes, SideChange \/ \E k \in DiffKeys : TypeKey(k) \/ TypePattern(k)
  PROVE  DiffTypes'
<1>0. DiffTypeOK /\ SidesTyped /\ CompareTyped /\ BatchTyped /\ NoKeyYet
  BY TypeParts DEF DiffTypes
<1>1. ASSUME NEW c \in Connections \cup {None}, SelectRight(c) PROVE DiffTypes'
  <2>1. SidesTyped'
    BY <1>0, <1>1 DEF SelectRight, SidesTyped
  <2>2. CompareTyped'
    BY <1>0, <1>1, KeptCompare DEF SelectRight
  <2>3. BatchTyped'
    BY <1>0, <1>1, KeptBatch DEF SelectRight, BatchTyped
  <2>4. NoKeyYet'
    BY <1>0, <1>1 DEF SelectRight, NoKeyYet, DropResult, calls, Awaiting, Underway
  <2> QED BY <2>1, <2>2, <2>3, <2>4, PrimedParts DEF DiffTypes
<1>2. ASSUME NEW d \in Databases, handleLeftDbChange(d) \/ handleRightDbChange(d)
      PROVE  DiffTypes'
  <2>0. PICK x : SetSideDb(x, d)
    BY <1>2 DEF handleLeftDbChange, handleRightDbChange
  <2>1. SidesTyped'
    BY <1>0, <2>0 DEF SetSideDb, SidesTyped, changeDb
  <2>2. CompareTyped'
    BY <1>0, <2>0, KeptCompare DEF SetSideDb
  <2>3. BatchTyped'
    BY <1>0, <2>0 DEF SetSideDb, BatchTyped, batchPart
  <2>4. NoKeyYet'
    BY <1>0, <2>0 DEF SetSideDb, NoKeyYet, DropResult, calls, Awaiting, Underway
  <2> QED BY <2>1, <2>2, <2>3, <2>4, PrimedParts DEF DiffTypes
<1>3. ASSUME NEW d \in Databases, SelectDb(d) PROVE DiffTypes'
  <2>1. SidesTyped'
    BY <1>0, <1>3 DEF SelectDb, SidesTyped, changeDb, sidePart
  <2>2. CompareTyped'
    <3>1. moved' \in BOOLEAN
      BY <1>3, Flags DEF SelectDb
    <3> QED BY <1>0, <1>3, <3>1, KeptCompare DEF SelectDb
  <2>3. BatchTyped'
    BY <1>0, <1>3 DEF SelectDb, BatchTyped, batchPart
  <2>4. NoKeyYet'
    BY <1>0, <1>3 DEF SelectDb, NoKeyYet, calls, Awaiting, Underway
  <2> QED BY <2>1, <2>2, <2>3, <2>4, PrimedParts DEF DiffTypes
<1>4. CASE handleSwap
  <2>1. SidesTyped'
    BY <1>0, <1>4, Flags DEF handleSwap, SidesTyped
  <2>2. CompareTyped'
    BY <1>0, <1>4, KeptCompare DEF handleSwap
  <2>3. BatchTyped'
    BY <1>0, <1>4, KeptBatch DEF handleSwap, BatchTyped
  <2>4. NoKeyYet'
    BY <1>0, <1>4 DEF handleSwap, NoKeyYet, DropResult, calls, Awaiting, Underway
  <2> QED BY <2>1, <2>2, <2>3, <2>4, PrimedParts DEF DiffTypes
<1>5. ASSUME NEW k \in DiffKeys, TypeKey(k) PROVE DiffTypes'
  <2>1. SidesTyped' /\ keyInput' # None
    BY <1>0, <1>5, ThisAssumption DEF TypeKey, SidesTyped, sidePart
  <2>2. CompareTyped'
    BY <1>0, <1>5, KeptCompare DEF TypeKey
  <2>3. BatchTyped'
    BY <1>0, <1>5 DEF TypeKey, BatchTyped, batchPart
  <2> QED BY <2>1, <2>2, <2>3, PrimedParts DEF DiffTypes, NoKeyYet
<1>6. ASSUME NEW k \in DiffKeys, TypePattern(k) PROVE DiffTypes'
  <2>1. SidesTyped' /\ keyInput' # None
    BY <1>0, <1>6, ThisAssumption DEF TypePattern, SidesTyped, sidePart
  <2>2. CompareTyped'
    BY <1>0, <1>6 DEF TypePattern, CompareTyped, calls
  <2>3. BatchTyped'
    BY <1>0, <1>6, KeptBatch DEF TypePattern, BatchTyped
  <2> QED BY <2>1, <2>2, <2>3, PrimedParts DEF DiffTypes, NoKeyYet
<1> QED BY <1>1, <1>2, <1>3, <1>4, <1>5, <1>6 DEF SideChange

LEMMA CompareTypes ==
  ASSUME DiffTypes,
         \/ AskToSync \/ CancelSync \/ handleSync \/ SyncFails
         \/ \E c \in Calls :
              handleCompare(c) \/ CompareAnswer(c) \/ CompareFails(c) \/ SyncAnswer(c)
  PROVE  DiffTypes'
<1>0. DiffTypeOK /\ SidesTyped /\ CompareTyped /\ BatchTyped /\ NoKeyYet
  BY TypeParts DEF DiffTypes
<1>1. UNCHANGED <<db, half, sidePart, keyInput, batchPart>>
  BY DEF AskToSync, CancelSync, handleSync, AnswerToSync, SyncFails, handleCompare,
         CompareAnswer, CompareFails, EndDiff, SyncAnswer
<1>2. SidesTyped' /\ BatchTyped'
  BY <1>0, <1>1 DEF SidesTyped, BatchTyped, sidePart, batchPart
<1>3. keyInput # None
  BY <1>0 DEF NoKeyYet, AskToSync, CancelSync, handleSync, AnswerToSync, SyncFails, handleCompare,
         CompareAnswer, CompareFails, EndDiff, SyncAnswer, Awaiting, Underway
<1>4. Compared \in Comparison
  BY <1>0, <1>3, ComparedType
<1>5. ASSUME NEW c \in Calls, handleCompare(c) PROVE CompareTyped'
  <2>1. (moved /\ Awaiting) \in BOOLEAN
    BY Flags
  <2> QED BY <1>0, <1>4, <1>5, <2>1 DEF handleCompare, StartDiff, CompareTyped
<1>6. ASSUME NEW c \in Calls, CompareAnswer(c) \/ CompareFails(c) PROVE CompareTyped'
  <2>1. diffResult' \in Shown \cup {None}
    <3>1. CASE CompareAnswer(c)
      <4>1. PICK x \in SideReached(diffs[c].left), y \in SideReached(diffs[c].right) :
              diffResult' = [key |-> diffs[c].key, left |-> x, right |-> y]
        BY <3>1 DEF CompareAnswer, EndDiff
      <4>2. diffs[c] \in Comparison
        BY <1>0, <3>1 DEF CompareAnswer, CompareTyped
      <4>3. diffs[c].key \in DiffKeys /\ diffs[c].left \in Side /\ diffs[c].right \in Side
        BY <4>2 DEF Comparison
      <4>4. x \in Side \cup {None} /\ y \in Side \cup {None}
        BY <4>1, <4>3, ReachedSides
      <4> QED BY <4>1, <4>3, <4>4 DEF Shown
    <3>2. CASE CompareFails(c)
      BY <1>0, <3>2 DEF CompareFails, EndDiff, CompareTyped
    <3> QED BY <1>6, <3>1, <3>2
  <2> QED BY <1>0, <1>6, <2>1 DEF CompareAnswer, CompareFails, EndDiff, CompareTyped
<1>7. ASSUME AskToSync \/ CancelSync \/ handleSync \/ SyncFails PROVE CompareTyped'
  <2>1. sync' \in Sync \cup {None}
    <3>1. CASE handleSync
      <4>0. PICK toRight \in BOOLEAN :
              \E place \in SideReached(IF toRight THEN effectiveRight ELSE effectiveLeft) :
                sync' = [of |-> Compared, toRight |-> toRight, into |-> place]
        BY <3>1 DEF handleSync, AnswerToSync
      <4>1. PICK place \in SideReached(IF toRight THEN effectiveRight ELSE effectiveLeft) :
              sync' = [of |-> Compared, toRight |-> toRight, into |-> place]
        BY <4>0
      <4>2. place \in Side \cup {None}
        BY <1>0, <4>1, ReachedSides, SidesAreSides
      <4> QED BY <1>4, <4>1, <4>2 DEF Sync
    <3>2. CASE ~handleSync
      BY <1>0, <1>7, <3>2 DEF AskToSync, CancelSync, AnswerToSync, SyncFails, CompareTyped
    <3> QED BY <3>1, <3>2
  <2> QED
    BY <1>0, <1>7, <2>1 DEF AskToSync, CancelSync, handleSync, AnswerToSync, SyncFails, CompareTyped
<1>8. ASSUME NEW c \in Calls, SyncAnswer(c) PROVE CompareTyped'
  <2>1. sync.of \in Comparison
    BY <1>0, <1>8 DEF SyncAnswer, CompareTyped, Sync
  <2> QED BY <1>0, <1>8, <2>1 DEF SyncAnswer, StartDiff, CompareTyped
<1>9. CompareTyped'
  BY <1>5, <1>6, <1>7, <1>8
<1> QED BY <1>1, <1>2, <1>3, <1>9, PrimedParts DEF DiffTypes, NoKeyYet

LEMMA BatchTypes ==
  ASSUME DiffTypes,
         \/ openBatch \/ changeBatchDir \/ (\E d \in Databases : SelectSourceDb(d))
         \/ AskToCopy \/ handleBatchCopy \/ BatchCopyEnds
         \/ \E c \in Calls : handleBatchScan(c) \/ ScanAnswer(c) \/ ScanFails(c)
  PROVE  DiffTypes'
<1>0. DiffTypeOK /\ SidesTyped /\ CompareTyped /\ BatchTyped /\ NoKeyYet
  BY TypeParts DEF DiffTypes
<1>1. half = "batch" /\ UNCHANGED <<db, half, sidePart, comparePart>>
  BY DEF openBatch, changeBatchDir, SelectSourceDb, AskToCopy, handleBatchCopy, BatchCopyEnds,
         handleBatchScan, ScanAnswer, ScanFails, EndSearch, Open, OnBatch
<1>2. SidesTyped' /\ CompareTyped' /\ keyInput # None /\ keyInput' = keyInput
  BY <1>0, <1>1 DEF SidesTyped, CompareTyped, sidePart, comparePart, calls, NoKeyYet
<1>3. BatchSource \in Origin
  BY <1>0, <1>2, ComparedType
<1>4. {effectiveLeft.db, effectiveRight.db, batchSrcConn.db} \subseteq Databases
  BY <1>0, SidesAreSides DEF Side
<1>5. ASSUME openBatch PROVE BatchTyped'
  BY <1>0, <1>4, <1>5, KeptBatch DEF openBatch, BatchTyped
<1>6. ASSUME changeBatchDir PROVE BatchTyped'
  <2>1. batchSrcDb' \in Databases
    BY <1>4, <1>6 DEF changeBatchDir
  <2>2. forward' \in BOOLEAN
    BY <1>6, Flags DEF changeBatchDir
  <2> QED BY <1>0, <1>6, <2>1, <2>2, KeptBatch DEF changeBatchDir, BatchTyped
<1>7. ASSUME NEW d \in Databases, SelectSourceDb(d) PROVE BatchTyped'
  BY <1>0, <1>7, KeptBatch DEF SelectSourceDb, BatchTyped
<1>8. ASSUME AskToCopy \/ handleBatchCopy \/ BatchCopyEnds PROVE BatchTyped'
  <2>1. pendingBatch' \in BOOLEAN /\ batchRunning' \in BOOLEAN
    BY <1>0, <1>8, Flags DEF AskToCopy, handleBatchCopy, BatchCopyEnds, BatchTyped
  <2> QED BY <1>0, <1>8, <2>1 DEF AskToCopy, handleBatchCopy, BatchCopyEnds, BatchTyped
<1>9. ASSUME NEW c \in Calls, handleBatchScan(c) PROVE BatchTyped'
  <2>1. (drifted /\ Underway(searches)) \in BOOLEAN
    BY Flags
  <2> QED BY <1>0, <1>3, <1>9, <2>1 DEF handleBatchScan, BatchTyped
<1>10. ASSUME NEW c \in Calls, ScanAnswer(c) \/ ScanFails(c) PROVE BatchTyped'
  BY <1>0, <1>10 DEF ScanAnswer, ScanFails, EndSearch, BatchTyped
<1>11. BatchTyped'
  BY <1>5, <1>6, <1>7, <1>8, <1>9, <1>10
<1> QED BY <1>2, <1>11, PrimedParts DEF DiffTypes, NoKeyYet

(* The comparison tab asks only for comparisons and copies of a key between *)
(* two sides, and shows none else (KeyDiff!DiffTypeOK).                     *)
THEOREM DiffTypeCorrect == DiffSpec => []DiffTypeOK
<1>1. DiffInit => DiffTypes
  <2> SUFFICES ASSUME DiffInit PROVE DiffTypes
    OBVIOUS
  <2>1. SidesTyped
    BY DEF DiffInit, SidesTyped
  <2>2. CompareTyped
    BY DEF DiffInit, CompareTyped
  <2>3. BatchTyped
    BY DEF DiffInit, BatchTyped
  <2>4. NoKeyYet
    BY ThisAssumption DEF DiffInit, NoKeyYet, Awaiting, Underway
  <2> QED BY <2>1, <2>2, <2>3, <2>4, TypeParts DEF DiffTypes
<1>2. DiffTypes /\ [DiffNext]_diffVars => DiffTypes'
  <2>1. DiffTypes /\ UNCHANGED diffVars => DiffTypes'
    BY DEF DiffTypes, DiffTypeOK, NoKeyYet, Awaiting, Underway, diffVars, diffPart, sidePart,
           comparePart, calls, batchPart
  <2> QED BY <2>1, ChangeTyped, CompareTypes, BatchTypes DEF DiffNext
<1>3. DiffTypes => DiffTypeOK
  BY DEF DiffTypes
<1> QED BY <1>1, <1>2, <1>3, PTL DEF DiffSpec
=============================================================================

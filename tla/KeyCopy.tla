------------------------------ MODULE KeyCopy ------------------------------
(***************************************************************************)
(* Copying keys between two connections: RedisService.copyKeysBatch (the   *)
(* Migration tab and "Copy to") and copyKey, which share copyOne.          *)
(*                                                                         *)
(* A copy is a sequence of Redis commands: TYPE and TTL of the source, a   *)
(* look at (or the deletion of) the target, a read of the source, one or   *)
(* more writes of the target and an EXPIRE.  Each command is one action;   *)
(* between two of them other clients of either Redis write, and keys       *)
(* expire.  A command may fail, with or without having been executed.      *)
(*                                                                         *)
(* The two connections may lead to one and the same database: the views    *)
(* only refuse two equal connection ids.                                   *)
(***************************************************************************)
EXTENDS RedisEntries, Sequences

CONSTANTS
  Keys,        \* keys of the two databases
  KeyLists,    \* the key lists of requests; SCAN may have found a key twice
  Entries,     \* the entries keys may hold at first or be given by others
  MaxMeddling  \* bound: steps of other clients and of time

ASSUME EntriesAssumption ==
  Entries \subseteq Entry /\ None \notin Keys /\ \A e \in Entries : Possible(e)
ASSUME BoundAssumption == MaxMeddling \in Nat
ASSUME ListsAssumption == KeyLists \subseteq Seq(Keys)

VARIABLES
  source,     \* the source's database: key -> entry or None
  target,     \* the target's, unless it is the same one
  aliased,    \* the two connections lead to one database
  replace,    \* the request's replace flag
  todo,       \* keys of the request still to come, the current one first
  pc,         \* the next command of the current key
  type,       \* the type TYPE answered
  ttl,        \* TTL answered a positive number
  value,      \* what the read returned: an entry, or None for a null reply
  succeeded, skipped, failed,   \* the lists of the result, as sets
  before,     \* history: both databases when the request began
  meddled,    \* history: keys somebody else, or time, changed since
  meddling    \* history: how many such steps there were

dbs    == <<source, target, aliased>>
reads  == <<type, ttl, value>>
result == <<succeeded, skipped, failed>>
others == <<before, meddled, meddling>>
vars   == <<dbs, replace, todo, pc, reads, result, others>>

-----------------------------------------------------------------------------
Database == [Keys -> Entry \cup {None}]

DbsOK ==
  /\ source \in Database /\ target \in Database
  /\ before \in [source : Database, target : Database]

JobOK ==
  /\ todo \in Seq(Keys)
  /\ pc \notin {"idle", "done"} => todo # <<>>
  /\ type \in Types \cup {None}
  /\ pc \notin {"idle", "done", "type"} => type # None
  /\ value \in Entry \cup {None}
  /\ pc = "restore" => value # None
  /\ succeeded \subseteq Keys /\ skipped \subseteq Keys /\ failed \subseteq Keys

RestOK ==
  /\ pc \in {"idle", "type", "ttl", "clear", "read", "write", "restore", "expire", "done"}
  /\ aliased \in BOOLEAN /\ replace \in BOOLEAN /\ ttl \in BOOLEAN
  /\ meddled \subseteq Keys /\ meddling \in 0 .. MaxMeddling

TypeOK == DbsOK /\ JobOK /\ RestOK

Init ==
  /\ source \in [Keys -> Entries \cup {None}]
  /\ aliased \in BOOLEAN
  /\ target \in IF aliased THEN {[k \in Keys |-> None]} ELSE [Keys -> Entries \cup {None}]
  /\ replace = FALSE /\ todo = <<>> /\ pc = "idle"
  /\ type = None /\ ttl = FALSE /\ value = None
  /\ succeeded = {} /\ skipped = {} /\ failed = {}
  /\ before = [source |-> source, target |-> target]
  /\ meddled = {} /\ meddling = 0

key == Head(todo)

(* The target connection's view of a key, and a write through it.           *)
AtTarget(k) == IF aliased THEN source[k] ELSE target[k]

SetTarget(k, e) ==
  IF aliased
  THEN source' = [source EXCEPT ![k] = e] /\ UNCHANGED <<target, aliased>>
  ELSE target' = [target EXCEPT ![k] = e] /\ UNCHANGED <<source, aliased>>

-----------------------------------------------------------------------------
(* The outcome of a key, and the step to the next one.                      *)

NextKey ==
  /\ todo' = Tail(todo)
  /\ pc' = IF Tail(todo) = <<>> THEN "done" ELSE "type"
  /\ type' = None /\ ttl' = FALSE /\ value' = None

Succeed == NextKey /\ succeeded' = succeeded \cup {key} /\ UNCHANGED <<skipped, failed>>
Skip    == NextKey /\ skipped' = skipped \cup {key} /\ UNCHANGED <<succeeded, failed>>
Fail_Unreported == NextKey /\ UNCHANGED result
Fail    == NextKey /\ failed' = failed \cup {key} /\ UNCHANGED <<succeeded, skipped>>

(* The command answers and copyOne goes on at p.                            *)
Go(p) == pc' = p /\ UNCHANGED <<todo, result>>

(* The request: copyKeysBatch for a list of keys, copyKey for one.  An      *)
(* empty list is answered at once.                                          *)
copyKeysBatch(ks, r) ==
  /\ pc = "idle"
  /\ replace' = r
  /\ todo' = ks
  /\ pc' = IF ks = <<>> THEN "done" ELSE "type"
  /\ before' = [source |-> source, target |-> target]
  /\ meddled' = {}
  /\ UNCHANGED <<dbs, reads, result, meddling>>

(* src.type(key): a missing key is a failed one.                            *)
ReadType ==
  /\ pc = "type"
  /\ \/ source[key] = None /\ Fail
     \/ /\ source[key] # None
        /\ type' = source[key].type
        /\ Go("ttl") /\ UNCHANGED <<ttl, value>>
  /\ UNCHANGED <<dbs, replace, others>>

(* src.ttl(key)                                                             *)
ReadTtl ==
  /\ pc = "ttl"
  /\ ttl' = (source[key] # None /\ source[key].expiry = "later")
  /\ Go("clear") /\ UNCHANGED <<type, value>>
  /\ UNCHANGED <<dbs, replace, others>>

CheckTarget_SkipsNothing ==
  /\ pc = "clear" /\ ~replace
  /\ Go("read") /\ UNCHANGED reads
  /\ UNCHANGED <<dbs, replace, others>>

(* Without replace, dst.type(key): a key that exists is skipped.            *)
CheckTarget ==
  /\ pc = "clear" /\ ~replace
  /\ IF AtTarget(key) # None THEN Skip ELSE Go("read") /\ UNCHANGED reads
  /\ UNCHANGED <<dbs, replace, others>>

(* With replace, dst.del(key), before the source has been read.             *)
ClearTarget ==
  /\ pc = "clear" /\ replace
  /\ SetTarget(key, None)
  /\ (Go("read") /\ UNCHANGED reads) \/ Fail
  /\ UNCHANGED <<replace, others>>

TypeChanged == source[key] # None /\ source[key].type # type

(* GET, HGETALL, LRANGE, SMEMBERS, ZRANGE, XRANGE: nothing for a missing    *)
(* key (null for GET), WRONGTYPE for a key that changed its type.           *)
ReadValue ==
  /\ pc = "read" /\ type # "module"
  /\ \/ TypeChanged /\ Fail
     \/ /\ ~TypeChanged
        /\ value' = IF source[key] = None THEN None ELSE Decoded(source[key])
        /\ Go("write") /\ UNCHANGED <<type, ttl>>
  /\ UNCHANGED <<dbs, replace, others>>

(* DUMP, of whatever the key holds by now; null for a missing key.          *)
Dump ==
  /\ pc = "read" /\ type = "module"
  /\ \/ source[key] = None /\ Fail
     \/ /\ source[key] # None
        /\ value' = source[key]
        /\ Go("restore") /\ UNCHANGED <<type, ttl>>
  /\ UNCHANGED <<dbs, replace, others>>

(* SET replaces value and expiry.  What SET of a null value does is the     *)
(* client library's business: it throws, or an empty string is written.     *)
WriteString ==
  /\ pc = "write" /\ type = "string"
  /\ \/ /\ SetTarget(key, [type |-> "string", expiry |-> "never",
                           content |-> IF value = None THEN {} ELSE value.content])
        /\ (Go("expire") /\ UNCHANGED reads) \/ Fail
     \/ value = None /\ Fail /\ UNCHANGED dbs
  /\ UNCHANGED <<replace, others>>

(* HSET, RPUSH, SADD, ZADD of all elements in one command; none for no      *)
(* elements; WRONGTYPE if somebody put another type there.                  *)
WriteCollection ==
  /\ pc = "write" /\ type \in {"collection", "zset"}
  /\ LET e == AtTarget(key) IN
     \/ /\ value = None
        /\ Go("expire") /\ UNCHANGED <<reads, dbs>>
     \/ /\ value # None /\ Takes(e, type)
        /\ SetTarget(key, Added(e, type, value.content))
        /\ (Go("expire") /\ UNCHANGED reads) \/ Fail
     \/ /\ value # None /\ ~Takes(e, type)
        /\ Fail /\ UNCHANGED dbs
  /\ UNCHANGED <<replace, others>>

(* XADD, one command per entry and in the order of ids, which must exceed   *)
(* every id already there.                                                  *)
WriteStream ==
  /\ pc = "write" /\ type = "stream"
  /\ IF value = None THEN Go("expire") /\ UNCHANGED <<reads, dbs>>
     ELSE IF value.content = {} THEN Go("expire") /\ UNCHANGED <<reads, dbs>>
     ELSE \E id \in value.content :
          LET e == AtTarget(key) IN
          /\ Lowest(id, value.content)
          /\ \/ /\ Takes(e, type) /\ Above(id, e)
                /\ SetTarget(key, Added(e, type, {id}))
                /\ \/ /\ value' = [value EXCEPT !.content = @ \ {id}]
                      /\ Go("write") /\ UNCHANGED <<type, ttl>>
                   \/ Fail
             \/ /\ ~(Takes(e, type) /\ Above(id, e))
                /\ Fail /\ UNCHANGED dbs
  /\ UNCHANGED <<replace, others>>

(* RESTORE with the TTL read before, REPLACE always; then copyOne returns.  *)
Restore ==
  /\ pc = "restore"
  /\ SetTarget(key, [value EXCEPT !.expiry = IF ttl THEN "later" ELSE "never"])
  /\ Succeed \/ Fail
  /\ UNCHANGED <<replace, others>>

ExpireTarget_Forgets ==
  /\ pc = "expire"
  /\ Succeed
  /\ UNCHANGED <<dbs, replace, others>>

(* dst.expire(key, ttl) for a positive TTL; nothing for a missing key.      *)
ExpireTarget ==
  /\ pc = "expire"
  /\ IF ttl /\ AtTarget(key) # None
     THEN SetTarget(key, [AtTarget(key) EXCEPT !.expiry = "later"])
     ELSE UNCHANGED dbs
  /\ Succeed \/ (ttl /\ Fail)
  /\ UNCHANGED <<replace, others>>

(* A command that is not executed: refused, timed out, connection lost.     *)
CommandFails ==
  /\ pc \notin {"idle", "done"}
  /\ Fail
  /\ UNCHANGED <<dbs, replace, others>>

Job ==
  \/ ReadType \/ ReadTtl \/ CheckTarget \/ ClearTarget
  \/ ReadValue \/ Dump \/ WriteString \/ WriteCollection \/ WriteStream
  \/ Restore \/ ExpireTarget
  \/ CommandFails

-----------------------------------------------------------------------------
(* The other clients of the two databases, and time.                        *)

Meddle(k) ==
  /\ meddling < MaxMeddling /\ pc \notin {"idle", "done"}
  /\ meddling' = meddling + 1 /\ meddled' = meddled \cup {k}
  /\ UNCHANGED <<aliased, replace, todo, pc, reads, result, before>>

OtherWrites(k, e) ==
  /\ Meddle(k)
  /\ \/ source' = [source EXCEPT ![k] = e] /\ UNCHANGED target
     \/ ~aliased /\ target' = [target EXCEPT ![k] = e] /\ UNCHANGED source

TimePasses(k) ==
  /\ Meddle(k)
  /\ \/ /\ source[k] # None /\ source[k].expiry # "never"
        /\ source' = [source EXCEPT ![k] = Later(@)] /\ UNCHANGED target
     \/ /\ target[k] # None /\ target[k].expiry # "never"
        /\ target' = [target EXCEPT ![k] = Later(@)] /\ UNCHANGED source

Next ==
  \/ \E ks \in KeyLists, r \in BOOLEAN : copyKeysBatch(ks, r)
  \/ Job
  \/ \E k \in Keys : (\E e \in Entries \cup {None} : OtherWrites(k, e)) \/ TimePasses(k)

Spec == Init /\ [][Next]_vars

-----------------------------------------------------------------------------
(* Properties.                                                              *)

Remaining == {todo[i] : i \in 1 .. Len(todo)}

(* The result tells the truth about every key that is done and that nobody  *)
(* else touched: a succeeded key (that did not fail a second time) is at    *)
(* the target with what a copy keeps of the source's value and expiry, and  *)
(* a key that was only skipped is what it was.  A stream without entries is *)
(* the exception: copying it writes nothing and is a success.               *)
ResultIsTrue ==
  \A k \in Keys \ (meddled \cup Remaining) :
    ~aliased =>
      /\ k \in succeeded \ failed =>
           /\ before.source[k] # None
           /\ EmptyStream(before.source[k]) \/ target[k] = Arrived(before.source[k])
      /\ k \in skipped \ (succeeded \cup failed) =>
           target[k] = before.target[k] /\ target[k] # None

(* Without replace, no key that was at the target is changed or lost, even  *)
(* if the "target" is the source, whatever fails and whatever is repeated.  *)
KeptWithoutReplace ==
  ~replace => \A k \in Keys \ meddled :
    /\ before.target[k] # None => target[k] = before.target[k]
    /\ aliased /\ before.source[k] # None => source[k] = before.source[k]

(* With replace, a key that was at the target and is there no more, by no   *)
(* one else's doing, is the current one, or reported as failed, or has been *)
(* replaced by a stream without entries.                                    *)
LossIsReported ==
  \A k \in Keys \ meddled :
    before.target[k] # None /\ target[k] = None
      => \/ k \in failed
         \/ pc \notin {"idle", "done"} /\ k = key
         \/ before.source[k] # None /\ EmptyStream(before.source[k])

(* "Select a different database — source and target are the same": a copy   *)
(* leaves the keys of its source where they are.                            *)
SourceSurvives ==
  pc = "done" => \A k \in Keys \ meddled : before.source[k] # None => source[k] # None
=============================================================================

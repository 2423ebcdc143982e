---------------------------- MODULE RedisEntries ----------------------------
(***************************************************************************)
(* What a Redis database holds under a key, what the backend makes of it   *)
(* when it reads it through the client library, and what its writes leave. *)
(***************************************************************************)
EXTENDS Naturals, Nothing

CONSTANTS
  Elems,  \* elements of values: naturals, a stream's entry ids in order
  Decode  \* element -> what is left of it once the client has read it

ASSUME ElemsAssumption == Elems \subseteq Nat
ASSUME DecodeAssumption ==
  Decode \in [Elems -> Elems] /\ \A x \in Elems : Decode[Decode[x]] = Decode[x]

(* The types the code tells apart.  Hash, list and set are "collection":    *)
(* each is read in one command and written in one.  Anything the code has   *)
(* no case for (JSON, other modules) is "module".                           *)
Types == {"string", "collection", "zset", "stream", "module"}

(* TTL answers 0 for "soon" (the last half second of a key), a positive     *)
(* number for "later", -1 for "never".                                      *)
Expiries == {"never", "soon", "later"}

(* A string without elements is the empty string.                           *)
Entry == [type : Types, content : SUBSET Elems, expiry : Expiries]

(* Redis keeps a stream or a string without elements, but no empty          *)
(* collection.                                                              *)
Possible(e) == e.type \in {"collection", "zset"} => e.content # {}

EmptyStream(e) == e.type = "stream" /\ e.content = {}

ASSUME NoEntryAssumption == None \notin Entry /\ None \notin Types

(* The connection's codec is UTF-8 text, and a stream entry's body is a map: *)
(* other bytes are replaced, repeated fields dropped.  DUMP goes through a  *)
(* connection with a binary codec and changes nothing.                      *)
Decoded(e) == [e EXCEPT !.content = {Decode[x] : x \in @}]

(* What arrives of an entry by a copy: TTL is taken over if it is positive. *)
Arrived(e) ==
  [type    |-> e.type,
   content |-> IF e.type = "module" THEN e.content ELSE Decoded(e).content,
   expiry  |-> IF e.expiry = "later" THEN "later" ELSE "never"]

(* A write of elements: WRONGTYPE if another type is there.                 *)
Takes(e, t) == e # None => e.type = t

Added(e, t, S) ==
  IF e = None THEN [type |-> t, content |-> S, expiry |-> "never"]
              ELSE [e EXCEPT !.content = @ \cup S]

(* XADD wants an id above every id already there.                           *)
Above(id, e) == e # None => \A x \in e.content : x < id

Lowest(x, S) == x \in S /\ \A y \in S : x <= y

(* Time passes for an entry that expires.                                   *)
Later(e) == IF e.expiry = "later" THEN [e EXCEPT !.expiry = "soon"] ELSE None
=============================================================================

----------------------------- MODULE MCKeyCopy -----------------------------
(* Instances of KeyCopy: requests for two keys, and for one key twice.      *)
EXTENDS KeyCopy

CONSTANTS k1, k2

MCKeys     == {k1, k2}
MCElems    == {1, 2, 3}
MCDecode   == [x \in MCElems |-> IF x = 2 THEN 3 ELSE x]  \* 2 is not UTF-8
MCKeyLists == {<<k1, k2>>, <<k1, k1>>}
MCEntries  ==
  {[type |-> "string",     content |-> {2},    expiry |-> "soon"],
   [type |-> "collection", content |-> {1, 2}, expiry |-> "later"],
   [type |-> "stream",     content |-> {1, 2}, expiry |-> "never"],
   [type |-> "stream",     content |-> {},     expiry |-> "later"],
   [type |-> "module",     content |-> {2},    expiry |-> "later"]}
=============================================================================

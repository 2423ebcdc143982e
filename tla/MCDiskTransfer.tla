--------------------------- MODULE MCDiskTransfer ---------------------------
(* An instance of DiskTransfer: two keys, which SCAN may return twice.      *)
EXTENDS DiskTransfer

CONSTANTS k1, k2

MCKeys     == {k1, k2}
MCKeyLists == {<<>>, <<k1, k1>>, <<k2>>, <<k1, k2>>}
MCElems    == {1, 2, 3, 4}
MCDecode   == [x \in MCElems |-> IF x = 2 THEN 3 ELSE x]  \* 2 is not UTF-8
MCInfinite == {4}
MCEntries  ==
  {[type |-> "string",     content |-> {2},    expiry |-> "soon"],
   [type |-> "collection", content |-> {1, 2}, expiry |-> "later"],
   [type |-> "zset",       content |-> {1, 4}, expiry |-> "never"],
   [type |-> "zset",       content |-> {1, 2}, expiry |-> "later"],
   [type |-> "stream",     content |-> {1, 2}, expiry |-> "never"],
   [type |-> "stream",     content |-> {},     expiry |-> "later"],
   [type |-> "module",     content |-> {2},    expiry |-> "later"]}
MCTargetEntries ==
  {[type |-> "collection", content |-> {1},    expiry |-> "soon"],
   [type |-> "stream",     content |-> {3},    expiry |-> "never"]}
=============================================================================

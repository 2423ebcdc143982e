----------------------------- MODULE MCCopyTab -----------------------------
(* Instances of the copying of keys (KeyCopy) and of the tab from which one *)
(* or many are copied (KeyDiff).  A request says all that its copying goes  *)
(* by, so it is enough that one of the two is at work, while the other one  *)
(* stays in one of its initial states.                                      *)
EXTENDS MCKeyCopy, KeyDiff, TLC

VARIABLE tab  \* the tab is at work, not a request

TabIdle == half = "compare" /\ db = rightDb /\ db = batchSrcDb
CopyIdle == ~aliased /\ \A k \in Keys : source[k] = None /\ target[k] = None

MCInit ==
  /\ tab \in BOOLEAN
  /\ DiffInit /\ (~tab => TabIdle)
  /\ Init /\ (tab => CopyIdle)

MCNext ==
  \/ ~tab /\ Next /\ UNCHANGED <<tab, db, diffPart>>
  \/ tab /\ DiffNext /\ UNCHANGED <<tab, vars>>

MCSpec == MCInit /\ [][MCNext]_<<vars, db, diffPart, tab>>

MCSymmetry == UNION {Permutations(S) : S \in {Databases, DiffKeys, Calls}}
=============================================================================

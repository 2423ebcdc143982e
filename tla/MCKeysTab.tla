------------------------------ MODULE MCKeysTab ------------------------------
(* Instances of the keys tab: of its list and its panel (KeysBrowser), and  *)
(* of its dialogs (KeyActions).  A dialog covers the page and is given all  *)
(* it needs when it is opened, so it is enough that one of the two is used, *)
(* while the other one stays in one of its initial states.  The databases   *)
(* store the same names, so that they may change places.                    *)
EXTENDS MCKeysBrowser, KeyActions, TLC

VARIABLE inDialogs  \* the dialogs are used

MCInit ==
  /\ inDialogs \in BOOLEAN
  /\ Init
  /\ ActionInit /\ (~inDialogs => Existing = {})

MCNext ==
  \/ ~inDialogs /\ Next /\ UNCHANGED <<inDialogs, actionPart>>
  \/ inDialogs /\ ActionNext /\ UNCHANGED <<inDialogs, vars>>

MCSpec == MCInit /\ [][MCNext]_<<inDialogs, vars, actionPart>>

MCSymmetry == Permutations(Dbs) \cup Permutations(ActionKeys) \cup Permutations(Sends)

(* Bound: a run is not followed past a state in which an exception of the   *)
(* panel and one of the list hold at once.                                  *)
NotBoth == ~(raced /\ (strayed \/ mixed))
=============================================================================

------------------------------ MODULE MCDiskTab ------------------------------
(* Instances of exporting and importing (DiskTransfer) and of the tab that  *)
(* asks for it (MigrationView).  A request says all that the backend goes   *)
(* by, so it is enough that one of the two is at work, while the other one  *)
(* stays in one of its initial states; and of the tab it is enough to use   *)
(* its keys or its commands, which have only the mode in common.            *)
EXTENDS MCDiskTransfer, MigrationView, TLC

VARIABLE at  \* what is at work

NoKeys == \A k \in Keys : source[k] = None /\ target[k] = None

MCInit ==
  /\ at \in {"backend", "keys", "commands"}
  /\ MigrationInit /\ (at # "keys" => db = targetDb)
  /\ Init /\ (at # "backend" => NoKeys)

MCNext ==
  \/ at = "backend" /\ Next /\ UNCHANGED <<at, db, migrationPart>>
  \/ at = "keys" /\ KeysNext /\ UNCHANGED <<at, vars>>
  \/ at = "commands" /\ CommandsNext /\ UNCHANGED <<at, vars>>

MCSpec == MCInit /\ [][MCNext]_<<vars, db, migrationPart, at>>

MCSymmetry == UNION {Permutations(S) : S \in {Databases, Jobs, Exports, Scripts}}
=============================================================================

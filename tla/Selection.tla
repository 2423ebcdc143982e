------------------------------ MODULE Selection ------------------------------
(***************************************************************************)
(* The database of a connection that is selected on the page.  App keeps   *)
(* it in the connection object, which changeDb replaces; every tab of the  *)
(* connection's dashboard is mounted all the time and sees the change.     *)
(***************************************************************************)
EXTENDS Nothing

CONSTANT Databases

ASSUME NoDatabaseAssumption == None \notin Databases

VARIABLE db

(* Also with the number it has: then the object changes and db does not.    *)
changeDb(d) == db' = d
=============================================================================

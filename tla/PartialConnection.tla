--------------------------- MODULE PartialConnection ---------------------------
(***************************************************************************)
(* What a request reaches that does not send a connection as it is saved.  *)
(*                                                                         *)
(* A comparison sends both of its sides whole, but the backend goes by the *)
(* host, the port, the password and the database of each.  A migration and *)
(* an import send just these four of their target, a copy also the         *)
(* authentication type, the user name and the URL.  TLS, an SSH tunnel,    *)
(* the Sentinel and cluster nodes and the socket are never sent, and with a *)
(* URL the database that was selected is ignored.                          *)
(* FEATURES.md:529 lists the migration as supported for every              *)
(* authentication type.                                                    *)
(*                                                                         *)
(* A connection that these fields tell is reached, or nothing is: its      *)
(* password may be sent as it is sealed in the browser's storage.  Any     *)
(* other may lead to another place, or to none.                            *)
(***************************************************************************)
EXTENDS Nothing

CONSTANT Told  \* the connections, or their databases, that the fields tell

(* Where a request comes to that names the place p of connection c.         *)
Reached(c, p, Places) == IF c \in Told THEN {p, None} ELSE Places \cup {None}

(* The place r it came to is the one it names, or none; or it cannot tell.  *)
IsNamed(c, p, r) == r \in {p, None} \/ c \notin Told
=============================================================================

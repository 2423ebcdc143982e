--------------------------- MODULE MCKeysBrowser ---------------------------
(* Instances of KeysBrowser: two databases with the same key names.         *)
EXTENDS KeysBrowser

CONSTANTS d0, d1, a, b, c

MCDbs        == {d0, d1}
MCNames      == {a, b}
MCStored     == [d \in MCDbs |-> MCNames]
MCSecondPage == {b}
MCPatterns   == {MCNames, {a}}

(* For the cap: a pattern that matches more keys than a full scan returns.  *)
MCNames3     == {a, b, c}
MCStored3    == [d \in MCDbs |-> MCNames3]
MCPatterns3  == {MCNames3, {a, b}}
=============================================================================

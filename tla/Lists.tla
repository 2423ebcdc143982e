-------------------------------- MODULE Lists --------------------------------
(***************************************************************************)
(* Array.filter, as a recursive function: the page's lists are filtered    *)
(* in many places.                                                         *)
(***************************************************************************)
EXTENDS Integers, Sequences

(* The entries of a list that are in S, in their order.                     *)
Filtered(list, S) ==
  LET f[n \in 0 .. Len(list)] ==
        IF n = 0 THEN <<>>
        ELSE IF list[n] \in S THEN Append(f[n - 1], list[n])
        ELSE f[n - 1]
  IN f[Len(list)]
=============================================================================

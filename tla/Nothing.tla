------------------------------- MODULE Nothing -------------------------------
(* What a variable holds that holds nothing: no key, no entry, no request   *)
(* on its way, nothing selected, shown or edited.                           *)
CONSTANT None
=============================================================================

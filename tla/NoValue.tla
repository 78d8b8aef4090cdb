------------------------------- MODULE NoValue -------------------------------
(***************************************************************************)
(* What stands in the models where the code has nil, an empty string or a  *)
(* row that does not exist.                                                *)
(***************************************************************************)
CONSTANT None
==============================================================================

-------------------------- MODULE MCWebInterface --------------------------
(* WebInterface for two operators, each signed in at one browser, a third  *)
(* subject who is not admitted, and two policy names.                      *)
EXTENDS WebInterface, TLC

Symmetric == Permutations(Browsers) \cup Permutations(Admitted) \cup Permutations(Policies)
===========================================================================

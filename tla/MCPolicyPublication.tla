------------------------ MODULE MCPolicyPublication ------------------------
(* A small instance of PolicyPublication for TLC.                           *)
EXTENDS PolicyPublication

CONSTANTS p, q, c1, c2, b1

MCNames == {p, q}
MCContents == {c1, c2}
MCBindings == {b1}

(* Policies are written, edited and written again under the name p; the     *)
(* name q, and a second row beside p's, come from a rename.  Nothing in the *)
(* module tells the names apart, so writing under q as well adds copies of  *)
(* the same cases.                                                          *)
MCWritten == [n \in MCNames |-> IF n = p THEN MCContents ELSE {}]
=============================================================================

-------------------------- MODULE MCTokenLifecycle --------------------------
(* Small instances of TokenLifecycle for TLC.                               *)
EXTENDS TokenLifecycle

(* With identity values, revision 2 changes a policy's text only: the role   *)
(* has the same policies and the values alone are new.  Without values       *)
(* SecretIDs outlive an edit, which matters when the policies differ.        *)
MCValues == [policyOf |-> [r \in 1 .. MaxRev |-> 1], values |-> TRUE]
MCPlain == [policyOf |-> [r \in 1 .. MaxRev |-> r], values |-> FALSE]

MCSettings == {MCValues, MCPlain}
=============================================================================

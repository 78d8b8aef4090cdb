------------------------- MODULE MCOperatorAccess -------------------------
(* OperatorAccess with a grant for one agent and one policy and a grant    *)
(* for everything.                                                         *)
EXTENDS OperatorAccess, TLC
CONSTANTS a1, a2, p1, p2
MCGrants ==
    {[agents |-> {a1}, policies |-> {p1}, actions |-> Actions],
     [agents |-> {"*"}, policies |-> {"*"}, actions |-> {"read", "bind"}]}
MCSymmetry == Permutations(Keys) \cup Permutations(Conns) \cup Permutations(Labels) \cup Permutations(Sources)
=============================================================================

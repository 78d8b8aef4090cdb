------------------------------ MODULE MCEndpoints ------------------------------
(* Endpoints with one Transit key and one certificate role, which the policy   *)
(* offers, keeps from being forwarded or withdraws, and a second binding.      *)
EXTENDS Endpoints

CONSTANTS b1, b2, k, r

Full == [id |-> b1, token |-> TRUE, offers |-> {k, r}, restricted |-> {}]

MCViews ==
    {Full, None,
     [Full EXCEPT !.restricted = {k, r}],
     [Full EXCEPT !.offers = {k}],
     [Full EXCEPT !.id = b2, !.offers = {r}]}

MCFirstViews == {Full}
================================================================================

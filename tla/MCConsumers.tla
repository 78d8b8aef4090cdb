----------------------------- MODULE MCConsumers -----------------------------
(* A small instance of Consumers for TLC: a binding on a name and one on a    *)
(* compose service, which may govern the same container.                      *)
EXTENDS Consumers

MCKeyOf ==
    [b \in {"byName", "byService"} |->
        IF b = "byName" THEN [kind |-> "name", value |-> "app"]
        ELSE [kind |-> "compose", value |-> "web"]]

\* A container of the service without the contract, and one whose start failed.
MCUsers ==
    {[name |-> "app", project |-> "web", conforms |-> FALSE, state |-> "up"],
     [name |-> "app", project |-> None, conforms |-> TRUE, state |-> "failed"]}
=============================================================================

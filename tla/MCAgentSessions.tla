---------------------------- MODULE MCAgentSessions ---------------------------
(* A small instance of AgentSessions for TLC. *)
EXTENDS AgentSessions

MCHealths ==
    {[failed |-> "", sockets |-> TRUE, token |-> TRUE, outcome |-> "conforming"],
     [failed |-> "", sockets |-> TRUE, token |-> FALSE, outcome |-> "conforming"]}
===============================================================================

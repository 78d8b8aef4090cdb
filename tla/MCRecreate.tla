------------------------------ MODULE MCRecreate ------------------------------
(***************************************************************************)
(* Recreate for TLC: one reconciliation at a time beside the worker, and   *)
(* two recreates of the container, so that an acknowledgement can meet the *)
(* journal of a later one.                                                 *)
(***************************************************************************)
EXTENDS Recreate
===============================================================================

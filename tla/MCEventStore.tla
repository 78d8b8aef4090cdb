----------------------------- MODULE MCEventStore -----------------------------
(***************************************************************************)
(* EventStore for TLC: a history of two events, so that every append from  *)
(* the third on replaces the file, and failed calls, kills and power       *)
(* failures in any order.                                                  *)
(***************************************************************************)
EXTENDS EventStore
===============================================================================

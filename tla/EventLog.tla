------------------------------- MODULE EventLog -------------------------------
(***************************************************************************)
(* What the operational event history of the agent and of the controller   *)
(* promises, whatever the storage does: a bounded log in write order.      *)
(* Open creates or recovers it, Append "durably records one validated      *)
(* event before returning" (internal/events/store.go:119), and retention   *)
(* forgets the oldest events only.  EventStore implements this.            *)
(*                                                                         *)
(* Events are numbered in the order in which Append was called.            *)
(***************************************************************************)
EXTENDS Naturals, Sequences

CONSTANTS
    Retention    \* number of events the history keeps

VARIABLES
    kept,    \* the events that survive any crash, oldest first
    acked    \* the events whose Append returned without an error

vars == <<kept, acked>>

\* The newest Retention events of a sequence.
Newest(s) ==
    IF Len(s) <= Retention THEN s
    ELSE SubSeq(s, Len(s) - Retention + 1, Len(s))

Init == kept = <<>> /\ acked = {}

Ascending(s) == \A i, j \in 1 .. Len(s) : i < j => s[i] < s[j]

\* Events become durable in order, possibly several by one write, and the
\* newest may be acknowledged; an event may also become durable without ever
\* being acknowledged, but an event that is durable is never taken back.
Record ==
    /\ \E n \in 0 .. Len(kept') :
         LET new == SubSeq(kept', n + 1, Len(kept'))
         IN  kept' = Newest(kept \o new) /\ Ascending(kept \o new)
    /\ \/ acked' = acked
       \/ kept' # <<>> /\ acked' = acked \cup {kept'[Len(kept')]}

Next == Record

Spec == Init /\ [][Next]_vars
===============================================================================

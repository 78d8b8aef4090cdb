---------------------------- MODULE AgentSessions ----------------------------
(***************************************************************************)
(* The sessions of one approved agent: connecting and replacing            *)
(* (internal/agent/session.go, internal/controller/session.go), the status *)
(* reporter of a session (internal/agent/binding_status.go), the push of   *)
(* policy sets, and the readiness the controller shows for a binding       *)
(* (internal/controller/readiness.go).                                     *)
(*                                                                         *)
(* The agent gives up a connection before the controller knows of it, so   *)
(* the controller may serve several at once, each in a goroutine of its    *)
(* own: the serve loop of an old connection may be at any of its steps     *)
(* while a newer one takes its place.  There is one binding, on a          *)
(* container name; what the agent knows of it (module Consumers) is a fact *)
(* that changes by itself, and the results the controller stores are in    *)
(* module Recreate.                                                        *)
(***************************************************************************)
EXTENDS Naturals, Sequences, FiniteSets

CONSTANTS
    Healths,       \* what the agent may report of a binding besides its container
    MaxConns,      \* bound: connections at the same time, on either side
    MaxTrouble,    \* bound: connections given up, restarts, failed saves, new facts and assignments
    MaxQueue       \* bound: messages on their way in one direction

ASSUME AgentSessionsAssumption ==
    /\ {MaxConns, MaxTrouble, MaxQueue} \subseteq Nat
    /\ Healths \subseteq [failed : {"", "access-group", "directory"}, sockets : BOOLEAN,
                          token : BOOLEAN, outcome : {"", "conforming", "recreated", "non-conforming"}]
    /\ Healths # {}

Conns == 1 .. MaxConns
Containers == 0 .. MaxTrouble + 1 \* identifiers, 0 without a container

VARIABLES
    mine,      \* agent.session: the connection, 0 without one
    fact,      \* the assignment, the container and the health of the binding
    wake,      \* agent.statusWake
    reporter,  \* per connection, where its reportBindingStatuses is
    sent,      \* per connection, the status in the reporter's map
    out,       \* per connection, messages to the controller
    in,        \* per connection, assignments in policy sets to the agent
    serve,     \* per connection, where hub.serve is
    cancelled, \* connections whose context is cancelled
    pushing,   \* per connection, the holder of pushMu and what it read
    status,    \* per connection, session.statuses
    hub,       \* hub.sessions: the published connection, 0 without one
    inventory, \* the container of the stored inventory
    assigned,  \* the assignment of the stored binding
    operator,  \* an operation that pushes after it stored an assignment
    replaced,  \* history: sessions whose place a newer one took
    stood,     \* history: per connection, ready facts of the agent during it
    trouble

agentVars == <<mine, fact, wake, reporter, sent>>
netVars == <<out, in>>
ctlVars == <<serve, cancelled, pushing, status, hub, inventory, assigned, operator>>
vars == <<agentVars, netVars, ctlVars, replaced, stood, trouble>>

None == [none |-> TRUE]
NoPush == [by |-> "nobody", assignment |-> 0]
Fault == trouble < MaxTrouble /\ trouble' = trouble + 1

Init ==
    /\ mine = 0 /\ wake = FALSE
    /\ fact \in [assignment : {0}, container : {1}, health : Healths]
    /\ reporter = [i \in Conns |-> "off"] /\ sent = [i \in Conns |-> None]
    /\ out = [i \in Conns |-> <<>>] /\ in = [i \in Conns |-> <<>>]
    /\ serve = [i \in Conns |-> "none"] /\ cancelled = {}
    /\ pushing = [i \in Conns |-> NoPush] /\ status = [i \in Conns |-> None]
    /\ hub = 0
    /\ inventory = 0
    /\ assigned = 1 /\ operator = [at |-> "idle", conn |-> 0]
    /\ replaced = {} /\ stood = [i \in Conns |-> {}]
    /\ trouble = 0

-------------------------------------------------------------------------------
(***************************************************************************)
(* The agent.                                                              *)
(***************************************************************************)

Room(i) == Len(out[i]) < MaxQueue
Enqueue(i, message) == out' = [out EXCEPT ![i] = Append(@, message)]
Inventory(f) == [type |-> "inventory", container |-> f.container]
Status(f) == [type |-> "status", fact |-> f]

\* A fact with which the binding is ready, without its health.
Good(f) ==
    IF /\ f.assignment # 0 /\ f.container # 0 /\ f.health.failed = "" /\ f.health.sockets
       /\ f.health.token /\ f.health.outcome \in {"conforming", "recreated"}
    THEN {<<f.assignment, f.container>>} ELSE {}

\* The agent stands by a fact in the connection it has.
Stands(f) == stood' = [i \in Conns |-> IF i = mine THEN stood[i] \cup Good(f) ELSE stood[i]]

\* The place of a connection that both sides are done with is used again.
Free(i) == serve[i] = "none" /\ reporter[i] = "off" /\ operator.conn # i

\* connectOnce: the hello, then the inventory, and a reporter for the session.
Connect(i) ==
    /\ mine = 0 /\ Free(i) /\ \A j \in 1 .. i - 1 : ~Free(j)
    /\ mine' = i /\ serve' = [serve EXCEPT ![i] = "hello"]
    /\ out' = [out EXCEPT ![i] = <<Inventory(fact)>>]
    /\ reporter' = [reporter EXCEPT ![i] = "pass"]
    /\ stood' = [stood EXCEPT ![i] = Good(fact)]
    /\ UNCHANGED <<fact, wake, sent, in, cancelled, pushing, status, hub, inventory, assigned,
                   operator, replaced, trouble>>

\* The session ends for the agent, by itself or because the controller closed
\* it; the controller notices later.  A pass that its reporter has begun sends
\* nothing any more.
EndSession(i) ==
    /\ mine' = 0
    /\ reporter' = [reporter EXCEPT ![i] = "wait"]
    /\ in' = [in EXCEPT ![i] = <<>>]
    /\ serve' = [serve EXCEPT ![i] = IF @ = "ended" THEN "none" ELSE @]
    /\ cancelled' = IF serve[i] = "ended" THEN cancelled \ {i} ELSE cancelled
    /\ sent' = [sent EXCEPT ![i] = None]
    /\ UNCHANGED <<fact, wake, out, pushing, status, hub, inventory, assigned,
                   operator, replaced, stood>>

Drop == mine # 0 /\ Fault /\ EndSession(mine)

Closed == mine \in cancelled /\ EndSession(mine) /\ UNCHANGED trouble

\* A reconciliation: the inventory is sent, and applyLocked wakes the reporter.
Reconcile ==
    /\ wake' = TRUE
    /\ IF mine # 0 /\ ~\E k \in DOMAIN out[mine] : out[mine][k].type = "inventory"
       THEN Room(mine) /\ Enqueue(mine, Inventory(fact))
       ELSE UNCHANGED out
    /\ UNCHANGED <<mine, fact, reporter, sent, in, ctlVars, replaced, stood, trouble>>

\* The binding's container, directory, sockets, token or contract result
\* changes; every such change wakes the reporter.
Change(container, health) ==
    /\ Fault /\ container \in {0, fact.container, fact.container + 1} \cap Containers
    /\ fact' = [fact EXCEPT !.container = container, !.health = health]
    /\ fact' # fact
    /\ wake' = TRUE /\ Stands(fact')
    /\ UNCHANGED <<mine, reporter, sent, netVars, ctlVars, replaced>>

\* applyPolicySet
ApplyPolicySet ==
    /\ mine # 0 /\ in[mine] # <<>>
    /\ fact' = [fact EXCEPT !.assignment = Head(in[mine])]
    /\ in' = [in EXCEPT ![mine] = Tail(@)]
    /\ wake' = TRUE /\ Stands(fact')
    /\ UNCHANGED <<mine, reporter, sent, out, ctlVars, replaced, trouble>>

\* reportBindingStatuses: a status that changed is sent.
ReportPass(i) ==
    /\ reporter[i] = "pass"
    /\ reporter' = [reporter EXCEPT ![i] = "wait"]
    /\ LET now == IF fact.assignment = 0 THEN None ELSE Status(fact)
       IN  /\ sent' = [sent EXCEPT ![i] = now]
           /\ IF now \notin {None, sent[i]}
              THEN Room(i) /\ Enqueue(i, now) ELSE UNCHANGED out
    /\ UNCHANGED <<mine, fact, wake, in, ctlVars, replaced, stood, trouble>>

\* When both are there, the end of the session or the wake-up is taken: the
\* reporter of an old session may take a wake-up from that of the next.
ReportWoken(i) ==
    /\ reporter[i] = "wait" /\ wake /\ wake' = FALSE
    /\ reporter' = [reporter EXCEPT ![i] = IF mine = i THEN "pass" ELSE "wait"]
    /\ UNCHANGED <<mine, fact, sent, netVars, ctlVars, replaced, stood, trouble>>

ReportDone(i) ==
    /\ reporter[i] = "wait" /\ mine # i
    /\ reporter' = [reporter EXCEPT ![i] = "off"]
    /\ UNCHANGED <<mine, fact, wake, sent, netVars, ctlVars, replaced, stood, trouble>>

-------------------------------------------------------------------------------
(***************************************************************************)
(* hub.serve for one connection.                                           *)
(***************************************************************************)

Serving(i, at) == serve[i] = at
To(i, at) == serve' = [serve EXCEPT ![i] = at]

\* The goroutine ends and closes the connection; nobody reads what it leaves.
End(i) ==
    /\ To(i, IF mine = i THEN "ended" ELSE "none")
    /\ cancelled' = IF mine = i THEN cancelled \cup {i} ELSE cancelled \ {i}
    /\ status' = [status EXCEPT ![i] = None] /\ stood' = [stood EXCEPT ![i] = {}]
    /\ out' = [out EXCEPT ![i] = <<>>] /\ replaced' = replaced \ {i}

\* The connection is gone for the controller too.
Notice(i) ==
    /\ serve[i] \notin {"none", "ended"} /\ mine # i /\ i \notin cancelled
    /\ cancelled' = cancelled \cup {i}
    /\ UNCHANGED <<agentVars, netVars, serve, pushing, status, hub, inventory,
                   assigned, operator, replaced, stood, trouble>>

\* receiveHello, unless the connection ended.  What RecordConnection stores of
\* the hello, the version and whether recreates are allowed, is left out.
ReceiveHello(i) ==
    /\ Serving(i, "hello")
    /\ IF i \in cancelled THEN End(i) /\ UNCHANGED <<hub, inventory>>
       ELSE /\ To(i, "publish")
            /\ UNCHANGED <<out, cancelled, status, hub, inventory, replaced, stood>>
    /\ UNCHANGED <<agentVars, in, pushing, assigned, operator, trouble>>

\* The session takes the place of the one before it, which is closed before any
\* message of the new one is read: what the one before does between these two
\* steps of the code, it might have done before them.
\* Mutant: the stream of the session before is closed and its context is not.
FaultyPublish(i) ==
    /\ Serving(i, "publish") /\ To(i, "loop")
    /\ hub' = i /\ replaced' = replaced \cup ({hub} \ {0})
    /\ UNCHANGED <<agentVars, netVars, cancelled, pushing, status, inventory, assigned,
                   operator, stood, trouble>>

\* Mutant: the statuses of the session before are taken over.
InheritingPublish(i) ==
    /\ Serving(i, "publish") /\ To(i, "loop")
    /\ hub' = i /\ replaced' = replaced \cup ({hub} \ {0})
    /\ cancelled' = cancelled \cup ({hub} \ {0})
    /\ status' = IF hub = 0 THEN status ELSE [status EXCEPT ![i] = status[hub]]
    /\ UNCHANGED <<agentVars, netVars, pushing, inventory, assigned, operator, stood,
                   trouble>>

Publish(i) ==
    /\ Serving(i, "publish") /\ To(i, "loop")
    /\ hub' = i /\ replaced' = replaced \cup ({hub} \ {0})
    /\ cancelled' = cancelled \cup ({hub} \ {0})
    /\ UNCHANGED <<agentVars, netVars, pushing, status, inventory, assigned, operator,
                   stood, trouble>>

Receiving(i, type) ==
    /\ Serving(i, "loop") /\ out[i] # <<>> /\ Head(out[i]).type = type
    /\ out' = [out EXCEPT ![i] = Tail(@)]

\* The inventory is saved, or not, and a push follows in either case.
HandleInventory(i) ==
    /\ Receiving(i, "inventory") /\ To(i, "push")
    /\ \/ i \in cancelled /\ UNCHANGED <<inventory, trouble>>
       \/ Fault /\ UNCHANGED inventory
       \/ /\ i \notin cancelled /\ UNCHANGED trouble
          /\ inventory' = Head(out[i]).container
    /\ UNCHANGED <<agentVars, in, cancelled, pushing, status, hub, assigned, operator,
                   replaced, stood>>

\* recordStatus
HandleStatus(i) ==
    /\ Receiving(i, "status")
    /\ status' = [status EXCEPT ![i] = Head(out[i]).fact]
    /\ UNCHANGED <<agentVars, in, serve, cancelled, pushing, hub, inventory, assigned,
                   operator, replaced, stood, trouble>>

\* The loop ends at a closed stream, with or without the messages read before.
LoopEnds(i) == Serving(i, "remove") \/ (Serving(i, "loop") /\ i \in cancelled)

\* Only the session's own entry is removed.
\* Mutant: the entry of the agent is removed, whoever put it there.
FaultyRemove(i) ==
    /\ LoopEnds(i) /\ End(i) /\ hub' = 0
    /\ UNCHANGED <<agentVars, in, pushing, inventory, assigned, operator, trouble>>

Remove(i) ==
    /\ LoopEnds(i) /\ End(i)
    /\ hub' = IF hub = i THEN 0 ELSE hub
    /\ UNCHANGED <<agentVars, in, pushing, inventory, assigned, operator, trouble>>

-------------------------------------------------------------------------------
(***************************************************************************)
(* push, by the serve loop and by operations on a binding.                 *)
(***************************************************************************)

Pushers == {"loop", "operator"}
Wants(by, i) == IF by = "loop" THEN Serving(i, "push") ELSE operator = [at |-> "push", conn |-> i]

Done(by, i, ok) ==
    IF by = "loop" THEN To(i, IF ok THEN "loop" ELSE "remove") /\ UNCHANGED operator
    ELSE operator' = [at |-> "idle", conn |-> 0] /\ UNCHANGED serve

\* Under pushMu the inventory and the bindings are read and the set is sent.
\* The reads of the loop fail once its context is cancelled; then nothing is sent.
PushRead(by, i) ==
    /\ Wants(by, i) /\ pushing[i] = NoPush
    /\ \/ /\ by = "operator" \/ i \notin cancelled
          /\ pushing' = [pushing EXCEPT ![i] = [by |-> by, assignment |-> assigned]]
          /\ UNCHANGED <<serve, operator, trouble>>
       \/ /\ (by = "loop" /\ i \in cancelled /\ UNCHANGED trouble) \/ Fault
          /\ Done(by, i, TRUE) /\ UNCHANGED pushing
    /\ UNCHANGED <<agentVars, netVars, cancelled, status, hub, inventory, assigned, replaced,
                   stood>>

\* A send that fails ends the loop, or makes the operation close the session.
\* One to an agent that left is lost or fails.
PushSend(by, i) ==
    /\ Wants(by, i) /\ pushing[i].by = by
    /\ pushing' = [pushing EXCEPT ![i] = NoPush]
    /\ \/ /\ i \in cancelled \/ mine # i
          /\ Done(by, i, FALSE) /\ UNCHANGED in
          /\ cancelled' = IF by = "operator" THEN cancelled \cup {i} ELSE cancelled
       \/ /\ i \notin cancelled /\ Len(in[i]) < MaxQueue
          /\ in' = IF mine = i THEN [in EXCEPT ![i] = Append(@, pushing[i].assignment)] ELSE in
          /\ Done(by, i, TRUE) /\ UNCHANGED cancelled
    /\ UNCHANGED <<agentVars, out, status, hub, inventory, assigned, replaced, stood, trouble>>

\* An operation stores a new assignment and pushes to the session it finds.
Assign ==
    /\ operator.at = "idle" /\ Fault
    /\ assigned' = assigned + 1 /\ operator' = [at |-> "stored", conn |-> 0]
    /\ UNCHANGED <<agentVars, netVars, serve, cancelled, pushing, status, hub,
                   inventory, replaced, stood>>

PushAgent ==
    /\ operator.at = "stored"
    /\ operator' = IF hub = 0 THEN [at |-> "idle", conn |-> 0] ELSE [at |-> "push", conn |-> hub]
    /\ UNCHANGED <<agentVars, netVars, serve, cancelled, pushing, status, hub,
                   inventory, assigned, replaced, stood, trouble>>

\* The controller restarts: closeAll, and the database stays.
Restart ==
    /\ Fault /\ hub' = 0
    /\ serve' = [i \in Conns |-> IF mine = i THEN "ended" ELSE "none"]
    /\ cancelled' = {mine} \ {0}
    /\ pushing' = [i \in Conns |-> NoPush] /\ status' = [i \in Conns |-> None]
    /\ out' = [i \in Conns |-> <<>>] /\ stood' = [i \in Conns |-> {}]
    /\ operator' = [at |-> "idle", conn |-> 0] /\ replaced' = {}
    /\ UNCHANGED <<agentVars, in, inventory, assigned>>

-------------------------------------------------------------------------------
(***************************************************************************)
(* bindingStatus and judge: what the controller shows for the binding.     *)
(***************************************************************************)

\* A report of the containers cs, judged as waiting or failed for these reasons.
JudgeFailed(f) ==
    (IF f.health.failed = "" THEN {} ELSE {f.health.failed})
    \cup (IF f.container # 0 /\ f.health.outcome = "non-conforming" THEN {"conformance"} ELSE {})

JudgeWaiting(container, f) ==
    IF container = 0 THEN {"container"}
    ELSE (IF f.container # container THEN {"agent-report"}
          ELSE IF f.health.failed = "" /\ ~f.health.sockets THEN {"sockets"} ELSE {})
         \cup (IF f.health.token THEN {} ELSE {"token"})
         \cup (IF f.container = 0 \/ f.health.outcome = "" THEN {"conformance"} ELSE {})

Shown ==
    IF hub = 0 THEN "unknown"
    ELSE IF status[hub] = None \/ status[hub].assignment # assigned THEN "waiting"
    ELSE IF JudgeFailed(status[hub]) # {} THEN "failed"
    ELSE IF JudgeWaiting(inventory, status[hub]) # {} THEN "waiting" ELSE "ready"

-------------------------------------------------------------------------------
Reporter(i) == ReportPass(i) \/ ReportWoken(i) \/ ReportDone(i)

Serve(i) ==
    \/ ReceiveHello(i) \/ Publish(i)
    \/ HandleInventory(i) \/ HandleStatus(i) \/ Remove(i)
    \/ PushRead("loop", i) \/ PushSend("loop", i)

Operator == PushAgent \/ \E i \in Conns : PushRead("operator", i) \/ PushSend("operator", i)

Next ==
    \/ \E i \in Conns : Connect(i) \/ Notice(i) \/ Reporter(i) \/ Serve(i)
    \/ Drop \/ Closed \/ Reconcile \/ ApplyPolicySet
    \/ \E c \in Containers, h \in Healths : Change(c, h)
    \/ Assign \/ Operator \/ Restart

Spec == Init /\ [][Next]_vars

\* The goroutines of the agent and of the controller go on; the agent connects
\* again and reconciles at its ticker; the controller notices a dead connection
\* by its idle timeout.
Fairness ==
    /\ WF_vars(\E i \in Conns : Connect(i))
    /\ WF_vars(Closed) /\ WF_vars(ApplyPolicySet) /\ SF_vars(Reconcile) /\ WF_vars(Operator)
    /\ \A i \in Conns : /\ WF_vars(Notice(i)) /\ WF_vars(Serve(i))
                        /\ SF_vars(ReportPass(i)) /\ SF_vars(ReportWoken(i)) /\ SF_vars(ReportDone(i))

FairSpec == Spec /\ Fairness

-------------------------------------------------------------------------------
Facts == [assignment : 0 .. MaxTrouble + 1, container : Containers, health : Healths]

TypeOK ==
    /\ mine \in 0 .. MaxConns /\ fact \in Facts /\ wake \in BOOLEAN
    /\ reporter \in [Conns -> {"off", "pass", "wait"}]
    /\ \A i \in Conns : sent[i] = None \/ sent[i].fact \in Facts
    /\ serve \in [Conns -> {"none", "hello", "publish", "loop", "push", "remove", "ended"}]
    /\ hub \in 0 .. MaxConns
    /\ hub # 0 => serve[hub] \in {"loop", "push", "remove"}
    /\ \A i \in Conns : status[i] = None \/ status[i] \in Facts
    /\ \A i \in Conns : pushing[i].by \in Pushers => Wants(pushing[i].by, i)
    /\ assigned \in 1 .. MaxTrouble + 1

\* A binding is shown as ready only when the agent, in the session shown as
\* connected, once had the binding's stored assignment, the container of the
\* stored inventory, both sockets, a token and a conforming result at the same
\* time: no mixture of sessions, of assignments or of containers reads as ready
\* (bindingStatus, recordStatus, hub.serve).
ReadyWasTrue ==
    Shown = "ready" => <<assigned, inventory>> \in stood[hub]

\* What is shown is true, in states within their types whatever ends a session
\* (bindingStatus, hub.serve).
ShownIsTrue == TypeOK /\ ReadyWasTrue

\* Nothing older takes the place of something newer.  A session that was
\* replaced stores no inventory any more, although its handler may be running
\* (hub.serve closes the session before, whose saves fail then), and the agent
\* never goes back to an earlier assignment, whichever goroutines push policy
\* sets at the same time (pushMu).
NothingOlder ==
    [][/\ inventory' # inventory => \A i \in replaced : serve'[i] = serve[i]
       /\ fact'.assignment >= fact.assignment]_vars

\* The published session is the agent's, and the controller shows what the agent
\* now knows.
Settled ==
    /\ mine # 0 /\ hub = mine
    /\ fact.assignment = assigned /\ inventory = fact.container
    /\ status[hub] = fact

\* When the agent keeps its connection, the controller comes to show what the
\* agent knows and goes on to, although an old connection may take the place of
\* a new one and an old reporter its wake-up (hub.serve, reportBindingStatuses).
Settles == <>[]Settled

=============================================================================

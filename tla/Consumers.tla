------------------------------ MODULE Consumers ------------------------------
(***************************************************************************)
(* The agent's reconciliation (internal/agent/agent.go, restart.go) of the *)
(* container engine, the policy set and the consumer directories, and the  *)
(* controller's answer to an inventory (internal/controller/session.go).   *)
(*                                                                         *)
(* The main loop, the event watch, a finished recreate and the session     *)
(* reader each look at the engine or receive a message without agent.mu    *)
(* and then apply it under the lock, so what one of them applies may be    *)
(* older than what another applied before.  Engine calls, directories,     *)
(* sockets, cache writes and credentials may fail; the session may drop    *)
(* and the agent may exit at any step.                                     *)
(*                                                                         *)
(* Module Recreate has the journal, the engine calls and the reports of a  *)
(* recreate, module TokenLifecycle the unwrap, login, renewal and          *)
(* revocation of a token; here a recreate is a removal and a creation, and *)
(* the delivery of a credential installs a token or fails.                 *)
(***************************************************************************)
EXTENDS NoValue, Naturals, Sequences, FiniteSets, Functions

CONSTANTS
    Names,         \* container names
    Projects,      \* values of the compose label
    KeyOf,         \* the key of each binding, a record of its kind and value
    Users,         \* the containers that users of the engine create
    Enforced,      \* the bindings whose contract enforces by recreate
    MaxId,         \* bound: engine identifiers handed out
    MaxAssignment, \* bound: assignments of a binding
    MaxTrouble,    \* bound: changes by operators and users, failed calls, exits
    MaxLooks,      \* bound: reconciliations at the same time
    MaxSets        \* bound: policy sets on their way

Bindings == DOMAIN KeyOf
Ids == 1 .. MaxId
Procs == {"main", "other", "session"}

\* A container whose start failed on its mount source carries the contract.
Containers ==
    {c \in [name : Names, project : Projects \cup {None}, conforms : BOOLEAN,
            state : {"up", "failed"}] :
        c.state = "failed" => c.conforms}

\* The bounds leave room for the container and the assignments of the start.
ASSUME ConsumersAssumption ==
    /\ {MaxId, MaxAssignment, MaxTrouble, MaxLooks, MaxSets} \subseteq Nat
    /\ MaxId # 0 /\ MaxAssignment # 0
    /\ Users \subseteq Containers
    /\ IsFiniteSet(Bindings) /\ Enforced \subseteq Bindings
    /\ None \notin Bindings \cup Names \cup Projects /\ None \notin Nat
    /\ \A b, c \in Bindings : KeyOf[b] = KeyOf[c] => b = c

VARIABLES
    engine,     \* the engine's containers by identifier
    born,       \* last identifier handed out
    alive,      \* the agent process runs
    containers, \* agent.containers
    set,        \* agent.set: the assignment of each binding in it
    known,      \* agent.known
    observed,   \* agent.observed: per binding the identity, 0 without one, None
    consumers,  \* agent.consumers: binding, group and sockets per name
    job,        \* agent.recreating: per name the recreate in progress
    starting,   \* start workers of restart.go
    held,       \* per binding the assignment of the token held, 0 without one
    retrying,   \* bindings with a retry loop of the current generation
    look,       \* per process, where its reconciliation is
    cache,      \* the policy cache on disk
    link,       \* the session is up
    in,         \* messages to the agent
    assigned,   \* the controller's bindings
    deleting,   \* per binding, whether its deletion sent Unbind and is stored
    inventory,  \* the inventory the controller stored
    matched,    \* session.matched
    credentialed, \* session.credentialed
    enforced,   \* history: enforcements begun per binding
    excused,    \* history: bindings unbound, or known when a cache write failed
    kept,       \* history: bindings a policy set dropped during a recreate
    trouble

engineVars == <<engine, born>>
tokenVars == <<held, retrying>>
ctlVars == <<assigned, deleting, inventory, matched, credentialed>>
ghostVars == <<enforced, excused, kept>>
memVars == <<containers, set, known, observed, consumers, tokenVars>>
allVars == <<engineVars, alive, memVars, job, starting, look, cache, link, in,
          ctlVars, ghostVars, trouble>>

\* A failure, or a change by an operator or a user of the engine.
Fault == trouble < MaxTrouble /\ trouble' = trouble + 1
Change == Fault
NoFault == UNCHANGED trouble

Empty == [x \in {} |-> None]
NoJob == [at |-> "none", binding |-> None, id |-> 0, project |-> None, new |-> 0]
NoConsumer == [binding |-> None, group |-> 0, sockets |-> FALSE]
Idle == [at |-> "idle", todo |-> {}, got |-> Empty, blind |-> {},
         rest |-> {}, retire |-> {}, targets |-> {}]

\* The access group of an assignment's contract: a new assignment changes it.
GroupOf(assignment) == assignment % 2

-------------------------------------------------------------------------------
(***************************************************************************)
(* Keys of a container, and the binding that governs it.                   *)
(***************************************************************************)

\* The compose service comes before the name.
ComposeKey(c) == [kind |-> "compose", value |-> c.project]
NameKey(n) == [kind |-> "name", value |-> n]

\* The binding of bs with that key.
BoundTo(key, bs) ==
    IF \E b \in bs : KeyOf[b] = key THEN CHOOSE b \in bs : KeyOf[b] = key ELSE None

\* The binding of bs on the container's earliest key.
Governing(c, bs) ==
    IF c.project # None /\ \E b \in bs : KeyOf[b] = ComposeKey(c)
    THEN BoundTo(ComposeKey(c), bs)
    ELSE BoundTo(NameKey(c.name), bs)

\* The containers of cs that b governs.
Governed(cs, bs, b) == {i \in DOMAIN cs : Governing(cs[i], bs) = b}

\* The controller's view of the same: session.go, from a reported inventory.
MatchBindings(cs, bs) == {b \in bs : Governed(cs, bs, b) # {}}

CarriedBindings(cs, bs) ==
    MatchBindings(cs, bs) \cup {b \in bs : KeyOf[b].kind = "name"}

\* The engine has one container of a name, and so has a list of its containers.
\* An agent that sees the new one before the event of the old one has two.
Named(cs, n) == {i \in DOMAIN cs : cs[i].name = n}

-------------------------------------------------------------------------------
(***************************************************************************)
(* applyLocked.  cs and s are the containers and the policy set to apply,  *)
(* bad what fails on the file system while it is applied.                  *)
(***************************************************************************)

Troubles == {"none", "open", "listen", "group", "cache"}

Recreating == {n \in Names : job[n].at # "none"}

\* The orders in which the map of the containers may be walked, as the place of
\* each container, and the first and the last of some containers in an order.
Orders(cs) == Injection(DOMAIN cs, 1 .. Cardinality(DOMAIN cs))
FirstOf(is, o) == CHOOSE i \in is : \A j \in is : o[i] <= o[j]
LastOf(is, o) == CHOOSE i \in is : \A j \in is : o[j] <= o[i]

\* The binding of the directory of a name: the one that governs the last
\* container of that name, before a binding on the name itself; None without
\* either.
DesiredAt(cs, o, s, n) ==
    LET is == {i \in Named(cs, n) : Governing(cs[i], DOMAIN s) # None}
    IN  IF is # {} THEN Governing(cs[LastOf(is, o)], DOMAIN s)
        ELSE BoundTo(NameKey(n), DOMAIN s)

\* An existing consumer keeps its sockets, also one that never got them, and
\* its group when the new one cannot be assigned.
EnsureConsumer(old, b, group, bad) ==
    IF old # NoConsumer
    THEN [old EXCEPT !.binding = b, !.group = IF bad = "group" THEN @ ELSE group]
    ELSE IF bad = "open" THEN NoConsumer
    ELSE [binding |-> b, group |-> group, sockets |-> bad # "listen"]

ConsumersAfter(cs, o, s, bad) ==
    [n \in Names |->
        LET b == DesiredAt(cs, o, s, n)
        IN  IF b # None THEN EnsureConsumer(consumers[n], b, GroupOf(s[b]), bad)
            ELSE IF n \in Recreating THEN consumers[n]
            ELSE NoConsumer]

RecreatingBinding(b, cons) == \E n \in Recreating : cons[n].binding = b

\* observeBindingsLocked, on tokens h and retry loops r, with the containers gov
\* that each binding governs.  The identity of a name binding is the container
\* of it that is walked first.
Identity(gov, o, b) ==
    IF gov[b] # {} /\ KeyOf[b].kind = "name" THEN FirstOf(gov[b], o) ELSE 0

Lost(gov, cons) ==
    {b \in Bindings : observed[b] # None /\ gov[b] = {} /\ ~RecreatingBinding(b, cons)}

Revoked(gov, s, cons) == {b \in Lost(gov, cons) \cap DOMAIN s : KeyOf[b].kind = "name"}

Replaced(gov, o, cons) ==
    {b \in Bindings : /\ gov[b] # {} /\ observed[b] \notin {None, Identity(gov, o, b)}
                      /\ ~RecreatingBinding(b, cons)}

FirstSeen(gov, h) == {b \in Bindings : gov[b] # {} /\ observed[b] = None /\ h[b] = 0}

ObserveBindings(gov, o, s, cons, h, r) ==
    /\ observed' = [b \in Bindings |-> IF gov[b] # {} THEN Identity(gov, o, b)
                                       ELSE IF b \in Lost(gov, cons) THEN None ELSE observed[b]]
    /\ held' = [b \in Bindings |->
          IF b \in Revoked(gov, s, cons) \cup Replaced(gov, o, cons) \cup FirstSeen(gov, h)
          THEN 0 ELSE h[b]]
    /\ retrying' = (r \ Revoked(gov, s, cons)) \cup Replaced(gov, o, cons) \cup FirstSeen(gov, h)

\* The directory and both sockets of the container are its binding's.
ReadyToStart(c, s, cons) ==
    LET b == Governing(c, DOMAIN s)
    IN  /\ b # None /\ c.name \notin Recreating
        /\ cons[c.name].binding = b /\ cons[c.name].sockets
        /\ cons[c.name].group = GroupOf(s[b])

\* The time since the last attempt is left out: an attempt may follow another.
StartFailedMounts(cs, s, cons) ==
    starting' = [i \in Ids |->
        IF /\ i \in DOMAIN cs /\ cs[i].state = "failed"
           /\ ReadyToStart(cs[i], s, cons) /\ starting[i] = "none"
        THEN "begun" ELSE starting[i]]

ApplyLocked(cs, s, h, r, bad) ==
    \E o \in Orders(cs) : \E cons \in {ConsumersAfter(cs, o, s, bad)},
                           gov \in {[b \in Bindings |-> Governed(cs, DOMAIN s, b)]} :
        /\ consumers' = cons
        /\ ObserveBindings(gov, o, s, cons, h, r)
        /\ StartFailedMounts(cs, s, cons)
        /\ containers' = cs /\ set' = s

\* At most one step of the file system fails at a time, and it is one that is
\* taken: a directory is opened, its group changed, or the cache written.
Trouble(bad, cs, s) ==
    /\ IF bad = "none" THEN NoFault ELSE Fault
    /\ bad \in {"open", "listen", "group"} =>
          \E n \in Names, o \in Orders(cs) :
                          LET b == DesiredAt(cs, o, s, n)
                          IN  /\ b # None
                              /\ IF bad = "group"
                                 THEN consumers[n] # NoConsumer /\ consumers[n].group # GroupOf(s[b])
                                 ELSE consumers[n] = NoConsumer

\* The bindings that now govern a container for the first time.  They are
\* saved before anything is recreated on their behalf.
FreshBindings(s) == {b \in DOMAIN s : observed'[b] # None} \ known

Targets(cs, s, fresh) ==
    {[binding |-> Governing(cs[i], DOMAIN s), id |-> i, name |-> cs[i].name] :
        i \in {j \in DOMAIN cs : Governing(cs[j], DOMAIN s) \in fresh \cap Enforced /\ ~cs[j].conforms}}

\* Mutant: the binding is known in memory only.
FaultyFirstObservations(cs, s, fresh, base, written) ==
    /\ known' = known \cup fresh
    /\ cache' = base
    /\ enforced' = [b \in Bindings |->
          IF enforced[b] < 2 /\ (\E t \in Targets(cs, s, fresh) : t.binding = b)
          THEN enforced[b] + 1 ELSE enforced[b]]
    /\ excused' = IF written THEN excused ELSE excused \cup known'

\* saveCacheLocked writes the policy set and the known bindings as one file,
\* which replaces the one before.
SavedCache(s, ids) == [set |-> s, known |-> ids]

\* base is the cache without this write; written says whether it succeeds.
FirstObservations(cs, s, fresh, base, written) ==
    /\ known' = known \cup fresh
    /\ cache' = IF fresh # {} /\ written THEN SavedCache(s, known') ELSE base
    /\ enforced' = [b \in Bindings |->
          IF enforced[b] < 2 /\ (\E t \in Targets(cs, s, fresh) : t.binding = b)
          THEN enforced[b] + 1 ELSE enforced[b]]
    /\ excused' = IF written THEN excused ELSE excused \cup known'

-------------------------------------------------------------------------------
(***************************************************************************)
(* Reconciliations.  The field at of a process is "list" before it lists   *)
(* the containers, "look" while it inspects them, "send" before it sends   *)
(* the inventory, and "enforce" while it starts recreates or retires.      *)
(***************************************************************************)

At(p, at) == look[p].at = at
Go(p, r) == look' = [look EXCEPT ![p] = r]

\* A process with nothing left to recreate or retire is done.  The first
\* reconciliation lets the event watch and the session start.
Ends(p, r) ==
    IF r.targets = {} /\ r.retire = {}
    THEN Go(p, Idle) /\ alive' = IF alive = "boot" THEN "up" ELSE alive
    ELSE Go(p, [r EXCEPT !.at = "enforce", !.got = Empty]) /\ UNCHANGED alive

Busy == {p \in Procs : ~At(p, "idle")}

ConsumersInit ==
    /\ engine \in {Empty} \cup [{1} -> Users]
    /\ born = Cardinality(DOMAIN engine)
    /\ alive = "down"
    /\ containers = Empty /\ set = Empty /\ known = {}
    /\ observed = [b \in Bindings |-> None]
    /\ consumers = [n \in Names |-> NoConsumer]
    /\ job = [n \in Names |-> NoJob]
    /\ starting = [i \in Ids |-> "none"]
    /\ held = [b \in Bindings |-> 0] /\ retrying = {}
    /\ look = [p \in Procs |-> Idle]
    /\ cache = [set |-> Empty, known |-> {}]
    /\ link = FALSE /\ in = <<>>
    /\ assigned = [b \in Bindings |-> 1]
    /\ deleting = [b \in Bindings |-> "none"] /\ inventory = Empty
    /\ matched = {} /\ credentialed = Empty
    /\ enforced = [b \in Bindings |-> 0] /\ excused = {} /\ kept = {}
    /\ trouble = 0

agentVars == <<alive, memVars, job, starting, look, cache>>
netVars == <<link, in>>

\* The last policy set is restored, with the bindings known then.
LoadCache == set' = cache.set /\ known' = cache.known

\* Run: the cache is loaded, and the first reconciliation comes before the
\* event watch and the session.
Start ==
    /\ alive = "down" /\ alive' = "boot"
    /\ LoadCache
    /\ Go("main", [Idle EXCEPT !.at = "list"])
    /\ UNCHANGED <<engineVars, containers, observed, consumers, tokenVars, job,
                   starting, cache, netVars, ctlVars, ghostVars, trouble>>

Inspecting == [Idle EXCEPT !.at = "look", !.todo = DOMAIN engine]

\* fullReconcile lists the engine's containers: at the ticker of the main loop,
\* for a new event stream, which follows a broken one, and where the process
\* came to it.  When the engine does not answer nothing changes, except at the
\* start, where name bindings need their mount sources.
List(p) ==
    /\ \/ /\ alive = "up" /\ At(p, "idle") /\ Cardinality(Busy) < MaxLooks
          /\ \/ p = "main" /\ NoFault
             \/ p = "other" /\ Fault
       \/ At(p, "list") /\ NoFault
    /\ Go(p, Inspecting)
    /\ UNCHANGED <<engineVars, alive, memVars, job, starting, cache, netVars, ctlVars,
                   ghostVars>>

ListFails(p) ==
    /\ At(p, "list") /\ Fault
    /\ Go(p, Idle)
    /\ IF alive = "boot" THEN ApplyLocked(containers, set, held, retrying, "none") /\ alive' = "up"
       ELSE UNCHANGED <<alive, containers, set, observed, consumers, tokenVars, starting>>
    /\ UNCHANGED <<engineVars, known, job, cache, netVars, ctlVars, ghostVars>>

\* reconcileContainer, in the main loop: the container of an event is inspected
\* and the others stay as they were seen.  When the inspect fails nothing changes.
\* Events may come late, twice, or not at all.
Event(i) ==
    /\ alive = "up" /\ At("main", "idle") /\ Cardinality(Busy) < MaxLooks /\ i <= born
    /\ \/ NoFault /\ Go("main", [Idle EXCEPT !.at = "look", !.rest = Ids \ {i},
                                  !.got = [j \in {i} \cap DOMAIN engine |-> engine[j]]])
       \/ Fault /\ UNCHANGED look
    /\ UNCHANGED <<engineVars, alive, memVars, job, starting, cache, netVars, ctlVars,
                   ghostVars>>

\* The inspect of one container: what it is, that it does not exist, or an error.
Inspect(p, i) ==
    /\ At(p, "look") /\ i \in look[p].todo
    /\ LET rest == [look[p] EXCEPT !.todo = @ \ {i}]
       IN  \/ /\ i \in DOMAIN engine /\ NoFault
              /\ Go(p, [rest EXCEPT !.got = [j \in DOMAIN @ \cup {i} |->
                                                IF j = i THEN engine[i] ELSE @[j]]])
           \/ i \notin DOMAIN engine /\ NoFault /\ Go(p, rest)
           \/ Fault /\ Go(p, [rest EXCEPT !.blind = @ \cup {i}])
    /\ UNCHANGED <<engineVars, alive, memVars, job, starting, cache, netVars, ctlVars,
                   ghostVars>>

\* What the reconciliation makes of agent.containers.  A listed container whose
\* inspect failed keeps its last observation, and so does one not asked for.
Seen(p) ==
    LET l == look[p]
        stay == (l.blind \cup l.rest) \cap DOMAIN containers
    IN  [i \in stay \cup DOMAIN l.got |-> IF i \in stay THEN containers[i] ELSE l.got[i]]

\* sendInventory asks for the session and for recreates in progress.
InventoryDue == link /\ Recreating = {}

ThenInventory(p, r) ==
    IF InventoryDue THEN Go(p, [r EXCEPT !.at = "send"]) /\ UNCHANGED alive ELSE Ends(p, r)

Reconcile(p) ==
    /\ At(p, "look") /\ look[p].todo = {}
    /\ UNCHANGED <<engineVars, job, netVars, ctlVars, kept>>
    /\ \E bad \in Troubles, cs \in {Seen(p)} :
            /\ Trouble(bad, cs, set)
            /\ ApplyLocked(cs, set, held, retrying, bad)
            /\ \E fresh \in {FreshBindings(set)} :
                   /\ bad = "cache" => fresh # {}
                   /\ FirstObservations(cs, set, fresh, cache, bad # "cache")
                   /\ ThenInventory(p, [Idle EXCEPT !.targets = Targets(cs, set, fresh)])

\* startRecreate of a container, unless its name is being recreated already.
StartRecreate(t) ==
    IF t.name \in Recreating THEN UNCHANGED job
    ELSE job' = [job EXCEPT ![t.name] =
                    [NoJob EXCEPT !.at = "begun", !.binding = t.binding, !.id = t.id]]

\* The targets were computed under the lock and are recreated after it.
Enforce(p, t) ==
    /\ At(p, "enforce") /\ t \in look[p].targets
    /\ StartRecreate(t)
    /\ Ends(p, [look[p] EXCEPT !.targets = @ \ {t}])
    /\ UNCHANGED <<engineVars, memVars, starting, cache, netVars, ctlVars,
                   ghostVars, trouble>>

-------------------------------------------------------------------------------
(***************************************************************************)
(* The engine and its users, the recreate workers and the start workers.   *)
(***************************************************************************)

Without(f, i) == [j \in DOMAIN f \ {i} |-> f[j]]

UserCreates(c) ==
    /\ Change /\ born < MaxId /\ Named(engine, c.name) = {}
    /\ born' = born + 1
    /\ engine' = [i \in DOMAIN engine \cup {born'} |-> IF i = born' THEN c ELSE engine[i]]
    /\ UNCHANGED <<agentVars, netVars, ctlVars, ghostVars>>

UserRemoves(i) ==
    /\ Change /\ i \in DOMAIN engine
    /\ engine' = Without(engine, i)
    /\ UNCHANGED <<born, agentVars, netVars, ctlVars, ghostVars>>

\* The worker removes the container it inspects, or fails before or at that.
RecreateRemove(n) ==
    /\ job[n].at = "begun"
    /\ \/ /\ job[n].id \in DOMAIN engine /\ NoFault
          /\ engine' = Without(engine, job[n].id)
          /\ job' = [job EXCEPT ![n].at = "removed", ![n].project = engine[job[n].id].project]
       \/ /\ (job[n].id \notin DOMAIN engine /\ NoFault) \/ Fault
          /\ job' = [job EXCEPT ![n].at = "failed"]
          /\ UNCHANGED engine
    /\ UNCHANGED <<born, alive, memVars, starting, look, cache, netVars, ctlVars, ghostVars>>

\* It creates the container again, with the contract and the same labels.
RecreateCreate(n) ==
    /\ job[n].at = "removed"
    /\ \/ /\ born < MaxId /\ Named(engine, n) = {} /\ NoFault
          /\ born' = born + 1
          /\ engine' = [i \in DOMAIN engine \cup {born'} |->
                          IF i = born' THEN [name |-> n, project |-> job[n].project,
                                             conforms |-> TRUE, state |-> "up"]
                          ELSE engine[i]]
          /\ job' = [job EXCEPT ![n].at = "created", ![n].new = born']
       \/ /\ Fault \/ ((Named(engine, n) # {} \/ born = MaxId) /\ NoFault)
          /\ job' = [job EXCEPT ![n].at = "failed"]
          /\ UNCHANGED <<engine, born>>
    /\ UNCHANGED <<alive, memVars, starting, look, cache, netVars, ctlVars, ghostVars>>

\* The replacement inherits the token; then the worker reconciles.
\* Mutant: the mark of a failed recreate stays.
FaultyRecreateFinish(n) ==
    /\ job[n].at \in {"created", "failed"} /\ At("other", "idle") /\ Cardinality(Busy) < MaxLooks
    /\ job' = [job EXCEPT ![n] = IF job[n].at = "failed" THEN [NoJob EXCEPT !.at = "stuck"] ELSE NoJob]
    /\ Go("other", [Idle EXCEPT !.at = "list"])
    /\ UNCHANGED <<engineVars, alive, containers, set, known, observed, consumers, tokenVars, starting,
                   cache, netVars, ctlVars, ghostVars, trouble>>

RecreateFinish(n) ==
    /\ job[n].at \in {"created", "failed"} /\ At("other", "idle") /\ Cardinality(Busy) < MaxLooks
    /\ LET b == job[n].binding
       IN  observed' = IF /\ observed[b] # None /\ job[n].at = "created" /\ KeyOf[b].kind = "name"
                       THEN [observed EXCEPT ![b] = job[n].new] ELSE observed
    /\ job' = [job EXCEPT ![n] = NoJob]
    /\ Go("other", [Idle EXCEPT !.at = "list"])
    /\ UNCHANGED <<engineVars, alive, containers, set, known, consumers, tokenVars, starting,
                   cache, netVars, ctlVars, ghostVars, trouble>>

\* startIfStillFailed decides again, on a fresh inspect and under the lock.
StartDecide(i) ==
    /\ starting[i] = "begun"
    /\ starting' = [starting EXCEPT ![i] =
          IF /\ i \in DOMAIN engine /\ engine[i].state = "failed"
             /\ ReadyToStart(engine[i], set, consumers)
          THEN "go" ELSE "none"]
    /\ UNCHANGED <<engineVars, alive, memVars, job, look, cache, netVars, ctlVars, ghostVars,
                   trouble>>

StartContainer(i) ==
    /\ starting[i] = "go"
    /\ starting' = [starting EXCEPT ![i] = "none"]
    /\ \/ /\ i \in DOMAIN engine /\ NoFault
          /\ engine' = [engine EXCEPT ![i].state = "up"]
       \/ /\ (i \notin DOMAIN engine /\ NoFault) \/ Fault
          /\ UNCHANGED engine
    /\ UNCHANGED <<born, alive, memVars, job, look, cache, netVars, ctlVars, ghostVars>>

Forgotten ==
    /\ containers' = Empty /\ set' = Empty /\ known' = {}
    /\ observed' = [b \in Bindings |-> None]
    /\ consumers' = [n \in Names |-> NoConsumer]
    /\ job' = [n \in Names |-> NoJob]
    /\ starting' = [i \in Ids |-> "none"]
    /\ held' = [b \in Bindings |-> 0] /\ retrying' = {}
    /\ look' = [p \in Procs |-> Idle]
    /\ link' = FALSE /\ in' = <<>>
    /\ matched' = {} /\ credentialed' = Empty
    /\ kept' = {}
    /\ alive' = "down"

\* The agent exits: its tokens are dropped and its sockets closed.
Exit ==
    /\ alive # "down" /\ Fault /\ Forgotten
    /\ UNCHANGED <<engineVars, cache, assigned, deleting, inventory, enforced, excused>>

\* The host boots: /run is empty, and the engine fails to start the containers
\* that mount a consumer directory before the agent runs.
Reboot ==
    /\ alive # "down" /\ Fault /\ Forgotten
    /\ engine' = [i \in DOMAIN engine |->
          IF engine[i].conforms THEN [engine[i] EXCEPT !.state = "failed"] ELSE engine[i]]
    /\ UNCHANGED <<born, cache, assigned, deleting, inventory, enforced, excused>>

-------------------------------------------------------------------------------
(***************************************************************************)
(* Tokens, and the messages the agent receives.                            *)
(***************************************************************************)

InvalidateTo(bs, asked) ==
    /\ held' = [b \in Bindings |-> IF b \in bs THEN 0 ELSE held[b]]
    /\ retrying' = (retrying \ bs) \cup asked

\* connectOnce: the new session starts with an inventory.
Connect ==
    /\ alive = "up" /\ ~link /\ At("session", "idle")
    /\ link' = TRUE /\ in' = <<>>
    /\ matched' = {} /\ credentialed' = Empty
    /\ Go("session", IF Recreating = {} THEN [Idle EXCEPT !.at = "send"] ELSE Idle)
    /\ UNCHANGED <<engineVars, alive, memVars, job, starting, cache, assigned, deleting,
                   inventory, ghostVars, trouble>>

\* The session ends.  What a reconciliation still sends, it sends to the old one.
Drop ==
    /\ link /\ Fault
    /\ link' = FALSE /\ in' = <<>>
    /\ matched' = {} /\ credentialed' = Empty
    /\ look' = [p \in Procs |->
          IF ~At(p, "send") THEN look[p]
          ELSE IF look[p].targets = {} THEN Idle
          ELSE [look[p] EXCEPT !.at = "enforce", !.got = Empty]]
    /\ UNCHANGED <<engineVars, alive, memVars, job, starting, cache, assigned, deleting,
                   inventory, ghostVars>>

Receiving(type) ==
    /\ link /\ At("session", "idle") /\ in # <<>> /\ Head(in).type = type
    /\ in' = Tail(in)

\* The bindings that are new or have a new assignment.
Superseded(s) == {b \in DOMAIN s : b \notin DOMAIN set \/ set[b] # s[b]}

ApplyPolicySet ==
    /\ Receiving("set")
    /\ LET s == Head(in).set
           new == Superseded(s)
           h == [b \in Bindings |-> IF b \in new THEN 0 ELSE held[b]]
           r == (retrying \ new) \cup {b \in new : observed[b] # None}
           dropped == DOMAIN set \ DOMAIN s
           spared == {b \in dropped : RecreatingBinding(b, consumers)}
       IN  \E bad \in Troubles :
            /\ Trouble(bad, containers, s)
            /\ ApplyLocked(containers, s, h, r, bad)
            /\ LET fresh == FreshBindings(s)
               IN  /\ FirstObservations(containers, s, fresh,
                          IF bad = "cache" THEN cache ELSE SavedCache(s, known), bad # "cache")
                   /\ Ends("session", [Idle EXCEPT !.retire = dropped \ spared,
                                                   !.targets = Targets(containers, s, fresh)])
            /\ kept' = (kept \ DOMAIN s) \cup spared
    /\ UNCHANGED <<engineVars, job, link, ctlVars>>

\* creds.retire after the lock is released.
\* Mutant: the token of a retired binding is kept.
FaultyRetire(b) ==
    /\ At("session", "enforce") /\ b \in look["session"].retire
    /\ Ends("session", [look["session"] EXCEPT !.retire = @ \ {b}])
    /\ UNCHANGED <<engineVars, containers, set, known, observed, consumers, tokenVars, job,
                   starting, cache, netVars, ctlVars, ghostVars, trouble>>

Retire(b) ==
    /\ At("session", "enforce") /\ b \in look["session"].retire
    /\ InvalidateTo({b}, {})
    /\ kept' = kept \ {b}
    /\ Ends("session", [look["session"] EXCEPT !.retire = @ \ {b}])
    /\ UNCHANGED <<engineVars, containers, set, known, observed, consumers, job, starting,
                   cache, netVars, ctlVars, enforced, excused, trouble>>

Unbind ==
    /\ Receiving("unbind")
    /\ LET b == Head(in).binding
       IN  /\ IF b \in DOMAIN set
              THEN LET s == Without(set, b)
                   IN  \E bad \in Troubles :
                        /\ Trouble(bad, containers, s)
                        /\ known' = known \ {b}
                        /\ cache' = IF bad = "cache" THEN cache ELSE SavedCache(s, known')
                        /\ ApplyLocked(containers, s, held, retrying, bad)
              ELSE /\ NoFault
                   /\ UNCHANGED <<containers, set, known, observed, consumers, tokenVars,
                                  starting, cache>>
           /\ excused' = excused \cup {b}
           /\ Go("session", [Idle EXCEPT !.at = "enforce", !.retire = {b}])
    /\ UNCHANGED <<engineVars, alive, job, link, ctlVars, enforced, kept>>

\* The delivery of a credential for the current assignment of a binding that
\* has a container installs a token, or fails and asks again.
ReceiveCredential ==
    /\ Receiving("credential")
    /\ LET b == Head(in).binding
       IN  IF b \in DOMAIN set /\ set[b] = Head(in).assignment /\ observed[b] # None
           THEN \/ held' = [held EXCEPT ![b] = set[b]] /\ retrying' = retrying \ {b} /\ NoFault
                \/ retrying' = retrying \cup {b} /\ Fault /\ UNCHANGED held
           ELSE UNCHANGED <<tokenVars, trouble>>
    /\ UNCHANGED <<engineVars, alive, containers, set, known, observed, consumers, job,
                   starting, look, cache, link, ctlVars, ghostVars>>

\* requestRecreate: every container the binding governs.
RequestRecreate ==
    /\ Receiving("recreate")
    /\ LET b == Head(in).binding
       IN  Ends("session", [Idle EXCEPT !.targets =
              {[binding |-> b, id |-> i, name |-> containers[i].name] :
                  i \in IF b \in DOMAIN set THEN Governed(containers, DOMAIN set, b) ELSE {}}])
    /\ UNCHANGED <<engineVars, memVars, job, starting, cache, link, ctlVars,
                   ghostVars, trouble>>

-------------------------------------------------------------------------------
(***************************************************************************)
(* The controller.                                                         *)
(***************************************************************************)

SetMessage(s) == [type |-> "set", set |-> s]
CredentialMessage(b, a) == [type |-> "credential", binding |-> b, assignment |-> a]

\* push, from inventory cs and bindings as: the policy set, and a credential for
\* each matched binding that has none, unless OpenBao fails.
Push(cs, as, issuing) ==
    LET ms == MatchBindings(cs, DOMAIN as)
        issued == {b \in ms : issuing /\ (b \notin DOMAIN credentialed \/ credentialed[b] # as[b])}
    IN  /\ matched' = ms
        /\ credentialed' = [b \in issued \cup (DOMAIN credentialed \cap ms) |->
                                IF b \in issued THEN as[b] ELSE credentialed[b]]
        /\ \E order \in Bijection(1 .. Cardinality(issued), issued) :
            in' = in \o <<SetMessage(Restrict(as, CarriedBindings(cs, DOMAIN as)))>>
                     \o [k \in DOMAIN order |-> CredentialMessage(order[k], as[order[k]])]

Room == Cardinality({k \in DOMAIN in : in[k].type = "set"}) < MaxSets

Succeeds(ok) == IF ok THEN NoFault ELSE Fault

\* sendInventory reads the containers under the lock again.  The controller
\* stores the inventory, or not, and pushes in either case; a message that
\* waits on its way is one that is sent later.
SendInventory(p) ==
    /\ At(p, "send") /\ (Room \/ p = "session")
    /\ \E stored, issuing \in BOOLEAN :
        /\ Succeeds(stored /\ issuing)
        /\ inventory' = IF stored THEN containers ELSE inventory
        /\ Push(inventory', assigned, issuing)
    /\ Ends(p, look[p])
    /\ UNCHANGED <<engineVars, memVars, job, starting, cache, link, assigned, deleting, ghostVars>>

\* A retry loop asks for a credential, which a matched binding gets.
HandleRequest(b) ==
    /\ link /\ b \in retrying
    /\ \A k \in DOMAIN in : in[k].type = "credential" => in[k].binding # b
    /\ b \in DOMAIN assigned \cap matched
    /\ in' = Append(in, CredentialMessage(b, assigned[b]))
    /\ credentialed' = [c \in DOMAIN credentialed \cup {b} |->
                          IF c = b THEN assigned[b] ELSE credentialed[c]]
    /\ UNCHANGED <<engineVars, agentVars, link, assigned, deleting, inventory, matched,
                   ghostVars, trouble>>

\* An operator assigns a policy to a binding, old or new.
Assign(b) ==
    /\ Change /\ deleting[b] = "none"
    /\ LET a == IF b \in DOMAIN assigned THEN assigned[b] + 1 ELSE 1
       IN  /\ a <= MaxAssignment
           /\ assigned' = [c \in DOMAIN assigned \cup {b} |-> IF c = b THEN a ELSE assigned[c]]
    /\ IF link THEN Room /\ \E issuing \in BOOLEAN : Push(inventory, assigned', issuing)
       ELSE UNCHANGED <<in, matched, credentialed>>
    /\ UNCHANGED <<engineVars, agentVars, link, deleting, inventory, ghostVars>>

\* DeleteBinding tells the agent first, and stores the deletion later.
DeleteBinding(b) ==
    /\ Change /\ b \in DOMAIN assigned /\ deleting[b] = "none"
    /\ deleting' = [deleting EXCEPT ![b] = "sent"]
    /\ in' = IF link THEN Append(in, [type |-> "unbind", binding |-> b]) ELSE in
    /\ UNCHANGED <<engineVars, agentVars, link, assigned, inventory, matched, credentialed,
                   ghostVars>>

BindingDeleted(b) ==
    /\ deleting[b] = "sent" /\ deleting' = [deleting EXCEPT ![b] = "stored"]
    /\ assigned' = Without(assigned, b)
    /\ IF link THEN Room /\ \E ok \in BOOLEAN : Succeeds(ok) /\ Push(inventory, assigned', ok)
       ELSE NoFault /\ UNCHANGED <<in, matched, credentialed>>
    /\ UNCHANGED <<engineVars, agentVars, link, inventory, ghostVars>>

AskRecreate(b) ==
    /\ Change /\ link /\ b \in DOMAIN assigned /\ Room
    /\ in' = Append(in, [type |-> "recreate", binding |-> b])
    /\ UNCHANGED <<engineVars, agentVars, link, ctlVars, ghostVars>>

-------------------------------------------------------------------------------
Looking(p) ==
    \/ List(p) \/ Reconcile(p) \/ (\E i \in Ids : Inspect(p, i))
    \/ SendInventory(p)
    \/ \E t \in look[p].targets : Enforce(p, t)

Working(n) == RecreateRemove(n) \/ RecreateCreate(n) \/ RecreateFinish(n)

Starting(i) == StartDecide(i) \/ StartContainer(i)

Receive ==
    \/ ApplyPolicySet \/ Unbind \/ ReceiveCredential \/ RequestRecreate
    \/ \E b \in Bindings : Retire(b)

Controller == \E b \in Bindings : HandleRequest(b)

Changes ==
    \/ \E c \in Users : UserCreates(c)
    \/ \E i \in Ids : UserRemoves(i)
    \/ \E b \in Bindings : Assign(b) \/ DeleteBinding(b) \/ AskRecreate(b)

ConsumersNext ==
    \/ Start \/ Exit \/ Reboot
    \/ \E p \in Procs : Looking(p) \/ ListFails(p)
    \/ \E i \in Ids : Event(i)
    \/ \E n \in Names : Working(n)
    \/ \E i \in Ids : Starting(i)
    \/ \E b \in Bindings : BindingDeleted(b)
    \/ Connect \/ Drop \/ Receive \/ Controller \/ Changes

ConsumersSpec == ConsumersInit /\ [][ConsumersNext]_allVars

\* Every goroutine that can go on does.  The main loop chooses at random between
\* its ticker and the events that wait, so the ticker has its turn, and so has
\* one that waits for room on the way to the controller while others send.
Fairness ==
    /\ WF_allVars(Start) /\ WF_allVars(Connect) /\ WF_allVars(Receive)
    /\ SF_allVars(List("main"))
    /\ WF_allVars(Looking("main")) /\ WF_allVars(Looking("session")) /\ SF_allVars(Looking("other"))
    /\ WF_allVars(\E n \in Names : Working(n))
    /\ WF_allVars(\E i \in Ids : Starting(i))
    /\ WF_allVars(\E b \in Bindings : HandleRequest(b) \/ BindingDeleted(b))

ConsumersFairSpec == ConsumersSpec /\ Fairness

-------------------------------------------------------------------------------
\* The agent's memory, its cache and the controller's session stay within
\* their types whatever fails.
ConsumersTypeOK ==
    /\ DOMAIN engine \subseteq 1 .. born /\ \A i \in DOMAIN engine : engine[i] \in Containers
    /\ alive \in {"down", "boot", "up"}
    /\ DOMAIN containers \subseteq Ids /\ \A i \in DOMAIN containers : containers[i] \in Containers
    /\ DOMAIN set \subseteq Bindings /\ \A b \in DOMAIN set : set[b] \in 1 .. MaxAssignment
    /\ known \subseteq Bindings /\ retrying \subseteq Bindings
    /\ observed \in [Bindings -> 0 .. MaxId \cup {None}]
    /\ consumers \in [Names -> {NoConsumer} \cup [binding : Bindings, group : 0 .. 1, sockets : BOOLEAN]]
    /\ held \in [Bindings -> 0 .. MaxAssignment]
    /\ \A p \in Procs : look[p].at \in {"idle", "list", "look", "send", "enforce"}
    /\ DOMAIN cache.set \subseteq Bindings /\ cache.known \subseteq Bindings
    /\ matched \subseteq Bindings /\ DOMAIN credentialed \subseteq matched

\* The agent holds a token, or is about to, for a name binding of its policy set
\* only while it observes a container of the binding, although observations,
\* policy sets and credentials arrive in any order: no live token waits for a
\* consumer (observeBindingsLocked, receiveCredential).
NoIdleToken ==
    \A b \in DOMAIN set :
        KeyOf[b].kind = "name" /\ held[b] # 0 => observed[b] # None

\* Once its messages are handled, the agent holds tokens for no binding outside
\* its policy set, except one that a policy set dropped while the container of
\* the binding was recreated (applyPolicySet, unbind).
RetiredHoldNothing ==
    \A b \in Bindings \ DOMAIN set :
        held[b] # 0 =>
            b \in kept \/ b \in look["session"].retire

\* The tokens the agent holds are wanted: by a binding of its policy set that has
\* a container, with every other variable within its type (applyObservation,
\* applyPolicySet, receiveCredential).
TokensWanted == ConsumersTypeOK /\ NoIdleToken /\ RetiredHoldNothing

\* A binding asks for the recreation of its non-conforming containers once, when
\* it first governs one, also across restarts, unless the binding was unbound or
\* the policy cache could not be written (firstObservationsLocked).
EnforcedOnce == \A b \in Bindings : enforced[b] <= 1 \/ b \in excused

\* When containers, bindings and failures stop changing, the agent comes to know
\* the containers the engine has, has the policy set the controller's bindings
\* and those containers ask for, holds a token of the current assignment for
\* every binding with a container, and has started the containers whose start
\* failed on a mount source that is ready now.
Agreed ==
    /\ alive = "up" /\ link /\ containers = engine
    /\ set = Restrict(assigned, CarriedBindings(engine, DOMAIN assigned))
    /\ \A b \in MatchBindings(engine, DOMAIN assigned) : held[b] = assigned[b] /\ observed[b] # None
    /\ \A i \in DOMAIN engine : ReadyToStart(engine[i], set, consumers) => engine[i].state # "failed"

EventuallyAgreed == <>[]Agreed

=============================================================================

--------------------------- MODULE OperatorAccess ---------------------------
(***************************************************************************)
(* The controller's two key lists and the operator sessions they admit.    *)
(* An SSH connection presents a key as an agent or as an operator          *)
(* (sshserver.go, operator_keys.go).  An unknown key is recorded as        *)
(* pending by three separate statements: it is looked up, the pending keys *)
(* are counted, and it is inserted.  Operators of the web interface decide *)
(* on keys at any point in between.  A connection admitted as an operator  *)
(* serves one request at a time (operator_session.go): the key is read     *)
(* again, which fixes the grant, and the operation then waits for          *)
(* mutationMu, so a revocation or another change may fall in between.      *)
(*                                                                         *)
(* A binding is the set of policies its container holds and whether        *)
(* OpenBao has applied it; each agent has one container.  A policy is its  *)
(* source text.  What a save or a bind does inside OpenBao is the subject  *)
(* of PolicyPublication; here it succeeds, is refused, or is left pending. *)
(***************************************************************************)
EXTENDS Naturals, FiniteSets

CONSTANTS
    Keys,          \* SSH keys (fingerprints)
    Conns,         \* SSH connections that can be open at once
    Labels,        \* operator labels
    Agents,        \* agent names
    Policies,      \* policy names
    Sources,       \* policy source texts
    Grants,        \* the grants operators give, as records
    PendingLimit,  \* maximumPendingKeys
    MaxWork,       \* bound: decisions, operator requests and web changes
    None

AllNames == "*"
Actions == {"read", "bind", "policy-write"}

ASSUME OperatorAccessAssumption ==
    /\ IsFiniteSet(Keys) /\ IsFiniteSet(Conns)
    /\ PendingLimit \in Nat \ {0}
    /\ MaxWork \in Nat
    /\ \A grant \in Grants :
          /\ grant.agents \subseteq Agents \/ grant.agents = {AllNames}
          /\ grant.policies \subseteq Policies \/ grant.policies = {AllNames}
          /\ grant.actions \subseteq Actions /\ grant.actions # {}

VARIABLES
    agents,     \* table agents: the state and the name of each key
    operators,  \* table operator_keys: state, label and grant of each key
    conn,       \* each connection: its step, identity, request and outcome
    policies,   \* the source of each policy, None when it does not exist
    bindings,   \* the binding of each agent's container, None when not bound
    acted,      \* history: the keys that changed something under each label
    late,       \* history: requests a connection performed after revocation
    work        \* how many decisions, requests and changes were made

vars == <<agents, operators, conn, policies, bindings, acted, late,
          work>>

Users == [role : {"agent"}, name : Agents]
           \cup [role : {"operator"}, name : Labels]

Selections == (SUBSET Policies) \ {{}}

\* The requests of the operator protocol that need a grant (types.go).  A
\* read stands for list and get of policies and bindings, and for whoami.
Requests ==
    [op : {"read"}, agent : Agents] \cup
    [op : {"put"}, name : Policies, source : Sources] \cup
    [op : {"bind"}, agent : Agents, selection : Selections] \cup
    [op : {"unbind"}, agent : Agents]

Outcomes == {None, "read", "saved", "bound", "removed", "absent", "pending",
             "outside-grant", "binding-differs", "failed"}

Closed == [step |-> "closed", key |-> None, user |-> None, request |-> None,
           grant |-> None, outcome |-> None]

TypeOK ==
    /\ agents \in [Keys -> [state : {"none", "pending", "approved", "rejected"},
                            name : Agents \cup {None}]]
    /\ operators \in [Keys -> [state : {"none", "pending", "approved",
                                        "rejected", "revoked"},
                               label : Labels \cup {None},
                               grant : Grants \cup {None}]]
    /\ conn \in [Conns -> [step : {"closed", "unknown", "counted", "open",
                                   "dispatched", "done"},
                           key : Keys \cup {None}, user : Users \cup {None},
                           request : Requests \cup {None},
                           grant : Grants \cup {None}, outcome : Outcomes]]
    /\ policies \in [Policies -> Sources \cup {None}]
    /\ bindings \in [Agents -> [policies : Selections, applied : BOOLEAN]
                                 \cup {None}]
    /\ acted \in [Labels -> SUBSET Keys]
    /\ late \in [Conns -> 0 .. MaxWork]
    \* A connection past authentication has an identity, one at work a grant.
    /\ \A c \in Conns :
          /\ conn[c].step = "closed" => conn[c] = Closed
          /\ conn[c].step = "dispatched" =>
                /\ operators[conn[c].key].state \in {"approved", "revoked"}
                /\ conn[c].grant = operators[conn[c].key].grant

-----------------------------------------------------------------------------
(* Grants: operator/types.go.                                              *)

listAllows(list, name) == list = {AllNames} \/ name \in list

Can(grant, action) == action \in grant.actions

AllowsPolicy(grant, name) == listAllows(grant.policies, name)

\* A binding that holds any policy outside the list is outside the grant.
Covers(grant, agent, selection) ==
    /\ listAllows(grant.agents, agent)
    /\ \A name \in selection : AllowsPolicy(grant, name)

-----------------------------------------------------------------------------
(* The key lists: the statements of store.go and store/operator_keys.go.   *)

PendingCount == Cardinality({k \in Keys : agents[k].state = "pending"})

PendingOperatorKeyCount ==
    Cardinality({k \in Keys : operators[k].state = "pending"})

\* Mutant: the insert does not look at the operator list.
BothListsRecordKey(key, name) ==
    agents' = IF agents[key].state \in {"none", "pending"}
              THEN [agents EXCEPT ![key] = [state |-> "pending", name |-> name]]
              ELSE agents

\* Mutant: the conflict clause renames a key that was already decided.
RenamingRecordKey(key, name) ==
    agents' = IF operators[key].state # "none" THEN agents
              ELSE IF agents[key].state = "none"
              THEN [agents EXCEPT ![key] = [state |-> "pending", name |-> name]]
              ELSE [agents EXCEPT ![key].name = name]

\* INSERT ... WHERE NOT EXISTS on the other list; ON CONFLICT takes the name
\* while the key is pending.
RecordKey(key, name) ==
    agents' = IF operators[key].state = "none"
                 /\ agents[key].state \in {"none", "pending"}
              THEN [agents EXCEPT ![key] = [state |-> "pending", name |-> name]]
              ELSE agents

RecordOperatorKey(key, label) ==
    operators' = IF agents[key].state = "none"
                    /\ operators[key].state \in {"none", "pending"}
                 THEN [operators EXCEPT ![key] = [state |-> "pending",
                                                  label |-> label,
                                                  grant |-> None]]
                 ELSE operators

\* The unique index on approved agent names.
AgentNameFree(key) ==
    \A other \in Keys \ {key} :
        ~ (agents[other].state = "approved" /\ agents[other].name = agents[key].name)

\* The unique index on the labels of approved and revoked keys.
LabelFree(key, label) ==
    \A other \in Keys \ {key} :
        ~ (operators[other].state \in {"approved", "revoked"}
           /\ operators[other].label = label)

-----------------------------------------------------------------------------
(* Authentication: sshserver.go authenticate, operator_keys.go             *)
(* authenticateOperator.                                                   *)

Work == work < MaxWork /\ work' = work + 1

Set(c, value) == conn' = [conn EXCEPT ![c] = value]
Goto(c, step) == conn' = [conn EXCEPT ![c].step = step]

\* The first lookup: an unknown key goes on to be recorded; a known key is
\* admitted when it is approved, for an agent under the approved name only.
\* An admitted agent is handed to the hub (AgentSessions).
Authenticate(c, key, user) ==
    /\ conn[c].step = "closed"
    /\ LET known == IF user.role = "agent" THEN agents[key].state
                                           ELSE operators[key].state
           admitted == /\ known = "approved"
                       /\ user.role = "agent" => agents[key].name = user.name
           present == [Closed EXCEPT !.key = key, !.user = user] IN
       \/ /\ known = "none"
          /\ Set(c, [present EXCEPT !.step = "unknown"])
       \/ /\ admitted /\ user.role = "operator"
          /\ Set(c, [Closed EXCEPT !.step = "open", !.key = key])
    /\ UNCHANGED <<agents, operators, policies, bindings, acted, late,
                   work>>

\* The pending keys are counted; a full list refuses the key.
Count(c) ==
    /\ conn[c].step = "unknown"
    /\ LET count == IF conn[c].user.role = "agent"
                    THEN PendingCount ELSE PendingOperatorKeyCount IN
       IF count >= PendingLimit THEN Set(c, Closed) ELSE Goto(c, "counted")
    /\ UNCHANGED <<agents, operators, policies, bindings, acted, late,
                   work>>

\* The key is recorded, and authentication fails.
Record(c) ==
    /\ conn[c].step = "counted"
    /\ IF conn[c].user.role = "agent"
       THEN RecordKey(conn[c].key, conn[c].user.name) /\ UNCHANGED operators
       ELSE RecordOperatorKey(conn[c].key, conn[c].user.name) /\ UNCHANGED agents
    /\ Set(c, Closed)
    /\ UNCHANGED <<policies, bindings, acted, late, work>>

\* A connection that is not at work ends: the client closes it, or the idle
\* timeout does.
Disconnect(c) ==
    /\ conn[c].step = "open"
    /\ Set(c, Closed)
    /\ late' = [late EXCEPT ![c] = 0]
    /\ UNCHANGED <<agents, operators, policies, bindings, acted, work>>

-----------------------------------------------------------------------------
(* Decisions on keys, made in the web interface.                           *)

Decided ==
    /\ Work
    /\ UNCHANGED <<conn, policies, bindings, acted, late>>

DecideAgent(key, approve) ==
    /\ agents[key].state = "pending"
    /\ approve => AgentNameFree(key)
    /\ agents' = [agents EXCEPT ![key].state = IF approve THEN "approved"
                                                          ELSE "rejected"]
    /\ Decided
    /\ UNCHANGED operators

ApproveOperatorKey(key, label, grant) ==
    /\ operators[key].state = "pending"
    /\ LabelFree(key, label)
    /\ operators' = [operators EXCEPT ![key] = [state |-> "approved",
                                                label |-> label,
                                                grant |-> grant]]
    /\ Decided
    /\ UNCHANGED agents

RejectOperatorKey(key) ==
    /\ operators[key].state = "pending"
    /\ operators' = [operators EXCEPT ![key].state = "rejected"]
    /\ Decided
    /\ UNCHANGED agents

RevokeOperatorKey(key) ==
    /\ operators[key].state = "approved"
    /\ operators' = [operators EXCEPT ![key].state = "revoked"]
    /\ Decided
    /\ UNCHANGED agents

-----------------------------------------------------------------------------
(* Operator requests: operator_session.go.                                 *)

\* Mutant: the session trusts the key it was opened with.
FaultyDispatch(c, request) ==
    /\ conn[c].step = "open"
    /\ Work
    /\ conn' = [conn EXCEPT ![c].step = "dispatched", ![c].request = request,
                            ![c].grant = operators[conn[c].key].grant]
    /\ UNCHANGED <<agents, operators, policies, bindings, acted, late>>

\* dispatchOperator reads the key again; a key that is no longer approved is
\* told so and its session ends.
Dispatch(c, request) ==
    /\ conn[c].step = "open"
    /\ Work
    /\ IF operators[conn[c].key].state = "approved"
       THEN /\ conn' = [conn EXCEPT ![c].step = "dispatched",
                                    ![c].request = request,
                                    ![c].grant = operators[conn[c].key].grant]
            /\ UNCHANGED late
       ELSE /\ Set(c, Closed)
            /\ late' = [late EXCEPT ![c] = 0]
    /\ UNCHANGED <<agents, operators, policies, bindings, acted>>

Holders(name) ==
    {a \in Agents : bindings[a] # None /\ name \in bindings[a].policies}

\* SavePolicyBindings and one applyBinding per holder: of those that hold the
\* policy, OpenBao applies the ones in done.
SavePolicyBindings(name, source, done) ==
    /\ policies' = [policies EXCEPT ![name] = source]
    /\ bindings' = [a \in Agents |->
                       IF a \in Holders(name)
                       THEN [bindings[a] EXCEPT !.applied = a \in done]
                       ELSE bindings[a]]

Unchanged == UNCHANGED <<policies, bindings>>

\* Mutant: the bindings that hold the policy are not looked at.
FaultyPutAllowed(grant, request) ==
    /\ Can(grant, "policy-write")
    /\ AllowsPolicy(grant, request.name)

\* A policy change reaches every binding that holds the policy, so the grant
\* must cover each of them.
PutAllowed(grant, request) ==
    /\ Can(grant, "policy-write")
    /\ AllowsPolicy(grant, request.name)
    /\ \A a \in Holders(request.name) : Covers(grant, a, bindings[a].policies)

PutPolicy(grant, request, outcome) ==
    \/ ~ PutAllowed(grant, request) /\ outcome = "outside-grant" /\ Unchanged
    \/ /\ PutAllowed(grant, request)
       /\ \/ outcome = "failed" /\ Unchanged
          \/ policies[request.name] = request.source /\ outcome = "saved" /\ Unchanged
          \/ /\ policies[request.name] # request.source
             /\ \E done \in SUBSET Holders(request.name) :
                   /\ SavePolicyBindings(request.name, request.source, done)
                   /\ \/ outcome = IF done = Holders(request.name) THEN "saved"
                                                                   ELSE "pending"
                      \/ outcome = "failed" /\ done = {}   \* committed, answer lost

Composes(selection) == \A name \in selection : policies[name] # None

Apply(agent, applied) ==
    /\ bindings' = [bindings EXCEPT ![agent].applied = applied]
    /\ UNCHANGED policies

\* readOperatorBinding, after the unlock: the bind is done, and its answer is
\* the binding, or a failure when the status could not be read, be it because
\* another operator removed the binding meanwhile or the context ended.
StatusRead == {"bound", "failed"}

\* Mutant: a repeat answers with the binding that exists, whatever it holds.
FaultyRepeatBind(grant, request, outcome) ==
    LET existing == bindings[request.agent] IN
    IF ~ Covers(grant, request.agent, existing.policies)
    THEN outcome = "outside-grant" /\ Unchanged
    ELSE outcome = "bound" /\ Apply(request.agent, TRUE)

\* A repeat of the same selection finishes a pending assignment; another
\* selection changes nothing.  The code compares the composed assignments:
\* both are composed from the stored rows, so they agree when the selections
\* do.  An assignment that could not be finished may have been marked.
RepeatBind(grant, request, outcome) ==
    LET existing == bindings[request.agent] IN
    IF ~ Covers(grant, request.agent, existing.policies)
    THEN outcome = "outside-grant" /\ Unchanged
    ELSE IF ~ Composes(request.selection) THEN outcome = "failed" /\ Unchanged
    ELSE IF request.selection # existing.policies
    THEN outcome = "binding-differs" /\ Unchanged
    ELSE \/ /\ outcome = "pending" /\ ~ existing.applied
            /\ \E applied \in BOOLEAN : Apply(request.agent, applied)
         \/ outcome \in StatusRead /\ Apply(request.agent, TRUE)

AgentApproved(name) ==
    \E key \in Keys : agents[key].state = "approved" /\ agents[key].name = name

CreateBinding(agent, selection, applied) ==
    /\ AgentApproved(agent)
    /\ bindings[agent] = None
    /\ Composes(selection)
    /\ bindings' = [bindings EXCEPT ![agent] = [policies |-> selection,
                                                applied |-> applied]]
    /\ UNCHANGED policies

\* A binding that was created may be answered as failed: its commit lost its
\* answer, or the status could not be read after the unlock.
Bind(grant, request, outcome) ==
    IF ~ (Can(grant, "bind") /\ Covers(grant, request.agent, request.selection))
    THEN outcome = "outside-grant" /\ Unchanged
    ELSE \/ outcome = "failed" /\ Unchanged
         \/ bindings[request.agent] # None /\ RepeatBind(grant, request, outcome)
         \/ \E applied \in BOOLEAN :
               /\ CreateBinding(request.agent, request.selection, applied)
               /\ outcome \in IF applied THEN StatusRead \cup {"pending"}
                                          ELSE {"failed", "pending"}

\* A binding that is not there is a success.  A removal that leaves a token
\* live is a removal; one the store refuses leaves the binding in place, and
\* one whose commit lost its answer is taken for refused.
Unbind(grant, request, outcome) ==
    LET existing == bindings[request.agent] IN
    IF ~ (Can(grant, "bind") /\ listAllows(grant.agents, request.agent))
    THEN outcome = "outside-grant" /\ Unchanged
    ELSE IF existing = None THEN outcome \in {"absent", "failed"} /\ Unchanged
    ELSE IF ~ Covers(grant, request.agent, existing.policies)
    THEN outcome = "outside-grant" /\ Unchanged
    ELSE \/ outcome = "failed" /\ Unchanged
         \/ /\ outcome \in {"removed", "failed"}
            /\ bindings' = [bindings EXCEPT ![request.agent] = None]
            /\ UNCHANGED policies

\* Only what the grant covers is shown.
Read(grant, request, outcome) ==
    LET existing == bindings[request.agent] IN
    /\ outcome \in IF /\ Can(grant, "read")
                      /\ existing # None =>
                           Covers(grant, request.agent, existing.policies)
                   THEN {"read", "failed"} ELSE {"outside-grant"}
    /\ Unchanged

\* The operation runs, the mutating ones under mutationMu, with the grant
\* that the dispatch read.
Perform(c) ==
    /\ conn[c].step = "dispatched"
    /\ \E outcome \in Outcomes \ {None} :
          LET request == conn[c].request
              grant == conn[c].grant IN
          /\ CASE request.op = "read" -> Read(grant, request, outcome)
               [] request.op = "put" -> PutPolicy(grant, request, outcome)
               [] request.op = "bind" -> Bind(grant, request, outcome)
               [] request.op = "unbind" -> Unbind(grant, request, outcome)
          /\ conn' = [conn EXCEPT ![c] = [@ EXCEPT !.step = "done", !.request = None,
                                                   !.grant = None, !.outcome = outcome]]
    /\ LET key == conn[c].key
           label == operators[key].label IN
       /\ acted' = IF <<policies, bindings>>' = <<policies, bindings>> THEN acted
                   ELSE [acted EXCEPT ![label] = @ \cup {key}]
       /\ late' = IF operators[key].state = "approved" THEN late
                  ELSE [late EXCEPT ![c] = @ + 1]
    /\ UNCHANGED <<agents, operators, work>>

\* The answer is written and the session reads its next line, or the client
\* is gone and the session ends.
Reply(c) ==
    /\ conn[c].step = "done"
    /\ \/ /\ conn' = [conn EXCEPT ![c].step = "open", ![c].request = None,
                                  ![c].grant = None, ![c].outcome = None]
          /\ UNCHANGED late
       \/ /\ Set(c, Closed)
          /\ late' = [late EXCEPT ![c] = 0]
    /\ UNCHANGED <<agents, operators, policies, bindings, acted, work>>

-----------------------------------------------------------------------------
(* Changes the web interface makes under the same lock, without a grant.   *)

Changed ==
    /\ Work
    /\ UNCHANGED <<agents, operators, conn, acted, late>>

WebSave(name, source) ==
    /\ policies[name] # source
    /\ \E done \in SUBSET Holders(name) : SavePolicyBindings(name, source, done)
    /\ Changed

\* A rename moves the policy and every binding's selection to the new name;
\* the grants of operator keys keep the old one.
WebRename(name, newName) ==
    /\ policies[name] # None /\ policies[newName] = None
    /\ policies' = [policies EXCEPT ![name] = None, ![newName] = policies[name]]
    /\ \E done \in SUBSET Holders(name) :
          bindings' = [a \in Agents |->
             IF a \in Holders(name)
             THEN [policies |-> (bindings[a].policies \ {name}) \cup {newName},
                   applied |-> a \in done]
             ELSE bindings[a]]
    /\ Changed

WebDelete(name) ==
    /\ policies[name] # None /\ Holders(name) = {}
    /\ policies' = [policies EXCEPT ![name] = None]
    /\ UNCHANGED bindings
    /\ Changed

WebBind(agent, selection) ==
    /\ \E applied \in BOOLEAN : CreateBinding(agent, selection, applied)
    /\ Changed

WebChange(agent, selection) ==
    /\ bindings[agent] # None
    /\ bindings[agent].policies # selection
    /\ Composes(selection)
    /\ \E applied \in BOOLEAN :
          bindings' = [bindings EXCEPT ![agent] = [policies |-> selection,
                                                   applied |-> applied]]
    /\ UNCHANGED policies
    /\ Changed

WebUnbind(agent) ==
    /\ bindings[agent] # None
    /\ bindings' = [bindings EXCEPT ![agent] = None]
    /\ UNCHANGED policies
    /\ Changed

-----------------------------------------------------------------------------
NoAgents == [k \in Keys |-> [state |-> "none", name |-> None]]
NoOperators == [k \in Keys |-> [state |-> "none", label |-> None, grant |-> None]]

\* An approved operator key that was used before, alone or with the agents,
\* their policies and some bindings.
InUse(key, label, grant, source) ==
    /\ acted = [l \in Labels |-> IF l = label THEN {key} ELSE {}]
    /\ operators = [NoOperators EXCEPT ![key] = [state |-> "approved",
                                                 label |-> label, grant |-> grant]]
    /\ \/ /\ work = 0 /\ agents = NoAgents
          /\ policies = [p \in Policies |-> None]
          /\ bindings = [a \in Agents |-> None]
       \/ /\ work = 1
          /\ \E owner \in [Agents -> Keys \ {key}] :
                /\ \A a, b \in Agents : owner[a] = owner[b] => a = b
                /\ agents = [k \in Keys |->
                      IF \E a \in Agents : owner[a] = k
                      THEN [state |-> "approved",
                            name |-> CHOOSE a \in Agents : owner[a] = k]
                      ELSE NoAgents[k]]
          /\ policies = [p \in Policies |-> source]
          /\ bindings \in [Agents -> [policies : Selections, applied : {TRUE}]
                                        \cup {None}]

\* A new controller; or one with an approved operator key that was used
\* before; or one that also has its agents, their policies and some bindings.
\* The bounded work is spent least on the second, which needs most of it.
Init ==
    /\ conn = [c \in Conns |-> Closed]
    /\ late = [c \in Conns |-> 0]
    /\ \/ /\ work = 1
          /\ acted = [l \in Labels |-> {}]
          /\ agents = NoAgents /\ operators = NoOperators
          /\ policies = [p \in Policies |-> None]
          /\ bindings = [a \in Agents |-> None]
       \/ \E key \in Keys, label \in Labels, grant \in Grants, source \in Sources :
          InUse(key, label, grant, source)

Next ==
    \/ \E c \in Conns :
          \/ \E key \in Keys, user \in Users : Authenticate(c, key, user)
          \/ Count(c) \/ Record(c) \/ Disconnect(c)
          \/ \E request \in Requests : Dispatch(c, request)
          \/ Perform(c) \/ Reply(c)
    \/ \E key \in Keys :
          \/ \E approve \in BOOLEAN : DecideAgent(key, approve)
          \/ \E label \in Labels, grant \in Grants :
                ApproveOperatorKey(key, label, grant)
          \/ RejectOperatorKey(key) \/ RevokeOperatorKey(key)
    \/ \E name \in Policies :
          \/ \E source \in Sources : WebSave(name, source)
          \/ \E newName \in Policies \ {name} : WebRename(name, newName)
          \/ WebDelete(name)
    \/ \E agent \in Agents :
          \/ \E selection \in Selections :
                WebBind(agent, selection) \/ WebChange(agent, selection)
          \/ WebUnbind(agent)

Spec == Init /\ [][Next]_vars

-----------------------------------------------------------------------------
(* Properties.                                                             *)

\* A key is on one list at most, whatever two connections present it as and
\* in whatever order their lookups and inserts run (RecordKey,
\* RecordOperatorKey: "so that no key is on both lists").
KeyOnOneList ==
    \A k \in Keys : agents[k].state = "none" \/ operators[k].state = "none"

\* An audit subject never names two keys: over the whole history, the changes
\* made under one label were made by one key, a revoked key's successor
\* included (ApproveOperatorKey).
OneKeyPerSubject == \A l \in Labels : Cardinality(acted[l]) <= 1

\* How far the pending lists pass their limit.  operator-interface.yml says
\* "The list holds at most 256 pending keys"; the code breaks that, because
\* the count and the insert are two statements (authenticate,
\* authenticateOperator), and connections that counted before one another's
\* inserts all insert.  It passes the limit by less than one key for every
\* connection that can be open.
PendingOvershoot ==
    /\ PendingCount <= PendingLimit + Cardinality(Conns) - 1
    /\ PendingOperatorKeyCount <= PendingLimit + Cardinality(Conns) - 1

\* The key lists are sound: one list and one subject per key, the documented
\* limit passed only by what the connections at hand add, every connection
\* within its type (store.go RecordKey, store/operator_keys.go).
KeyListsSound == TypeOK /\ KeyOnOneList /\ OneKeyPerSubject /\ PendingOvershoot

\* After a revocation an open session completes at most the one request it
\* had already dispatched (RevokeOperatorKey: "A session it holds fails its
\* next request").
RevocationHolds == \A c \in Conns : late[c] <= 1

\* A decision stands: a decided key keeps its state, except that an approved
\* operator key may be revoked, and keeps the name, the label and the grant it
\* was decided with, even when an insert that began before the decision
\* arrives after it (RecordKey, RecordOperatorKey, DecideAgent).
DecisionsStand ==
    [][\A k \in Keys :
          /\ agents[k].state \in {"approved", "rejected"} =>
                agents'[k] = agents[k]
          /\ operators[k].state \in {"rejected", "revoked"} =>
                operators'[k] = operators[k]
          /\ operators[k].state = "approved" =>
                operators'[k] \in {operators[k],
                                   [operators[k] EXCEPT !.state = "revoked"]}]_vars

\* What a container receives: its binding and the text of its policies.
Received(a, bs, ps) ==
    IF bs[a] = None THEN None
    ELSE [policies |-> bs[a].policies, text |-> [p \in bs[a].policies |-> ps[p]]]

\* An operator request changes what a container receives only when the key's
\* grant covers the container's agent and every policy the container held
\* before and holds after, and it changes a policy only inside its grant;
\* a put reaches other bindings, and they may have changed since the request
\* was dispatched (authorizedPutPolicy, operatorBind, operatorUnbind).
GrantConfines ==
    [][\A c \in Conns :
          conn[c].step = "dispatched" /\ conn'[c].step = "done" =>
             LET grant == operators[conn[c].key].grant IN
             /\ \A p \in Policies :
                   policies'[p] # policies[p] => AllowsPolicy(grant, p)
             /\ \A a \in Agents :
                   Received(a, bindings, policies)' # Received(a, bindings, policies) =>
                      /\ bindings[a] # None => Covers(grant, a, bindings[a].policies)
                      /\ bindings'[a] # None => Covers(grant, a, bindings'[a].policies)]_vars

\* Whatever a bind answers, it never makes a binding out to be what was not
\* asked for: answered as bound, the container is bound to what was asked and
\* applied in OpenBao, whoever created the binding; refused, nothing changed;
\* answered as pending or failed, the binding is as it was or is what was
\* asked, so that repeating the request is safe; and a binding that existed
\* keeps its selection (operatorBind: "Another selection changes nothing, so
\* that a script cannot read a binding as what it asked for when it is not").
BoundAsAsked ==
    [][\A c \in Conns :
          (/\ conn[c].step = "dispatched" /\ conn'[c].step = "done"
           /\ conn[c].request.op = "bind") =>
             LET a == conn[c].request.agent
                 asked(applied) == [policies |-> conn[c].request.selection,
                                    applied |-> applied] IN
             /\ conn'[c].outcome = "bound" => bindings'[a] = asked(TRUE)
             /\ conn'[c].outcome \in {"outside-grant", "binding-differs"} =>
                   bindings'[a] = bindings[a]
             /\ bindings'[a] \in {bindings[a], asked(TRUE), asked(FALSE)}
             /\ bindings[a] # None =>
                   bindings'[a].policies = bindings[a].policies]_vars
=============================================================================

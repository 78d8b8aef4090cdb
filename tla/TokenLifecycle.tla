--------------------------- MODULE TokenLifecycle ---------------------------
(***************************************************************************)
(* The token of one binding, from the controller's credential to the       *)
(* agent's revocation (internal/agent/credentials.go, session.go and the   *)
(* policy-set handling of agent.go; internal/controller/session.go and the *)
(* binding operations of operations.go).                                   *)
(*                                                                         *)
(* Three parties run concurrently: the controller (mutations under         *)
(* mutationMu, a push, the session's message loop), the agent (its receive *)
(* loop, one goroutine per delivery, retry and revocation) and OpenBao     *)
(* (external: an AppRole, its SecretIDs and tokens).  The session may drop  *)
(* at any time, losing every message in flight.                            *)
(*                                                                         *)
(* An assignment is identified by its binding revision.  The generations   *)
(* of the agent's credential manager are drawn from one counter and only    *)
(* compared for equality, so a goroutine that carries one is described by   *)
(* whether it is still the binding's (fresh); a retry goroutine with a      *)
(* stale generation ends without a trace and is left out.  A token number   *)
(* is used again once the token is dead and nobody refers to it.            *)
(***************************************************************************)
EXTENDS Naturals, Sequences, FiniteSets

CONSTANTS
    MaxRev,      \* bound: revisions of the binding
    Settings,    \* [policyOf, values]: the OpenBao policies of each revision's
                 \* assignment, and whether it carries identity values
    MaxTokens,   \* bound: tokens alive or referred to at once
    MaxFlight,   \* bound: credentials in flight when another is asked for
    MaxQueue,    \* bound: messages queued in one direction
    MaxDrops,    \* bound: session drops
    MaxFaults,   \* bound: failed OpenBao calls and expiries
    MaxTrouble   \* bound: drops, faults and edits together, an edit counted twice

ASSUME BoundAssumption ==
    /\ MaxRev \in Nat \ {0}
    /\ MaxTokens \in Nat \ {0}
    /\ MaxFlight \in Nat \ {0}
    /\ MaxQueue \in Nat \ {0}
    /\ MaxDrops \in Nat
    /\ MaxFaults \in Nat
    /\ MaxTrouble \in Nat

ASSUME SettingAssumption ==
    \A s \in Settings : DOMAIN s.policyOf = 1 .. MaxRev /\ s.values \in BOOLEAN

Revs == 1 .. MaxRev
Tokens == 1 .. MaxTokens

VARIABLES
    binding,     \* the stored row: [state, rev, applied, accessor, setting]
    bao,         \* OpenBao: [role, epoch], the policies of the role (0: none)
                 \* and how often outstanding SecretIDs were voided
    tokens,      \* OpenBao: [live, rev, pol] per token
    pc,          \* the holder of mutationMu: [at, rev, then, victim]
    deleting,    \* DeleteBinding: "no", "asked" (Unbind sent), "done"
    up,          \* is a session open
    toAgent,     \* messages on their way to the agent
    toController,\* messages on their way to the controller
    push,        \* is a push of the session wanted
    issue,       \* revisions whose credential is wanted in this session
    ready,       \* credentials prepared and not yet sent
    session,     \* [credentialed, matched] of the controller's session
    report,      \* the accessor report being handled: [at, tok, rev, open]
    agent,       \* [set, held, recorded]: the assignment of the binding in the
                 \* agent's policy set (0: not in it), the token held, and
                 \* whether the controller has acknowledged its accessor
    deliveries,  \* deliver goroutines: [rev, epoch, tok, fresh]
    retrying,    \* does a retry goroutine of the current generation run
    revoking,    \* tokens a goroutine of the agent is about to revoke
    drops, faults

controllerVars == <<binding, pc, deleting, push, issue, ready, session, report>>
agentVars == <<agent, deliveries, retrying, revoking>>
channelVars == <<up, toAgent, toController>>
vars == <<binding, bao, tokens, pc, deleting, up, toAgent, toController, push,
          issue, ready, session, report, agent, deliveries, retrying, revoking,
          drops, faults>>

----------------------------------------------------------------------------

Idle == [at |-> "idle", rev |-> 0, then |-> "none", victim |-> 0]
NoReport == [at |-> "none", tok |-> 0, rev |-> 0, open |-> FALSE]
NewSession == [credentialed |-> 0, matched |-> FALSE]

PolicyOf == binding.setting.policyOf
HasValues == binding.setting.values

Trouble == 2 * (binding.rev - 1) + drops + faults

Fault == /\ faults < MaxFaults /\ Trouble < MaxTrouble
         /\ faults' = faults + 1

Dead == [live |-> FALSE, rev |-> 0, pol |-> 0]

(* RevokeAccessor of the controller: a token already dead is no error, and   *)
(* without an accessor there is nothing to revoke.                           *)
Revoked(t) == IF t = 0 THEN tokens ELSE [tokens EXCEPT ![t] = Dead]

(* RevokeSelf of the agent.                                                  *)
RevokeSelf(t) == [tokens EXCEPT ![t] = Dead]

(* A message for a session that is gone or whose queue is full is not sent.  *)
Sent(queue, message) == IF up THEN Append(queue, message) ELSE queue
Room(queue) == up => Len(queue) < MaxQueue

PolicySet(r) == [type |-> "set", rev |-> r, epoch |-> 0, tok |-> 0]
Credential(r, e) == [type |-> "credential", rev |-> r, epoch |-> e, tok |-> 0]
Unbind == [type |-> "unbind", rev |-> 0, epoch |-> 0, tok |-> 0]
Acknowledge(t) == [type |-> "recorded", rev |-> 0, epoch |-> 0, tok |-> t]
Inventory == [type |-> "inventory", rev |-> 0, epoch |-> 0, tok |-> 0]
Request == [type |-> "request", rev |-> 0, epoch |-> 0, tok |-> 0]
TokenAccessor(t, r) == [type |-> "accessor", rev |-> r, epoch |-> 0, tok |-> t]

Queued(queue) == {queue[i] : i \in DOMAIN queue}

Referred ==
    {binding.accessor, pc.victim, report.tok, agent.held}
      \cup {d.tok : d \in deliveries} \cup revoking
      \cup {m.tok : m \in Queued(toAgent) \cup Queued(toController)}

FreeTokens == {t \in Tokens : ~tokens[t].live /\ t \notin Referred}

----------------------------------------------------------------------------
(* Mutations of the controller, under mutationMu.                           *)

Lock(at, r, then) ==
    /\ pc.at = "idle"
    /\ pc' = [at |-> at, rev |-> r, then |-> then, victim |-> 0]

(* changeBinding and every policy mutation that affects the binding: commit  *)
(* the next assignment, apply it, push.                                      *)
ChangeBinding ==
    /\ binding.state = "bound"
    /\ binding.rev < MaxRev /\ Trouble + 1 < MaxTrouble
    /\ Lock("apply", binding.rev + 1, "push")
    /\ binding' = [binding EXCEPT !.rev = @ + 1, !.applied = FALSE]
    /\ UNCHANGED <<bao, tokens, deleting, push, issue, ready, session, report,
                   agentVars, channelVars, drops, faults>>

(* issue, prepareCredential: the binding must still be the one that was read. *)
PrepareCredential(r) ==
    /\ r \in issue
    /\ issue' = issue \ {r}
    /\ IF binding.state = "bound" /\ binding.rev = r
         THEN Lock("apply", r, "issue")
         ELSE pc.at = "idle" /\ UNCHANGED pc
    /\ UNCHANGED <<binding, bao, tokens, deleting, push, ready, session, report,
                   agentVars, channelVars, drops, faults>>

(* Faulty: the role is rewritten in place, and its SecretIDs stay usable.    *)
FaultyWrittenRole == [bao EXCEPT !.role = PolicyOf[binding.rev]]

(* WriteRole creates the AppRole or updates it in place; a managed name and  *)
(* at least one policy are given here.                                       *)
WriteRole(role, policies) == [role EXCEPT !.role = policies]

(* DeleteRole: the SecretIDs of a role go with it.                           *)
DeleteRole(role) == [role |-> 0, epoch |-> role.epoch + 1]

(* With identity values the role is deleted before it is written.            *)
Cleared == IF HasValues THEN DeleteRole(bao) ELSE bao
WrittenRole == WriteRole(Cleared, PolicyOf[binding.rev])

(* applyBinding: write the role, revoke the recorded token, mark.  Nothing   *)
(* outside the lock can tell these steps apart (no accessor is recorded for  *)
(* an unapplied binding), so they are one action; it may fail at any of them *)
(* and leave the role as it was, deleted or written, and is only marked      *)
(* after all.  An unlock by a mutation is followed by a push, by an issuance *)
(* by the SecretID request.                                                  *)
ApplyBinding ==
    LET return(ok) ==
            CASE pc.then = "push" -> pc' = Idle /\ push' = up
              [] pc.then # "push" /\ ok -> pc' = [pc EXCEPT !.at = "secret"]
                                           /\ UNCHANGED push
              [] OTHER -> pc' = Idle /\ UNCHANGED push
    IN  /\ pc.at = "apply"
        /\ \/ /\ binding.applied
              /\ return(TRUE)
              /\ UNCHANGED <<binding, bao, tokens, faults>>
           \/ /\ ~binding.applied
              /\ bao' = WrittenRole
              /\ tokens' = Revoked(binding.accessor)
              /\ binding' = [binding EXCEPT !.applied = TRUE]
              /\ return(TRUE)
              /\ UNCHANGED faults
           \/ /\ ~binding.applied
              /\ Fault
              /\ bao' \in {bao, Cleared, WrittenRole}
              /\ return(FALSE)
              /\ UNCHANGED <<binding, tokens>>
        /\ UNCHANGED <<deleting, issue, ready, session, report, agentVars,
                       channelVars, drops>>

(* RoleID: only a role that exists has one.                                  *)
RoleID == bao.role # 0

(* WrappedSecretID: a SecretID for one login, with the values of the         *)
(* assignment.                                                               *)
WrappedSecretID(r) == Credential(r, bao.epoch)

(* prepareCredential, the rest; the credential is sent after the unlock.     *)
IssueSecret ==
    /\ pc.at = "secret"
    /\ pc' = Idle
    /\ \/ /\ RoleID
          /\ ready' = IF pc.then = "issue"
                        THEN ready \cup {WrappedSecretID(pc.rev)} ELSE ready
          /\ UNCHANGED faults
       \/ Fault /\ UNCHANGED ready
    /\ UNCHANGED <<binding, bao, tokens, deleting, push, issue, session, report,
                   agentVars, channelVars, drops>>

SendCredential(c) ==
    /\ c \in ready
    /\ Room(toAgent)
    /\ ready' = ready \ {c}
    /\ toAgent' = Sent(toAgent, c)
    /\ session' = IF up THEN [session EXCEPT !.credentialed = c.rev] ELSE session
    /\ UNCHANGED <<binding, bao, tokens, pc, deleting, push, issue, report,
                   agentVars, up, toController, drops, faults>>

(* DeleteBinding tells the agent first, and only then takes the lock.        *)
DeleteBinding ==
    /\ deleting = "no"
    /\ binding.state = "bound"
    /\ Room(toAgent)
    /\ deleting' = "asked"
    /\ toAgent' = Sent(toAgent, Unbind)
    /\ UNCHANGED <<binding, bao, tokens, pc, push, issue, ready, session, report,
                   agentVars, up, toController, drops, faults>>

(* The AppRole goes first, which voids outstanding SecretIDs, then the row;  *)
(* the token to revoke is the one recorded when the row went.                *)
RetireBinding ==
    /\ deleting = "asked"
    /\ pc.at = "idle"
    /\ pc' = [Idle EXCEPT !.at = "revokeRetired", !.victim = binding.accessor]
    /\ deleting' = "done"
    /\ \/ bao' = DeleteRole(bao) /\ UNCHANGED faults
       \/ Fault /\ UNCHANGED bao
    /\ binding' = [binding EXCEPT !.state = "retired", !.applied = FALSE,
                                  !.accessor = 0]
    /\ UNCHANGED <<tokens, push, issue, ready, session, report, agentVars,
                   channelVars, drops>>

RevokeRetired ==
    /\ pc.at = "revokeRetired"
    /\ \/ tokens' = Revoked(pc.victim) /\ UNCHANGED faults
       \/ pc.victim # 0 /\ Fault /\ UNCHANGED tokens
    /\ pc' = Idle
    /\ push' = up
    /\ UNCHANGED <<binding, bao, deleting, issue, ready, session, report,
                   agentVars, channelVars, drops>>

----------------------------------------------------------------------------
(* The session on the controller: push, and the message loop.               *)

(* push, serialised by pushMu: read the binding, note whether it is matched  *)
(* and whether the session still owes a credential, send the set, and then   *)
(* issue.  A credential request of the message loop issues at the same time. *)
Push ==
    LET r == IF binding.state = "bound" THEN binding.rev ELSE 0 IN
    /\ push
    /\ up
    /\ Room(toAgent)
    /\ push' = FALSE
    /\ toAgent' = Sent(toAgent, PolicySet(r))
    /\ issue' = IF r # 0 /\ session.credentialed # r THEN issue \cup {r} ELSE issue
    /\ session' = [credentialed |-> IF r = 0 THEN 0 ELSE session.credentialed,
                   matched |-> r # 0]
    /\ UNCHANGED <<binding, bao, tokens, pc, deleting, ready, report, agentVars,
                   up, toController, drops, faults>>

(* A report is recorded only for the current assignment, once applied.       *)
Recordable(r) ==
    /\ binding.state = "bound"
    /\ binding.rev = r
    /\ binding.applied

(* handle: the message loop takes the next message.  recordAccessor reads    *)
(* the binding without mutationMu ...                                        *)
HandleMessage ==
    /\ up
    /\ toController # <<>>
    /\ report.at = "none"
    /\ toController' = Tail(toController)
    /\ LET m == Head(toController) IN
        \/ /\ m.type = "inventory"
           /\ push' = TRUE
           /\ UNCHANGED <<issue, report>>
        \/ /\ m.type = "request"
           /\ issue' = IF binding.state = "bound" /\ session.matched
                         THEN issue \cup {binding.rev} ELSE issue
           /\ UNCHANGED <<push, report>>
        \/ /\ m.type = "accessor"
           /\ report' = [at |-> IF Recordable(m.rev) THEN "save" ELSE "revoke",
                         tok |-> m.tok, rev |-> m.rev, open |-> TRUE]
           /\ UNCHANGED <<push, issue>>
    /\ UNCHANGED <<binding, bao, tokens, pc, deleting, ready, session, agentVars,
                   up, toAgent, drops, faults>>

AckReport ==
    /\ report.open => Room(toAgent)
    /\ toAgent' = IF report.open THEN Sent(toAgent, Acknowledge(report.tok))
                                 ELSE toAgent
    /\ report' = NoReport

(* Faulty: trusts the binding that was read before.                          *)
FaultyReportSave ==
    /\ report.at = "save"
    /\ binding' = [binding EXCEPT !.accessor = report.tok]
    /\ AckReport
    /\ UNCHANGED <<bao, tokens, pc, deleting, push, issue, ready, session,
                   agentVars, up, toController, drops, faults>>

(* ... so SaveAssignmentAccessor compares the revision and the applied mark  *)
(* again, in the statement that writes.  A conflict revokes.                 *)
ReportSave ==
    /\ report.at = "save"
    /\ \/ /\ Recordable(report.rev)
          /\ binding' = [binding EXCEPT !.accessor = report.tok]
          /\ AckReport
       \/ /\ ~Recordable(report.rev)
          /\ report' = [report EXCEPT !.at = "revoke"]
          /\ UNCHANGED <<binding, toAgent>>
    /\ UNCHANGED <<bao, tokens, pc, deleting, push, issue, ready, session,
                   agentVars, up, toController, drops, faults>>

(* A report that cannot be recorded is revoked; a failure is not             *)
(* acknowledged, so the agent reports again when it reconnects.              *)
ReportRevoke ==
    /\ report.at = "revoke"
    /\ \/ /\ tokens' = Revoked(report.tok)
          /\ AckReport
          /\ UNCHANGED faults
       \/ /\ Fault
          /\ report' = NoReport
          /\ UNCHANGED <<tokens, toAgent>>
    /\ UNCHANGED <<binding, bao, pc, deleting, push, issue, ready, session,
                   agentVars, up, toController, drops>>

----------------------------------------------------------------------------
(* The agent.                                                               *)

(* A new generation, or none: every delivery already begun becomes stale.    *)
Stale(ds) == {[d EXCEPT !.fresh = FALSE] : d \in ds}

(* What invalidate and retire leave of the token; it is revoked by           *)
(* RevokeHeld, in the background.                                            *)
WithoutToken(r) == [set |-> r, held |-> 0, recorded |-> FALSE]

(* Faulty: drops the token without revoking it.                              *)
ForgetfulRevokeHeld == UNCHANGED revoking

RevokeHeld == revoking' = revoking \cup ({agent.held} \ {0})

(* applyPolicySet for the one binding: a set without it retires it, a new    *)
(* assignment invalidates its token and starts asking for a credential.      *)
ApplyPolicySet(r) ==
    IF agent.set = r
      THEN UNCHANGED agentVars
      ELSE /\ agent' = WithoutToken(r)
           /\ RevokeHeld
           /\ deliveries' = Stale(deliveries)
           /\ retrying' = (r # 0)

(* unbind.                                                                   *)
ReceiveUnbind ==
    /\ agent' = WithoutToken(0)
    /\ RevokeHeld
    /\ deliveries' = Stale(deliveries)
    /\ retrying' = FALSE

(* receiveCredential: only for the assignment the agent has now.             *)
ReceiveCredential(m) ==
    IF agent.set = m.rev
      THEN /\ deliveries' = Stale(deliveries) \cup
                {[rev |-> m.rev, epoch |-> m.epoch, tok |-> 0, fresh |-> TRUE]}
           /\ retrying' = FALSE
           /\ UNCHANGED <<agent, revoking>>
      ELSE UNCHANGED agentVars

(* The receive loop of connectOnce takes the next message.                   *)
ReceiveMessage ==
    /\ up
    /\ toAgent # <<>>
    /\ toAgent' = Tail(toAgent)
    /\ LET m == Head(toAgent) IN
        \/ m.type = "set" /\ ApplyPolicySet(m.rev)
        \/ m.type = "credential" /\ ReceiveCredential(m)
        \/ m.type = "unbind" /\ ReceiveUnbind
        \/ /\ m.type = "recorded"
           /\ agent' = [agent EXCEPT !.recorded = (agent.held = m.tok)]
           /\ UNCHANGED <<deliveries, retrying, revoking>>
    /\ UNCHANGED <<controllerVars, bao, tokens, up, toController, drops, faults>>

(* UnwrapSecretID and the login take the SecretID only while the role it     *)
(* belongs to was not deleted.                                               *)
Accepted(d) == bao.role # 0 /\ bao.epoch = d.epoch

(* AppRoleLogin: the token has the policies the role has now.                *)
AppRoleLogin(r) == [live |-> TRUE, rev |-> r, pol |-> bao.role]

(* deliver, first half: unwrap and log in.                                   *)
Login(d) ==
    /\ d \in deliveries
    /\ d.tok = 0
    /\ \/ /\ Accepted(d)
          /\ FreeTokens # {}
          /\ LET t == CHOOSE x \in FreeTokens : TRUE IN
             /\ tokens' = [tokens EXCEPT ![t] = AppRoleLogin(d.rev)]
             /\ deliveries' = (deliveries \ {d}) \cup {[d EXCEPT !.tok = t]}
          /\ UNCHANGED <<retrying, faults>>
       \/ /\ \/ ~Accepted(d) /\ UNCHANGED faults
             \/ Fault
          /\ deliveries' = deliveries \ {d}
          /\ retrying' = (retrying \/ d.fresh)
          /\ UNCHANGED tokens
    /\ UNCHANGED <<controllerVars, bao, agent, revoking, channelVars, drops>>

(* deliver, second half: a token with other policies than the assignment's   *)
(* is revoked and another credential asked for, a stale one is revoked, a    *)
(* current one replaces what is held and its accessor is reported.           *)
Install(d) ==
    /\ d \in deliveries
    /\ d.tok # 0
    /\ Room(toController)
    /\ deliveries' = deliveries \ {d}
    /\ \/ /\ tokens[d.tok].pol # PolicyOf[d.rev]
          /\ revoking' = revoking \cup {d.tok}
          /\ retrying' = (retrying \/ d.fresh)
          /\ UNCHANGED <<agent, toController>>
       \/ /\ tokens[d.tok].pol = PolicyOf[d.rev]
          /\ ~d.fresh
          /\ revoking' = revoking \cup {d.tok}
          /\ UNCHANGED <<agent, retrying, toController>>
       \/ /\ tokens[d.tok].pol = PolicyOf[d.rev]
          /\ d.fresh
          /\ agent' = [agent EXCEPT !.held = d.tok, !.recorded = FALSE]
          /\ RevokeHeld
          /\ toController' = Sent(toController, TokenAccessor(d.tok, d.rev))
          /\ UNCHANGED retrying
    /\ UNCHANGED <<controllerVars, bao, tokens, up, toAgent, drops, faults>>

(* Credentials asked for, prepared, on their way or being delivered.         *)
Outstanding ==
    Cardinality(issue) + Cardinality(ready) + Cardinality(deliveries)
      + Cardinality({i \in DOMAIN toAgent : toAgent[i].type = "credential"})
      + Cardinality({i \in DOMAIN toController : toController[i] = Request})

(* retry: asks until its generation is no longer the binding's.  It waits    *)
(* longer each time; the bound keeps it from asking ever faster.             *)
Retry ==
    /\ retrying
    /\ up
    /\ Outstanding < MaxFlight
    /\ Len(toController) < MaxQueue
    /\ toController' = Append(toController, Request)
    /\ UNCHANGED <<controllerVars, bao, tokens, up, toAgent, agentVars, drops,
                   faults>>

(* maintain: a renewal failed or was capped while the token is still valid,  *)
(* so a replacement is asked for once.                                       *)
RenewalCapped ==
    /\ agent.held # 0
    /\ Fault
    /\ Room(toController)
    /\ toController' = Sent(toController, Request)
    /\ UNCHANGED <<controllerVars, bao, tokens, agentVars, up, toAgent, drops>>

(* maintain and awaitExpiry: the held token is no longer valid.              *)
Expire ==
    /\ agent.held # 0
    /\ Fault
    /\ tokens' = Revoked(agent.held)
    /\ agent' = [agent EXCEPT !.held = 0, !.recorded = FALSE]
    /\ retrying' = TRUE
    /\ UNCHANGED <<controllerVars, bao, deliveries, revoking, channelVars, drops>>

(* revoke of the agent, in its goroutine.                                    *)
AgentRevoke(t) ==
    /\ t \in revoking
    /\ revoking' = revoking \ {t}
    /\ \/ tokens' = RevokeSelf(t) /\ UNCHANGED faults
       \/ Fault /\ UNCHANGED tokens
    /\ UNCHANGED <<controllerVars, bao, agent, deliveries, retrying, channelVars,
                   drops>>

----------------------------------------------------------------------------
(* The session.  connectOnce sends the inventory, then every accessor the    *)
(* controller has not acknowledged.  What a dropped session still has under  *)
(* way on the controller finishes without its answer.                        *)

(* Faulty: an accessor that was sent once is not sent again.                 *)
FaultyUnrecorded == <<>>

(* reportUnrecorded.                                                         *)
Unrecorded == IF agent.held # 0 /\ ~agent.recorded
                THEN <<TokenAccessor(agent.held, agent.set)>> ELSE <<>>

Connect ==
    /\ ~up
    /\ up' = TRUE
    /\ toAgent' = <<>>
    /\ toController' = <<Inventory>> \o Unrecorded
    /\ session' = NewSession
    /\ UNCHANGED <<binding, bao, tokens, pc, deleting, push, issue, ready, report,
                   agentVars, drops, faults>>

Drop ==
    /\ up
    /\ drops < MaxDrops /\ Trouble < MaxTrouble
    /\ drops' = drops + 1
    /\ up' = FALSE
    /\ toAgent' = <<>>
    /\ toController' = <<>>
    /\ push' = FALSE
    /\ issue' = {}
    /\ ready' = {}
    /\ report' = [report EXCEPT !.open = FALSE]
    /\ pc' = IF pc.then = "issue" THEN [pc EXCEPT !.then = "gone"] ELSE pc
    /\ UNCHANGED <<binding, bao, tokens, deleting, session, agentVars, faults>>

----------------------------------------------------------------------------

Init ==
    /\ \E s \in Settings :
         binding = [state |-> "bound", rev |-> 1, applied |-> FALSE, accessor |-> 0,
                    setting |-> s]
    /\ bao = [role |-> 0, epoch |-> 0]
    /\ tokens = [t \in Tokens |-> Dead]
    /\ pc = Idle
    /\ deleting = "no"
    /\ up = FALSE
    /\ toAgent = <<>>
    /\ toController = <<>>
    /\ push = FALSE
    /\ issue = {}
    /\ ready = {}
    /\ session = NewSession
    /\ report = NoReport
    /\ agent = WithoutToken(0)
    /\ deliveries = {}
    /\ retrying = FALSE
    /\ revoking = {}
    /\ drops = 0
    /\ faults = 0

Mutation ==
    \/ \E r \in Revs : PrepareCredential(r)
    \/ ApplyBinding \/ IssueSecret
    \/ RetireBinding \/ RevokeRetired

SessionStep ==
    \/ Push
    \/ \E c \in ready : SendCredential(c)
    \/ HandleMessage \/ ReportSave \/ ReportRevoke

AgentStep ==
    \/ ReceiveMessage
    \/ \E d \in deliveries : Login(d) \/ Install(d)
    \/ Retry
    \/ \E t \in revoking : AgentRevoke(t)

Next ==
    \/ ChangeBinding \/ DeleteBinding
    \/ Mutation
    \/ SessionStep
    \/ AgentStep
    \/ Expire \/ RenewalCapped
    \/ Connect \/ Drop

Spec == Init /\ [][Next]_vars

(* Every goroutine keeps running and an agent reconnects for ever.  Of what   *)
(* waits for mutationMu some caller gets it.  Only the push needs more: Go's  *)
(* mutexes hand themselves to a starving waiter, so it gets the connection's  *)
(* write lock however often others take it first (strong fairness).           *)
FairSpec ==
    /\ Spec
    /\ WF_vars(Mutation)
    /\ SF_vars(Push)
    /\ WF_vars(\E c \in ready : SendCredential(c))
    /\ WF_vars(HandleMessage \/ ReportSave \/ ReportRevoke)
    /\ WF_vars(ReceiveMessage)
    /\ WF_vars(\E d \in deliveries : Login(d) \/ Install(d))
    /\ WF_vars(Retry)
    /\ WF_vars(\E t \in revoking : AgentRevoke(t))
    /\ WF_vars(Connect)

----------------------------------------------------------------------------
(* Properties.                                                              *)

Message == [type : {"set", "credential", "unbind", "recorded", "inventory",
                    "request", "accessor"},
            rev : 0 .. MaxRev, epoch : Nat, tok : 0 .. MaxTokens]

(* Every variable has its type.                                             *)
TypeOK ==
    /\ binding \in [state : {"bound", "retired"}, rev : Revs, applied : BOOLEAN,
                    accessor : 0 .. MaxTokens, setting : Settings]
    /\ bao.epoch \in Nat
    /\ \A t \in Tokens : /\ tokens[t].live \in BOOLEAN
                         /\ tokens[t].rev \in 0 .. MaxRev
    /\ pc.at \in {"idle", "apply", "secret", "revokeRetired"}
    /\ deleting \in {"no", "asked", "done"}
    /\ up \in BOOLEAN
    /\ Queued(toAgent) \cup Queued(toController) \subseteq Message
    /\ push \in BOOLEAN
    /\ issue \subseteq Revs
    /\ ready \subseteq Message
    /\ session \in [credentialed : 0 .. MaxRev, matched : BOOLEAN]
    /\ report \in [at : {"none", "save", "revoke"}, tok : 0 .. MaxTokens,
                   rev : 0 .. MaxRev, open : BOOLEAN]
    /\ agent \in [set : 0 .. MaxRev, held : 0 .. MaxTokens, recorded : BOOLEAN]
    /\ deliveries \subseteq [rev : Revs, epoch : Nat, tok : 0 .. MaxTokens,
                             fresh : BOOLEAN]
    /\ retrying \in BOOLEAN
    /\ revoking \subseteq Tokens
    /\ drops \in 0 .. MaxDrops
    /\ faults \in 0 .. MaxFaults

(* A delivery that completes late never installs its token: what the agent   *)
(* serves a consumer with was made for the assignment it has now, with       *)
(* exactly that assignment's policies.                                       *)
HeldMatchesSet ==
    agent.held # 0 /\ tokens[agent.held].live =>
        /\ agent.set # 0
        /\ tokens[agent.held].rev = agent.set
        /\ tokens[agent.held].pol = PolicyOf[agent.set]

(* Once a binding is marked applied, no token of an earlier assignment whose *)
(* accessor the controller has recorded is alive: an accessor report that    *)
(* races the edit is either seen by applyBinding or refused by the store.    *)
RecordedTokenCurrent ==
    /\ binding.applied
    /\ binding.accessor # 0
    /\ tokens[binding.accessor].live
    => tokens[binding.accessor].rev = binding.rev

(* Every token in use is one of the current assignment, on the agent's side   *)
(* and on the controller's (finishDelivery, recordAccessor, applyBinding).    *)
TokensCurrent == TypeOK /\ HeldMatchesSet /\ RecordedTokenCurrent

(* With identity values, no login after the transition is made with a        *)
(* SecretID of an older assignment, which would put old values under the     *)
(* role's alias.                                                             *)
ValuesCurrent ==
    [][HasValues /\ binding.state = "bound" /\ binding.applied =>
         \A t \in Tokens : ~tokens[t].live /\ tokens'[t].live =>
            tokens'[t].rev = binding.rev]_vars

(* Unless a revocation failed, no live token is forgotten: each is held, in  *)
(* the hands of its delivery, or about to be revoked.                        *)
NoForgottenToken ==
    faults = 0 => \A t \in Tokens : tokens[t].live =>
        \/ agent.held = t
        \/ t \in revoking
        \/ \E d \in deliveries : d.tok = t

(* Unless a revocation failed, every token of a deleted binding dies, also   *)
(* when the session drops or a push puts the binding back in between.        *)
DeletedTokensDie ==
    (binding.state = "retired" /\ faults = 0) ~>
        (faults # 0 \/ \A t \in Tokens : ~tokens[t].live)

(* A bound container ends up with a live token of the current assignment,    *)
(* and the controller with the accessor to revoke it by, whatever was        *)
(* edited, lost or failed before (deliver, retry, reportUnrecorded).         *)
CredentialDelivered ==
    <>[](\/ binding.state = "retired"
         \/ /\ agent.held # 0
            /\ tokens[agent.held].live
            /\ tokens[agent.held].rev = binding.rev
            /\ binding.accessor = agent.held)
=============================================================================

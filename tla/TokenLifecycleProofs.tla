------------------------ MODULE TokenLifecycleProofs ------------------------
(***************************************************************************)
(* Proofs about TokenLifecycle, for every number of revisions, tokens,     *)
(* messages, drops and failures.  TokenInv, inductive, gives TokensCurrent,*)
(* NoForgottenToken and ValuesCurrent, which the run token_lifecycle       *)
(* checks; what must eventually happen to a token is left to the runs.     *)
(***************************************************************************)
EXTENDS TokenLifecycle, TLAPS

(* The policies a role can have: none, or those of some assignment.        *)
Pols == {0} \cup {s.policyOf[r] : s \in Settings, r \in Revs}

Bindings == [state : {"bound", "retired"}, rev : Revs, applied : BOOLEAN,
             accessor : 0 .. MaxTokens, setting : Settings]
TokenRows == [Tokens -> [live : BOOLEAN, rev : 0 .. MaxRev, pol : Pols]]
Locks == [at : {"idle", "apply", "secret", "revokeRetired"}, rev : 0 .. MaxRev,
          then : {"none", "push", "issue", "gone"}, victim : 0 .. MaxTokens]
Reports == [at : {"none", "save", "revoke"}, tok : 0 .. MaxTokens,
            rev : 0 .. MaxRev, open : BOOLEAN]
AgentRows == [set : 0 .. MaxRev, held : 0 .. MaxTokens, recorded : BOOLEAN]
Delivery == [rev : Revs, epoch : Nat, tok : 0 .. MaxTokens, fresh : BOOLEAN]

(* The types, of the store and OpenBao, of the session, and of the agent.  *)
StoreTypes ==
    /\ binding \in Bindings /\ bao \in [role : Pols, epoch : Nat]
    /\ tokens \in TokenRows /\ pc \in Locks
    /\ deleting \in {"no", "asked", "done"}
    /\ drops \in 0 .. MaxDrops /\ faults \in 0 .. MaxFaults

SessionTypes ==
    /\ up \in BOOLEAN /\ push \in BOOLEAN
    /\ toAgent \in Seq(Message) /\ toController \in Seq(Message)
    /\ issue \subseteq Revs /\ ready \subseteq Message
    /\ session \in [credentialed : 0 .. MaxRev, matched : BOOLEAN]
    /\ report \in Reports

AgentTypes ==
    /\ agent \in AgentRows /\ deliveries \subseteq Delivery
    /\ retrying \in BOOLEAN /\ revoking \subseteq Tokens

(* The holder of mutationMu works on the assignment that is stored, and    *)
(* asks for a SecretID only once it is applied.                            *)
Locked ==
    /\ pc.at \in {"apply", "secret"} => pc.rev = binding.rev /\ binding.state = "bound"
    /\ pc.at = "secret" => binding.applied

(* A credential carries no later epoch than the role has; with identity    *)
(* values, one of an applied binding that the role still takes is one of   *)
(* the binding's assignment.                                               *)
CredentialTrue(c) ==
    /\ c.rev \in Revs /\ c.epoch <= bao.epoch
    /\ HasValues /\ binding.state = "bound" /\ binding.applied /\ c.epoch = bao.epoch =>
          c.rev = binding.rev

Issued ==
    /\ \A c \in ready : c.type = "credential" /\ CredentialTrue(c)
    /\ \A m \in Queued(toAgent) : m.type = "credential" => CredentialTrue(m)
    /\ \A d \in deliveries : d.tok = 0 => CredentialTrue(d)

(* The token t is of the revision r while it lives.                        *)
Of(t, r) == t \in Tokens /\ (tokens[t].live => tokens[t].rev = r)

(* Whoever refers to a token with a revision is right about it.            *)
Owned ==
    /\ \A d \in deliveries : /\ d.tok # 0 => Of(d.tok, d.rev)
                             /\ d.fresh => d.rev = agent.set
    /\ agent.held # 0 => /\ Of(agent.held, agent.set) /\ agent.set # 0
                         /\ tokens[agent.held].live =>
                               tokens[agent.held].pol = PolicyOf[agent.set]
    /\ \A m \in Queued(toController) : m.type = "accessor" => Of(m.tok, m.rev)
    /\ report.at # "none" => Of(report.tok, report.rev)
    /\ RecordedTokenCurrent

TokenInv ==
    /\ StoreTypes /\ SessionTypes /\ AgentTypes
    /\ Locked /\ Issued /\ Owned /\ NoForgottenToken

-----------------------------------------------------------------------------
(* Numbers, queues and messages.                                           *)

LEMMA Numbers ==
    /\ MaxRev \in Nat /\ MaxTokens \in Nat /\ MaxDrops \in Nat /\ MaxFaults \in Nat
    /\ Revs \subseteq 0 .. MaxRev /\ 0 \in 0 .. MaxRev /\ 1 \in Revs /\ 0 \notin Revs
    /\ Tokens \subseteq 0 .. MaxTokens /\ 0 \in 0 .. MaxTokens /\ 0 \notin Tokens
    /\ \A t \in 0 .. MaxTokens : t # 0 => t \in Tokens
    /\ \A r \in 0 .. MaxRev : r # 0 => r \in Revs
  BY BoundAssumption DEF Revs, Tokens

LEMMA QueueAppend ==
    ASSUME NEW q \in Seq(Message), NEW m \in Message
    PROVE  Append(q, m) \in Seq(Message) /\ Queued(Append(q, m)) \subseteq Queued(q) \cup {m}
  BY DEF Queued

LEMMA QueueTail ==
    ASSUME NEW q \in Seq(Message), q # <<>>
    PROVE  /\ Head(q) \in Message /\ Head(q) \in Queued(q)
           /\ Tail(q) \in Seq(Message) /\ Queued(Tail(q)) \subseteq Queued(q)
  BY DEF Queued

LEMMA QueueEmpty == <<>> \in Seq(Message) /\ Queued(<<>>) = {}
  BY DEF Queued

LEMMA QueueSent ==
    ASSUME NEW q \in Seq(Message), NEW m \in Message
    PROVE  Sent(q, m) \in Seq(Message) /\ Queued(Sent(q, m)) \subseteq Queued(q) \cup {m}
  BY QueueAppend DEF Sent

LEMMA MessageTypes ==
    /\ \A r \in 0 .. MaxRev : PolicySet(r) \in Message
    /\ \A r \in 0 .. MaxRev : \A e \in Nat : Credential(r, e) \in Message
    /\ \A t \in 0 .. MaxTokens : Acknowledge(t) \in Message
    /\ \A t \in 0 .. MaxTokens : \A r \in 0 .. MaxRev : TokenAccessor(t, r) \in Message
    /\ Unbind \in Message /\ Inventory \in Message /\ Request \in Message
  BY Numbers DEF PolicySet, Credential, Acknowledge, TokenAccessor, Unbind, Inventory,
                 Request, Message

-----------------------------------------------------------------------------
(* Steps in which tokens only die.                                         *)

Dies == /\ tokens' \in TokenRows
        /\ \A x \in Tokens : tokens'[x].live => tokens'[x] = tokens[x]

LEMMA UnchangedDies ==
    ASSUME TokenInv, UNCHANGED tokens
    PROVE  Dies
  BY DEF TokenInv, StoreTypes, Dies

LEMMA DeadDies ==
    ASSUME TokenInv, NEW t \in Tokens, tokens' = [tokens EXCEPT ![t] = Dead]
    PROVE  Dies /\ ~ tokens'[t].live
<1>1. Dead \in [live : BOOLEAN, rev : 0 .. MaxRev, pol : Pols] /\ ~ Dead.live
  BY Numbers DEF Dead, Pols
<1> HIDE DEF Dead
<1> QED BY <1>1 DEF Dies, TokenInv, StoreTypes, TokenRows

LEMMA RevokedDies ==
    ASSUME TokenInv, NEW t \in 0 .. MaxTokens, tokens' = Revoked(t)
    PROVE  Dies /\ (t # 0 => ~ tokens'[t].live)
  BY Numbers, UnchangedDies, DeadDies DEF Revoked

LEMMA OfKept ==
    ASSUME Dies, NEW t, NEW r, Of(t, r)
    PROVE  Of(t, r)'
  BY DEF Dies, Of

(* What the agent, the deliveries, the reports and the messages say of     *)
(* tokens stays true.                                                      *)
AgentOwned ==
    agent.held # 0 => /\ Of(agent.held, agent.set) /\ agent.set # 0
                      /\ tokens[agent.held].live =>
                            tokens[agent.held].pol = PolicyOf[agent.set]

DeliveriesOwned ==
    \A d \in deliveries : (d.tok # 0 => Of(d.tok, d.rev)) /\ (d.fresh => d.rev = agent.set)

ReportsOwned ==
    /\ \A m \in Queued(toController) : m.type = "accessor" => Of(m.tok, m.rev)
    /\ report.at # "none" => Of(report.tok, report.rev)

LEMMA OwnedParts ==
    Owned <=> AgentOwned /\ DeliveriesOwned /\ ReportsOwned /\ RecordedTokenCurrent
  BY DEF Owned, AgentOwned, DeliveriesOwned, ReportsOwned

LEMMA AgentOwnedKept ==
    ASSUME TokenInv, Dies, UNCHANGED agent, binding'.setting = binding.setting
    PROVE  AgentOwned'
<1>1. AgentOwned
  BY OwnedParts DEF TokenInv
<1>2. CASE agent.held # 0
  <2>1. /\ Of(agent.held, agent.set)' /\ agent.set # 0 /\ agent.held \in Tokens
    BY <1>1, <1>2, OfKept DEF AgentOwned, Of
  <2>2. tokens'[agent.held].live => tokens'[agent.held].pol = PolicyOf'[agent.set]
    BY <1>1, <1>2, <2>1 DEF AgentOwned, Dies, PolicyOf
  <2> QED BY <2>1, <2>2 DEF AgentOwned
<1>3. CASE agent.held = 0
  BY <1>3 DEF AgentOwned
<1> QED BY <1>2, <1>3

LEMMA DeliveriesOwnedKept ==
    ASSUME TokenInv, Dies, UNCHANGED agent, deliveries' \subseteq deliveries
    PROVE  DeliveriesOwned'
  BY OfKept, OwnedParts DEF TokenInv, DeliveriesOwned

LEMMA ReportsOwnedKept ==
    ASSUME TokenInv, Dies, Queued(toController') \subseteq Queued(toController),
           report'.at # "none" =>
              report.at # "none" /\ report'.tok = report.tok /\ report'.rev = report.rev
    PROVE  ReportsOwned'
<1>1. \A m \in Queued(toController)' : m.type = "accessor" => Of(m.tok, m.rev)'
  BY OfKept, OwnedParts DEF TokenInv, ReportsOwned, Queued
<1>2. report'.at # "none" => Of(report.tok, report.rev)'
  <2>1. SUFFICES ASSUME report'.at # "none" PROVE Of(report.tok, report.rev)'
    OBVIOUS
  <2>2. Of(report'.tok, report'.rev)
    BY <2>1, OwnedParts DEF TokenInv, ReportsOwned
  <2> QED BY <2>2 DEF Of, Dies
<1> QED BY <1>1, <1>2 DEF ReportsOwned

(* The recorded token stays the binding's when the binding stays.          *)
LEMMA RecordedKept ==
    ASSUME TokenInv, Dies, UNCHANGED binding
    PROVE  RecordedTokenCurrent'
<1>1. binding.accessor # 0 => binding.accessor \in Tokens
  BY Numbers DEF TokenInv, StoreTypes, Bindings
<1> QED BY <1>1, OwnedParts DEF TokenInv, RecordedTokenCurrent, Dies

LEMMA ForgetKept ==
    ASSUME TokenInv, Dies, faults' = 0 => faults = 0, agent'.held = agent.held,
           deliveries' = deliveries, revoking \subseteq revoking'
    PROVE  NoForgottenToken'
  BY DEF TokenInv, NoForgottenToken, Dies

(* The credentials stay true when the role stays, and the binding or its   *)
(* application only goes.                                                  *)
LEMMA CredentialKept ==
    ASSUME NEW c, CredentialTrue(c), UNCHANGED bao, binding'.rev = binding.rev,
           binding'.setting = binding.setting, binding'.applied => binding.applied,
           binding'.state = "bound" => binding.state = "bound"
    PROVE  CredentialTrue(c)'
  BY DEF CredentialTrue, HasValues

LEMMA IssuedKept ==
    ASSUME TokenInv, UNCHANGED bao, binding'.rev = binding.rev,
           binding'.setting = binding.setting, binding'.applied => binding.applied,
           binding'.state = "bound" => binding.state = "bound",
           ready' \subseteq ready, Queued(toAgent') \subseteq Queued(toAgent),
           deliveries' \subseteq deliveries
    PROVE  Issued'
  BY CredentialKept DEF TokenInv, Issued, Queued

(* Fault and Lock.                                                         *)
LEMMA FaultType ==
    ASSUME TokenInv, Fault
    PROVE  faults' \in 0 .. MaxFaults /\ faults' # 0
  BY Numbers DEF Fault, TokenInv, StoreTypes

-----------------------------------------------------------------------------
(* Mutations of the controller.                                            *)

LEMMA ChangeBindingInv ==
    ASSUME TokenInv, ChangeBinding
    PROVE  TokenInv'
<1>1. /\ pc' = [at |-> "apply", rev |-> binding.rev + 1, then |-> "push", victim |-> 0]
      /\ binding' = [binding EXCEPT !.rev = binding.rev + 1, !.applied = FALSE]
      /\ binding.state = "bound" /\ binding.rev < MaxRev
      /\ UNCHANGED <<bao, tokens, deleting, push, issue, ready, session, report,
                     agentVars, channelVars, drops, faults>>
  BY DEF ChangeBinding, Lock
<1>2. binding.rev + 1 \in Revs /\ binding.rev + 1 \in 0 .. MaxRev /\ binding \in Bindings
  BY <1>1, Numbers DEF TokenInv, StoreTypes, Bindings, Revs
<1>3. /\ binding' \in Bindings /\ binding'.rev = binding.rev + 1 /\ ~ binding'.applied
      /\ binding'.state = "bound" /\ binding'.setting = binding.setting
  BY <1>1, <1>2 DEF Bindings
<1>4. StoreTypes'
  BY <1>1, <1>2, <1>3, Numbers DEF TokenInv, StoreTypes, Locks
<1>5. SessionTypes' /\ AgentTypes'
  BY <1>1 DEF TokenInv, SessionTypes, AgentTypes, agentVars, channelVars
<1>6. Locked'
  BY <1>1, <1>3 DEF Locked
<1>7. Issued'
  BY <1>1, <1>3 DEF TokenInv, Issued, CredentialTrue, agentVars, channelVars, Queued
<1>8. Owned'
  <2>1. AgentOwned' /\ DeliveriesOwned' /\ ReportsOwned'
    BY <1>1, <1>3, UnchangedDies, AgentOwnedKept, DeliveriesOwnedKept, ReportsOwnedKept
       DEF agentVars, channelVars
  <2>2. RecordedTokenCurrent'
    BY <1>3 DEF RecordedTokenCurrent
  <2> QED BY <2>1, <2>2, OwnedParts DEF Owned, AgentOwned, DeliveriesOwned, ReportsOwned
<1>9. NoForgottenToken'
  BY <1>1, UnchangedDies, ForgetKept DEF agentVars
<1> QED BY <1>4, <1>5, <1>6, <1>7, <1>8, <1>9 DEF TokenInv

(* A step of the controller that leaves the binding, OpenBao and the agent *)
(* alone, and takes nothing from the queues but what is at their head.     *)
LEMMA QuietInv ==
    ASSUME TokenInv, UNCHANGED <<binding, bao, agentVars>>, Dies,
           StoreTypes', SessionTypes', Locked',
           ready' \subseteq ready, Queued(toAgent') \subseteq Queued(toAgent),
           Queued(toController') \subseteq Queued(toController),
           report'.at # "none" =>
              report.at # "none" /\ report'.tok = report.tok /\ report'.rev = report.rev,
           faults' = 0 => faults = 0
    PROVE  TokenInv'
<1>1. AgentTypes'
  BY DEF TokenInv, AgentTypes, agentVars
<1>2. Issued'
  BY IssuedKept DEF agentVars
<1>3. AgentOwned' /\ DeliveriesOwned' /\ ReportsOwned' /\ RecordedTokenCurrent'
  BY AgentOwnedKept, DeliveriesOwnedKept, ReportsOwnedKept, RecordedKept DEF agentVars
<1>4. NoForgottenToken'
  BY ForgetKept DEF agentVars
<1> QED BY <1>1, <1>2, <1>3, <1>4
        DEF TokenInv, Owned, AgentOwned, DeliveriesOwned, ReportsOwned

LEMMA PrepareCredentialInv ==
    ASSUME TokenInv, NEW r \in Revs, PrepareCredential(r)
    PROVE  TokenInv'
<1>1. UNCHANGED <<binding, bao, tokens, deleting, push, ready, session, report,
                  agentVars, channelVars, drops, faults>> /\ issue' \subseteq issue
  BY DEF PrepareCredential
<1>2. \/ UNCHANGED pc
      \/ /\ pc' = [at |-> "apply", rev |-> r, then |-> "issue", victim |-> 0]
         /\ binding.state = "bound" /\ binding.rev = r
  BY DEF PrepareCredential, Lock
<1>3. StoreTypes'
  BY <1>1, <1>2, Numbers DEF TokenInv, StoreTypes, Locks
<1>4. SessionTypes'
  BY <1>1 DEF TokenInv, SessionTypes, channelVars
<1>5. Locked'
  BY <1>1, <1>2 DEF TokenInv, Locked
<1> QED BY <1>1, <1>3, <1>4, <1>5, UnchangedDies, QuietInv DEF channelVars

(* WriteRole and DeleteRole.                                               *)
LEMMA RoleTypes ==
    ASSUME TokenInv
    PROVE  /\ Cleared \in [role : Pols, epoch : Nat] /\ WrittenRole \in [role : Pols, epoch : Nat]
           /\ WrittenRole.epoch = Cleared.epoch
           /\ Cleared.epoch = IF HasValues THEN bao.epoch + 1 ELSE bao.epoch
           /\ DeleteRole(bao) \in [role : Pols, epoch : Nat]
           /\ DeleteRole(bao).epoch = bao.epoch + 1
<1>1. bao \in [role : Pols, epoch : Nat] /\ 0 \in Pols /\ PolicyOf[binding.rev] \in Pols
  BY DEF TokenInv, StoreTypes, Bindings, PolicyOf, Pols
<1>2. /\ DeleteRole(bao) \in [role : Pols, epoch : Nat]
      /\ DeleteRole(bao).epoch = bao.epoch + 1
  BY <1>1 DEF DeleteRole
<1>3. /\ Cleared \in [role : Pols, epoch : Nat]
      /\ Cleared.epoch = IF HasValues THEN bao.epoch + 1 ELSE bao.epoch
  BY <1>1, <1>2 DEF Cleared
<1>4. WrittenRole \in [role : Pols, epoch : Nat] /\ WrittenRole.epoch = Cleared.epoch
  <2> HIDE DEF Cleared
  <2> QED BY <1>1, <1>3 DEF WrittenRole, WriteRole
<1> QED BY <1>2, <1>3, <1>4

(* The lock is released or kept for the SecretID.                          *)
LEMMA ApplyReturns ==
    ASSUME TokenInv, ApplyBinding
    PROVE  /\ pc.at = "apply" /\ pc' \in Locks
           /\ pc'.at \in {"idle", "secret"} /\ push' \in BOOLEAN
           /\ pc'.at = "secret" => pc'.rev = pc.rev /\ (binding.applied \/ binding'.applied)
<1>1. Idle \in Locks /\ Idle.at = "idle"
  BY Numbers DEF Idle, Locks
<1>2. pc \in Locks /\ up \in BOOLEAN /\ push \in BOOLEAN
  BY DEF TokenInv, StoreTypes, SessionTypes
<1>3. /\ [pc EXCEPT !.at = "secret"] \in Locks /\ [pc EXCEPT !.at = "secret"].at = "secret"
      /\ [pc EXCEPT !.at = "secret"].rev = pc.rev
  BY <1>2 DEF Locks
<1>4. /\ pc.at = "apply"
      /\ pc' = Idle \/ pc' = [pc EXCEPT !.at = "secret"]
      /\ push' = up \/ push' = push
  BY DEF ApplyBinding
<1>5. binding \in Bindings
  BY DEF TokenInv, StoreTypes
<1>6. pc' = [pc EXCEPT !.at = "secret"] => \/ binding.applied
                                           \/ binding' = [binding EXCEPT !.applied = TRUE]
                                           \/ pc' = Idle
  BY DEF ApplyBinding
<1>7. binding' = [binding EXCEPT !.applied = TRUE] => binding'.applied
  BY <1>5 DEF Bindings
<1>8. push' \in BOOLEAN
  BY <1>2, <1>4
<1> QED BY <1>1, <1>3, <1>4, <1>6, <1>7, <1>8

(* The role is rewritten: no credential has the new epoch when there are   *)
(* values; without them, or before the mark, nothing is asked.             *)
LEMMA RewrittenIssued ==
    ASSUME TokenInv, bao'.epoch \in {bao.epoch, bao.epoch + 1},
           binding'.setting = binding.setting,
           binding'.applied => (HasValues => bao'.epoch = bao.epoch + 1),
           UNCHANGED <<ready, toAgent, deliveries>>
    PROVE  Issued'
<1>1. bao.epoch \in Nat /\ \A c \in ready \cup Queued(toAgent) \cup deliveries : c.epoch \in Nat
  <2>1. bao.epoch \in Nat /\ ready \subseteq Message /\ deliveries \subseteq Delivery
    BY DEF TokenInv, StoreTypes, SessionTypes, AgentTypes
  <2>2. Queued(toAgent) \subseteq Message
    BY DEF TokenInv, SessionTypes, Queued
  <2> QED BY <2>1, <2>2 DEF Message, Delivery
<1>2. ASSUME NEW c, c.epoch \in Nat, CredentialTrue(c) PROVE CredentialTrue(c)'
  <2>1. c.rev \in Revs /\ c.epoch <= bao.epoch
    BY <1>2 DEF CredentialTrue
  <2>2. c.epoch <= bao'.epoch
    BY <1>1, <1>2, <2>1
  <2>3. binding'.applied /\ HasValues => c.epoch # bao'.epoch
    BY <1>1, <1>2, <2>1
  <2> QED BY <2>1, <2>2, <2>3 DEF CredentialTrue, HasValues
<1> QED BY <1>1, <1>2 DEF TokenInv, Issued, Queued

LEMMA ApplyBindingInv ==
    ASSUME TokenInv, ApplyBinding
    PROVE  TokenInv'
<1>1. /\ UNCHANGED <<deleting, issue, ready, session, report, agentVars, channelVars, drops>>
      /\ binding \in Bindings /\ bao \in [role : Pols, epoch : Nat]
      /\ faults \in 0 .. MaxFaults /\ pc.rev = binding.rev /\ binding.state = "bound"
  BY ApplyReturns DEF ApplyBinding, TokenInv, StoreTypes, Locked
<1>2. SessionTypes' /\ AgentTypes'
  BY <1>1, ApplyReturns DEF TokenInv, SessionTypes, AgentTypes, agentVars, channelVars
<1>3. ASSUME binding' \in Bindings, binding'.rev = binding.rev, binding'.state = "bound"
      PROVE  Locked'
  <2>1. pc'.at = "secret" => binding.applied \/ binding'.applied
    BY ApplyReturns
  <2>2. binding.applied => binding' = binding \/ binding'.applied
    BY DEF ApplyBinding
  <2> QED BY <1>1, <1>3, <2>1, <2>2, ApplyReturns DEF Locked
<1>4. CASE UNCHANGED <<binding, bao, tokens, faults>>
  <2>1. StoreTypes'
    BY <1>1, <1>4, ApplyReturns DEF TokenInv, StoreTypes
  <2> QED BY <1>1, <1>2, <1>3, <1>4, <2>1, UnchangedDies, QuietInv DEF channelVars
<1>5. CASE /\ ~ binding.applied /\ bao' = WrittenRole /\ tokens' = Revoked(binding.accessor)
           /\ binding' = [binding EXCEPT !.applied = TRUE] /\ UNCHANGED faults
  <2>1. /\ binding' \in Bindings /\ binding'.rev = binding.rev /\ binding'.state = binding.state
        /\ binding'.setting = binding.setting /\ binding'.accessor = binding.accessor
    BY <1>1, <1>5 DEF Bindings
  <2>2. Dies /\ (binding.accessor # 0 => ~ tokens'[binding.accessor].live)
    BY <1>1, <1>5, RevokedDies DEF Bindings
  <2>3. StoreTypes'
    BY <1>1, <1>5, <2>1, <2>2, RoleTypes, ApplyReturns DEF TokenInv, StoreTypes, Dies
  <2>4. Issued'
    BY <1>1, <1>5, <2>1, RoleTypes, RewrittenIssued DEF agentVars, channelVars
  <2>5. AgentOwned' /\ DeliveriesOwned' /\ ReportsOwned'
    BY <1>1, <2>1, <2>2, AgentOwnedKept, DeliveriesOwnedKept, ReportsOwnedKept
       DEF agentVars, channelVars
  <2>6. RecordedTokenCurrent'
    BY <2>1, <2>2 DEF RecordedTokenCurrent
  <2>7. NoForgottenToken'
    BY <1>1, <1>5, <2>2, ForgetKept DEF agentVars
  <2> QED BY <1>1, <1>2, <1>3, <2>1, <2>3, <2>4, <2>5, <2>6, <2>7
          DEF TokenInv, Owned, AgentOwned, DeliveriesOwned, ReportsOwned
<1>6. CASE /\ ~ binding.applied /\ Fault /\ bao' \in {bao, Cleared, WrittenRole}
           /\ UNCHANGED <<binding, tokens>>
  <2>1. StoreTypes'
    BY <1>1, <1>6, RoleTypes, ApplyReturns, FaultType DEF TokenInv, StoreTypes
  <2>2. bao'.epoch \in {bao.epoch, bao.epoch + 1}
    BY <1>6, RoleTypes
  <2>3. Issued'
    BY <1>1, <1>6, <2>2, RewrittenIssued DEF agentVars, channelVars
  <2>4. Owned'
    <3>1. AgentOwned' /\ DeliveriesOwned' /\ ReportsOwned' /\ RecordedTokenCurrent'
      BY <1>1, <1>6, UnchangedDies, AgentOwnedKept, DeliveriesOwnedKept, ReportsOwnedKept,
         RecordedKept DEF agentVars, channelVars
    <3> QED BY <3>1 DEF Owned, AgentOwned, DeliveriesOwned, ReportsOwned
  <2>5. NoForgottenToken'
    BY <1>1, <1>6, UnchangedDies, FaultType, ForgetKept DEF agentVars
  <2> QED BY <1>1, <1>2, <1>3, <1>6, <2>1, <2>3, <2>4, <2>5 DEF TokenInv
<1> QED BY <1>4, <1>5, <1>6 DEF ApplyBinding

LEMMA IssueSecretInv ==
    ASSUME TokenInv, IssueSecret
    PROVE  TokenInv'
<1> DEFINE c == Credential(pc.rev, bao.epoch)
<1>1. /\ UNCHANGED <<binding, bao, tokens, deleting, push, issue, session, report,
                     agentVars, channelVars, drops>>
      /\ pc' = Idle /\ pc.at = "secret" /\ ready' \subseteq ready \cup {c}
      /\ UNCHANGED faults \/ Fault
  BY DEF IssueSecret, WrappedSecretID
<1>2. Idle \in Locks /\ Idle.at = "idle"
  BY Numbers DEF Idle, Locks
<1>3. /\ pc.rev = binding.rev /\ binding.rev \in Revs /\ bao.epoch \in Nat
      /\ c \in Message /\ c.type = "credential" /\ c.rev = binding.rev /\ c.epoch = bao.epoch
  <2>1. pc.rev = binding.rev /\ binding.rev \in Revs /\ bao.epoch \in Nat
    BY <1>1 DEF TokenInv, Locked, StoreTypes, Bindings
  <2>2. c \in Message
    BY <2>1, MessageTypes, Numbers
  <2> QED BY <2>1, <2>2 DEF Credential
<1>4. CredentialTrue(c)
  <2> HIDE DEF c
  <2> QED BY <1>3 DEF CredentialTrue
<1> HIDE DEF c
<1>5. faults' \in 0 .. MaxFaults /\ (faults' = 0 => faults = 0)
  BY <1>1, FaultType DEF TokenInv, StoreTypes
<1>6. StoreTypes'
  BY <1>1, <1>2, <1>5 DEF TokenInv, StoreTypes
<1>7. SessionTypes' /\ AgentTypes'
  BY <1>1, <1>3 DEF TokenInv, SessionTypes, AgentTypes, agentVars, channelVars
<1>8. Locked'
  BY <1>1, <1>2 DEF Locked
<1>9. Issued'
  <2>1. \A x : CredentialTrue(x) => CredentialTrue(x)'
    BY <1>1, CredentialKept
  <2> QED BY <1>1, <1>3, <1>4, <2>1 DEF TokenInv, Issued, agentVars, channelVars, Queued
<1>10. Owned'
  <2>1. AgentOwned' /\ DeliveriesOwned' /\ ReportsOwned' /\ RecordedTokenCurrent'
    BY <1>1, UnchangedDies, AgentOwnedKept, DeliveriesOwnedKept, ReportsOwnedKept,
       RecordedKept DEF agentVars, channelVars
  <2> QED BY <2>1 DEF Owned, AgentOwned, DeliveriesOwned, ReportsOwned
<1>11. NoForgottenToken'
  BY <1>1, <1>5, UnchangedDies, ForgetKept DEF agentVars
<1> QED BY <1>6, <1>7, <1>8, <1>9, <1>10, <1>11 DEF TokenInv

(* A step that leaves the agent alone, by what it must still show.         *)
LEMMA ControllerInv ==
    ASSUME TokenInv, Dies, UNCHANGED agentVars, binding'.setting = binding.setting,
           StoreTypes', SessionTypes', Locked', Issued', ReportsOwned',
           RecordedTokenCurrent', faults' = 0 => faults = 0
    PROVE  TokenInv'
<1>1. AgentTypes'
  BY DEF TokenInv, AgentTypes, agentVars
<1>2. AgentOwned' /\ DeliveriesOwned' /\ NoForgottenToken'
  BY AgentOwnedKept, DeliveriesOwnedKept, ForgetKept DEF agentVars
<1> QED BY <1>1, <1>2 DEF TokenInv, Owned, AgentOwned, DeliveriesOwned, ReportsOwned

(* What is put into the agent's queue is no credential, or a true one.     *)
LEMMA IssuedSent ==
    ASSUME TokenInv, UNCHANGED bao, binding'.rev = binding.rev,
           binding'.setting = binding.setting, binding'.applied => binding.applied,
           binding'.state = "bound" => binding.state = "bound",
           ready' \subseteq ready, deliveries' \subseteq deliveries,
           NEW m, m.type = "credential" => CredentialTrue(m),
           Queued(toAgent') \subseteq Queued(toAgent) \cup {m}
    PROVE  Issued'
<1>1. \A x : CredentialTrue(x) => CredentialTrue(x)'
  BY CredentialKept
<1>2. Queued(toAgent') = Queued(toAgent)'
  BY DEF Queued
<1> QED BY <1>1, <1>2 DEF TokenInv, Issued

LEMMA SendCredentialInv ==
    ASSUME TokenInv, NEW c \in ready, SendCredential(c)
    PROVE  TokenInv'
<1>1. /\ UNCHANGED <<binding, bao, tokens, pc, deleting, push, issue, report,
                     agentVars, up, toController, drops, faults>>
      /\ ready' \subseteq ready /\ toAgent' = Sent(toAgent, c)
  BY DEF SendCredential
<1>2. c \in Message /\ c.rev \in 0 .. MaxRev /\ toAgent \in Seq(Message)
  BY DEF TokenInv, SessionTypes, Message
<1>3. c.type = "credential" => CredentialTrue(c)
  BY DEF TokenInv, Issued
<1>4. toAgent' \in Seq(Message) /\ Queued(toAgent') \subseteq Queued(toAgent) \cup {c}
  BY <1>1, <1>2, QueueSent
<1>5. session' \in [credentialed : 0 .. MaxRev, matched : BOOLEAN]
  BY <1>2 DEF SendCredential, TokenInv, SessionTypes
<1>6. StoreTypes' /\ SessionTypes' /\ Locked'
  BY <1>1, <1>4, <1>5 DEF TokenInv, StoreTypes, SessionTypes, Locked
<1>7. Issued'
  BY <1>1, <1>3, <1>4, IssuedSent DEF agentVars
<1>8. ReportsOwned' /\ RecordedTokenCurrent'
  BY <1>1, UnchangedDies, ReportsOwnedKept, RecordedKept
<1> QED BY <1>1, <1>6, <1>7, <1>8, UnchangedDies, ControllerInv

LEMMA DeleteBindingInv ==
    ASSUME TokenInv, DeleteBinding
    PROVE  TokenInv'
<1>1. /\ UNCHANGED <<binding, bao, tokens, pc, push, issue, ready, session, report,
                     agentVars, up, toController, drops, faults>>
      /\ deleting' = "asked" /\ toAgent' = Sent(toAgent, Unbind)
  BY DEF DeleteBinding
<1>2. Unbind \in Message /\ Unbind.type # "credential" /\ toAgent \in Seq(Message)
  BY MessageTypes DEF TokenInv, SessionTypes, Unbind
<1>3. toAgent' \in Seq(Message) /\ Queued(toAgent') \subseteq Queued(toAgent) \cup {Unbind}
  BY <1>1, <1>2, QueueSent
<1>4. StoreTypes' /\ SessionTypes' /\ Locked'
  BY <1>1, <1>3 DEF TokenInv, StoreTypes, SessionTypes, Locked
<1>5. Issued'
  BY <1>1, <1>2, <1>3, IssuedSent DEF agentVars
<1>6. ReportsOwned' /\ RecordedTokenCurrent'
  BY <1>1, UnchangedDies, ReportsOwnedKept, RecordedKept
<1> QED BY <1>1, <1>4, <1>5, <1>6, UnchangedDies, ControllerInv

LEMMA RetireBindingInv ==
    ASSUME TokenInv, RetireBinding
    PROVE  TokenInv'
<1>1. /\ UNCHANGED <<tokens, push, issue, ready, session, report, agentVars,
                     channelVars, drops>>
      /\ pc' = [Idle EXCEPT !.at = "revokeRetired", !.victim = binding.accessor]
      /\ deleting' = "done"
      /\ binding' = [binding EXCEPT !.state = "retired", !.applied = FALSE, !.accessor = 0]
      /\ \/ bao' = DeleteRole(bao) /\ UNCHANGED faults
         \/ Fault /\ UNCHANGED bao
  BY DEF RetireBinding
<1>2. binding \in Bindings /\ binding.accessor \in 0 .. MaxTokens /\ faults \in 0 .. MaxFaults
  BY DEF TokenInv, StoreTypes, Bindings
<1>3. /\ binding' \in Bindings /\ binding'.setting = binding.setting
      /\ binding'.rev = binding.rev /\ ~ binding'.applied /\ binding'.state = "retired"
      /\ binding'.accessor = 0
  BY <1>1, <1>2, Numbers DEF Bindings
<1>4. Idle \in Locks
  BY Numbers DEF Idle, Locks
<1>5. pc' \in Locks /\ pc'.at = "revokeRetired"
  <2> HIDE DEF Idle
  <2> QED BY <1>1, <1>2, <1>4 DEF Locks
<1>6. faults' \in 0 .. MaxFaults /\ (faults' = 0 => faults = 0)
  BY <1>1, <1>2, FaultType
<1>7. bao' \in [role : Pols, epoch : Nat] /\ bao'.epoch \in {bao.epoch, bao.epoch + 1}
  BY <1>1, RoleTypes DEF TokenInv, StoreTypes
<1>8. StoreTypes' /\ SessionTypes' /\ Locked'
  BY <1>1, <1>3, <1>5, <1>6, <1>7 DEF TokenInv, StoreTypes, SessionTypes, Locked, channelVars
<1>9. Issued'
  BY <1>1, <1>3, <1>7, RewrittenIssued DEF agentVars, channelVars
<1>10. ReportsOwned'
  BY <1>1, UnchangedDies, ReportsOwnedKept DEF channelVars
<1>11. RecordedTokenCurrent'
  BY <1>3 DEF RecordedTokenCurrent
<1> QED BY <1>1, <1>3, <1>6, <1>8, <1>9, <1>10, <1>11, UnchangedDies, ControllerInv

LEMMA RevokeRetiredInv ==
    ASSUME TokenInv, RevokeRetired
    PROVE  TokenInv'
<1>1. /\ UNCHANGED <<binding, bao, deleting, issue, ready, session, report,
                     agentVars, channelVars, drops>>
      /\ pc' = Idle /\ push' = up
      /\ \/ tokens' = Revoked(pc.victim) /\ UNCHANGED faults
         \/ Fault /\ UNCHANGED tokens
  BY DEF RevokeRetired
<1>2. /\ pc.victim \in 0 .. MaxTokens /\ faults \in 0 .. MaxFaults
      /\ Idle \in Locks /\ Idle.at = "idle"
  BY Numbers DEF TokenInv, StoreTypes, Idle, Locks
<1>3. Dies /\ faults' \in 0 .. MaxFaults /\ (faults' = 0 => faults = 0)
  BY <1>1, <1>2, RevokedDies, UnchangedDies, FaultType
<1>4. StoreTypes' /\ Locked'
  BY <1>1, <1>2, <1>3 DEF TokenInv, StoreTypes, Locked, Dies
<1>5. SessionTypes'
  BY <1>1 DEF TokenInv, SessionTypes, channelVars
<1> QED BY <1>1, <1>3, <1>4, <1>5, QuietInv DEF channelVars

-----------------------------------------------------------------------------
(* The session on the controller.                                          *)

LEMMA PushInv ==
    ASSUME TokenInv, Push
    PROVE  TokenInv'
<1> DEFINE r == IF binding.state = "bound" THEN binding.rev ELSE 0
<1>1. /\ UNCHANGED <<binding, bao, tokens, pc, deleting, ready, report, agentVars,
                     up, toController, drops, faults>>
      /\ push' = FALSE /\ toAgent' = Sent(toAgent, PolicySet(r))
      /\ issue' = issue \/ (r # 0 /\ issue' = issue \cup {r})
      /\ session' = [credentialed |-> IF r = 0 THEN 0 ELSE session.credentialed,
                     matched |-> r # 0]
  BY DEF Push
<1>2. r \in 0 .. MaxRev /\ (r # 0 => r \in Revs)
  BY Numbers DEF TokenInv, StoreTypes, Bindings
<1> HIDE DEF r
<1>3. PolicySet(r) \in Message /\ PolicySet(r).type # "credential" /\ toAgent \in Seq(Message)
  BY <1>2, MessageTypes DEF TokenInv, SessionTypes, PolicySet
<1>4. toAgent' \in Seq(Message) /\ Queued(toAgent') \subseteq Queued(toAgent) \cup {PolicySet(r)}
  BY <1>1, <1>3, QueueSent
<1>5. session' \in [credentialed : 0 .. MaxRev, matched : BOOLEAN]
  <2>1. session.credentialed \in 0 .. MaxRev /\ 0 \in 0 .. MaxRev
    BY Numbers DEF TokenInv, SessionTypes
  <2>2. (r # 0) \in BOOLEAN
    OBVIOUS
  <2> QED BY <1>1, <2>1, <2>2
<1>6. issue' \subseteq Revs
  BY <1>1, <1>2 DEF TokenInv, SessionTypes
<1>7. StoreTypes' /\ Locked'
  BY <1>1 DEF TokenInv, StoreTypes, Locked
<1>8. SessionTypes'
  BY <1>1, <1>4, <1>5, <1>6 DEF TokenInv, SessionTypes
<1>9. Issued'
  BY <1>1, <1>3, <1>4, IssuedSent DEF agentVars
<1>10. ReportsOwned' /\ RecordedTokenCurrent'
  BY <1>1, UnchangedDies, ReportsOwnedKept, RecordedKept
<1> QED BY <1>1, <1>7, <1>8, <1>9, <1>10, UnchangedDies, ControllerInv

LEMMA HandleMessageInv ==
    ASSUME TokenInv, HandleMessage
    PROVE  TokenInv'
<1> DEFINE m == Head(toController)
<1>1. /\ UNCHANGED <<binding, bao, tokens, pc, deleting, ready, session, agentVars,
                     up, toAgent, drops, faults>>
      /\ toController # <<>> /\ toController' = Tail(toController)
      /\ \/ push' = TRUE /\ UNCHANGED <<issue, report>>
         \/ issue' \subseteq issue \cup {binding.rev} /\ UNCHANGED <<push, report>>
         \/ /\ m.type = "accessor" /\ UNCHANGED <<push, issue>>
            /\ report' = [at |-> IF Recordable(m.rev) THEN "save" ELSE "revoke",
                          tok |-> m.tok, rev |-> m.rev, open |-> TRUE]
  BY DEF HandleMessage
<1>2. /\ m \in Message /\ m \in Queued(toController) /\ toController' \in Seq(Message)
      /\ Queued(toController') \subseteq Queued(toController)
  BY <1>1, QueueTail DEF TokenInv, SessionTypes
<1> HIDE DEF m
<1>3. m.tok \in 0 .. MaxTokens /\ m.rev \in 0 .. MaxRev
  BY <1>2 DEF Message
<1>4. report' \in Reports
  <2>1. \A v \in {"save", "revoke"} : [at |-> v, tok |-> m.tok, rev |-> m.rev, open |-> TRUE] \in Reports
    BY <1>3 DEF Reports
  <2> QED BY <1>1, <2>1 DEF TokenInv, SessionTypes
<1>5. issue' \subseteq Revs /\ push' \in BOOLEAN
  BY <1>1 DEF TokenInv, StoreTypes, SessionTypes, Bindings
<1>6. StoreTypes' /\ Locked'
  BY <1>1 DEF TokenInv, StoreTypes, Locked
<1>7. SessionTypes'
  BY <1>1, <1>2, <1>4, <1>5 DEF TokenInv, SessionTypes
<1>8. Issued'
  BY <1>1, IssuedKept DEF agentVars
<1>9. ReportsOwned'
  <2>1. ReportsOwned /\ Queued(toController') = Queued(toController)'
    BY OwnedParts DEF TokenInv, Queued
  <2>2. \A t, n : Of(t, n) => Of(t, n)'
    BY <1>1, UnchangedDies, OfKept
  <2>3. \A x \in Queued(toController)' : x.type = "accessor" => Of(x.tok, x.rev)'
    BY <1>2, <2>1, <2>2 DEF ReportsOwned
  <2>4. CASE UNCHANGED report
    BY <2>1, <2>2, <2>3, <2>4 DEF ReportsOwned, Of
  <2>5. CASE m.type = "accessor" /\ report'.tok = m.tok /\ report'.rev = m.rev
    <3>1. Of(m.tok, m.rev)
      BY <1>2, <2>1, <2>5 DEF ReportsOwned
    <3>2. Of(report.tok, report.rev)'
      BY <1>1, <2>5, <3>1 DEF Of
    <3> QED BY <2>3, <3>2 DEF ReportsOwned
  <2> QED BY <1>1, <2>4, <2>5
<1>10. RecordedTokenCurrent'
  BY <1>1, UnchangedDies, RecordedKept
<1> QED BY <1>1, <1>6, <1>7, <1>8, <1>9, <1>10, UnchangedDies, ControllerInv

LEMMA ReportSaveInv ==
    ASSUME TokenInv, ReportSave
    PROVE  TokenInv'
<1>1. /\ UNCHANGED <<bao, tokens, pc, deleting, push, issue, ready, session, agentVars,
                     up, toController, drops, faults>>
      /\ report.at = "save"
  BY DEF ReportSave
<1>2. binding \in Bindings /\ report \in Reports /\ report.tok \in 0 .. MaxTokens
  BY DEF TokenInv, StoreTypes, SessionTypes, Reports
<1>3. CASE /\ Recordable(report.rev) /\ AckReport
           /\ binding' = [binding EXCEPT !.accessor = report.tok]
  <2>1. /\ binding' \in Bindings /\ binding'.setting = binding.setting
        /\ binding'.rev = binding.rev /\ binding'.applied = binding.applied
        /\ binding'.state = binding.state /\ binding'.accessor = report.tok
    BY <1>2, <1>3 DEF Bindings
  <2>2. Of(report.tok, binding.rev)
    BY <1>1, <1>3, OwnedParts DEF TokenInv, ReportsOwned, Recordable
  <2>3. toAgent' \in Seq(Message) /\ report' \in Reports /\ report'.at = "none"
    <3>1. report.tok \in 0 .. MaxTokens /\ toAgent \in Seq(Message)
      BY <1>2 DEF TokenInv, SessionTypes
    <3>2. toAgent' \in Seq(Message)
      BY <1>3, <3>1, MessageTypes, QueueSent DEF AckReport
    <3>3. report' \in Reports /\ report'.at = "none"
      BY <1>3, Numbers DEF AckReport, NoReport, Reports
    <3> QED BY <3>2, <3>3
  <2>4. Issued'
    <3>1. Acknowledge(report.tok) \in Message /\ Acknowledge(report.tok).type # "credential"
      BY <1>2, MessageTypes DEF Acknowledge
    <3>2. toAgent' = Sent(toAgent, Acknowledge(report.tok)) \/ toAgent' = toAgent
      BY <1>3 DEF AckReport
    <3>3. Queued(toAgent') \subseteq Queued(toAgent) \cup {Acknowledge(report.tok)}
      BY <3>1, <3>2, QueueSent DEF TokenInv, SessionTypes
    <3> QED BY <1>1, <2>1, <3>1, <3>3, IssuedSent DEF agentVars
  <2>5. StoreTypes' /\ SessionTypes' /\ Locked'
    BY <1>1, <2>1, <2>3 DEF TokenInv, StoreTypes, SessionTypes, Locked
  <2>6. ReportsOwned'
    BY <1>1, <2>3, UnchangedDies, ReportsOwnedKept
  <2>7. RecordedTokenCurrent'
    BY <1>1, <2>1, <2>2 DEF RecordedTokenCurrent, Of
  <2> QED BY <1>1, <2>1, <2>4, <2>5, <2>6, <2>7, UnchangedDies, ControllerInv
<1>4. CASE report' = [report EXCEPT !.at = "revoke"] /\ UNCHANGED <<binding, toAgent>>
  <2>1. report' \in Reports /\ report'.tok = report.tok /\ report'.rev = report.rev
    BY <1>2, <1>4 DEF Reports
  <2>2. StoreTypes' /\ SessionTypes' /\ Locked'
    BY <1>1, <1>4, <2>1 DEF TokenInv, StoreTypes, SessionTypes, Locked
  <2> QED BY <1>1, <1>4, <2>1, <2>2, UnchangedDies, QuietInv
<1> QED BY <1>3, <1>4 DEF ReportSave

LEMMA ReportRevokeInv ==
    ASSUME TokenInv, ReportRevoke
    PROVE  TokenInv'
<1>1. /\ UNCHANGED <<binding, bao, pc, deleting, push, issue, ready, session, agentVars,
                     up, toController, drops>>
      /\ report' = NoReport
      /\ \/ tokens' = Revoked(report.tok) /\ UNCHANGED faults
         \/ Fault /\ UNCHANGED tokens
      /\ \/ toAgent' = Sent(toAgent, Acknowledge(report.tok))
         \/ toAgent' = toAgent
  BY DEF ReportRevoke, AckReport
<1>2. /\ report.tok \in 0 .. MaxTokens /\ toAgent \in Seq(Message) /\ faults \in 0 .. MaxFaults
      /\ NoReport \in Reports /\ NoReport.at = "none"
  BY Numbers DEF TokenInv, StoreTypes, SessionTypes, Reports, NoReport
<1>3. Acknowledge(report.tok) \in Message /\ Acknowledge(report.tok).type # "credential"
  BY <1>2, MessageTypes DEF Acknowledge
<1>4. /\ toAgent' \in Seq(Message)
      /\ Queued(toAgent') \subseteq Queued(toAgent) \cup {Acknowledge(report.tok)}
  BY <1>1, <1>2, <1>3, QueueSent
<1>5. Dies /\ faults' \in 0 .. MaxFaults /\ (faults' = 0 => faults = 0)
  BY <1>1, <1>2, RevokedDies, UnchangedDies, FaultType
<1>6. StoreTypes' /\ SessionTypes' /\ Locked'
  BY <1>1, <1>2, <1>4, <1>5 DEF TokenInv, StoreTypes, SessionTypes, Locked, Dies
<1>7. Issued'
  BY <1>1, <1>3, <1>4, IssuedSent DEF agentVars
<1>8. ReportsOwned' /\ RecordedTokenCurrent'
  BY <1>1, <1>2, <1>5, ReportsOwnedKept, RecordedKept
<1> QED BY <1>1, <1>5, <1>6, <1>7, <1>8, ControllerInv

-----------------------------------------------------------------------------
(* The agent.                                                              *)

(* A step that leaves the controller alone, by what it must still show.    *)
LEMMA AgentInv ==
    ASSUME TokenInv, Dies, UNCHANGED <<binding, bao, pc, deleting, push, issue, ready,
                                       session, report, up, drops>>,
           faults' \in 0 .. MaxFaults, AgentTypes',
           toAgent' \in Seq(Message), toController' \in Seq(Message),
           Queued(toAgent') \subseteq Queued(toAgent),
           \A d \in deliveries' : d.tok = 0 => CredentialTrue(d),
           AgentOwned', DeliveriesOwned', ReportsOwned', NoForgottenToken'
    PROVE  TokenInv'
<1>1. StoreTypes' /\ SessionTypes' /\ Locked'
  BY DEF TokenInv, StoreTypes, SessionTypes, Locked, Dies
<1>2. \A x : CredentialTrue(x) => CredentialTrue(x)'
  BY CredentialKept
<1>3. Issued'
  BY <1>2 DEF TokenInv, Issued, Queued
<1>4. RecordedTokenCurrent'
  BY RecordedKept
<1> QED BY <1>1, <1>3, <1>4 DEF TokenInv, Owned, AgentOwned, DeliveriesOwned, ReportsOwned

(* The deliveries, made stale, keep what they carry.                       *)
LEMMA StaleTypes ==
    ASSUME TokenInv
    PROVE  /\ Stale(deliveries) \subseteq Delivery
           /\ \A x \in Stale(deliveries) : \E d \in deliveries :
                 x.rev = d.rev /\ x.epoch = d.epoch /\ x.tok = d.tok /\ ~ x.fresh
           /\ \A d \in deliveries : \E x \in Stale(deliveries) : x.tok = d.tok
<1>1. deliveries \subseteq Delivery
  BY DEF TokenInv, AgentTypes
<1>2. \A d \in deliveries : LET x == [d EXCEPT !.fresh = FALSE] IN
         x \in Delivery /\ x.rev = d.rev /\ x.epoch = d.epoch /\ x.tok = d.tok /\ ~ x.fresh
  BY <1>1 DEF Delivery
<1> QED BY <1>2 DEF Stale

(* A token that is dropped goes to a goroutine that revokes it, and every  *)
(* delivery becomes stale.                                                 *)
LEMMA TokenDropped ==
    ASSUME TokenInv, NEW r \in 0 .. MaxRev, agent' = WithoutToken(r), RevokeHeld,
           deliveries' = Stale(deliveries), retrying' \in BOOLEAN,
           UNCHANGED <<tokens, faults>>
    PROVE  /\ AgentTypes' /\ AgentOwned' /\ DeliveriesOwned' /\ NoForgottenToken'
           /\ \A d \in deliveries' : d.tok = 0 => CredentialTrue(d)
<1>1. agent' \in AgentRows /\ agent'.held = 0
  BY Numbers DEF WithoutToken, AgentRows
<1>2. /\ revoking' \subseteq Tokens /\ revoking \subseteq revoking'
      /\ agent.held \in Tokens => agent.held \in revoking'
  BY Numbers DEF TokenInv, AgentTypes, AgentRows, RevokeHeld
<1>3. AgentTypes' /\ AgentOwned'
  BY <1>1, <1>2, StaleTypes DEF AgentTypes, AgentOwned
<1>4. DeliveriesOwned'
  <2>1. \A x \in deliveries' : ~ x.fresh /\ (x.tok # 0 => Of(x.tok, x.rev))
    BY StaleTypes, OwnedParts DEF TokenInv, DeliveriesOwned
  <2>2. \A t, n : Of(t, n) => Of(t, n)'
    BY UnchangedDies, OfKept
  <2> QED BY <2>1, <2>2 DEF DeliveriesOwned
<1>5. NoForgottenToken'
  BY <1>2, StaleTypes DEF TokenInv, NoForgottenToken
<1>6. \A x \in deliveries' : x.tok = 0 => CredentialTrue(x)
  BY StaleTypes DEF TokenInv, Issued, CredentialTrue
<1> QED BY <1>3, <1>4, <1>5, <1>6

(* A credential of the assignment the agent has begins the only delivery   *)
(* that is not stale.                                                      *)
LEMMA CredentialReceived ==
    ASSUME TokenInv, NEW m \in Message, CredentialTrue(m), agent.set = m.rev,
           ReceiveCredential(m), UNCHANGED <<tokens, faults, binding>>
    PROVE  /\ AgentTypes' /\ AgentOwned' /\ DeliveriesOwned' /\ NoForgottenToken'
           /\ \A d \in deliveries' : d.tok = 0 => CredentialTrue(d)
<1> DEFINE n == [rev |-> m.rev, epoch |-> m.epoch, tok |-> 0, fresh |-> TRUE]
<1>1. /\ deliveries' = Stale(deliveries) \cup {n} /\ retrying' = FALSE
      /\ UNCHANGED <<agent, revoking>>
  BY DEF ReceiveCredential
<1>2. /\ n \in Delivery /\ n.rev = agent.set /\ n.tok = 0
      /\ CredentialTrue(n)
  <2>1. m.rev \in Revs /\ m.epoch \in Nat /\ 0 \in 0 .. MaxTokens
    BY Numbers DEF CredentialTrue, Message
  <2>2. CredentialTrue(n)
    BY DEF CredentialTrue
  <2> QED BY <2>1, <2>2 DEF Delivery
<1> HIDE DEF n
<1>3. AgentTypes'
  BY <1>1, <1>2, StaleTypes DEF TokenInv, AgentTypes
<1>4. AgentOwned'
  <2>1. AgentOwned
    BY OwnedParts DEF TokenInv
  <2> QED BY <1>1, <2>1 DEF AgentOwned, Of, PolicyOf
<1>5. DeliveriesOwned'
  <2>1. \A x \in Stale(deliveries) : ~ x.fresh /\ (x.tok # 0 => Of(x.tok, x.rev))
    BY StaleTypes, OwnedParts DEF TokenInv, DeliveriesOwned
  <2>2. \A t, k : Of(t, k) => Of(t, k)'
    BY UnchangedDies, OfKept
  <2> QED BY <1>1, <1>2, <2>1, <2>2 DEF DeliveriesOwned
<1>6. NoForgottenToken'
  BY <1>1, StaleTypes DEF TokenInv, NoForgottenToken
<1>7. \A x \in deliveries' : x.tok = 0 => CredentialTrue(x)
  <2>1. \A x \in Stale(deliveries) : x.tok = 0 => CredentialTrue(x)
    BY StaleTypes DEF TokenInv, Issued, CredentialTrue
  <2> QED BY <1>1, <1>2, <2>1
<1> QED BY <1>3, <1>4, <1>5, <1>6, <1>7

LEMMA ReceiveMessageInv ==
    ASSUME TokenInv, ReceiveMessage
    PROVE  TokenInv'
<1> DEFINE m == Head(toAgent)
<1>1. /\ UNCHANGED <<controllerVars, bao, tokens, up, toController, drops, faults>>
      /\ toAgent # <<>> /\ toAgent' = Tail(toAgent)
      /\ \/ ApplyPolicySet(m.rev)
         \/ m.type = "credential" /\ ReceiveCredential(m)
         \/ ReceiveUnbind
         \/ /\ agent' = [agent EXCEPT !.recorded = (agent.held = m.tok)]
            /\ UNCHANGED <<deliveries, retrying, revoking>>
  BY DEF ReceiveMessage
<1>2. /\ m \in Message /\ m \in Queued(toAgent) /\ toAgent' \in Seq(Message)
      /\ Queued(toAgent') \subseteq Queued(toAgent) /\ toController \in Seq(Message)
  BY <1>1, QueueTail DEF TokenInv, SessionTypes
<1> HIDE DEF m
<1>3. m.rev \in 0 .. MaxRev /\ 0 \in 0 .. MaxRev /\ faults \in 0 .. MaxFaults
  BY <1>2, Numbers DEF Message, TokenInv, StoreTypes
<1>4. Dies /\ ReportsOwned'
  BY <1>1, UnchangedDies, ReportsOwnedKept DEF controllerVars
<1>5. ASSUME AgentTypes', AgentOwned', DeliveriesOwned', NoForgottenToken',
             \A d \in deliveries' : d.tok = 0 => CredentialTrue(d)
      PROVE  TokenInv'
  BY <1>1, <1>2, <1>3, <1>4, <1>5, AgentInv DEF controllerVars
<1>6. CASE UNCHANGED agentVars
  <2>1. AgentTypes' /\ (\A d \in deliveries' : d.tok = 0 => CredentialTrue(d))
    BY <1>6 DEF TokenInv, AgentTypes, Issued, agentVars
  <2>2. AgentOwned' /\ DeliveriesOwned' /\ NoForgottenToken'
    BY <1>1, <1>4, <1>6, AgentOwnedKept, DeliveriesOwnedKept, ForgetKept
       DEF agentVars, controllerVars
  <2> QED BY <1>5, <2>1, <2>2
<1>7. ASSUME NEW r \in 0 .. MaxRev, agent' = WithoutToken(r), RevokeHeld,
             deliveries' = Stale(deliveries), retrying' \in BOOLEAN
      PROVE  TokenInv'
  BY <1>1, <1>5, <1>7, TokenDropped
<1>8. CASE ApplyPolicySet(m.rev)
  <2>1. (m.rev # 0) \in BOOLEAN
    OBVIOUS
  <2> QED BY <1>3, <1>6, <1>7, <1>8, <2>1 DEF ApplyPolicySet
<1>9. CASE ReceiveUnbind
  BY <1>3, <1>7, <1>9 DEF ReceiveUnbind
<1>10. CASE m.type = "credential" /\ ReceiveCredential(m)
  <2>1. CredentialTrue(m)
    BY <1>2, <1>10 DEF TokenInv, Issued
  <2>2. CASE agent.set = m.rev
    BY <1>1, <1>2, <1>5, <1>10, <2>1, <2>2, CredentialReceived DEF controllerVars
  <2>3. CASE agent.set # m.rev
    BY <1>6, <1>10, <2>3 DEF ReceiveCredential
  <2> QED BY <2>2, <2>3
<1>11. CASE /\ agent' = [agent EXCEPT !.recorded = (agent.held = m.tok)]
            /\ UNCHANGED <<deliveries, retrying, revoking>>
  <2>1. (agent.held = m.tok) \in BOOLEAN
    OBVIOUS
  <2>2. agent' \in AgentRows /\ agent'.held = agent.held /\ agent'.set = agent.set
    BY <1>11, <2>1 DEF TokenInv, AgentTypes, AgentRows
  <2>3. AgentTypes' /\ (\A d \in deliveries' : d.tok = 0 => CredentialTrue(d))
    BY <1>11, <2>2 DEF TokenInv, AgentTypes, Issued
  <2>4. NoForgottenToken'
    BY <1>1, <1>4, <1>11, <2>2, ForgetKept
  <2>5. AgentOwned' /\ DeliveriesOwned'
    <3>1. AgentOwned /\ DeliveriesOwned /\ PolicyOf' = PolicyOf
      BY <1>1, OwnedParts DEF TokenInv, PolicyOf, controllerVars
    <3>2. \A t, k : Of(t, k) => Of(t, k)'
      BY <1>4, OfKept
    <3>3. AgentOwned'
      BY <1>1, <2>2, <3>1, <3>2 DEF AgentOwned
    <3>4. DeliveriesOwned'
      BY <1>11, <2>2, <3>1, <3>2 DEF DeliveriesOwned
    <3> QED BY <3>3, <3>4
  <2> QED BY <1>5, <2>3, <2>4, <2>5
<1> QED BY <1>1, <1>8, <1>9, <1>10, <1>11

(* A delivery that logs in: the token it gets is one nobody refers to, so  *)
(* nothing that was said of a token changes.                               *)
LEMMA LoggedIn ==
    ASSUME TokenInv, NEW d \in deliveries, d.tok = 0, NEW t \in FreeTokens,
           tokens' = [tokens EXCEPT ![t] = AppRoleLogin(d.rev)],
           deliveries' = (deliveries \ {d}) \cup {[d EXCEPT !.tok = t]},
           UNCHANGED <<retrying, faults, controllerVars, bao, agent, revoking,
                       channelVars, drops>>
    PROVE  TokenInv'
<1> DEFINE n == [d EXCEPT !.tok = t]
<1>1. d \in Delivery /\ d.rev \in Revs /\ tokens \in TokenRows /\ bao.role \in Pols
  BY DEF TokenInv, AgentTypes, StoreTypes, Delivery
<1>2. t \in Tokens /\ t \in 0 .. MaxTokens /\ t # 0 /\ t \notin Referred
  BY Numbers DEF FreeTokens
<1>3. n \in Delivery /\ n.rev = d.rev /\ n.tok = t /\ n.fresh = d.fresh
  BY <1>1, <1>2 DEF Delivery
<1> HIDE DEF n
<1>4. deliveries' = (deliveries \ {d}) \cup {n}
  BY DEF n
<1>5. /\ AppRoleLogin(d.rev) \in [live : BOOLEAN, rev : 0 .. MaxRev, pol : Pols]
      /\ AppRoleLogin(d.rev).rev = d.rev
  BY <1>1, Numbers DEF AppRoleLogin
<1>6. /\ tokens' \in TokenRows /\ tokens'[t].rev = d.rev
      /\ \A x \in Tokens : x # t => tokens'[x] = tokens[x]
  <2> HIDE DEF AppRoleLogin
  <2> QED BY <1>1, <1>2, <1>5 DEF TokenRows
<1>7. \A x, r : x # t /\ Of(x, r) => Of(x, r)'
  BY <1>6 DEF Of
<1>8. /\ binding.accessor # t /\ report.tok # t /\ agent.held # t
      /\ \A m \in Queued(toController) : m.tok # t
      /\ \A x \in deliveries : x.tok # t
  BY <1>2 DEF Referred
<1>9. StoreTypes' /\ SessionTypes' /\ Locked'
  BY <1>6 DEF TokenInv, StoreTypes, SessionTypes, Locked, controllerVars, channelVars
<1>10. AgentTypes'
  BY <1>3, <1>4 DEF TokenInv, AgentTypes
<1>11. Issued'
  <2>1. \A x : CredentialTrue(x) => CredentialTrue(x)'
    BY CredentialKept DEF controllerVars
  <2>2. \A x \in deliveries' : x.tok = 0 => x \in deliveries
    BY <1>2, <1>3, <1>4
  <2> QED BY <2>1, <2>2 DEF TokenInv, Issued, Queued, controllerVars, channelVars
<1>12. AgentOwned'
  <2>1. AgentOwned /\ PolicyOf' = PolicyOf
    BY OwnedParts DEF TokenInv, PolicyOf, controllerVars
  <2>2. CASE agent.held # 0
    <3>1. Of(agent.held, agent.set) /\ agent.held \in Tokens /\ Of(agent.held, agent.set)'
      BY <1>6, <1>8, <2>1, <2>2 DEF AgentOwned, Of
    <3>2. tokens'[agent.held] = tokens[agent.held]
      BY <1>6, <1>8, <3>1
    <3> QED BY <2>1, <2>2, <3>1, <3>2 DEF AgentOwned
  <2>3. CASE agent.held = 0
    BY <2>3 DEF AgentOwned
  <2> QED BY <2>2, <2>3
<1>13. DeliveriesOwned'
  <2>1. Of(n.tok, n.rev)' /\ (n.fresh => n.rev = agent.set)
    <3>1. d.fresh => d.rev = agent.set
      BY OwnedParts DEF TokenInv, DeliveriesOwned
    <3> QED BY <1>2, <1>3, <1>6, <3>1 DEF Of
  <2>2. \A x \in deliveries \ {d} : (x.tok # 0 => Of(x.tok, x.rev)') /\ (x.fresh => x.rev = agent.set)
    BY <1>7, <1>8, OwnedParts DEF TokenInv, DeliveriesOwned
  <2> QED BY <1>3, <1>4, <2>1, <2>2 DEF DeliveriesOwned
<1>14. ReportsOwned'
  <2>1. ReportsOwned /\ Queued(toController)' = Queued(toController) /\ report' = report
    BY OwnedParts DEF TokenInv, channelVars, controllerVars, Queued
  <2>2. \A m \in Queued(toController) : m.type = "accessor" => Of(m.tok, m.rev)'
    BY <1>7, <1>8, <2>1 DEF ReportsOwned
  <2>3. report.at # "none" => Of(report.tok, report.rev)'
    BY <1>6, <1>8, <2>1 DEF ReportsOwned, Of
  <2> QED BY <2>1, <2>2, <2>3 DEF ReportsOwned
<1>15. RecordedTokenCurrent'
  <2>1. binding.accessor # 0 => binding.accessor \in Tokens
    BY Numbers DEF TokenInv, StoreTypes, Bindings
  <2>2. RecordedTokenCurrent
    BY OwnedParts DEF TokenInv
  <2> QED BY <1>6, <1>8, <2>1, <2>2 DEF RecordedTokenCurrent, controllerVars
<1>16. NoForgottenToken'
  <2>1. SUFFICES ASSUME faults' = 0, NEW x \in Tokens, tokens'[x].live
                 PROVE  agent'.held = x \/ x \in revoking' \/ \E e \in deliveries' : e.tok = x
    BY DEF NoForgottenToken
  <2>2. CASE x = t
    BY <1>3, <1>4, <2>2
  <2>3. CASE x # t
    <3>1. agent.held = x \/ x \in revoking \/ \E e \in deliveries : e.tok = x
      BY <1>6, <2>1, <2>3 DEF TokenInv, NoForgottenToken
    <3> QED BY <1>4, <3>1, Numbers
  <2> QED BY <2>2, <2>3
<1> QED BY <1>9, <1>10, <1>11, <1>12, <1>13, <1>14, <1>15, <1>16
        DEF TokenInv, Owned, AgentOwned, DeliveriesOwned, ReportsOwned

LEMMA LoginInv ==
    ASSUME TokenInv, NEW d \in deliveries, Login(d)
    PROVE  TokenInv'
<1>1. UNCHANGED <<controllerVars, bao, agent, revoking, channelVars, drops>> /\ d.tok = 0
  BY DEF Login
<1>2. CASE \E t \in FreeTokens :
              /\ tokens' = [tokens EXCEPT ![t] = AppRoleLogin(d.rev)]
              /\ deliveries' = (deliveries \ {d}) \cup {[d EXCEPT !.tok = t]}
              /\ UNCHANGED <<retrying, faults>>
  BY <1>1, <1>2, LoggedIn
<1>3. CASE /\ UNCHANGED faults \/ Fault
           /\ deliveries' = deliveries \ {d} /\ retrying' = (retrying \/ d.fresh)
           /\ UNCHANGED tokens
  <2>1. Dies /\ faults' \in 0 .. MaxFaults /\ (faults' = 0 => faults = 0)
    BY <1>3, UnchangedDies, FaultType DEF TokenInv, StoreTypes
  <2>2. (retrying \/ d.fresh) \in BOOLEAN
    OBVIOUS
  <2>3. AgentTypes'
    BY <1>1, <1>3, <2>2 DEF TokenInv, AgentTypes
  <2>4. AgentOwned' /\ DeliveriesOwned'
    BY <1>1, <1>3, <2>1, AgentOwnedKept, DeliveriesOwnedKept DEF controllerVars
  <2>5. ReportsOwned'
    BY <1>1, <2>1, ReportsOwnedKept DEF controllerVars, channelVars
  <2>6. NoForgottenToken'
    BY <1>1, <1>3, <2>1, Numbers DEF TokenInv, NoForgottenToken
  <2>7. toAgent' = toAgent /\ toController' = toController /\ toAgent \in Seq(Message)
        /\ toController \in Seq(Message)
    BY <1>1 DEF TokenInv, SessionTypes, channelVars
  <2>8. \A x \in deliveries' : x.tok = 0 => CredentialTrue(x)
    BY <1>3 DEF TokenInv, Issued
  <2> QED BY <1>1, <2>1, <2>3, <2>4, <2>5, <2>6, <2>7, <2>8, AgentInv
          DEF controllerVars, channelVars
<1> QED BY <1>2, <1>3 DEF Login

(* A step of a delivery that has its token.                                *)
LEMMA InstallInv ==
    ASSUME TokenInv, NEW d \in deliveries, Install(d)
    PROVE  TokenInv'
<1>1. /\ UNCHANGED <<controllerVars, bao, tokens, up, toAgent, drops, faults>>
      /\ d.tok # 0 /\ deliveries' = deliveries \ {d}
  BY DEF Install
<1>2. /\ d \in Delivery /\ d.tok \in Tokens /\ d.tok \in 0 .. MaxTokens /\ d.rev \in Revs
      /\ d.rev \in 0 .. MaxRev /\ d.rev # 0 /\ agent \in AgentRows
      /\ toAgent \in Seq(Message) /\ toController \in Seq(Message)
      /\ faults \in 0 .. MaxFaults
  <2>1. d \in Delivery /\ agent \in AgentRows /\ faults \in 0 .. MaxFaults
    BY DEF TokenInv, AgentTypes, StoreTypes
  <2>2. toAgent \in Seq(Message) /\ toController \in Seq(Message)
    BY DEF TokenInv, SessionTypes
  <2>3. d.tok \in 0 .. MaxTokens /\ d.rev \in Revs
    BY <2>1 DEF Delivery
  <2> QED BY <1>1, <2>1, <2>2, <2>3, Numbers
<1>3. Of(d.tok, d.rev) /\ (d.fresh => d.rev = agent.set)
  BY <1>1, OwnedParts DEF TokenInv, DeliveriesOwned
<1>4. Dies /\ (\A x \in deliveries' : x.tok = 0 => CredentialTrue(x))
  BY <1>1, UnchangedDies DEF TokenInv, Issued
<1>5. CASE /\ revoking' = revoking \cup {d.tok} /\ retrying' \in BOOLEAN
           /\ UNCHANGED <<agent, toController>>
  <2>1. AgentTypes'
    BY <1>1, <1>2, <1>5 DEF TokenInv, AgentTypes
  <2>2. AgentOwned' /\ DeliveriesOwned' /\ ReportsOwned'
    BY <1>1, <1>4, <1>5, AgentOwnedKept, DeliveriesOwnedKept, ReportsOwnedKept DEF controllerVars
  <2>3. NoForgottenToken'
    BY <1>1, <1>5 DEF TokenInv, NoForgottenToken
  <2> QED BY <1>1, <1>2, <1>4, <1>5, <2>1, <2>2, <2>3, AgentInv DEF controllerVars
<1>6. CASE /\ tokens[d.tok].pol = PolicyOf[d.rev] /\ d.fresh
           /\ agent' = [agent EXCEPT !.held = d.tok, !.recorded = FALSE]
           /\ RevokeHeld /\ UNCHANGED retrying
           /\ toController' = Sent(toController, TokenAccessor(d.tok, d.rev))
  <2> DEFINE a == TokenAccessor(d.tok, d.rev)
  <2>1. agent' \in AgentRows /\ agent'.held = d.tok /\ agent'.set = agent.set
    BY <1>2, <1>6 DEF AgentRows
  <2>2. /\ revoking' \subseteq Tokens /\ revoking \subseteq revoking'
        /\ agent.held \in Tokens => agent.held \in revoking'
    BY <1>6, Numbers DEF TokenInv, AgentTypes, AgentRows, RevokeHeld
  <2>3. a \in Message /\ a.tok = d.tok /\ a.rev = d.rev
    <3>1. a \in Message
      BY <1>2, MessageTypes
    <3> QED BY <3>1 DEF TokenAccessor
  <2> HIDE DEF a
  <2>4. toController' \in Seq(Message) /\ Queued(toController') \subseteq Queued(toController) \cup {a}
    BY <1>2, <1>6, <2>3, QueueSent DEF a
  <2>5. AgentTypes'
    BY <1>1, <1>6, <2>1, <2>2 DEF TokenInv, AgentTypes
  <2>6. \A x, r : Of(x, r) => Of(x, r)'
    BY <1>4, OfKept
  <2>7. AgentOwned'
    <3>1. Of(d.tok, agent.set)' /\ agent.set # 0
      BY <1>2, <1>3, <1>6, <2>6
    <3>2. tokens'[d.tok].pol = PolicyOf'[agent.set]
      BY <1>1, <1>3, <1>6 DEF PolicyOf, controllerVars
    <3> QED BY <2>1, <3>1, <3>2 DEF AgentOwned, Of
  <2>8. DeliveriesOwned'
    BY <1>1, <2>1, <2>6, OwnedParts DEF TokenInv, DeliveriesOwned
  <2>9. ReportsOwned'
    <3>1. ReportsOwned /\ Queued(toController') = Queued(toController)' /\ report' = report
      BY <1>1, OwnedParts DEF TokenInv, Queued, controllerVars
    <3>2. \A m \in Queued(toController)' : m.type = "accessor" => Of(m.tok, m.rev)'
      BY <1>3, <2>3, <2>4, <2>6, <3>1 DEF ReportsOwned
    <3>3. report.at # "none" => Of(report.tok, report.rev)'
      BY <1>1, <3>1 DEF ReportsOwned, Of
    <3> QED BY <3>1, <3>2, <3>3 DEF ReportsOwned
  <2>10. NoForgottenToken'
    BY <1>1, <2>1, <2>2 DEF TokenInv, NoForgottenToken
  <2> QED BY <1>1, <1>2, <1>4, <2>4, <2>5, <2>7, <2>8, <2>9, <2>10, AgentInv DEF controllerVars
<1>7. (retrying \/ d.fresh) \in BOOLEAN /\ retrying \in BOOLEAN
  BY DEF TokenInv, AgentTypes
<1> QED BY <1>5, <1>6, <1>7 DEF Install

LEMMA RequestSentInv ==
    ASSUME TokenInv, toController' \in Seq(Message),
           Queued(toController') \subseteq Queued(toController) \cup {Request},
           UNCHANGED <<controllerVars, bao, tokens, up, toAgent, agentVars, drops>>,
           UNCHANGED faults \/ Fault
    PROVE  TokenInv'
<1>1. Dies /\ faults' \in 0 .. MaxFaults /\ (faults' = 0 => faults = 0)
  BY UnchangedDies, FaultType DEF TokenInv, StoreTypes
<1>2. AgentTypes' /\ (\A x \in deliveries' : x.tok = 0 => CredentialTrue(x))
  BY DEF TokenInv, AgentTypes, Issued, agentVars
<1>3. AgentOwned' /\ DeliveriesOwned' /\ NoForgottenToken'
  BY <1>1, AgentOwnedKept, DeliveriesOwnedKept, ForgetKept DEF agentVars, controllerVars
<1>4. ReportsOwned'
  <2>1. ReportsOwned /\ Queued(toController') = Queued(toController)' /\ report' = report
    BY OwnedParts DEF TokenInv, Queued, controllerVars
  <2>2. \A x, r : Of(x, r) => Of(x, r)'
    BY <1>1, OfKept
  <2>3. \A m \in Queued(toController)' : m.type = "accessor" => Of(m.tok, m.rev)'
    BY <2>1, <2>2 DEF ReportsOwned, Request
  <2>4. report.at # "none" => Of(report.tok, report.rev)'
    BY <2>1 DEF ReportsOwned, Of
  <2> QED BY <2>1, <2>3, <2>4 DEF ReportsOwned
<1>5. toAgent \in Seq(Message)
  BY DEF TokenInv, SessionTypes
<1> QED BY <1>1, <1>2, <1>3, <1>4, <1>5, AgentInv DEF controllerVars, agentVars

LEMMA AgentRevokeInv ==
    ASSUME TokenInv, NEW t \in revoking, AgentRevoke(t)
    PROVE  TokenInv'
<1>1. /\ UNCHANGED <<controllerVars, bao, agent, deliveries, retrying, channelVars, drops>>
      /\ revoking' = revoking \ {t} /\ t \in Tokens
      /\ \/ tokens' = [tokens EXCEPT ![t] = Dead] /\ UNCHANGED faults
         \/ Fault /\ UNCHANGED tokens
  BY DEF AgentRevoke, RevokeSelf, TokenInv, AgentTypes
<1>2. /\ Dies /\ faults' \in 0 .. MaxFaults
      /\ faults' = 0 => faults = 0 /\ ~ tokens'[t].live
  BY <1>1, DeadDies, UnchangedDies, FaultType DEF TokenInv, StoreTypes
<1>3. AgentTypes' /\ (\A x \in deliveries' : x.tok = 0 => CredentialTrue(x))
  BY <1>1 DEF TokenInv, AgentTypes, Issued
<1>4. AgentOwned' /\ DeliveriesOwned' /\ ReportsOwned'
  BY <1>1, <1>2, AgentOwnedKept, DeliveriesOwnedKept, ReportsOwnedKept
     DEF controllerVars, channelVars
<1>5. NoForgottenToken'
  BY <1>1, <1>2 DEF TokenInv, NoForgottenToken, Dies
<1>6. toAgent \in Seq(Message) /\ toController \in Seq(Message)
  BY DEF TokenInv, SessionTypes
<1> QED BY <1>1, <1>2, <1>3, <1>4, <1>5, <1>6, AgentInv DEF controllerVars, channelVars

LEMMA ExpireInv ==
    ASSUME TokenInv, Expire
    PROVE  TokenInv'
<1>1. /\ UNCHANGED <<controllerVars, bao, deliveries, revoking, channelVars, drops>>
      /\ tokens' = Revoked(agent.held) /\ Fault /\ retrying' = TRUE
      /\ agent' = [agent EXCEPT !.held = 0, !.recorded = FALSE]
  BY DEF Expire
<1>2. agent \in AgentRows /\ agent.held \in 0 .. MaxTokens
  BY DEF TokenInv, AgentTypes, AgentRows
<1>3. Dies /\ faults' \in 0 .. MaxFaults /\ faults' # 0
  BY <1>1, <1>2, RevokedDies, FaultType
<1>4. agent' \in AgentRows /\ agent'.held = 0 /\ agent'.set = agent.set
  BY <1>1, <1>2, Numbers DEF AgentRows
<1>5. AgentTypes' /\ (\A x \in deliveries' : x.tok = 0 => CredentialTrue(x))
  BY <1>1, <1>4 DEF TokenInv, AgentTypes, Issued
<1>6. AgentOwned' /\ NoForgottenToken'
  BY <1>3, <1>4 DEF AgentOwned, NoForgottenToken
<1>7. DeliveriesOwned'
  BY <1>1, <1>3, <1>4, OfKept, OwnedParts DEF TokenInv, DeliveriesOwned
<1>8. ReportsOwned'
  BY <1>1, <1>3, ReportsOwnedKept DEF controllerVars, channelVars
<1>9. toAgent \in Seq(Message) /\ toController \in Seq(Message)
  BY DEF TokenInv, SessionTypes
<1> QED BY <1>1, <1>3, <1>5, <1>6, <1>7, <1>8, <1>9, AgentInv DEF controllerVars, channelVars

LEMMA AskInv ==
    ASSUME TokenInv, Retry \/ RenewalCapped
    PROVE  TokenInv'
<1>1. /\ UNCHANGED <<controllerVars, bao, tokens, up, toAgent, agentVars, drops>>
      /\ UNCHANGED faults \/ Fault
      /\ \/ toController' = Append(toController, Request)
         \/ toController' = Sent(toController, Request)
  BY DEF Retry, RenewalCapped
<1>2. toController \in Seq(Message) /\ Request \in Message
  BY MessageTypes DEF TokenInv, SessionTypes
<1>3. /\ toController' \in Seq(Message)
      /\ Queued(toController') \subseteq Queued(toController) \cup {Request}
  <2>1. /\ Append(toController, Request) \in Seq(Message)
        /\ Queued(Append(toController, Request)) \subseteq Queued(toController) \cup {Request}
    BY <1>2, QueueAppend
  <2>2. /\ Sent(toController, Request) \in Seq(Message)
        /\ Queued(Sent(toController, Request)) \subseteq Queued(toController) \cup {Request}
    BY <1>2, QueueSent
  <2> QED BY <1>1, <2>1, <2>2
<1> QED BY <1>1, <1>3, RequestSentInv

-----------------------------------------------------------------------------
(* The session opens and drops.                                            *)

LEMMA ConnectInv ==
    ASSUME TokenInv, Connect
    PROVE  TokenInv'
<1> DEFINE a == TokenAccessor(agent.held, agent.set)
<1>1. /\ UNCHANGED <<binding, bao, tokens, pc, deleting, push, issue, ready, report,
                     agentVars, drops, faults>>
      /\ up' = TRUE /\ toAgent' = <<>> /\ session' = NewSession
      /\ toController' = <<Inventory>> \o Unrecorded
  BY DEF Connect
<1>2. agent.held \in 0 .. MaxTokens /\ agent.set \in 0 .. MaxRev
  BY DEF TokenInv, AgentTypes, AgentRows
<1>3. /\ Inventory \in Message /\ Inventory.type # "accessor"
      /\ a \in Message /\ a.tok = agent.held /\ a.rev = agent.set
  <2>1. Inventory \in Message /\ a \in Message
    BY <1>2, MessageTypes
  <2> QED BY <2>1 DEF TokenAccessor, Inventory
<1>4. Unrecorded = <<>> \/ (agent.held # 0 /\ Unrecorded = <<a>>)
  BY DEF Unrecorded
<1> HIDE DEF a, Unrecorded, Inventory
<1>5. /\ toController' \in Seq(Message)
      /\ \A m \in Queued(toController') : m = Inventory \/ (agent.held # 0 /\ m = a)
  <2>1. CASE Unrecorded = <<>>
    <3>1. toController' = <<Inventory>>
      BY <1>1, <1>3, <2>1
    <3> QED BY <1>3, <3>1 DEF Queued
  <2>2. CASE agent.held # 0 /\ Unrecorded = <<a>>
    <3>1. <<Inventory>> \in Seq(Message) /\ <<a>> \in Seq(Message)
      BY <1>3
    <3>2. toController' \in Seq(Message) /\ toController' = <<Inventory>> \o <<a>>
      BY <1>1, <2>2, <3>1
    <3>3. \A m \in Queued(toController') : m = Inventory \/ m = a
      BY <3>1, <3>2 DEF Queued
    <3> QED BY <2>2, <3>2, <3>3
  <2> QED BY <1>4, <2>1, <2>2
<1>6. NewSession \in [credentialed : 0 .. MaxRev, matched : BOOLEAN]
  BY Numbers DEF NewSession
<1>7. StoreTypes' /\ Locked'
  BY <1>1 DEF TokenInv, StoreTypes, Locked
<1>8. SessionTypes'
  BY <1>1, <1>5, <1>6, QueueEmpty DEF TokenInv, SessionTypes
<1>9. Issued'
  BY <1>1, QueueEmpty, IssuedKept DEF agentVars
<1>10. ReportsOwned'
  <2>1. ReportsOwned /\ AgentOwned /\ Queued(toController') = Queued(toController)'
    BY OwnedParts DEF TokenInv, Queued
  <2>2. \A x, r : Of(x, r) => Of(x, r)'
    BY <1>1, UnchangedDies, OfKept
  <2>3. agent.held # 0 => Of(a.tok, a.rev)
    BY <1>3, <2>1 DEF AgentOwned
  <2>4. \A m \in Queued(toController)' : m.type = "accessor" => Of(m.tok, m.rev)'
    BY <1>3, <1>5, <2>1, <2>2, <2>3
  <2>5. report.at # "none" => Of(report.tok, report.rev)'
    BY <1>1, <2>1 DEF ReportsOwned, Of
  <2> QED BY <1>1, <2>4, <2>5 DEF ReportsOwned
<1>11. RecordedTokenCurrent'
  BY <1>1, UnchangedDies, RecordedKept
<1> QED BY <1>1, <1>7, <1>8, <1>9, <1>10, <1>11, UnchangedDies, ControllerInv

LEMMA DropInv ==
    ASSUME TokenInv, Drop
    PROVE  TokenInv'
<1>1. /\ UNCHANGED <<binding, bao, tokens, deleting, session, agentVars, faults>>
      /\ drops < MaxDrops /\ drops' = drops + 1 /\ up' = FALSE /\ push' = FALSE
      /\ toAgent' = <<>> /\ toController' = <<>> /\ issue' = {} /\ ready' = {}
      /\ report' = [report EXCEPT !.open = FALSE]
      /\ pc' = pc \/ pc' = [pc EXCEPT !.then = "gone"]
  BY DEF Drop
<1>2. pc \in Locks /\ report \in Reports /\ drops \in 0 .. MaxDrops
  BY DEF TokenInv, StoreTypes, SessionTypes
<1>3. pc' \in Locks /\ pc'.at = pc.at /\ pc'.rev = pc.rev
  BY <1>1, <1>2 DEF Locks
<1>4. /\ report' \in Reports /\ report'.tok = report.tok /\ report'.rev = report.rev
      /\ report'.at = report.at
  BY <1>1, <1>2 DEF Reports
<1>5. drops' \in 0 .. MaxDrops
  BY <1>1, <1>2, Numbers
<1>6. StoreTypes' /\ Locked'
  BY <1>1, <1>3, <1>5 DEF TokenInv, StoreTypes, Locked
<1>7. SessionTypes'
  BY <1>1, <1>4, QueueEmpty DEF TokenInv, SessionTypes
<1> QED BY <1>1, <1>4, <1>6, <1>7, QueueEmpty, UnchangedDies, QuietInv

-----------------------------------------------------------------------------
(* The invariant.                                                          *)

LEMMA InitInv == Init => TokenInv
<1>1. SUFFICES ASSUME Init PROVE TokenInv
  OBVIOUS
<1>2. PICK s \in Settings : binding = [state |-> "bound", rev |-> 1, applied |-> FALSE,
                                      accessor |-> 0, setting |-> s]
  BY <1>1 DEF Init
<1>3. binding \in Bindings /\ binding.state = "bound" /\ binding.accessor = 0 /\ ~ binding.applied
  BY <1>2, Numbers DEF Bindings
<1>4. Dead \in [live : BOOLEAN, rev : 0 .. MaxRev, pol : Pols] /\ ~ Dead.live
  BY Numbers DEF Dead, Pols
<1>5. tokens \in TokenRows /\ \A t \in Tokens : ~ tokens[t].live
  <2> HIDE DEF Dead
  <2> QED BY <1>1, <1>4 DEF Init, TokenRows
<1>6. Idle \in Locks /\ Idle.at = "idle"
  BY Numbers DEF Idle, Locks
<1>7. NoReport \in Reports /\ NoReport.at = "none"
  BY Numbers DEF NoReport, Reports
<1>8. WithoutToken(0) \in AgentRows /\ WithoutToken(0).held = 0
  BY Numbers DEF WithoutToken, AgentRows
<1>9. NewSession \in [credentialed : 0 .. MaxRev, matched : BOOLEAN]
  BY Numbers DEF NewSession
<1>10. bao \in [role : Pols, epoch : Nat]
  BY <1>1 DEF Init, Pols
<1>11. StoreTypes
  BY <1>1, <1>3, <1>5, <1>6, <1>10, Numbers DEF Init, StoreTypes
<1>12. SessionTypes /\ AgentTypes
  BY <1>1, <1>7, <1>8, <1>9, QueueEmpty DEF Init, SessionTypes, AgentTypes
<1>13. Locked /\ Issued
  BY <1>1, <1>6, QueueEmpty DEF Init, Locked, Issued
<1>14. Owned
  BY <1>1, <1>3, <1>7, <1>8, QueueEmpty DEF Init, Owned, RecordedTokenCurrent
<1>15. NoForgottenToken
  BY <1>5 DEF NoForgottenToken
<1> QED BY <1>11, <1>12, <1>13, <1>14, <1>15 DEF TokenInv

LEMMA StutterInv ==
    ASSUME TokenInv, UNCHANGED vars
    PROVE  TokenInv'
<1>1. StoreTypes' /\ Locked'
  BY DEF TokenInv, StoreTypes, Locked, vars
<1>2. SessionTypes'
  BY DEF TokenInv, SessionTypes, vars
<1> QED BY <1>1, <1>2, UnchangedDies, QuietInv DEF vars, agentVars

LEMMA NextInv == TokenInv /\ [Next]_vars => TokenInv'
<1>1. SUFFICES ASSUME TokenInv, [Next]_vars PROVE TokenInv'
  OBVIOUS
<1>2. CASE ChangeBinding \/ DeleteBinding
  BY <1>1, <1>2, ChangeBindingInv, DeleteBindingInv
<1>3. CASE Mutation
  BY <1>1, <1>3, PrepareCredentialInv, ApplyBindingInv, IssueSecretInv, RetireBindingInv,
     RevokeRetiredInv DEF Mutation
<1>4. CASE SessionStep
  BY <1>1, <1>4, PushInv, SendCredentialInv, HandleMessageInv, ReportSaveInv,
     ReportRevokeInv DEF SessionStep
<1>5. CASE AgentStep
  BY <1>1, <1>5, ReceiveMessageInv, LoginInv, InstallInv, AskInv, AgentRevokeInv DEF AgentStep
<1>6. CASE Expire \/ RenewalCapped \/ Connect \/ Drop
  BY <1>1, <1>6, ExpireInv, AskInv, ConnectInv, DropInv
<1>7. CASE UNCHANGED vars
  BY <1>1, <1>7, StutterInv
<1> QED BY <1>1, <1>2, <1>3, <1>4, <1>5, <1>6, <1>7 DEF Next

LEMMA TokenInvAlways == Spec => []TokenInv
  BY InitInv, NextInv, PTL DEF Spec

-----------------------------------------------------------------------------
(* The theorems.                                                           *)

LEMMA InvTypeOK == TokenInv => TypeOK
<1>1. SUFFICES ASSUME TokenInv PROVE TypeOK
  OBVIOUS
<1>2. \A t \in Tokens : tokens[t].live \in BOOLEAN /\ tokens[t].rev \in 0 .. MaxRev
  BY <1>1 DEF TokenInv, StoreTypes, TokenRows
<1>3. Queued(toAgent) \cup Queued(toController) \subseteq Message
  BY <1>1 DEF TokenInv, SessionTypes, Queued
<1>4. bao.epoch \in Nat /\ pc.at \in {"idle", "apply", "secret", "revokeRetired"}
  BY <1>1 DEF TokenInv, StoreTypes, Locks
<1> QED BY <1>1, <1>2, <1>3, <1>4
        DEF TokenInv, StoreTypes, SessionTypes, AgentTypes, Bindings, Reports, AgentRows,
            Delivery, TypeOK

(* Every token in use is one of the current assignment: a delivery that    *)
(* completes after another assignment arrived never installs its token     *)
(* (finishDelivery), and an accessor report that races an edit never       *)
(* leaves a live token of an older assignment recorded for a binding that  *)
(* is marked applied (recordAccessor, SaveAssignmentAccessor,              *)
(* applyBinding).                                                          *)
THEOREM TokensCurrentAlways == Spec => []TokensCurrent
<1>1. TokenInv => TokensCurrent
  BY InvTypeOK, OwnedParts DEF TokenInv, TokensCurrent, HeldMatchesSet, AgentOwned, Of
<1> QED BY <1>1, TokenInvAlways, PTL

(* While no call to OpenBao has failed, a live token is held by the agent, *)
(* in the hands of its delivery, or about to be revoked: none is dropped   *)
(* on the way through invalidate, retire, unbind or finishDelivery.        *)
THEOREM NoTokenForgotten == Spec => []NoForgottenToken
<1>1. TokenInv => NoForgottenToken
  BY DEF TokenInv
<1> QED BY <1>1, TokenInvAlways, PTL

(* Only a login makes a token live.                                        *)
LEMMA TokenBorn ==
    ASSUME TokenInv, [Next]_vars
    PROVE  \/ Dies
           \/ \E d \in deliveries : \E t \in Tokens :
                 /\ d.tok = 0 /\ Accepted(d)
                 /\ tokens' = [tokens EXCEPT ![t] = AppRoleLogin(d.rev)]
<1>1. CASE UNCHANGED tokens
  BY <1>1, UnchangedDies
<1>2. CASE \E t \in 0 .. MaxTokens : tokens' = Revoked(t)
  BY <1>2, RevokedDies
<1>3. CASE \E t \in revoking : tokens' = RevokeSelf(t)
  BY <1>3, DeadDies DEF RevokeSelf, TokenInv, AgentTypes
<1>4. CASE \E d \in deliveries : Login(d)
  BY <1>1, <1>4 DEF Login, FreeTokens
<1>5. /\ binding.accessor \in 0 .. MaxTokens /\ pc.victim \in 0 .. MaxTokens
      /\ report.tok \in 0 .. MaxTokens /\ agent.held \in 0 .. MaxTokens
  <2>1. binding \in Bindings /\ pc \in Locks /\ report \in Reports /\ agent \in AgentRows
    BY DEF TokenInv, StoreTypes, SessionTypes, AgentTypes
  <2> QED BY <2>1 DEF Bindings, Locks, Reports, AgentRows
<1>6. CASE Mutation
  BY <1>1, <1>2, <1>5, <1>6
     DEF Mutation, PrepareCredential, ApplyBinding, IssueSecret, RetireBinding, RevokeRetired
<1>7. CASE SessionStep
  BY <1>1, <1>2, <1>5, <1>7
     DEF SessionStep, Push, SendCredential, HandleMessage, ReportSave, ReportRevoke
<1>8. CASE AgentStep
  BY <1>1, <1>3, <1>4, <1>8 DEF AgentStep, ReceiveMessage, Install, Retry, AgentRevoke
<1>9. CASE \/ ChangeBinding \/ DeleteBinding \/ Expire \/ RenewalCapped
          \/ Connect \/ Drop \/ UNCHANGED vars
  BY <1>1, <1>2, <1>5, <1>9
     DEF ChangeBinding, DeleteBinding, Expire, RenewalCapped, Connect, Drop, vars
<1> QED BY <1>6, <1>7, <1>8, <1>9 DEF Next

(* With identity values, once an assignment is applied every login is made *)
(* with a SecretID of that assignment: the role was deleted before it was  *)
(* written, so no SecretID of an older one is still accepted.              *)
THEOREM ValuesCurrentAlways == Spec => ValuesCurrent
<1>1. TokenInv /\ [Next]_vars =>
        (HasValues /\ binding.state = "bound" /\ binding.applied =>
           \A t \in Tokens : ~tokens[t].live /\ tokens'[t].live => tokens'[t].rev = binding.rev)
  <2>1. SUFFICES ASSUME TokenInv, [Next]_vars, HasValues, binding.state = "bound",
                        binding.applied, NEW t \in Tokens, ~tokens[t].live, tokens'[t].live
                 PROVE  tokens'[t].rev = binding.rev
    OBVIOUS
  <2>2. ~ Dies
    BY <2>1 DEF Dies
  <2>3. PICK d \in deliveries, u \in Tokens :
          d.tok = 0 /\ Accepted(d) /\ tokens' = [tokens EXCEPT ![u] = AppRoleLogin(d.rev)]
    BY <2>1, <2>2, TokenBorn
  <2>4. u = t /\ tokens'[t].rev = d.rev
    BY <2>1, <2>3 DEF AppRoleLogin, TokenInv, StoreTypes, TokenRows
  <2>5. d.rev = binding.rev
    BY <2>1, <2>3 DEF TokenInv, Issued, CredentialTrue, Accepted
  <2> QED BY <2>4, <2>5
<1> QED BY <1>1, TokenInvAlways, PTL DEF Spec, ValuesCurrent
=============================================================================

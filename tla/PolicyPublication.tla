-------------------------- MODULE PolicyPublication --------------------------
(***************************************************************************)
(* Publication of policies and binding assignments by the controller       *)
(* (internal/controller/operations.go, policy_delete.go, policy_rename.go, *)
(* policy_retirement.go, store/store.go and store/policy_rename.go).       *)
(*                                                                         *)
(* The controller keeps the authoritative rows in SQLite and publishes     *)
(* them to OpenBao as ACL policies and AppRoles.  Every mutation runs      *)
(* under mutationMu, so at most one operation is in flight; what makes the *)
(* protocol hard is that each remote or durable call of an operation may   *)
(* fail, may succeed with its answer lost, and may be the last one before  *)
(* a crash.  One action models one such call, with all its outcomes.       *)
(***************************************************************************)
EXTENDS NoValue, Naturals, FiniteSets

CONSTANTS
    Names,           \* policy names
    Bindings,        \* binding identifiers; an identifier is never reused
    Contents,        \* policy documents (the HCL and everything else in them)
    Written,         \* the documents an operator writes under each name
    ValueBindings,   \* bindings whose settings carry identity values
    MaxGen,          \* bound: generations of one name
    MaxRev,          \* bound: revisions of a policy and of a binding
    MaxFaults        \* bound: failed calls and crashes

ASSUME BoundAssumption ==
    /\ MaxGen \in Nat
    /\ MaxRev \in Nat
    /\ MaxFaults \in Nat

ASSUME SettingAssumption ==
    /\ ValueBindings \subseteq Bindings
    /\ Written \in [Names -> SUBSET Contents]

(* The OpenBao name of a policy: one per name and generation.  The first   *)
(* generation keeps the plain name.  "--" cannot occur in a policy name,   *)
(* so the printed form is injective in the pair.                           *)
OpenBaoPolicyName(n, g) == <<n, IF g <= 1 THEN 1 ELSE g>>

Identity == Names \X (1 .. MaxGen)

Row == [gen : 1 .. MaxGen, rev : 1 .. MaxRev, hcl : Contents]

Source == [name : Names, row : Row]

Binding == [policies : SUBSET Names, eff : SUBSET Source,
            rev : 1 .. MaxRev, applied : BOOLEAN]

Role == SUBSET Identity

ASSUME NoneAssumption ==
    /\ None \notin Row
    /\ None \notin Binding
    /\ \A r \in Role : r # None
    /\ None \notin Contents

VARIABLES
    policies,      \* table policies: name -> row or None
    generations,   \* table policy_generations: name -> last generation given
    retirements,   \* table policy_retirements: identities to remove
    bindings,      \* table bindings with its membership rows
    retired,       \* table retired_bindings
    acl,           \* OpenBao: identity -> HCL or None
    roles,         \* OpenBao: binding -> token_policies of its AppRole or None
    pending,       \* policySyncPending, in memory only
    pc,            \* where the holder of mutationMu is; "idle" when it is free
    op,            \* what that holder works on
    wake,          \* retirementWake, a channel of capacity one
    worker,        \* the consumer runPolicyRetirements
    returning,     \* a RenamePolicy caller has unlocked but not yet woken it
    departed,      \* history: identities a stored row held and left
    reverted,      \* history: identities whose row was committed by a save that
                   \* took itself for failed, and has not been published since
    faults         \* failed calls and crashes so far

storeVars == <<policies, generations, retirements, bindings, retired, departed>>
baoVars == <<acl, roles>>
workerVars == <<wake, worker, returning>>
vars == <<policies, generations, retirements, bindings, retired, acl, roles,
          pending, pc, op, wake, worker, returning, departed, reverted, faults>>

----------------------------------------------------------------------------
(* Composition of an assignment.                                           *)

Stored == {n \in Names : policies[n] # None}

BoundIds == {b \in Bindings : bindings[b] # None}

Held == {OpenBaoPolicyName(n, policies[n].gen) : n \in Stored}

(* Faulty: composes the rows still stored, not the ones about to be.       *)
FaultyCompose(rows, P) == {[name |-> n, row |-> policies[n]] : n \in P}

(* compose over the rows a selection resolves to.                          *)
Compose(rows, P) == {[name |-> n, row |-> rows[n]] : n \in P}

EffNames(eff) == {s.name : s \in eff}

(* Faulty: the plain names, without their generations.                     *)
FaultyOpenBaoPolicies(eff) == EffNames(eff)

OpenBaoPolicies(eff) == {OpenBaoPolicyName(s.name, s.row.gen) : s \in eff}

(* The next assignment of every binding that selects name `from`, once the *)
(* row of `from` is replaced by `row` under name `to`.                     *)
Affected(from, to, row) ==
    LET rows == [policies EXCEPT ![to] = row]
        names(b) == {IF n = from THEN to ELSE n : n \in bindings[b].policies}
    IN  [b \in Bindings |->
            IF b \in BoundIds /\ from \in bindings[b].policies
              THEN [policies |-> names(b), eff |-> Compose(rows, names(b)),
                    rev |-> bindings[b].rev + 1, applied |-> FALSE]
              ELSE None]

(* Bound: every binding that selects the name may have one more revision.  *)
RevisionsLeft(name) ==
    \A b \in BoundIds : name \in bindings[b].policies => bindings[b].rev < MaxRev

(* The bindings a mutation changes, and the table once it commits.          *)
Changed(affected) == {b \in Bindings : affected[b] # None}

(* Faulty: a new assignment keeps the applied mark of the previous one.     *)
FaultyUpdated(affected) ==
    [b \in Bindings |->
        IF affected[b] # None /\ bindings[b] # None
          THEN [affected[b] EXCEPT !.applied = bindings[b].applied]
          ELSE IF affected[b] # None THEN affected[b] ELSE bindings[b]]

Updated(affected) ==
    [b \in Bindings |-> IF affected[b] # None THEN affected[b] ELSE bindings[b]]

(* Faulty: counts the rows of the table instead of the lasting generations. *)
FaultyNextPolicyGeneration(n) == IF policies[n] = None THEN 1 ELSE policies[n].gen

NextPolicyGeneration(n) == generations[n] + 1

----------------------------------------------------------------------------
(* The operation in flight.  from and name are the old and the new name (the *)
(* same but for a rename), row the document to publish, old the row it       *)
(* replaces, affected the binding rows to commit, todo the bindings still to *)
(* apply, ids the retirement records still to handle, failed whether any     *)
(* part failed, and then where a synchronisation or an apply loop goes on.   *)

NoOp == [name |-> None, from |-> None, row |-> None, old |-> None,
         affected |-> [b \in Bindings |-> None], todo |-> {}, ids |-> {},
         failed |-> FALSE, then |-> "idle"]

(* What a call that changes OpenBao or the store may do: take effect and    *)
(* answer, take effect with its answer lost, or fail without effect.  All   *)
(* but the first use up the fault budget.                                   *)
Outcome == {"ok", "lost", "failed"}

Counted(res) ==
    IF res = "ok" THEN UNCHANGED faults
                  ELSE faults < MaxFaults /\ faults' = faults + 1

(* The holder of mutationMu returns and releases it.                        *)
Return ==
    /\ pc' = "idle"
    /\ op' = NoOp

(* A RenamePolicy caller returns; its wake of the consumer is still to come. *)
ReturnRename ==
    /\ Return
    /\ returning' = TRUE
    /\ UNCHANGED <<wake, worker>>

Begin(there, operation) ==
    /\ pc = "idle"
    /\ pc' = there
    /\ op' = operation
    /\ UNCHANGED <<storeVars, baoVars, pending, reverted, workerVars, faults>>

DocIdentity == OpenBaoPolicyName(op.name, op.row.gen)

----------------------------------------------------------------------------
(* savePolicy: publish, commit, apply.                                      *)

SaveBegin(n, c) ==
    LET old == policies[n]
        row == IF old = None
                 THEN [gen |-> NextPolicyGeneration(n), rev |-> 1, hcl |-> c]
                 ELSE [gen |-> old.gen, rev |-> old.rev + 1, hcl |-> c]
        affected == Affected(n, n, row)
    IN  /\ c \in Written[n]
        /\ old # None => old.hcl # c
        /\ row \in Row
        /\ RevisionsLeft(n)
        /\ Begin("savePublish", [NoOp EXCEPT !.name = n, !.from = n, !.row = row,
                                 !.old = old, !.affected = affected])

SavePublish ==
    /\ pc = "savePublish"
    /\ \/ \E res \in Outcome :
            /\ Counted(res)
            /\ acl' = IF res = "failed" THEN acl
                      ELSE [acl EXCEPT ![DocIdentity] = op.row.hcl]
            /\ pc' = IF res = "ok" THEN "saveCommit" ELSE "restore"
            /\ UNCHANGED op
       \/ Return /\ UNCHANGED <<acl, faults>>   \* CategoryInvalid: rejected
    /\ UNCHANGED <<storeVars, roles, pending, reverted, workerVars>>

(* SavePolicyBindings, one transaction.  savePolicy takes its error at face  *)
(* value: a commit whose answer was lost is restored over like one that      *)
(* failed, and the store is not asked.                                       *)
SaveCommit ==
    /\ pc = "saveCommit"
    /\ \E res \in Outcome :
        /\ Counted(res)
        /\ IF res = "failed"
             THEN UNCHANGED <<policies, generations, bindings>>
             ELSE /\ policies' = [policies EXCEPT ![op.name] = op.row]
                  /\ generations' = [generations EXCEPT ![op.name] = op.row.gen]
                  /\ bindings' = Updated(op.affected)
        /\ pc' = IF res = "ok" THEN "apply" ELSE "restore"
        /\ op' = IF res = "ok" THEN [op EXCEPT !.todo = Changed(op.affected)]
                               ELSE op
        /\ reverted' = CASE res = "ok" -> reverted \ {DocIdentity}
                         [] res = "lost" -> reverted \cup {DocIdentity}
                         [] res = "failed" -> reverted
    /\ UNCHANGED <<retirements, retired, departed, baoVars, pending, workerVars>>

(* Faulty: a failed restoration does not ask for a synchronisation.          *)
FaultyRestore ==
    /\ pc = "restore"
    /\ \E res \in Outcome :
        /\ Counted(res)
        /\ acl' = CASE res = "failed" -> acl
                    [] op.old # None ->
                         [acl EXCEPT ![OpenBaoPolicyName(op.name, op.old.gen)] =
                                        op.old.hcl]
                    [] OTHER -> [acl EXCEPT ![DocIdentity] = None]
    /\ Return
    /\ UNCHANGED <<storeVars, roles, pending, reverted, workerVars>>

(* restorePolicy: publish the previous row again, or remove what a policy    *)
(* that did not exist may have published.                                    *)
Restore ==
    /\ pc = "restore"
    /\ \E res \in Outcome :
        /\ Counted(res)
        /\ acl' = CASE res = "failed" -> acl
                    [] op.old # None ->
                         [acl EXCEPT ![OpenBaoPolicyName(op.name, op.old.gen)] =
                                        op.old.hcl]
                    [] OTHER -> [acl EXCEPT ![DocIdentity] = None]
        /\ pending' = (pending \/ res # "ok")
    /\ Return
    /\ UNCHANGED <<storeVars, roles, reverted, workerVars>>

----------------------------------------------------------------------------
(* applyBinding, once per binding of a loop.  The role is deleted first when *)
(* the settings carry values; the recorded token is revoked before the       *)
(* binding is marked, and a failed revocation leaves it unmarked.            *)

ApplyBinding(b) ==
    LET granted == OpenBaoPolicies(bindings[b].eff)
        consistent == bindings[b].policies = EffNames(bindings[b].eff)
        rolesAfterError == {roles[b], granted} \cup
                             (IF b \in ValueBindings THEN {None} ELSE {})
    IN  /\ pc = "apply"
        /\ b \in op.todo
        /\ \/ /\ consistent
              /\ bindings[b].applied
              /\ op' = [op EXCEPT !.todo = @ \ {b}]
              /\ UNCHANGED <<roles, bindings, faults>>
           \/ /\ consistent
              /\ ~bindings[b].applied
              /\ roles' = [roles EXCEPT ![b] = granted]
              /\ bindings' = [bindings EXCEPT ![b].applied = TRUE]
              /\ op' = [op EXCEPT !.todo = @ \ {b}]
              /\ UNCHANGED faults
           \/ /\ consistent => ~bindings[b].applied
              /\ op' = [op EXCEPT !.todo = @ \ {b}, !.failed = TRUE]
              /\ IF consistent
                   THEN /\ Counted("failed")
                        /\ \/ /\ \E r \in rolesAfterError :
                                   roles' = [roles EXCEPT ![b] = r]
                              /\ UNCHANGED bindings
                           \/ /\ roles' = [roles EXCEPT ![b] = granted]
                              /\ bindings' = [bindings EXCEPT ![b].applied = TRUE]
                   ELSE UNCHANGED <<roles, bindings, faults>>
        /\ UNCHANGED <<policies, generations, retirements, retired, departed,
                       acl, pending, reverted, pc, workerVars>>

(* The end of an apply loop: a rename goes on to settle the retirements, a   *)
(* settlement to remove identities, an issuance to ask for the SecretID.     *)
ApplyDone ==
    /\ pc = "apply"
    /\ op.todo = {}
    /\ CASE op.then = "issueSecret" /\ ~op.failed ->
              /\ pc' = "issueSecret"
              /\ UNCHANGED <<op, workerVars>>
         [] op.then = "renameSettle" /\ ~op.failed ->
              /\ pc' = "settle"
              /\ op' = [NoOp EXCEPT !.then = "rename"]
              /\ UNCHANGED workerVars
         [] op.then = "renameSettle" /\ op.failed ->
              ReturnRename
         [] op.then \in {"rename", "worker"} /\ ~op.failed ->
              /\ pc' = "settleRemove"
              /\ UNCHANGED <<op, workerVars>>
         [] op.then = "rename" /\ op.failed ->
              ReturnRename
         [] op.then = "start" ->
              /\ Return
              /\ wake' = TRUE
              /\ UNCHANGED <<worker, returning>>
         [] OTHER ->
              Return /\ UNCHANGED workerVars
    /\ UNCHANGED <<storeVars, baoVars, pending, reverted, faults>>

----------------------------------------------------------------------------
(* deletePolicy: remove the published policy, then its row.                  *)

DeleteBegin(n) ==
    /\ policies[n] # None
    /\ \A b \in BoundIds : n \notin bindings[b].policies
    /\ Begin("deletePublish", [NoOp EXCEPT !.name = n, !.from = n,
                               !.row = policies[n], !.old = policies[n]])

DeletePublish ==
    /\ pc = "deletePublish"
    /\ \E res \in Outcome :
        /\ Counted(res)
        /\ acl' = IF res = "failed" THEN acl ELSE [acl EXCEPT ![DocIdentity] = None]
        /\ pc' = IF res = "ok" THEN "deleteCommit" ELSE "restore"
    /\ UNCHANGED <<storeVars, roles, pending, reverted, op, workerVars>>

DeleteCommit ==
    /\ pc = "deleteCommit"
    /\ \E res \in Outcome :
        /\ Counted(res)
        /\ IF res = "failed"
             THEN UNCHANGED <<policies, departed>>
             ELSE /\ policies' = [policies EXCEPT ![op.name] = None]
                  /\ departed' = departed \cup {DocIdentity}
        /\ IF res = "ok" THEN Return ELSE pc' = "deleteSettle" /\ UNCHANGED op
    /\ UNCHANGED <<generations, retirements, bindings, retired, baoVars, pending, reverted,
                   workerVars>>

(* Faulty: restores what it removed without asking the store.                *)
FaultyDeleteSettle ==
    /\ pc = "deleteSettle"
    /\ pc' = "restore"
    /\ UNCHANGED <<storeVars, baoVars, pending, reverted, op, workerVars, faults>>

(* settleFailedPolicyDelete: the store, not the failed call, decides.        *)
DeleteSettle ==
    /\ pc = "deleteSettle"
    /\ \/ /\ policies[op.name] = None
          /\ Return
          /\ UNCHANGED <<pending, faults>>
       \/ /\ policies[op.name] # None
          /\ pc' = "restore"
          /\ UNCHANGED <<op, pending, faults>>
       \/ /\ Counted("failed")                 \* the row could not be read
          /\ pending' = TRUE
          /\ Return
    /\ UNCHANGED <<storeVars, baoVars, reverted, workerVars>>

----------------------------------------------------------------------------
(* renamePolicy: record the new identity for retirement, publish it, commit, *)
(* apply, settle.  The request's revision and generation are the stored ones. *)

RenameBegin(n, m) ==
    /\ n # m
    /\ policies[n] # None
    /\ policies[m] = None
    /\ LET row == [gen |-> NextPolicyGeneration(m), rev |-> policies[n].rev + 1,
                   hcl |-> policies[n].hcl]
           affected == Affected(n, m, row)
       IN  /\ row \in Row
           /\ RevisionsLeft(n)
           /\ Begin("renameRecord", [NoOp EXCEPT !.name = m, !.from = n,
                        !.row = row, !.old = policies[n], !.affected = affected])

RenameRecord ==
    /\ pc = "renameRecord"
    /\ \E res \in Outcome :
        /\ Counted(res)
        /\ retirements' = IF res = "failed" THEN retirements
                          ELSE retirements \cup {DocIdentity}
        /\ IF res = "ok"
             THEN pc' = "renamePublish" /\ UNCHANGED <<op, workerVars>>
             ELSE ReturnRename
    /\ UNCHANGED <<policies, generations, bindings, retired, departed, baoVars,
                   pending, reverted>>

RenamePublish ==
    /\ pc = "renamePublish"
    /\ \/ \E res \in Outcome :
            /\ Counted(res)
            /\ acl' = IF res = "failed" THEN acl
                      ELSE [acl EXCEPT ![DocIdentity] = op.row.hcl]
            /\ pc' = IF res = "ok" THEN "renameCommit" ELSE "remove"
            /\ UNCHANGED <<op, retirements, workerVars>>
       \/ \E res \in Outcome :                   \* CategoryInvalid: rejected
            /\ Counted(res)
            /\ retirements' = IF res = "failed" THEN retirements
                              ELSE retirements \ {DocIdentity}
            /\ ReturnRename
            /\ UNCHANGED acl
    /\ UNCHANGED <<policies, generations, bindings, retired, departed, roles,
                   pending, reverted>>

(* store.RenamePolicy, one transaction.                                      *)
RenameCommit ==
    /\ pc = "renameCommit"
    /\ \E res \in Outcome :
        /\ Counted(res)
        /\ IF res = "failed"
             THEN UNCHANGED storeVars
             ELSE LET left == OpenBaoPolicyName(op.from, op.old.gen) IN
                  /\ policies' = [policies EXCEPT ![op.name] = op.row,
                                                  ![op.from] = None]
                  /\ generations' = [generations EXCEPT ![op.name] = op.row.gen]
                  /\ bindings' = Updated(op.affected)
                  /\ retirements' = (retirements \ {DocIdentity}) \cup {left}
                  /\ departed' = departed \cup {left}
                  /\ UNCHANGED retired
        /\ IF res = "ok"
             THEN /\ pc' = "apply"
                  /\ op' = [op EXCEPT !.todo = Changed(op.affected),
                                      !.then = "renameSettle"]
             ELSE pc' = "renameSettle" /\ UNCHANGED op
    /\ UNCHANGED <<baoVars, pending, reverted, workerVars>>

(* settleFailedRename: a committed rename goes on, another is removed.       *)
RenameSettle ==
    LET committed == /\ policies[op.name] # None
                     /\ policies[op.name].gen = op.row.gen
    IN  /\ pc = "renameSettle"
        /\ \/ /\ committed
              /\ pc' = "apply"
              /\ op' = [op EXCEPT !.todo = Changed(op.affected),
                                  !.then = "renameSettle"]
              /\ UNCHANGED <<workerVars, faults>>
           \/ /\ ~committed
              /\ pc' = "remove"
              /\ UNCHANGED <<op, workerVars, faults>>
           \/ Counted("failed") /\ ReturnRename    \* the row could not be read
        /\ UNCHANGED <<storeVars, baoVars, pending, reverted>>

(* Faulty: ends the record although the removal failed.                      *)
FaultyRemoveIdentity(i, res) ==
    /\ Counted(res)
    /\ \/ acl' = [acl EXCEPT ![i] = None]
       \/ res = "failed" /\ UNCHANGED acl
    /\ retirements' = retirements \ {i}

(* removePolicyIdentity: delete, read back, and only then end the record.    *)
RemoveIdentity(i, res) ==
    /\ Counted(res)
    /\ \/ acl' = [acl EXCEPT ![i] = None]
       \/ res = "failed" /\ UNCHANGED acl
    /\ retirements' = IF res = "failed" THEN retirements ELSE retirements \ {i}

(* What a rename that did not commit published is removed.                   *)
RenameRemove ==
    /\ pc = "remove"
    /\ \E res \in Outcome : RemoveIdentity(DocIdentity, res)
    /\ ReturnRename
    /\ UNCHANGED <<policies, generations, bindings, retired, departed, roles,
                   pending, reverted>>

----------------------------------------------------------------------------
(* syncPolicies: publish every stored row.  It stops at the first error, so  *)
(* an attempt that fails has published some of the rows.                     *)

Sync(ok) ==
    \E S \in SUBSET Stored :
        /\ acl' = [i \in Identity |->
                     IF \E n \in S : i = OpenBaoPolicyName(n, policies[n].gen)
                       THEN policies[i[1]].hcl ELSE acl[i]]
        /\ ok => S = Stored
        /\ pending' = ~ok
        /\ reverted' = IF ok THEN {} ELSE reverted
        /\ Counted(IF ok THEN "ok" ELSE "failed")

(* Faulty: the consumer sleeps after a pass that failed.                     *)
FaultySettleReturn(failed) ==
    IF op.then = "rename"
      THEN ReturnRename
      ELSE Return /\ worker' = "asleep" /\ UNCHANGED <<wake, returning>>

(* settlePolicyRetirements, by the consumer or at the end of a rename.       *)
SettleReturn(failed) ==
    IF op.then = "rename"
      THEN ReturnRename
      ELSE /\ Return
           /\ worker' = IF failed THEN "awake" ELSE "asleep"
           /\ UNCHANGED <<wake, returning>>

(* Faulty: removes identities before the bindings are applied.               *)
FaultySettle ==
    /\ pc = "settle"
    /\ pc' = "settleRemove"
    /\ op' = [op EXCEPT !.ids = retirements]
    /\ UNCHANGED <<storeVars, baoVars, pending, reverted, workerVars, faults>>

Settle ==
    /\ pc = "settle"
    /\ \/ /\ retirements = {}
          /\ SettleReturn(FALSE)
          /\ UNCHANGED <<acl, pending, reverted, faults>>
       \/ /\ retirements # {}
          /\ IF pending THEN Sync(TRUE) ELSE UNCHANGED <<acl, pending, reverted, faults>>
          /\ pc' = "apply"
          /\ op' = [op EXCEPT !.todo = {b \in BoundIds : ~bindings[b].applied},
                              !.ids = retirements]
          /\ UNCHANGED workerVars
       \/ /\ retirements # {}
          /\ pending
          /\ Sync(FALSE)
          /\ SettleReturn(TRUE)
       \/ /\ Counted("failed")                 \* a table could not be read
          /\ SettleReturn(TRUE)
          /\ UNCHANGED <<acl, pending, reverted>>
    /\ UNCHANGED <<storeVars, roles>>

(* One recorded identity.  A held one is not retired; a failed read of the   *)
(* rows ends the pass like the failure of every removal.                     *)
SettleIdentity(i) ==
    /\ pc = "settleRemove"
    /\ i \in op.ids
    /\ \E res \in Outcome :
        /\ IF i \in Held
             THEN /\ Counted(res)
                  /\ retirements' = IF res = "failed" THEN retirements
                                    ELSE retirements \ {i}
                  /\ UNCHANGED acl
             ELSE RemoveIdentity(i, res)
        /\ op' = [op EXCEPT !.ids = @ \ {i}, !.failed = @ \/ res # "ok"]
    /\ UNCHANGED <<policies, generations, bindings, retired, departed, roles,
                   pending, reverted, pc, workerVars>>

SettleDone ==
    /\ pc = "settleRemove"
    /\ op.ids = {}
    /\ SettleReturn(op.failed)
    /\ UNCHANGED <<storeVars, baoVars, pending, reverted, faults>>

(* The consumer: it sleeps until woken, and passes again while one fails.    *)
WorkerWake ==
    /\ pc # "down"
    /\ worker = "asleep"
    /\ wake
    /\ worker' = "awake"
    /\ wake' = FALSE
    /\ UNCHANGED <<storeVars, baoVars, pending, reverted, pc, op, returning, faults>>

WorkerPass ==
    /\ worker = "awake"
    /\ Begin("settle", [NoOp EXCEPT !.then = "worker"])

(* The last step of RenamePolicy, outside mutationMu.                        *)
RenameWake ==
    /\ returning
    /\ returning' = FALSE
    /\ wake' = TRUE
    /\ UNCHANGED <<storeVars, baoVars, pending, reverted, pc, op, worker, faults>>

----------------------------------------------------------------------------
(* Bindings: createBinding, changeBinding, deleteBinding.                    *)

CommitBinding(b, binding) ==
    Begin("bindingCommit", [NoOp EXCEPT !.affected = [@ EXCEPT ![b] = binding]])

CreateBinding(b, P) ==
    /\ bindings[b] = None
    /\ b \notin retired
    /\ P # {}
    /\ P \subseteq Stored
    /\ MaxRev >= 1
    /\ CommitBinding(b, [policies |-> P, eff |-> Compose(policies, P), rev |-> 1,
                         applied |-> FALSE])

ChangeBinding(b, P) ==
    /\ bindings[b] # None
    /\ P # {}
    /\ P \subseteq Stored
    /\ Compose(policies, P) # bindings[b].eff
    /\ bindings[b].rev + 1 <= MaxRev
    /\ CommitBinding(b, [policies |-> P, eff |-> Compose(policies, P),
                         rev |-> bindings[b].rev + 1, applied |-> FALSE])

(* The transaction that inserts or changes one binding; an error ends the    *)
(* operation, and what was committed stays to be applied later.              *)
BindingCommit ==
    /\ pc = "bindingCommit"
    /\ \E res \in Outcome :
        /\ Counted(res)
        /\ bindings' = IF res = "failed" THEN bindings
                       ELSE Updated(op.affected)
        /\ IF res = "ok"
             THEN /\ pc' = "apply"
                  /\ op' = [op EXCEPT !.todo = Changed(op.affected)]
             ELSE Return
    /\ UNCHANGED <<policies, generations, retirements, retired, departed, baoVars,
                   pending, reverted, workerVars>>

(* repeatBind: an operator key asks again for the selection a binding has,   *)
(* which applies it if that is still to be done.                             *)
RepeatBind(b) ==
    /\ bindings[b] # None
    /\ Begin("apply", [NoOp EXCEPT !.todo = {b}])

DeleteBinding(b) ==
    /\ bindings[b] # None
    /\ Begin("unbindRole", [NoOp EXCEPT !.todo = {b}])

(* DeleteRole; an error is reported and does not stop the retirement.        *)
UnbindRole ==
    /\ pc = "unbindRole"
    /\ \E res \in Outcome, b \in op.todo :
        /\ Counted(res)
        /\ roles' = IF res = "failed" THEN roles ELSE [roles EXCEPT ![b] = None]
    /\ pc' = "unbindRetire"
    /\ UNCHANGED <<storeVars, acl, pending, reverted, op, workerVars>>

UnbindRetire ==
    /\ pc = "unbindRetire"
    /\ \E res \in Outcome, b \in op.todo :
        /\ Counted(res)
        /\ IF res = "failed"
             THEN UNCHANGED <<bindings, retired>>
             ELSE /\ bindings' = [bindings EXCEPT ![b] = None]
                  /\ retired' = retired \cup {b}
    /\ Return
    /\ UNCHANGED <<policies, generations, retirements, departed, baoVars, pending, reverted,
                   workerVars>>

----------------------------------------------------------------------------
(* prepareCredential: synchronise if that is pending, re-read the binding,   *)
(* apply it, and only then ask OpenBao for a SecretID of its role.           *)

(* The push or the request that asks read the binding before it took the     *)
(* lock; `current` says whether its assignment is still the stored one.      *)
IssueBegin(b, current) ==
    /\ current => bindings[b] # None
    /\ Begin("issue", [NoOp EXCEPT !.todo = IF current THEN {b} ELSE {},
                                   !.affected = [@ EXCEPT ![b] = bindings[b]],
                                   !.then = "issueSecret"])

(* Faulty: issues although a synchronisation is pending.                     *)
FaultyIssue ==
    /\ pc = "issue"
    /\ IF op.todo = {} THEN Return ELSE pc' = "apply" /\ UNCHANGED op
    /\ UNCHANGED <<storeVars, baoVars, pending, reverted, workerVars, faults>>

Issue ==
    /\ pc = "issue"
    /\ \/ /\ IF pending THEN Sync(TRUE) ELSE UNCHANGED <<acl, pending, reverted, faults>>
          /\ IF op.todo = {} THEN Return ELSE pc' = "apply" /\ UNCHANGED op
       \/ /\ pending
          /\ Sync(FALSE)
          /\ Return
    /\ UNCHANGED <<storeVars, roles, workerVars>>

(* RoleID and WrappedSecretID; without the role there is no credential.      *)
IssueSecret ==
    /\ pc = "issueSecret"
    /\ Return
    /\ UNCHANGED <<storeVars, baoVars, pending, reverted, workerVars, faults>>

----------------------------------------------------------------------------
(* A crash loses everything in memory.  On start the controller publishes    *)
(* every row and applies every binding before it serves anything.            *)

Crash ==
    /\ pc # "down"
    /\ Counted("failed")
    /\ pc' = "down"
    /\ op' = NoOp
    /\ pending' = FALSE
    /\ wake' = FALSE
    /\ worker' = "asleep"
    /\ returning' = FALSE
    /\ UNCHANGED <<storeVars, baoVars, reverted>>

Start ==
    /\ pc = "down"
    /\ \/ /\ Sync(TRUE)
          /\ pc' = "apply"
          /\ op' = [NoOp EXCEPT !.todo = BoundIds, !.then = "start"]
          /\ UNCHANGED workerVars
       \/ /\ Sync(FALSE)
          /\ Return
          /\ wake' = TRUE
          /\ UNCHANGED <<worker, returning>>
    /\ UNCHANGED <<storeVars, roles>>

----------------------------------------------------------------------------

Init ==
    /\ policies = [n \in Names |-> None]
    /\ generations = [n \in Names |-> 0]
    /\ retirements = {}
    /\ bindings = [b \in Bindings |-> None]
    /\ retired = {}
    /\ acl = [i \in Identity |-> None]
    /\ roles = [b \in Bindings |-> None]
    /\ pending = FALSE
    /\ pc = "down"
    /\ op = NoOp
    /\ wake = FALSE
    /\ worker = "asleep"
    /\ returning = FALSE
    /\ departed = {}
    /\ reverted = {}
    /\ faults = 0

(* An operator's request or an agent's credential request.                   *)
Request ==
    \/ \E n \in Names, c \in Contents : SaveBegin(n, c)
    \/ \E n \in Names : DeleteBegin(n)
    \/ \E n, m \in Names : RenameBegin(n, m)
    \/ \E b \in Bindings, P \in SUBSET Names : CreateBinding(b, P)
    \/ \E b \in Bindings, P \in SUBSET Names : ChangeBinding(b, P)
    \/ \E b \in Bindings : RepeatBind(b) \/ DeleteBinding(b)
    \/ \E b \in Bindings, current \in BOOLEAN : IssueBegin(b, current)

(* The holder of mutationMu takes its next step.                             *)
Holder ==
    \/ SavePublish \/ SaveCommit \/ Restore
    \/ DeletePublish \/ DeleteCommit \/ DeleteSettle
    \/ RenameRecord \/ RenamePublish \/ RenameCommit \/ RenameSettle
    \/ RenameRemove
    \/ BindingCommit \/ UnbindRole \/ UnbindRetire
    \/ Issue \/ IssueSecret
    \/ \E b \in Bindings : ApplyBinding(b)
    \/ ApplyDone
    \/ Settle \/ SettleDone
    \/ \E i \in Identity : SettleIdentity(i)

Next ==
    \/ Request
    \/ Holder
    \/ WorkerPass
    \/ WorkerWake
    \/ RenameWake
    \/ Crash
    \/ Start

Spec == Init /\ [][Next]_vars

(* The holder of the mutex and the goroutines keep running, and Go's mutex  *)
(* hands itself to a starving waiter, so the consumer's pass gets its turn   *)
(* (strong fairness) however many requests arrive.                           *)
FairSpec ==
    /\ Spec
    /\ WF_vars(Holder)
    /\ WF_vars(Start)
    /\ WF_vars(WorkerWake)
    /\ WF_vars(RenameWake)
    /\ SF_vars(WorkerPass)

----------------------------------------------------------------------------
(* Properties.                                                              *)

Places ==
    {"idle", "down", "savePublish", "saveCommit", "restore", "apply",
     "deletePublish", "deleteCommit", "deleteSettle", "renameRecord",
     "renamePublish", "renameCommit", "renameSettle", "remove", "settle",
     "settleRemove", "bindingCommit", "unbindRole", "unbindRetire", "issue",
     "issueSecret"}

Operation ==
    [name : Names \cup {None}, from : Names \cup {None},
     row : Row \cup {None}, old : Row \cup {None},
     affected : [Bindings -> Binding \cup {None}],
     todo : SUBSET Bindings, ids : SUBSET Identity, failed : BOOLEAN,
     then : {"idle", "renameSettle", "rename", "worker", "start",
             "issueSecret"}]

(* Every variable has its type.                                             *)
TypeOK ==
    /\ policies \in [Names -> Row \cup {None}]
    /\ generations \in [Names -> 0 .. MaxGen]
    /\ retirements \subseteq Identity
    /\ bindings \in [Bindings -> Binding \cup {None}]
    /\ retired \subseteq Bindings
    /\ acl \in [Identity -> Contents \cup {None}]
    /\ roles \in [Bindings -> {None} \cup Role]
    /\ pending \in BOOLEAN
    /\ pc \in Places
    /\ op \in Operation
    /\ wake \in BOOLEAN
    /\ worker \in {"asleep", "awake"}
    /\ returning \in BOOLEAN
    /\ departed \subseteq Identity
    /\ reverted \subseteq Identity
    /\ faults \in 0 .. MaxFaults

Published(n) == acl[OpenBaoPolicyName(n, policies[n].gen)] = policies[n].hcl

Reverted(n) == OpenBaoPolicyName(n, policies[n].gen) \in reverted

(* What the comments of operations.go claim: SQLite is the authority, so    *)
(* whenever mutationMu is free and no synchronisation is pending, OpenBao   *)
(* enforces exactly the stored HCL of every policy, whatever failed, got    *)
(* lost or crashed before.  A save whose commit loses its answer breaks it. *)
PublishedMatchesStore ==
    pc = "idle" /\ ~pending => \A n \in Stored : Published(n)

(* What the code keeps of it: only a row whose own save committed with its  *)
(* answer lost can be stored and not published, and only until the next     *)
(* save of it or the next synchronisation.  Nothing else that fails, gets   *)
(* lost or crashes, in a delete or a rename as well, leaves the two apart.  *)
PublishedUnlessReverted ==
    pc = "idle" /\ ~pending => \A n \in Stored : Published(n) \/ Reverted(n)

(* A binding's stored assignment is always composed from the rows as they   *)
(* are stored now: no save, rename or delete leaves one behind.             *)
EffectiveCurrent ==
    \A b \in BoundIds :
        /\ bindings[b].policies \subseteq Stored
        /\ bindings[b].eff = Compose(policies, bindings[b].policies)

(* A binding marked applied never has a role that grants anything else than *)
(* its assignment; an unapplied one may still grant the previous.           *)
AppliedGrants ==
    \A b \in BoundIds : bindings[b].applied =>
        roles[b] \in {None, OpenBaoPolicies(bindings[b].eff)}

(* The gate of prepareCredential: a SecretID is requested only when no      *)
(* synchronisation is pending, the binding is applied, its role grants its  *)
(* assignment, and OpenBao enforces the stored HCL of each granted policy,  *)
(* save a row that a lost commit answer left reverted.                      *)
IssuanceGate ==
    pc = "issueSecret" => \A b \in Changed(op.affected) :
        /\ ~pending
        /\ bindings[b] # None
        /\ bindings[b].applied
        /\ roles[b] \in {None, OpenBaoPolicies(bindings[b].eff)}
        /\ \A n \in bindings[b].policies :
              n \in Stored /\ (Published(n) \/ Reverted(n))

(* An identity that a row left is never held by a row again, so a token that *)
(* outlives its binding cannot reach a later policy of the same name.       *)
IdentityNotReused == Held \cap departed = {}

(* An OpenBao policy never outlives its row: once a row leaves an identity,  *)
(* the identity is absent from OpenBao or recorded for removal.             *)
DepartedIsTracked ==
    \A i \in departed : acl[i] # None => i \in retirements

(* ... and once absent it is never published again, by no restoration, no   *)
(* synchronisation and no later save or rename.                             *)
DepartedStaysGone ==
    [][\A i \in departed : acl[i] = None => acl'[i] = None]_vars

(* settlePolicyRetirements removes no identity that the role of a stored    *)
(* binding still grants: the old ACL stays while a transition is pending.   *)
RetirementSparesRoles ==
    [][pc = "settleRemove" =>
         \A i \in Identity : acl[i] # None /\ acl'[i] = None =>
            \A b \in BoundIds : roles[b] # None => i \notin roles[b]]_vars

(* Every identity recorded for removal is removed, without a client and     *)
(* without a restart, once the failures stop.                               *)
RetirementsDrain == []<>(retirements = {})
=============================================================================

---------------------------- MODULE PolicyProofs ----------------------------
(***************************************************************************)
(* Proofs about policies, for every value of the constants.                *)
(* About PolicyPublication, in three parts.  AssignmentInv, inductive,     *)
(* gives the types and the current assignments; GrantInv, inductive        *)
(* together with it, what the roles grant and that a settlement removes no *)
(* identity they grant.  IdentityInv is about the identities, PublishedInv *)
(* about what OpenBao enforces.                                            *)
(* About PolicyComposition, ComposeInv, inductive: the assignment is at    *)
(* every turn of the loop the union of the policies taken so far.  The     *)
(* rest is about the texts of the documents.                               *)
(***************************************************************************)
EXTENDS PolicyPublication, PolicyComposition, FiniteSetTheorems, WellFoundedInduction, TLAPS

(* The places of savePolicy, deletePolicy and renamePolicy before they     *)
(* commit, and every place whose operation has a document.                 *)
Saving == {"savePublish", "saveCommit"}
Deleting == {"deletePublish", "deleteCommit"}
Renaming == {"renameRecord", "renamePublish", "renameCommit"}
WithDocument == Saving \cup Deleting \cup Renaming \cup
                  {"restore", "deleteSettle", "renameSettle", "remove"}

(* An operation on a policy carries its two names and the row to publish.  *)
OpDocument ==
    pc \in WithDocument => /\ op.name \in Names
                           /\ op.from \in Names
                           /\ op.row \in Row

(* A save is computed from the rows and bindings as they are until it      *)
(* commits.                                                                *)
OpSave ==
    pc \in Saving => /\ op.from = op.name
                     /\ op.old = policies[op.name]
                     /\ op.affected = Affected(op.from, op.name, op.row)
                     /\ RevisionsLeft(op.from)

(* A delete removes the stored row, and no binding selects its name.       *)
OpDelete ==
    pc \in Deleting => /\ op.row = policies[op.name]
                       /\ op.old = policies[op.name]
                       /\ \A b \in BoundIds : op.name \notin bindings[b].policies

(* A rename is computed from the rows and bindings as they are until it    *)
(* commits.                                                                *)
OpRename ==
    pc \in Renaming => /\ policies[op.from] # None
                       /\ policies[op.name] = None
                       /\ op.old = policies[op.from]
                       /\ op.affected = Affected(op.from, op.name, op.row)
                       /\ RevisionsLeft(op.from)

(* The bindings an operation is about to apply, unbind or settle have      *)
(* rows.                                                                   *)
OpTodo ==
    /\ pc \in {"apply", "issue", "unbindRole", "unbindRetire"} =>
         op.todo \subseteq BoundIds
    /\ pc = "renameSettle" => Changed(op.affected) \subseteq BoundIds

(* A binding to commit is composed from the stored rows and is not         *)
(* applied.                                                                *)
OpBinding ==
    pc = "bindingCommit" => \A b \in Changed(op.affected) :
        /\ op.affected[b].policies \subseteq Stored
        /\ op.affected[b].eff = Compose(policies, op.affected[b].policies)
        /\ ~op.affected[b].applied

Shape == OpDocument /\ OpSave /\ OpDelete /\ OpRename /\ OpTodo /\ OpBinding

(* The inductive invariant of the assignments: what the holder of          *)
(* mutationMu carries agrees with the tables it read, because no other     *)
(* mutation runs in between.                                               *)
AssignmentInv == TypeOK /\ Shape /\ EffectiveCurrent

(* The identity of a name and a generation within the bound is an          *)
(* identity.                                                               *)
LEMMA IdentityOfName ==
    ASSUME NEW n \in Names, NEW g \in 1 .. MaxGen
    PROVE  OpenBaoPolicyName(n, g) \in Identity
  BY BoundAssumption DEF OpenBaoPolicyName, Identity

(* The record of no operation has the type of an operation.                *)
LEMMA NoOpType == NoOp \in Operation
  BY DEF NoOp, Operation

(* OpenBaoPolicies yields the token_policies of a role.                    *)
LEMMA OpenBaoPoliciesType ==
    ASSUME NEW eff \in SUBSET Source
    PROVE  OpenBaoPolicies(eff) \in Role
  BY BoundAssumption, IdentityOfName DEF OpenBaoPolicies, Role, Source, Row

(* Compose over stored rows yields sources.                                *)
LEMMA ComposeType ==
    ASSUME TypeOK, NEW P \in SUBSET Names, NEW rows, \A n \in P : rows[n] \in Row
    PROVE  Compose(rows, P) \in SUBSET Source
  BY DEF Compose, Source

(* The next assignment of a binding that selects the changed name.         *)
LEMMA AffectedRow ==
    ASSUME TypeOK, EffectiveCurrent,
           NEW from \in Names, NEW to \in Names, NEW row \in Row,
           RevisionsLeft(from),
           NEW b \in BoundIds, from \in bindings[b].policies
    PROVE  LET rows == [policies EXCEPT ![to] = row]
               names == {IF n = from THEN to ELSE n : n \in bindings[b].policies}
               next == Affected(from, to, row)[b]
           IN  /\ next = [policies |-> names, eff |-> Compose(rows, names),
                          rev |-> bindings[b].rev + 1, applied |-> FALSE]
               /\ next \in Binding
<1> DEFINE rows == [policies EXCEPT ![to] = row]
           names == {IF n = from THEN to ELSE n : n \in bindings[b].policies}
           next == [policies |-> names, eff |-> Compose(rows, names),
                    rev |-> bindings[b].rev + 1, applied |-> FALSE]
<1>1. Affected(from, to, row)[b] = next
  BY DEF Affected, BoundIds
<1>2. bindings[b] \in Binding
  BY DEF BoundIds, TypeOK
<1>3. names \in SUBSET Names
  BY <1>2 DEF Binding
<1>4. \A n \in names : rows[n] \in Row
  BY <1>2, <1>3 DEF EffectiveCurrent, Stored, TypeOK, Binding
<1>5. bindings[b].rev + 1 \in 1 .. MaxRev
  BY <1>2, BoundAssumption DEF Binding, RevisionsLeft
<1>6. Compose(rows, names) \in SUBSET Source
  <2> HIDE DEF rows, names
  <2> QED BY <1>3, <1>4, ComposeType
<1>7. next \in Binding
  <2> HIDE DEF rows, names
  <2> QED BY <1>3, <1>5, <1>6 DEF Binding
<1> QED BY <1>1, <1>7

(* The bindings a save or a rename affects get well-typed rows.            *)
LEMMA AffectedType ==
    ASSUME TypeOK, EffectiveCurrent,
           NEW from \in Names, NEW to \in Names, NEW row \in Row,
           RevisionsLeft(from)
    PROVE  Affected(from, to, row) \in [Bindings -> Binding \cup {None}]
<1>1. ASSUME NEW b \in Bindings
      PROVE  Affected(from, to, row)[b] \in Binding \cup {None}
  <2>1. CASE b \in BoundIds /\ from \in bindings[b].policies
    BY <2>1, AffectedRow
  <2>2. CASE ~(b \in BoundIds /\ from \in bindings[b].policies)
    BY <2>2 DEF Affected
  <2> QED BY <2>1, <2>2
<1>2. Affected(from, to, row) = [b \in Bindings |-> Affected(from, to, row)[b]]
  BY DEF Affected
<1> QED BY <1>1, <1>2

(* The identity an operation publishes is one of Identity.                 *)
LEMMA OpIdentity ==
    ASSUME TypeOK, OpDocument, pc \in WithDocument
    PROVE  DocIdentity \in Identity
  BY IdentityOfName DEF OpDocument, DocIdentity, Row

(* A counted outcome keeps the number of faults within its bound.          *)
LEMMA CountedType == 
    ASSUME NEW res \in Outcome, Counted(res), faults \in 0 .. MaxFaults
    PROVE  faults' \in 0 .. MaxFaults
  BY BoundAssumption DEF Counted

(* Steps that touch neither policies nor bindings keep the assignments.    *)
LEMMA EffectiveStable ==
    ASSUME EffectiveCurrent, UNCHANGED <<policies, bindings>>
    PROVE  EffectiveCurrent'
  BY DEF EffectiveCurrent, BoundIds, Stored, Compose

(* ... and keep what a save or a rename computed from them.                *)
LEMMA AffectedStable ==
    ASSUME UNCHANGED <<policies, bindings, op>>
    PROVE  Affected(op.from, op.name, op.row)' = Affected(op.from, op.name, op.row)
  BY DEF Affected, BoundIds, Compose

(* Places at which the operation is not constrained.                       *)
Restful == {"idle", "down", "settle", "settleRemove", "issueSecret"}

(* At such a place the operation has its shape, whatever it is.            *)
LEMMA ShapeAtRest == ASSUME pc' \in Restful PROVE Shape'
  BY DEF Restful, Shape, OpDocument, OpSave, OpDelete, OpRename, OpTodo,
         OpBinding, WithDocument, Saving, Deleting, Renaming

(* A step within one operation that leaves the tables alone keeps its      *)
(* shape.                                                                  *)
LEMMA ShapeStays ==
    ASSUME Shape, UNCHANGED <<policies, bindings, op>>, pc' \in Places,
           \/ pc \in Saving /\ pc' \in Saving
           \/ pc \in Deleting /\ pc' \in Deleting
           \/ pc \in Renaming /\ pc' \in Renaming
           \/ pc \in WithDocument /\ pc' \in {"restore", "deleteSettle", "remove"}
    PROVE  Shape'
<1>1. OpDocument'
  BY DEF Shape, OpDocument, WithDocument, Saving, Deleting, Renaming
<1>2. OpSave'
  BY AffectedStable DEF Shape, OpSave, RevisionsLeft, BoundIds, WithDocument,
     Saving, Deleting, Renaming
<1>3. OpDelete'
  BY DEF Shape, OpDelete, WithDocument, Saving, Deleting, Renaming, BoundIds
<1>4. OpRename'
  BY AffectedStable DEF Shape, OpRename, RevisionsLeft, BoundIds, WithDocument,
     Saving, Deleting, Renaming
<1>5. OpTodo' /\ OpBinding'
  BY DEF Shape, OpTodo, OpBinding, WithDocument, Saving, Deleting, Renaming
<1> QED BY <1>1, <1>2, <1>3, <1>4, <1>5 DEF Shape

(* SavePublish preserves AssignmentInv.                                    *)
LEMMA SavePublishAssignmentInv == AssignmentInv /\ SavePublish => AssignmentInv'
<1> SUFFICES ASSUME AssignmentInv, SavePublish PROVE AssignmentInv'
  OBVIOUS
<1>1. TypeOK'
  <2>1. faults' \in 0 .. MaxFaults
    BY CountedType DEF SavePublish, AssignmentInv, TypeOK
  <2>2. acl' \in [Identity -> Contents \cup {None}]
    BY OpIdentity DEF SavePublish, AssignmentInv, Shape, TypeOK, OpDocument,
       WithDocument, Saving, Row
  <2>3. op' \in Operation
    BY NoOpType DEF SavePublish, AssignmentInv, TypeOK, Return
  <2> QED
    BY <2>1, <2>2, <2>3 DEF SavePublish, AssignmentInv, TypeOK, Return, storeVars,
       workerVars, Places
<1>2. Shape'
  BY ShapeAtRest, ShapeStays DEF SavePublish, AssignmentInv, Return, storeVars, Restful,
     WithDocument, Saving, Places
<1>3. EffectiveCurrent'
  BY EffectiveStable DEF SavePublish, AssignmentInv, storeVars
<1> QED BY <1>1, <1>2, <1>3 DEF AssignmentInv

(* An operation that begins with its shape preserves the invariant.        *)
LEMMA BeginAssignmentInv ==
    ASSUME AssignmentInv, NEW there \in Places, NEW o \in Operation, Begin(there, o), Shape'
    PROVE  AssignmentInv'
<1>1. TypeOK'
  BY DEF Begin, AssignmentInv, TypeOK, storeVars, baoVars, workerVars
<1>2. EffectiveCurrent'
  BY EffectiveStable DEF Begin, AssignmentInv, storeVars
<1> QED BY <1>1, <1>2 DEF AssignmentInv

(* SaveBegin preserves AssignmentInv.                                      *)
LEMMA SaveBeginAssignmentInv ==
    ASSUME AssignmentInv, NEW n \in Names, NEW c \in Contents, SaveBegin(n, c)
    PROVE  AssignmentInv'
<1> DEFINE o(row) == [NoOp EXCEPT !.name = n, !.from = n, !.row = row,
                        !.old = policies[n], !.affected = Affected(n, n, row)]
<1>1. PICK row \in Row : RevisionsLeft(n) /\ Begin("savePublish", o(row))
  BY DEF SaveBegin
<1>2. Affected(n, n, row) \in [Bindings -> Binding \cup {None}]
  BY <1>1, AffectedType DEF AssignmentInv
<1>3. o(row) \in Operation
  BY <1>2 DEF NoOp, Operation, AssignmentInv, TypeOK
<1>4. Shape'
  <2>1. /\ pc' = "savePublish" /\ op' = o(row)
        /\ UNCHANGED <<policies, bindings>>
    BY <1>1 DEF Begin, storeVars
  <2>2. /\ op'.name = n /\ op'.from = n /\ op'.row = row
        /\ op'.old = policies[n] /\ op'.affected = Affected(n, n, row)
    BY <2>1 DEF NoOp
  <2>3. OpSave'
    BY <1>1, <2>1, <2>2 DEF OpSave, RevisionsLeft, Affected, BoundIds, Compose
  <2> QED
    BY <2>1, <2>2, <2>3 DEF Shape, OpDocument, OpDelete, OpRename, OpTodo,
       OpBinding, WithDocument, Saving, Deleting, Renaming
<1> HIDE DEF o
<1> QED BY <1>1, <1>3, <1>4, BeginAssignmentInv DEF Places

(* RenameBegin preserves AssignmentInv.                                    *)
LEMMA RenameBeginAssignmentInv ==
    ASSUME AssignmentInv, NEW n \in Names, NEW m \in Names, RenameBegin(n, m)
    PROVE  AssignmentInv'
<1> DEFINE o(row) == [NoOp EXCEPT !.name = m, !.from = n, !.row = row,
                        !.old = policies[n], !.affected = Affected(n, m, row)]
<1>1. PICK row \in Row : RevisionsLeft(n) /\ Begin("renameRecord", o(row))
  BY DEF RenameBegin
<1>2. Affected(n, m, row) \in [Bindings -> Binding \cup {None}]
  BY <1>1, AffectedType DEF AssignmentInv
<1>3. o(row) \in Operation
  BY <1>2 DEF NoOp, Operation, AssignmentInv, TypeOK
<1>4. Shape'
  <2>1. /\ pc' = "renameRecord" /\ op' = o(row)
        /\ UNCHANGED <<policies, bindings>>
    BY <1>1 DEF Begin, storeVars
  <2>2. /\ op'.name = m /\ op'.from = n /\ op'.row = row
        /\ op'.old = policies[n] /\ op'.affected = Affected(n, m, row)
    BY <2>1 DEF NoOp
  <2>3. OpRename'
    BY <1>1, <2>1, <2>2 DEF OpRename, RenameBegin, RevisionsLeft, Affected,
       BoundIds, Compose
  <2> QED
    BY <2>1, <2>2, <2>3 DEF Shape, OpDocument, OpDelete, OpSave, OpTodo,
       OpBinding, WithDocument, Saving, Deleting, Renaming
<1> HIDE DEF o
<1> QED BY <1>1, <1>3, <1>4, BeginAssignmentInv DEF Places

(* DeleteBegin preserves AssignmentInv.                                    *)
LEMMA DeleteBeginAssignmentInv ==
    ASSUME AssignmentInv, NEW n \in Names, DeleteBegin(n)
    PROVE  AssignmentInv'
<1> DEFINE o == [NoOp EXCEPT !.name = n, !.from = n, !.row = policies[n],
                             !.old = policies[n]]
<1>1. Begin("deletePublish", o) /\ policies[n] \in Row
  BY DEF DeleteBegin, AssignmentInv, TypeOK
<1>2. o \in Operation
  BY <1>1 DEF NoOp, Operation
<1>3. Shape'
  <2>1. pc' = "deletePublish" /\ UNCHANGED <<policies, bindings>> /\ op' = o
    BY <1>1 DEF Begin, storeVars
  <2>2. op'.name = n /\ op'.from = n /\ op'.row = policies[n] /\ op'.old = policies[n]
    BY <2>1 DEF NoOp
  <2> QED
    BY <1>1, <2>1, <2>2 DEF DeleteBegin, BoundIds, Shape, OpDocument, OpDelete,
       OpSave, OpRename, OpTodo, OpBinding, WithDocument, Saving, Deleting, Renaming
<1> QED BY <1>1, <1>2, <1>3, BeginAssignmentInv DEF Places

(* CommitBinding preserves AssignmentInv.                                  *)
LEMMA CommitBindingAssignmentInv ==
    ASSUME AssignmentInv, NEW b \in Bindings, NEW row \in Binding, CommitBinding(b, row),
           row.policies \subseteq Stored, ~row.applied,
           row.eff = Compose(policies, row.policies)
    PROVE  AssignmentInv'
<1> DEFINE o == [NoOp EXCEPT !.affected = [@ EXCEPT ![b] = row]]
<1>1. Begin("bindingCommit", o)
  BY DEF CommitBinding
<1>2. o \in Operation
  BY DEF NoOp, Operation
<1>3. Shape'
  <2>1. pc' = "bindingCommit" /\ UNCHANGED <<policies, bindings>> /\ op' = o
    BY <1>1 DEF Begin, storeVars
  <2>2. op'.affected = [x \in Bindings |-> IF x = b THEN row ELSE None]
    BY <2>1 DEF NoOp
  <2>3. OpBinding'
    BY <2>1, <2>2 DEF OpBinding, Changed, Stored, Compose
  <2> QED
    BY <2>1, <2>3 DEF Shape, OpDocument, OpDelete,
       OpSave, OpRename, OpTodo, WithDocument, Saving, Deleting, Renaming
<1> HIDE DEF o
<1> QED BY <1>1, <1>2, <1>3, BeginAssignmentInv DEF Places

(* CreateBinding preserves AssignmentInv.                                  *)
LEMMA CreateBindingAssignmentInv ==
    ASSUME AssignmentInv, NEW b \in Bindings, NEW P \in SUBSET Names,
           CreateBinding(b, P) \/ ChangeBinding(b, P)
    PROVE  AssignmentInv'
<1>1. Compose(policies, P) \in SUBSET Source
  BY ComposeType DEF CreateBinding, ChangeBinding, AssignmentInv, TypeOK, Stored
<1>2. PICK r \in 1 .. MaxRev :
        CommitBinding(b, [policies |-> P, eff |-> Compose(policies, P), rev |-> r,
                          applied |-> FALSE])
  <2>1. CASE CreateBinding(b, P)
    <3>1. 1 \in 1 .. MaxRev
      BY <2>1, BoundAssumption DEF CreateBinding
    <3> QED BY <2>1, <3>1 DEF CreateBinding
  <2>2. CASE ChangeBinding(b, P)
    <3>1. bindings[b].rev + 1 \in 1 .. MaxRev
      BY <2>2, BoundAssumption DEF ChangeBinding, AssignmentInv, TypeOK, Binding
    <3> QED BY <2>2, <3>1 DEF ChangeBinding
  <2> QED BY <2>1, <2>2
<1> DEFINE row == [policies |-> P, eff |-> Compose(policies, P), rev |-> r,
                   applied |-> FALSE]
<1>3. row \in Binding
  BY <1>1 DEF Binding
<1>4. P \subseteq Stored
  BY DEF CreateBinding, ChangeBinding
<1>5. row.policies = P /\ row.eff = Compose(policies, P) /\ ~row.applied
  OBVIOUS
<1>6. CommitBinding(b, row)
  BY <1>2
<1> HIDE DEF row
<1> QED BY <1>3, <1>4, <1>5, <1>6, CommitBindingAssignmentInv

(* RepeatBind preserves AssignmentInv.                                     *)
LEMMA RepeatBindAssignmentInv ==
    ASSUME AssignmentInv, NEW b \in Bindings, RepeatBind(b)
    PROVE  AssignmentInv'
<1> DEFINE o == [NoOp EXCEPT !.todo = {b}]
<1>1. Begin("apply", o) /\ o \in Operation
  BY DEF RepeatBind, NoOp, Operation
<1>2. Shape'
  BY <1>1 DEF RepeatBind, Begin, NoOp, storeVars, Shape, OpDocument, OpDelete,
     OpSave, OpRename, OpTodo, OpBinding, WithDocument, Saving, Deleting, Renaming,
     BoundIds
<1> QED BY <1>1, <1>2, BeginAssignmentInv DEF Places

(* DeleteBinding preserves AssignmentInv.                                  *)
LEMMA DeleteBindingAssignmentInv ==
    ASSUME AssignmentInv, NEW b \in Bindings, DeleteBinding(b)
    PROVE  AssignmentInv'
<1> DEFINE o == [NoOp EXCEPT !.todo = {b}]
<1>1. Begin("unbindRole", o) /\ o \in Operation
  BY DEF DeleteBinding, NoOp, Operation
<1>2. Shape'
  BY <1>1 DEF DeleteBinding, Begin, NoOp, storeVars, Shape, OpDocument, OpDelete,
     OpSave, OpRename, OpTodo, OpBinding, WithDocument, Saving, Deleting, Renaming,
     BoundIds
<1> QED BY <1>1, <1>2, BeginAssignmentInv DEF Places

(* IssueBegin preserves AssignmentInv.                                     *)
LEMMA IssueBeginAssignmentInv ==
    ASSUME AssignmentInv, NEW b \in Bindings, NEW current \in BOOLEAN, IssueBegin(b, current)
    PROVE  AssignmentInv'
<1> DEFINE o == [NoOp EXCEPT !.todo = IF current THEN {b} ELSE {},
                             !.affected = [@ EXCEPT ![b] = bindings[b]],
                             !.then = "issueSecret"]
<1>1. Begin("issue", o)
  BY DEF IssueBegin
<1>2. o \in Operation
  BY DEF NoOp, Operation, AssignmentInv, TypeOK
<1>3. Shape'
  <2>1. pc' = "issue" /\ UNCHANGED <<policies, bindings>> /\ op' = o
    BY <1>1 DEF Begin, storeVars
  <2>2. op'.todo \subseteq BoundIds'
    BY <2>1 DEF IssueBegin, NoOp, BoundIds
  <2> QED
    BY <2>1, <2>2 DEF Shape, OpDocument, OpDelete, OpTodo,
       OpSave, OpRename, OpBinding, WithDocument, Saving, Deleting, Renaming
<1> HIDE DEF o
<1> QED BY <1>1, <1>2, <1>3, BeginAssignmentInv DEF Places

(* WorkerPass preserves AssignmentInv.                                     *)
LEMMA WorkerPassAssignmentInv == AssignmentInv /\ WorkerPass => AssignmentInv'
<1> SUFFICES ASSUME AssignmentInv, WorkerPass PROVE AssignmentInv'
  OBVIOUS
<1> DEFINE o == [NoOp EXCEPT !.then = "worker"]
<1>1. Begin("settle", o) /\ o \in Operation
  BY DEF WorkerPass, NoOp, Operation
<1>2. Shape'
  BY <1>1, ShapeAtRest DEF Begin, Restful
<1> HIDE DEF o
<1> QED BY <1>1, <1>2, BeginAssignmentInv DEF Places

(* A mutation that commits `row` under `to` leaves every assignment composed *)
(* from the new rows.                                                        *)
LEMMA UpdatedEffective ==
    ASSUME TypeOK, EffectiveCurrent,
           NEW from \in Names, NEW to \in Names, NEW row \in Row,
           RevisionsLeft(from),
           policies' = IF from = to THEN [policies EXCEPT ![to] = row]
                       ELSE [policies EXCEPT ![to] = row, ![from] = None],
           from # to => policies[to] = None,
           bindings' = Updated(Affected(from, to, row))
    PROVE  /\ EffectiveCurrent'
           /\ Changed(Affected(from, to, row)) \subseteq BoundIds'
           /\ bindings' \in [Bindings -> Binding \cup {None}]
<1> DEFINE rows == [policies EXCEPT ![to] = row]
           names(b) == {IF n = from THEN to ELSE n : n \in bindings[b].policies}
           aff == Affected(from, to, row)
<1>1. aff \in [Bindings -> Binding \cup {None}]
  BY AffectedType
<1>2. bindings' \in [Bindings -> Binding \cup {None}]
  BY <1>1 DEF Updated, TypeOK
<1>3. policies \in [Names -> Row \cup {None}] /\ None \notin Row /\ None \notin Binding
  BY NoneAssumption DEF TypeOK
<1>4. Changed(aff) \subseteq BoundIds'
  BY <1>1 DEF Changed, BoundIds, Updated
<1>5. ASSUME NEW b \in BoundIds'
      PROVE  /\ bindings'[b].policies \subseteq Stored'
             /\ bindings'[b].eff = Compose(policies', bindings'[b].policies)
  <2>1. CASE b \in BoundIds /\ from \in bindings[b].policies
    <3>1. /\ bindings'[b] = aff[b]
          /\ aff[b].policies = names(b)
          /\ aff[b].eff = Compose(rows, names(b))
      <4>1. /\ aff[b] = [policies |-> names(b), eff |-> Compose(rows, names(b)),
                         rev |-> bindings[b].rev + 1, applied |-> FALSE]
            /\ aff[b] \in Binding
        BY <2>1, AffectedRow
      <4>2. bindings'[b] = aff[b]
        BY <1>3, <2>1, <4>1 DEF Updated, BoundIds
      <4> QED BY <4>1, <4>2
    <3>2. names(b) \subseteq Stored'
      BY <1>3, <2>1 DEF EffectiveCurrent, Stored
    <3>3. \A n \in names(b) : rows[n] = policies'[n]
      BY <1>3, <2>1, <3>2 DEF Stored
    <3>4. Compose(rows, names(b)) = Compose(policies', names(b))
      BY <3>3 DEF Compose
    <3> QED BY <3>1, <3>2, <3>4
  <2>2. CASE ~(b \in BoundIds /\ from \in bindings[b].policies)
    <3>1. b \in BoundIds /\ bindings'[b] = bindings[b] /\ from \notin bindings[b].policies
      BY <2>2 DEF BoundIds, Updated, Affected
    <3>2. bindings[b].policies \subseteq Stored
      BY <3>1 DEF EffectiveCurrent
    <3>3. \A n \in bindings[b].policies : policies'[n] = policies[n]
      BY <1>3, <3>1, <3>2 DEF Stored
    <3>4. Compose(policies', bindings[b].policies) = Compose(policies, bindings[b].policies)
      BY <3>3 DEF Compose
    <3>5. bindings[b].policies \subseteq Stored'
      BY <3>2, <3>3 DEF Stored
    <3> QED BY <3>1, <3>4, <3>5 DEF EffectiveCurrent
  <2> QED BY <2>1, <2>2
<1>6. EffectiveCurrent'
  BY <1>5 DEF EffectiveCurrent, Compose
<1> QED BY <1>2, <1>4, <1>6

(* SaveCommit preserves AssignmentInv.                                     *)
LEMMA SaveCommitAssignmentInv == AssignmentInv /\ SaveCommit => AssignmentInv'
<1> SUFFICES ASSUME AssignmentInv, SaveCommit PROVE AssignmentInv'
  OBVIOUS
<1>1. PICK res \in Outcome :
        /\ Counted(res)
        /\ IF res = "failed"
             THEN UNCHANGED <<policies, generations, bindings>>
             ELSE /\ policies' = [policies EXCEPT ![op.name] = op.row]
                  /\ generations' = [generations EXCEPT ![op.name] = op.row.gen]
                  /\ bindings' = Updated(op.affected)
        /\ pc' = IF res = "ok" THEN "apply" ELSE "restore"
        /\ op' = IF res = "ok" THEN [op EXCEPT !.todo = Changed(op.affected)]
                               ELSE op
  BY SettingAssumption DEF SaveCommit, Outcome
<1>2. /\ op.name \in Names /\ op.row \in Row /\ op.from = op.name
      /\ op.affected = Affected(op.from, op.name, op.row)
      /\ RevisionsLeft(op.from)
  BY DEF SaveCommit, AssignmentInv, Shape, OpDocument, OpSave, Saving, WithDocument
<1>3. /\ EffectiveCurrent'
      /\ bindings' \in [Bindings -> Binding \cup {None}]
      /\ res # "failed" => Changed(op.affected) \subseteq BoundIds'
  <2>1. CASE res = "failed"
    BY <1>1, <2>1, EffectiveStable DEF AssignmentInv, TypeOK
  <2>2. CASE res # "failed"
    BY <1>1, <1>2, <2>2, UpdatedEffective DEF AssignmentInv
  <2> QED BY <2>1, <2>2
<1>4. TypeOK'
  <2>1. op' \in Operation
    BY <1>1 DEF AssignmentInv, TypeOK, Operation, Changed
  <2>2. policies' \in [Names -> Row \cup {None}] /\ generations' \in [Names -> 0 .. MaxGen]
    BY <1>1, <1>2, BoundAssumption DEF AssignmentInv, TypeOK, Row
  <2>3. faults' \in 0 .. MaxFaults
    BY <1>1, CountedType DEF AssignmentInv, TypeOK
  <2>4. reverted' \subseteq Identity
    <3>1. DocIdentity \in Identity
      BY OpIdentity DEF SaveCommit, AssignmentInv, Shape, WithDocument, Saving
    <3> QED BY <3>1 DEF SaveCommit, AssignmentInv, TypeOK, Outcome
  <2> QED
    BY <1>1, <1>3, <2>1, <2>2, <2>3, <2>4 DEF SaveCommit, AssignmentInv, TypeOK,
       baoVars, workerVars, Places
<1>5. Shape'
  <2>1. CASE res = "ok"
    <3>1. pc' = "apply" /\ op'.todo = Changed(op.affected)
      BY <1>1, <2>1 DEF AssignmentInv, TypeOK, Operation
    <3> QED
      BY <1>3, <2>1, <3>1 DEF Shape, OpDocument, OpDelete, OpTodo,
         OpSave, OpRename, OpBinding, WithDocument, Saving, Deleting, Renaming
  <2>2. CASE res # "ok"
    <3>1. pc' = "restore" /\ op' = op
      BY <1>1, <2>2
    <3> QED
      BY <3>1 DEF SaveCommit, AssignmentInv, Shape, OpDocument, OpDelete, OpTodo,
         OpSave, OpRename, OpBinding, WithDocument, Saving, Deleting, Renaming
  <2> QED BY <2>1, <2>2
<1> QED BY <1>3, <1>4, <1>5 DEF AssignmentInv

(* Restore preserves AssignmentInv.                                        *)
LEMMA RestoreAssignmentInv == AssignmentInv /\ Restore => AssignmentInv'
<1> SUFFICES ASSUME AssignmentInv, Restore PROVE AssignmentInv'
  OBVIOUS
<1>1. TypeOK'
  <2>1. faults' \in 0 .. MaxFaults
    BY CountedType DEF Restore, AssignmentInv, TypeOK
  <2>2. acl' \in [Identity -> Contents \cup {None}]
    <3>1. op.old # None => OpenBaoPolicyName(op.name, op.old.gen) \in Identity /\ op.old.hcl \in Contents
      BY IdentityOfName DEF Restore, AssignmentInv, Shape, OpDocument, WithDocument,
      TypeOK, Operation, Row
    <3> QED
      BY <3>1 DEF Restore, AssignmentInv, TypeOK
  <2> QED
    BY <2>1, <2>2, NoOpType DEF Restore, AssignmentInv, TypeOK, Return, storeVars,
       workerVars, Places
<1>2. Shape'
  BY ShapeAtRest DEF Restore, Return, Restful
<1>3. EffectiveCurrent'
  BY EffectiveStable DEF Restore, AssignmentInv, storeVars
<1> QED BY <1>1, <1>2, <1>3 DEF AssignmentInv

(* ApplyBinding preserves AssignmentInv.                                   *)
LEMMA ApplyBindingAssignmentInv ==
    ASSUME AssignmentInv, NEW b \in Bindings, ApplyBinding(b)
    PROVE  AssignmentInv'
<1>1. b \in BoundIds /\ bindings[b] \in Binding
  BY DEF ApplyBinding, AssignmentInv, Shape, OpTodo, TypeOK, BoundIds
<1>2. OpenBaoPolicies(bindings[b].eff) \in Role
  BY <1>1, OpenBaoPoliciesType DEF Binding
<1>3. bindings' \in {bindings, [bindings EXCEPT ![b].applied = TRUE]}
  BY DEF ApplyBinding
<1>4. /\ bindings' \in [Bindings -> Binding \cup {None}]
      /\ BoundIds' = BoundIds
      /\ \A x \in BoundIds : /\ bindings'[x].policies = bindings[x].policies
                             /\ bindings'[x].eff = bindings[x].eff
  <2>1. CASE bindings' = bindings
    BY <2>1 DEF AssignmentInv, TypeOK, BoundIds
  <2>2. CASE bindings' = [bindings EXCEPT ![b].applied = TRUE]
    <3>1. [bindings[b] EXCEPT !.applied = TRUE] \in Binding
      BY <1>1 DEF Binding
    <3>2. \A x \in Bindings : bindings'[x] = IF x = b THEN [bindings[b] EXCEPT !.applied = TRUE]
                                            ELSE bindings[x]
      BY <2>2 DEF AssignmentInv, TypeOK
    <3>3. BoundIds' = BoundIds
      BY <1>1, <3>1, <3>2, NoneAssumption DEF BoundIds
    <3> QED
      BY <1>1, <2>2, <3>1, <3>2, <3>3 DEF AssignmentInv, TypeOK, Binding, BoundIds
  <2> QED BY <1>3, <2>1, <2>2
<1>5. TypeOK'
  <2>1. faults' \in 0 .. MaxFaults
    BY CountedType DEF ApplyBinding, AssignmentInv, TypeOK, Outcome
  <2>2. op' \in Operation
    BY DEF ApplyBinding, AssignmentInv, TypeOK, Operation
  <2>3. roles' \in [Bindings -> {None} \cup Role]
    BY <1>2 DEF ApplyBinding, AssignmentInv, TypeOK
  <2> QED
    BY <1>4, <2>1, <2>2, <2>3 DEF ApplyBinding, AssignmentInv, TypeOK, workerVars
<1>6. Shape'
  <2>1. pc' = "apply" /\ op'.todo \subseteq op.todo /\ pc = "apply"
    BY DEF ApplyBinding, AssignmentInv, TypeOK, Operation
  <2> QED
    BY <1>4, <2>1 DEF AssignmentInv, Shape, OpDocument, OpDelete, OpTodo,
       OpSave, OpRename, OpBinding, WithDocument, Saving, Deleting, Renaming
<1>7. EffectiveCurrent'
  BY <1>4 DEF ApplyBinding, AssignmentInv, EffectiveCurrent, Stored, Compose
<1> QED BY <1>5, <1>6, <1>7 DEF AssignmentInv

(* ApplyDone preserves AssignmentInv.                                      *)
LEMMA ApplyDoneAssignmentInv == AssignmentInv /\ ApplyDone => AssignmentInv'
<1> SUFFICES ASSUME AssignmentInv, ApplyDone PROVE AssignmentInv'
  OBVIOUS
<1>1. pc' \in {"idle", "settle", "settleRemove", "issueSecret"}
  BY DEF ApplyDone, ReturnRename, Return
<1>2. op' \in {op, NoOp, [NoOp EXCEPT !.then = "rename"]}
  BY DEF ApplyDone, ReturnRename, Return
<1>3. wake' \in BOOLEAN /\ worker' \in {"asleep", "awake"} /\ returning' \in BOOLEAN
  BY DEF ApplyDone, ReturnRename, Return, workerVars, AssignmentInv, TypeOK
<1>4. op' \in Operation
  BY <1>2, NoOpType DEF AssignmentInv, TypeOK, NoOp, Operation
<1>5. TypeOK'
  BY <1>1, <1>3, <1>4 DEF ApplyDone, AssignmentInv, TypeOK, storeVars, baoVars, Places
<1>6. Shape'
  BY <1>1, ShapeAtRest DEF Restful
<1>7. EffectiveCurrent'
  BY EffectiveStable DEF ApplyDone, AssignmentInv, storeVars
<1> QED BY <1>5, <1>6, <1>7 DEF AssignmentInv

(* DeletePublish preserves AssignmentInv.                                  *)
LEMMA DeletePublishAssignmentInv == AssignmentInv /\ DeletePublish => AssignmentInv'
<1> SUFFICES ASSUME AssignmentInv, DeletePublish PROVE AssignmentInv'
  OBVIOUS
<1>1. TypeOK'
  <2>1. faults' \in 0 .. MaxFaults
    BY CountedType DEF DeletePublish, AssignmentInv, TypeOK
  <2>2. acl' \in [Identity -> Contents \cup {None}]
    BY DEF DeletePublish, AssignmentInv, TypeOK
  <2> QED
    BY <2>1, <2>2 DEF DeletePublish, AssignmentInv, TypeOK, storeVars, workerVars,
       Places
<1>2. Shape'
  BY ShapeStays DEF DeletePublish, AssignmentInv, storeVars, WithDocument, Deleting,
     Places
<1>3. EffectiveCurrent'
  BY EffectiveStable DEF DeletePublish, AssignmentInv, storeVars
<1> QED BY <1>1, <1>2, <1>3 DEF AssignmentInv

(* DeleteCommit preserves AssignmentInv.                                   *)
LEMMA DeleteCommitAssignmentInv == AssignmentInv /\ DeleteCommit => AssignmentInv'
<1> SUFFICES ASSUME AssignmentInv, DeleteCommit PROVE AssignmentInv'
  OBVIOUS
<1>1. /\ op.name \in Names /\ op.from \in Names /\ op.row \in Row
      /\ \A b \in BoundIds : op.name \notin bindings[b].policies
  BY DEF DeleteCommit, AssignmentInv, Shape, OpDocument, OpDelete, WithDocument,
     Deleting
<1>2. /\ policies' \in {policies, [policies EXCEPT ![op.name] = None]}
      /\ UNCHANGED bindings
      /\ pc' = "idle" \/ (pc' = "deleteSettle" /\ UNCHANGED op)
      /\ op' \in {op, NoOp}
  BY DEF DeleteCommit, Return
<1>3. TypeOK'
  <2>1. faults' \in 0 .. MaxFaults
    BY CountedType DEF DeleteCommit, AssignmentInv, TypeOK
  <2>2. departed' \subseteq Identity
    BY OpIdentity DEF DeleteCommit, AssignmentInv, TypeOK, Shape, WithDocument, Deleting
  <2>3. policies' \in [Names -> Row \cup {None}]
    BY <1>2 DEF AssignmentInv, TypeOK
  <2> QED
    BY <1>2, <2>1, <2>2, <2>3, NoOpType
    DEF DeleteCommit, AssignmentInv, TypeOK, baoVars, workerVars, Places
<1>4. Shape'
  BY <1>1, <1>2 DEF Shape, OpDocument, OpDelete, OpTodo, OpSave, OpRename,
     OpBinding, WithDocument, Saving, Deleting, Renaming
<1>5. EffectiveCurrent'
  <2>1. BoundIds' = BoundIds
    BY <1>2 DEF BoundIds
  <2>2. ASSUME NEW b \in BoundIds
        PROVE  /\ bindings[b].policies \subseteq Stored'
               /\ Compose(policies', bindings[b].policies) = Compose(policies, bindings[b].policies)
    <3>1. bindings[b].policies \subseteq Stored
      BY DEF AssignmentInv, EffectiveCurrent
    <3>2. \A n \in bindings[b].policies : policies'[n] = policies[n]
      BY <1>1, <1>2, <3>1 DEF Stored, AssignmentInv, TypeOK
    <3> QED BY <3>1, <3>2 DEF Stored, Compose
  <2> QED BY <1>2, <2>1, <2>2 DEF AssignmentInv, EffectiveCurrent, Compose
<1> QED BY <1>3, <1>4, <1>5 DEF AssignmentInv

(* DeleteSettle preserves AssignmentInv.                                   *)
LEMMA DeleteSettleAssignmentInv == AssignmentInv /\ DeleteSettle => AssignmentInv'
<1> SUFFICES ASSUME AssignmentInv, DeleteSettle PROVE AssignmentInv'
  OBVIOUS
<1>1. TypeOK'
  <2>1. faults' \in 0 .. MaxFaults
    BY CountedType DEF DeleteSettle, AssignmentInv, TypeOK, Outcome
  <2>2. op' \in {op, NoOp} /\ pc' \in {"idle", "restore"} /\ pending' \in BOOLEAN
    BY DEF DeleteSettle, Return, AssignmentInv, TypeOK
  <2> QED
    BY <2>1, <2>2, NoOpType
    DEF DeleteSettle, AssignmentInv, TypeOK, storeVars, baoVars, workerVars, Places
<1>2. Shape'
  BY ShapeAtRest, ShapeStays DEF DeleteSettle, AssignmentInv, Return, storeVars,
     Restful,
     WithDocument, Places
<1>3. EffectiveCurrent'
  BY EffectiveStable DEF DeleteSettle, AssignmentInv, storeVars
<1> QED BY <1>1, <1>2, <1>3 DEF AssignmentInv

(* RenameRecord preserves AssignmentInv.                                   *)
LEMMA RenameRecordAssignmentInv == AssignmentInv /\ RenameRecord => AssignmentInv'
<1> SUFFICES ASSUME AssignmentInv, RenameRecord PROVE AssignmentInv'
  OBVIOUS
<1>1. TypeOK'
  <2>1. faults' \in 0 .. MaxFaults
    BY CountedType DEF RenameRecord, AssignmentInv, TypeOK
  <2>2. op' \in {op, NoOp} /\ pc' \in {"idle", "renamePublish"}
    BY DEF RenameRecord, ReturnRename, Return
  <2>3. wake' \in BOOLEAN /\ worker' \in {"asleep", "awake"} /\ returning' \in BOOLEAN
    BY DEF RenameRecord, ReturnRename, workerVars, AssignmentInv, TypeOK
  <2>4. retirements' \subseteq Identity
    BY OpIdentity DEF RenameRecord, AssignmentInv, Shape, TypeOK, WithDocument, Renaming
  <2> QED
    BY <2>1, <2>2, <2>3, <2>4, NoOpType
    DEF RenameRecord, AssignmentInv, TypeOK, baoVars, Places
<1>2. Shape'
  BY ShapeAtRest, ShapeStays DEF RenameRecord, AssignmentInv, ReturnRename, Return,
     Restful,
     Renaming, Places
<1>3. EffectiveCurrent'
  BY EffectiveStable DEF RenameRecord, AssignmentInv
<1> QED BY <1>1, <1>2, <1>3 DEF AssignmentInv

(* RenamePublish preserves AssignmentInv.                                  *)
LEMMA RenamePublishAssignmentInv == AssignmentInv /\ RenamePublish => AssignmentInv'
<1> SUFFICES ASSUME AssignmentInv, RenamePublish PROVE AssignmentInv'
  OBVIOUS
<1>1. TypeOK'
  <2>1. faults' \in 0 .. MaxFaults
    BY CountedType DEF RenamePublish, AssignmentInv, TypeOK
  <2>2. op' \in {op, NoOp} /\ pc' \in {"idle", "renameCommit", "remove"}
    BY DEF RenamePublish, ReturnRename, Return
  <2>3. wake' \in BOOLEAN /\ worker' \in {"asleep", "awake"} /\ returning' \in BOOLEAN
    BY DEF RenamePublish, ReturnRename, workerVars, AssignmentInv, TypeOK
  <2>4. retirements' \subseteq Identity
    BY DEF RenamePublish, AssignmentInv, TypeOK
  <2>5. acl' \in [Identity -> Contents \cup {None}]
    BY OpIdentity DEF RenamePublish, AssignmentInv, Shape, TypeOK, OpDocument,
       WithDocument, Renaming, Row
  <2> QED
    BY <2>1, <2>2, <2>3, <2>4, <2>5, NoOpType DEF RenamePublish, AssignmentInv,
       TypeOK, Places
<1>2. Shape'
  BY ShapeAtRest, ShapeStays DEF RenamePublish, AssignmentInv, ReturnRename, Return,
     Restful,
     Renaming, WithDocument, Places
<1>3. EffectiveCurrent'
  BY EffectiveStable DEF RenamePublish, AssignmentInv
<1> QED BY <1>1, <1>2, <1>3 DEF AssignmentInv

(* RenameCommit preserves AssignmentInv.                                   *)
LEMMA RenameCommitAssignmentInv == AssignmentInv /\ RenameCommit => AssignmentInv'
<1> SUFFICES ASSUME AssignmentInv, RenameCommit PROVE AssignmentInv'
  OBVIOUS
<1> DEFINE left == OpenBaoPolicyName(op.from, op.old.gen)
<1>1. PICK res \in Outcome :
        /\ Counted(res)
        /\ IF res = "failed"
             THEN UNCHANGED storeVars
             ELSE /\ policies' = [policies EXCEPT ![op.name] = op.row,
                                                  ![op.from] = None]
                  /\ generations' = [generations EXCEPT ![op.name] = op.row.gen]
                  /\ bindings' = Updated(op.affected)
                  /\ retirements' = (retirements \ {DocIdentity}) \cup {left}
                  /\ departed' = departed \cup {left}
                  /\ UNCHANGED retired
        /\ IF res = "ok"
             THEN /\ pc' = "apply"
                  /\ op' = [op EXCEPT !.todo = Changed(op.affected),
                                      !.then = "renameSettle"]
             ELSE pc' = "renameSettle" /\ UNCHANGED op
  BY DEF RenameCommit
<1>2. /\ op.name \in Names /\ op.row \in Row /\ op.from \in Names
      /\ policies[op.from] # None /\ policies[op.name] = None
      /\ op.old = policies[op.from]
      /\ op.affected = Affected(op.from, op.name, op.row)
      /\ RevisionsLeft(op.from)
  BY DEF RenameCommit, AssignmentInv, Shape, OpDocument, OpRename, Renaming,
     WithDocument
<1>3. op.old \in Row /\ left \in Identity
  BY <1>2, IdentityOfName DEF AssignmentInv, TypeOK, Row
<1>4. Changed(op.affected) \subseteq BoundIds
  BY <1>2 DEF Affected, Changed, BoundIds
<1>5. /\ EffectiveCurrent'
      /\ bindings' \in [Bindings -> Binding \cup {None}]
      /\ Changed(op.affected) \subseteq BoundIds'
  <2>1. CASE res = "failed"
    BY <1>1, <1>4, <2>1, EffectiveStable DEF AssignmentInv, TypeOK, storeVars, BoundIds
  <2>2. CASE res # "failed"
    BY <1>1, <1>2, <2>2, UpdatedEffective DEF AssignmentInv
  <2> QED BY <2>1, <2>2
<1>6. TypeOK'
  <2>1. op' \in Operation
    <3>1. op' \in {op, [op EXCEPT !.todo = Changed(op.affected), !.then = "renameSettle"]}
      BY <1>1
    <3>2. op \in Operation /\ Changed(op.affected) \subseteq Bindings
      BY DEF AssignmentInv, TypeOK, Changed
    <3> QED BY <3>1, <3>2 DEF Operation
  <2>2. policies' \in [Names -> Row \cup {None}] /\ generations' \in [Names -> 0 .. MaxGen]
    BY <1>1, <1>2, BoundAssumption DEF AssignmentInv, TypeOK, Row, storeVars
  <2>3. faults' \in 0 .. MaxFaults
    BY <1>1, CountedType DEF AssignmentInv, TypeOK
  <2>4. retirements' \subseteq Identity /\ departed' \subseteq Identity
    BY <1>1, <1>3 DEF AssignmentInv, TypeOK, storeVars
  <2>5. retired' = retired /\ pc' \in Places
    BY <1>1 DEF storeVars, Places
  <2> QED
    BY <1>5, <2>1, <2>2, <2>3, <2>4, <2>5 DEF RenameCommit, AssignmentInv, TypeOK,
       baoVars, workerVars
<1>7. Shape'
  <2>1. CASE res = "ok"
    <3>1. pc' = "apply" /\ op'.todo = Changed(op.affected)
      BY <1>1, <2>1 DEF AssignmentInv, TypeOK, Operation
    <3> QED
      BY <1>5, <3>1 DEF Shape, OpDocument, OpDelete, OpTodo,
         OpSave, OpRename, OpBinding, WithDocument, Saving, Deleting, Renaming
  <2>2. CASE res # "ok"
    <3>1. pc' = "renameSettle" /\ op' = op
      BY <1>1, <2>2
    <3>2. Changed(op.affected)' = Changed(op.affected)
      BY <3>1 DEF Changed
    <3> QED
      BY <1>2, <1>5, <3>1, <3>2 DEF Shape, OpDocument, OpDelete, OpTodo,
         OpSave, OpRename, OpBinding, WithDocument, Saving, Deleting, Renaming
  <2> QED BY <2>1, <2>2
<1> QED BY <1>5, <1>6, <1>7 DEF AssignmentInv

(* RenameSettle preserves AssignmentInv.                                   *)
LEMMA RenameSettleAssignmentInv == AssignmentInv /\ RenameSettle => AssignmentInv'
<1> SUFFICES ASSUME AssignmentInv, RenameSettle PROVE AssignmentInv'
  OBVIOUS
<1>1. /\ op.name \in Names /\ op.row \in Row /\ op.from \in Names
      /\ Changed(op.affected) \subseteq BoundIds
  BY DEF RenameSettle, AssignmentInv, Shape, OpDocument, OpTodo, WithDocument
<1> DEFINE o == [op EXCEPT !.todo = Changed(op.affected), !.then = "renameSettle"]
<1>2. \/ pc' = "apply" /\ op' = o
      \/ pc' = "remove" /\ op' = op
      \/ pc' = "idle" /\ op' = NoOp
  BY DEF RenameSettle, ReturnRename, Return
<1>3. o \in Operation /\ o.todo = Changed(op.affected)
  <2>1. op \in Operation /\ Changed(op.affected) \subseteq Bindings
    BY DEF AssignmentInv, TypeOK, Changed
  <2> QED BY <2>1 DEF Operation
<1> HIDE DEF o
<1>4. TypeOK'
  <2>1. faults' \in 0 .. MaxFaults
    BY CountedType DEF RenameSettle, AssignmentInv, TypeOK, Outcome
  <2>2. wake' \in BOOLEAN /\ worker' \in {"asleep", "awake"} /\ returning' \in BOOLEAN
    BY DEF RenameSettle, ReturnRename, workerVars, AssignmentInv, TypeOK
  <2> QED
    BY <1>2, <1>3, <2>1, <2>2, NoOpType
    DEF RenameSettle, AssignmentInv, TypeOK, storeVars, baoVars, Places
<1>5. Shape'
  <2>1. CASE pc' = "apply" /\ op' = o
    <3>1. op'.todo \subseteq BoundIds'
      BY <1>1, <1>3, <2>1 DEF RenameSettle, storeVars, BoundIds
    <3> QED
      BY <2>1, <3>1 DEF Shape, OpDocument, OpDelete, OpTodo,
         OpSave, OpRename, OpBinding, WithDocument, Saving, Deleting, Renaming
  <2>2. CASE pc' = "remove" /\ op' = op
    BY <2>2, ShapeStays DEF RenameSettle, AssignmentInv, storeVars, WithDocument, Places
  <2>3. CASE pc' = "idle"
    BY <2>3, ShapeAtRest DEF Restful
  <2> QED BY <1>2, <2>1, <2>2, <2>3
<1>6. EffectiveCurrent'
  BY EffectiveStable DEF RenameSettle, AssignmentInv, storeVars
<1> QED BY <1>4, <1>5, <1>6 DEF AssignmentInv

(* The removal of an identity keeps acl and retirements well typed.        *)
LEMMA RemoveIdentityType ==
    ASSUME TypeOK, NEW i, NEW res \in Outcome, RemoveIdentity(i, res)
    PROVE  /\ acl' \in [Identity -> Contents \cup {None}]
           /\ retirements' \subseteq Identity
           /\ faults' \in 0 .. MaxFaults
  BY CountedType DEF RemoveIdentity, TypeOK

(* RenameRemove preserves AssignmentInv.                                   *)
LEMMA RenameRemoveAssignmentInv == AssignmentInv /\ RenameRemove => AssignmentInv'
<1> SUFFICES ASSUME AssignmentInv, RenameRemove PROVE AssignmentInv'
  OBVIOUS
<1>1. TypeOK'
  <2>1. /\ acl' \in [Identity -> Contents \cup {None}]
        /\ retirements' \subseteq Identity
        /\ faults' \in 0 .. MaxFaults
    BY RemoveIdentityType DEF RenameRemove, AssignmentInv
  <2> QED
    BY <2>1, NoOpType DEF RenameRemove, ReturnRename, Return, AssignmentInv, TypeOK,
       Places
<1>2. Shape'
  BY ShapeAtRest DEF RenameRemove, ReturnRename, Return, Restful
<1>3. EffectiveCurrent'
  BY EffectiveStable DEF RenameRemove, AssignmentInv
<1> QED BY <1>1, <1>2, <1>3 DEF AssignmentInv

(* A synchronisation keeps acl well typed, whatever part of the rows it    *)
(* published.                                                              *)
LEMMA SyncType ==
    ASSUME TypeOK, NEW ok \in BOOLEAN, Sync(ok)
    PROVE  /\ acl' \in [Identity -> Contents \cup {None}]
           /\ pending' \in BOOLEAN
           /\ reverted' \subseteq Identity
           /\ faults' \in 0 .. MaxFaults
<1>1. PICK S \in SUBSET Stored :
        acl' = [i \in Identity |->
                  IF \E n \in S : i = OpenBaoPolicyName(n, policies[n].gen)
                    THEN policies[i[1]].hcl ELSE acl[i]]
  BY DEF Sync
<1>2. ASSUME NEW n \in Stored
      PROVE  policies[n].hcl \in Contents /\ OpenBaoPolicyName(n, policies[n].gen)[1] = n
  BY DEF Stored, TypeOK, Row, OpenBaoPolicyName
<1>3. acl' \in [Identity -> Contents \cup {None}]
  BY <1>1, <1>2 DEF TypeOK
<1>4. pending' \in BOOLEAN /\ faults' \in 0 .. MaxFaults
  BY CountedType DEF Sync, TypeOK, Outcome
<1>5. reverted' \subseteq Identity
  BY DEF Sync, TypeOK
<1> QED BY <1>3, <1>4, <1>5

(* A settlement that returns leaves the consumer asleep or awake.          *)
LEMMA SettleReturnType ==
    ASSUME TypeOK, NEW failed \in BOOLEAN, SettleReturn(failed)
    PROVE  /\ pc' = "idle" /\ op' = NoOp
           /\ wake' \in BOOLEAN /\ worker' \in {"asleep", "awake"} /\ returning' \in BOOLEAN
  BY DEF SettleReturn, ReturnRename, Return, TypeOK

(* Settle preserves AssignmentInv.                                         *)
LEMMA SettleAssignmentInv == AssignmentInv /\ Settle => AssignmentInv'
<1> SUFFICES ASSUME AssignmentInv, Settle PROVE AssignmentInv'
  OBVIOUS
<1> DEFINE o == [op EXCEPT !.todo = {b \in BoundIds : ~bindings[b].applied},
                           !.ids = retirements]
<1>1. /\ acl' \in [Identity -> Contents \cup {None}]
      /\ pending' \in BOOLEAN
      /\ reverted' \subseteq Identity
      /\ faults' \in 0 .. MaxFaults
  BY SyncType, CountedType DEF Settle, Outcome, AssignmentInv, TypeOK
<1>2. /\ \/ pc' = "apply" /\ op' = o
         \/ pc' = "idle" /\ op' = NoOp
      /\ wake' \in BOOLEAN /\ worker' \in {"asleep", "awake"} /\ returning' \in BOOLEAN
  <2>1. CASE \E f \in BOOLEAN : SettleReturn(f)
    BY <2>1, SettleReturnType DEF AssignmentInv
  <2>2. CASE pc' = "apply" /\ op' = o /\ UNCHANGED workerVars
    BY <2>2 DEF workerVars, AssignmentInv, TypeOK
  <2> QED BY <2>1, <2>2 DEF Settle
<1>3. o \in Operation /\ o.todo \subseteq BoundIds
  BY DEF AssignmentInv, TypeOK, Operation, BoundIds
<1> HIDE DEF o
<1>4. UNCHANGED storeVars /\ UNCHANGED roles
  BY DEF Settle
<1>5. TypeOK'
  BY <1>1, <1>2, <1>3, <1>4, NoOpType DEF AssignmentInv, TypeOK, storeVars, Places
<1>6. Shape'
  <2>1. CASE pc' = "apply" /\ op' = o
    <3>1. op'.todo \subseteq BoundIds'
      BY <1>3, <1>4, <2>1 DEF storeVars, BoundIds
    <3> QED
      BY <2>1, <3>1 DEF Shape, OpDocument, OpDelete, OpTodo,
         OpSave, OpRename, OpBinding, WithDocument, Saving, Deleting, Renaming
  <2>2. CASE pc' = "idle"
    BY <2>2, ShapeAtRest DEF Restful
  <2> QED BY <1>2, <2>1, <2>2
<1>7. EffectiveCurrent'
  BY <1>4, EffectiveStable DEF AssignmentInv, storeVars
<1> QED BY <1>5, <1>6, <1>7 DEF AssignmentInv

(* SettleIdentity preserves AssignmentInv.                                 *)
LEMMA SettleIdentityAssignmentInv ==
    ASSUME AssignmentInv, NEW i \in Identity, SettleIdentity(i)
    PROVE  AssignmentInv'
<1>1. TypeOK'
  <2>1. /\ acl' \in [Identity -> Contents \cup {None}]
        /\ retirements' \subseteq Identity
        /\ faults' \in 0 .. MaxFaults
    BY RemoveIdentityType, CountedType DEF SettleIdentity, AssignmentInv, TypeOK
  <2>2. op' \in Operation
    <3>1. PICK res \in Outcome :
            op' = [op EXCEPT !.ids = op.ids \ {i}, !.failed = op.failed \/ res # "ok"]
      BY DEF SettleIdentity
    <3>2. PICK f \in BOOLEAN : op' = [op EXCEPT !.ids = op.ids \ {i}, !.failed = f]
      BY <3>1
    <3> QED BY <3>2 DEF AssignmentInv, TypeOK, Operation
  <2> QED
    BY <2>1, <2>2 DEF SettleIdentity, workerVars, AssignmentInv, TypeOK, Places
<1>2. Shape'
  BY ShapeAtRest DEF SettleIdentity, Restful
<1>3. EffectiveCurrent'
  BY EffectiveStable DEF SettleIdentity, AssignmentInv
<1> QED BY <1>1, <1>2, <1>3 DEF AssignmentInv

(* SettleDone preserves AssignmentInv.                                     *)
LEMMA SettleDoneAssignmentInv == AssignmentInv /\ SettleDone => AssignmentInv'
<1> SUFFICES ASSUME AssignmentInv, SettleDone PROVE AssignmentInv'
  OBVIOUS
<1>1. op.failed \in BOOLEAN
  BY DEF AssignmentInv, TypeOK, Operation
<1>2. TypeOK'
  BY <1>1, SettleReturnType, NoOpType DEF SettleDone, storeVars, baoVars,
     AssignmentInv, TypeOK, Places
<1>3. Shape'
  BY <1>1, ShapeAtRest, SettleReturnType DEF SettleDone, AssignmentInv, Restful
<1>4. EffectiveCurrent'
  BY EffectiveStable DEF SettleDone, AssignmentInv, storeVars
<1> QED BY <1>2, <1>3, <1>4 DEF AssignmentInv

(* BindingCommit preserves AssignmentInv.                                  *)
LEMMA BindingCommitAssignmentInv == AssignmentInv /\ BindingCommit => AssignmentInv'
<1> SUFFICES ASSUME AssignmentInv, BindingCommit PROVE AssignmentInv'
  OBVIOUS
<1> DEFINE o == [op EXCEPT !.todo = Changed(op.affected)]
<1>1. PICK res \in Outcome :
        /\ Counted(res)
        /\ bindings' = IF res = "failed" THEN bindings ELSE Updated(op.affected)
        /\ IF res = "ok" THEN pc' = "apply" /\ op' = o ELSE Return
  BY DEF BindingCommit
<1>2. op \in Operation /\ op.affected \in [Bindings -> Binding \cup {None}]
  BY DEF AssignmentInv, TypeOK, Operation
<1>3. o \in Operation /\ o.todo = Changed(op.affected)
  BY <1>2 DEF Operation, Changed
<1> HIDE DEF o
<1>4. bindings' \in [Bindings -> Binding \cup {None}]
  BY <1>1, <1>2 DEF Updated, AssignmentInv, TypeOK
<1>5. UNCHANGED policies
  BY DEF BindingCommit
<1>6. EffectiveCurrent'
  <2>1. CASE bindings' = bindings
    BY <1>5, <2>1, EffectiveStable DEF AssignmentInv
  <2>2. CASE bindings' = Updated(op.affected)
    <3>1. ASSUME NEW b \in BoundIds'
          PROVE  /\ bindings'[b].policies \subseteq Stored
                 /\ bindings'[b].eff = Compose(policies, bindings'[b].policies)
      <4>1. CASE op.affected[b] # None
        BY <2>2, <4>1 DEF BoundIds, Updated, Changed, BindingCommit, AssignmentInv,
        Shape, OpBinding
      <4>2. CASE op.affected[b] = None
        BY <2>2, <4>2 DEF BoundIds, Updated, AssignmentInv, EffectiveCurrent
      <4> QED BY <4>1, <4>2
    <3> QED BY <1>5, <3>1 DEF EffectiveCurrent, Stored, Compose
  <2> QED BY <1>1, <2>1, <2>2
<1>7. TypeOK'
  <2>1. faults' \in 0 .. MaxFaults
    BY <1>1, CountedType DEF AssignmentInv, TypeOK
  <2>2. op' \in Operation /\ pc' \in Places
    BY <1>1, <1>3, NoOpType DEF Return, Places
  <2> QED
    BY <1>4, <2>1, <2>2 DEF BindingCommit, AssignmentInv, TypeOK, baoVars, workerVars
<1>8. Shape'
  <2>1. CASE res = "ok"
    <3>1. op'.todo \subseteq BoundIds'
      BY <1>1, <1>2, <1>3, <2>1, NoneAssumption DEF BoundIds, Updated, Changed
    <3> QED
      BY <1>1, <2>1, <3>1 DEF Shape, OpDocument, OpDelete, OpTodo,
         OpSave, OpRename, OpBinding, WithDocument, Saving, Deleting, Renaming
  <2>2. CASE res # "ok"
    BY <1>1, <2>2, ShapeAtRest DEF Return, Restful
  <2> QED BY <2>1, <2>2
<1> QED BY <1>6, <1>7, <1>8 DEF AssignmentInv

(* UnbindRole preserves AssignmentInv.                                     *)
LEMMA UnbindRoleAssignmentInv == AssignmentInv /\ UnbindRole => AssignmentInv'
<1> SUFFICES ASSUME AssignmentInv, UnbindRole PROVE AssignmentInv'
  OBVIOUS
<1>1. TypeOK'
  <2>1. faults' \in 0 .. MaxFaults
    BY CountedType DEF UnbindRole, AssignmentInv, TypeOK
  <2>2. roles' \in [Bindings -> {None} \cup Role]
    BY DEF UnbindRole, AssignmentInv, TypeOK
  <2> QED
    BY <2>1, <2>2 DEF UnbindRole, AssignmentInv, TypeOK, storeVars, workerVars, Places
<1>2. Shape'
  BY DEF UnbindRole, AssignmentInv, storeVars, BoundIds, Shape, OpDocument,
     OpDelete, OpTodo,
     OpSave, OpRename, OpBinding, WithDocument, Saving, Deleting, Renaming
<1>3. EffectiveCurrent'
  BY EffectiveStable DEF UnbindRole, AssignmentInv, storeVars
<1> QED BY <1>1, <1>2, <1>3 DEF AssignmentInv

(* UnbindRetire preserves AssignmentInv.                                   *)
LEMMA UnbindRetireAssignmentInv == AssignmentInv /\ UnbindRetire => AssignmentInv'
<1> SUFFICES ASSUME AssignmentInv, UnbindRetire PROVE AssignmentInv'
  OBVIOUS
<1>1. PICK res \in Outcome, b \in op.todo :
        /\ Counted(res)
        /\ IF res = "failed"
             THEN UNCHANGED <<bindings, retired>>
             ELSE /\ bindings' = [bindings EXCEPT ![b] = None]
                  /\ retired' = retired \cup {b}
  BY DEF UnbindRetire
<1>2. b \in Bindings
  BY DEF UnbindRetire, AssignmentInv, Shape, OpTodo, BoundIds
<1>3. TypeOK'
  <2>1. faults' \in 0 .. MaxFaults
    BY <1>1, CountedType DEF AssignmentInv, TypeOK
  <2>2. bindings' \in [Bindings -> Binding \cup {None}] /\ retired' \subseteq Bindings
    BY <1>1, <1>2 DEF AssignmentInv, TypeOK
  <2> QED
    BY <2>1, <2>2, NoOpType
    DEF UnbindRetire, Return, AssignmentInv, TypeOK, baoVars, workerVars, Places
<1>4. Shape'
  BY ShapeAtRest DEF UnbindRetire, Return, Restful
<1>5. EffectiveCurrent'
  <2>1. \A x \in BoundIds' : x \in BoundIds /\ bindings'[x] = bindings[x]
    BY <1>1, <1>2 DEF BoundIds, AssignmentInv, TypeOK
  <2> QED BY <2>1 DEF UnbindRetire, AssignmentInv, EffectiveCurrent, Stored, Compose
<1> QED BY <1>3, <1>4, <1>5 DEF AssignmentInv

(* Issue preserves AssignmentInv.                                          *)
LEMMA IssueAssignmentInv == AssignmentInv /\ Issue => AssignmentInv'
<1> SUFFICES ASSUME AssignmentInv, Issue PROVE AssignmentInv'
  OBVIOUS
<1>1. /\ acl' \in [Identity -> Contents \cup {None}]
      /\ pending' \in BOOLEAN
      /\ reverted' \subseteq Identity
      /\ faults' \in 0 .. MaxFaults
  BY SyncType DEF Issue, AssignmentInv, TypeOK
<1>2. \/ pc' = "apply" /\ op' = op
      \/ pc' = "idle" /\ op' = NoOp
  BY DEF Issue, Return
<1>3. TypeOK'
  BY <1>1, <1>2, NoOpType DEF Issue, AssignmentInv, TypeOK, storeVars, workerVars,
     Places
<1>4. Shape'
  <2>1. CASE pc' = "apply" /\ op' = op
    BY <2>1 DEF Issue, storeVars, BoundIds, AssignmentInv, Shape, OpDocument,
       OpDelete, OpTodo,
       OpSave, OpRename, OpBinding, WithDocument, Saving, Deleting, Renaming
  <2>2. CASE pc' = "idle"
    BY <2>2, ShapeAtRest DEF Restful
  <2> QED BY <1>2, <2>1, <2>2
<1>5. EffectiveCurrent'
  BY EffectiveStable DEF Issue, AssignmentInv, storeVars
<1> QED BY <1>3, <1>4, <1>5 DEF AssignmentInv

(* IssueSecret preserves AssignmentInv.                                    *)
LEMMA IssueSecretAssignmentInv == AssignmentInv /\ IssueSecret => AssignmentInv'
<1> SUFFICES ASSUME AssignmentInv, IssueSecret PROVE AssignmentInv'
  OBVIOUS
<1>1. TypeOK'
  BY NoOpType DEF IssueSecret, Return, AssignmentInv, TypeOK, storeVars, baoVars,
     workerVars, Places
<1>2. Shape'
  BY ShapeAtRest DEF IssueSecret, Return, Restful
<1>3. EffectiveCurrent'
  BY EffectiveStable DEF IssueSecret, AssignmentInv, storeVars
<1> QED BY <1>1, <1>2, <1>3 DEF AssignmentInv

(* Crash preserves AssignmentInv.                                          *)
LEMMA CrashAssignmentInv == AssignmentInv /\ Crash => AssignmentInv'
<1> SUFFICES ASSUME AssignmentInv, Crash PROVE AssignmentInv'
  OBVIOUS
<1>1. TypeOK'
  <2>1. faults' \in 0 .. MaxFaults
    BY CountedType DEF Crash, AssignmentInv, TypeOK, Outcome
  <2> QED
    BY <2>1, NoOpType DEF Crash, AssignmentInv, TypeOK, storeVars, baoVars, Places
<1>2. Shape'
  BY ShapeAtRest DEF Crash, Restful
<1>3. EffectiveCurrent'
  BY EffectiveStable DEF Crash, AssignmentInv, storeVars
<1> QED BY <1>1, <1>2, <1>3 DEF AssignmentInv

(* Start preserves AssignmentInv.                                          *)
LEMMA StartAssignmentInv == AssignmentInv /\ Start => AssignmentInv'
<1> SUFFICES ASSUME AssignmentInv, Start PROVE AssignmentInv'
  OBVIOUS
<1> DEFINE o == [NoOp EXCEPT !.todo = BoundIds, !.then = "start"]
<1>1. /\ acl' \in [Identity -> Contents \cup {None}]
      /\ pending' \in BOOLEAN
      /\ reverted' \subseteq Identity
      /\ faults' \in 0 .. MaxFaults
  BY SyncType DEF Start, AssignmentInv, TypeOK
<1>2. /\ \/ pc' = "apply" /\ op' = o
         \/ pc' = "idle" /\ op' = NoOp
      /\ wake' \in BOOLEAN /\ worker' \in {"asleep", "awake"} /\ returning' \in BOOLEAN
  BY DEF Start, Return, workerVars, AssignmentInv, TypeOK
<1>3. o \in Operation /\ o.todo = BoundIds
  BY DEF NoOp, Operation, BoundIds
<1> HIDE DEF o
<1>4. TypeOK'
  BY <1>1, <1>2, <1>3, NoOpType DEF Start, AssignmentInv, TypeOK, storeVars, Places
<1>5. Shape'
  <2>1. CASE pc' = "apply" /\ op' = o
    <3>1. op'.todo \subseteq BoundIds'
      BY <1>3, <2>1 DEF Start, storeVars, BoundIds
    <3> QED
      BY <2>1, <3>1 DEF Shape, OpDocument, OpDelete, OpTodo,
         OpSave, OpRename, OpBinding, WithDocument, Saving, Deleting, Renaming
  <2>2. CASE pc' = "idle"
    BY <2>2, ShapeAtRest DEF Restful
  <2> QED BY <1>2, <2>1, <2>2
<1>6. EffectiveCurrent'
  BY EffectiveStable DEF Start, AssignmentInv, storeVars
<1> QED BY <1>4, <1>5, <1>6 DEF AssignmentInv

(* A step that leaves the tables and the operation alone keeps its shape.  *)
LEMMA ShapeUnchanged ==
    ASSUME Shape, UNCHANGED <<policies, bindings, op, pc>>
    PROVE  Shape'
<1>1. OpSave' /\ OpRename'
  BY AffectedStable DEF Shape, OpSave, OpRename, RevisionsLeft, BoundIds
<1>2. OpDocument' /\ OpDelete' /\ OpTodo' /\ OpBinding'
  BY DEF Shape, OpDocument, OpDelete, OpTodo, OpBinding, BoundIds, Changed, Stored,
     Compose
<1> QED BY <1>1, <1>2 DEF Shape

(* Steps of the consumer and stuttering preserve the invariant.            *)
LEMMA WakeAssignmentInv == AssignmentInv /\ (WorkerWake \/ RenameWake \/ UNCHANGED vars) => AssignmentInv'
<1> SUFFICES ASSUME AssignmentInv, WorkerWake \/ RenameWake \/ UNCHANGED vars PROVE AssignmentInv'
  OBVIOUS
<1>1. /\ UNCHANGED <<policies, generations, retirements, bindings, retired, acl,
                     roles, pending, pc, op, departed, reverted, faults>>
      /\ wake' \in BOOLEAN /\ worker' \in {"asleep", "awake"} /\ returning' \in BOOLEAN
  BY DEF WorkerWake, RenameWake, vars, storeVars, baoVars, AssignmentInv, TypeOK
<1>2. TypeOK'
  BY <1>1 DEF AssignmentInv, TypeOK
<1>3. Shape'
  BY <1>1, ShapeUnchanged DEF AssignmentInv
<1>4. EffectiveCurrent'
  BY <1>1, EffectiveStable DEF AssignmentInv
<1> QED BY <1>2, <1>3, <1>4 DEF AssignmentInv

(* The initial states satisfy AssignmentInv.                               *)
LEMMA InitAssignmentInv == Init => AssignmentInv
<1> SUFFICES ASSUME Init PROVE AssignmentInv
  OBVIOUS
<1>1. TypeOK
  <2>1. generations \in [Names -> 0 .. MaxGen] /\ faults \in 0 .. MaxFaults
    BY BoundAssumption DEF Init
  <2>2. policies \in [Names -> Row \cup {None}] /\ bindings \in [Bindings -> Binding \cup {None}]
    BY DEF Init
  <2>3. acl \in [Identity -> Contents \cup {None}] /\ roles \in [Bindings -> {None} \cup Role]
    BY DEF Init
  <2> QED BY <2>1, <2>2, <2>3, NoOpType DEF Init, TypeOK, Places
<1>2. Shape
  BY DEF Init, Shape, OpDocument, OpDelete, OpTodo, OpSave, OpRename, OpBinding,
     WithDocument, Saving, Deleting, Renaming
<1>3. EffectiveCurrent
  BY DEF Init, EffectiveCurrent, BoundIds
<1> QED BY <1>1, <1>2, <1>3 DEF AssignmentInv

(* Every step of the specification preserves AssignmentInv.                *)
LEMMA NextAssignmentInv == AssignmentInv /\ [Next]_vars => AssignmentInv'
<1> SUFFICES ASSUME AssignmentInv, [Next]_vars PROVE AssignmentInv'
  OBVIOUS
<1>1. CASE Request
  BY <1>1, SaveBeginAssignmentInv, DeleteBeginAssignmentInv,
     RenameBeginAssignmentInv, CreateBindingAssignmentInv,
     RepeatBindAssignmentInv, DeleteBindingAssignmentInv, IssueBeginAssignmentInv DEF Request
<1>2. CASE Holder
  BY <1>2, SavePublishAssignmentInv, SaveCommitAssignmentInv, RestoreAssignmentInv,
     DeletePublishAssignmentInv,
     DeleteCommitAssignmentInv, DeleteSettleAssignmentInv,
     RenameRecordAssignmentInv, RenamePublishAssignmentInv,
     RenameCommitAssignmentInv, RenameSettleAssignmentInv,
     RenameRemoveAssignmentInv, BindingCommitAssignmentInv,
     UnbindRoleAssignmentInv, UnbindRetireAssignmentInv, IssueAssignmentInv,
     IssueSecretAssignmentInv,
     ApplyBindingAssignmentInv, ApplyDoneAssignmentInv, SettleAssignmentInv,
     SettleDoneAssignmentInv,
     SettleIdentityAssignmentInv DEF Holder
<1>3. CASE WorkerPass \/ WorkerWake \/ RenameWake \/ Crash \/ Start \/ UNCHANGED vars
  BY <1>3, WorkerPassAssignmentInv, WakeAssignmentInv, CrashAssignmentInv,
     StartAssignmentInv
<1> QED BY <1>1, <1>2, <1>3 DEF Next

(* Every reachable state of the publication protocol is well typed, for    *)
(* any number of names, bindings, documents, revisions and failures.       *)
THEOREM TypeCorrect == Spec => []TypeOK
<1>1. AssignmentInv => TypeOK
  BY DEF AssignmentInv
<1> QED BY <1>1, InitAssignmentInv, NextAssignmentInv, PTL DEF Spec

(* No save, rename, delete or binding edit (operations.go,                 *)
(* policy_delete.go, policy_rename.go) ever leaves a stored assignment     *)
(* composed from a row that is no longer stored, whichever call of it      *)
(* fails and whenever the controller crashes.                              *)
THEOREM AssignmentsCurrent == Spec => []EffectiveCurrent
<1>1. AssignmentInv => EffectiveCurrent
  BY DEF AssignmentInv
<1> QED BY <1>1, InitAssignmentInv, NextAssignmentInv, PTL DEF Spec

----------------------------------------------------------------------------
(* Roles and retirements.                                                    *)

(* Which loop an apply loop belongs to.                                      *)
OpThen ==
    /\ pc \in {"savePublish", "saveCommit", "bindingCommit"} => op.then = "idle"
    /\ pc = "issue" => op.then = "issueSecret"
    /\ pc = "settle" => op.then \in {"rename", "worker"} /\ ~op.failed

(* A settlement reaches the removals only with every binding applied.        *)
OpSettle ==
    /\ pc = "apply" /\ op.then \in {"rename", "worker"} =>
         \A b \in BoundIds : bindings[b].applied \/ b \in op.todo \/ op.failed
    /\ pc = "settleRemove" => \A b \in BoundIds : bindings[b].applied

(* The inductive invariant of the roles.                                   *)
GrantInv == AppliedGrants /\ OpThen /\ OpSettle

(* Steps that touch neither bindings nor roles keep what applied roles     *)
(* grant.                                                                  *)
LEMMA GrantsStable ==
    ASSUME AppliedGrants, UNCHANGED <<bindings, roles>>
    PROVE  AppliedGrants'
  BY DEF AppliedGrants, BoundIds, OpenBaoPolicies

(* Where neither OpThen nor OpSettle says anything.                          *)
Silent == Places \ {"savePublish", "saveCommit", "bindingCommit", "issue",
                    "settle", "apply", "settleRemove"}

(* At those places both hold.                                              *)
LEMMA SilentOps ==
    ASSUME pc' \in Silent
    PROVE  OpThen' /\ OpSettle'
  BY DEF Silent, OpThen, OpSettle

(* A step to such a place that leaves bindings and roles alone preserves   *)
(* GrantInv.                                                               *)
LEMMA SilentGrantInv ==
    ASSUME GrantInv, UNCHANGED <<bindings, roles>>, pc' \in Silent
    PROVE  GrantInv'
  BY GrantsStable, SilentOps DEF GrantInv

(* Request preserves GrantInv.                                             *)
LEMMA RequestGrantInv == AssignmentInv /\ GrantInv /\ Request => GrantInv'
<1> SUFFICES ASSUME AssignmentInv, GrantInv, Request PROVE GrantInv'
  OBVIOUS
<1>1. UNCHANGED <<bindings, roles>>
  BY DEF Request, SaveBegin, DeleteBegin, RenameBegin, CreateBinding, ChangeBinding,
     CommitBinding, RepeatBind, DeleteBinding, IssueBegin, Begin, storeVars, baoVars
<1>2. ASSUME NEW n \in Names, NEW c \in Contents, SaveBegin(n, c) PROVE OpThen' /\ OpSettle'
  BY <1>2 DEF SaveBegin, Begin, NoOp, OpThen, OpSettle
<1>3. ASSUME NEW b \in Bindings, NEW P \in SUBSET Names,
             CreateBinding(b, P) \/ ChangeBinding(b, P)
      PROVE  OpThen' /\ OpSettle'
  BY <1>3 DEF CreateBinding, ChangeBinding, CommitBinding, Begin, NoOp, OpThen, OpSettle
<1>4. ASSUME NEW b \in Bindings, NEW current \in BOOLEAN, IssueBegin(b, current)
      PROVE  OpThen' /\ OpSettle'
  BY <1>4 DEF IssueBegin, Begin, NoOp, OpThen, OpSettle
<1>5. ASSUME NEW b \in Bindings, RepeatBind(b) PROVE OpThen' /\ OpSettle'
  BY <1>5 DEF RepeatBind, Begin, NoOp, OpThen, OpSettle
<1>6. ASSUME \/ \E n \in Names : DeleteBegin(n)
             \/ \E n, m \in Names : RenameBegin(n, m)
             \/ \E b \in Bindings : DeleteBinding(b)
      PROVE  OpThen' /\ OpSettle'
  BY <1>6, SilentOps DEF DeleteBegin, RenameBegin, DeleteBinding, Begin, Silent, Places
<1> QED
  BY <1>1, <1>2, <1>3, <1>4, <1>5, <1>6, GrantsStable DEF Request, GrantInv

(* A commit of assignments that are not applied disturbs no applied one.     *)
LEMMA UpdatedGrants ==
    ASSUME AppliedGrants, UNCHANGED roles, bindings' = Updated(op.affected),
           \A b \in Bindings : op.affected[b] # None => ~op.affected[b].applied
    PROVE  AppliedGrants'
  BY DEF AppliedGrants, BoundIds, Updated, OpenBaoPolicies

(* The rows a save or a rename commits are not applied.                    *)
LEMMA AffectedUnapplied ==
    ASSUME AssignmentInv, pc \in Saving \cup Renaming, NEW b \in Bindings, op.affected[b] # None
    PROVE  ~op.affected[b].applied
<1>1. op.affected = Affected(op.from, op.name, op.row)
  BY DEF AssignmentInv, Shape, OpSave, OpRename
<1> QED BY <1>1 DEF Affected

(* SaveCommit preserves GrantInv.                                          *)
LEMMA SaveCommitGrantInv == AssignmentInv /\ GrantInv /\ SaveCommit => GrantInv'
<1> SUFFICES ASSUME AssignmentInv, GrantInv, SaveCommit PROVE GrantInv'
  OBVIOUS
<1>1. AppliedGrants'
  <2>1. UNCHANGED roles /\ (bindings' = bindings \/ bindings' = Updated(op.affected))
    BY DEF SaveCommit, baoVars
  <2>2. \A b \in Bindings : op.affected[b] # None => ~op.affected[b].applied
    BY AffectedUnapplied DEF SaveCommit, Saving
  <2> QED BY <2>1, <2>2, GrantsStable, UpdatedGrants DEF GrantInv
<1>2. OpThen' /\ OpSettle'
  BY DEF SaveCommit, AssignmentInv, GrantInv, TypeOK, Operation, OpThen, OpSettle
<1> QED BY <1>1, <1>2 DEF GrantInv

(* RenameCommit preserves GrantInv.                                        *)
LEMMA RenameCommitGrantInv == AssignmentInv /\ GrantInv /\ RenameCommit => GrantInv'
<1> SUFFICES ASSUME AssignmentInv, GrantInv, RenameCommit PROVE GrantInv'
  OBVIOUS
<1>1. AppliedGrants'
  <2>1. UNCHANGED roles /\ (bindings' = bindings \/ bindings' = Updated(op.affected))
    BY DEF RenameCommit, baoVars, storeVars
  <2>2. \A b \in Bindings : op.affected[b] # None => ~op.affected[b].applied
    BY AffectedUnapplied DEF RenameCommit, Renaming
  <2> QED BY <2>1, <2>2, GrantsStable, UpdatedGrants DEF GrantInv
<1>2. OpThen' /\ OpSettle'
  <2>1. (pc' = "apply" /\ op'.then = "renameSettle") \/ pc' = "renameSettle"
    BY DEF RenameCommit, AssignmentInv, TypeOK, Operation
  <2> QED BY <2>1 DEF OpThen, OpSettle
<1> QED BY <1>1, <1>2 DEF GrantInv

(* BindingCommit preserves GrantInv.                                       *)
LEMMA BindingCommitGrantInv == AssignmentInv /\ GrantInv /\ BindingCommit => GrantInv'
<1> SUFFICES ASSUME AssignmentInv, GrantInv, BindingCommit PROVE GrantInv'
  OBVIOUS
<1>1. AppliedGrants'
  <2>1. UNCHANGED roles /\ (bindings' = bindings \/ bindings' = Updated(op.affected))
    BY DEF BindingCommit, baoVars
  <2>2. \A b \in Bindings : op.affected[b] # None => ~op.affected[b].applied
    BY DEF BindingCommit, AssignmentInv, Shape, OpBinding, Changed
  <2> QED BY <2>1, <2>2, GrantsStable, UpdatedGrants DEF GrantInv
<1>2. OpThen' /\ OpSettle'
  <2>1. (pc' = "apply" /\ op'.then = "idle") \/ pc' = "idle"
    BY DEF BindingCommit, Return, AssignmentInv, TypeOK, Operation, GrantInv, OpThen
  <2> QED BY <2>1 DEF OpThen, OpSettle
<1> QED BY <1>1, <1>2 DEF GrantInv

(* RenameSettle preserves GrantInv.                                        *)
LEMMA RenameSettleGrantInv == AssignmentInv /\ GrantInv /\ RenameSettle => GrantInv'
<1> SUFFICES ASSUME AssignmentInv, GrantInv, RenameSettle PROVE GrantInv'
  OBVIOUS
<1>1. AppliedGrants'
  BY GrantsStable DEF RenameSettle, GrantInv, storeVars, baoVars
<1>2. (pc' = "apply" /\ op'.then = "renameSettle") \/ pc' \in {"remove", "idle"}
  BY DEF RenameSettle, ReturnRename, Return, AssignmentInv, TypeOK, Operation
<1>3. OpThen' /\ OpSettle'
  BY <1>2 DEF OpThen, OpSettle
<1> QED BY <1>1, <1>3 DEF GrantInv

(* ApplyBinding preserves GrantInv.                                        *)
LEMMA ApplyBindingGrantInv ==
    ASSUME AssignmentInv, GrantInv, NEW b \in Bindings, ApplyBinding(b)
    PROVE  GrantInv'
<1> DEFINE granted == OpenBaoPolicies(bindings[b].eff)
<1>1. b \in BoundIds /\ bindings[b] \in Binding /\ b \in op.todo
  BY DEF ApplyBinding, AssignmentInv, Shape, OpTodo, TypeOK, BoundIds
<1>2. /\ bindings \in [Bindings -> Binding \cup {None}]
      /\ roles \in [Bindings -> {None} \cup Role]
      /\ op \in Operation
  BY DEF AssignmentInv, TypeOK
<1>3. \/ bindings' = bindings /\ roles' = roles
      \/ /\ bindings' = bindings /\ ~bindings[b].applied
         /\ \E r : roles' = [roles EXCEPT ![b] = r]
      \/ /\ bindings' = [bindings EXCEPT ![b].applied = TRUE]
         /\ roles' = [roles EXCEPT ![b] = granted]
  BY DEF ApplyBinding
<1>4. AppliedGrants'
  <2>1. CASE bindings' = bindings /\ roles' = roles
    BY <2>1, GrantsStable DEF GrantInv
  <2>2. CASE /\ bindings' = bindings /\ ~bindings[b].applied
             /\ \E r : roles' = [roles EXCEPT ![b] = r]
    BY <1>2, <2>2 DEF GrantInv, AppliedGrants, BoundIds, OpenBaoPolicies
  <2>3. CASE /\ bindings' = [bindings EXCEPT ![b].applied = TRUE]
             /\ roles' = [roles EXCEPT ![b] = granted]
    <3>1. bindings'[b].eff = bindings[b].eff /\ roles'[b] = granted
      BY <1>1, <1>2, <2>3 DEF Binding
    <3>2. \A x \in Bindings \ {b} : bindings'[x] = bindings[x] /\ roles'[x] = roles[x]
      BY <1>2, <2>3
    <3> QED BY <3>1, <3>2 DEF GrantInv, AppliedGrants, BoundIds, OpenBaoPolicies
  <2> QED BY <1>3, <2>1, <2>2, <2>3
<1>5. \/ op' = [op EXCEPT !.todo = op.todo \ {b}] /\ bindings'[b].applied
      \/ op' = [op EXCEPT !.todo = op.todo \ {b}, !.failed = TRUE]
  BY <1>1, <1>2 DEF ApplyBinding, Binding
<1>6. /\ op'.todo = op.todo \ {b} /\ op'.then = op.then
      /\ op.failed => op'.failed
      /\ bindings'[b].applied \/ op'.failed
  BY <1>2, <1>5 DEF Operation
<1>7. /\ BoundIds' \subseteq BoundIds
      /\ \A x \in Bindings \ {b} : bindings'[x] = bindings[x]
  BY <1>1, <1>2, <1>3 DEF BoundIds
<1>8. pc = "apply" /\ pc' = "apply"
  BY DEF ApplyBinding
<1>9. OpThen' /\ OpSettle'
  BY <1>6, <1>7, <1>8 DEF GrantInv, OpThen, OpSettle, BoundIds
<1> QED BY <1>4, <1>9 DEF GrantInv

(* ApplyDone preserves GrantInv.                                           *)
LEMMA ApplyDoneGrantInv == AssignmentInv /\ GrantInv /\ ApplyDone => GrantInv'
<1> SUFFICES ASSUME AssignmentInv, GrantInv, ApplyDone PROVE GrantInv'
  OBVIOUS
<1>1. UNCHANGED <<bindings, roles>>
  BY DEF ApplyDone, storeVars, baoVars
<1>2. \/ pc' \in {"idle", "issueSecret"}
      \/ pc' = "settle" /\ op' = [NoOp EXCEPT !.then = "rename"]
      \/ /\ pc' = "settleRemove" /\ pc = "apply" /\ op.todo = {} /\ ~op.failed
         /\ op.then \in {"rename", "worker"}
  BY DEF ApplyDone, ReturnRename, Return
<1>3. OpThen' /\ OpSettle'
  BY <1>1, <1>2 DEF NoOp, GrantInv, OpThen, OpSettle, BoundIds
<1> QED BY <1>1, <1>3, GrantsStable DEF GrantInv

(* Settle preserves GrantInv.                                              *)
LEMMA SettleGrantInv == AssignmentInv /\ GrantInv /\ Settle => GrantInv'
<1> SUFFICES ASSUME AssignmentInv, GrantInv, Settle PROVE GrantInv'
  OBVIOUS
<1> DEFINE todo == {b \in BoundIds : ~bindings[b].applied}
<1>1. UNCHANGED <<bindings, roles>>
  BY DEF Settle, storeVars
<1>2. pc' = "idle" \/ (pc' = "apply" /\ op' = [op EXCEPT !.todo = todo, !.ids = retirements])
  BY DEF Settle, SettleReturn, ReturnRename, Return
<1>3. CASE pc' = "apply" /\ op' = [op EXCEPT !.todo = todo, !.ids = retirements]
  <2>1. op'.todo = todo
    BY <1>3 DEF AssignmentInv, TypeOK, Operation
  <2> QED BY <1>1, <1>3, <2>1, GrantsStable DEF GrantInv, OpThen, OpSettle, BoundIds
<1>4. CASE pc' = "idle"
  BY <1>1, <1>4, SilentGrantInv DEF Silent, Places
<1> QED BY <1>2, <1>3, <1>4

(* UnbindRole preserves GrantInv.                                          *)
LEMMA UnbindRoleGrantInv == AssignmentInv /\ GrantInv /\ UnbindRole => GrantInv'
<1> SUFFICES ASSUME AssignmentInv, GrantInv, UnbindRole PROVE GrantInv'
  OBVIOUS
<1>1. AppliedGrants'
  <2>1. UNCHANGED bindings
    BY DEF UnbindRole, storeVars
  <2>2. \A b \in Bindings : roles'[b] \in {None, roles[b]}
    BY DEF UnbindRole, AssignmentInv, TypeOK
  <2> QED BY <2>1, <2>2 DEF GrantInv, AppliedGrants, BoundIds, OpenBaoPolicies
<1>2. OpThen' /\ OpSettle'
  BY SilentOps DEF UnbindRole, Silent, Places
<1> QED BY <1>1, <1>2 DEF GrantInv

(* UnbindRetire preserves GrantInv.                                        *)
LEMMA UnbindRetireGrantInv == AssignmentInv /\ GrantInv /\ UnbindRetire => GrantInv'
<1> SUFFICES ASSUME AssignmentInv, GrantInv, UnbindRetire PROVE GrantInv'
  OBVIOUS
<1>1. AppliedGrants'
  <2>1. UNCHANGED roles
    BY DEF UnbindRetire, baoVars
  <2>2. \A b \in Bindings : bindings'[b] \in {None, bindings[b]}
    BY DEF UnbindRetire, AssignmentInv, TypeOK
  <2> QED BY <2>1, <2>2 DEF GrantInv, AppliedGrants, BoundIds, OpenBaoPolicies
<1>2. OpThen' /\ OpSettle'
  BY SilentOps DEF UnbindRetire, Return, Silent, Places
<1> QED BY <1>1, <1>2 DEF GrantInv

(* Holder preserves GrantInv.                                              *)
LEMMA HolderGrantInv == AssignmentInv /\ GrantInv /\ Holder => GrantInv'
<1> SUFFICES ASSUME AssignmentInv, GrantInv, Holder PROVE GrantInv'
  OBVIOUS
<1>1. CASE SavePublish
  <2>1. UNCHANGED <<bindings, roles>> /\ pc = "savePublish"
    BY <1>1 DEF SavePublish, storeVars
  <2>2. (pc' = "saveCommit" /\ op' = op) \/ pc' \in {"restore", "idle"}
    BY <1>1 DEF SavePublish, Return
  <2> QED BY <2>1, <2>2, GrantsStable DEF GrantInv, OpThen, OpSettle
<1>2. CASE Restore \/ DeletePublish \/ DeleteCommit \/ DeleteSettle \/ RenameRecord
           \/ RenamePublish \/ RenameRemove \/ IssueSecret
  <2>1. UNCHANGED <<bindings, roles>>
    BY <1>2 DEF Restore, DeletePublish, DeleteCommit, DeleteSettle, RenameRecord,
       RenamePublish, RenameRemove, IssueSecret, storeVars, baoVars
  <2>2. pc' \in Silent
    BY <1>2 DEF Restore, DeletePublish, DeleteCommit, DeleteSettle, RenameRecord,
       RenamePublish, RenameRemove, IssueSecret, ReturnRename, Return, Silent, Places
  <2> QED BY <2>1, <2>2, SilentGrantInv
<1>3. CASE Issue
  <2>1. UNCHANGED <<bindings, roles>> /\ pc = "issue"
    BY <1>3 DEF Issue, storeVars
  <2>2. (pc' = "apply" /\ op' = op) \/ pc' = "idle"
    BY <1>3 DEF Issue, Return
  <2> QED BY <2>1, <2>2, GrantsStable DEF GrantInv, OpThen, OpSettle
<1>4. CASE \E i \in Identity : SettleIdentity(i)
  <2>1. UNCHANGED <<bindings, roles, pc>> /\ pc = "settleRemove"
    BY <1>4 DEF SettleIdentity
  <2> QED BY <2>1, GrantsStable DEF GrantInv, OpThen, OpSettle, BoundIds
<1>5. CASE SettleDone
  <2>1. UNCHANGED <<bindings, roles>> /\ pc' = "idle"
    BY <1>5 DEF SettleDone, SettleReturn, ReturnRename, Return, storeVars, baoVars
  <2> QED BY <2>1, SilentGrantInv DEF Silent, Places
<1> QED
  BY <1>1, <1>2, <1>3, <1>4, <1>5, SaveCommitGrantInv, RenameCommitGrantInv,
     RenameSettleGrantInv, BindingCommitGrantInv, UnbindRoleGrantInv,
     UnbindRetireGrantInv,
     ApplyBindingGrantInv, ApplyDoneGrantInv, SettleGrantInv DEF Holder

(* Every step of the specification preserves GrantInv.                     *)
LEMMA NextGrantInv == AssignmentInv /\ GrantInv /\ [Next]_vars => GrantInv'
<1> SUFFICES ASSUME AssignmentInv, GrantInv, [Next]_vars PROVE GrantInv'
  OBVIOUS
<1>1. CASE WorkerPass
  <2>1. UNCHANGED <<bindings, roles>> /\ pc' = "settle" /\ op' = [NoOp EXCEPT !.then = "worker"]
    BY <1>1 DEF WorkerPass, Begin, storeVars, baoVars
  <2> QED BY <2>1, GrantsStable DEF GrantInv, OpThen, OpSettle, NoOp
<1>2. CASE WorkerWake \/ RenameWake \/ UNCHANGED vars
  <2>1. UNCHANGED <<bindings, roles, pc, op>>
    BY <1>2 DEF WorkerWake, RenameWake, vars, storeVars, baoVars
  <2> QED BY <2>1, GrantsStable DEF GrantInv, OpThen, OpSettle, BoundIds
<1>3. CASE Crash
  BY <1>3, SilentGrantInv DEF Crash, storeVars, baoVars, Silent, Places
<1>4. CASE Start
  <2>1. UNCHANGED <<bindings, roles>>
    BY <1>4 DEF Start, storeVars
  <2>2. (pc' = "apply" /\ op' = [NoOp EXCEPT !.todo = BoundIds, !.then = "start"]) \/ pc' = "idle"
    BY <1>4 DEF Start, Return
  <2> QED BY <2>1, <2>2, GrantsStable DEF GrantInv, OpThen, OpSettle, NoOp
<1> QED
  BY <1>1, <1>2, <1>3, <1>4, RequestGrantInv, HolderGrantInv DEF Next

(* The initial states satisfy GrantInv.                                    *)
LEMMA InitGrantInv == Init => GrantInv
  BY DEF Init, GrantInv, AppliedGrants, OpThen, OpSettle, BoundIds

(* A binding marked applied by applyBinding never has a role that grants   *)
(* another set of policies than its stored assignment.                     *)
THEOREM RolesGrantAssignments == Spec => []AppliedGrants
<1>1. GrantInv => AppliedGrants
  BY DEF GrantInv
<1> QED BY <1>1, InitAssignmentInv, NextAssignmentInv, InitGrantInv, NextGrantInv,
   PTL DEF Spec

(* settlePolicyRetirements (policy_retirement.go) removes no identity that *)
(* the role of a stored binding still grants: it applies every binding     *)
(* first, under the same lock, and stops if one fails.                     *)
THEOREM RetirementsSpareRoles == Spec => RetirementSparesRoles
<1> DEFINE Spared == pc = "settleRemove" =>
         \A i \in Identity : acl[i] # None /\ acl'[i] = None =>
            \A b \in BoundIds : roles[b] # None => i \notin roles[b]
<1>1. ASSUME AssignmentInv, GrantInv, [Next]_vars PROVE Spared
  <2> SUFFICES ASSUME pc = "settleRemove", NEW i \in Identity, acl[i] # None,
                      acl'[i] = None, NEW b \in BoundIds, roles[b] # None
               PROVE  i \notin roles[b]
    OBVIOUS
  <2>1. i \notin Held
    <3>1. acl' # acl
      OBVIOUS
    <3>2. CASE Holder
      <4>1. PICK j \in Identity : SettleIdentity(j)
        BY <3>1, <3>2 DEF Holder, SavePublish, SaveCommit, Restore, DeletePublish,
           DeleteCommit, DeleteSettle, RenameRecord, RenamePublish, RenameCommit,
           RenameSettle, RenameRemove, BindingCommit, UnbindRole, UnbindRetire,
           Issue, IssueSecret, ApplyBinding, ApplyDone, Settle, SettleDone, baoVars
      <4>2. j \notin Held /\ (acl' = [acl EXCEPT ![j] = None])
        BY <3>1, <4>1 DEF SettleIdentity, RemoveIdentity
      <4> QED BY <1>1, <4>2 DEF AssignmentInv, TypeOK
    <3>3. CASE Request \/ WorkerPass \/ WorkerWake \/ RenameWake \/ Crash \/ Start \/ UNCHANGED vars
      BY <3>1, <3>3 DEF Request, SaveBegin, DeleteBegin, RenameBegin, CreateBinding,
         ChangeBinding, CommitBinding, RepeatBind, DeleteBinding, IssueBegin, Begin, WorkerPass,
         WorkerWake, RenameWake, Crash, Start, vars, baoVars
    <3> QED BY <1>1, <3>2, <3>3 DEF Next
  <2>2. bindings[b].applied /\ bindings[b].eff = Compose(policies, bindings[b].policies)
        /\ bindings[b].policies \subseteq Stored
    BY <1>1 DEF AssignmentInv, GrantInv, OpSettle, EffectiveCurrent
  <2>3. roles[b] = OpenBaoPolicies(bindings[b].eff)
    BY <1>1, <2>2 DEF GrantInv, AppliedGrants
  <2>4. roles[b] \subseteq Held
    BY <2>2, <2>3 DEF OpenBaoPolicies, Compose, Held
  <2> QED BY <2>1, <2>4
<1>2. Spec => []AssignmentInv /\ []GrantInv
  BY InitAssignmentInv, NextAssignmentInv, InitGrantInv, NextGrantInv, PTL DEF Spec
<1>3. Spec => [][Spared]_vars
  BY <1>1, <1>2, PTL DEF Spec
<1> QED BY <1>3 DEF RetirementSparesRoles

----------------------------------------------------------------------------
(***************************************************************************)
(* Proofs about the OpenBao identities of PolicyPublication: none that a   *)
(* row left is held again or escapes the removal records.  IdentityInv is  *)
(* inductive together with AssignmentInv.                                  *)
(***************************************************************************)

(* Within the bound the OpenBao name is the pair of name and generation.   *)
LEMMA NamePair ==
    ASSUME NEW n \in Names, NEW g \in 1 .. MaxGen
    PROVE  OpenBaoPolicyName(n, g) = <<n, g>>
  BY BoundAssumption DEF OpenBaoPolicyName

(* A row's generation is the last one given to its name, and every identity  *)
(* that was left is of an earlier generation, or its name has no row.        *)
GenerationsCurrent ==
    /\ \A n \in Stored : policies[n].gen = generations[n]
    /\ \A n \in Names, g \in 1 .. MaxGen : <<n, g>> \in departed =>
         /\ g <= generations[n]
         /\ n \in Stored => g < generations[n]

(* What the operation in flight publishes: a new name gets a generation    *)
(* nobody had, an existing row keeps its own; a restoration puts back an   *)
(* identity its row still holds; and a row is deleted only once its        *)
(* identity is gone.                                                       *)
OpGeneration ==
    /\ pc \in Saving => op.row.gen = IF op.old = None THEN generations[op.name] + 1
                                     ELSE op.old.gen
    /\ pc \in Renaming => op.row.gen = generations[op.name] + 1
    /\ pc = "restore" /\ op.old # None =>
         policies[op.name] # None /\ policies[op.name].gen = op.old.gen
    /\ pc = "deleteSettle" => policies[op.name] \in {None, op.old}
    /\ pc = "deleteCommit" => acl[DocIdentity] = None

(* The inductive invariant of the identities.                              *)
IdentityInv == GenerationsCurrent /\ OpGeneration /\ DepartedIsTracked

(* The row of a stored policy, and its identity.                           *)
LEMMA StoredRow ==
    ASSUME AssignmentInv, NEW n \in Stored
    PROVE  n \in Names /\ policies[n] \in Row /\ policies[n].gen \in 1 .. MaxGen
           /\ OpenBaoPolicyName(n, policies[n].gen) = <<n, policies[n].gen>>
<1>1. n \in Names /\ policies[n] \in Row
  BY DEF Stored, AssignmentInv, TypeOK
<1>2. policies[n].gen \in 1 .. MaxGen
  BY <1>1 DEF Row
<1> QED BY <1>1, <1>2, NamePair

(* GenerationsCurrent implies that no held identity was left by a row.     *)
LEMMA HeldNotDeparted ==
    ASSUME AssignmentInv, GenerationsCurrent
    PROVE  IdentityNotReused
<1>1. ASSUME NEW n \in Stored PROVE OpenBaoPolicyName(n, policies[n].gen) \notin departed
  <2>1. policies[n].gen = generations[n] /\ generations[n] \in Nat
    BY DEF GenerationsCurrent, AssignmentInv, TypeOK, Stored
  <2> QED BY <2>1, StoredRow DEF GenerationsCurrent
<1> QED BY <1>1 DEF IdentityNotReused, Held

(* The identity of the document in flight.                                 *)
LEMMA DocPair ==
    ASSUME AssignmentInv, pc \in WithDocument
    PROVE  /\ op.name \in Names /\ op.row.gen \in 1 .. MaxGen
           /\ DocIdentity = <<op.name, op.row.gen>> /\ DocIdentity \in Identity
<1>1. op.name \in Names /\ op.row.gen \in 1 .. MaxGen
  BY DEF AssignmentInv, Shape, OpDocument, Row
<1> QED BY <1>1, NamePair, IdentityOfName DEF DocIdentity

(* What a save or a rename publishes, no row has left.                       *)
LEMMA DocNotDeparted ==
    ASSUME AssignmentInv, IdentityInv, pc \in Saving \cup Renaming
    PROVE  DocIdentity \notin departed
<1>1. /\ op.name \in Names /\ op.row.gen \in 1 .. MaxGen
      /\ DocIdentity = <<op.name, op.row.gen>>
  BY DocPair DEF WithDocument
<1>2. generations[op.name] \in Nat
  BY <1>1 DEF AssignmentInv, TypeOK
<1>3. CASE op.row.gen = generations[op.name] + 1
  BY <1>1, <1>2, <1>3 DEF IdentityInv, GenerationsCurrent
<1>4. CASE pc \in Saving /\ op.old # None
  <2>1. op.name \in Stored /\ op.old = policies[op.name] /\ op.row.gen = policies[op.name].gen
    BY <1>1, <1>4 DEF AssignmentInv, Shape, OpSave, Stored, IdentityInv, OpGeneration
  <2> QED BY <1>1, <1>2, <2>1 DEF IdentityInv, GenerationsCurrent
<1> QED BY <1>3, <1>4 DEF IdentityInv, OpGeneration

(* Steps that change no row keep the generations current.                  *)
LEMMA GenerationsStable ==
    ASSUME GenerationsCurrent, UNCHANGED <<policies, generations, departed>>
    PROVE  GenerationsCurrent'
  BY DEF GenerationsCurrent, Stored

(* No step but a commit touches the rows and the identities they left.       *)
LEMMA TrackedStable ==
    ASSUME DepartedIsTracked, UNCHANGED <<departed, acl, retirements>>
    PROVE  DepartedIsTracked'
  BY DEF DepartedIsTracked

(* Places about which OpGeneration says nothing.                           *)
QuietPlaces ==
    Places \ (Saving \cup Renaming \cup {"restore", "deleteSettle", "deleteCommit"})

(* At those places it holds.                                               *)
LEMMA QuietOps == ASSUME pc' \in QuietPlaces PROVE OpGeneration'
  BY DEF QuietPlaces, OpGeneration

(* Request preserves IdentityInv.                                          *)
LEMMA RequestIdentityInv == AssignmentInv /\ IdentityInv /\ Request => IdentityInv'
<1> SUFFICES ASSUME AssignmentInv, IdentityInv, Request PROVE IdentityInv'
  OBVIOUS
<1>1. UNCHANGED <<policies, generations, departed, acl, retirements>>
  BY DEF Request, SaveBegin, DeleteBegin, RenameBegin, CreateBinding, ChangeBinding,
     CommitBinding, RepeatBind, DeleteBinding, IssueBegin, Begin, storeVars, baoVars
<1>2. ASSUME NEW n \in Names, NEW c \in Contents, SaveBegin(n, c) PROVE OpGeneration'
  <2>1. /\ pc' = "savePublish" /\ op'.name = n /\ op'.old = policies[n]
        /\ op'.row.gen = IF policies[n] = None THEN generations[n] + 1 ELSE policies[n].gen
    BY <1>2 DEF SaveBegin, Begin, NoOp, NextPolicyGeneration
  <2> QED BY <1>1, <2>1 DEF OpGeneration, Renaming
<1>3. ASSUME NEW n \in Names, NEW m \in Names, RenameBegin(n, m) PROVE OpGeneration'
  <2>1. /\ pc' = "renameRecord" /\ op'.name = m
        /\ op'.row.gen = generations[m] + 1
    BY <1>3 DEF RenameBegin, Begin, NoOp, NextPolicyGeneration
  <2> QED BY <1>1, <2>1 DEF OpGeneration, Saving
<1>4. ASSUME \/ \E n \in Names : DeleteBegin(n)
             \/ \E b \in Bindings, P \in SUBSET Names :
                  CreateBinding(b, P) \/ ChangeBinding(b, P)
             \/ \E b \in Bindings : RepeatBind(b) \/ DeleteBinding(b)
             \/ \E b \in Bindings, current \in BOOLEAN : IssueBegin(b, current)
      PROVE  OpGeneration'
  BY <1>4, QuietOps DEF DeleteBegin, CreateBinding, ChangeBinding, CommitBinding,
     RepeatBind, DeleteBinding, IssueBegin, Begin, QuietPlaces, Places, Saving, Renaming
<1> QED
  BY <1>1, <1>2, <1>3, <1>4, GenerationsStable, TrackedStable DEF Request, IdentityInv

(* SavePublish preserves IdentityInv.                                      *)
LEMMA SavePublishIdentityInv == AssignmentInv /\ IdentityInv /\ SavePublish => IdentityInv'
<1> SUFFICES ASSUME AssignmentInv, IdentityInv, SavePublish PROVE IdentityInv'
  OBVIOUS
<1>1. UNCHANGED <<policies, generations, departed, retirements>> /\ pc = "savePublish"
  BY DEF SavePublish, storeVars
<1>2. DepartedIsTracked'
  <2>1. acl' = acl \/ acl' = [acl EXCEPT ![DocIdentity] = op.row.hcl]
    BY DEF SavePublish
  <2>2. DocIdentity \notin departed
    BY <1>1, DocNotDeparted DEF Saving
  <2> QED BY <1>1, <2>1, <2>2 DEF AssignmentInv, TypeOK, IdentityInv, DepartedIsTracked
<1>3. OpGeneration'
  <2>1. (pc' \in {"saveCommit", "restore"} /\ op' = op) \/ pc' = "idle"
    BY DEF SavePublish, Return
  <2>2. op.old = policies[op.name]
    BY <1>1 DEF AssignmentInv, Shape, OpSave, Saving
  <2> QED BY <1>1, <2>1, <2>2 DEF IdentityInv, OpGeneration, Saving, Renaming
<1> QED BY <1>1, <1>2, <1>3, GenerationsStable DEF IdentityInv

(* SaveCommit preserves IdentityInv.                                       *)
LEMMA SaveCommitIdentityInv == AssignmentInv /\ IdentityInv /\ SaveCommit => IdentityInv'
<1> SUFFICES ASSUME AssignmentInv, IdentityInv, SaveCommit PROVE IdentityInv'
  OBVIOUS
<1>1. UNCHANGED <<departed, retirements, acl>> /\ pc = "saveCommit"
  BY DEF SaveCommit, baoVars
<1>2. /\ op.name \in Names /\ op.row \in Row /\ op.row.gen \in 1 .. MaxGen
      /\ op.old = policies[op.name]
      /\ op.row.gen = IF op.old = None THEN generations[op.name] + 1 ELSE op.old.gen
  BY <1>1 DEF AssignmentInv, Shape, OpDocument, OpSave, Saving, WithDocument, Row,
     IdentityInv, OpGeneration
<1>3. \/ UNCHANGED <<policies, generations>>
      \/ /\ policies' = [policies EXCEPT ![op.name] = op.row]
         /\ generations' = [generations EXCEPT ![op.name] = op.row.gen]
  BY DEF SaveCommit
<1>4. GenerationsCurrent'
  <2>1. CASE UNCHANGED <<policies, generations>>
    BY <1>1, <2>1, GenerationsStable DEF IdentityInv
  <2>2. CASE /\ policies' = [policies EXCEPT ![op.name] = op.row]
             /\ generations' = [generations EXCEPT ![op.name] = op.row.gen]
    <3>1. \A n \in Names : n # op.name => policies'[n] = policies[n] /\ generations'[n] = generations[n]
      BY <1>2, <2>2 DEF AssignmentInv, TypeOK
    <3>2. policies'[op.name] = op.row /\ generations'[op.name] = op.row.gen
      BY <1>2, <2>2 DEF AssignmentInv, TypeOK
    <3>3. generations[op.name] \in Nat /\ (op.old # None => op.old.gen = generations[op.name])
      BY <1>2 DEF AssignmentInv, TypeOK, IdentityInv, GenerationsCurrent, Stored
    <3>4. \A n \in Stored' : policies'[n].gen = generations'[n]
      BY <3>1, <3>2 DEF Stored, IdentityInv, GenerationsCurrent
    <3>5. ASSUME NEW n \in Names, NEW g \in 1 .. MaxGen, <<n, g>> \in departed'
          PROVE  g <= generations'[n] /\ (n \in Stored' => g < generations'[n])
      <4>1. <<n, g>> \in departed
        BY <1>1, <3>5
      <4>2. g <= generations[n] /\ (n \in Stored => g < generations[n])
        BY <4>1 DEF IdentityInv, GenerationsCurrent
      <4>3. CASE n # op.name
        BY <3>1, <4>2, <4>3 DEF Stored
      <4>4. CASE n = op.name /\ op.old = None
        BY <1>2, <3>2, <3>3, <4>2, <4>4
      <4>5. CASE n = op.name /\ op.old # None
        BY <1>2, <3>2, <3>3, <4>2, <4>5 DEF Stored
      <4> QED BY <4>3, <4>4, <4>5
    <3> QED BY <3>4, <3>5 DEF GenerationsCurrent
  <2> QED BY <1>3, <2>1, <2>2
<1>5. OpGeneration'
  <2>1. pc' = "apply" \/ (pc' = "restore" /\ op' = op)
    BY DEF SaveCommit
  <2>2. op.old # None => policies'[op.name] # None /\ policies'[op.name].gen = op.old.gen
    BY <1>2, <1>3, NoneAssumption DEF AssignmentInv, TypeOK
  <2> QED BY <2>1, <2>2 DEF OpGeneration, Saving, Renaming
<1> QED BY <1>1, <1>4, <1>5, TrackedStable DEF IdentityInv

(* What restorePolicy puts back is the identity its row still holds.        *)
LEMMA RestoredHeld ==
    ASSUME AssignmentInv, IdentityInv, pc = "restore", op.old # None
    PROVE  OpenBaoPolicyName(op.name, op.old.gen) \in Held
<1>1. op.name \in Stored /\ policies[op.name].gen = op.old.gen
  BY DEF AssignmentInv, Shape, OpDocument, WithDocument, IdentityInv, OpGeneration,
     Stored
<1> QED BY <1>1 DEF Held

(* Restore preserves IdentityInv.                                          *)
LEMMA RestoreIdentityInv == AssignmentInv /\ IdentityInv /\ Restore => IdentityInv'
<1> SUFFICES ASSUME AssignmentInv, IdentityInv, Restore PROVE IdentityInv'
  OBVIOUS
<1>1. UNCHANGED <<policies, generations, departed, retirements>> /\ pc = "restore" /\ pc' = "idle"
  BY DEF Restore, Return, storeVars
<1>2. DepartedIsTracked'
  <2>1. \/ acl' = acl
        \/ acl' = [acl EXCEPT ![DocIdentity] = None]
        \/ /\ op.old # None
           /\ acl' = [acl EXCEPT ![OpenBaoPolicyName(op.name, op.old.gen)] = op.old.hcl]
    BY DEF Restore
  <2>2. ASSUME op.old # None
        PROVE  OpenBaoPolicyName(op.name, op.old.gen) \notin departed
    BY <1>1, <2>2, RestoredHeld, HeldNotDeparted DEF IdentityInv, IdentityNotReused
  <2> QED BY <1>1, <2>1, <2>2 DEF AssignmentInv, TypeOK, IdentityInv, DepartedIsTracked
<1>3. OpGeneration'
  BY <1>1, QuietOps DEF QuietPlaces, Places, Saving, Renaming
<1> QED BY <1>1, <1>2, <1>3, GenerationsStable DEF IdentityInv

(* DeletePublish preserves IdentityInv.                                    *)
LEMMA DeletePublishIdentityInv ==
    AssignmentInv /\ IdentityInv /\ DeletePublish => IdentityInv'
<1> SUFFICES ASSUME AssignmentInv, IdentityInv, DeletePublish PROVE IdentityInv'
  OBVIOUS
<1>1. UNCHANGED <<policies, generations, departed, retirements, op>> /\ pc = "deletePublish"
  BY DEF DeletePublish, storeVars
<1>2. DocIdentity \in Identity /\ op.old = policies[op.name]
  BY <1>1, DocPair DEF WithDocument, Deleting, AssignmentInv, Shape, OpDelete
<1>3. \/ pc' = "restore" /\ acl' \in {acl, [acl EXCEPT ![DocIdentity] = None]}
      \/ pc' = "deleteCommit" /\ acl' = [acl EXCEPT ![DocIdentity] = None]
  BY DEF DeletePublish, Outcome
<1>4. DepartedIsTracked'
  BY <1>1, <1>2, <1>3 DEF AssignmentInv, TypeOK, IdentityInv, DepartedIsTracked
<1>5. OpGeneration'
  <2>1. DocIdentity' = DocIdentity
    BY <1>1 DEF DocIdentity
  <2> QED
    BY <1>1, <1>2, <1>3, <2>1 DEF AssignmentInv, TypeOK, OpGeneration, Saving, Renaming
<1> QED BY <1>1, <1>4, <1>5, GenerationsStable DEF IdentityInv

(* DeleteCommit preserves IdentityInv.                                     *)
LEMMA DeleteCommitIdentityInv ==
    AssignmentInv /\ IdentityInv /\ DeleteCommit => IdentityInv'
<1> SUFFICES ASSUME AssignmentInv, IdentityInv, DeleteCommit PROVE IdentityInv'
  OBVIOUS
<1>1. UNCHANGED <<generations, retirements, acl>> /\ pc = "deleteCommit"
  BY DEF DeleteCommit, baoVars
<1>2. /\ op.name \in Names /\ op.row \in Row /\ op.row = policies[op.name]
      /\ op.old = policies[op.name]
      /\ op.row.gen \in 1 .. MaxGen /\ DocIdentity = <<op.name, op.row.gen>>
      /\ acl[DocIdentity] = None
  BY <1>1, DocPair DEF AssignmentInv, Shape, OpDocument, OpDelete, Deleting,
     WithDocument, IdentityInv, OpGeneration
<1>3. \/ UNCHANGED <<policies, departed>>
      \/ /\ policies' = [policies EXCEPT ![op.name] = None]
         /\ departed' = departed \cup {DocIdentity}
  BY DEF DeleteCommit
<1>4. DepartedIsTracked'
  BY <1>1, <1>2, <1>3 DEF IdentityInv, DepartedIsTracked
<1>5. OpGeneration'
  <2>1. pc' = "idle" \/ (pc' = "deleteSettle" /\ op' = op)
    BY DEF DeleteCommit, Return
  <2>2. policies'[op.name] \in {None, op.old}
    BY <1>2, <1>3 DEF AssignmentInv, TypeOK
  <2> QED BY <2>1, <2>2 DEF OpGeneration, Saving, Renaming
<1>6. GenerationsCurrent'
  <2>1. CASE UNCHANGED <<policies, departed>>
    BY <1>1, <2>1, GenerationsStable DEF IdentityInv
  <2>2. CASE /\ policies' = [policies EXCEPT ![op.name] = None]
             /\ departed' = departed \cup {DocIdentity}
    <3>1. Stored' = Stored \ {op.name}
      BY <1>2, <2>2 DEF Stored, AssignmentInv, TypeOK
    <3>2. \A n \in Stored' : policies'[n] = policies[n]
      BY <2>2, <3>1 DEF Stored, AssignmentInv, TypeOK
    <3>3. op.row.gen = generations[op.name]
      BY <1>2, NoneAssumption DEF Stored, IdentityInv, GenerationsCurrent
    <3>4. ASSUME NEW n \in Names, NEW g \in 1 .. MaxGen, <<n, g>> \in departed'
          PROVE  g <= generations'[n] /\ (n \in Stored' => g < generations'[n])
      <4>1. CASE <<n, g>> \in departed
        BY <1>1, <3>1, <4>1 DEF IdentityInv, GenerationsCurrent
      <4>2. CASE n = op.name /\ g = op.row.gen
        BY <1>1, <3>1, <3>3, <4>2
      <4> QED BY <1>2, <2>2, <3>4, <4>1, <4>2
    <3> QED BY <1>1, <3>1, <3>2, <3>4 DEF IdentityInv, GenerationsCurrent
  <2> QED BY <1>3, <2>1, <2>2
<1> QED BY <1>4, <1>5, <1>6 DEF IdentityInv

(* RenameCommit preserves IdentityInv.                                     *)
LEMMA RenameCommitIdentityInv ==
    AssignmentInv /\ IdentityInv /\ RenameCommit => IdentityInv'
<1> SUFFICES ASSUME AssignmentInv, IdentityInv, RenameCommit PROVE IdentityInv'
  OBVIOUS
<1> DEFINE left == OpenBaoPolicyName(op.from, op.old.gen)
<1>1. UNCHANGED acl /\ pc = "renameCommit"
  BY DEF RenameCommit, baoVars
<1>2. /\ op.name \in Names /\ op.from \in Names /\ op.row \in Row
      /\ policies[op.from] # None /\ policies[op.name] = None
      /\ op.old = policies[op.from]
  BY <1>1 DEF AssignmentInv, Shape, OpDocument, OpRename, Renaming, WithDocument
<1>3. DocIdentity \notin departed
  BY <1>1, DocNotDeparted DEF Renaming
<1>4. \/ UNCHANGED <<policies, generations, departed, retirements>>
      \/ /\ policies' = [policies EXCEPT ![op.name] = op.row, ![op.from] = None]
         /\ generations' = [generations EXCEPT ![op.name] = op.row.gen]
         /\ retirements' = (retirements \ {DocIdentity}) \cup {left}
         /\ departed' = departed \cup {left}
  BY DEF RenameCommit, storeVars
<1>5. DepartedIsTracked'
  BY <1>1, <1>3, <1>4 DEF IdentityInv, DepartedIsTracked
<1>6. OpGeneration'
  <2>1. pc' \in {"apply", "renameSettle"}
    BY DEF RenameCommit
  <2> QED BY <2>1, QuietOps DEF QuietPlaces, Places, Saving, Renaming
<1>7. GenerationsCurrent'
  <2>1. CASE UNCHANGED <<policies, generations, departed, retirements>>
    BY <2>1, GenerationsStable DEF IdentityInv
  <2>2. CASE /\ policies' = [policies EXCEPT ![op.name] = op.row, ![op.from] = None]
             /\ generations' = [generations EXCEPT ![op.name] = op.row.gen]
             /\ departed' = departed \cup {left}
    <3>1. /\ op.from # op.name /\ op.from \in Stored
          /\ op.row.gen = generations[op.name] + 1
          /\ op.row.gen \in 1 .. MaxGen /\ generations[op.name] \in Nat
      BY <1>1, <1>2 DEF Stored, IdentityInv, OpGeneration, Renaming, Row,
      AssignmentInv, TypeOK
    <3>2. left = <<op.from, generations[op.from]>> /\ generations[op.from] \in 1 .. MaxGen
      BY <1>2, <3>1, StoredRow DEF IdentityInv, GenerationsCurrent
    <3>3. /\ policies'[op.name] = op.row /\ policies'[op.from] = None
          /\ \A n \in Names \ {op.name, op.from} : policies'[n] = policies[n]
      BY <1>2, <2>2, <3>1 DEF AssignmentInv, TypeOK
    <3>4. /\ generations'[op.name] = op.row.gen
          /\ \A n \in Names \ {op.name} : generations'[n] = generations[n]
      BY <1>2, <2>2 DEF AssignmentInv, TypeOK
    <3>5. \A n \in Stored' : policies'[n].gen = generations'[n]
      BY <3>3, <3>4 DEF Stored, IdentityInv, GenerationsCurrent
    <3>6. ASSUME NEW n \in Names, NEW g \in 1 .. MaxGen, <<n, g>> \in departed'
          PROVE  g <= generations'[n] /\ (n \in Stored' => g < generations'[n])
      <4>1. CASE n = op.from /\ g = generations[op.from]
        BY <3>1, <3>3, <3>4, <4>1 DEF Stored
      <4>2. CASE <<n, g>> \in departed
        <5>1. g <= generations[n] /\ (n \in Stored => g < generations[n])
          BY <4>2 DEF IdentityInv, GenerationsCurrent
        <5>2. CASE n = op.name
          BY <3>1, <3>4, <5>1, <5>2
        <5>3. CASE n # op.name
          BY <3>3, <3>4, <5>1, <5>3 DEF Stored
        <5> QED BY <5>2, <5>3
      <4> HIDE DEF left
      <4> QED BY <2>2, <3>2, <3>6, <4>1, <4>2
    <3> QED BY <3>5, <3>6 DEF GenerationsCurrent
  <2> QED BY <1>4, <2>1, <2>2
<1> QED BY <1>5, <1>6, <1>7 DEF IdentityInv

(* RenamePublish preserves IdentityInv.                                    *)
LEMMA RenamePublishIdentityInv ==
    AssignmentInv /\ IdentityInv /\ (RenameRecord \/ RenamePublish) => IdentityInv'
<1> SUFFICES ASSUME AssignmentInv, IdentityInv, RenameRecord \/ RenamePublish PROVE IdentityInv'
  OBVIOUS
<1>1. UNCHANGED <<policies, generations, departed>> /\ pc \in Renaming
  BY DEF RenameRecord, RenamePublish, Renaming
<1>2. DocIdentity \notin departed
  BY <1>1, DocNotDeparted
<1>3. /\ acl' = acl \/ acl' = [acl EXCEPT ![DocIdentity] = op.row.hcl]
      /\ retirements \ {DocIdentity} \subseteq retirements'
  BY DEF RenameRecord, RenamePublish, baoVars
<1>4. DepartedIsTracked'
  BY <1>1, <1>2, <1>3 DEF AssignmentInv, TypeOK, IdentityInv, DepartedIsTracked
<1>5. OpGeneration'
  <2>1. (pc' \in Renaming /\ op' = op) \/ pc' \in {"remove", "idle"}
    BY DEF RenameRecord, RenamePublish, ReturnRename, Return, Renaming
  <2> QED BY <1>1, <2>1 DEF IdentityInv, OpGeneration, Saving, Renaming
<1> QED BY <1>1, <1>4, <1>5, GenerationsStable DEF IdentityInv

(* Removing an identity keeps every departed identity tracked.             *)
LEMMA RemovedTracked ==
    ASSUME AssignmentInv, DepartedIsTracked, UNCHANGED departed, NEW i, NEW res \in Outcome,
           RemoveIdentity(i, res)
    PROVE  DepartedIsTracked'
  BY DEF AssignmentInv, TypeOK, DepartedIsTracked, RemoveIdentity

(* A synchronisation publishes held identities only.                         *)
LEMMA SyncTracked ==
    ASSUME AssignmentInv, IdentityInv, UNCHANGED <<departed, retirements>>,
           NEW ok \in BOOLEAN, Sync(ok)
    PROVE  DepartedIsTracked' /\ \A i \in departed : acl'[i] = acl[i]
<1>1. PICK S \in SUBSET Stored :
        acl' = [i \in Identity |->
                  IF \E n \in S : i = OpenBaoPolicyName(n, policies[n].gen)
                    THEN policies[i[1]].hcl ELSE acl[i]]
  BY DEF Sync
<1>2. ASSUME NEW i \in departed PROVE i \in Identity /\ acl'[i] = acl[i]
  <2>1. i \in Identity
    BY DEF AssignmentInv, TypeOK
  <2>2. ~\E n \in S : i = OpenBaoPolicyName(n, policies[n].gen)
    BY HeldNotDeparted DEF IdentityInv, IdentityNotReused, Held
  <2> QED BY <1>1, <2>1, <2>2
<1> QED BY <1>2 DEF IdentityInv, DepartedIsTracked

(* Holder preserves IdentityInv.                                           *)
LEMMA HolderIdentityInv == AssignmentInv /\ IdentityInv /\ Holder => IdentityInv'
<1> SUFFICES ASSUME AssignmentInv, IdentityInv, Holder PROVE IdentityInv'
  OBVIOUS
<1>1. CASE DeleteSettle
  <2>1. UNCHANGED <<policies, generations, departed, acl, retirements>>
    BY <1>1 DEF DeleteSettle, storeVars, baoVars
  <2>2. pc' = "idle" \/ (pc' = "restore" /\ op' = op /\ policies[op.name] # None)
    BY <1>1 DEF DeleteSettle, Return
  <2>3. policies[op.name] \in {None, op.old}
    BY <1>1 DEF DeleteSettle, IdentityInv, OpGeneration
  <2>4. OpGeneration'
    BY <2>1, <2>2, <2>3 DEF OpGeneration, Saving, Renaming
  <2> QED BY <2>1, <2>4, GenerationsStable, TrackedStable DEF IdentityInv
<1>2. CASE RenameSettle \/ BindingCommit \/ UnbindRole \/ UnbindRetire \/ IssueSecret
           \/ (\E b \in Bindings : ApplyBinding(b)) \/ ApplyDone \/ SettleDone
  <2>1. UNCHANGED <<policies, generations, departed, acl, retirements>>
    BY <1>2 DEF RenameSettle, BindingCommit, UnbindRole, UnbindRetire, IssueSecret,
       ApplyBinding, ApplyDone, SettleDone, storeVars, baoVars
  <2>2. pc' \in QuietPlaces
    BY <1>2 DEF RenameSettle, BindingCommit, UnbindRole, UnbindRetire, IssueSecret,
       ApplyBinding, ApplyDone, SettleDone, SettleReturn, ReturnRename, Return,
       QuietPlaces, Places, Saving, Renaming
  <2> QED BY <2>1, <2>2, QuietOps, GenerationsStable, TrackedStable DEF IdentityInv
<1>3. CASE RenameRemove
  <2>1. UNCHANGED <<policies, generations, departed>> /\ pc' \in QuietPlaces
    BY <1>3 DEF RenameRemove, ReturnRename, Return, QuietPlaces, Places, Saving,
       Renaming
  <2>2. DepartedIsTracked'
    BY <1>3, <2>1, RemovedTracked DEF RenameRemove, IdentityInv
  <2> QED BY <2>1, <2>2, QuietOps, GenerationsStable DEF IdentityInv
<1>4. CASE Issue \/ Settle
  <2>1. UNCHANGED <<policies, generations, departed, retirements>> /\ pc' \in QuietPlaces
    BY <1>4 DEF Issue, Settle, SettleReturn, ReturnRename, Return, storeVars,
       QuietPlaces,
       Places, Saving, Renaming
  <2>2. UNCHANGED acl \/ \E ok \in BOOLEAN : Sync(ok)
    BY <1>4 DEF Issue, Settle
  <2>3. DepartedIsTracked'
    BY <2>1, <2>2, SyncTracked, TrackedStable DEF IdentityInv
  <2> QED BY <2>1, <2>3, QuietOps, GenerationsStable DEF IdentityInv
<1>5. ASSUME NEW i \in Identity, SettleIdentity(i) PROVE IdentityInv'
  <2>1. UNCHANGED <<policies, generations, departed>> /\ pc' \in QuietPlaces
    BY <1>5 DEF SettleIdentity, QuietPlaces, Places, Saving, Renaming
  <2>2. CASE i \in Held
    <3>1. i \notin departed
      BY <2>2, HeldNotDeparted DEF IdentityInv, IdentityNotReused
    <3>2. acl' = acl /\ retirements \ {i} \subseteq retirements'
      BY <1>5, <2>2 DEF SettleIdentity
    <3> QED BY <2>1, <3>1, <3>2, QuietOps, GenerationsStable DEF IdentityInv,
       DepartedIsTracked
  <2>3. CASE i \notin Held
    <3>1. DepartedIsTracked'
      BY <1>5, <2>1, <2>3, RemovedTracked DEF SettleIdentity, IdentityInv
    <3> QED BY <2>1, <3>1, QuietOps, GenerationsStable DEF IdentityInv
  <2> QED BY <2>2, <2>3
<1> QED
  BY <1>1, <1>2, <1>3, <1>4, <1>5, SavePublishIdentityInv, SaveCommitIdentityInv,
     RestoreIdentityInv,
     DeletePublishIdentityInv, DeleteCommitIdentityInv, RenamePublishIdentityInv,
     RenameCommitIdentityInv DEF Holder

(* Every step of the specification preserves IdentityInv.                  *)
LEMMA NextIdentityInv == AssignmentInv /\ IdentityInv /\ [Next]_vars => IdentityInv'
<1> SUFFICES ASSUME AssignmentInv, IdentityInv, [Next]_vars PROVE IdentityInv'
  OBVIOUS
<1>1. CASE WorkerPass \/ Crash
  <2>1. UNCHANGED <<policies, generations, departed, acl, retirements>> /\ pc' \in QuietPlaces
    BY <1>1 DEF WorkerPass, Begin, Crash, storeVars, baoVars, QuietPlaces, Places,
       Saving, Renaming
  <2> QED BY <2>1, QuietOps, GenerationsStable, TrackedStable DEF IdentityInv
<1>2. CASE WorkerWake \/ RenameWake \/ UNCHANGED vars
  <2>1. UNCHANGED <<policies, generations, departed, acl, retirements, pc, op>>
    BY <1>2 DEF WorkerWake, RenameWake, vars, storeVars, baoVars
  <2>2. OpGeneration'
    BY <2>1 DEF IdentityInv, OpGeneration, DocIdentity
  <2> QED BY <2>1, <2>2, GenerationsStable, TrackedStable DEF IdentityInv
<1>3. CASE Start
  <2>1. UNCHANGED <<policies, generations, departed, retirements>> /\ pc' \in QuietPlaces
    BY <1>3 DEF Start, Return, storeVars, QuietPlaces, Places, Saving, Renaming
  <2>2. DepartedIsTracked'
    BY <1>3, <2>1, SyncTracked DEF Start
  <2> QED BY <2>1, <2>2, QuietOps, GenerationsStable DEF IdentityInv
<1> QED BY <1>1, <1>2, <1>3, RequestIdentityInv, HolderIdentityInv DEF Next

(* The initial states satisfy IdentityInv.                                 *)
LEMMA InitIdentityInv == Init => IdentityInv
  BY QuietOps DEF Init, IdentityInv, GenerationsCurrent, OpGeneration,
     DepartedIsTracked, Stored,
     Saving, Renaming

(* No stored row ever holds an OpenBao identity that a deleted or renamed  *)
(* row left (policy_generations in store.go): generations only grow and    *)
(* outlive the rows they were given to.                                    *)
THEOREM IdentitiesNotReused == Spec => []IdentityNotReused
<1>1. AssignmentInv /\ IdentityInv => IdentityNotReused
  BY HeldNotDeparted DEF IdentityInv
<1> QED BY <1>1, InitAssignmentInv, NextAssignmentInv, InitIdentityInv,
   NextIdentityInv, PTL DEF Spec

(* An OpenBao policy left behind by a delete or a rename is absent or      *)
(* recorded in policy_retirements, whatever failed in between.             *)
THEOREM DepartedTracked == Spec => []DepartedIsTracked
<1>1. IdentityInv => DepartedIsTracked
  BY DEF IdentityInv
<1> QED BY <1>1, InitAssignmentInv, NextAssignmentInv, InitIdentityInv,
   NextIdentityInv, PTL DEF Spec

(* No step publishes an identity that a row left.                          *)
LEMMA DepartedNotPublished ==
    ASSUME AssignmentInv, IdentityInv, [Next]_vars,
           NEW i \in departed, acl[i] = None
    PROVE  acl'[i] = None
<1>1. i \in Identity /\ acl \in [Identity -> Contents \cup {None}]
  BY DEF AssignmentInv, TypeOK
<1>2. CASE acl' = acl
  BY <1>2
<1>3. CASE \E j \in Identity : acl' = [acl EXCEPT ![j] = None]
  BY <1>1, <1>3
<1>4. CASE SavePublish \/ RenamePublish
  <2>1. acl' = acl \/ acl' = [acl EXCEPT ![DocIdentity] = op.row.hcl]
    BY <1>4 DEF SavePublish, RenamePublish
  <2>2. DocIdentity \notin departed
    BY <1>4, DocNotDeparted DEF SavePublish, RenamePublish, Saving, Renaming
  <2> QED BY <1>1, <2>1, <2>2
<1>5. CASE Restore
  <2>1. \/ acl' = acl
        \/ acl' = [acl EXCEPT ![DocIdentity] = None]
        \/ /\ op.old # None
           /\ acl' = [acl EXCEPT ![OpenBaoPolicyName(op.name, op.old.gen)] = op.old.hcl]
    BY <1>5 DEF Restore
  <2>2. ASSUME op.old # None
        PROVE  OpenBaoPolicyName(op.name, op.old.gen) \notin departed
    BY <1>5, <2>2, RestoredHeld, HeldNotDeparted DEF Restore, IdentityInv,
       IdentityNotReused
  <2> QED BY <1>1, <2>1, <2>2
<1>6. CASE Issue \/ Settle \/ Start
  <2>1. UNCHANGED <<departed, retirements>>
    BY <1>6 DEF Issue, Settle, Start, storeVars
  <2>2. acl' = acl \/ \E ok \in BOOLEAN : Sync(ok)
    BY <1>6 DEF Issue, Settle, Start
  <2> QED BY <2>1, <2>2, SyncTracked
<1>7. CASE DeletePublish \/ RenameRemove
  <2>1. DocIdentity \in Identity
    BY <1>7, DocPair DEF DeletePublish, RenameRemove, WithDocument, Deleting
  <2>2. acl' = acl \/ acl' = [acl EXCEPT ![DocIdentity] = None]
    BY <1>7 DEF DeletePublish, RenameRemove, RemoveIdentity
  <2> QED BY <1>1, <2>1, <2>2
<1>8. CASE \E j \in Identity : SettleIdentity(j)
  BY <1>1, <1>8 DEF SettleIdentity, RemoveIdentity
<1>9. CASE Request \/ WorkerPass \/ WorkerWake \/ RenameWake \/ Crash \/ UNCHANGED vars
  BY <1>9 DEF Request, SaveBegin, DeleteBegin, RenameBegin, CreateBinding,
     ChangeBinding, CommitBinding, RepeatBind, DeleteBinding, IssueBegin, Begin, WorkerPass,
     WorkerWake, RenameWake, Crash, vars, baoVars
<1>10. CASE \/ SaveCommit \/ DeleteCommit \/ DeleteSettle \/ RenameRecord
            \/ RenameCommit \/ RenameSettle \/ BindingCommit \/ UnbindRole
            \/ UnbindRetire \/ IssueSecret \/ (\E b \in Bindings : ApplyBinding(b))
            \/ ApplyDone \/ SettleDone
  BY <1>10 DEF SaveCommit, DeleteCommit, DeleteSettle, RenameRecord, RenameCommit,
     RenameSettle, BindingCommit, UnbindRole, UnbindRetire, IssueSecret, ApplyBinding,
     ApplyDone, SettleDone, baoVars
<1> QED
  BY <1>4, <1>5, <1>6, <1>7, <1>8, <1>9, <1>10 DEF Next, Holder

(* An identity that a row left and that is absent from OpenBao is never      *)
(* published again: not by restorePolicy, not by syncPolicies, not by a      *)
(* later save or rename of the same name.                                    *)
THEOREM DepartedGone == Spec => DepartedStaysGone
<1> DEFINE Gone == \A i \in departed : acl[i] = None => acl'[i] = None
<1>1. ASSUME AssignmentInv, IdentityInv, [Next]_vars PROVE Gone
  BY <1>1, DepartedNotPublished
<1>2. Spec => []AssignmentInv /\ []IdentityInv
  BY InitAssignmentInv, NextAssignmentInv, InitIdentityInv, NextIdentityInv, PTL DEF
     Spec
<1>3. Spec => [][Gone]_vars
  BY <1>1, <1>2, PTL DEF Spec
<1> QED BY <1>3 DEF DepartedStaysGone

----------------------------------------------------------------------------
(***************************************************************************)
(* Proofs that OpenBao enforces the stored policies, and that a credential *)
(* is asked for only then, but for the rows whose commit lost its answer   *)
(* to the save: those are in `reverted`, and no other row is accounted for *)
(* that way.                                                               *)
(***************************************************************************)

(* Places at which the policy in hand may be published otherwise than stored. *)
Unsettled == {"saveCommit", "restore", "deleteCommit", "deleteSettle"}

(* OpenBao enforces the stored row, or its save took itself for failed.      *)
Accounted(n) == Published(n) \/ Reverted(n)

(* While nothing is pending, every stored policy but the one in hand is      *)
(* accounted for.                                                            *)
AllPublished ==
    ~pending /\ pc # "down" =>
        \A n \in Stored : Accounted(n) \/ (pc \in Unsettled /\ n = op.name)

(* What the operation in flight knows of its document.                       *)
OpPublished ==
    /\ pc \in {"saveCommit", "renameCommit"} => acl[DocIdentity] = op.row.hcl
    /\ pc = "restore" =>
         \/ policies[op.name] = op.old
         \/ policies[op.name] = op.row /\ DocIdentity \in reverted
    /\ pc = "remove" => DocIdentity \notin Held

(* The inductive invariant of the publication.                               *)
PublishedInv == AllPublished /\ OpPublished

(* A step of OpenBao on one identity leaves every policy of another identity *)
(* as it was.                                                                *)
LEMMA OthersPublished ==
    ASSUME AssignmentInv, NEW i \in Identity, NEW v \in Contents \cup {None},
           acl' = [acl EXCEPT ![i] = v], UNCHANGED <<policies, reverted>>,
           NEW n \in Stored, OpenBaoPolicyName(n, policies[n].gen) # i
    PROVE  Accounted(n)' = Accounted(n)
<1>1. OpenBaoPolicyName(n, policies[n].gen) \in Identity
  BY StoredRow, IdentityOfName
<1>2. acl'[OpenBaoPolicyName(n, policies[n].gen)] = acl[OpenBaoPolicyName(n, policies[n].gen)]
  BY <1>1 DEF AssignmentInv, TypeOK
<1> QED BY <1>2 DEF Accounted, Reverted, Published

(* Steps that touch neither rows nor OpenBao keep the publication.           *)
LEMMA PublishedStable ==
    ASSUME AllPublished, UNCHANGED <<policies, acl, pending, reverted>>, pc # "down",
           \/ pc \notin Unsettled
           \/ pc' \in Unsettled /\ op'.name = op.name
    PROVE  AllPublished'
  BY DEF AllPublished, Stored, Accounted, Reverted, Published

(* A complete synchronisation publishes every row.                           *)
LEMMA SyncPublishes ==
    ASSUME AssignmentInv, UNCHANGED policies, NEW ok \in BOOLEAN, Sync(ok)
    PROVE  AllPublished'
<1>1. CASE ~ok
  BY <1>1 DEF Sync, AllPublished
<1>2. CASE ok
  <2>1. acl' = [i \in Identity |->
                  IF \E n \in Stored : i = OpenBaoPolicyName(n, policies[n].gen)
                    THEN policies[i[1]].hcl ELSE acl[i]]
    BY <1>2 DEF Sync
  <2>2. ASSUME NEW n \in Stored PROVE Accounted(n)'
    <3>1. /\ n \in Names
          /\ policies[n].gen \in 1 .. MaxGen
          /\ OpenBaoPolicyName(n, policies[n].gen) = <<n, policies[n].gen>>
      BY StoredRow
    <3>2. <<n, policies[n].gen>> \in Identity
      BY <3>1 DEF Identity
    <3>3. acl'[<<n, policies[n].gen>>] = policies[n].hcl
      BY <2>1, <3>1, <3>2
    <3> QED BY <3>1, <3>3 DEF Accounted, Reverted, Published
  <2> QED BY <2>2 DEF AllPublished, Stored
<1> QED BY <1>1, <1>2

(* Places about which OpPublished says nothing.                              *)
SettledPlaces == Places \ {"saveCommit", "renameCommit", "restore", "remove"}

(* At those places it holds.                                                 *)
LEMMA SettledOps == ASSUME pc' \in SettledPlaces PROVE OpPublished'
  BY DEF SettledPlaces, OpPublished

(* SavePublish preserves PublishedInv.                                       *)
LEMMA SavePublishPublishedInv ==
    AssignmentInv /\ PublishedInv /\ SavePublish => PublishedInv'
<1> SUFFICES ASSUME AssignmentInv, PublishedInv, SavePublish PROVE PublishedInv'
  OBVIOUS
<1>1. UNCHANGED <<policies, pending, reverted>> /\ pc = "savePublish"
  BY DEF SavePublish, storeVars
<1>2. /\ op.name \in Names /\ op.row \in Row /\ op.row.gen \in 1 .. MaxGen
      /\ DocIdentity = <<op.name, op.row.gen>> /\ DocIdentity \in Identity
      /\ op.old = policies[op.name]
  BY <1>1, DocPair DEF AssignmentInv, Shape, OpDocument, OpSave, Saving, WithDocument
<1>3. CASE pc' = "idle" /\ acl' = acl
  BY <1>1, <1>3, PublishedStable, SettledOps
     DEF PublishedInv, Unsettled, SettledPlaces, Places
<1>4. CASE /\ pc' \in {"saveCommit", "restore"}
           /\ op' = op
           /\ acl' = acl \/ acl' = [acl EXCEPT ![DocIdentity] = op.row.hcl]
           /\ pc' = "saveCommit" => acl' = [acl EXCEPT ![DocIdentity] = op.row.hcl]
  <2>1. op.row.hcl \in Contents
    BY <1>2 DEF Row
  <2>2. ASSUME NEW n \in Stored, n # op.name PROVE Accounted(n)' = Accounted(n)
    <3>1. OpenBaoPolicyName(n, policies[n].gen) # DocIdentity
      BY <1>2, <2>2, StoredRow
    <3>2. CASE acl' = acl
      BY <1>1, <3>2 DEF Accounted, Reverted, Published
    <3>3. CASE acl' = [acl EXCEPT ![DocIdentity] = op.row.hcl]
      BY <1>1, <1>2, <2>1, <3>1, <3>3, OthersPublished
    <3> QED BY <1>4, <3>2, <3>3
  <2>3. AllPublished'
    BY <1>1, <1>4, <2>2 DEF PublishedInv, AllPublished, Unsettled, Stored
  <2>4. OpPublished'
    <3>1. DocIdentity' = DocIdentity
      BY <1>4 DEF DocIdentity
    <3> QED BY <1>1, <1>2, <1>4, <3>1 DEF OpPublished, AssignmentInv, TypeOK
  <2> QED BY <2>3, <2>4 DEF PublishedInv
<1> QED BY <1>3, <1>4 DEF SavePublish, Return

(* SaveCommit preserves PublishedInv: an error leaves the previous row, or,  *)
(* when the answer was lost, the new one as reverted.                        *)
LEMMA SaveCommitPublishedInv ==
    AssignmentInv /\ PublishedInv /\ SaveCommit => PublishedInv'
<1> SUFFICES ASSUME AssignmentInv, PublishedInv, SaveCommit PROVE PublishedInv'
  OBVIOUS
<1>1. UNCHANGED <<acl, pending>> /\ pc = "saveCommit"
  BY DEF SaveCommit, baoVars
<1>2. /\ op.name \in Names /\ op.row \in Row /\ op.old = policies[op.name]
      /\ DocIdentity = <<op.name, op.row.gen>> /\ acl[DocIdentity] = op.row.hcl
  BY <1>1, DocPair DEF AssignmentInv, Shape, OpDocument, OpSave, Saving, WithDocument,
     PublishedInv, OpPublished
<1>3. CASE /\ policies' = policies /\ reverted' = reverted
           /\ pc' = "restore" /\ op' = op
  BY <1>1, <1>2, <1>3, PublishedStable DEF PublishedInv, OpPublished, Unsettled
<1>4. CASE /\ policies' = [policies EXCEPT ![op.name] = op.row]
           /\ \/ pc' = "apply" /\ reverted' = reverted \ {DocIdentity}
              \/ /\ pc' = "restore" /\ op' = op
                 /\ reverted' = reverted \cup {DocIdentity}
  <2>1. policies'[op.name] = op.row
        /\ \A n \in Names \ {op.name} : policies'[n] = policies[n]
    BY <1>2, <1>4 DEF AssignmentInv, TypeOK
  <2>2. \A n \in Names : n = op.name => Accounted(n)'
    BY <1>1, <1>2, <2>1 DEF Accounted, Published, DocIdentity
  <2>3. ASSUME NEW n \in Stored, n # op.name PROVE Accounted(n)' = Accounted(n)
    <3>1. n \in Names /\ OpenBaoPolicyName(n, policies[n].gen) # DocIdentity
      BY <1>2, <2>3, StoredRow
    <3>2. Published(n)' = Published(n)
      BY <1>1, <2>1, <2>3, <3>1 DEF Published
    <3>3. Reverted(n)' = Reverted(n)
      BY <1>4, <2>1, <2>3, <3>1 DEF Reverted
    <3> QED BY <3>2, <3>3 DEF Accounted
  <2>4. AllPublished'
    BY <1>1, <2>1, <2>2, <2>3 DEF PublishedInv, AllPublished, Stored
  <2>5. OpPublished'
    <3>1. CASE pc' = "apply"
      BY <3>1, SettledOps DEF SettledPlaces, Places
    <3>2. CASE /\ pc' = "restore" /\ op' = op
               /\ reverted' = reverted \cup {DocIdentity}
      <4>1. DocIdentity' = DocIdentity
        BY <3>2 DEF DocIdentity
      <4> QED BY <2>1, <3>2, <4>1 DEF OpPublished
    <3> QED BY <1>4, <3>1, <3>2
  <2> QED BY <2>4, <2>5 DEF PublishedInv
<1> QED BY <1>3, <1>4 DEF SaveCommit, Outcome

(* Restore preserves PublishedInv: it puts back the stored row, or asks for  *)
(* a synchronisation, or undoes a publication that is in `reverted`.         *)
LEMMA RestorePublishedInv == AssignmentInv /\ PublishedInv /\ Restore => PublishedInv'
<1> SUFFICES ASSUME AssignmentInv, PublishedInv, Restore PROVE PublishedInv'
  OBVIOUS
<1>1. UNCHANGED <<policies, reverted>> /\ pc = "restore" /\ pc' = "idle"
  BY DEF Restore, Return, storeVars
<1>2. /\ op.name \in Names /\ op.row.gen \in 1 .. MaxGen
      /\ DocIdentity = <<op.name, op.row.gen>> /\ DocIdentity \in Identity
      /\ \/ policies[op.name] = op.old
         \/ policies[op.name] = op.row /\ DocIdentity \in reverted
  BY <1>1, DocPair DEF WithDocument, PublishedInv, OpPublished
<1>n. PICK m \in Names : m = op.name
  BY <1>2
<1>3. AllPublished'
  <2>1. CASE pending'
    BY <2>1 DEF AllPublished
  <2>2. ASSUME NEW i \in Identity, NEW v \in Contents \cup {None},
               \E g : i = <<op.name, g>>,
               ~pending, acl' = [acl EXCEPT ![i] = v],
               m \in Stored => Accounted(m)'
        PROVE  AllPublished'
    <3>1. ASSUME NEW n \in Stored, n # op.name PROVE Accounted(n)'
      <4>1. OpenBaoPolicyName(n, policies[n].gen) # i
        BY <1>n, <2>2, <3>1, StoredRow
      <4>2. Accounted(n)
        BY <1>1, <2>2, <3>1 DEF PublishedInv, AllPublished
      <4> QED BY <1>1, <2>2, <4>1, <4>2, OthersPublished
    <3> QED BY <1>n, <1>1, <2>2, <3>1 DEF AllPublished, Stored
  <2>3. CASE ~pending /\ op.old # None
             /\ acl' = [acl EXCEPT ![OpenBaoPolicyName(op.name, op.old.gen)] = op.old.hcl]
    <3>1. op.old \in Row
      BY <2>3 DEF AssignmentInv, TypeOK, Operation
    <3>2. OpenBaoPolicyName(op.name, op.old.gen) = <<op.name, op.old.gen>>
          /\ <<op.name, op.old.gen>> \in Identity /\ op.old.hcl \in Contents
      BY <1>2, <3>1, NamePair DEF Identity, Row
    <3>3. m \in Stored => Accounted(m)'
      <4>1. CASE policies[op.name] = op.old
        BY <1>1, <1>n, <2>3, <3>2, <4>1 DEF Accounted, Published, AssignmentInv, TypeOK
      <4>2. CASE policies[op.name] = op.row /\ DocIdentity \in reverted
        BY <1>1, <1>n, <4>2 DEF Accounted, Reverted, DocIdentity
      <4> QED BY <1>2, <4>1, <4>2
    <3> QED BY <2>2, <2>3, <3>2, <3>3
  <2>4. CASE ~pending /\ op.old = None /\ acl' = [acl EXCEPT ![DocIdentity] = None]
    <3>1. m \in Stored => Accounted(m)'
      <4>1. CASE policies[op.name] = op.old
        BY <1>n, <2>4, <4>1 DEF Stored
      <4>2. CASE policies[op.name] = op.row /\ DocIdentity \in reverted
        BY <1>1, <1>n, <4>2 DEF Accounted, Reverted, DocIdentity
      <4> QED BY <1>2, <4>1, <4>2
    <3> QED BY <1>2, <2>2, <2>4, <3>1
  <2>5. \/ pending'
        \/ ~pending /\ acl' = CASE op.old # None ->
                         [acl EXCEPT ![OpenBaoPolicyName(op.name, op.old.gen)] =
                                        op.old.hcl]
                    [] OTHER -> [acl EXCEPT ![DocIdentity] = None]
    BY DEF Restore, AssignmentInv, TypeOK
  <2> QED BY <2>1, <2>3, <2>4, <2>5
<1> QED BY <1>1, <1>3, SettledOps DEF PublishedInv, SettledPlaces, Places

(* The delete of a policy preserves PublishedInv.                            *)
LEMMA DeletePublishedInv ==
    AssignmentInv /\ IdentityInv /\ PublishedInv
      /\ (DeletePublish \/ DeleteCommit \/ DeleteSettle) => PublishedInv'
<1> SUFFICES ASSUME AssignmentInv, IdentityInv, PublishedInv,
                    DeletePublish \/ DeleteCommit \/ DeleteSettle
             PROVE  PublishedInv'
  OBVIOUS
<1>1. CASE DeletePublish
  <2>1. UNCHANGED <<policies, pending, op, reverted>> /\ pc = "deletePublish"
    BY <1>1 DEF DeletePublish, storeVars
  <2>2. /\ op.name \in Names /\ DocIdentity = <<op.name, op.row.gen>>
        /\ DocIdentity \in Identity /\ op.old = policies[op.name]
    BY <2>1, DocPair DEF AssignmentInv, Shape, OpDelete, Deleting, WithDocument
  <2>3. /\ pc' \in {"deleteCommit", "restore"}
        /\ acl' = acl \/ acl' = [acl EXCEPT ![DocIdentity] = None]
    BY <1>1 DEF DeletePublish
  <2>4. ASSUME NEW n \in Stored, n # op.name PROVE Accounted(n)' = Accounted(n)
    <3>1. OpenBaoPolicyName(n, policies[n].gen) # DocIdentity
      BY <2>2, <2>4, StoredRow
    <3>2. CASE acl' = acl
      BY <2>1, <3>2 DEF Accounted, Reverted, Published
    <3>3. CASE acl' = [acl EXCEPT ![DocIdentity] = None]
      BY <2>1, <2>2, <3>1, <3>3, OthersPublished
    <3> QED BY <2>3, <3>2, <3>3
  <2>5. AllPublished'
    BY <2>1, <2>3, <2>4 DEF PublishedInv, AllPublished, Unsettled, Stored
  <2>6. OpPublished'
    BY <2>1, <2>2, <2>3 DEF OpPublished
  <2> QED BY <2>5, <2>6 DEF PublishedInv
<1>2. CASE DeleteCommit
  <2>1. UNCHANGED <<acl, pending, reverted>> /\ pc = "deleteCommit"
    BY <1>2 DEF DeleteCommit, baoVars
  <2>2. op.name \in Names
    BY <2>1, DocPair DEF Deleting, WithDocument
  <2>3. \/ pc' = "idle" /\ policies' = [policies EXCEPT ![op.name] = None]
        \/ /\ pc' = "deleteSettle" /\ op' = op
           /\ policies' = policies \/ policies' = [policies EXCEPT ![op.name] = None]
    BY <1>2 DEF DeleteCommit, Return
  <2>4. /\ \A n \in Names \ {op.name} : policies'[n] = policies[n]
        /\ policies' = policies \/ policies'[op.name] = None
    BY <2>2, <2>3 DEF AssignmentInv, TypeOK
  <2>5. \A n \in Names \ {op.name} : Accounted(n)' = Accounted(n)
    BY <2>1, <2>4 DEF Accounted, Reverted, Published
  <2>6. AllPublished'
    <3>1. CASE pc' = "idle"
      BY <2>1, <2>2, <2>3, <2>4, <2>5, <3>1 DEF PublishedInv, AllPublished, Stored,
         AssignmentInv, TypeOK
    <3>2. CASE pc' = "deleteSettle" /\ op' = op
      BY <2>1, <2>4, <2>5, <3>2 DEF PublishedInv, AllPublished, Unsettled, Stored
    <3> QED BY <2>3, <3>1, <3>2
  <2> QED BY <2>3, <2>6, SettledOps DEF PublishedInv, SettledPlaces, Places
<1>3. CASE DeleteSettle
  <2>1. UNCHANGED <<policies, acl, reverted>> /\ pc = "deleteSettle"
    BY <1>3 DEF DeleteSettle, storeVars, baoVars
  <2>2. policies[op.name] \in {None, op.old}
    BY <2>1 DEF IdentityInv, OpGeneration
  <2>3. CASE pc' = "restore" /\ op' = op /\ policies[op.name] # None /\ pending' = pending
    BY <2>1, <2>2, <2>3, PublishedStable DEF PublishedInv, OpPublished, Unsettled
  <2>4. CASE pc' = "idle" /\ policies[op.name] = None /\ pending' = pending
    <3>1. AllPublished'
      BY <2>1, <2>4 DEF PublishedInv, AllPublished, Stored, Accounted, Reverted, Published
    <3> QED BY <2>4, <3>1, SettledOps DEF PublishedInv, SettledPlaces, Places
  <2>5. CASE pc' = "idle" /\ pending'
    BY <2>5, SettledOps DEF PublishedInv, AllPublished, SettledPlaces, Places
  <2> QED BY <1>3, <2>3, <2>4, <2>5 DEF DeleteSettle, Return
<1> QED BY <1>1, <1>2, <1>3

(* RenamePublish preserves PublishedInv: no row holds the new identity.      *)
LEMMA RenamePublishPublishedInv ==
    AssignmentInv /\ PublishedInv /\ RenamePublish => PublishedInv'
<1> SUFFICES ASSUME AssignmentInv, PublishedInv, RenamePublish PROVE PublishedInv'
  OBVIOUS
<1>1. UNCHANGED <<policies, pending, reverted>> /\ pc = "renamePublish"
  BY DEF RenamePublish
<1>2. /\ op.name \in Names /\ op.row \in Row /\ policies[op.name] = None
      /\ DocIdentity = <<op.name, op.row.gen>> /\ DocIdentity \in Identity
  BY <1>1, DocPair DEF AssignmentInv, Shape, OpDocument, OpRename, Renaming,
     WithDocument
<1>3. op.row.hcl \in Contents
  BY <1>2 DEF Row
<1>4. /\ acl' = acl \/ acl' = [acl EXCEPT ![DocIdentity] = op.row.hcl]
      /\ pc' = "renameCommit" => op' = op /\ acl' = [acl EXCEPT ![DocIdentity] = op.row.hcl]
      /\ pc' = "remove" => op' = op
      /\ pc' \in {"renameCommit", "remove", "idle"}
  BY DEF RenamePublish, ReturnRename, Return
<1>5. ASSUME NEW n \in Stored PROVE OpenBaoPolicyName(n, policies[n].gen) # DocIdentity
  BY <1>2, StoredRow DEF Stored
<1>6. ASSUME NEW n \in Stored PROVE Accounted(n)' = Accounted(n)
  <2>1. CASE acl' = acl
    BY <1>1, <2>1 DEF Accounted, Reverted, Published
  <2>2. CASE acl' = [acl EXCEPT ![DocIdentity] = op.row.hcl]
    BY <1>1, <1>2, <1>3, <1>5, <2>2, OthersPublished
  <2> QED BY <1>4, <2>1, <2>2
<1>7. AllPublished'
  BY <1>1, <1>4, <1>6 DEF PublishedInv, AllPublished, Unsettled, Stored
<1>8. OpPublished'
  <2>1. op' = op => DocIdentity' = DocIdentity
    BY DEF DocIdentity
  <2>2. DocIdentity \notin Held /\ Held' = Held
    BY <1>1, <1>5 DEF Held, Stored
  <2> QED BY <1>2, <1>4, <2>1, <2>2 DEF OpPublished, AssignmentInv, TypeOK
<1> QED BY <1>7, <1>8 DEF PublishedInv

(* RenameCommit preserves PublishedInv: the new row was published before.    *)
LEMMA RenameCommitPublishedInv ==
    AssignmentInv /\ PublishedInv /\ RenameCommit => PublishedInv'
<1> SUFFICES ASSUME AssignmentInv, PublishedInv, RenameCommit PROVE PublishedInv'
  OBVIOUS
<1>1. UNCHANGED <<acl, pending, reverted>> /\ pc = "renameCommit" /\ pc' \in {"apply", "renameSettle"}
  BY DEF RenameCommit, baoVars
<1>2. /\ op.name \in Names /\ op.from \in Names /\ op.row \in Row
      /\ policies[op.from] # None /\ policies[op.name] = None
      /\ acl[DocIdentity] = op.row.hcl
  BY <1>1 DEF AssignmentInv, Shape, OpDocument, OpRename, Renaming, WithDocument,
     PublishedInv, OpPublished
<1>3. CASE policies' = policies
  BY <1>1, <1>3, PublishedStable, SettledOps
     DEF PublishedInv, Unsettled, SettledPlaces, Places
<1>4. CASE policies' = [policies EXCEPT ![op.name] = op.row, ![op.from] = None]
  <2>1. /\ policies'[op.name] = op.row /\ policies'[op.from] = None
        /\ \A n \in Names \ {op.name, op.from} : policies'[n] = policies[n]
    BY <1>2, <1>4 DEF AssignmentInv, TypeOK
  <2>2. \A n \in Names : n = op.name => Accounted(n)'
    BY <1>1, <1>2, <2>1 DEF Accounted, Reverted, Published, DocIdentity
  <2>3. \A n \in Names \ {op.name, op.from} : Accounted(n)' = Accounted(n)
    BY <1>1, <2>1 DEF Accounted, Reverted, Published
  <2>4. AllPublished'
    BY <1>1, <2>1, <2>2, <2>3 DEF PublishedInv, AllPublished, Stored, Unsettled
  <2> QED BY <1>1, <2>4, SettledOps DEF PublishedInv, SettledPlaces, Places
<1> QED BY <1>3, <1>4 DEF RenameCommit, storeVars

(* The removal of an identity that no row holds keeps the publication.       *)
LEMMA RemovalPublished ==
    ASSUME AssignmentInv, AllPublished, UNCHANGED <<policies, pending, reverted>>, pc # "down",
           pc \notin Unsettled, NEW i \in Identity, i \notin Held,
           acl' = acl \/ acl' = [acl EXCEPT ![i] = None]
    PROVE  AllPublished'
<1>1. ASSUME NEW n \in Stored PROVE Accounted(n)' = Accounted(n)
  <2>1. OpenBaoPolicyName(n, policies[n].gen) # i
    BY DEF Held
  <2>2. CASE acl' = acl
    BY <2>2 DEF Accounted, Reverted, Published
  <2>3. CASE acl' = [acl EXCEPT ![i] = None]
    BY <2>1, <2>3, OthersPublished
  <2> QED BY <2>2, <2>3
<1> QED BY <1>1 DEF AllPublished, Stored

(* A step of the holder of mutationMu preserves PublishedInv.                *)
LEMMA HolderPublishedInv ==
    AssignmentInv /\ IdentityInv /\ PublishedInv /\ Holder => PublishedInv'
<1> SUFFICES ASSUME AssignmentInv, IdentityInv, PublishedInv, Holder
             PROVE  PublishedInv'
  OBVIOUS
<1>1. CASE RenameRecord \/ BindingCommit \/ UnbindRole \/ UnbindRetire \/ IssueSecret
           \/ (\E b \in Bindings : ApplyBinding(b)) \/ ApplyDone \/ SettleDone
  <2>1. UNCHANGED <<policies, acl, pending, reverted>>
    BY <1>1 DEF RenameRecord, BindingCommit, UnbindRole, UnbindRetire, IssueSecret,
       ApplyBinding, ApplyDone, SettleDone, storeVars, baoVars
  <2>2. pc' \in SettledPlaces /\ pc \notin Unsettled /\ pc # "down"
    BY <1>1 DEF RenameRecord, BindingCommit, UnbindRole, UnbindRetire, IssueSecret,
       ApplyBinding, ApplyDone, SettleDone, SettleReturn, ReturnRename, Return,
       SettledPlaces, Places, Unsettled
  <2> QED BY <2>1, <2>2, PublishedStable, SettledOps DEF PublishedInv
<1>2. CASE RenameSettle
  <2>1. UNCHANGED <<policies, acl, pending, reverted>> /\ pc = "renameSettle"
    BY <1>2 DEF RenameSettle, storeVars, baoVars
  <2>2. AllPublished'
    BY <2>1, PublishedStable DEF PublishedInv, Unsettled
  <2>3. \/ pc' \in SettledPlaces
        \/ /\ pc' = "remove" /\ op' = op
           /\ policies[op.name] # None => policies[op.name].gen # op.row.gen
    BY <1>2 DEF RenameSettle, ReturnRename, Return, SettledPlaces, Places
  <2>4. CASE /\ pc' = "remove" /\ op' = op
             /\ policies[op.name] # None => policies[op.name].gen # op.row.gen
    <3>1. DocIdentity = <<op.name, op.row.gen>> /\ DocIdentity' = DocIdentity
      BY <2>1, <2>4, DocPair DEF WithDocument, DocIdentity
    <3>2. ASSUME NEW n \in Stored
          PROVE  OpenBaoPolicyName(n, policies[n].gen) # DocIdentity
      BY <2>4, <3>1, StoredRow DEF Stored
    <3>3. (DocIdentity \notin Held)'
      BY <2>1, <3>1, <3>2 DEF Held, Stored
    <3> QED BY <2>2, <2>4, <3>3 DEF PublishedInv, OpPublished
  <2> QED BY <2>2, <2>3, <2>4, SettledOps DEF PublishedInv
<1>3. CASE RenameRemove
  <2>1. /\ UNCHANGED <<policies, pending, reverted>> /\ pc = "remove" /\ pc' = "idle"
        /\ acl' = acl \/ acl' = [acl EXCEPT ![DocIdentity] = None]
    BY <1>3 DEF RenameRemove, ReturnRename, Return, RemoveIdentity
  <2>2. DocIdentity \in Identity /\ DocIdentity \notin Held
    BY <2>1, DocPair DEF WithDocument, PublishedInv, OpPublished
  <2> QED
    BY <2>1, <2>2, RemovalPublished, SettledOps
       DEF PublishedInv, Unsettled, SettledPlaces, Places
<1>4. CASE Issue \/ Settle
  <2>1. /\ UNCHANGED policies
        /\ pc' \in SettledPlaces /\ pc \notin Unsettled /\ pc # "down"
    BY <1>4 DEF Issue, Settle, SettleReturn, ReturnRename, Return, storeVars,
       SettledPlaces, Places, Unsettled
  <2>2. UNCHANGED <<acl, pending, reverted>> \/ \E ok \in BOOLEAN : Sync(ok)
    BY <1>4 DEF Issue, Settle
  <2> QED BY <2>1, <2>2, PublishedStable, SyncPublishes, SettledOps DEF PublishedInv
<1>5. ASSUME NEW i \in Identity, SettleIdentity(i) PROVE PublishedInv'
  <2>1. /\ UNCHANGED <<policies, pending, reverted>> /\ pc = "settleRemove" /\ pc' = pc
        /\ i \in Held => acl' = acl
        /\ acl' = acl \/ acl' = [acl EXCEPT ![i] = None]
    BY <1>5 DEF SettleIdentity, RemoveIdentity
  <2>2. AllPublished'
    <3>1. CASE i \in Held
      BY <2>1, <3>1, PublishedStable DEF PublishedInv, Unsettled
    <3>2. CASE i \notin Held
      BY <2>1, <3>2, RemovalPublished DEF PublishedInv, Unsettled
    <3> QED BY <3>1, <3>2
  <2> QED BY <2>1, <2>2, SettledOps DEF PublishedInv, SettledPlaces, Places
<1> QED
  BY <1>1, <1>2, <1>3, <1>4, <1>5, SavePublishPublishedInv, SaveCommitPublishedInv,
     RestorePublishedInv, DeletePublishedInv, RenamePublishPublishedInv,
     RenameCommitPublishedInv DEF Holder

(* Every step of the specification preserves PublishedInv.                   *)
LEMMA NextPublishedInv ==
    AssignmentInv /\ IdentityInv /\ PublishedInv /\ [Next]_vars => PublishedInv'
<1> SUFFICES ASSUME AssignmentInv, IdentityInv, PublishedInv, [Next]_vars
             PROVE  PublishedInv'
  OBVIOUS
<1>1. CASE Request \/ WorkerPass
  <2>1. /\ UNCHANGED <<policies, acl, pending, reverted>> /\ pc = "idle"
        /\ pc' \in SettledPlaces
    BY <1>1 DEF Request, SaveBegin, DeleteBegin, RenameBegin, CreateBinding,
       ChangeBinding, CommitBinding, RepeatBind, DeleteBinding, IssueBegin, WorkerPass, Begin,
       storeVars, baoVars, SettledPlaces, Places
  <2> QED BY <2>1, PublishedStable, SettledOps DEF PublishedInv, Unsettled
<1>2. CASE WorkerWake \/ RenameWake \/ UNCHANGED vars
  <2>1. UNCHANGED <<policies, acl, pending, pc, op, reverted>>
    BY <1>2 DEF WorkerWake, RenameWake, vars, storeVars, baoVars
  <2> QED
    BY <2>1 DEF PublishedInv, AllPublished, OpPublished, Stored, Held, Accounted, Reverted, Published,
       DocIdentity
<1>3. CASE Crash
  BY <1>3, SettledOps DEF Crash, PublishedInv, AllPublished, SettledPlaces, Places
<1>4. CASE Start
  <2>1. UNCHANGED policies /\ pc' \in SettledPlaces /\ \E ok \in BOOLEAN : Sync(ok)
    BY <1>4 DEF Start, Return, storeVars, SettledPlaces, Places
  <2> QED BY <2>1, SyncPublishes, SettledOps DEF PublishedInv
<1> QED BY <1>1, <1>2, <1>3, <1>4, HolderPublishedInv DEF Next

(* The initial states satisfy PublishedInv.                                  *)
LEMMA InitPublishedInv == Init => PublishedInv
  BY DEF Init, PublishedInv, AllPublished, OpPublished

(* How far SQLite is the authority: whatever calls failed, lost their        *)
(* answers or were cut off by a crash, OpenBao enforces the stored HCL of    *)
(* every policy whenever mutationMu is free and policySyncPending is not     *)
(* set, but for the rows that SavePolicyBindings committed with its answer   *)
(* lost and that no later save or synchronisation has published.             *)
THEOREM StoreIsPublished == Spec => []PublishedUnlessReverted
<1>1. PublishedInv => PublishedUnlessReverted
  BY DEF PublishedInv, AllPublished, PublishedUnlessReverted, Unsettled, Accounted
<1> QED
  BY <1>1, InitAssignmentInv, NextAssignmentInv, InitIdentityInv, NextIdentityInv,
     InitPublishedInv, NextPublishedInv, PTL DEF Spec

----------------------------------------------------------------------------
(* The gate of prepareCredential.                                            *)

(* What an issuance knows of its binding: it is the one that was read, it is *)
(* stored, and it is applied once the apply loop succeeded; no               *)
(* synchronisation became pending under the lock.                            *)
OpIssue ==
    /\ pc = "issue" /\ op.todo # {} => Changed(op.affected) \subseteq op.todo
    /\ pc = "apply" /\ op.then = "issueSecret" =>
         /\ ~pending
         /\ Changed(op.affected) \subseteq BoundIds
         /\ \A b \in Changed(op.affected) :
              bindings[b].applied \/ b \in op.todo \/ op.failed
    /\ pc = "issueSecret" =>
         /\ ~pending
         /\ Changed(op.affected) \subseteq BoundIds
         /\ \A b \in Changed(op.affected) : bindings[b].applied

(* A step to a place about which OpIssue says nothing.                       *)
LEMMA NotIssuing ==
    ASSUME pc' \in Places,
           \/ pc' \notin {"issue", "apply", "issueSecret"}
           \/ pc' = "apply" /\ op'.then # "issueSecret"
    PROVE  OpIssue'
  BY DEF OpIssue

(* A request preserves OpIssue.                                              *)
LEMMA RequestOpIssue == AssignmentInv /\ Request => OpIssue'
<1> SUFFICES ASSUME AssignmentInv, Request PROVE OpIssue'
  OBVIOUS
<1>1. ASSUME NEW b \in Bindings, NEW current \in BOOLEAN, IssueBegin(b, current)
      PROVE  OpIssue'
  <2>1. /\ pc' = "issue" /\ op'.todo = IF current THEN {b} ELSE {}
        /\ op'.affected = [[c \in Bindings |-> None] EXCEPT ![b] = bindings[b]]
    BY <1>1 DEF IssueBegin, Begin, NoOp
  <2>2. \A c \in Bindings : c # b => op'.affected[c] = None
    BY <2>1
  <2>3. Changed(op'.affected) \subseteq {b}
    BY <2>2 DEF Changed
  <2> QED BY <2>1, <2>3 DEF OpIssue, Changed
<1>2. ASSUME NEW b \in Bindings, RepeatBind(b) PROVE OpIssue'
  BY <1>2, NotIssuing DEF RepeatBind, Begin, NoOp, Places
<1>3. CASE ~\E b \in Bindings, current \in BOOLEAN : IssueBegin(b, current) \/ RepeatBind(b)
  BY <1>3, NotIssuing DEF Request, SaveBegin, DeleteBegin, RenameBegin, CreateBinding,
     ChangeBinding, CommitBinding, DeleteBinding, Begin, Places
<1> QED BY <1>1, <1>2, <1>3

(* Issue preserves OpIssue: it goes on only once nothing is pending.         *)
LEMMA IssueOpIssue == AssignmentInv /\ OpIssue /\ Issue => OpIssue'
<1> SUFFICES ASSUME AssignmentInv, OpIssue, Issue PROVE OpIssue'
  OBVIOUS
<1>1. CASE pc' = "apply" /\ op' = op /\ ~pending' /\ op.todo # {}
  <2>1. pc = "issue" /\ UNCHANGED bindings
    BY DEF Issue, storeVars
  <2>2. op.todo \subseteq BoundIds /\ Changed(op.affected) \subseteq op.todo
    BY <1>1, <2>1 DEF OpIssue, AssignmentInv, Shape, OpTodo
  <2> QED BY <1>1, <2>1, <2>2 DEF OpIssue, BoundIds, Changed
<1>2. CASE pc' = "idle"
  BY <1>2, NotIssuing DEF Places
<1>3. pc' = "idle" \/ (pc' = "apply" /\ op' = op /\ ~pending' /\ op.todo # {})
  BY DEF Issue, Return, Sync, AssignmentInv, TypeOK
<1> QED BY <1>1, <1>2, <1>3

(* The apply loop preserves OpIssue: a binding leaves the loop applied, or   *)
(* the loop failed.                                                          *)
LEMMA ApplyOpIssue ==
    ASSUME AssignmentInv, OpIssue, NEW b \in Bindings, ApplyBinding(b)
    PROVE  OpIssue'
<1>1. /\ pc = "apply" /\ pc' = pc /\ pending' = pending
      /\ op'.then = op.then /\ op'.affected = op.affected
      /\ op'.todo = op.todo \ {b} /\ (op.failed => op'.failed)
  BY DEF ApplyBinding, AssignmentInv, TypeOK, Operation
<1>2. /\ b \in BoundIds /\ bindings[b] \in Binding
  BY <1>1 DEF ApplyBinding, AssignmentInv, Shape, OpTodo, BoundIds, TypeOK
<1>3. bindings' = bindings \/ bindings' = [bindings EXCEPT ![b].applied = TRUE]
  BY DEF ApplyBinding
<1>4. bindings'[b].applied \/ op'.failed
  <2>1. \/ bindings' = bindings /\ bindings[b].applied
        \/ bindings' = [bindings EXCEPT ![b].applied = TRUE]
        \/ op' = [op EXCEPT !.todo = @ \ {b}, !.failed = TRUE]
    BY DEF ApplyBinding
  <2>2. CASE bindings' = [bindings EXCEPT ![b].applied = TRUE]
    BY <1>2, <2>2 DEF AssignmentInv, TypeOK, Binding
  <2>3. CASE op' = [op EXCEPT !.todo = @ \ {b}, !.failed = TRUE]
    BY <2>3 DEF AssignmentInv, TypeOK, Operation
  <2> QED BY <2>1, <2>2, <2>3
<1>5. /\ \A c \in Bindings \ {b} : bindings'[c] = bindings[c]
      /\ bindings'[b] # None
  <2>1. CASE bindings' = bindings
    BY <1>2, <2>1 DEF BoundIds
  <2>2. CASE bindings' = [bindings EXCEPT ![b].applied = TRUE]
    <3>1. bindings'[b] = [bindings[b] EXCEPT !.applied = TRUE]
      BY <2>2 DEF AssignmentInv, TypeOK
    <3>2. bindings'[b] \in Binding
      BY <1>2, <3>1 DEF Binding
    <3>3. \A c \in Bindings \ {b} : bindings'[c] = bindings[c]
      BY <2>2 DEF AssignmentInv, TypeOK
    <3> QED BY <3>2, <3>3, NoneAssumption
  <2> QED BY <1>3, <2>1, <2>2
<1>6. BoundIds' = BoundIds
  BY <1>2, <1>5 DEF BoundIds
<1> QED BY <1>1, <1>4, <1>5, <1>6 DEF OpIssue, Changed

(* A step of the holder of mutationMu preserves OpIssue.                     *)
LEMMA HolderOpIssue == AssignmentInv /\ GrantInv /\ OpIssue /\ Holder => OpIssue'
<1> SUFFICES ASSUME AssignmentInv, GrantInv, OpIssue, Holder PROVE OpIssue'
  OBVIOUS
<1>1. CASE SavePublish \/ Restore \/ DeletePublish \/ DeleteCommit \/ DeleteSettle
           \/ RenameRecord \/ RenamePublish \/ RenameRemove \/ UnbindRole
           \/ UnbindRetire \/ IssueSecret \/ SettleDone
           \/ \E i \in Identity : SettleIdentity(i)
  BY <1>1, NotIssuing DEF SavePublish, Restore, DeletePublish, DeleteCommit,
     DeleteSettle, RenameRecord, RenamePublish, RenameRemove, UnbindRole,
     UnbindRetire, IssueSecret, SettleDone, SettleIdentity, SettleReturn,
     ReturnRename, Return, Places
<1>2. CASE SaveCommit \/ BindingCommit
  <2>1. op.then = "idle" /\ pc' \in {"apply", "restore", "idle"}
    BY <1>2 DEF GrantInv, OpThen, SaveCommit, BindingCommit, Return
  <2>2. pc' = "apply" => op' = [op EXCEPT !.todo = Changed(op.affected)]
    BY <1>2 DEF SaveCommit, BindingCommit, Return
  <2>3. pc' = "apply" => op'.then = "idle"
    BY <2>1, <2>2 DEF AssignmentInv, TypeOK, Operation
  <2> QED BY <2>1, <2>3, NotIssuing DEF Places
<1>3. CASE RenameCommit \/ RenameSettle
  <2>1. /\ pc' \in {"apply", "renameSettle", "remove", "idle"}
        /\ pc' = "apply" => op' = [op EXCEPT !.todo = Changed(op.affected),
                                             !.then = "renameSettle"]
    BY <1>3 DEF RenameCommit, RenameSettle, ReturnRename, Return
  <2>2. pc' = "apply" => op'.then = "renameSettle"
    BY <2>1 DEF AssignmentInv, TypeOK, Operation
  <2> QED BY <2>1, <2>2, NotIssuing DEF Places
<1>4. CASE Settle
  <2>1. /\ pc = "settle" /\ pc' \in {"apply", "idle"}
        /\ pc' = "apply" => op'.then = op.then
    BY <1>4 DEF Settle, SettleReturn, ReturnRename, Return, AssignmentInv, TypeOK,
       Operation
  <2> QED BY <2>1, NotIssuing DEF GrantInv, OpThen, Places
<1>5. CASE ApplyDone
  <2>1. UNCHANGED <<bindings, pending>> /\ pc = "apply" /\ op.todo = {}
    BY <1>5 DEF ApplyDone, storeVars
  <2>2. \/ pc' \in {"settle", "settleRemove", "idle"}
        \/ pc' = "issueSecret" /\ op' = op /\ op.then = "issueSecret" /\ ~op.failed
    BY <1>5 DEF ApplyDone, ReturnRename, Return
  <2>3. CASE pc' \in {"settle", "settleRemove", "idle"}
    BY <2>3, NotIssuing DEF Places
  <2>4. CASE pc' = "issueSecret" /\ op' = op /\ op.then = "issueSecret" /\ ~op.failed
    BY <2>1, <2>4 DEF OpIssue, BoundIds, Changed
  <2> QED BY <2>2, <2>3, <2>4
<1> QED BY <1>1, <1>2, <1>3, <1>4, <1>5, IssueOpIssue, ApplyOpIssue DEF Holder

(* Every step of the specification preserves OpIssue.                        *)
LEMMA NextOpIssue == AssignmentInv /\ GrantInv /\ OpIssue /\ [Next]_vars => OpIssue'
<1> SUFFICES ASSUME AssignmentInv, GrantInv, OpIssue, [Next]_vars PROVE OpIssue'
  OBVIOUS
<1>1. CASE WorkerPass \/ Crash \/ Start
  <2>1. pc' \in {"settle", "down", "idle", "apply"}
    BY <1>1 DEF WorkerPass, Begin, Crash, Start, Return
  <2>2. pc' = "apply" => op'.then = "start"
    BY <1>1 DEF WorkerPass, Begin, Crash, Start, Return, NoOp
  <2> QED BY <2>1, <2>2, NotIssuing DEF Places
<1>2. CASE WorkerWake \/ RenameWake \/ UNCHANGED vars
  <2>1. UNCHANGED <<bindings, pending, pc, op>>
    BY <1>2 DEF WorkerWake, RenameWake, vars, storeVars
  <2> QED BY <2>1 DEF OpIssue, BoundIds, Changed
<1> QED BY <1>1, <1>2, RequestOpIssue, HolderOpIssue DEF Next

(* prepareCredential asks OpenBao for a SecretID only while the binding is   *)
(* applied, its role grants its stored assignment and OpenBao enforces the   *)
(* stored HCL of each policy in it, but for a row whose save committed with  *)
(* its answer lost.                                                          *)
THEOREM IssuanceIsGated == Spec => []IssuanceGate
<1>1. ASSUME AssignmentInv, GrantInv, PublishedInv, OpIssue PROVE IssuanceGate
  <2> SUFFICES ASSUME pc = "issueSecret", NEW b \in Changed(op.affected)
               PROVE  /\ ~pending
                      /\ bindings[b] # None
                      /\ bindings[b].applied
                      /\ roles[b] \in {None, OpenBaoPolicies(bindings[b].eff)}
                      /\ \A n \in bindings[b].policies :
                           n \in Stored /\ (Published(n) \/ Reverted(n))
    BY DEF IssuanceGate
  <2>1. ~pending /\ b \in BoundIds /\ bindings[b].applied
    BY <1>1 DEF OpIssue
  <2>2. roles[b] \in {None, OpenBaoPolicies(bindings[b].eff)}
    BY <1>1, <2>1 DEF GrantInv, AppliedGrants
  <2>3. bindings[b].policies \subseteq Stored
    BY <1>1, <2>1 DEF AssignmentInv, EffectiveCurrent
  <2>4. \A n \in Stored : Published(n) \/ Reverted(n)
    BY <1>1, <2>1 DEF PublishedInv, AllPublished, Unsettled, Accounted
  <2> QED BY <2>1, <2>2, <2>3, <2>4 DEF BoundIds
<1>2. Init => OpIssue
  BY DEF Init, OpIssue
<1> QED
  BY <1>1, <1>2, InitAssignmentInv, NextAssignmentInv, InitGrantInv, NextGrantInv,
     InitIdentityInv, NextIdentityInv, InitPublishedInv, NextPublishedInv,
     NextOpIssue, PTL DEF Spec

-----------------------------------------------------------------------------
(* Composition.                                                            *)

(* The first k policies of the selection.                                  *)
Taken(k) == {chosen[i] : i \in 1 .. k}

(* The types of what the loop keeps.                                       *)
ComposeShape ==
    /\ chosen \in Seq(Documents) /\ at \in 0 .. Len(chosen) /\ result.sources \in Seq(Documents)
    /\ result = [sources |-> result.sources, renew |-> result.renew, env |-> result.env,
                 identities |-> result.identities, restricted |-> result.restricted,
                 mount |-> result.mount]
    /\ result.renew \in BOOLEAN
    /\ outcome \in {"composing", "composed", "selection", "name", "openbao", "ssh", "contract",
                    "settings", "none"}

(* Policy p is in order by itself, and the assignment is what it asks for. *)
Accepted(p) ==
    /\ PolicyFault(p) = None /\ ValueNames(p) \subseteq settings.values /\ p.mount = result.mount
    /\ DOMAIN p.env \subseteq DOMAIN result.env
    /\ \A name \in DOMAIN p.env : result.env[name] = ExpandedEnv(p)[name]
    /\ p.restricted \cap result.identities \subseteq result.restricted

(* The assignment is the union of the policies taken so far.               *)
ComposeUnion ==
    /\ Len(result.sources) \in {at - 1, at}
    /\ Sources = Taken(Len(result.sources))
    /\ \A i, j \in 1 .. Len(result.sources) : chosen[i].name = chosen[j].name => i = j
    /\ \A p \in Sources : Accepted(p)
    /\ DOMAIN result.env = UNION {DOMAIN p.env : p \in Sources}
    /\ result.identities = UNION {p.identities : p \in Sources}
    /\ result.restricted \subseteq UNION {p.restricted : p \in Sources}
    /\ outcome = "composing" => UNION {p.restricted : p \in Sources} \subseteq result.restricted
    /\ result.renew = \E p \in Sources : AgentRenewal(p)
    /\ chosen # << >> => result.mount = chosen[1].mount

(* A refusal has its reason in the selection.                              *)
ComposeOutcome ==
    /\ outcome = "composing" => chosen # << >> /\ Len(result.sources) = at
    /\ outcome = "composed" => Compatible /\ Len(result.sources) = Len(chosen)
    /\ outcome \notin {"composing", "composed"} => ~ Compatible

ComposeInv == ComposeShape /\ ComposeUnion /\ ComposeOutcome

LEMMA ChosenDocuments ==
    ASSUME NEW c \in Cases, NEW order \in SortedOrders(c.policies)
    PROVE  /\ [i \in DOMAIN c.policies |-> c.policies[order[i]]] \in Seq(Documents)
<1>1. c.policies \in Seq(Range(c.policies)) /\ Range(c.policies) \subseteq Documents
  BY CaseAssumption DEF Documents
<1>2. c.policies \in Seq(Documents)
  BY <1>1
<1> DEFINE ps == c.policies
           s == [i \in DOMAIN ps |-> ps[order[i]]]
           n == Len(ps)
<1>3. n \in Nat /\ DOMAIN ps = 1 .. n /\ \A i \in 1 .. n : ps[i] \in Documents
  BY <1>2
<1>4. order \in [DOMAIN ps -> DOMAIN ps]
  BY DEF SortedOrders
<1> HIDE DEF ps, n
<1>5. s \in [1 .. n -> Documents]
  BY <1>3, <1>4
<1> HIDE DEF s
<1>6. s \in Seq(Documents)
  BY <1>3, <1>5
<1> QED BY <1>6 DEF s, ps

LEMMA ComposeStart == ComposeInit => ComposeInv
<1> SUFFICES ASSUME ComposeInit PROVE ComposeInv
  OBVIOUS
<1>1. chosen \in Seq(Documents)
  BY ChosenDocuments DEF ComposeInit
<1>2. /\ at = 0 /\ outcome = IF chosen = << >> THEN "selection" ELSE "composing"
      /\ result = [sources |-> << >>, renew |-> FALSE, env |-> << >>,
                   identities |-> {}, restricted |-> {},
                   mount |-> IF chosen = << >> THEN None ELSE chosen[1].mount]
  BY DEF ComposeInit
<1>3. Len(chosen) \in Nat
  BY <1>1
<1>4. ComposeShape
  BY <1>1, <1>2, <1>3 DEF ComposeShape
<1>5. result.sources = << >> /\ Sources = {} /\ Taken(0) = {} /\ Len(result.sources) = 0
  BY <1>2 DEF Sources, Range, Taken
<1>6. DOMAIN result.env = {}
  BY <1>2
<1>7. ComposeUnion
  BY <1>2, <1>5, <1>6 DEF ComposeUnion
<1>8. ComposeOutcome
  BY <1>2, <1>5 DEF ComposeOutcome, Compatible
<1> QED BY <1>4, <1>7, <1>8 DEF ComposeInv

LEMMA FaultNames ==
    ASSUME NEW p, NEW s
    PROVE  /\ PolicyFault(p) \in {"name", "openbao", "ssh", "contract", None}
           /\ SettingsFault(s) \in {"selection", "settings", None}
  BY DEF PolicyFault, SettingsFault

(* Compatible is about the selection and the settings only.                *)
LEMMA CompatibleFixed ==
    ASSUME UNCHANGED <<chosen, settings>> PROVE Compatible' = Compatible
  BY DEF Compatible

LEMMA SelectedOnes ==
    ASSUME ComposeInv
    PROVE  /\ Len(chosen) \in Nat /\ DOMAIN chosen = 1 .. Len(chosen)
           /\ \A i \in 1 .. Len(chosen) : chosen[i] \in Range(chosen) /\ chosen[i] \in Documents
           /\ Range(chosen) = Taken(Len(chosen))
           /\ Len(result.sources) \in Nat /\ Len(result.sources) <= Len(chosen)
<1>1. chosen \in Seq(Documents) /\ at \in 0 .. Len(chosen) /\ result.sources \in Seq(Documents)
  BY DEF ComposeInv, ComposeShape
<1>2. Len(chosen) \in Nat /\ DOMAIN chosen = 1 .. Len(chosen) /\ Len(result.sources) \in Nat
  BY <1>1
<1>3. \A i \in 1 .. Len(chosen) : chosen[i] \in Range(chosen) /\ chosen[i] \in Documents
  BY <1>1, <1>2 DEF Range
<1>4. Range(chosen) = Taken(Len(chosen))
  BY <1>2 DEF Range, Taken
<1>5. Len(result.sources) \in {at - 1, at}
  BY DEF ComposeInv, ComposeUnion
<1>6. Len(result.sources) <= Len(chosen)
  BY <1>1, <1>2, <1>5
<1> QED BY <1>2, <1>3, <1>4, <1>6

(* A policy is refused only where the selection cannot be composed.        *)
LEMMA RefusedRightly ==
    ASSUME ComposeInv, outcome = "composing", at < Len(chosen),
           Refusal(chosen[at + 1]) # None
    PROVE  /\ ~ Compatible
           /\ Refusal(chosen[at + 1]) \in {"selection", "name", "openbao", "ssh", "contract"}
<1> DEFINE p == chosen[at + 1]
<1>1. /\ at \in Nat /\ at + 1 \in 1 .. Len(chosen) /\ 1 \in 1 .. Len(chosen) /\ Len(result.sources) = at
      /\ chosen # << >>
  BY SelectedOnes DEF ComposeInv, ComposeShape, ComposeOutcome
<1>2. p \in Range(chosen) /\ chosen[1] \in Range(chosen)
  BY <1>1, SelectedOnes
<1>3. Sources = Taken(at) /\ Taken(at) \subseteq Range(chosen)
  <2>1. Sources = Taken(at)
    BY <1>1 DEF ComposeInv, ComposeUnion
  <2>2. Taken(at) \subseteq Range(chosen)
    BY <1>1, SelectedOnes DEF Taken
  <2> QED BY <2>1, <2>2
<1> HIDE DEF p
<1>4. CASE PolicyFault(p) # None
  <2>1. ~ Compatible
    BY <1>2, <1>4 DEF Compatible
  <2>2. Refusal(p) = PolicyFault(p)
    BY <1>4 DEF Refusal
  <2> QED BY <1>4, <2>1, <2>2, FaultNames DEF p
<1>5. CASE PolicyFault(p) = None /\ \E q \in Sources : q.name = p.name
  <2>1. PICK i \in 1 .. at : chosen[i].name = p.name
    BY <1>3, <1>5 DEF Taken
  <2>2. i \in DOMAIN chosen /\ at + 1 \in DOMAIN chosen /\ i # at + 1
    BY <1>1, SelectedOnes
  <2>3. ~ Compatible
    BY <2>1, <2>2 DEF Compatible, p
  <2>4. Refusal(p) = "selection"
    BY <1>5 DEF Refusal, Sources
  <2> QED BY <2>3, <2>4 DEF p
<1>6. CASE PolicyFault(p) = None /\ p.mount # result.mount
  <2>1. result.mount = chosen[1].mount
    BY <1>1 DEF ComposeInv, ComposeUnion
  <2>2. ~ Compatible
    BY <1>2, <1>6, <2>1 DEF Compatible
  <2>3. Refusal(p) \in {"selection", "contract"}
    BY <1>6 DEF Refusal
  <2> QED BY <2>2, <2>3 DEF p
<1>7. CASE PolicyFault(p) = None /\ Conflicts(p) # {}
  <2>1. PICK name \in DOMAIN p.env \cap DOMAIN result.env : ExpandedEnv(p)[name] # result.env[name]
    BY <1>7 DEF Conflicts
  <2>2. PICK q \in Sources : name \in DOMAIN q.env
    BY <2>1 DEF ComposeInv, ComposeUnion
  <2>3. result.env[name] = ExpandedEnv(q)[name]
    BY <2>2 DEF ComposeInv, ComposeUnion, Accepted
  <2>4. q \in Range(chosen)
    BY <1>3, <2>2
  <2>5. ~ Compatible
    BY <1>2, <2>1, <2>2, <2>3, <2>4 DEF Compatible
  <2>6. Refusal(p) \in {"selection", "contract"}
    BY <1>7 DEF Refusal
  <2> QED BY <2>5, <2>6 DEF p
<1>8. CASE PolicyFault(p) = None /\ ~ (ValueNames(p) \subseteq settings.values)
  <2>1. ~ Compatible
    BY <1>2, <1>8 DEF Compatible
  <2>2. Refusal(p) \in {"selection", "contract"}
    BY <1>8 DEF Refusal
  <2> QED BY <2>1, <2>2 DEF p
<1>9. Refusal(p) # None
  BY DEF p
<1>10. \/ PolicyFault(p) # None \/ \E q \in Sources : q.name = p.name
       \/ p.mount # result.mount \/ Conflicts(p) # {} \/ ~ (ValueNames(p) \subseteq settings.values)
  BY <1>9 DEF Refusal, Sources
<1> QED BY <1>4, <1>5, <1>6, <1>7, <1>8, <1>10

LEMMA TakeRefused ==
    ASSUME ComposeInv, Take, Refusal(chosen[at + 1]) # None
    PROVE  ComposeInv'
<1>1. /\ outcome = "composing" /\ at < Len(chosen) /\ outcome' = Refusal(chosen[at + 1])
      /\ result' = result /\ at' = at + 1 /\ chosen' = chosen /\ settings' = settings
  BY DEF Take
<1>2. ~ Compatible /\ outcome' \in {"selection", "name", "openbao", "ssh", "contract"}
  BY <1>1, RefusedRightly
<1>3. ~ Compatible'
  BY <1>1, <1>2, CompatibleFixed
<1>4. ComposeShape'
  BY <1>1, <1>2, SelectedOnes DEF ComposeInv, ComposeShape
<1>5. Len(result.sources) = at /\ at \in Nat
  BY <1>1, SelectedOnes DEF ComposeInv, ComposeOutcome
<1>6. Sources' = Sources /\ (\A k : Taken(k)' = Taken(k)) /\ (\A p : Accepted(p)' = Accepted(p))
  BY <1>1 DEF Sources, Taken, Accepted
<1>7. Len(result.sources)' \in {at' - 1, at'}
  BY <1>1, <1>5
<1>8. ComposeUnion'
  BY <1>1, <1>2, <1>6, <1>7 DEF ComposeInv, ComposeUnion
<1>9. ComposeOutcome'
  BY <1>2, <1>3 DEF ComposeOutcome
<1> QED BY <1>4, <1>8, <1>9 DEF ComposeInv

(* What the sources are after a policy is appended to them.                *)
LEMMA SourcesWith ==
    ASSUME ComposeInv, NEW p \in Documents, result' = With(p)
    PROVE  /\ result'.sources = Append(result.sources, p)
           /\ Len(result'.sources) = Len(result.sources) + 1
           /\ Sources' = Sources \cup {p}
<1>1. result.sources \in Seq(Documents)
  BY DEF ComposeInv, ComposeShape
<1>2. result'.sources = Append(result.sources, p)
  BY DEF With
<1> DEFINE s == result.sources
           t == result'.sources
           n == Len(s)
<1>3. s \in Seq(Documents) /\ n \in Nat /\ Len(t) = n + 1 /\ DOMAIN s = 1 .. n /\ DOMAIN t = 1 .. n + 1
      /\ (\A i \in 1 .. n : t[i] = s[i]) /\ t[n + 1] = p
  BY <1>1, <1>2
<1>4. Range(t) = {t[i] : i \in 1 .. n + 1} /\ Range(s) = {s[i] : i \in 1 .. n}
  BY <1>3 DEF Range
<1> HIDE DEF s, t, n
<1>5. Range(t) = Range(s) \cup {p}
  <2>1. ASSUME NEW x \in Range(t) PROVE x \in Range(s) \cup {p}
    <3>1. PICK i \in 1 .. n + 1 : x = t[i]
      BY <1>4, <2>1
    <3>2. i \in 1 .. n \/ i = n + 1
      BY <1>3
    <3> QED BY <1>3, <1>4, <3>1, <3>2
  <2>2. ASSUME NEW x \in Range(s) PROVE x \in Range(t)
    <3>1. PICK i \in 1 .. n : x = s[i]
      BY <1>4, <2>2
    <3>2. i \in 1 .. n + 1
      BY <1>3
    <3> QED BY <1>3, <1>4, <3>1, <3>2
  <2>3. p \in Range(t)
    BY <1>3, <1>4
  <2> QED BY <2>1, <2>2, <2>3
<1> QED BY <1>2, <1>3, <1>5 DEF s, t, n, Sources

LEMMA TakenNext ==
    ASSUME NEW n \in Nat PROVE Taken(n + 1) = Taken(n) \cup {chosen[n + 1]}
<1>1. 1 .. n + 1 = (1 .. n) \cup {n + 1}
  OBVIOUS
<1> QED BY <1>1 DEF Taken

(* What acceptance says of the policy that the loop takes.                 *)
LEMMA NotRefused ==
    ASSUME NEW p, Refusal(p) = None
    PROVE  /\ PolicyFault(p) = None /\ ValueNames(p) \subseteq settings.values
           /\ p.mount = result.mount /\ Conflicts(p) = {}
           /\ \A q \in Sources : q.name # p.name
  BY CaseAssumption DEF Refusal, Sources

(* Every policy that was accepted, and the new one, are so after the step. *)
LEMMA AcceptedWith ==
    ASSUME ComposeInv, outcome = "composing", NEW p \in Documents, Refusal(p) = None,
           result' = With(p), settings' = settings,
           NEW q, q = p \/ q \in Sources
    PROVE  Accepted(q)'
<1>1. /\ result'.env = [name \in DOMAIN p.env \cup DOMAIN result.env |->
                          IF name \in DOMAIN p.env THEN ExpandedEnv(p)[name] ELSE result.env[name]]
      /\ result'.identities = result.identities \cup p.identities
      /\ result'.restricted = result.restricted \cup p.restricted
      /\ result'.mount = result.mount
  BY DEF With
<1>2. /\ DOMAIN result'.env = DOMAIN p.env \cup DOMAIN result.env
      /\ \A name \in DOMAIN p.env : result'.env[name] = ExpandedEnv(p)[name]
      /\ \A name \in DOMAIN result.env : result'.env[name] = result.env[name]
  <2>1. /\ DOMAIN result'.env = DOMAIN p.env \cup DOMAIN result.env
        /\ \A name \in DOMAIN p.env : result'.env[name] = ExpandedEnv(p)[name]
        /\ \A name \in DOMAIN result.env \ DOMAIN p.env : result'.env[name] = result.env[name]
    BY <1>1
  <2>2. \A name \in DOMAIN p.env \cap DOMAIN result.env : ExpandedEnv(p)[name] = result.env[name]
    BY NotRefused DEF Conflicts
  <2> QED BY <2>1, <2>2
<1>3. CASE q = p
  BY <1>1, <1>2, <1>3, NotRefused DEF Accepted
<1>4. CASE q \in Sources
  <2>1. Accepted(q) /\ q.restricted \subseteq result.restricted
    BY <1>4 DEF ComposeInv, ComposeUnion
  <2> QED BY <1>1, <1>2, <2>1 DEF Accepted
<1> QED BY <1>3, <1>4

LEMMA LegacyBoolean ==
    ASSUME NEW p \in Documents PROVE AgentRenewal(p) \in BOOLEAN
<1>1. p.renewal \in BOOLEAN \cup {None}
  BY CaseAssumption
<1>2. LegacyRenewal(p.hcl) \in BOOLEAN
  BY DEF LegacyRenewal
<1> QED BY <1>1, <1>2 DEF AgentRenewal

LEMMA TakeAccepted ==
    ASSUME ComposeInv, Take, Refusal(chosen[at + 1]) = None
    PROVE  ComposeInv'
<1> DEFINE p == chosen[at + 1]
           n == Len(result.sources)
<1>1. /\ outcome = "composing" /\ at < Len(chosen) /\ outcome' = outcome
      /\ result' = With(p) /\ at' = at + 1 /\ chosen' = chosen /\ settings' = settings
  BY DEF Take
<1>2. /\ at \in Nat /\ at + 1 \in 1 .. Len(chosen) /\ n = at /\ chosen # << >> /\ n \in Nat
  BY <1>1, SelectedOnes DEF ComposeInv, ComposeShape, ComposeOutcome
<1>3. p \in Documents
  BY <1>2, SelectedOnes
<1>4. Refusal(p) = None
  OBVIOUS
<1>5. p = chosen[n + 1]
  BY <1>2
<1> HIDE DEF p, n
<1>6. /\ result'.sources = Append(result.sources, p) /\ Len(result'.sources) = n + 1
      /\ Sources' = Sources \cup {p}
  BY <1>1, <1>3, SourcesWith DEF n
<1>7. ComposeShape'
  <2>1. result.sources \in Seq(Documents)
    BY DEF ComposeInv, ComposeShape
  <2>2. result'.sources \in Seq(Documents)
    BY <1>3, <1>6, <2>1
  <2>3. result' = [sources |-> result'.sources, renew |-> result'.renew, env |-> result'.env,
                   identities |-> result'.identities, restricted |-> result'.restricted,
                   mount |-> result'.mount]
    BY <1>1 DEF With
  <2>4. result'.renew \in BOOLEAN
    BY <1>1 DEF With
  <2>5. at' \in 0 .. Len(chosen')
    BY <1>1, <1>2, SelectedOnes
  <2> QED BY <1>1, <2>2, <2>3, <2>4, <2>5 DEF ComposeInv, ComposeShape
<1>8. \A k : Taken(k)' = Taken(k)
  BY <1>1 DEF Taken
<1>9. Sources' = Taken(n + 1)
  BY <1>2, <1>5, <1>6, TakenNext DEF ComposeInv, ComposeUnion, n
<1>10. ASSUME NEW i \in 1 .. n + 1, NEW j \in 1 .. n + 1, chosen[i].name = chosen[j].name
       PROVE  i = j
  <2>1. \A k \in 1 .. n : chosen[k].name # p.name
    BY <1>4, NotRefused DEF ComposeInv, ComposeUnion, Taken, n
  <2>2. CASE i \in 1 .. n /\ j \in 1 .. n
    BY <1>10, <2>2 DEF ComposeInv, ComposeUnion, n
  <2>3. CASE i = n + 1 /\ j # n + 1
    <3>1. j \in 1 .. n
      BY <1>2, <2>3
    <3> QED BY <1>5, <1>10, <2>1, <2>3, <3>1
  <2>4. CASE i # n + 1 /\ j = n + 1
    <3>1. i \in 1 .. n
      BY <1>2, <2>4
    <3> QED BY <1>5, <1>10, <2>1, <2>4, <3>1
  <2> QED BY <1>2, <2>2, <2>3, <2>4
<1>11. \A q \in Sources' : Accepted(q)'
  BY <1>1, <1>3, <1>4, <1>6, AcceptedWith
<1>12. /\ DOMAIN result'.env = DOMAIN result.env \cup DOMAIN p.env
       /\ result'.identities = result.identities \cup p.identities
       /\ result'.restricted = result.restricted \cup p.restricted
       /\ result'.mount = result.mount
       /\ result'.renew = (result.renew \/ AgentRenewal(p))
  BY <1>1 DEF With
<1>13. /\ DOMAIN result.env = UNION {DOMAIN q.env : q \in Sources}
       /\ result.identities = UNION {q.identities : q \in Sources}
       /\ result.restricted = UNION {q.restricted : q \in Sources}
       /\ result.mount = chosen[1].mount
  BY <1>1, <1>2 DEF ComposeInv, ComposeUnion
<1>14. result.renew = \E q \in Sources : AgentRenewal(q)
  BY DEF ComposeInv, ComposeUnion
<1>15. (DOMAIN result.env)' = UNION {DOMAIN q.env : q \in Sources'}
  BY <1>6, <1>12, <1>13
<1>16. result'.identities = UNION {q.identities : q \in Sources'}
  BY <1>6, <1>12, <1>13
<1>17. result'.restricted = UNION {q.restricted : q \in Sources'}
  BY <1>6, <1>12, <1>13
<1>18. result'.renew = \E q \in Sources' : AgentRenewal(q)
  <2>1. AgentRenewal(p) \in BOOLEAN /\ result.renew \in BOOLEAN
    BY <1>3, LegacyBoolean DEF ComposeInv, ComposeShape
  <2>2. (\E q \in Sources' : AgentRenewal(q)) = ((\E q \in Sources : AgentRenewal(q)) \/ AgentRenewal(p))
    BY <1>6, Zenon
  <2> QED BY <1>12, <1>14, <2>2
<1>19. Len(result'.sources) \in {at' - 1, at'}
  BY <1>1, <1>2, <1>6
<1>20. ComposeUnion'
  BY <1>1, <1>6, <1>8, <1>9, <1>10, <1>11, <1>12, <1>13, <1>15, <1>16, <1>17, <1>18, <1>19
     DEF ComposeUnion
<1>21. ComposeOutcome'
  BY <1>1, <1>2, <1>6 DEF ComposeOutcome
<1> QED BY <1>7, <1>20, <1>21 DEF ComposeInv

(* With every policy taken, Finish composes exactly what is compatible.    *)
LEMMA FinishedRightly ==
    ASSUME ComposeInv, Finish
    PROVE  /\ outcome' = "composed" => Compatible
           /\ outcome' # "composed" => ~ Compatible
           /\ outcome' \in {"composed", "ssh", "selection", "settings", "none"}
<1>1. /\ outcome = "composing" /\ at = Len(chosen)
      /\ outcome' = IF ~ IdentitiesValid(result.identities) THEN "ssh"
                    ELSE IF EffectiveFault(result) # None THEN EffectiveFault(result)
                    ELSE "composed"
  BY DEF Finish
<1>2. Len(result.sources) = Len(chosen) /\ chosen # << >> /\ Sources = Range(chosen)
  BY <1>1, SelectedOnes DEF ComposeInv, ComposeUnion, ComposeOutcome
<1>3. /\ result.identities = UNION {p.identities : p \in Range(chosen)}
      /\ DOMAIN result.env = UNION {DOMAIN p.env : p \in Range(chosen)}
      /\ \A p \in Range(chosen) : Accepted(p)
  BY <1>2 DEF ComposeInv, ComposeUnion
<1>4. \A i, j \in DOMAIN chosen : chosen[i].name = chosen[j].name => i = j
  BY <1>2, SelectedOnes DEF ComposeInv, ComposeUnion
<1>5. \A p \in Range(chosen) : PolicyFault(p) = None /\ ValueNames(p) \subseteq settings.values
  BY <1>3 DEF Accepted
<1>6. \A p, q \in Range(chosen) :
         /\ p.mount = q.mount
         /\ \A name \in DOMAIN p.env \cap DOMAIN q.env : ExpandedEnv(p)[name] = ExpandedEnv(q)[name]
  BY <1>3 DEF Accepted
<1>12. (\A name \in DOMAIN result.env : result.env[name] \notin Oversized)
        <=> \A p \in Range(chosen) : \A name \in DOMAIN p.env : ExpandedEnv(p)[name] \notin Oversized
  BY <1>3 DEF Accepted
<1>7. Compatible <=> /\ IdentitiesValid(result.identities) /\ ContractValid(result.env)
                     /\ SettingsFault(settings) = None
  BY <1>2, <1>3, <1>4, <1>5, <1>6, <1>12 DEF Compatible, ContractValid
<1>8. EffectiveFault(result) = None <=> ContractValid(result.env) /\ SettingsFault(settings) = None
  BY CaseAssumption DEF EffectiveFault
<1>9. EffectiveFault(result) \in {"selection", "settings", "none", None}
  BY FaultNames DEF EffectiveFault
<1>10. outcome' = "composed" <=> IdentitiesValid(result.identities) /\ EffectiveFault(result) = None
  BY <1>1, <1>9
<1>11. outcome' \in {"composed", "ssh", "selection", "settings", "none"}
  BY <1>1, <1>9
<1> QED BY <1>7, <1>8, <1>10, <1>11

LEMMA FinishKeeps ==
    ASSUME ComposeInv, Finish PROVE ComposeInv'
<1>1. /\ outcome = "composing" /\ at = Len(chosen) /\ chosen' = chosen /\ at' = at
      /\ settings' = settings
      /\ result' = [result EXCEPT !.restricted = @ \cap result.identities]
  BY DEF Finish
<1>2. result = [sources |-> result.sources, renew |-> result.renew, env |-> result.env,
                identities |-> result.identities, restricted |-> result.restricted,
                mount |-> result.mount]
  BY DEF ComposeInv, ComposeShape
<1>3. /\ result' = [sources |-> result.sources, renew |-> result.renew, env |-> result.env,
                    identities |-> result.identities,
                    restricted |-> result.restricted \cap result.identities,
                    mount |-> result.mount]
  BY <1>1, <1>2
<1>4. /\ result'.sources = result.sources /\ result'.renew = result.renew
      /\ result'.env = result.env /\ result'.identities = result.identities
      /\ result'.restricted = result.restricted \cap result.identities
      /\ result'.mount = result.mount
  BY <1>3
<1>5. outcome' \in {"composed", "ssh", "selection", "settings", "none"}
  BY FinishedRightly
<1>6. ComposeShape'
  BY <1>1, <1>3, <1>4, <1>5 DEF ComposeInv, ComposeShape
<1>7. Sources' = Sources /\ \A k : Taken(k)' = Taken(k)
  BY <1>1, <1>4 DEF Sources, Taken
<1>8. \A p \in Sources : Accepted(p)'
  BY <1>1, <1>4 DEF ComposeInv, ComposeUnion, Accepted
<1>9. result'.restricted \subseteq UNION {p.restricted : p \in Sources}
  BY <1>4 DEF ComposeInv, ComposeUnion
<1>10. ComposeUnion'
  BY <1>1, <1>4, <1>5, <1>7, <1>8, <1>9 DEF ComposeInv, ComposeUnion
<1>11. (outcome' = "composed" => Compatible') /\ (outcome' # "composed" => ~ Compatible')
  BY <1>1, FinishedRightly, CompatibleFixed
<1>12. Len(result'.sources) = Len(chosen')
  BY <1>1, <1>4 DEF ComposeInv, ComposeOutcome
<1>13. ComposeOutcome'
  BY <1>5, <1>11, <1>12 DEF ComposeOutcome
<1> QED BY <1>6, <1>10, <1>13 DEF ComposeInv

LEMMA ComposeStutter ==
    ASSUME ComposeInv, UNCHANGED composeVars PROVE ComposeInv'
<1>1. Compatible' = Compatible
  BY CompatibleFixed DEF composeVars
<1>2. \A p : Accepted(p)' = Accepted(p)
  BY DEF composeVars, Accepted
<1>3. Sources' = Sources /\ \A k : Taken(k)' = Taken(k)
  BY DEF composeVars, Sources, Taken
<1>4. ComposeShape'
  BY DEF ComposeInv, ComposeShape, composeVars
<1>5. ComposeUnion'
  BY <1>2, <1>3 DEF ComposeInv, ComposeUnion, composeVars
<1>6. ComposeOutcome'
  BY <1>1 DEF ComposeInv, ComposeOutcome, composeVars
<1> QED BY <1>4, <1>5, <1>6 DEF ComposeInv

(* The loop of Compose keeps its invariant.                                *)
LEMMA ComposeInvariant == ComposeSpec => []ComposeInv
<1>1. ComposeInit => ComposeInv
  BY ComposeStart
<1>2. ComposeInv /\ [ComposeNext]_composeVars => ComposeInv'
  BY TakeRefused, TakeAccepted, FinishKeeps, ComposeStutter DEF ComposeNext
<1> QED BY <1>1, <1>2, PTL DEF ComposeSpec

LEMMA ComposedSoundHolds == ComposeInv => ComposedSound
<1> SUFFICES ASSUME ComposeInv PROVE ComposedSound
  OBVIOUS
<1>1. Sources \subseteq Range(chosen)
  <2>1. Sources = Taken(Len(result.sources))
    BY DEF ComposeInv, ComposeUnion
  <2>2. Taken(Len(result.sources)) \subseteq Range(chosen)
    BY SelectedOnes DEF Taken
  <2> QED BY <2>1, <2>2
<1>2. DOMAIN result.env \subseteq UNION {DOMAIN p.env : p \in Range(chosen)}
  BY <1>1 DEF ComposeInv, ComposeUnion
<1>3. ComposeTypeOK
  BY <1>2 DEF ComposeInv, ComposeShape, ComposeUnion, ComposeTypeOK
<1>4. outcome # "composing" => (outcome = "composed") = Compatible
  <2>1. Compatible \in BOOLEAN
    BY DEF Compatible
  <2> QED BY <2>1 DEF ComposeInv, ComposeOutcome
<1>5. NoWinner
  BY <1>4 DEF NoWinner, ComposeInv, ComposeUnion, Accepted
<1> QED BY <1>3, <1>5 DEF ComposedSound

(***************************************************************************)
(* Whatever policies are selected, a selection is composed exactly when    *)
(* its policies agree, and the assignment is what each of them asks for    *)
(* (Compose).                                                              *)
(***************************************************************************)
THEOREM ComposedSoundAlways == ComposeSpec => []ComposedSound
  BY ComposeInvariant, ComposedSoundHolds, PTL

-----------------------------------------------------------------------------
(* Offsets and priorities of patterns.  What a recursive function computes *)
(* is shown at the smallest place where it would not.                      *)

LEMMA SmallestOf ==
    ASSUME NEW T, T \subseteq Nat, T # {}
    PROVE  \E m \in T : \A k \in T : m <= k
<1>1. PICK m \in T : \A k \in T : ~ (<<k, m>> \in OpToRel(<, Nat))
  BY NatLessThanWellFounded, WFMin
<1>2. ASSUME NEW k \in T PROVE m <= k
  <2>1. ~ (<<k, m>> \in OpToRel(<, Nat))
    BY <1>1
  <2>2. ~ (k < m)
    BY <2>1 DEF OpToRel
  <2> QED BY <2>2
<1> QED BY <1>2

LEMMA MinOf ==
    ASSUME NEW T, T \subseteq Nat, T # {}
    PROVE  Min(T) \in T /\ \A k \in T : Min(T) <= k
<1>1. PICK m \in T : \A k \in T : m <= k
  BY SmallestOf
<1> QED BY <1>1 DEF Min

(* The sums of a sequence of numbers exist, one by one.                    *)
Summed(w, n, f) == f = [k \in 0 .. n |-> IF k = 0 THEN 0 ELSE f[k - 1] + w[k] + 1]

LEMMA SummedNext ==
    ASSUME NEW w, NEW n \in Nat, NEW f, Summed(w, n, f)
    PROVE  \E g : Summed(w, n + 1, g)
<1> DEFINE g == [k \in 0 .. n + 1 |-> IF k = n + 1 THEN f[n] + w[n + 1] + 1 ELSE f[k]]
<1>1. /\ \A k \in 0 .. n : f[k] = IF k = 0 THEN 0 ELSE f[k - 1] + w[k] + 1
      /\ \A k \in 0 .. n : g[k] = f[k]
      /\ g[n + 1] = f[n] + w[n + 1] + 1
  BY DEF Summed
<1>2. DOMAIN g = 0 .. n + 1 /\ g = [k \in 0 .. n + 1 |-> g[k]]
  OBVIOUS
<1> HIDE DEF g
<1>3. ASSUME NEW k \in 0 .. n + 1
      PROVE  g[k] = IF k = 0 THEN 0 ELSE g[k - 1] + w[k] + 1
  <2>1. CASE k \in 0 .. n
    <3>1. CASE k = 0
      BY <1>1, <2>1, <3>1
    <3>2. CASE k # 0
      <4>1. k - 1 \in 0 .. n
        BY <2>1, <3>2
      <4>2. g[k] = f[k] /\ g[k - 1] = f[k - 1] /\ f[k] = f[k - 1] + w[k] + 1
        BY <1>1, <2>1, <3>2, <4>1
      <4> QED BY <3>2, <4>2
    <3> QED BY <3>1, <3>2
  <2>2. CASE k = n + 1
    <3>1. k # 0 /\ k - 1 = n /\ g[n] = f[n]
      BY <1>1, <2>2
    <3> QED BY <1>1, <2>2, <3>1
  <2> QED BY <2>1, <2>2
<1>4. g = [k \in 0 .. n + 1 |-> IF k = 0 THEN 0 ELSE g[k - 1] + w[k] + 1]
  BY <1>2, <1>3
<1> QED BY <1>4 DEF Summed

LEMMA SummedExists ==
    ASSUME NEW w, NEW n \in Nat PROVE \E f : Summed(w, n, f)
<1> DEFINE T == {m \in Nat : ~ \E f : Summed(w, m, f)}
<1>1. SUFFICES ASSUME T # {} PROVE FALSE
  OBVIOUS
<1>2. PICK m \in T : \A k \in T : m <= k
  BY <1>1, SmallestOf
<1>3. CASE m = 0
  <2> DEFINE f == [k \in 0 .. 0 |-> 0]
  <2>1. f = [k \in 0 .. 0 |-> IF k = 0 THEN 0 ELSE f[k - 1] + w[k] + 1]
    OBVIOUS
  <2>2. \E g : Summed(w, 0, g)
    BY <2>1 DEF Summed
  <2> QED BY <1>2, <1>3, <2>2
<1>4. CASE m # 0
  <2>1. m - 1 \in Nat /\ m - 1 \notin T /\ (m - 1) + 1 = m
    BY <1>2, <1>4
  <2>2. PICK f : Summed(w, m - 1, f)
    BY <2>1
  <2>3. \E g : Summed(w, m, g)
    BY <2>1, <2>2, SummedNext
  <2> QED BY <1>2, <2>3
<1> QED BY <1>3, <1>4

LEMMA OffsetsEquation ==
    ASSUME NEW a, Pattern(a)
    PROVE  /\ Offsets(a)[0] = 0
           /\ \A k \in 1 .. Len(a) : Offsets(a)[k] = Offsets(a)[k - 1] + Length[a[k]] + 1
<1>1. a \in Seq(Segments) /\ Len(a) \in Nat
  BY DEF Pattern
<1> DEFINE w == [k \in 1 .. Len(a) |-> Length[a[k]]]
           n == Len(a)
<1>2. PICK g : Summed(w, n, g)
  BY <1>1, SummedExists
<1>3. \A k \in 1 .. n : w[k] = Length[a[k]]
  OBVIOUS
<1> HIDE DEF w
<1>4. [k \in 0 .. n |-> IF k = 0 THEN 0 ELSE g[k - 1] + w[k] + 1]
        = [k \in 0 .. n |-> IF k = 0 THEN 0 ELSE g[k - 1] + Length[a[k]] + 1]
  <2>1. \A k \in 0 .. n : (IF k = 0 THEN 0 ELSE g[k - 1] + w[k] + 1)
                            = IF k = 0 THEN 0 ELSE g[k - 1] + Length[a[k]] + 1
    BY <1>1, <1>3
  <2> QED BY <2>1
<1>5. g = [k \in 0 .. n |-> IF k = 0 THEN 0 ELSE g[k - 1] + Length[a[k]] + 1]
  BY <1>2, <1>4 DEF Summed
<1> DEFINE F(h) == h = [k \in 0 .. n |-> IF k = 0 THEN 0 ELSE h[k - 1] + Length[a[k]] + 1]
           o == CHOOSE h : F(h)
<1>6. F(o)
  <2>1. F(g)
    BY <1>5
  <2> HIDE DEF F
  <2> QED BY <2>1
<1>7. Offsets(a) = o
  BY DEF Offsets
<1> HIDE DEF o
<1>8. \A k \in 0 .. n : o[k] = IF k = 0 THEN 0 ELSE o[k - 1] + Length[a[k]] + 1
  BY <1>6
<1> QED BY <1>1, <1>7, <1>8

LEMMA OffsetsType ==
    ASSUME NEW a, Pattern(a), NEW k \in 0 .. Len(a) PROVE Offsets(a)[k] \in Nat
<1>1. a \in Seq(Segments) /\ Len(a) \in Nat
  BY DEF Pattern
<1> DEFINE T == {m \in 0 .. Len(a) : Offsets(a)[m] \notin Nat}
<1>2. SUFFICES ASSUME T # {} PROVE FALSE
  OBVIOUS
<1>3. PICK m \in T : \A j \in T : m <= j
  <2>1. T \subseteq Nat
    BY <1>1
  <2> QED BY <1>2, <2>1, SmallestOf
<1>4. m # 0
  BY <1>3, OffsetsEquation
<1>5. m \in 1 .. Len(a) /\ m - 1 \in 0 .. Len(a) /\ m - 1 \notin T
  BY <1>1, <1>3, <1>4
<1>6. Offsets(a)[m - 1] \in Nat /\ a[m] \in Segments
  BY <1>1, <1>5
<1>7. Length[a[m]] \in Nat
  BY <1>6, TextAssumption
<1>8. Offsets(a)[m] = Offsets(a)[m - 1] + Length[a[m]] + 1
  BY <1>5, OffsetsEquation
<1>9. Offsets(a)[m] \in Nat
  BY <1>6, <1>7, <1>8
<1> QED BY <1>3, <1>9

LEMMA OffsetsGrow ==
    ASSUME NEW a, Pattern(a), NEW i \in 0 .. Len(a), NEW k \in 0 .. Len(a), i <= k
    PROVE  Offsets(a)[i] <= Offsets(a)[k]
<1>1. a \in Seq(Segments) /\ Len(a) \in Nat
  BY DEF Pattern
<1> DEFINE T == {m \in 0 .. Len(a) : i <= m /\ Offsets(a)[i] > Offsets(a)[m]}
<1>2. SUFFICES ASSUME T # {} PROVE FALSE
  BY OffsetsType
<1>3. PICK m \in T : \A j \in T : m <= j
  <2>1. T \subseteq Nat
    BY <1>1
  <2> QED BY <1>2, <2>1, SmallestOf
<1>4. Offsets(a)[i] \in Nat /\ Offsets(a)[m] \in Nat
  BY <1>3, OffsetsType
<1>5. m # i
  BY <1>3, <1>4
<1>6. m \in 1 .. Len(a) /\ m - 1 \in 0 .. Len(a) /\ m - 1 \notin T /\ i <= m - 1
  BY <1>1, <1>3, <1>5
<1>7. Offsets(a)[m - 1] \in Nat /\ a[m] \in Segments
  BY <1>1, <1>6, OffsetsType
<1>8. Length[a[m]] \in Nat
  BY <1>7, TextAssumption
<1>9. Offsets(a)[m] = Offsets(a)[m - 1] + Length[a[m]] + 1
  BY <1>6, OffsetsEquation
<1>10. Offsets(a)[i] <= Offsets(a)[m - 1]
  BY <1>4, <1>6, <1>7
<1>11. Offsets(a)[i] <= Offsets(a)[m]
  BY <1>4, <1>7, <1>8, <1>9, <1>10
<1> QED BY <1>3, <1>4, <1>11

LEMMA OffsetsAgree ==
    ASSUME NEW a, Pattern(a), NEW b, Pattern(b), NEW k \in 0 .. Len(a), k <= Len(b),
           \A i \in 1 .. k : a[i] = b[i]
    PROVE  Offsets(a)[k] = Offsets(b)[k]
<1>1. Len(a) \in Nat /\ Len(b) \in Nat
  BY DEF Pattern
<1> DEFINE T == {m \in 0 .. k : Offsets(a)[m] # Offsets(b)[m]}
<1>2. SUFFICES ASSUME T # {} PROVE FALSE
  BY <1>1
<1>3. PICK m \in T : \A j \in T : m <= j
  <2>1. T \subseteq Nat
    BY <1>1
  <2> QED BY <1>2, <2>1, SmallestOf
<1>4. m # 0
  BY <1>3, OffsetsEquation
<1>5. m \in 1 .. k /\ m \in 1 .. Len(a) /\ m \in 1 .. Len(b) /\ m - 1 \in 0 .. k /\ m - 1 \notin T
  BY <1>1, <1>3, <1>4
<1>6. Offsets(a)[m - 1] = Offsets(b)[m - 1] /\ a[m] = b[m]
  BY <1>5
<1>7. /\ Offsets(a)[m] = Offsets(a)[m - 1] + Length[a[m]] + 1
      /\ Offsets(b)[m] = Offsets(b)[m - 1] + Length[b[m]] + 1
  BY <1>5, OffsetsEquation
<1> QED BY <1>3, <1>6, <1>7

LEMMA PatternLength ==
    ASSUME NEW a, Pattern(a)
    PROVE  /\ Len(a) \in Nat \ {0} /\ \A i \in 1 .. Len(a) : a[i] \in Segments /\ Length[a[i]] \in Nat
           /\ Len(a) \in 1 .. Len(a) /\ Len(a) \in 0 .. Len(a) /\ Len(a) - 1 \in 0 .. Len(a)
           /\ DOMAIN a = 1 .. Len(a)
<1>1. a \in Seq(Segments) /\ a # << >>
  BY DEF Pattern
<1>2. Len(a) \in Nat /\ Len(a) # 0 /\ DOMAIN a = 1 .. Len(a)
  BY <1>1
<1>3. \A i \in 1 .. Len(a) : a[i] \in Segments
  BY <1>1
<1>4. \A i \in 1 .. Len(a) : Length[a[i]] \in Nat
  BY <1>3, TextAssumption
<1> QED BY <1>2, <1>3, <1>4

LEMMA WildcardType ==
    ASSUME NEW a, Pattern(a)
    PROVE  /\ TextLength(a) \in Nat /\ Globs(a) \in {0, 1} /\ TextLength(a) - Globs(a) \in Nat
           /\ Cardinality(Plus(a)) \in Nat
           /\ FirstWildcard(a) \in Nat
           /\ FirstWildcard(a) <= TextLength(a) - Globs(a)
           /\ \A i \in Plus(a) : FirstWildcard(a) <= Offsets(a)[i - 1]
           /\ Plus(a) = {} => FirstWildcard(a) = TextLength(a) - Globs(a)
<1> DEFINE n == Len(a)
           T == {Offsets(a)[i - 1] : i \in Plus(a)} \cup {TextLength(a) - Globs(a)}
<1>1. /\ n \in Nat \ {0} /\ Length[a[n]] \in Nat /\ a[n] \in Segments
      /\ n \in 1 .. n /\ n \in 0 .. n /\ n - 1 \in 0 .. n
  BY PatternLength
<1>2. Offsets(a)[n] = Offsets(a)[n - 1] + Length[a[n]] + 1 /\ Offsets(a)[n - 1] \in Nat
  BY <1>1, OffsetsEquation, OffsetsType
<1>3. Globs(a) \in {0, 1}
  BY DEF Globs
<1>4. Globs(a) = 1 => Length[a[n]] # 0
  BY TextAssumption DEF Globs, IsGlob
<1>5. TextLength(a) = Offsets(a)[n - 1] + Length[a[n]]
  BY <1>1, <1>2 DEF TextLength
<1>6. TextLength(a) \in Nat /\ TextLength(a) - Globs(a) \in Nat
  BY <1>1, <1>2, <1>3, <1>4, <1>5
<1>7. Plus(a) \subseteq 1 .. n
  BY DEF Plus
<1>8. Cardinality(Plus(a)) \in Nat
  <2>1. IsFiniteSet(1 .. n)
    BY <1>1, FS_Interval
  <2> QED BY <1>7, <2>1, FS_Subset, FS_CardinalityType
<1>9. \A i \in Plus(a) : i - 1 \in 0 .. n
  BY <1>1, <1>7
<1>10. \A i \in Plus(a) : Offsets(a)[i - 1] \in Nat
  BY <1>9, OffsetsType
<1>11. T \subseteq Nat /\ T # {}
  BY <1>6, <1>10
<1>12. FirstWildcard(a) = Min(T)
  BY DEF FirstWildcard
<1>13. Min(T) \in T /\ \A k \in T : Min(T) <= k
  BY <1>11, MinOf
<1>14. FirstWildcard(a) \in Nat
  BY <1>11, <1>12, <1>13
<1>15. FirstWildcard(a) <= TextLength(a) - Globs(a)
  BY <1>12, <1>13
<1>16. \A i \in Plus(a) : FirstWildcard(a) <= Offsets(a)[i - 1]
  BY <1>12, <1>13
<1>17. Plus(a) = {} => FirstWildcard(a) = TextLength(a) - Globs(a)
  BY <1>12, <1>13
<1> QED BY <1>3, <1>6, <1>8, <1>14, <1>15, <1>16, <1>17

(* The priority is an order.                                               *)
LEMMA BelowOrder ==
    ASSUME NEW a, Pattern(a), NEW b, Pattern(b), NEW c, Pattern(c)
    PROVE  /\ ~ Below(a, a)
           /\ Below(a, b) => ~ Below(b, a)
           /\ Below(a, b) /\ Below(b, c) => Below(a, c)
<1>1. \A x \in {a, b, c} : /\ TextLength(x) \in Nat /\ Globs(x) \in Nat
                           /\ Cardinality(Plus(x)) \in Nat /\ FirstWildcard(x) \in Nat
  BY WildcardType
<1>2. ~ Below(a, a)
  BY <1>1 DEF Below
<1>3. Below(a, b) => ~ Below(b, a)
  BY <1>1 DEF Below
<1>4. Below(a, b) /\ Below(b, c) => Below(a, c)
  BY <1>1 DEF Below
<1> QED BY <1>2, <1>3, <1>4

-----------------------------------------------------------------------------
(* The rules that the controller adds are exact and therefore decide.      *)

LEMMA LifecyclePlain ==
    ASSUME NEW path \in LifecyclePaths
    PROVE  /\ Pattern(path) /\ Len(path) = 3
           /\ \A i \in 1 .. Len(path) : path[i] # "+" /\ ~ IsGlob(path[i]) /\ Length[path[i]] # 0
           /\ Plus(path) = {} /\ Globs(path) = 0 /\ FirstWildcard(path) = TextLength(path)
           /\ Matches(path, path)
<1>1. Pattern(path)
  BY PathAssumption DEF Plain
<1>2. \A i \in DOMAIN path : path[i] # "+" /\ ~ IsGlob(path[i]) /\ Length[path[i]] # 0
  BY PathAssumption DEF Plain
<1>3. Len(path) = 3
  BY DEF LifecyclePaths, LookupSelf, RenewSelf, RevokeSelf
<1>4. \A i \in 1 .. Len(path) : path[i] # "+" /\ ~ IsGlob(path[i]) /\ Length[path[i]] # 0
  BY <1>1, <1>2, PatternLength
<1>5. Plus(path) = {}
  BY <1>4 DEF Plus
<1>6. ~ IsGlob(path[Len(path)])
  BY <1>3, <1>4
<1>7. Globs(path) = 0
  BY <1>6 DEF Globs
<1>8. FirstWildcard(path) = TextLength(path)
  BY <1>1, <1>5, <1>7, WildcardType
<1>9. Matches(path, path)
  BY <1>6 DEF Matches
<1> QED BY <1>1, <1>3, <1>4, <1>5, <1>7, <1>8, <1>9

(* The first "+" of a pattern comes before the end of what it matches.     *)
LEMMA PlusBelow ==
    ASSUME NEW path \in LifecyclePaths, NEW a, Pattern(a), Matches(a, path), Plus(a) # {}
    PROVE  Below(a, path)
<1> DEFINE n == Len(a)
           m == Len(path)
<1>1. Plus(a) \subseteq 1 .. n /\ Plus(a) \subseteq Nat
  BY DEF Plus
<1>2. PICK i \in Plus(a) : \A j \in Plus(a) : i <= j
  BY <1>1, SmallestOf
<1>3. n \in Nat /\ m \in Nat /\ Pattern(path) /\ i \in 1 .. n /\ n <= m /\ i \in 1 .. m
  <2>1. n \in Nat /\ m \in Nat /\ Pattern(path)
    BY PatternLength, LifecyclePlain
  <2>2. n <= m
    BY <2>1 DEF Matches
  <2> QED BY <1>1, <1>2, <2>1, <2>2
<1>4. \A j \in 1 .. i - 1 : a[j] = path[j]
  <2>1. ASSUME NEW j \in 1 .. i - 1 PROVE a[j] = path[j]
    <3>1. j \in 1 .. n /\ j # n /\ ~ (i <= j)
      BY <1>3
    <3>2. a[j] # "+"
      BY <1>2, <3>1 DEF Plus
    <3>3. a[j] \in {"+", path[j]}
      BY <3>1 DEF Matches
    <3> QED BY <3>2, <3>3
  <2> QED BY <2>1
<1>5. i - 1 \in 0 .. n /\ i - 1 <= m /\ i - 1 \in 0 .. m /\ i \in 0 .. m /\ m \in 0 .. m
  BY <1>3
<1>6. Offsets(a)[i - 1] = Offsets(path)[i - 1]
  <2> DEFINE k == i - 1
  <2>1. k \in 0 .. Len(a) /\ k <= Len(path) /\ Pattern(path) /\ \A j \in 1 .. k : a[j] = path[j]
    BY <1>3, <1>4, <1>5
  <2> HIDE DEF k
  <2>2. Offsets(a)[k] = Offsets(path)[k]
    BY <2>1, OffsetsAgree
  <2> QED BY <2>2 DEF k
<1>7. Offsets(path)[i] = Offsets(path)[i - 1] + Length[path[i]] + 1
  BY <1>3, OffsetsEquation
<1>8. Length[path[i]] \in Nat /\ Length[path[i]] # 0
  BY <1>3, PatternLength, LifecyclePlain
<1>9. Offsets(path)[i] <= Offsets(path)[m]
  <2>1. Pattern(path) /\ i \in 0 .. Len(path) /\ Len(path) \in 0 .. Len(path) /\ i <= Len(path)
    BY <1>3
  <2> QED BY <2>1, OffsetsGrow
<1>10. Offsets(path)[i - 1] \in Nat /\ Offsets(path)[i] \in Nat /\ Offsets(path)[m] \in Nat
  BY <1>3, <1>5, OffsetsType
<1>11. FirstWildcard(path) = Offsets(path)[m] - 1
  BY LifecyclePlain DEF TextLength
<1>12. FirstWildcard(a) <= Offsets(a)[i - 1] /\ FirstWildcard(a) \in Nat
  BY <1>2, WildcardType
<1>13. FirstWildcard(a) < FirstWildcard(path)
  BY <1>6, <1>7, <1>8, <1>9, <1>10, <1>11, <1>12
<1> QED BY <1>13 DEF Below

(* A "*" comes before the end of what it matches, or is less than it.      *)
LEMMA GlobBelow ==
    ASSUME NEW path \in LifecyclePaths, NEW a, Pattern(a), Matches(a, path), Plus(a) = {},
           a # path
    PROVE  Below(a, path)
<1> DEFINE n == Len(a)
           m == Len(path)
<1>1. n \in Nat \ {0} /\ m \in Nat /\ Pattern(path) /\ n \in 1 .. n /\ n - 1 \in 0 .. n /\ n \in 0 .. n
  BY PatternLength, LifecyclePlain
<1>2. \A j \in 1 .. n : a[j] # "+"
  BY DEF Plus
<1>3. \A j \in 1 .. n : j # n => a[j] = path[j]
  BY <1>2 DEF Matches
<1>4. IsGlob(a[n])
  <2>1. SUFFICES ASSUME ~ IsGlob(a[n]) PROVE FALSE
    OBVIOUS
  <2>2. n = m /\ \A j \in 1 .. n : a[j] = path[j]
    BY <1>2, <2>1 DEF Matches
  <2>3. a \in Seq(Segments) /\ path \in Seq(Segments)
    BY <1>1 DEF Pattern
  <2>4. a = path
    BY <2>2, <2>3
  <2> QED BY <2>4
<1>5. n <= m /\ n \in 1 .. m /\ n \in 0 .. m /\ m \in 0 .. m /\ n - 1 <= m /\ n - 1 \in 0 .. m
  <2>1. n <= m
    BY <1>1, <1>4 DEF Matches
  <2> QED BY <1>1, <2>1
<1>6. path[n] \in Begins[a[n]]
  <2>1. a[n] # path[n]
    BY <1>4, <1>5, LifecyclePlain
  <2> QED BY <1>1, <1>2, <2>1 DEF Matches
<1>7. path[n] \in Segments /\ Length[path[n]] \in Nat /\ Length[a[n]] \in Nat
  BY <1>1, <1>5, PatternLength
<1>8. Length[a[n]] - 1 <= Length[path[n]]
  <2>1. a[n] \in DOMAIN Begins /\ path[n] \in Begins[a[n]] \cap Segments
    BY <1>4, <1>6, <1>7 DEF IsGlob
  <2> QED BY <2>1, TextAssumption
<1>9. \A j \in 1 .. n - 1 : a[j] = path[j]
  BY <1>1, <1>3
<1>10. Offsets(a)[n - 1] = Offsets(path)[n - 1]
  <2> DEFINE k == n - 1
  <2>1. k \in 0 .. Len(a) /\ k <= Len(path) /\ Pattern(path) /\ \A j \in 1 .. k : a[j] = path[j]
    BY <1>1, <1>5, <1>9
  <2> HIDE DEF k
  <2>2. Offsets(a)[k] = Offsets(path)[k]
    BY <2>1, OffsetsAgree
  <2> QED BY <2>2 DEF k
<1>11. /\ Offsets(path)[n] = Offsets(path)[n - 1] + Length[path[n]] + 1
       /\ Offsets(a)[n] = Offsets(a)[n - 1] + Length[a[n]] + 1
  BY <1>1, <1>5, OffsetsEquation
<1>12. Offsets(path)[n] <= Offsets(path)[m]
  BY <1>1, <1>5, OffsetsGrow
<1>13. Offsets(path)[n - 1] \in Nat /\ Offsets(path)[n] \in Nat /\ Offsets(path)[m] \in Nat
  BY <1>1, <1>5, OffsetsType
<1>14. FirstWildcard(path) = Offsets(path)[m] - 1 /\ Globs(path) = 0
  BY LifecyclePlain DEF TextLength
<1>15. Globs(a) = 1
  BY <1>4 DEF Globs
<1>16. FirstWildcard(a) = Offsets(a)[n] - 1 - 1
  <2>1. FirstWildcard(a) = TextLength(a) - Globs(a)
    BY WildcardType
  <2> QED BY <1>15, <2>1 DEF TextLength
<1>17. FirstWildcard(a) <= FirstWildcard(path) /\ FirstWildcard(a) \in Nat /\ FirstWildcard(path) \in Nat
  <2>1. FirstWildcard(a) <= FirstWildcard(path)
    <3> DEFINE x == Offsets(path)[n - 1]
               y == Offsets(path)[n]
               z == Offsets(path)[m]
               u == Offsets(a)[n]
               g == Length[a[n]]
               l == Length[path[n]]
    <3>1. x \in Nat /\ y \in Nat /\ z \in Nat /\ g \in Nat /\ l \in Nat
      BY <1>7, <1>13
    <3>2. u = x + g + 1 /\ y = x + l + 1 /\ y <= z /\ g - 1 <= l
      BY <1>8, <1>10, <1>11, <1>12
    <3>3. FirstWildcard(a) = u - 1 - 1 /\ FirstWildcard(path) = z - 1
      BY <1>14, <1>16
    <3> HIDE DEF x, y, z, u, g, l
    <3> QED BY <3>1, <3>2, <3>3
  <2> QED BY <1>1, <2>1, WildcardType
<1> QED BY <1>14, <1>15, <1>17 DEF Below

(* What an exact rule grants: the exact rules outweigh all others.         *)
LEMMA ExactDecides ==
    ASSUME NEW rules, \A r \in rules : Pattern(r.path), NEW path \in LifecyclePaths,
           NEW exact \in rules, exact.path = path
    PROVE  LET capabilities == UNION {r.capabilities : r \in {r \in rules : r.path = path}}
           IN  Granted(rules, path) = IF "deny" \in capabilities THEN {} ELSE capabilities
<1> DEFINE hits == {r \in rules : Matches(r.path, path)}
           best == {r \in hits : \A o \in hits : ~ Below(r.path, o.path)}
           same == {r \in rules : r.path = path}
<1>1. Pattern(path) /\ Matches(path, path)
  BY LifecyclePlain
<1>2. \A r \in hits : Pattern(r.path) /\ Matches(r.path, path)
  OBVIOUS
<1>3. \A r \in hits : r.path # path => Below(r.path, path)
  BY <1>2, PlusBelow, GlobBelow
<1>4. same \subseteq hits /\ exact \in same
  BY <1>1
<1> HIDE DEF hits, same
<1>5. \A r \in same : r.path = path
  BY DEF same
<1>6. ASSUME NEW r \in best PROVE r \in same
  <2>1. r \in hits /\ ~ Below(r.path, exact.path)
    BY <1>4, <1>6
  <2>2. r.path = path
    BY <1>3, <2>1
  <2> QED BY <2>1, <2>2 DEF hits, same
<1>7. ASSUME NEW r \in same PROVE r \in best
  <2>1. ASSUME NEW o \in hits PROVE ~ Below(r.path, o.path)
    <3>1. CASE o.path = path
      BY <1>1, <1>5, <3>1, BelowOrder
    <3>2. CASE o.path # path
      BY <1>1, <1>2, <1>3, <1>5, <3>2, BelowOrder
    <3> QED BY <3>1, <3>2
  <2> QED BY <1>4, <2>1
<1>8. best = same
  BY <1>6, <1>7
<1> QED BY <1>8 DEF Granted, hits, same

LEMMA LifecycleDiffer ==
    /\ LookupSelf # RenewSelf /\ LookupSelf # RevokeSelf /\ RenewSelf # RevokeSelf
    /\ LifecyclePaths = {LookupSelf, RenewSelf, RevokeSelf}
<1>1. LookupSelf[3] = "lookup-self" /\ RenewSelf[3] = "renew-self" /\ RevokeSelf[3] = "revoke-self"
  BY DEF LookupSelf, RenewSelf, RevokeSelf
<1>2. LookupSelf # RenewSelf /\ LookupSelf # RevokeSelf /\ RenewSelf # RevokeSelf
  BY <1>1
<1> QED BY <1>2 DEF LifecyclePaths

(* The rules of the policies of S, published with the renewal c chooses.   *)
WithChoice(S, c) == UNION {WorkloadHCL(p.hcl) \cup LifecycleHCL(c[p]) : p \in S}

LEMMA LifecycleRules ==
    ASSUME NEW b, NEW r
    PROVE  /\ r \in LifecycleHCL(b) =>
                 /\ r.path \in LifecyclePaths
                 /\ r.path = LookupSelf => r.capabilities = {"read"}
                 /\ r.path = RenewSelf => r.capabilities = IF b THEN {"update"} ELSE {}
                 /\ r.path = RevokeSelf => r.capabilities = {"update"}
           /\ \A path \in LifecyclePaths : \E x \in LifecycleHCL(b) : x.path = path
<1>1. ASSUME r \in LifecycleHCL(b)
      PROVE  /\ r.path \in LifecyclePaths
             /\ r.path = LookupSelf => r.capabilities = {"read"}
             /\ r.path = RenewSelf => r.capabilities = IF b THEN {"update"} ELSE {}
             /\ r.path = RevokeSelf => r.capabilities = {"update"}
  <2>1. CASE r = [path |-> LookupSelf, capabilities |-> {"read"}]
    BY <2>1, LifecycleDiffer
  <2>2. CASE r = [path |-> RenewSelf, capabilities |-> IF b THEN {"update"} ELSE {}]
    BY <2>2, LifecycleDiffer
  <2>3. CASE r = [path |-> RevokeSelf, capabilities |-> {"update"}]
    BY <2>3, LifecycleDiffer
  <2> QED BY <1>1, <2>1, <2>2, <2>3 DEF LifecycleHCL
<1>2. ASSUME NEW path \in LifecyclePaths PROVE \E x \in LifecycleHCL(b) : x.path = path
  <2>1. CASE path = LookupSelf
    <3>1. [path |-> LookupSelf, capabilities |-> {"read"}] \in LifecycleHCL(b)
      BY DEF LifecycleHCL
    <3> QED BY <2>1, <3>1
  <2>2. CASE path = RenewSelf
    <3>1. [path |-> RenewSelf, capabilities |-> IF b THEN {"update"} ELSE {}] \in LifecycleHCL(b)
      BY DEF LifecycleHCL
    <3> QED BY <2>2, <3>1
  <2>3. CASE path = RevokeSelf
    <3>1. [path |-> RevokeSelf, capabilities |-> {"update"}] \in LifecycleHCL(b)
      BY DEF LifecycleHCL
    <3> QED BY <2>3, <3>1
  <2> QED BY <2>1, <2>2, <2>3, LifecycleDiffer
<1> QED BY <1>1, <1>2

LEMMA ChoiceDecides ==
    ASSUME NEW S, S \subseteq Documents, S # {}, NEW c
    PROVE  /\ Granted(WithChoice(S, c), LookupSelf) = {"read"}
           /\ Granted(WithChoice(S, c), RevokeSelf) = {"update"}
           /\ ("update" \in Granted(WithChoice(S, c), RenewSelf)) <=> \E p \in S : c[p]
<1> DEFINE rules == WithChoice(S, c)
           exact(path) == {r \in rules : r.path = path}
           capabilities(path) == UNION {r.capabilities : r \in exact(path)}
<1>1. \A r \in rules : Pattern(r.path)
  <2>1. ASSUME NEW p \in S, NEW r \in WorkloadHCL(p.hcl) PROVE Pattern(r.path)
    BY CaseAssumption DEF WorkloadHCL
  <2>2. ASSUME NEW p \in S, NEW r \in LifecycleHCL(c[p]) PROVE Pattern(r.path)
    BY LifecycleRules, LifecyclePlain
  <2> QED BY <2>1, <2>2 DEF WithChoice
<1>2. ASSUME NEW path \in LifecyclePaths, NEW r \in exact(path)
      PROVE  \E p \in S : r \in LifecycleHCL(c[p])
  <2>1. PICK p \in S : r \in WorkloadHCL(p.hcl) \cup LifecycleHCL(c[p])
    BY <1>2 DEF WithChoice
  <2>2. r \notin WorkloadHCL(p.hcl)
    BY <1>2 DEF WorkloadHCL
  <2> QED BY <2>1, <2>2
<1>3. ASSUME NEW p \in S, NEW r \in LifecycleHCL(c[p]) PROVE r \in exact(r.path)
  BY DEF WithChoice
<1>4. \A path \in LifecyclePaths, p \in S : \E r \in LifecycleHCL(c[p]) : r.path = path
  BY LifecycleRules
<1>5. LookupSelf \in LifecyclePaths /\ RenewSelf \in LifecyclePaths /\ RevokeSelf \in LifecyclePaths
  BY DEF LifecyclePaths
<1>6. \A path \in LifecyclePaths :
         Granted(rules, path) = IF "deny" \in capabilities(path) THEN {} ELSE capabilities(path)
  <2>1. ASSUME NEW path \in LifecyclePaths
        PROVE  Granted(rules, path) = IF "deny" \in capabilities(path) THEN {} ELSE capabilities(path)
    <3>1. PICK p \in S : TRUE
      OBVIOUS
    <3>2. PICK r \in LifecycleHCL(c[p]) : r.path = path
      BY <1>4
    <3>3. r \in rules
      BY <1>3, <3>2
    <3> HIDE DEF rules
    <3> QED BY <1>1, <3>2, <3>3, ExactDecides
  <2> QED BY <2>1
<1> HIDE DEF rules, exact
<1>7. capabilities(LookupSelf) = {"read"}
  <2>1. \A r \in exact(LookupSelf) : r.path = LookupSelf /\ r.capabilities = {"read"}
    <3>1. \A r \in exact(LookupSelf) : r.path = LookupSelf
      BY DEF exact
    <3> QED BY <1>2, <1>5, <3>1, LifecycleRules
  <2>2. exact(LookupSelf) # {}
    BY <1>3, <1>4, <1>5
  <2> QED BY <2>1, <2>2
<1>8. capabilities(RevokeSelf) = {"update"}
  <2>1. \A r \in exact(RevokeSelf) : r.path = RevokeSelf /\ r.capabilities = {"update"}
    <3>1. \A r \in exact(RevokeSelf) : r.path = RevokeSelf
      BY DEF exact
    <3> QED BY <1>2, <1>5, <3>1, LifecycleRules
  <2>2. exact(RevokeSelf) # {}
    BY <1>3, <1>4, <1>5
  <2> QED BY <2>1, <2>2
<1>9. \A r \in exact(RenewSelf) : \E p \in S : r.capabilities = IF c[p] THEN {"update"} ELSE {}
  <2>1. \A r \in exact(RenewSelf) : r.path = RenewSelf
    BY DEF exact
  <2> QED BY <1>2, <1>5, <2>1, LifecycleRules
<1>10. "deny" \notin capabilities(RenewSelf)
  <2>1. \A r \in exact(RenewSelf) : "deny" \notin r.capabilities
    BY <1>9
  <2> QED BY <2>1
<1>11. "update" \in capabilities(RenewSelf) <=> \E p \in S : c[p]
  <2>1. ASSUME "update" \in capabilities(RenewSelf) PROVE \E p \in S : c[p]
    BY <1>9, <2>1
  <2>2. ASSUME NEW p \in S, c[p] PROVE "update" \in capabilities(RenewSelf)
    <3>1. PICK r \in LifecycleHCL(c[p]) : r.path = RenewSelf
      BY <1>4, <1>5
    <3>2. r.capabilities = {"update"}
      BY <2>2, <3>1, LifecycleRules
    <3>3. r \in exact(RenewSelf)
      BY <1>3, <3>1
    <3> QED BY <3>2, <3>3
  <2> QED BY <2>1, <2>2
<1> HIDE DEF capabilities
<1>12. Granted(rules, LookupSelf) = {"read"} /\ Granted(rules, RevokeSelf) = {"update"}
  BY <1>5, <1>6, <1>7, <1>8
<1>13. Granted(rules, RenewSelf) = capabilities(RenewSelf)
  BY <1>5, <1>6, <1>10
<1> QED BY <1>11, <1>12, <1>13 DEF rules

LEMMA SourcesAre ==
    ASSUME ComposeInv PROVE Sources \subseteq Documents
<1>1. Sources = Taken(Len(result.sources))
  BY DEF ComposeInv, ComposeUnion
<1> QED BY <1>1, SelectedOnes DEF Taken

LEMMA RenewalAgreesHolds == ComposeInv => RenewalAgrees
<1> SUFFICES ASSUME ComposeInv, outcome = "composed"
             PROVE  LET published == UNION {PublishedHCL(p) : p \in Sources} IN
                    /\ ("update" \in Granted(published, RenewSelf)) = result.renew
                    /\ Granted(published, LookupSelf) = {"read"}
                    /\ Granted(published, RevokeSelf) = {"update"}
  BY DEF RenewalAgrees
<1> DEFINE c == [p \in Sources |-> AgentRenewal(p)]
           published == UNION {PublishedHCL(p) : p \in Sources}
<1>1. Sources \subseteq Documents
  BY SourcesAre
<1>2. Sources # {}
  <2>1. chosen # << >> /\ Sources = Range(chosen)
    BY SelectedOnes DEF ComposeInv, ComposeUnion, ComposeOutcome, Compatible
  <2>2. 1 \in 1 .. Len(chosen)
    <3>1. chosen \in Seq(Documents)
      BY DEF ComposeInv, ComposeShape
    <3> QED BY <2>1, <3>1
  <2> QED BY <2>1, <2>2, SelectedOnes
<1>3. \A p \in Sources : c[p] = AgentRenewal(p)
  OBVIOUS
<1> HIDE DEF c
<1>4. published = WithChoice(Sources, c)
  <2>1. \A p \in Sources : PublishedHCL(p) = WorkloadHCL(p.hcl) \cup LifecycleHCL(c[p])
    BY <1>3 DEF PublishedHCL
  <2> QED BY <2>1 DEF WithChoice
<1> HIDE DEF published
<1>5. /\ Granted(published, LookupSelf) = {"read"}
      /\ Granted(published, RevokeSelf) = {"update"}
      /\ ("update" \in Granted(published, RenewSelf)) <=> \E p \in Sources : c[p]
  BY <1>1, <1>2, <1>4, ChoiceDecides
<1>6. (\E p \in Sources : c[p]) <=> \E p \in Sources : AgentRenewal(p)
  BY <1>3, Zenon
<1>7. result.renew = \E p \in Sources : AgentRenewal(p)
  BY DEF ComposeInv, ComposeUnion
<1>8. ("update" \in Granted(published, RenewSelf)) = result.renew
  <2>1. result.renew \in BOOLEAN
    BY DEF ComposeInv, ComposeShape
  <2>2. ("update" \in Granted(published, RenewSelf)) <=> \E p \in Sources : AgentRenewal(p)
    BY <1>5, <1>6, Zenon
  <2>3. result.renew <=> \E p \in Sources : AgentRenewal(p)
    BY <1>7
  <2>4. ("update" \in Granted(published, RenewSelf)) <=> result.renew
    BY <2>2, <2>3, Zenon
  <2> QED BY <2>1, <2>4
<1> QED BY <1>5, <1>8 DEF published

LEMMA PreviewHolds ==
    ASSUME ComposeInv, Sources # {}
    PROVE  ("update" \in Granted(PreviewHCL(Sources), RenewSelf)) = StoredRenewal(Sources)
<1> DEFINE c == [p \in Sources |-> LegacyRenewal(p.hcl)]
<1>1. Sources \subseteq Documents
  BY SourcesAre
<1>2. \A p \in Sources : c[p] = LegacyRenewal(p.hcl)
  OBVIOUS
<1> HIDE DEF c
<1>3. PreviewHCL(Sources) = WithChoice(Sources, c)
  BY <1>2 DEF PreviewHCL, WithChoice
<1>4. ("update" \in Granted(PreviewHCL(Sources), RenewSelf)) <=> \E p \in Sources : c[p]
  BY <1>1, <1>3, ChoiceDecides
<1>5. (\E p \in Sources : c[p]) <=> StoredRenewal(Sources)
  BY <1>2 DEF StoredRenewal
<1>6. StoredRenewal(Sources) \in BOOLEAN
  BY DEF StoredRenewal
<1> QED BY <1>4, <1>5, <1>6

-----------------------------------------------------------------------------
(* The one pass of legacyRenewal.                                          *)

Nothing == [best |-> None, grant |-> FALSE, deny |-> FALSE]
Weighed(rules, n, f) == f = [k \in 0 .. n |-> IF k = 0 THEN Nothing ELSE Weigh(f[k - 1], rules[k])]

LEMMA WeighedNext ==
    ASSUME NEW rules, NEW n \in Nat, NEW f, Weighed(rules, n, f)
    PROVE  \E g : Weighed(rules, n + 1, g)
<1> DEFINE g == [k \in 0 .. n + 1 |-> IF k = n + 1 THEN Weigh(f[n], rules[n + 1]) ELSE f[k]]
<1>1. /\ \A k \in 0 .. n : f[k] = IF k = 0 THEN Nothing ELSE Weigh(f[k - 1], rules[k])
      /\ \A k \in 0 .. n : g[k] = f[k]
      /\ g[n + 1] = Weigh(f[n], rules[n + 1])
  BY DEF Weighed
<1>2. DOMAIN g = 0 .. n + 1 /\ g = [k \in 0 .. n + 1 |-> g[k]]
  OBVIOUS
<1> HIDE DEF g
<1>3. ASSUME NEW k \in 0 .. n + 1
      PROVE  g[k] = IF k = 0 THEN Nothing ELSE Weigh(g[k - 1], rules[k])
  <2>1. CASE k \in 0 .. n
    <3>1. CASE k = 0
      BY <1>1, <2>1, <3>1
    <3>2. CASE k # 0
      <4>1. k - 1 \in 0 .. n
        BY <2>1, <3>2
      <4>2. g[k] = f[k] /\ g[k - 1] = f[k - 1] /\ f[k] = Weigh(f[k - 1], rules[k])
        BY <1>1, <2>1, <3>2, <4>1
      <4> QED BY <3>2, <4>2
    <3> QED BY <3>1, <3>2
  <2>2. CASE k = n + 1
    <3>1. k # 0 /\ k - 1 = n /\ g[n] = f[n]
      BY <1>1, <2>2
    <3> QED BY <1>1, <2>2, <3>1
  <2> QED BY <2>1, <2>2
<1>4. g = [k \in 0 .. n + 1 |-> IF k = 0 THEN Nothing ELSE Weigh(g[k - 1], rules[k])]
  BY <1>2, <1>3
<1> QED BY <1>4 DEF Weighed

LEMMA WeighedExists ==
    ASSUME NEW rules, NEW n \in Nat PROVE \E f : Weighed(rules, n, f)
<1> DEFINE T == {m \in Nat : ~ \E f : Weighed(rules, m, f)}
<1>1. SUFFICES ASSUME T # {} PROVE FALSE
  OBVIOUS
<1>2. PICK m \in T : \A k \in T : m <= k
  BY <1>1, SmallestOf
<1>3. CASE m = 0
  <2> DEFINE f == [k \in 0 .. 0 |-> Nothing]
  <2>1. f = [k \in 0 .. 0 |-> IF k = 0 THEN Nothing ELSE Weigh(f[k - 1], rules[k])]
    OBVIOUS
  <2>2. \E g : Weighed(rules, 0, g)
    BY <2>1 DEF Weighed
  <2> QED BY <1>2, <1>3, <2>2
<1>4. CASE m # 0
  <2>1. m - 1 \in Nat /\ m - 1 \notin T /\ (m - 1) + 1 = m
    BY <1>2, <1>4
  <2>2. PICK f : Weighed(rules, m - 1, f)
    BY <2>1
  <2>3. \E g : Weighed(rules, m, g)
    BY <2>1, <2>2, WeighedNext
  <2> QED BY <1>2, <2>3
<1> QED BY <1>3, <1>4

LEMMA FoundEquation ==
    ASSUME NEW rules, Len(rules) \in Nat
    PROVE  /\ Found(rules)[0] = Nothing
           /\ \A k \in 1 .. Len(rules) : Found(rules)[k] = Weigh(Found(rules)[k - 1], rules[k])
<1> DEFINE n == Len(rules)
           F(h) == h = [k \in 0 .. n |-> IF k = 0 THEN [best |-> None, grant |-> FALSE, deny |-> FALSE]
                                         ELSE Weigh(h[k - 1], rules[k])]
           o == CHOOSE h : F(h)
<1>1. PICK g : Weighed(rules, n, g)
  BY WeighedExists
<1>2. F(o)
  <2>1. F(g)
    BY <1>1 DEF Weighed, Nothing
  <2> HIDE DEF F
  <2> QED BY <2>1
<1>3. Found(rules) = o
  BY DEF Found
<1> HIDE DEF o
<1>4. \A k \in 0 .. n : o[k] = IF k = 0 THEN Nothing ELSE Weigh(o[k - 1], rules[k])
  BY <1>2 DEF Nothing
<1> QED BY <1>3, <1>4

(* The rules among the first k that match, and what the loop knows of them *)
(* then.                                                                   *)
Hits(rules, k) == {i \in 1 .. k : Matches(rules[i].path, RenewSelf)}

Knows(rules, k, acc) ==
    /\ acc = [best |-> acc.best, grant |-> acc.grant, deny |-> acc.deny]
    /\ Hits(rules, k) = {} => acc.best = None
    /\ Hits(rules, k) # {} => \E i \in Hits(rules, k) : acc.best = rules[i].path
    /\ \A i \in Hits(rules, k) : ~ Below(acc.best, rules[i].path)
    /\ acc.grant \in BOOLEAN
    /\ acc.grant <=> \E i \in Hits(rules, k) : rules[i].path = acc.best /\ "update" \in rules[i].capabilities
    /\ acc.deny \in BOOLEAN
    /\ acc.deny <=> \E i \in Hits(rules, k) : rules[i].path = acc.best /\ "deny" \in rules[i].capabilities

(* A list of rules whose patterns the assumption on priorities is about.   *)
Rules(rules) ==
    /\ Len(rules) \in Nat
    /\ \A i \in 1 .. Len(rules) : /\ Pattern(rules[i].path) /\ rules[i].path # None
                                  /\ rules[i].path \in Paths

LEMMA HitsNext ==
    ASSUME NEW rules, NEW k \in Nat
    PROVE  Hits(rules, k + 1) = Hits(rules, k) \cup
                                  IF Matches(rules[k + 1].path, RenewSelf) THEN {k + 1} ELSE {}
<1>1. 1 .. k + 1 = (1 .. k) \cup {k + 1}
  OBVIOUS
<1> QED BY <1>1 DEF Hits

LEMMA HitsOrdered ==
    ASSUME NEW rules, Rules(rules), NEW n \in 0 .. Len(rules), NEW i \in Hits(rules, n),
           NEW j \in Hits(rules, n), rules[i].path # rules[j].path
    PROVE  /\ Below(rules[i].path, rules[j].path) \/ Below(rules[j].path, rules[i].path)
<1>1. i \in 1 .. Len(rules) /\ j \in 1 .. Len(rules)
  BY DEF Rules, Hits
<1>2. rules[i].path \in {p \in Paths : Matches(p, RenewSelf)}
  BY <1>1 DEF Rules, Hits
<1>3. rules[j].path \in {p \in Paths : Matches(p, RenewSelf)}
  BY <1>1 DEF Rules, Hits
<1> QED BY <1>2, <1>3, PrioritiesDiffer

LEMMA HitsPattern ==
    ASSUME NEW rules, Rules(rules), NEW n \in 0 .. Len(rules), NEW i \in Hits(rules, n)
    PROVE  /\ Pattern(rules[i].path) /\ rules[i].path # None
           /\ Matches(rules[i].path, RenewSelf) /\ i \in 1 .. Len(rules)
  BY DEF Rules, Hits

(* A rule that is passed over.                                             *)
LEMMA PassedOver ==
    ASSUME NEW rules, Rules(rules), NEW k \in Nat, k + 1 <= Len(rules), NEW acc, Knows(rules, k, acc),
           \/ ~ Matches(rules[k + 1].path, RenewSelf)
           \/ acc.best # None /\ Below(rules[k + 1].path, acc.best)
    PROVE  Knows(rules, k + 1, acc)
<1> DEFINE q == rules[k + 1].path
<1>1. CASE ~ Matches(q, RenewSelf)
  <2>1. Hits(rules, k + 1) = Hits(rules, k)
    <3>1. Hits(rules, k + 1) = Hits(rules, k) \cup {}
      BY <1>1, HitsNext
    <3> QED BY <3>1
  <2> QED BY <2>1 DEF Knows
<1>2. CASE Matches(q, RenewSelf)
  <2>1. Hits(rules, k + 1) = Hits(rules, k) \cup {k + 1}
    BY <1>2, HitsNext
  <2>2. acc.best # None /\ Below(q, acc.best)
    BY <1>2
  <2>3. PICK i \in Hits(rules, k) : acc.best = rules[i].path
    BY <2>2 DEF Knows
  <2>4. Pattern(acc.best) /\ Pattern(q)
    <3>1. k \in 0 .. Len(rules) /\ k + 1 \in 1 .. Len(rules)
      BY DEF Rules
    <3> QED BY <2>3, <3>1, HitsPattern DEF Rules
  <2>5. ~ Below(acc.best, q) /\ q # acc.best
    BY <2>2, <2>4, BelowOrder
  <2> HIDE DEF q
  <2>6. rules[k + 1].path = q
    BY DEF q
  <2>7. \A j \in Hits(rules, k + 1) : ~ Below(acc.best, rules[j].path)
    BY <2>1, <2>5, <2>6 DEF Knows
  <2>8. acc.grant <=> \E j \in Hits(rules, k + 1) : rules[j].path = acc.best /\ "update" \in rules[j].capabilities
    BY <2>1, <2>5, <2>6 DEF Knows
  <2>9. acc.deny <=> \E j \in Hits(rules, k + 1) : rules[j].path = acc.best /\ "deny" \in rules[j].capabilities
    BY <2>1, <2>5, <2>6 DEF Knows
  <2>10. Hits(rules, k + 1) # {} /\ i \in Hits(rules, k + 1)
    BY <2>1
  <2> QED BY <2>3, <2>7, <2>8, <2>9, <2>10 DEF Knows
<1> QED BY <1>1, <1>2

(* A rule that is as important as the best before it, or more so.          *)
LEMMA TakenOver ==
    ASSUME NEW rules, Rules(rules), NEW k \in Nat, k + 1 <= Len(rules), NEW acc, Knows(rules, k, acc),
           Matches(rules[k + 1].path, RenewSelf),
           acc.best = None \/ ~ Below(rules[k + 1].path, acc.best)
    PROVE  Knows(rules, k + 1, Weigh(acc, rules[k + 1]))
<1> DEFINE r == rules[k + 1]
           new == Weigh(acc, r)
           H == Hits(rules, k)
<1>1. /\ new.best = r.path
      /\ new.grant = ((r.path = acc.best /\ acc.grant) \/ "update" \in r.capabilities)
      /\ new.deny = ((r.path = acc.best /\ acc.deny) \/ "deny" \in r.capabilities)
      /\ new = [best |-> new.best, grant |-> new.grant, deny |-> new.deny]
  BY DEF Weigh
<1>2. Hits(rules, k + 1) = H \cup {k + 1}
  BY HitsNext
<1>3. k \in 0 .. Len(rules) /\ k + 1 \in 1 .. Len(rules) /\ k + 1 \in 0 .. Len(rules)
  BY DEF Rules
<1>4. Pattern(r.path) /\ r.path # None
  BY <1>3 DEF Rules
<1> HIDE DEF new, H
<1>5. \A j \in H : /\ Pattern(rules[j].path) /\ rules[j].path # None /\ j \in Hits(rules, k + 1)
  BY <1>2, <1>3, HitsPattern DEF H
<1>6. k + 1 \in Hits(rules, k + 1)
  BY <1>2
<1>7. /\ new.grant \in BOOLEAN /\ new.deny \in BOOLEAN
      /\ new.grant <=> (r.path = acc.best /\ acc.grant) \/ "update" \in r.capabilities
      /\ new.deny <=> (r.path = acc.best /\ acc.deny) \/ "deny" \in r.capabilities
  BY <1>1
<1>8. CASE r.path = acc.best
  <2>1. H # {} /\ \A j \in H : ~ Below(acc.best, rules[j].path)
    BY <1>4, <1>8 DEF Knows, H
  <2>2. \A j \in Hits(rules, k + 1) : ~ Below(new.best, rules[j].path)
    BY <1>1, <1>2, <1>4, <1>8, <2>1, BelowOrder
  <2>3. new.grant <=> \E j \in Hits(rules, k + 1) : rules[j].path = new.best /\ "update" \in rules[j].capabilities
    BY <1>1, <1>2, <1>7, <1>8 DEF Knows, H
  <2>4. new.deny <=> \E j \in Hits(rules, k + 1) : rules[j].path = new.best /\ "deny" \in rules[j].capabilities
    BY <1>1, <1>2, <1>7, <1>8 DEF Knows, H
  <2> QED BY <1>1, <1>6, <1>7, <2>2, <2>3, <2>4 DEF Knows, new
<1>9. CASE r.path # acc.best
  <2>1. \A j \in H : ~ Below(r.path, rules[j].path) /\ rules[j].path # r.path
    <3>1. SUFFICES ASSUME NEW j \in H PROVE ~ Below(r.path, rules[j].path) /\ rules[j].path # r.path
      OBVIOUS
    <3>2. PICK i \in H : acc.best = rules[i].path
      BY <3>1 DEF Knows, H
    <3>3. i \in Hits(rules, k + 1) /\ Pattern(acc.best) /\ acc.best # None
      BY <1>5, <3>2
    <3>4. ~ Below(r.path, acc.best)
      BY <3>3
    <3>5. Below(acc.best, r.path)
      BY <1>3, <1>6, <1>9, <3>2, <3>3, <3>4, HitsOrdered
    <3>6. ~ Below(acc.best, rules[j].path)
      BY DEF Knows, H
    <3>7. rules[j].path # r.path
      BY <3>5, <3>6
    <3>8. ~ Below(r.path, rules[j].path)
      BY <1>4, <1>5, <3>3, <3>5, <3>6, BelowOrder
    <3> QED BY <3>7, <3>8
  <2>2. \A j \in Hits(rules, k + 1) : ~ Below(new.best, rules[j].path)
    BY <1>1, <1>2, <1>4, <2>1, BelowOrder
  <2>3. new.grant <=> \E j \in Hits(rules, k + 1) : rules[j].path = new.best /\ "update" \in rules[j].capabilities
    BY <1>1, <1>2, <1>7, <1>9, <2>1
  <2>4. new.deny <=> \E j \in Hits(rules, k + 1) : rules[j].path = new.best /\ "deny" \in rules[j].capabilities
    BY <1>1, <1>2, <1>7, <1>9, <2>1
  <2> QED BY <1>1, <1>6, <1>7, <2>2, <2>3, <2>4 DEF Knows, new
<1> QED BY <1>8, <1>9

(* After every rule the loop knows the best of them.                       *)
LEMMA LoopKnows ==
    ASSUME NEW rules, Rules(rules), NEW n \in 0 .. Len(rules)
    PROVE  Knows(rules, n, Found(rules)[n])
<1> DEFINE T == {m \in 0 .. Len(rules) : ~ Knows(rules, m, Found(rules)[m])}
<1>1. SUFFICES ASSUME T # {} PROVE FALSE
  OBVIOUS
<1>2. Len(rules) \in Nat
  BY DEF Rules
<1>3. PICK m \in T : \A j \in T : m <= j
  <2>1. T \subseteq Nat
    BY <1>2
  <2> QED BY <1>1, <2>1, SmallestOf
<1>4. Knows(rules, 0, Found(rules)[0])
  <2>1. Found(rules)[0] = Nothing
    BY <1>2, FoundEquation
  <2>2. Hits(rules, 0) = {}
    BY DEF Hits
  <2> QED BY <2>1, <2>2 DEF Knows, Nothing
<1>5. m # 0
  BY <1>3, <1>4
<1> DEFINE k == m - 1
           acc == Found(rules)[k]
<1>6. k \in Nat /\ k + 1 = m /\ k \notin T /\ k \in 0 .. Len(rules) /\ m \in 1 .. Len(rules) /\ k + 1 <= Len(rules)
  BY <1>2, <1>3, <1>5
<1>7. Knows(rules, k, acc)
  BY <1>6
<1>8. Found(rules)[m] = Weigh(acc, rules[m])
  BY <1>2, <1>6, FoundEquation
<1>9. ~ Knows(rules, m, Found(rules)[m])
  BY <1>3
<1> HIDE DEF T, k, acc
<1>10. CASE \/ ~ Matches(rules[m].path, RenewSelf)
            \/ acc.best # None /\ Below(rules[m].path, acc.best)
  <2>1. Weigh(acc, rules[m]) = acc
    BY <1>10 DEF Weigh
  <2>2. Knows(rules, m, acc)
    BY <1>6, <1>7, <1>10, PassedOver
  <2> QED BY <1>8, <1>9, <2>1, <2>2
<1>11. CASE /\ Matches(rules[m].path, RenewSelf)
            /\ acc.best = None \/ ~ Below(rules[m].path, acc.best)
  BY <1>6, <1>7, <1>8, <1>9, <1>11, TakenOver
<1> QED BY <1>10, <1>11

(* One pass over the rules finds what OpenBao grants.                      *)
LEMMA LegacyHolds ==
    ASSUME NEW p \in Documents, p.hcl.parses
    PROVE  LegacyRenewal(p.hcl) = ("update" \in Granted(Range(p.hcl.rules), RenewSelf))
<1> DEFINE rules == p.hcl.rules
           n == Len(rules)
           last == Found(rules)[n]
           H == Hits(rules, n)
           hits == {r \in Range(rules) : Matches(r.path, RenewSelf)}
           best == {r \in hits : \A o \in hits : ~ Below(r.path, o.path)}
           capabilities == UNION {r.capabilities : r \in best}
<1>1. rules \in Seq(Range(rules)) /\ \A r \in Range(rules) : Pattern(r.path) /\ r.path # None
  BY CaseAssumption
<1>2. n \in Nat /\ Range(rules) = {rules[i] : i \in 1 .. n} /\ n \in 0 .. n
  BY <1>1 DEF Range
<1>3. \A r \in Range(rules) : r.path \in Paths
  BY DEF Paths
<1> HIDE DEF rules
<1>4. Rules(rules)
  BY <1>1, <1>2, <1>3 DEF Rules
<1>5. Knows(rules, n, last)
  BY <1>2, <1>4, LoopKnows
<1>6. hits = {rules[i] : i \in H}
  BY <1>2 DEF Hits
<1> HIDE DEF n, last, H, hits
<1>7. ASSUME NEW r \in hits PROVE r \in best <=> r.path = last.best
  <2>1. PICK i \in H : r = rules[i]
    BY <1>6, <1>7
  <2>2. PICK j \in H : last.best = rules[j].path
    BY <1>5, <2>1 DEF Knows, H
  <2>3. rules[j] \in hits
    BY <1>6, <2>2
  <2>4. ASSUME r \in best, r.path # last.best PROVE FALSE
    <3>1. ~ Below(r.path, last.best)
      BY <2>2, <2>3, <2>4
    <3>2. ~ Below(last.best, r.path)
      BY <1>5, <2>1 DEF Knows, H
    <3> QED BY <1>2, <1>4, <2>1, <2>2, <2>4, <3>1, <3>2, HitsOrdered DEF H, n
  <2>5. ASSUME r.path = last.best PROVE r \in best
    <3>1. \A i2 \in H : ~ Below(last.best, rules[i2].path)
      BY <1>5 DEF Knows, H
    <3> QED BY <1>6, <1>7, <2>5, <3>1
  <2> QED BY <2>4, <2>5
<1> HIDE DEF best
<1>8. best \subseteq hits
  BY DEF best
<1>9. \A x : x \in capabilities <=> \E i \in H : rules[i].path = last.best /\ x \in rules[i].capabilities
  <2>1. ASSUME NEW x, x \in capabilities
        PROVE  \E i \in H : rules[i].path = last.best /\ x \in rules[i].capabilities
    <3>1. PICK r \in best : x \in r.capabilities
      BY <2>1
    <3>2. PICK i \in H : r = rules[i]
      BY <1>6, <1>8
    <3> QED BY <1>7, <1>8, <3>1, <3>2
  <2>2. ASSUME NEW x, NEW i \in H, rules[i].path = last.best, x \in rules[i].capabilities
        PROVE  x \in capabilities
    <3>1. rules[i] \in hits
      BY <1>6
    <3>2. rules[i] \in best
      BY <1>7, <2>2, <3>1
    <3> QED BY <2>2, <3>2
  <2> QED BY <2>1, <2>2
<1> HIDE DEF capabilities
<1>10. /\ last.grant \in BOOLEAN /\ last.grant <=> "update" \in capabilities
       /\ last.deny \in BOOLEAN /\ last.deny <=> "deny" \in capabilities
  BY <1>5, <1>9 DEF Knows, H
<1>11. Granted(Range(rules), RenewSelf) = IF "deny" \in capabilities THEN {} ELSE capabilities
  BY DEF Granted, capabilities, best, hits
<1>12. LegacyRenewal(p.hcl) = (last.grant /\ ~ last.deny)
  BY DEF LegacyRenewal, last, n, rules
<1>13. "update" \in Granted(Range(rules), RenewSelf) <=> (last.grant /\ ~ last.deny)
  BY <1>10, <1>11
<1> QED BY <1>12, <1>13 DEF rules

-----------------------------------------------------------------------------
(* Mount warnings.                                                         *)

LEMMA PrefixAgrees ==
    ASSUME NEW S, NEW s \in Seq(S), NEW t \in Seq(S)
    PROVE  IsPrefix(s, t) <=> Len(s) <= Len(t) /\ \A i \in 1 .. Len(s) : s[i] = t[i]
<1> DEFINE n == Len(s)
           u == SubSeq(t, 1, n)
           v == SubSeq(s, 1, n)
<1>1. n \in Nat /\ Len(t) \in Nat
  OBVIOUS
<1>2. v = s
  OBVIOUS
<1>3. n <= Len(t) => u \in Seq(S) /\ Len(u) = n /\ \A i \in 1 .. n : u[i] = t[i]
  BY <1>1
<1>4. IsPrefix(s, t) <=> n <= Len(t) /\ v = u
  BY DEF IsPrefix
<1> HIDE DEF u, v
<1>5. n <= Len(t) => (s = u <=> \A i \in 1 .. n : s[i] = t[i])
  BY <1>1, <1>3
<1> QED BY <1>2, <1>4, <1>5

(* A literal beginning of a pattern is a beginning of what it matches.     *)
LEMMA LiteralMatch ==
    ASSUME NEW a, Pattern(a), NEW path, Pattern(path), Matches(a, path),
           NEW k \in 1 .. Len(a), a[k] # "+", ~ IsGlob(a[k])
    PROVE  a[k] = path[k]
  BY DEF Matches

LEMMA NoReach ==
    ASSUME NEW a, Pattern(a), ExpectedPath(a), NEW path \in Outside
    PROVE  ~ Matches(a, path)
<1> SUFFICES ASSUME Matches(a, path) PROVE FALSE
  OBVIOUS
<1>1. Pattern(path) /\ path \notin LifecyclePaths /\ \A mount \in Mounts : ~ IsPrefix(mount, path)
  BY PathAssumption
<1>2. a \in Seq(Segments) /\ path \in Seq(Segments)
  BY <1>1 DEF Pattern
<1>3. CASE a \in LifecyclePaths
  <2>1. \A i \in 1 .. Len(a) : a[i] # "+" /\ ~ IsGlob(a[i])
    BY <1>3, LifecyclePlain
  <2>2. \A i \in 1 .. Len(a) : a[i] = path[i]
    BY <1>1, <2>1, LiteralMatch
  <2>3. Len(a) \in 1 .. Len(a)
    BY PatternLength
  <2>4. Len(a) = Len(path)
    BY <2>1, <2>3 DEF Matches
  <2>5. a = path
    BY <1>2, <2>2, <2>4
  <2> QED BY <1>1, <1>3, <2>5
<1>4. CASE \E mount \in Mounts : IsPrefix(mount, a)
  <2>1. PICK mount \in Mounts : IsPrefix(mount, a)
    BY <1>4
  <2>2. Plain(mount)
    BY PathAssumption
  <2>3. mount \in Seq(Segments) /\ \A i \in 1 .. Len(mount) : mount[i] # "+" /\ ~ IsGlob(mount[i])
    BY <2>2 DEF Plain, Pattern
  <2>4. Len(mount) <= Len(a) /\ \A i \in 1 .. Len(mount) : mount[i] = a[i]
    BY <1>2, <2>1, <2>3, PrefixAgrees
  <2>5. Len(mount) \in Nat /\ Len(a) \in Nat /\ Len(path) \in Nat
    BY <1>2, <2>3
  <2>6. \A i \in 1 .. Len(mount) : mount[i] = path[i]
    <3>1. ASSUME NEW i \in 1 .. Len(mount) PROVE mount[i] = path[i]
      <4>1. i \in 1 .. Len(a) /\ a[i] = mount[i]
        BY <2>4, <2>5
      <4> QED BY <1>1, <2>3, <4>1, LiteralMatch
    <3> QED BY <3>1
  <2>7. Len(a) <= Len(path)
    BY <2>5 DEF Matches
  <2>8. IsPrefix(mount, path)
    BY <1>2, <2>3, <2>4, <2>5, <2>6, <2>7, PrefixAgrees
  <2> QED BY <1>1, <2>8
<1> QED BY <1>3, <1>4 DEF ExpectedPath

LEMMA NoSilentReachHolds == ComposeInv => NoSilentReach
<1> SUFFICES ASSUME ComposeInv, NEW p \in Sources, MountWarnings(p.hcl) = {},
                    NEW r \in Range(p.hcl.rules), NEW path \in Outside
             PROVE  ~ Matches(r.path, path)
  BY DEF NoSilentReach
<1>1. p \in Documents
  BY SourcesAre
<1>2. Pattern(r.path)
  BY <1>1, CaseAssumption
<1>3. p.hcl.parses
  BY DEF MountWarnings
<1>4. ExpectedPath(r.path)
  BY <1>3 DEF MountWarnings
<1> QED BY <1>2, <1>4, NoReach

LEMMA ReadAlikeHolds == ComposeInv => ReadAlike
<1> SUFFICES ASSUME ComposeInv PROVE ReadAlike
  OBVIOUS
<1>1. \A p \in Sources : p.hcl.parses =>
         LegacyRenewal(p.hcl) = ("update" \in Granted(Range(p.hcl.rules), RenewSelf))
  BY SourcesAre, LegacyHolds
<1>2. LegacyAsGranted
  BY <1>1, PreviewHolds DEF LegacyAsGranted
<1> QED BY <1>2, RenewalAgreesHolds, NoSilentReachHolds DEF ReadAlike

(***************************************************************************)
(* Whatever stanzas the operators wrote, a token may renew itself in       *)
(* OpenBao exactly when the agent is told to renew it, one pass over the   *)
(* stanzas finds what OpenBao grants, and a document without a warning     *)
(* reaches no other mount (lifecycle.go, legacy_lifecycle.go,              *)
(* mount_warnings.go).                                                     *)
(***************************************************************************)
THEOREM ReadAlikeAlways == ComposeSpec => []ReadAlike
  BY ComposeInvariant, ReadAlikeHolds, PTL

=============================================================================

------------------------- MODULE WebInterfaceProofs -------------------------
(***************************************************************************)
(* Proofs about WebInterface, for every set of browsers, operators and     *)
(* policies and any number of sessions, sign-ins and submissions.  WebInv, *)
(* inductive, gives SessionsSound and ActsOnWhatWasSeen, which the run     *)
(* web_interface checks.                                                   *)
(*                                                                         *)
(* A form may stay open through any number of saves, renames, deletions    *)
(* and new creations.  The invariant says of every open form how what it   *)
(* shows relates to the store as it is now: the generation it shows is not *)
(* a later one than the name's, and as long as it is the same the revision *)
(* only grew; where generation and revision agree, the content does.       *)
(***************************************************************************)
EXTENDS WebInterface, FiniteSetTheorems, TLAPS

Bindings == [id : Nat, revision : Nat, policies : Selections]

(* The forms, by the fields they have.                                     *)
VersionForms == [kind : {"save", "rename", "delete"}, name : Policies,
                 seen : Versions, csrf : Sessions]
CreateForms == [kind : {"create"}, name : Policies, csrf : Sessions]
BindForms == [kind : {"bind"}, csrf : Sessions]
Shown == UNION {[sel -> Nat] : sel \in Selections}
BindingForms == [kind : {"change", "unbind"}, id : Nat, revision : Nat,
                 shown : Shown, csrf : Sessions]
Forms == VersionForms \cup CreateForms \cup BindForms \cup BindingForms

(* The version a form shows and the row its name has now.                  *)
SeenBefore(seen, row, generation) ==
    /\ seen.generation <= generation
    /\ row # None /\ seen.generation = generation =>
          /\ seen.revision <= row.revision
          /\ seen.revision = row.revision => seen = row

(* What a container with this binding receives.                            *)
Received(bound, rows) == [p \in bound.policies |-> rows[p].write]

(* The binding a form shows and the binding there is now.                  *)
ShownBefore(f, bound, rows) ==
    bound # None /\ f.id = bound.id =>
        /\ f.revision <= bound.revision
        /\ f.revision = bound.revision => f.shown = Received(bound, rows)

FormOK(f, ids, rows, gens, bound, w) ==
    /\ f \in Forms /\ f.csrf \in ids
    /\ f \in VersionForms => SeenBefore(f.seen, rows[f.name], gens[f.name])
    /\ f \in BindingForms => f.id \in 1 .. w /\ ShownBefore(f, bound, rows)

FormsOK ==
    /\ DOMAIN form = Browsers
    /\ \A b \in Browsers : form[b] # None =>
          FormOK(form[b], DOMAIN made, policies, generations, binding, writes)

(* The store.                                                              *)
RowsOK(rows, gens) ==
    /\ rows \in [Policies -> Versions \cup {None}] /\ gens \in [Policies -> Nat]
    /\ \A p \in Policies : rows[p] # None => rows[p].generation = gens[p]
BoundOK(bound, rows, w) ==
    bound # None => /\ bound \in Bindings /\ bound.id \in 1 .. w /\ bound.revision > 0
                    /\ \A p \in bound.policies : rows[p] # None
StoreOK ==
    /\ RowsOK(policies, generations) /\ BoundOK(binding, policies, writes)
    /\ writes \in Nat

(* Sign-ins and sessions.  The number of a sign-in is in one place: the    *)
(* table, one callback or one session.                                     *)
Made(n) == [1 .. n -> [subject : Admitted, from : Nat]]
SignInTypes ==
    /\ started \in 0 .. MaxPreAuths /\ pending \subseteq 1 .. started
    /\ preAuth \in [Browsers -> PreAuths \cup {None}]
    /\ callbacks \in [Callbacks -> PreAuths \cup {None}]
    /\ \E n \in 0 .. MaxSessions : made \in Made(n)
    /\ sessions \subseteq DOMAIN made
    /\ cookie \in [Browsers -> Sessions \cup {None}]
    /\ work \in 0 .. MaxWork
OnePlace ==
    /\ \A s \in DOMAIN made : made[s].from \in (1 .. started) \ pending
    /\ \A c \in Callbacks : callbacks[c] # None =>
          /\ callbacks[c] \in (1 .. started) \ pending
          /\ \A s \in DOMAIN made : made[s].from # callbacks[c]
          /\ \A d \in Callbacks : callbacks[d] = callbacks[c] => d = c
    /\ OneSessionPerSignIn

(* A submission at work has its form.                                      *)
RequestsOK ==
    /\ request \in [Browsers -> Sessions \cup {None}]
    /\ \A b \in Browsers : request[b] # None => form[b] # None /\ form[b].csrf = request[b]

WebInv == SignInTypes /\ OnePlace /\ StoreOK /\ FormsOK /\ RequestsOK

-----------------------------------------------------------------------------
(* Forms and the store.                                                    *)

(* The kind of a form tells its fields.                                    *)
LEMMA FormKinds ==
    ASSUME NEW f \in Forms
    PROVE  /\ f.kind \in {"save", "rename", "delete"} <=> f \in VersionForms
           /\ f.kind = "create" <=> f \in CreateForms
           /\ f.kind = "bind" <=> f \in BindForms
           /\ f.kind \in {"change", "unbind"} <=> f \in BindingForms
           /\ f.kind \in {"save", "rename", "delete", "create", "bind", "change", "unbind"}
           /\ f.csrf \in Sessions
  <1>1. CASE f \in VersionForms
    BY <1>1 DEF VersionForms, CreateForms, BindForms, BindingForms
  <1>2. CASE f \in CreateForms
    BY <1>2 DEF VersionForms, CreateForms, BindForms, BindingForms
  <1>3. CASE f \in BindForms
    BY <1>3 DEF VersionForms, CreateForms, BindForms, BindingForms
  <1>4. CASE f \in BindingForms
    BY <1>4 DEF VersionForms, CreateForms, BindForms, BindingForms
  <1> QED BY <1>1, <1>2, <1>3, <1>4 DEF Forms

(* What a step may do to the row of a policy, whose last generation is g:  *)
(* nothing, drop it, begin the next generation, or count its revision on.  *)
RowStep(row, g, row2, g2) ==
    \/ row2 = row /\ g2 = g
    \/ row2 = None /\ g2 = g
    \/ g2 = g + 1
    \/ g2 = g /\ row # None /\ row2.revision = row.revision + 1

LEMMA SeenStays ==
    ASSUME NEW seen \in Versions, NEW row \in Versions \cup {None}, NEW g \in Nat,
           NEW row2, NEW g2, SeenBefore(seen, row, g), RowStep(row, g, row2, g2)
    PROVE  SeenBefore(seen, row2, g2)
  <1>1. seen.generation \in Nat /\ seen.revision \in Nat
    BY DEF Versions
  <1>2. CASE row2 = row /\ g2 = g
    BY <1>2
  <1>3. CASE row2 = None /\ g2 = g
    BY <1>3 DEF SeenBefore
  <1>4. CASE g2 = g + 1
    BY <1>1, <1>4 DEF SeenBefore
  <1>5. CASE g2 = g /\ row # None /\ row2.revision = row.revision + 1
    <2>1. row.revision \in Nat
      BY <1>5 DEF Versions
    <2> QED BY <1>1, <1>5, <2>1 DEF SeenBefore
  <1> QED BY <1>2, <1>3, <1>4, <1>5 DEF RowStep

(* What a step may do to the binding: nothing, and the container receives  *)
(* the same; drop it, make a new one, or count its revision on.            *)
BoundStep(bound, rows, w, bound2, rows2) ==
    \/ bound2 = bound /\ (bound # None => Received(bound2, rows2) = Received(bound, rows))
    \/ bound2 = None
    \/ bound2.id = w + 1
    \/ bound # None /\ bound2.id = bound.id /\ bound2.revision = bound.revision + 1

LEMMA ShownStays ==
    ASSUME NEW f \in BindingForms, NEW bound \in Bindings \cup {None}, NEW rows, NEW w \in Nat,
           NEW bound2, NEW rows2, f.id \in 1 .. w, ShownBefore(f, bound, rows),
           BoundStep(bound, rows, w, bound2, rows2)
    PROVE  ShownBefore(f, bound2, rows2)
  <1>1. f.id \in Nat /\ f.revision \in Nat
    BY DEF BindingForms
  <1>2. CASE bound2 = bound /\ (bound # None => Received(bound2, rows2) = Received(bound, rows))
    BY <1>2 DEF ShownBefore
  <1>3. CASE bound2 = None
    BY <1>3 DEF ShownBefore
  <1>4. CASE bound2.id = w + 1
    BY <1>1, <1>4 DEF ShownBefore
  <1>5. CASE bound # None /\ bound2.id = bound.id /\ bound2.revision = bound.revision + 1
    <2>1. bound.revision \in Nat
      BY <1>5 DEF Bindings
    <2> QED BY <1>1, <1>5, <2>1 DEF ShownBefore
  <1> QED BY <1>2, <1>3, <1>4, <1>5 DEF BoundStep

(* A step of the store leaves every open form sound.                       *)
StoreStep ==
    /\ \A p \in Policies : RowStep(policies[p], generations[p], policies'[p], generations'[p])
    /\ BoundStep(binding, policies, writes, binding', policies')
    /\ writes' \in Nat /\ writes' >= writes

LEMMA FormStays ==
    ASSUME NEW f, StoreOK, StoreStep, NEW ids, DOMAIN made \subseteq ids,
           FormOK(f, DOMAIN made, policies, generations, binding, writes)
    PROVE  FormOK(f, ids, policies', generations', binding', writes')
  <1>1. f \in Forms /\ f.csrf \in ids
    BY DEF FormOK
  <1>2. ASSUME f \in VersionForms
        PROVE  SeenBefore(f.seen, policies'[f.name], generations'[f.name])
    <2>1. f.name \in Policies /\ f.seen \in Versions
      BY <1>2 DEF VersionForms
    <2>2. policies[f.name] \in Versions \cup {None} /\ generations[f.name] \in Nat
      BY <2>1 DEF StoreOK, RowsOK
    <2>3. RowStep(policies[f.name], generations[f.name], policies'[f.name], generations'[f.name])
      BY <2>1 DEF StoreStep
    <2>4. SeenBefore(f.seen, policies[f.name], generations[f.name])
      BY <1>2 DEF FormOK
    <2> QED BY <2>1, <2>2, <2>3, <2>4, SeenStays
  <1>3. ASSUME f \in BindingForms
        PROVE  f.id \in 1 .. writes' /\ ShownBefore(f, binding', policies')
    <2>1. f.id \in 1 .. writes /\ ShownBefore(f, binding, policies)
      BY <1>3 DEF FormOK
    <2>2. binding \in Bindings \cup {None} /\ writes \in Nat
      BY DEF StoreOK, BoundOK
    <2>3. ShownBefore(f, binding', policies')
      BY <1>3, <2>1, <2>2, ShownStays DEF StoreStep
    <2> QED BY <2>1, <2>2, <2>3 DEF StoreStep
  <1> QED BY <1>1, <1>2, <1>3 DEF FormOK

LEMMA FormsStay ==
    ASSUME StoreOK, FormsOK, StoreStep, DOMAIN made \subseteq DOMAIN made',
           DOMAIN form' = Browsers,
           \A b \in Browsers : form'[b] = form[b] \/ form'[b] = None
    PROVE  FormsOK'
  <1> SUFFICES ASSUME NEW b \in Browsers, form'[b] # None
               PROVE  FormOK(form[b], DOMAIN made', policies', generations', binding', writes')
    BY DEF FormsOK
  <1>1. form[b] # None
    OBVIOUS
  <1>2. FormOK(form[b], DOMAIN made, policies, generations, binding, writes)
    BY <1>1 DEF FormsOK
  <1> QED BY <1>2, FormStays

(* Where the store is left alone.                                          *)
LEMMA StoreIdle ==
    ASSUME StoreOK, UNCHANGED storeVars
    PROVE  StoreOK' /\ StoreStep
  <1>1. StoreOK'
    BY DEF StoreOK, storeVars
  <1>2. \A p \in Policies : RowStep(policies[p], generations[p], policies'[p], generations'[p])
    BY DEF RowStep, storeVars
  <1>3. BoundStep(binding, policies, writes, binding', policies')
    BY DEF BoundStep, storeVars
  <1>4. writes' \in Nat /\ writes' >= writes
    BY DEF StoreOK, storeVars
  <1> QED BY <1>1, <1>2, <1>3, <1>4 DEF StoreStep

(* Sign-ins and sessions where they are left alone.                        *)
LEMMA SignInsIdle ==
    ASSUME SignInTypes, OnePlace, UNCHANGED <<signInVars, sessions, cookie, work>>
    PROVE  SignInTypes' /\ OnePlace' /\ made' = made
  BY DEF SignInTypes, OnePlace, OneSessionPerSignIn, signInVars, Made

(* Sessions are numbered.                                                  *)
LEMMA SessionIds ==
    ASSUME SignInTypes
    PROVE  DOMAIN made \subseteq Sessions
  <1>1. PICK n \in 0 .. MaxSessions : made \in Made(n)
    BY DEF SignInTypes
  <1>2. DOMAIN made = 1 .. n
    BY <1>1 DEF Made
  <1> QED BY <1>1, <1>2, WebInterfaceAssumption DEF Sessions

(* The binding whose selection is set counts its revision on.              *)
LEMMA ReassignedStep ==
    ASSUME binding \in Bindings, NEW sel \in Selections, NEW rows2,
           NEW w2 \in Nat, binding.id \in 1 .. w2, \A p \in sel : rows2[p] # None
    PROVE  /\ Reassigned(sel) \in Bindings
           /\ BoundOK(Reassigned(sel), rows2, w2)
           /\ BoundStep(binding, policies, writes, Reassigned(sel), rows2)
              \/ binding = None
  <1>1. binding.revision \in Nat /\ binding.id \in Nat
    BY DEF Bindings
  <1>2. /\ Reassigned(sel) \in Bindings
        /\ Reassigned(sel).id = binding.id
        /\ Reassigned(sel).policies = sel
        /\ Reassigned(sel).revision = binding.revision + 1
    BY <1>1 DEF Reassigned, Bindings
  <1> QED BY <1>1, <1>2 DEF BoundOK, BoundStep

-----------------------------------------------------------------------------
(* The store after each accepted submission.                               *)

(* A submission at work has a form of the kinds its handler is for.        *)
LEMMA SubmittedForm ==
    ASSUME FormsOK, RequestsOK, NEW b \in Browsers, request[b] # None
    PROVE  /\ form[b] # None
           /\ FormOK(form[b], DOMAIN made, policies, generations, binding, writes)
           /\ form[b] \in Forms
  BY DEF FormsOK, RequestsOK, FormOK

LEMMA SavePolicyStore ==
    ASSUME StoreOK, FormsOK, RequestsOK, NEW b \in Browsers, SavePolicy(b)
    PROVE  StoreOK' /\ StoreStep
  <1> DEFINE p == form[b].name
             old == policies[p]
             generation == IF old = None THEN generations[p] + 1 ELSE generations[p]
             revision == IF old = None THEN 1 ELSE old.revision + 1
             row == [generation |-> generation, revision |-> revision, write |-> writes + 1]
  <1>0. /\ request[b] # None /\ form[b].kind \in {"save", "create"}
        /\ policies' = [policies EXCEPT ![p] = row]
        /\ generations' = [generations EXCEPT ![p] = generation]
        /\ binding' = IF Holds(p) THEN Reassigned(binding.policies) ELSE binding
        /\ writes' = writes + 1
    BY DEF SavePolicy, Submitted
  <1>1. p \in Policies
    <2>1. form[b] \in Forms
      BY <1>0, SubmittedForm
    <2>2. form[b] \in VersionForms \/ form[b] \in CreateForms
      BY <1>0, <2>1, FormKinds
    <2> QED BY <2>2 DEF VersionForms, CreateForms
  <1>2. /\ policies \in [Policies -> Versions \cup {None}] /\ generations \in [Policies -> Nat]
        /\ \A q \in Policies : policies[q] # None => policies[q].generation = generations[q]
        /\ writes \in Nat
    BY DEF StoreOK, RowsOK
  <1>3. old # None => old.revision \in Nat
    BY <1>1, <1>2 DEF Versions
  <1>4. generation \in Nat /\ revision \in Nat
    BY <1>1, <1>2, <1>3
  <1>5. row \in Versions /\ row # None
    BY <1>2, <1>4, WebInterfaceAssumption DEF Versions
  <1> HIDE DEF generation, revision
  <1>6. RowsOK(policies', generations')
    BY <1>0, <1>1, <1>2, <1>4, <1>5 DEF RowsOK
  <1>7. RowStep(old, generations[p], row, generation)
    <2>1. CASE old = None
      BY <2>1 DEF RowStep, generation
    <2>2. CASE old # None
      BY <2>2 DEF RowStep, generation, revision
    <2> QED BY <2>1, <2>2
  <1>8. \A q \in Policies : RowStep(policies[q], generations[q], policies'[q], generations'[q])
    <2> SUFFICES ASSUME NEW q \in Policies
                 PROVE  RowStep(policies[q], generations[q], policies'[q], generations'[q])
      OBVIOUS
    <2>1. CASE q = p
      BY <1>0, <1>1, <1>2, <1>7, <2>1
    <2>2. CASE q # p
      BY <1>0, <1>1, <1>2, <2>2 DEF RowStep
    <2> QED BY <2>1, <2>2
  <1>9. /\ BoundOK(binding', policies', writes')
        /\ BoundStep(binding, policies, writes, binding', policies')
    <2>1. \A q \in Policies : policies[q] # None => policies'[q] # None
      BY <1>0, <1>1, <1>2, <1>5
    <2>2. CASE Holds(p)
      <3>1. binding # None /\ binding \in Bindings /\ binding.id \in 1 .. writes
            /\ \A q \in binding.policies : policies[q] # None
        BY <2>2 DEF Holds, StoreOK, BoundOK
      <3>2. binding.policies \in Selections /\ binding.policies \subseteq Policies
        BY <3>1 DEF Bindings, Selections
      <3>3. writes' \in Nat /\ binding.id \in 1 .. writes'
        BY <1>0, <1>2, <3>1
      <3>4. \A q \in binding.policies : policies'[q] # None
        BY <2>1, <3>1, <3>2
      <3> QED BY <1>0, <2>2, <3>1, <3>2, <3>3, <3>4, ReassignedStep
    <2>3. CASE ~ Holds(p) /\ binding # None
      <3>1. binding \in Bindings /\ binding.id \in 1 .. writes /\ binding.revision > 0
            /\ \A q \in binding.policies : policies[q] # None
        BY <2>3 DEF StoreOK, BoundOK
      <3>2. binding.policies \subseteq Policies /\ p \notin binding.policies
        BY <2>3, <3>1 DEF Holds, Bindings, Selections
      <3>3. Received(binding, policies') = Received(binding, policies)
        BY <1>0, <1>1, <1>2, <3>2 DEF Received
      <3>4. binding.id \in 1 .. writes'
        BY <1>0, <1>2, <3>1
      <3>5. \A q \in binding.policies : policies'[q] # None
        BY <2>1, <3>1, <3>2
      <3> QED BY <1>0, <2>3, <3>1, <3>3, <3>4, <3>5 DEF BoundOK, BoundStep
    <2>4. CASE binding = None
      BY <1>0, <2>4 DEF Holds, BoundOK, BoundStep
    <2> QED BY <2>2, <2>3, <2>4
  <1> QED BY <1>0, <1>2, <1>6, <1>8, <1>9 DEF StoreOK, StoreStep

LEMMA RenamePolicyStore ==
    ASSUME StoreOK, FormsOK, RequestsOK, NEW b \in Browsers, NEW newName \in Policies,
           RenamePolicy(b, newName)
    PROVE  StoreOK' /\ StoreStep
  <1> DEFINE p == form[b].name
             generation == generations[newName] + 1
             row == [generation |-> generation, revision |-> policies[p].revision + 1,
                     write |-> writes + 1]
  <1>0. /\ request[b] # None /\ form[b].kind = "rename"
        /\ policies[p] # None /\ policies[newName] = None
        /\ policies' = [policies EXCEPT ![p] = None, ![newName] = row]
        /\ generations' = [generations EXCEPT ![newName] = generation]
        /\ binding' = IF Holds(p) THEN Reassigned((binding.policies \ {p}) \cup {newName})
                      ELSE binding
        /\ writes' = writes + 1
    BY DEF RenamePolicy, Submitted
  <1>1. p \in Policies /\ p # newName
    <2>1. form[b] \in Forms
      BY <1>0, SubmittedForm
    <2>2. form[b] \in VersionForms
      BY <1>0, <2>1, FormKinds
    <2> QED BY <1>0, <2>2 DEF VersionForms
  <1>2. /\ policies \in [Policies -> Versions \cup {None}] /\ generations \in [Policies -> Nat]
        /\ \A q \in Policies : policies[q] # None => policies[q].generation = generations[q]
        /\ writes \in Nat
    BY DEF StoreOK, RowsOK
  <1>3. policies[p].revision \in Nat
    BY <1>0, <1>1, <1>2 DEF Versions
  <1>4. generation \in Nat
    BY <1>2
  <1>5. row \in Versions /\ row # None /\ row.generation = generation
    BY <1>2, <1>3, <1>4, WebInterfaceAssumption DEF Versions
  <1> HIDE DEF generation, row
  <1>6. /\ policies'[p] = None /\ policies'[newName] = row
        /\ \A q \in Policies \ {p, newName} : policies'[q] = policies[q]
        /\ policies' \in [Policies -> Versions \cup {None}]
    BY <1>0, <1>1, <1>2, <1>5
  <1>7. /\ generations'[newName] = generation
        /\ \A q \in Policies \ {newName} : generations'[q] = generations[q]
        /\ generations' \in [Policies -> Nat]
    BY <1>0, <1>2, <1>4
  <1>8. RowsOK(policies', generations')
    BY <1>1, <1>2, <1>5, <1>6, <1>7 DEF RowsOK
  <1>9. \A q \in Policies : RowStep(policies[q], generations[q], policies'[q], generations'[q])
    <2> SUFFICES ASSUME NEW q \in Policies
                 PROVE  RowStep(policies[q], generations[q], policies'[q], generations'[q])
      OBVIOUS
    <2>1. CASE q = newName
      BY <1>7, <2>1 DEF RowStep, generation
    <2>2. CASE q = p
      BY <1>1, <1>6, <1>7, <2>2 DEF RowStep
    <2>3. CASE q # newName /\ q # p
      BY <1>6, <1>7, <2>3 DEF RowStep
    <2> QED BY <2>1, <2>2, <2>3
  <1>10. /\ BoundOK(binding', policies', writes')
         /\ BoundStep(binding, policies, writes, binding', policies')
    <2>1. \A q \in Policies \ {p} : policies[q] # None => policies'[q] # None
      BY <1>5, <1>6
    <2>2. CASE Holds(p)
      <3> DEFINE sel == (binding.policies \ {p}) \cup {newName}
      <3>1. binding # None /\ binding \in Bindings /\ binding.id \in 1 .. writes
            /\ \A q \in binding.policies : policies[q] # None
        BY <2>2 DEF Holds, StoreOK, BoundOK
      <3>2. sel \in Selections /\ binding.policies \subseteq Policies
        BY <3>1 DEF Bindings, Selections
      <3>3. writes' \in Nat /\ binding.id \in 1 .. writes'
        BY <1>0, <1>2, <3>1
      <3>4. \A q \in sel : policies'[q] # None
        BY <1>5, <1>6, <2>1, <3>1, <3>2
      <3>5. binding' = Reassigned(sel)
        BY <1>0, <2>2
      <3> HIDE DEF sel
      <3> QED BY <3>1, <3>2, <3>3, <3>4, <3>5, ReassignedStep
    <2>3. CASE ~ Holds(p) /\ binding # None
      <3>1. binding \in Bindings /\ binding.id \in 1 .. writes /\ binding.revision > 0
            /\ \A q \in binding.policies : policies[q] # None
        BY <2>3 DEF StoreOK, BoundOK
      <3>2. binding.policies \subseteq Policies \ {p, newName}
        BY <1>0, <2>3, <3>1 DEF Holds, Bindings, Selections
      <3>3. Received(binding, policies') = Received(binding, policies)
        BY <1>6, <3>2 DEF Received
      <3>4. binding.id \in 1 .. writes'
        BY <1>0, <1>2, <3>1
      <3>5. \A q \in binding.policies : policies'[q] # None
        BY <2>1, <3>1, <3>2
      <3> QED BY <1>0, <2>3, <3>1, <3>3, <3>4, <3>5 DEF BoundOK, BoundStep
    <2>4. CASE binding = None
      BY <1>0, <2>4 DEF Holds, BoundOK, BoundStep
    <2> QED BY <2>2, <2>3, <2>4
  <1> QED BY <1>0, <1>2, <1>8, <1>9, <1>10 DEF StoreOK, StoreStep

LEMMA DeletePolicyStore ==
    ASSUME StoreOK, FormsOK, RequestsOK, NEW b \in Browsers, DeletePolicy(b)
    PROVE  StoreOK' /\ StoreStep
  <1> DEFINE p == form[b].name
  <1>0. /\ request[b] # None /\ form[b].kind = "delete"
        /\ ~ Holds(p)
        /\ policies' = [policies EXCEPT ![p] = None]
        /\ generations' = generations /\ binding' = binding /\ writes' = writes + 1
    BY DEF DeletePolicy, Submitted
  <1>1. p \in Policies
    <2>1. form[b] \in Forms
      BY <1>0, SubmittedForm
    <2>2. form[b] \in VersionForms
      BY <1>0, <2>1, FormKinds
    <2> QED BY <2>2 DEF VersionForms
  <1>2. /\ policies \in [Policies -> Versions \cup {None}] /\ generations \in [Policies -> Nat]
        /\ \A q \in Policies : policies[q] # None => policies[q].generation = generations[q]
        /\ writes \in Nat
    BY DEF StoreOK, RowsOK
  <1>3. RowsOK(policies', generations')
    BY <1>0, <1>1, <1>2 DEF RowsOK
  <1>4. \A q \in Policies : RowStep(policies[q], generations[q], policies'[q], generations'[q])
    BY <1>0, <1>1, <1>2 DEF RowStep
  <1>5. /\ BoundOK(binding', policies', writes')
        /\ BoundStep(binding, policies, writes, binding', policies')
    <2>1. CASE binding # None
      <3>1. binding \in Bindings /\ binding.id \in 1 .. writes /\ binding.revision > 0
            /\ \A q \in binding.policies : policies[q] # None
        BY <2>1 DEF StoreOK, BoundOK
      <3>2. binding.policies \subseteq Policies /\ p \notin binding.policies
        BY <1>0, <2>1, <3>1 DEF Holds, Bindings, Selections
      <3>3. Received(binding, policies') = Received(binding, policies)
        BY <1>0, <1>1, <1>2, <3>2 DEF Received
      <3>4. binding.id \in 1 .. writes'
        BY <1>0, <1>2, <3>1
      <3>5. \A q \in binding.policies : policies'[q] # None
        BY <1>0, <1>1, <1>2, <3>1, <3>2
      <3> QED BY <1>0, <2>1, <3>1, <3>3, <3>4, <3>5 DEF BoundOK, BoundStep
    <2>2. CASE binding = None
      BY <1>0, <2>2 DEF BoundOK, BoundStep
    <2> QED BY <2>1, <2>2
  <1> QED BY <1>0, <1>2, <1>3, <1>4, <1>5 DEF StoreOK, StoreStep

(* Where the policies are left alone.                                      *)
LEMMA BindingStore ==
    ASSUME StoreOK, UNCHANGED <<policies, generations>>, writes' = writes + 1,
           BoundOK(binding', policies, writes'),
           BoundStep(binding, policies, writes, binding', policies)
    PROVE  StoreOK' /\ StoreStep
  <1>1. \A q \in Policies : RowStep(policies[q], generations[q], policies'[q], generations'[q])
    BY DEF RowStep
  <1>2. writes \in Nat /\ RowsOK(policies, generations)
    BY DEF StoreOK
  <1> QED BY <1>1, <1>2 DEF StoreOK, StoreStep

LEMMA CreateBindingStore ==
    ASSUME StoreOK, NEW b \in Browsers, NEW selection \in Selections,
           CreateBinding(b, selection)
    PROVE  StoreOK' /\ StoreStep
  <1>1. /\ binding' = [id |-> writes + 1, revision |-> 1, policies |-> selection]
        /\ Composes(selection) /\ UNCHANGED <<policies, generations>> /\ writes' = writes + 1
    BY DEF CreateBinding
  <1>2. writes \in Nat
    BY DEF StoreOK
  <1>3. binding' \in Bindings /\ binding'.id = writes + 1 /\ binding'.revision = 1
        /\ binding'.policies = selection
    BY <1>1, <1>2 DEF Bindings
  <1>4. BoundOK(binding', policies, writes')
    BY <1>1, <1>2, <1>3 DEF BoundOK, Composes
  <1>5. BoundStep(binding, policies, writes, binding', policies)
    BY <1>3 DEF BoundStep
  <1> QED BY <1>1, <1>4, <1>5, BindingStore

LEMMA ChangeBindingStore ==
    ASSUME StoreOK, NEW b \in Browsers, NEW selection \in Selections,
           ChangeBinding(b, selection)
    PROVE  StoreOK' /\ StoreStep
  <1>1. /\ binding # None /\ binding' = Reassigned(selection) /\ Composes(selection)
        /\ UNCHANGED <<policies, generations>> /\ writes' = writes + 1
    BY DEF ChangeBinding
  <1>2. writes \in Nat /\ binding \in Bindings /\ binding.id \in 1 .. writes
    BY <1>1 DEF StoreOK, BoundOK
  <1>3. writes' \in Nat /\ binding.id \in 1 .. writes'
    BY <1>1, <1>2
  <1>4. \A p \in selection : policies[p] # None
    BY <1>1 DEF Composes
  <1>5. BoundOK(binding', policies, writes')
    BY <1>1, <1>2, <1>3, <1>4, ReassignedStep
  <1>6. BoundStep(binding, policies, writes, binding', policies)
    BY <1>1, <1>2, <1>3, <1>4, ReassignedStep
  <1> QED BY <1>1, <1>5, <1>6, BindingStore

LEMMA DeleteBindingStore ==
    ASSUME StoreOK, NEW b \in Browsers, DeleteBinding(b)
    PROVE  StoreOK' /\ StoreStep
  <1>1. binding' = None /\ UNCHANGED <<policies, generations>> /\ writes' = writes + 1
    BY DEF DeleteBinding
  <1>2. BoundOK(binding', policies, writes')
    BY <1>1 DEF BoundOK
  <1>3. BoundStep(binding, policies, writes, binding', policies)
    BY <1>1 DEF BoundStep
  <1> QED BY <1>1, <1>2, <1>3, BindingStore

-----------------------------------------------------------------------------
(* The pages.                                                              *)

(* What is on the screen when the store says it.                           *)
LEMMA SeenNow ==
    ASSUME StoreOK, NEW p \in Policies, policies[p] # None
    PROVE  policies[p] \in Versions /\ SeenBefore(policies[p], policies[p], generations[p])
  <1>1. policies[p] \in Versions /\ policies[p].generation = generations[p]
    BY DEF StoreOK, RowsOK
  <1>2. generations[p] \in Nat /\ policies[p].revision \in Nat
    BY <1>1 DEF StoreOK, RowsOK, Versions
  <1> QED BY <1>1, <1>2 DEF SeenBefore

LEMMA VersionFormOK ==
    ASSUME NEW f \in VersionForms, NEW ids, f.csrf \in ids, NEW rows, NEW gens, NEW bound, NEW w,
           SeenBefore(f.seen, rows[f.name], gens[f.name])
    PROVE  FormOK(f, ids, rows, gens, bound, w)
  <1>1. f \in Forms
    BY DEF Forms
  <1>2. f \notin BindingForms
    BY DEF VersionForms, BindingForms
  <1> QED BY <1>1, <1>2 DEF FormOK

(* Every page is sound when it is rendered.                                *)
LEMMA ScreenOK ==
    ASSUME StoreOK, NEW csrf \in Sessions, NEW ids, csrf \in ids, NEW f \in Screens(csrf)
    PROVE  FormOK(f, ids, policies, generations, binding, writes)
  <1>1. CASE f \in PolicyScreens(csrf) \cup RenameScreens(csrf) \cup DeleteScreens(csrf)
    <2>1. CASE \E p \in Policies : f = [kind |-> "create", name |-> p, csrf |-> csrf]
      <3>1. f \in CreateForms /\ f.csrf = csrf
        BY <2>1 DEF CreateForms
      <3>2. f \in Forms /\ f \notin VersionForms /\ f \notin BindingForms
        BY <3>1 DEF CreateForms, VersionForms, BindingForms, Forms
      <3> QED BY <3>1, <3>2 DEF FormOK
    <2>2. CASE \E p \in Policies, k \in {"save", "rename", "delete"} :
                 policies[p] # None
                 /\ f = [kind |-> k, name |-> p, seen |-> policies[p], csrf |-> csrf]
      <3>1. PICK p \in Policies, k \in {"save", "rename", "delete"} :
              policies[p] # None
              /\ f = [kind |-> k, name |-> p, seen |-> policies[p], csrf |-> csrf]
        BY <2>2
      <3>2. policies[p] \in Versions /\ SeenBefore(policies[p], policies[p], generations[p])
        BY <3>1, SeenNow
      <3>3. f \in VersionForms /\ f.csrf = csrf /\ f.name = p /\ f.seen = policies[p]
        BY <3>1, <3>2 DEF VersionForms
      <3> QED BY <3>2, <3>3, VersionFormOK
    <2> QED BY <1>1, <2>1, <2>2 DEF PolicyScreens, RenameScreens, DeleteScreens, Existing
  <1>2. CASE f \in BindScreens(csrf)
    <2>1. f = [kind |-> "bind", csrf |-> csrf]
      BY <1>2 DEF BindScreens
    <2>2. f \in BindForms /\ f.csrf = csrf
      BY <2>1 DEF BindForms
    <2>3. f \in Forms /\ f \notin VersionForms /\ f \notin BindingForms
      BY <2>2 DEF BindForms, VersionForms, BindingForms, Forms
    <2> QED BY <2>2, <2>3 DEF FormOK
  <1>3. CASE f \in BoundScreens(csrf) \cup UnbindScreens(csrf)
    <2>1. PICK k \in {"change", "unbind"} :
            /\ binding # None
            /\ f = [kind |-> k, id |-> binding.id, revision |-> binding.revision,
                    shown |-> Effective, csrf |-> csrf]
      BY <1>3 DEF BoundScreens, UnbindScreens, OfBinding
    <2>2. /\ binding \in Bindings /\ binding.id \in 1 .. writes
          /\ \A p \in binding.policies : policies[p] # None
      BY <2>1 DEF StoreOK, BoundOK
    <2>3. binding.policies \in Selections /\ binding.revision \in Nat /\ binding.id \in Nat
      BY <2>2 DEF Bindings
    <2>4. \A p \in binding.policies : policies[p].write \in Nat
      <3> SUFFICES ASSUME NEW p \in binding.policies
                   PROVE  policies[p].write \in Nat
        OBVIOUS
      <3>1. p \in Policies /\ policies[p] # None
        BY <2>2, <2>3 DEF Selections
      <3>2. policies[p] \in Versions
        BY <3>1 DEF StoreOK, RowsOK
      <3> QED BY <3>2 DEF Versions
    <2>5. Effective \in [binding.policies -> Nat] /\ Effective = Received(binding, policies)
      BY <2>4 DEF Effective, Received
    <2>6. Effective \in Shown
      BY <2>3, <2>5 DEF Shown
    <2>7. /\ f \in BindingForms /\ f.csrf = csrf /\ f.id = binding.id
          /\ f.revision = binding.revision /\ f.shown = Effective
      BY <2>1, <2>3, <2>6 DEF BindingForms
    <2>8. f \in Forms /\ f \notin VersionForms
      BY <2>7 DEF Forms, BindingForms, VersionForms
    <2>9. ShownBefore(f, binding, policies)
      BY <2>3, <2>5, <2>7 DEF ShownBefore
    <2> QED BY <2>2, <2>7, <2>8, <2>9 DEF FormOK
  <1> QED BY <1>1, <1>2, <1>3 DEF Screens

-----------------------------------------------------------------------------
(* The invariant through the handlers.                                     *)

(* The page that follows shows what the store holds by then.               *)
LEMMA AnsweredKeeps ==
    ASSUME WebInv, NEW b \in Browsers, NEW page, Answered(b, page), StoreOK', StoreStep,
           page # None =>
               FormOK(page, DOMAIN made, policies', generations', binding', writes')
    PROVE  WebInv'
  <1>1. SignInTypes' /\ OnePlace' /\ made' = made
    BY SignInsIdle DEF WebInv, Answered
  <1>2. /\ form' = [form EXCEPT ![b] = page] /\ DOMAIN form = Browsers
        /\ request' = [request EXCEPT ![b] = None]
        /\ request \in [Browsers -> Sessions \cup {None}]
    BY DEF Answered, WebInv, FormsOK, RequestsOK
  <1>3. /\ DOMAIN form' = Browsers /\ form'[b] = page
        /\ \A d \in Browsers \ {b} : form'[d] = form[d]
    BY <1>2
  <1>4. ASSUME NEW d \in Browsers \ {b}, form[d] # None
        PROVE  FormOK(form[d], DOMAIN made, policies', generations', binding', writes')
    <2>1. FormOK(form[d], DOMAIN made, policies, generations, binding, writes)
      BY <1>4 DEF WebInv, FormsOK
    <2> QED BY <2>1, FormStays DEF WebInv
  <1>5. \A d \in Browsers : form'[d] # None =>
           FormOK(form'[d], DOMAIN made, policies', generations', binding', writes')
    BY <1>3, <1>4
  <1>6. FormsOK'
    BY <1>1, <1>3, <1>5 DEF FormsOK
  <1>7. \A d \in Browsers : request'[d] # None => request'[d] = request[d] /\ form'[d] = form[d]
    BY <1>2
  <1>8. request' \in [Browsers -> Sessions \cup {None}]
    BY <1>2
  <1>9. RequestsOK'
    BY <1>7, <1>8 DEF WebInv, RequestsOK
  <1> QED BY <1>1, <1>6, <1>9 DEF WebInv

(* A form that stays on the screen, or goes.                               *)
LEMMA EnteredKeeps ==
    ASSUME WebInv, NEW b \in Browsers, NEW page \in {None, form[b]}, Answered(b, page),
           StoreOK', StoreStep
    PROVE  WebInv'
  <1>1. request[b] # None
    BY DEF Answered
  <1>2. FormOK(form[b], DOMAIN made, policies, generations, binding, writes)
    BY <1>1, SubmittedForm DEF WebInv
  <1>3. FormOK(form[b], DOMAIN made, policies', generations', binding', writes')
    BY <1>2, FormStays DEF WebInv
  <1> QED BY <1>3, AnsweredKeeps

(* The page of the binding just made.                                      *)
LEMMA CreateBindingKeeps ==
    ASSUME WebInv, NEW b \in Browsers, NEW selection \in Selections,
           CreateBinding(b, selection)
    PROVE  WebInv'
  <1> DEFINE saved == [kind |-> "change", id |-> writes + 1, revision |-> 1,
                       shown |-> [p \in selection |-> policies[p].write],
                       csrf |-> form[b].csrf]
  <1>1. /\ binding' = [id |-> writes + 1, revision |-> 1, policies |-> selection]
        /\ Composes(selection) /\ UNCHANGED <<policies, generations>> /\ writes' = writes + 1
        /\ request[b] # None
    BY DEF CreateBinding, Submitted
  <1>2. PICK page \in {None, saved} : Answered(b, page)
    BY DEF CreateBinding
  <1>3. StoreOK' /\ StoreStep
    BY CreateBindingStore DEF WebInv
  <1>4. form[b].csrf \in Sessions /\ form[b].csrf \in DOMAIN made
    BY <1>1, SubmittedForm, FormKinds DEF WebInv, FormOK
  <1>5. writes \in Nat
    BY DEF WebInv, StoreOK
  <1>6. \A p \in selection : policies[p].write \in Nat
    <2> SUFFICES ASSUME NEW p \in selection
                 PROVE  policies[p].write \in Nat
      OBVIOUS
    <2>1. p \in Policies /\ policies[p] # None
      BY <1>1 DEF Composes, Selections
    <2>2. policies[p] \in Versions
      BY <2>1 DEF WebInv, StoreOK, RowsOK
    <2> QED BY <2>2 DEF Versions
  <1>7. [p \in selection |-> policies[p].write] \in Shown
    BY <1>6 DEF Shown
  <1>8. /\ saved \in BindingForms /\ saved.csrf = form[b].csrf /\ saved.id = writes + 1
        /\ saved.revision = 1 /\ saved.shown = [p \in selection |-> policies[p].write]
    BY <1>4, <1>5, <1>7 DEF BindingForms
  <1> HIDE DEF saved
  <1>9. saved \in Forms /\ saved \notin VersionForms
    BY <1>8 DEF Forms, BindingForms, VersionForms
  <1>10. binding'.policies = selection /\ binding'.revision = 1
    BY <1>1
  <1>11. saved.shown = Received(binding', policies')
    BY <1>1, <1>8, <1>10 DEF Received
  <1>12. ShownBefore(saved, binding', policies')
    BY <1>8, <1>10, <1>11 DEF ShownBefore
  <1>13. saved.id \in 1 .. writes'
    BY <1>1, <1>5, <1>8
  <1>14. FormOK(saved, DOMAIN made, policies', generations', binding', writes')
    BY <1>4, <1>8, <1>9, <1>12, <1>13 DEF FormOK
  <1> QED BY <1>2, <1>3, <1>14, AnsweredKeeps

LEMMA HandlersKeep ==
    ASSUME WebInv, NEW b \in Browsers,
           \/ SavePolicy(b) \/ DeletePolicy(b) \/ DeleteBinding(b)
           \/ \E newName \in Policies : RenamePolicy(b, newName)
           \/ \E selection \in Selections :
                CreateBinding(b, selection) \/ ChangeBinding(b, selection)
    PROVE  WebInv'
  <1>1. CASE SavePolicy(b)
    <2>1. StoreOK' /\ StoreStep
      BY <1>1, SavePolicyStore DEF WebInv
    <2> QED BY <1>1, <2>1, EnteredKeeps DEF SavePolicy
  <1>2. CASE DeletePolicy(b)
    <2>1. StoreOK' /\ StoreStep
      BY <1>2, DeletePolicyStore DEF WebInv
    <2> QED BY <1>2, <2>1, EnteredKeeps DEF DeletePolicy
  <1>3. CASE DeleteBinding(b)
    <2>1. StoreOK' /\ StoreStep
      BY <1>3, DeleteBindingStore DEF WebInv
    <2> QED BY <1>3, <2>1, EnteredKeeps DEF DeleteBinding
  <1>4. ASSUME NEW newName \in Policies, RenamePolicy(b, newName)
        PROVE  WebInv'
    <2>1. StoreOK' /\ StoreStep
      BY <1>4, RenamePolicyStore DEF WebInv
    <2> QED BY <1>4, <2>1, EnteredKeeps DEF RenamePolicy
  <1>5. ASSUME NEW selection \in Selections, CreateBinding(b, selection)
        PROVE  WebInv'
    BY <1>5, CreateBindingKeeps
  <1>6. ASSUME NEW selection \in Selections, ChangeBinding(b, selection)
        PROVE  WebInv'
    <2>1. StoreOK' /\ StoreStep
      BY <1>6, ChangeBindingStore DEF WebInv
    <2> QED BY <1>6, <2>1, EnteredKeeps DEF ChangeBinding
  <1> QED BY <1>1, <1>2, <1>3, <1>4, <1>5, <1>6

(* A refused submission is followed by a page that is sound now.           *)
LEMMA RefuseKeeps ==
    ASSUME WebInv, NEW b \in Browsers, Refuse(b)
    PROVE  WebInv'
  <1>1. UNCHANGED storeVars /\ request[b] # None
    BY DEF Refuse
  <1>2. PICK page \in PagesAfterFailure(form[b]) : Answered(b, page)
    BY DEF Refuse
  <1>3. /\ form[b] \in Forms
        /\ FormOK(form[b], DOMAIN made, policies, generations, binding, writes)
    BY <1>1, SubmittedForm DEF WebInv
  <1>4. form[b].csrf \in Sessions /\ form[b].csrf \in DOMAIN made
    BY <1>3, FormKinds DEF FormOK
  <1>5. page = None \/ page = form[b] \/ page \in Screens(form[b].csrf)
    BY <1>2 DEF PagesAfterFailure, Screens
  <1>6. page # None => FormOK(page, DOMAIN made, policies, generations, binding, writes)
    BY <1>3, <1>4, <1>5, ScreenOK DEF WebInv
  <1>7. StoreOK' /\ StoreStep
    BY <1>1, StoreIdle DEF WebInv
  <1>8. page # None => FormOK(page, DOMAIN made, policies', generations', binding', writes')
    BY <1>1, <1>6 DEF storeVars
  <1> QED BY <1>2, <1>7, <1>8, AnsweredKeeps

LEMMA NothingToDoKeeps ==
    ASSUME WebInv, NEW b \in Browsers, NothingToDo(b)
    PROVE  WebInv'
  <1>1. StoreOK' /\ StoreStep
    BY StoreIdle DEF WebInv, NothingToDo
  <1> QED BY <1>1, EnteredKeeps DEF NothingToDo

LEMMA RenderKeeps ==
    ASSUME WebInv, NEW b \in Browsers, Render(b)
    PROVE  WebInv'
  <1>0. /\ UNCHANGED <<signInVars, sessions, cookie, request, storeVars, work>>
        /\ request[b] = None /\ cookie[b] \in sessions
    BY DEF Render
  <1>1. SignInTypes' /\ OnePlace' /\ made' = made
    BY <1>0, SignInsIdle DEF WebInv
  <1>2. StoreOK'
    BY <1>0, StoreIdle DEF WebInv
  <1>3. PICK f \in Screens(cookie[b]) : form' = [form EXCEPT ![b] = f]
    BY DEF Render
  <1>4. cookie[b] \in Sessions /\ cookie[b] \in DOMAIN made
    BY <1>0, SessionIds DEF WebInv, SignInTypes
  <1>5. FormOK(f, DOMAIN made, policies, generations, binding, writes)
    BY <1>4, ScreenOK DEF WebInv
  <1>6. DOMAIN form' = Browsers /\ form'[b] = f
        /\ \A d \in Browsers \ {b} : form'[d] = form[d]
    BY <1>3 DEF WebInv, FormsOK
  <1>7. FormsOK'
    <2>1. \A d \in Browsers : form'[d] # None =>
            FormOK(form'[d], DOMAIN made, policies, generations, binding, writes)
      BY <1>5, <1>6 DEF WebInv, FormsOK
    <2> QED BY <1>0, <1>1, <1>6, <2>1 DEF FormsOK, storeVars
  <1>8. RequestsOK'
    BY <1>0, <1>6 DEF WebInv, RequestsOK
  <1> QED BY <1>1, <1>2, <1>7, <1>8 DEF WebInv

LEMMA AdmitKeeps ==
    ASSUME WebInv, NEW b \in Browsers, Admit(b)
    PROVE  WebInv'
  <1>0. /\ UNCHANGED <<signInVars, sessions, cookie, form, storeVars>>
        /\ work < MaxWork /\ work' = work + 1
        /\ form[b] # None /\ form[b].csrf = cookie[b] /\ cookie[b] \in sessions
        /\ request' = [request EXCEPT ![b] = cookie[b]]
    BY DEF Admit
  <1>1. SignInTypes' /\ made' = made
    <2>1. work' \in 0 .. MaxWork
      BY <1>0, WebInterfaceAssumption DEF WebInv, SignInTypes
    <2> QED BY <1>0, <2>1 DEF WebInv, SignInTypes, signInVars
  <1>2. OnePlace'
    BY <1>0 DEF WebInv, OnePlace, OneSessionPerSignIn, signInVars
  <1>3. StoreOK' /\ StoreStep
    BY <1>0, StoreIdle DEF WebInv
  <1>4. FormsOK'
    BY <1>0, <1>1 DEF WebInv, FormsOK, storeVars
  <1>5. cookie[b] \in Sessions
    BY <1>0, SessionIds DEF WebInv, SignInTypes
  <1>6. RequestsOK'
    BY <1>0, <1>5 DEF WebInv, RequestsOK
  <1> QED BY <1>1, <1>2, <1>3, <1>4, <1>6 DEF WebInv

-----------------------------------------------------------------------------
(* The invariant through sign-in and sign-out.                             *)

(* Where forms, submissions and the store are left alone.                  *)
LEMMA ScreensIdle ==
    ASSUME WebInv, UNCHANGED <<form, request, storeVars>>, DOMAIN made \subseteq DOMAIN made',
           SignInTypes', OnePlace'
    PROVE  WebInv'
  <1>1. StoreOK' /\ StoreStep
    BY StoreIdle DEF WebInv
  <1>2. DOMAIN form' = Browsers /\ \A b \in Browsers : form'[b] = form[b]
    BY DEF WebInv, FormsOK
  <1>3. FormsOK'
    BY <1>1, <1>2, FormsStay DEF WebInv
  <1>4. RequestsOK'
    BY DEF WebInv, RequestsOK
  <1> QED BY <1>1, <1>3, <1>4 DEF WebInv

LEMMA SignInStartKeeps ==
    ASSUME WebInv, NEW b \in Browsers, SignInStart(b)
    PROVE  WebInv'
  <1>0. /\ started < MaxPreAuths /\ work < MaxWork
        /\ started' = started + 1 /\ pending' = pending \cup {started + 1}
        /\ preAuth' = [preAuth EXCEPT ![b] = started + 1]
        /\ work' = work + 1
        /\ UNCHANGED <<callbacks, made, sessions, cookie, form, request, storeVars>>
    BY DEF SignInStart
  <1>1. started \in 0 .. MaxPreAuths /\ pending \subseteq 1 .. started /\ work \in 0 .. MaxWork
    BY DEF WebInv, SignInTypes
  <1>2. /\ started' \in 0 .. MaxPreAuths /\ pending' \subseteq 1 .. started'
        /\ work' \in 0 .. MaxWork /\ started' \in PreAuths
    BY <1>0, <1>1, WebInterfaceAssumption DEF PreAuths
  <1>3. SignInTypes'
    BY <1>0, <1>2 DEF WebInv, SignInTypes
  <1>4. \A n \in (1 .. started) \ pending : n \in (1 .. started') \ pending'
    BY <1>0, <1>1
  <1>5. OnePlace'
    BY <1>0, <1>4 DEF WebInv, OnePlace, OneSessionPerSignIn
  <1> QED BY <1>0, <1>3, <1>5, ScreensIdle

LEMMA ExpireKeeps ==
    ASSUME WebInv, NEW n \in PreAuths, Expire(n)
    PROVE  WebInv'
  <1>0. /\ pending' = pending \ {n}
        /\ UNCHANGED <<started, preAuth, callbacks, made, sessions, cookie, form, request,
                       storeVars, work>>
    BY DEF Expire
  <1>1. SignInTypes'
    BY <1>0 DEF WebInv, SignInTypes
  <1>2. OnePlace'
    BY <1>0 DEF WebInv, OnePlace, OneSessionPerSignIn
  <1> QED BY <1>0, <1>1, <1>2, ScreensIdle

LEMMA CallbackKeeps ==
    ASSUME WebInv, NEW b \in Browsers, NEW i \in {1, 2}, Callback(b, i)
    PROVE  WebInv'
  <1> DEFINE c == <<b, i>>
             n == preAuth[b]
  <1>0. /\ n \in pending /\ callbacks[c] = None
        /\ pending' = pending \ {n} /\ callbacks' = [callbacks EXCEPT ![c] = n]
        /\ UNCHANGED <<started, preAuth, made, sessions, cookie, form, request, storeVars, work>>
    BY DEF Callback
  <1>1. c \in Callbacks
    BY DEF Callbacks
  <1>2. /\ started \in 0 .. MaxPreAuths /\ pending \subseteq 1 .. started
        /\ callbacks \in [Callbacks -> PreAuths \cup {None}]
    BY DEF WebInv, SignInTypes
  <1> HIDE DEF c, n
  <1>3. n \in 1 .. started /\ n \in PreAuths
    <2>1. n \in 1 .. started
      BY <1>0, <1>2
    <2> QED BY <1>2, <2>1, WebInterfaceAssumption DEF PreAuths
  <1>4. callbacks' \in [Callbacks -> PreAuths \cup {None}]
    BY <1>0, <1>1, <1>2, <1>3
  <1>5. SignInTypes'
    BY <1>0, <1>4 DEF WebInv, SignInTypes
  <1>6. callbacks'[c] = n /\ \A d \in Callbacks \ {c} : callbacks'[d] = callbacks[d]
    BY <1>0, <1>1, <1>2
  <1>7. /\ \A s \in DOMAIN made : made[s].from # n
        /\ \A d \in Callbacks \ {c} : callbacks[d] # n \/ callbacks[d] = None
    BY <1>0 DEF WebInv, OnePlace
  <1>8. \A s \in DOMAIN made' : made'[s].from \in (1 .. started') \ pending'
    BY <1>0 DEF WebInv, OnePlace
  <1>9. ASSUME NEW d \in Callbacks, callbacks'[d] # None
        PROVE  /\ callbacks'[d] \in (1 .. started') \ pending'
               /\ \A s \in DOMAIN made' : made'[s].from # callbacks'[d]
               /\ \A e \in Callbacks : callbacks'[e] = callbacks'[d] => e = d
    <2>1. CASE d = c
      BY <1>0, <1>3, <1>6, <1>7, <1>9, <2>1
    <2>2. CASE d # c
      <3>1. callbacks'[d] = callbacks[d]
        BY <1>6, <2>2
      <3>2. /\ callbacks[d] \in (1 .. started) \ pending
            /\ \A s \in DOMAIN made : made[s].from # callbacks[d]
            /\ \A e \in Callbacks : callbacks[e] = callbacks[d] => e = d
        BY <1>9, <3>1 DEF WebInv, OnePlace
      <3>3. callbacks[d] # n
        BY <1>0, <3>2
      <3> QED BY <1>0, <1>6, <3>1, <3>2, <3>3
    <2> QED BY <2>1, <2>2
  <1>10. OneSessionPerSignIn'
    BY <1>0 DEF WebInv, OnePlace, OneSessionPerSignIn
  <1>11. OnePlace'
    BY <1>8, <1>9, <1>10 DEF OnePlace
  <1> QED BY <1>0, <1>5, <1>11, ScreensIdle

(* A callback that has ended, with or without a session.                   *)
LEMMA RefuseSignInKeeps ==
    ASSUME WebInv, NEW b \in Browsers, NEW i \in {1, 2}, RefuseSignIn(b, i)
    PROVE  WebInv'
  <1> DEFINE c == <<b, i>>
  <1>0. /\ callbacks' = [callbacks EXCEPT ![c] = None]
        /\ preAuth' = [preAuth EXCEPT ![b] = None]
        /\ UNCHANGED <<started, pending, made, sessions, cookie, form, request, storeVars, work>>
    BY DEF RefuseSignIn
  <1>1. SignInTypes'
    BY <1>0 DEF WebInv, SignInTypes
  <1>2. \A d \in Callbacks : callbacks'[d] # None => callbacks'[d] = callbacks[d]
    BY <1>0 DEF WebInv, SignInTypes
  <1>3. OnePlace'
    BY <1>0, <1>2 DEF WebInv, OnePlace, OneSessionPerSignIn
  <1> QED BY <1>0, <1>1, <1>3, ScreensIdle

LEMMA CreateSessionKeeps ==
    ASSUME WebInv, NEW b \in Browsers, NEW i \in {1, 2}, NEW subject \in Subjects,
           CreateSession(b, i, subject)
    PROVE  WebInv'
  <1> DEFINE c == <<b, i>>
             id == Cardinality(DOMAIN made) + 1
             entry == [subject |-> subject, from |-> callbacks[c]]
  <1>0. /\ callbacks[c] # None /\ Cardinality(DOMAIN made) < MaxSessions
        /\ subject \in Admitted
        /\ made' = [s \in DOMAIN made \cup {id} |-> IF s = id THEN entry ELSE made[s]]
        /\ sessions' = sessions \cup {id} /\ cookie' = [cookie EXCEPT ![b] = id]
        /\ callbacks' = [callbacks EXCEPT ![c] = None]
        /\ preAuth' = [preAuth EXCEPT ![b] = None]
        /\ UNCHANGED <<started, pending, form, request, storeVars, work>>
    BY DEF CreateSession
  <1>1. PICK n \in 0 .. MaxSessions : made \in Made(n)
    BY DEF WebInv, SignInTypes
  <1>2. DOMAIN made = 1 .. n
    BY <1>1 DEF Made
  <1>3. Cardinality(DOMAIN made) = n
    BY <1>1, <1>2, FS_Interval, WebInterfaceAssumption
  <1>4. id = n + 1 /\ n + 1 \in 0 .. MaxSessions /\ id \in Sessions
    BY <1>0, <1>1, <1>3, WebInterfaceAssumption DEF Sessions
  <1> HIDE DEF id
  <1>5. /\ c \in Callbacks /\ callbacks[c] \in Nat
        /\ callbacks[c] \in (1 .. started) \ pending
        /\ \A s \in DOMAIN made : made[s].from # callbacks[c]
        /\ \A d \in Callbacks : callbacks[d] = callbacks[c] => d = c
    BY <1>0 DEF WebInv, OnePlace, Callbacks
  <1> HIDE DEF c
  <1>6. DOMAIN made' = 1 .. (n + 1) /\ DOMAIN made \cup {id} = 1 .. (n + 1)
    BY <1>0, <1>1, <1>2, <1>4
  <1>7. /\ made'[id] = entry /\ id \in DOMAIN made'
        /\ \A s \in DOMAIN made : made'[s] = made[s]
        /\ \A s \in DOMAIN made' : s = id \/ s \in DOMAIN made
    <2>1. id \notin DOMAIN made
      BY <1>1, <1>2, <1>4
    <2> QED BY <1>0, <2>1
  <1>8. entry \in [subject : Admitted, from : Nat] /\ entry.from = callbacks[c]
    BY <1>0, <1>5
  <1> HIDE DEF entry
  <1>9. made' \in Made(n + 1)
    <2>1. \A s \in DOMAIN made : made[s] \in [subject : Admitted, from : Nat]
      BY <1>1, <1>2 DEF Made
    <2>2. made' = [s \in 1 .. (n + 1) |-> IF s = id THEN entry ELSE made[s]]
      BY <1>0, <1>6
    <2>3. \A s \in 1 .. (n + 1) : (IF s = id THEN entry ELSE made[s])
                                     \in [subject : Admitted, from : Nat]
      BY <1>6, <1>7, <1>8, <2>1
    <2> QED BY <2>2, <2>3 DEF Made
  <1>10. SignInTypes'
    <2>1. sessions' \subseteq DOMAIN made'
      BY <1>0, <1>7 DEF WebInv, SignInTypes
    <2>2. cookie' \in [Browsers -> Sessions \cup {None}]
      BY <1>0, <1>4 DEF WebInv, SignInTypes
    <2>3. /\ preAuth' \in [Browsers -> PreAuths \cup {None}]
          /\ callbacks' \in [Callbacks -> PreAuths \cup {None}]
      BY <1>0 DEF WebInv, SignInTypes
    <2>4. \E m \in 0 .. MaxSessions : made' \in Made(m)
      BY <1>4, <1>9
    <2> QED BY <1>0, <2>1, <2>2, <2>3, <2>4 DEF WebInv, SignInTypes
  <1>11. \A d \in Callbacks : callbacks'[d] # None => d # c /\ callbacks'[d] = callbacks[d]
    BY <1>0, <1>5 DEF WebInv, SignInTypes
  <1>12. \A s \in DOMAIN made' : made'[s].from \in (1 .. started') \ pending'
    BY <1>0, <1>5, <1>7, <1>8 DEF WebInv, OnePlace
  <1>13. ASSUME NEW d \in Callbacks, callbacks'[d] # None
         PROVE  /\ callbacks'[d] \in (1 .. started') \ pending'
                /\ \A s \in DOMAIN made' : made'[s].from # callbacks'[d]
                /\ \A e \in Callbacks : callbacks'[e] = callbacks'[d] => e = d
    <2>1. d # c /\ callbacks'[d] = callbacks[d] /\ callbacks[d] # None
      BY <1>11, <1>13
    <2>2. /\ callbacks[d] \in (1 .. started) \ pending
          /\ \A s \in DOMAIN made : made[s].from # callbacks[d]
          /\ \A e \in Callbacks : callbacks[e] = callbacks[d] => e = d
      BY <2>1 DEF WebInv, OnePlace
    <2>3. entry.from # callbacks[d]
      BY <1>5, <1>8, <2>1
    <2>4. \A s \in DOMAIN made' : made'[s].from # callbacks'[d]
      BY <1>7, <2>1, <2>2, <2>3
    <2>5. \A e \in Callbacks : callbacks'[e] = callbacks'[d] => e = d
      BY <1>11, <2>1, <2>2
    <2> QED BY <1>0, <2>1, <2>2, <2>4, <2>5
  <1>14. OneSessionPerSignIn'
    BY <1>5, <1>7, <1>8 DEF WebInv, OnePlace, OneSessionPerSignIn
  <1>15. OnePlace'
    BY <1>12, <1>13, <1>14 DEF OnePlace
  <1>16. DOMAIN made \subseteq DOMAIN made'
    BY <1>0
  <1> QED BY <1>0, <1>10, <1>15, <1>16, ScreensIdle

LEMMA EndKeeps ==
    ASSUME WebInv,
           \/ \E s \in Sessions : EndSession(s)
           \/ \E b \in Browsers : SignOut(b)
    PROVE  WebInv'
  <1>1. /\ UNCHANGED <<signInVars, form, request, storeVars>> /\ sessions' \subseteq sessions
        /\ work < MaxWork /\ work' = work + 1
        /\ \/ cookie' = cookie
           \/ \E b \in Browsers : cookie' = [cookie EXCEPT ![b] = None]
    BY DEF EndSession, SignOut
  <1>2. cookie' \in [Browsers -> Sessions \cup {None}]
    BY <1>1 DEF WebInv, SignInTypes
  <1>3. work' \in 0 .. MaxWork
    BY <1>1, WebInterfaceAssumption DEF WebInv, SignInTypes
  <1>4. SignInTypes'
    BY <1>1, <1>2, <1>3 DEF WebInv, SignInTypes, signInVars
  <1>5. OnePlace'
    BY <1>1 DEF WebInv, OnePlace, OneSessionPerSignIn, signInVars
  <1> QED BY <1>1, <1>4, <1>5, ScreensIdle DEF signInVars

-----------------------------------------------------------------------------
LEMMA InitWeb ==
    ASSUME Init
    PROVE  WebInv
  <1> DEFINE n == Cardinality(Browsers)
  <1>0. n \in Nat /\ n <= MaxSessions /\ n <= MaxPreAuths
    BY WebInterfaceAssumption, FS_CardinalityType
  <1> HIDE DEF n
  <1>1. /\ started = n /\ pending = {} /\ work = 0
        /\ preAuth = [b \in Browsers |-> None] /\ callbacks = [c \in Callbacks |-> None]
        /\ made \in [1 .. n -> [subject : Admitted, from : 1 .. n]]
        /\ \A s \in DOMAIN made : made[s].from = s
        /\ sessions = DOMAIN made /\ cookie \in [Browsers -> sessions]
    BY DEF Init, n
  <1>2. DOMAIN made = 1 .. n
    BY <1>1
  <1>3. made \in Made(n)
    <2>1. 1 .. n \subseteq Nat
      BY <1>0
    <2>2. \A s \in 1 .. n : made[s] \in [subject : Admitted, from : Nat]
      BY <1>1, <2>1
    <2> QED BY <1>1, <1>2, <2>2 DEF Made
  <1>4. SignInTypes
    <2>1. cookie \in [Browsers -> Sessions \cup {None}]
      BY <1>0, <1>1, <1>2, WebInterfaceAssumption DEF Sessions
    <2>2. started \in 0 .. MaxPreAuths /\ work \in 0 .. MaxWork
      BY <1>0, <1>1, WebInterfaceAssumption
    <2>3. \E m \in 0 .. MaxSessions : made \in Made(m)
      BY <1>0, <1>3, WebInterfaceAssumption
    <2> QED BY <1>1, <2>1, <2>2, <2>3 DEF SignInTypes
  <1>5. OnePlace
    BY <1>1, <1>2 DEF OnePlace, OneSessionPerSignIn
  <1>6. StoreOK
    <2>1. PICK exist \in SUBSET Policies :
            /\ policies = [p \in Policies |-> IF p \in exist
                             THEN [generation |-> 1, revision |-> 1, write |-> 1] ELSE None]
            /\ generations = [p \in Policies |-> IF p \in exist THEN 1 ELSE 0]
            /\ binding \in [id : {1}, revision : {1}, policies : (SUBSET exist) \ {{}}]
                             \cup {None}
      BY DEF Init
    <2>2. writes = 1
      BY DEF Init
    <2>3. /\ [generation |-> 1, revision |-> 1, write |-> 1] \in Versions
          /\ [generation |-> 1, revision |-> 1, write |-> 1].generation = 1
      BY DEF Versions
    <2>4. RowsOK(policies, generations)
      BY <2>1, <2>3 DEF RowsOK
    <2>5. \A p \in exist : policies[p] # None
      BY <2>1, <2>3, WebInterfaceAssumption
    <2>6. BoundOK(binding, policies, writes)
      <3> SUFFICES ASSUME binding # None
                   PROVE  /\ binding \in Bindings /\ binding.id \in 1 .. writes
                          /\ binding.revision > 0
                          /\ \A p \in binding.policies : policies[p] # None
        BY DEF BoundOK
      <3>1. /\ binding \in [id : {1}, revision : {1}, policies : (SUBSET exist) \ {{}}]
        BY <2>1
      <3>2. binding \in Bindings /\ binding.id = 1 /\ binding.revision = 1
            /\ binding.policies \subseteq exist
        BY <3>1 DEF Bindings, Selections
      <3> QED BY <2>2, <2>5, <3>2
    <2> QED BY <2>2, <2>4, <2>6 DEF StoreOK
  <1>7. FormsOK /\ RequestsOK
    BY DEF Init, FormsOK, RequestsOK
  <1> QED BY <1>4, <1>5, <1>6, <1>7 DEF WebInv

LEMMA NextKeeps ==
    ASSUME WebInv, [Next]_vars
    PROVE  WebInv'
  <1>1. ASSUME NEW b \in Browsers, SignInStart(b) PROVE WebInv'
    BY <1>1, SignInStartKeeps
  <1>2. ASSUME NEW b \in Browsers, SignOut(b) PROVE WebInv'
    BY <1>2, EndKeeps
  <1>3. ASSUME NEW b \in Browsers, NEW i \in {1, 2},
               \/ Callback(b, i) \/ RefuseSignIn(b, i)
               \/ \E subject \in Subjects : CreateSession(b, i, subject)
        PROVE  WebInv'
    BY <1>3, CallbackKeeps, RefuseSignInKeeps, CreateSessionKeeps
  <1>4. ASSUME NEW b \in Browsers, Render(b) \/ Admit(b) \/ Refuse(b) \/ NothingToDo(b)
        PROVE  WebInv'
    BY <1>4, RenderKeeps, AdmitKeeps, RefuseKeeps, NothingToDoKeeps
  <1>5. ASSUME NEW b \in Browsers,
               \/ SavePolicy(b) \/ DeletePolicy(b) \/ DeleteBinding(b)
               \/ \E newName \in Policies : RenamePolicy(b, newName)
               \/ \E selection \in Selections :
                    CreateBinding(b, selection) \/ ChangeBinding(b, selection)
        PROVE  WebInv'
    BY <1>5, HandlersKeep
  <1>6. ASSUME NEW n \in PreAuths, Expire(n) PROVE WebInv'
    BY <1>6, ExpireKeeps
  <1>7. ASSUME NEW s \in Sessions, EndSession(s) PROVE WebInv'
    BY <1>7, EndKeeps
  <1>8. CASE UNCHANGED vars
    <2>1. UNCHANGED <<signInVars, sessions, cookie, work, form, request, storeVars>>
      BY <1>8 DEF vars
    <2>2. SignInTypes' /\ OnePlace' /\ made' = made
      BY <2>1, SignInsIdle DEF WebInv
    <2> QED BY <2>1, <2>2, ScreensIdle
  <1> QED BY <1>1, <1>2, <1>3, <1>4, <1>5, <1>6, <1>7, <1>8 DEF Next

(* WebInv holds in every state, whichever handlers, sign-ins and pages     *)
(* come in between.                                                        *)
THEOREM WebInvariant == Spec => []WebInv
  <1>1. Init => WebInv
    BY InitWeb
  <1>2. WebInv /\ [Next]_vars => WebInv'
    BY NextKeeps
  <1> QED BY <1>1, <1>2, PTL DEF Spec

-----------------------------------------------------------------------------
LEMMA WebTypes ==
    ASSUME WebInv
    PROVE  TypeOK
  <1>1. \A s \in DOMAIN made : made[s].subject \in Admitted
    <2>1. PICK n \in 0 .. MaxSessions : made \in Made(n)
      BY DEF WebInv, SignInTypes
    <2> QED BY <2>1 DEF Made
  <1>2. DOMAIN made \subseteq Sessions
    BY SessionIds DEF WebInv
  <1>3. ASSUME NEW b \in Browsers, form[b] # None
        PROVE  /\ form[b].csrf \in DOMAIN made
               /\ form[b].kind \in {"create", "save", "rename", "delete"} => PolicyForm(form[b])
               /\ form[b].kind \in {"change", "unbind"} => BindingForm(form[b])
    <2>1. FormOK(form[b], DOMAIN made, policies, generations, binding, writes)
      BY <1>3 DEF WebInv, FormsOK
    <2>2. form[b] \in Forms /\ form[b].csrf \in DOMAIN made
      BY <2>1 DEF FormOK
    <2>3. CASE form[b].kind \in {"save", "rename", "delete"}
      <3>1. form[b] \in VersionForms
        BY <2>2, <2>3, FormKinds
      <3> QED BY <2>2, <2>3, <3>1 DEF VersionForms, PolicyForm
    <2>4. CASE form[b].kind = "create"
      <3>1. form[b] \in CreateForms
        BY <2>2, <2>4, FormKinds
      <3> QED BY <2>2, <2>4, <3>1 DEF CreateForms, PolicyForm
    <2>5. CASE form[b].kind \in {"change", "unbind"}
      <3>1. form[b] \in BindingForms
        BY <2>2, <2>5, FormKinds
      <3>2. form[b].id \in 1 .. writes /\ form[b].shown \in Shown
        BY <2>1, <3>1 DEF FormOK, BindingForms
      <3>3. DOMAIN form[b].shown \in Selections
        BY <3>2 DEF Shown
      <3> QED BY <2>2, <2>5, <3>2, <3>3 DEF BindingForm
    <2>6. CASE form[b].kind = "bind"
      BY <2>2, <2>6
    <2> QED BY <2>2, <2>3, <2>4, <2>5, <2>6, FormKinds
  <1>4. \A p \in Policies : policies[p] # None =>
           policies[p] \in Versions /\ policies[p].generation = generations[p]
    BY DEF WebInv, StoreOK, RowsOK
  <1>5. binding # None => /\ binding.id \in 1 .. writes /\ binding.revision > 0
                          /\ \A p \in binding.policies : policies[p] # None
    BY DEF WebInv, StoreOK, BoundOK
  <1>6. /\ started \in 0 .. MaxPreAuths /\ pending \subseteq 1 .. started
        /\ preAuth \in [Browsers -> PreAuths \cup {None}]
        /\ callbacks \in [Callbacks -> PreAuths \cup {None}]
        /\ sessions \subseteq DOMAIN made
        /\ cookie \in [Browsers -> Sessions \cup {None}] /\ work \in 0 .. MaxWork
    BY DEF WebInv, SignInTypes
  <1>7. request \in [Browsers -> Sessions \cup {None}]
    BY DEF WebInv, RequestsOK
  <1> QED BY <1>1, <1>2, <1>3, <1>4, <1>5, <1>6, <1>7 DEF TypeOK

(* No session without a sign-in of its own, no submission at work for a    *)
(* form of another session, no binding that selects a policy that is gone, *)
(* whoever signs in, signs out or submits, and when (finish,               *)
(* requireSession, handleDeletePolicy).                                    *)
THEOREM SessionsSoundAlways == Spec => []SessionsSound
  <1>1. WebInv => SessionsSound
    BY WebTypes DEF SessionsSound, WebInv, OnePlace, RequestsOK, ActsInItsSession
  <1> QED BY <1>1, WebInvariant, PTL

(* Only the handlers of its browser take a submission out of work.         *)
LEMMA HandledBy ==
    ASSUME WebInv, Next, NEW b \in Browsers, Handled(b)
    PROVE  \/ UNCHANGED storeVars
           \/ SavePolicy(b) \/ DeletePolicy(b) \/ DeleteBinding(b)
           \/ \E newName \in Policies : RenamePolicy(b, newName)
           \/ \E selection \in Selections :
                CreateBinding(b, selection) \/ ChangeBinding(b, selection)
  <1>1. ASSUME NEW d \in Browsers, NEW page, Answered(d, page) PROVE d = b
    <2>1. request' = [request EXCEPT ![d] = None]
      BY <1>1 DEF Answered
    <2> QED BY <2>1 DEF WebInv, RequestsOK, Handled
  <1>2. ASSUME NEW d \in Browsers,
               \/ SavePolicy(d) \/ DeletePolicy(d) \/ DeleteBinding(d)
               \/ \E newName \in Policies : RenamePolicy(d, newName)
               \/ \E selection \in Selections :
                    CreateBinding(d, selection) \/ ChangeBinding(d, selection)
        PROVE  d = b
    <2>1. \E page : Answered(d, page)
      BY <1>2 DEF SavePolicy, DeletePolicy, DeleteBinding, RenamePolicy, CreateBinding,
                  ChangeBinding
    <2> QED BY <1>1, <2>1
  <1>3. ASSUME NEW d \in Browsers, NEW i \in {1, 2},
               \/ Callback(d, i) \/ RefuseSignIn(d, i)
               \/ \E subject \in Subjects : CreateSession(d, i, subject)
        PROVE  UNCHANGED storeVars
    BY <1>3 DEF Callback, RefuseSignIn, CreateSession
  <1>4. ASSUME NEW d \in Browsers,
               \/ SignInStart(d) \/ SignOut(d) \/ Render(d) \/ Admit(d) \/ Refuse(d)
               \/ NothingToDo(d)
        PROVE  UNCHANGED storeVars
    BY <1>4 DEF SignInStart, SignOut, Render, Admit, Refuse, NothingToDo
  <1>5. ASSUME NEW n \in PreAuths, Expire(n) PROVE UNCHANGED storeVars
    BY <1>5 DEF Expire
  <1>6. ASSUME NEW s \in Sessions, EndSession(s) PROVE UNCHANGED storeVars
    BY <1>6 DEF EndSession
  <1> QED BY <1>2, <1>3, <1>4, <1>5, <1>6 DEF Next

LEMMA HandledAsSeen ==
    ASSUME WebInv, Next, NEW b \in Browsers, Handled(b)
    PROVE  /\ form[b].kind = "change" /\ binding' # binding => form[b].shown = Effective
           /\ form[b].kind = "rename" /\ policies' # policies =>
                 form[b].seen = policies[form[b].name]
  <1>1. CASE UNCHANGED storeVars
    BY <1>1 DEF storeVars
  <1>2. CASE SavePolicy(b)
    BY <1>2 DEF SavePolicy, Submitted
  <1>3. CASE DeletePolicy(b)
    BY <1>3 DEF DeletePolicy, Submitted
  <1>4. CASE DeleteBinding(b)
    BY <1>4 DEF DeleteBinding, Submitted
  <1>5. ASSUME NEW newName \in Policies, RenamePolicy(b, newName)
        PROVE  /\ form[b].kind = "rename"
               /\ form[b].seen = policies[form[b].name]
    <2>1. /\ request[b] # None /\ form[b].kind = "rename" /\ policies[form[b].name] # None
          /\ SameVersion(form[b].seen, policies[form[b].name])
      BY <1>5 DEF RenamePolicy, Submitted
    <2>2. /\ form[b] \in Forms
          /\ FormOK(form[b], DOMAIN made, policies, generations, binding, writes)
      BY <2>1, SubmittedForm DEF WebInv
    <2>3. form[b] \in VersionForms
      BY <2>1, <2>2, FormKinds
    <2>4. form[b].name \in Policies
      BY <2>3 DEF VersionForms
    <2>5. policies[form[b].name].generation = generations[form[b].name]
      BY <2>1, <2>4 DEF WebInv, StoreOK, RowsOK
    <2>6. SeenBefore(form[b].seen, policies[form[b].name], generations[form[b].name])
      BY <2>2, <2>3 DEF FormOK
    <2> QED BY <2>1, <2>5, <2>6 DEF SeenBefore, SameVersion
  <1>6. ASSUME NEW selection \in Selections, CreateBinding(b, selection)
        PROVE  form[b].kind = "bind"
    BY <1>6 DEF CreateBinding, Submitted
  <1>7. ASSUME NEW selection \in Selections, ChangeBinding(b, selection)
        PROVE  form[b].kind = "change" /\ form[b].shown = Effective
    <2>1. /\ request[b] # None /\ form[b].kind = "change"
          /\ binding # None /\ binding.id = form[b].id /\ binding.revision = form[b].revision
      BY <1>7 DEF ChangeBinding, Submitted
    <2>2. /\ form[b] \in Forms
          /\ FormOK(form[b], DOMAIN made, policies, generations, binding, writes)
      BY <2>1, SubmittedForm DEF WebInv
    <2>3. form[b] \in BindingForms
      BY <2>1, <2>2, FormKinds
    <2>4. ShownBefore(form[b], binding, policies)
      BY <2>2, <2>3 DEF FormOK
    <2> QED BY <2>1, <2>4 DEF ShownBefore, Received, Effective
  <1> QED BY <1>1, <1>2, <1>3, <1>4, <1>5, <1>6, <1>7, HandledBy

(* A change of a binding and a rename act on exactly what their page       *)
(* showed: a changed binding still had the same policies, each in the same *)
(* version, and a renamed policy is the very policy seen (changeBinding,   *)
(* renamePolicy).                                                          *)
THEOREM ActsOnWhatWasSeenAlways == Spec => ActsOnWhatWasSeen
  <1> DEFINE Acts == \A b \in Browsers : Handled(b) =>
                /\ form[b].kind = "change" /\ binding' # binding => form[b].shown = Effective
                /\ form[b].kind = "rename" /\ policies' # policies =>
                      form[b].seen = policies[form[b].name]
  <1>1. WebInv /\ [Next]_vars => [Acts]_vars
    BY HandledAsSeen
  <1> HIDE DEF Acts
  <1>2. Spec => [][Acts]_vars
    BY <1>1, WebInvariant, PTL DEF Spec
  <1> QED BY <1>2 DEF ActsOnWhatWasSeen, Acts
=============================================================================

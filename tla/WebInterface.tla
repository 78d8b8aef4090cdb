---------------------------- MODULE WebInterface ----------------------------
(***************************************************************************)
(* The web interface: sign-in through the identity provider, web sessions, *)
(* and the forms with which operators change policies and bindings         *)
(* (internal/web).  A form is rendered from the store as it was at that    *)
(* moment; it is submitted later, perhaps in another session of the same   *)
(* browser, when other operators may have saved, renamed, deleted or       *)
(* re-created what it shows.  A submission is admitted by requireSession   *)
(* and then handled; a session may end in between.                         *)
(*                                                                         *)
(* Each controller operation runs under mutationMu and is one step here;   *)
(* what it does inside OpenBao is the subject of PolicyPublication.  A     *)
(* policy is its generation and its revision.  There is one container, so  *)
(* at most one binding.                                                    *)
(***************************************************************************)
EXTENDS Naturals, FiniteSets

CONSTANTS
    Browsers,      \* browsers, each with its cookies and one open form
    Subjects,      \* operators the identity provider knows
    Admitted,      \* the subjects whose groups are allowed
    Policies,      \* policy names
    MaxSessions,   \* bound: sessions ever created
    MaxPreAuths,   \* bound: sign-ins ever started
    PreAuthLimit,  \* maximumPreAuth
    MaxWork,       \* bound: submissions, sign-ins and ended sessions
    None

\* A version of a policy; the write is history.
Versions == [generation : Nat, revision : Nat, write : Nat]

\* The bounds leave room for the sign-ins and sessions of Init.
ASSUME WebInterfaceAssumption ==
    /\ Admitted \subseteq Subjects
    /\ MaxSessions \in Nat /\ MaxPreAuths \in Nat /\ MaxWork \in Nat
    /\ PreAuthLimit \in Nat \ {0}
    /\ IsFiniteSet(Browsers)
    /\ Cardinality(Browsers) <= MaxSessions /\ Cardinality(Browsers) <= MaxPreAuths
    /\ None \notin Versions

VARIABLES
    started,     \* how many sign-ins were started; their ids are 1 .. started
    pending,     \* provider.pending: the sign-ins waiting for their callback
    preAuth,     \* cookie wyrwood_signin of each browser
    callbacks,   \* callbacks at the token exchange, with their sign-in
    sessions,    \* table web_sessions: the sessions that have not ended
    made,        \* history: the subject and the sign-in of each session
    cookie,      \* cookie wyrwood_session of each browser
    form,        \* the form each browser shows
    request,     \* the session that admitted each browser's submission
    policies,    \* table policies: generation, revision and (history) write
    generations, \* the last generation each name was given
    binding,     \* the container's binding, None when it has none
    writes,      \* how many store writes were made; numbers ids and versions
    work         \* how many submissions, sign-ins and ended sessions there were

signInVars == <<started, pending, preAuth, callbacks, made>>
storeVars == <<policies, generations, binding, writes>>
vars == <<signInVars, sessions, cookie, form, request, storeVars, work>>

PreAuths == 1 .. MaxPreAuths
Sessions == 1 .. MaxSessions
\* Two callbacks of one browser can be in progress, after a reload.
Callbacks == Browsers \X {1, 2}
Selections == (SUBSET Policies) \ {{}}

\* A form carries what it is for, the version its page showed, and the
\* anti-forgery token of the session it was rendered in (csrf).  The writes
\* that the shown content came from (write, shown) are history.
PolicyForm(f) == f.name \in Policies /\ (f.kind # "create" => f.seen \in Versions)
BindingForm(f) == f.id \in 1 .. writes /\ DOMAIN f.shown \in Selections

TypeOK ==
    /\ started \in 0 .. MaxPreAuths
    /\ pending \subseteq 1 .. started
    /\ preAuth \in [Browsers -> PreAuths \cup {None}]
    /\ callbacks \in [Callbacks -> PreAuths \cup {None}]
    /\ \A s \in DOMAIN made : made[s].subject \in Admitted
    /\ sessions \subseteq DOMAIN made /\ DOMAIN made \subseteq Sessions
    /\ cookie \in [Browsers -> Sessions \cup {None}]
    /\ \A b \in Browsers : form[b] # None =>
          /\ form[b].csrf \in DOMAIN made
          /\ form[b].kind \in {"create", "save", "rename", "delete"} => PolicyForm(form[b])
          /\ form[b].kind \in {"change", "unbind"} => BindingForm(form[b])
    /\ request \in [Browsers -> Sessions \cup {None}]
    /\ \A p \in Policies : policies[p] # None =>
          /\ policies[p] \in Versions
          /\ policies[p].generation = generations[p]
    \* Every policy of a binding exists.
    /\ binding # None =>
          /\ binding.id \in 1 .. writes /\ binding.revision > 0
          /\ \A p \in binding.policies : policies[p] # None
    /\ work \in 0 .. MaxWork

-----------------------------------------------------------------------------
(* Sign-in: auth.go.                                                       *)

\* start: expired sign-ins are dropped (Expire), a full table refuses.
SignInStart(b) ==
    /\ started < MaxPreAuths /\ work < MaxWork
    /\ Cardinality(pending) < PreAuthLimit
    /\ started' = started + 1
    /\ pending' = pending \cup {started + 1}
    /\ preAuth' = [preAuth EXCEPT ![b] = started + 1]
    /\ work' = work + 1
    /\ UNCHANGED <<callbacks, made, sessions, cookie, form, request, storeVars>>

Expire(n) ==
    /\ n \in pending
    /\ pending' = pending \ {n}
    /\ UNCHANGED <<started, preAuth, callbacks, made, sessions, cookie, form, request,
                   storeVars, work>>

\* Mutant: the sign-in is dropped only when its exchange has succeeded.
FaultyCallback(b, i) ==
    /\ preAuth[b] \in pending /\ callbacks[<<b, i>>] = None
    /\ callbacks' = [callbacks EXCEPT ![<<b, i>>] = preAuth[b]]
    /\ UNCHANGED <<started, pending, preAuth, made, sessions, cookie, form, request,
                   storeVars, work>>

\* finish, first part: the sign-in is taken out of the table before anything
\* is checked.  A callback without a sign-in in the table is refused.
Callback(b, i) ==
    /\ preAuth[b] \in pending /\ callbacks[<<b, i>>] = None
    /\ pending' = pending \ {preAuth[b]}
    /\ callbacks' = [callbacks EXCEPT ![<<b, i>>] = preAuth[b]]
    /\ UNCHANGED <<started, preAuth, made, sessions, cookie, form, request,
                   storeVars, work>>

\* finish and handleCallback, second part: the provider's answer admits a
\* subject of an allowed group, and a session is stored and given to the
\* browser.
CreateSession(b, i, subject) ==
    /\ callbacks[<<b, i>>] # None
    /\ Cardinality(DOMAIN made) < MaxSessions
    /\ subject \in Admitted
    /\ LET id == Cardinality(DOMAIN made) + 1 IN
       /\ made' = [s \in DOMAIN made \cup {id} |->
                      IF s = id THEN [subject |-> subject, from |-> callbacks[<<b, i>>]]
                                ELSE made[s]]
       /\ sessions' = sessions \cup {id}
       /\ cookie' = [cookie EXCEPT ![b] = id]
    /\ callbacks' = [callbacks EXCEPT ![<<b, i>>] = None]
    /\ preAuth' = [preAuth EXCEPT ![b] = None]
    /\ UNCHANGED <<started, pending, form, request, storeVars, work>>

\* The exchange fails, the token is invalid or the subject is not allowed.
RefuseSignIn(b, i) ==
    /\ callbacks[<<b, i>>] # None
    /\ callbacks' = [callbacks EXCEPT ![<<b, i>>] = None]
    /\ preAuth' = [preAuth EXCEPT ![b] = None]
    /\ UNCHANGED <<started, pending, made, sessions, cookie, form, request,
                   storeVars, work>>

\* A session ends: it expires, or its operator ends it from another browser
\* (DeleteOtherSessions).
EndSession(s) ==
    /\ s \in sessions /\ work < MaxWork
    /\ sessions' = sessions \ {s}
    /\ work' = work + 1
    /\ UNCHANGED <<signInVars, cookie, form, request, storeVars>>

\* Sign-out ends the browser's session and clears its cookie.  An open form
\* stays on the screen of another tab.
SignOut(b) ==
    /\ cookie[b] \in sessions /\ work < MaxWork
    /\ sessions' = sessions \ {cookie[b]}
    /\ cookie' = [cookie EXCEPT ![b] = None]
    /\ work' = work + 1
    /\ UNCHANGED <<signInVars, form, request, storeVars>>

-----------------------------------------------------------------------------
(* Pages: each is rendered from the store in one request.                  *)

Holds(name) == binding # None /\ name \in binding.policies

\* What the container receives: the versions of the policies it holds.
Effective == [p \in binding.policies |-> policies[p].write]

Existing == {p \in Policies : policies[p] # None}

\* The editor of a policy, and of a new one whose name the operator types.
PolicyScreens(csrf) ==
    {[kind |-> "save", name |-> p, seen |-> policies[p], csrf |-> csrf] : p \in Existing}
    \cup {[kind |-> "create", name |-> p, csrf |-> csrf] : p \in Policies}

RenameScreens(csrf) ==
    {[kind |-> "rename", name |-> p, seen |-> policies[p], csrf |-> csrf] : p \in Existing}

\* A policy that a binding selects gets a page without the form.
DeleteScreens(csrf) ==
    {[kind |-> "delete", name |-> p, seen |-> policies[p], csrf |-> csrf] :
        p \in {q \in Existing : ~ Holds(q)}}

BindScreens(csrf) == IF binding = None THEN {[kind |-> "bind", csrf |-> csrf]} ELSE {}

\* The forms of the binding that the container has.
OfBinding(kind, csrf) ==
    IF binding = None THEN {}
    ELSE {[kind |-> kind, id |-> binding.id, revision |-> binding.revision,
           shown |-> Effective, csrf |-> csrf]}
BoundScreens(csrf) == OfBinding("change", csrf)
UnbindScreens(csrf) == OfBinding("unbind", csrf)

Screens(csrf) ==
    UNION {PolicyScreens(csrf), RenameScreens(csrf), DeleteScreens(csrf),
           BindScreens(csrf), BoundScreens(csrf), UnbindScreens(csrf)}

Render(b) ==
    /\ cookie[b] \in sessions
    /\ request[b] = None
    /\ \E screen \in Screens(cookie[b]) : form' = [form EXCEPT ![b] = screen]
    /\ UNCHANGED <<signInVars, sessions, cookie, request, storeVars, work>>

\* requireSession: the cookie's session has not ended and the form was
\* rendered in it.
Admit(b) ==
    /\ form[b] # None /\ request[b] = None
    /\ work < MaxWork
    /\ cookie[b] \in sessions
    /\ form[b].csrf = cookie[b]
    /\ request' = [request EXCEPT ![b] = cookie[b]]
    /\ work' = work + 1
    /\ UNCHANGED <<signInVars, sessions, cookie, form, storeVars>>

-----------------------------------------------------------------------------
(* Handlers, once admitted.  Each controller operation checks what it needs *)
(* again under mutationMu.                                                  *)

Submitted(b, kinds) == request[b] # None /\ form[b].kind \in kinds

\* The handler answers: with a redirect, after which the form is gone (None), or
\* with a page.
Answered(b, page) ==
    /\ request[b] # None
    /\ request' = [request EXCEPT ![b] = None]
    /\ form' = [form EXCEPT ![b] = page]
    /\ UNCHANGED <<signInVars, sessions, cookie, work>>

\* The pages that can follow a failure.  A rename page shows the policy as it is
\* now, and so does a deletion page, without the form once a binding selects the
\* policy; whoever failed to bind or unbind sees the binding there is; other
\* forms keep what was entered, the revision included.  What is gone, or cannot
\* be read, leaves a page without a form.
PagesAfterFailure(f) ==
    {None} \cup
    CASE f.kind = "rename" -> {s \in RenameScreens(f.csrf) : s.name = f.name}
      [] f.kind = "delete" -> {s \in DeleteScreens(f.csrf) : s.name = f.name}
      [] f.kind = "bind" /\ binding # None -> BoundScreens(f.csrf)
      [] f.kind = "unbind" -> {s \in BoundScreens(f.csrf) : s.id = f.id}
      [] f.kind = "change" -> IF binding # None /\ binding.id = f.id THEN {f} ELSE {}
      [] OTHER -> {f}

\* The operation fails or is refused.
Refuse(b) ==
    /\ request[b] # None
    /\ \E page \in PagesAfterFailure(form[b]) : Answered(b, page)
    /\ UNCHANGED storeVars

\* What was entered is what is stored: a policy saved without a change or
\* renamed to its own name, a binding changed to what it is.
NothingToDo(b) ==
    /\ Submitted(b, {"save", "create", "rename", "change"})
    /\ IF form[b].kind = "change"
       THEN binding # None /\ binding.id = form[b].id /\ binding.revision = form[b].revision
       ELSE policies[form[b].name] # None
    /\ Answered(b, None)
    /\ UNCHANGED storeVars

\* The binding after one of its policies changed: its revision counts on.
Reassigned(sel) ==
    [id |-> binding.id, revision |-> binding.revision + 1, policies |-> sel]

\* handleSavePolicy and savePolicy: the form carries no version, so the save
\* replaces whatever the name now holds; a name that is free begins its next
\* generation at revision 1.  A save whose transitions are pending, or whose
\* commit is not confirmed, is answered with an error: the form stays.
SavePolicy(b) ==
    /\ Submitted(b, {"save", "create"})
    /\ LET p == form[b].name
           old == policies[p]
           generation == IF old = None THEN generations[p] + 1 ELSE generations[p]
           revision == IF old = None THEN 1 ELSE old.revision + 1 IN
       /\ policies' = [policies EXCEPT ![p] = [generation |-> generation,
                                               revision |-> revision,
                                               write |-> writes + 1]]
       /\ generations' = [generations EXCEPT ![p] = generation]
       /\ binding' = IF Holds(p) THEN Reassigned(binding.policies) ELSE binding
    /\ \E page \in {None, form[b]} : Answered(b, page)
    /\ writes' = writes + 1

\* Mutant: only the revision is compared, not the generation.
FaultySameVersion(seen, current) == seen.revision = current.revision

SameVersion(seen, current) ==
    seen.revision = current.revision /\ seen.generation = current.generation

\* handleRenamePolicy and renamePolicy: the policy is the one the page
\* showed, and the new name is free.  A pending transition redirects too.
RenamePolicy(b, newName) ==
    /\ Submitted(b, {"rename"})
    /\ LET p == form[b].name
           generation == generations[newName] + 1 IN
       /\ policies[p] # None /\ policies[newName] = None
       /\ SameVersion(form[b].seen, policies[p])
       /\ policies' = [policies EXCEPT ![p] = None,
                          ![newName] = [generation |-> generation,
                                        revision |-> policies[p].revision + 1,
                                        write |-> writes + 1]]
       /\ generations' = [generations EXCEPT ![newName] = generation]
       /\ binding' = IF Holds(p)
                     THEN Reassigned((binding.policies \ {p}) \cup {newName})
                     ELSE binding
    /\ Answered(b, None)
    /\ writes' = writes + 1

\* handleDeletePolicy and deletePolicy: the policy is found by its name, and
\* no binding holds it.
DeletePolicy(b) ==
    /\ Submitted(b, {"delete"})
    /\ policies[form[b].name] # None /\ ~ Holds(form[b].name)
    /\ policies' = [policies EXCEPT ![form[b].name] = None]
    /\ UNCHANGED <<generations, binding>>
    /\ Answered(b, None)
    /\ writes' = writes + 1

Composes(selection) == \A p \in selection : policies[p] # None

\* handleCreateBinding and createBinding: a binding whose assignment OpenBao did
\* not take is shown with the error.
CreateBinding(b, selection) ==
    /\ Submitted(b, {"bind"})
    /\ binding = None /\ Composes(selection)
    /\ binding' = [id |-> writes + 1, revision |-> 1, policies |-> selection]
    /\ LET saved == [kind |-> "change", id |-> writes + 1, revision |-> 1,
                     shown |-> [p \in selection |-> policies[p].write], csrf |-> form[b].csrf]
       IN  \E page \in {None, saved} : Answered(b, page)
    /\ writes' = writes + 1
    /\ UNCHANGED <<policies, generations>>

\* handleChangeBinding and changeBinding: the revision is the one submitted.  A
\* change whose token transition is pending is answered with an error: the form
\* stays, with the revision it was submitted with.
ChangeBinding(b, selection) ==
    /\ Submitted(b, {"change"})
    /\ binding # None /\ binding.id = form[b].id
    /\ binding.revision = form[b].revision
    /\ Composes(selection) /\ selection # binding.policies
    /\ binding' = Reassigned(selection)
    /\ \E page \in {None, form[b]} : Answered(b, page)
    /\ writes' = writes + 1
    /\ UNCHANGED <<policies, generations>>

\* handleUnbind and deleteBinding: a role or token that stays behind is an error
\* of a binding that is gone.
DeleteBinding(b) ==
    /\ Submitted(b, {"unbind"})
    /\ binding # None /\ binding.id = form[b].id
    /\ binding' = None
    /\ Answered(b, None)
    /\ writes' = writes + 1
    /\ UNCHANGED <<policies, generations>>

-----------------------------------------------------------------------------
\* Every subject that fits is signed in, each in its browser, and some
\* policies exist.
Init ==
    /\ started = Cardinality(Browsers) /\ pending = {}
    /\ preAuth = [b \in Browsers |-> None]
    /\ callbacks = [c \in Callbacks |-> None]
    /\ made \in [1 .. Cardinality(Browsers) ->
                    [subject : Admitted, from : 1 .. Cardinality(Browsers)]]
    /\ \A s \in DOMAIN made : made[s].from = s
    /\ sessions = DOMAIN made
    /\ cookie \in [Browsers -> sessions]
    /\ \A b, d \in Browsers : cookie[b] = cookie[d] => b = d
    /\ form = [b \in Browsers |-> None]
    /\ request = [b \in Browsers |-> None]
    /\ \E exist \in SUBSET Policies :
          /\ policies = [p \in Policies |->
                IF p \in exist
                THEN [generation |-> 1, revision |-> 1, write |-> 1] ELSE None]
          /\ generations = [p \in Policies |-> IF p \in exist THEN 1 ELSE 0]
          /\ binding \in [id : {1}, revision : {1}, policies : (SUBSET exist) \ {{}}]
                           \cup {None}
    /\ writes = 1 /\ work = 0

Next ==
    \/ \E b \in Browsers :
          \/ SignInStart(b) \/ SignOut(b)
          \/ \E i \in {1, 2} :
                \/ Callback(b, i) \/ RefuseSignIn(b, i)
                \/ \E subject \in Subjects : CreateSession(b, i, subject)
          \/ Render(b) \/ Admit(b) \/ Refuse(b) \/ NothingToDo(b)
          \/ SavePolicy(b) \/ DeletePolicy(b) \/ DeleteBinding(b)
          \/ \E newName \in Policies : RenamePolicy(b, newName)
          \/ \E selection \in Selections :
                CreateBinding(b, selection) \/ ChangeBinding(b, selection)
    \/ \E n \in PreAuths : Expire(n)
    \/ \E s \in Sessions : EndSession(s)

Spec == Init /\ [][Next]_vars

-----------------------------------------------------------------------------
(* Properties.                                                             *)

\* A sign-in makes at most one session, although its callback may arrive
\* twice and the exchange with the provider takes time (finish).
OneSessionPerSignIn ==
    \A s, t \in DOMAIN made : made[s].from = made[t].from => s = t

\* A submission acts in the session its form was rendered in, so a form left
\* open by one operator is never recorded as the act of the next operator
\* who signs in with the same browser (requireSession).
ActsInItsSession == \A b \in Browsers : request[b] # None => form[b].csrf = request[b]

\* Whoever signs in, signs out or submits, and when: no session without a
\* sign-in of its own, no submission at work for a form of another session, no
\* binding that selects a policy that is gone (finish, requireSession,
\* handleDeletePolicy).
SessionsSound == TypeOK /\ OneSessionPerSignIn /\ ActsInItsSession

Handled(b) == request[b] # None /\ request'[b] = None

\* A change of a binding and a rename act on exactly what their page showed,
\* whichever saves, renames, deletions and changes came in between: a changed
\* binding still had the same policies, each in the same version ("the binding
\* changed; reload before saving", changeBinding), and a renamed policy is the
\* very policy seen, not a later one of its name ("this policy changed; reload
\* before renaming it", renamePolicy).  The other forms carry no version: saving,
\* deleting and unbinding act on what the name or the binding holds by then.
ActsOnWhatWasSeen ==
    [][\A b \in Browsers : Handled(b) =>
          /\ form[b].kind = "change" /\ binding' # binding => form[b].shown = Effective
          /\ form[b].kind = "rename" /\ policies' # policies =>
                form[b].seen = policies[form[b].name]]_vars
=============================================================================

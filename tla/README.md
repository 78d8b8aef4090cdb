# Verification of wyrwood

TLA+ models of the wyrwood controller and agent, checked with TLC on small
instances; every safety property that the passing runs check is proved with TLAPS for
every instance. Paths are relative to the repository root; `operations.go:120` means
`internal/controller/operations.go`, line 120, unless another directory is
named.

## 1. The system

wyrwood gives containers access to OpenBao secrets by policy. A **controller**
per site keeps policies and bindings in SQLite, publishes them to **OpenBao** as
ACL policies and AppRoles, and talks over SSH to one **agent** per host. An agent
watches its container engine, holds one OpenBao token per binding, serves it to
the bound container through sockets, checks the container against its contract
and may recreate it. Operators act through the web interface or an operator key.

| Component | State | Operations | Talks to |
|---|---|---|---|
| Policy publication (`operations.go`, `policy_delete.go`, `policy_rename.go`, `policy_retirement.go`, `store/`) | tables `policies`, `policy_generations`, `policy_retirements`; `policySyncPending`; the wake channel | save, delete, rename, restore, synchronise, settle retirements | SQLite, OpenBao |
| Bindings and AppRoles (`operations.go`, `store/store.go`, `internal/policy/composition.go`) | tables `bindings`, `retired_bindings`; the AppRoles | create, change, repeat, delete, apply | SQLite, OpenBao, the session |
| Credential issuance (`session.go`) | per session: what was credentialed | push, prepareCredential, recordAccessor | OpenBao, the agent |
| Agent credential manager (`internal/agent/credentials.go`) | token, generation and accessor state per binding | deliver, retry, invalidate, retire, expiry | OpenBao, the controller |
| Agent session (`internal/agent/session.go`) | the connection and its outbound queue | connect, receive, send | the controller |
| Reconciliation and contract (`internal/agent/agent.go`, `internal/contract`) | containers, observed identity, results | fullReconcile, reconcileContainer, checkLocked, enforcement | the engine, the credential manager |
| Recreation (`internal/agent/recreate.go`) | recreating marks, pending requests, a journal on disk | stop, remove, create, start, report, acknowledge | the engine, the controller |
| Operational events (`internal/events`) | one checksummed file, its copy in memory | Open, Append, compaction, Close | the file system |
| Readiness (`readiness.go`, `internal/agent/binding_status.go`) | last status per binding | report, judge | the session |
| Policy documents and composition (`internal/policy`) | none | validate, compose, add lifecycle grants, warn | the publication |
| Enrollment and agent identity (`sshserver.go`, `internal/agent/identity.go`) | pending and approved keys | enroll, approve, revoke | SSH |
| Operator keys and sessions (`operator_keys.go`, `operator_session.go`, `operator/`) | grants, requests | the mutations above, by key | the controller |
| OpenBao client (`internal/openbao`) | the controller's own token | calls, token upkeep | OpenBao |
| Vault proxy, SSH agent (`internal/vaultproxy`, `internal/sshagent`) | certificate cache, wrapped tokens, session binds | look up the view, list, sign, forward, refresh | OpenBao, the credential manager |
| Engine proxy (`internal/engineproxy`) | none | authorize and forward requests | the engine |
| Web interface (`internal/web`) | sign-ins, web sessions, rendered forms | sign in, render, submit | the operations of the controller |
| Commands, configuration, updates, services | files | parsing, start-up | the components above |

What is hard in this code, with its lines, is the list `hazards` of
`PROJECT.json`. In short:

* every mutation is a chain of remote and durable calls, each of which may fail,
  may take effect although its answer is lost, or may be the last before a crash;
* the agent does most things in goroutines that carry an old view: a delivery
  that started before an edit, a reconciliation that looked at the engine before
  a recreate, a report about a token that was replaced;
* messages are lost with a session and sent again, so acknowledgements can be
  late, and may be about something older than the receiver takes them for;
* checks are separate from what they allow: a grant is read before the operation
  waits for its mutex, a form is rendered long before it is submitted, a key is
  looked up before it is recorded, a view of a container is looked up before
  its token is used;
* sessions overlap: the controller may still serve an old connection of an agent
  while a newer one takes its place;
* the event file and the recreate journal must survive a crash between any two
  system calls.

What makes each part correct: OpenBao enforces what SQLite stores, a role grants
its binding's assignment, an identity is never reused or forgotten (publication);
a token belongs to the assignment it is served for and dies with its binding
(tokens); a failed recreate is never silent and the agent's own recreate keeps
the token (recreation); an acknowledged event survives (events); the agent ends
up with the consumers, tokens and sockets that engine and controller call for
(reconciliation); readiness is never shown for what the agent did not report
(sessions); revocations and grants hold (access); an accepted form acts on what
it showed (web); a signature or an unwrap is within what the
container was given (endpoints); policies that contradict each other are not
composed, and OpenBao grants what the agent is told (composition).

## 2. Modules and how they correspond to the code

`PROJECT.json`, `map`, names the lines of every definition. Definitions whose
names begin with `Faulty`, `Forgetful`, `Inheriting`, `Renaming` or `BothLists` are plausible
bugs that stand before the definition they would replace; no specification uses them.

### PolicyPublication

The controller's tables, the ACL policies and AppRoles of OpenBao, the in-memory
`pending` flag and the consumer of retirement records. Mutations run under
`mutationMu`, so one operation is in flight: `pc` says where its holder is and
`op` carries its local variables. Each remote or durable call is one action with
three outcomes, `ok`, `lost` (it took effect and an error is returned) and
`failed`; `Crash` may come at any point and `Start` begins the reconciliation
of start-up. A name and a generation make an OpenBao identity
(`OpenBaoPolicyName`); the printed form is injective because `--` cannot occur
in a policy name, so the pair stands for it.

Abstracted: a policy document is a member of `Contents`; the wire-size preflight
and validation only refuse a request before it begins; a store call that reads
is part of the step that uses what it read. The commit of a save has the three outcomes
too; `reverted` remembers the rows whose commit lost its answer, until a save of the row
or a synchronisation publishes it again.

### TokenLifecycle

One binding, its AppRole, SecretIDs and tokens, with three concurrent parties:
the controller (the mutation holder, the session's push and message loop, the
handler of an accessor report, which holds no lock), the agent (receive loop,
delivery, retry and revocation goroutines) and OpenBao. An assignment is its
binding revision. The agent's generations come from one counter and are only
compared for equality, so a goroutine is described by whether its generation is
still the binding's. A dropped session loses everything in flight.

The calls to OpenBao have the names of the client's functions (`WriteRole`,
`DeleteRole`, `WrappedSecretID`, `AppRoleLogin`, `RevokeSelf`); `epoch` counts how
often the role was deleted, which voids its SecretIDs.

Abstracted: renewal times (a renewal may be capped, a token may expire), the
endpoint, and all other bindings. Shutdown (`stopAll`) is left out.

### Recreate

One name binding and the engine's container of that name. The worker makes each
engine call and journal write in a step of its own; every call may fail, and may
take effect and still report an error. A scanner looks at the engine without
`agent.mu` (`List`, `InspectOne`) and applies what it saw later, under the lock
(`Apply`, with interrupted recreates, the observed identity and the contract
check in the code's order). Somebody else may remove or create the container,
the session may drop and the agent may exit. Reports carry the number of
their recreate as history, which no step looks at except to record that the
controller was told (`told`) and that an acknowledgement removed the journal of another
recreate than its own (`mistaken`).

Left out: building the create request (it only fails before the journal exists).
Enforcement and a binding dropped during its recreate are in `Consumers`.

### Consumers

The agent beside its engine: containers with a name and a project, bindings that
match them, the policy set, the policy cache, consumer directories with their
group and sockets, tokens, and recreate and start workers. Three goroutines look at
the engine without `agent.mu` and apply what they saw later (`Looking`). An event of
the engine (`Event`) inspects one container and leaves the others as they were seen;
events come late, twice or not at all, so the agent may see two containers of one
name, and the order in which it walks them is open (`Orders`). An existential over
a singleton set (`\E cons \in {...}`) names a value once; it chooses nothing. The
matching (`MatchBindings`, `CarriedBindings`, `Governing`) is a set of operators
taken from both sides, and what `observeBindings` concludes from two matchings has a
name each (`Lost`, `Revoked`, `Replaced`, `FirstSeen`). The session loses messages, the agent exits and the host
reboots. A recreate is a removal and a creation here, a delivery installs a token
or fails: their insides are `Recreate` and `TokenLifecycle`.

### AgentSessions

The connections of one agent. Each has a serve goroutine on the controller with
the steps of `hub.serve` (hello, publish, the loop, push, remove), a cancelled
context, a queue in each direction and a status reporter on the agent. What the
agent knows of its binding is `fact`; `status` is what each session last reported
and `Shown` the judgement of `readiness.go` on it. The history variables
`replaced` and `stood` remember which sessions were replaced and which facts the
agent had in each. `Publish` replaces the session in the hub and closes the old one in
one step: a message that the old session's loop still handles between the two is handled,
in the model, just before both.

### OperatorAccess

The two key lists and the operator sessions. Lookup, count and insertion of an
unknown key are separate steps, decisions fall anywhere between them, and a request
is checked against its grant before it waits for `mutationMu`. Put, bind, repeated
bind and unbind are actions with lost answers and failed applications. The answer to a
bind is the binding's status, read after the mutex is free (`StatusRead`): the read may fail,
and the client is told of a failure although the binding was created or applied.

### WebInterface

Browsers, sign-ins in progress, web sessions, the form each browser has open (with
what it showed) and the submission at work. Rendering, admission and handling
are separate actions, so everything may change between them. A handler answers with a
redirect, which closes the form, or with a page: `PagesAfterFailure` says which form that
page has, and a save or a change whose transition is pending keeps its form although it is
stored. Versions of
policies are a generation and a revision, with the number of the write as history.

### Endpoints

The sockets of one container: two ssh-agent connections with their session binds,
the certificate cache and its refresher, and two requests of the vault socket with
their wrapped tokens. Every request looks its view up once
and works with it through several calls while the view changes.
Byte-level rewriting of headers, bodies and signature formats is data.

### PolicyComposition

`Compose` as its loop: one action per policy of the sorted selection with the
early returns in the code's order, and one for the end. `sort.Slice` is not stable, so
policies of one name come in any order (`SortedOrders`). The operators of
validation, of the managed lifecycle grants and of the inferred renewal are those of
`internal/policy`; `Granted` is OpenBao's decision (external), written from its
documented precedence, which the code cites. An HCL document is its path stanzas,
a path its segments, of which the lengths count for precedence: `Offsets` adds them up,
`FirstWildcard`, `Globs` and `Plus` are what `pathPriority` compares, `Found` is the pass of
`legacyRenewal` over the stanzas. `pathPriority` compares the texts themselves when all
else is equal. `PrioritiesDiffer` assumes that it never comes so far for two patterns that
match `auth/token/renew-self`: with the same first wildcard, the same number of `+` and
the same length, either both end in `*` and repeat the same part of that path, or neither
does and their `+` stand in the same places, since its segments differ in length. Names, paths and
values of the wrong form are one mark (`malformed`) per part; the texts that are too long for
an environment value are a set (`Oversized`), since a value is checked before and after the
mount target is put in.

### EventLog and EventStore

`EventStore` is the file under its path with what the kernel has (`cache`) and
what is synced (`disk`), the files whose name was replaced by a rename that may
not last (`former`), the replacement being written, and the memory. A power
failure keeps what was synced and any prefix of what was not; a kill keeps all.
`EventLog` is the promise: a bounded sequence of durable events in write
order. `ImplementsLog` is the refinement, mapping the durable events to the
newest events of the file that is certain to be found after a power failure.

External: the file system. `SyncCoversName` says whether syncing a file makes its
name durable; the run assumes that it does. Left out: the advisory lock, ownership checks, the projections
(`projection.go`), which only read.

### NoValue

`None`, which the modules share for a row, a view or a value that does not exist.

### How they fit together

`PolicyPublication` and `TokenLifecycle` share the binding: the first knows all
policies and bindings and treats an issued SecretID as the end; the second takes
one binding whose assignments change and follows the SecretID to the token's
end. Both contain `ApplyBinding` and issuance. `PolicyComposition` opens what
`PolicyPublication` calls `Compose`. `WebInterface` and `OperatorAccess` are the two ways
in which operators reach the mutations of `PolicyPublication`, which are one step
there. `Consumers` decides which binding a container has and when its token is
invalidated; `Endpoints` uses that view and token; `Recreate` replaces the
container; `AgentSessions` carries the reports of all of them. `EventStore` stands
alone: the controller and the agent append to it and never depend on what it holds.

## 3. Runs

| Run | Bounds | Shows |
|---|---|---|
| `policy_publication` | 2 names, 1 binding, 2 documents, written under one of the names (`Written`), 2 generations, 2 revisions, 2 faults, fairness | types, six invariants and two action properties of the protocol, lost commit answers included, and that every retirement record is removed |
| `policy_save_answer_lost` | the same | violated, as section 4 says: `PublishedMatchesStore`, that OpenBao enforces what is stored |
| `token_lifecycle` | a binding with and one without identity values, 2 revisions, 2 tokens, queues of 1, an edit, or a drop and a fault; fairness | tokens in use are current (`TokensCurrent`), no token is forgotten, no login uses old values, the credential arrives and the controller knows its accessor, the tokens of a deleted binding die |
| `recreate_report` | 2 recreates, 3 faults and 1 foreign change, 4 of these and recreates together, 1 scanner, fairness | an absent container is reported, unless its journal was taken for another's (`ReportsKept`), and the report reaches the controller |
| `recreate_late_ack` | 2 recreates, 2 faults | violated, as section 4 says: `AbsentIsReported`, without that exception |
| `event_store` | retention 2, 5 events, 4 faults | acknowledged events survive; memory is the file (`StoreConsistent`); the store implements the log |
| `consumers` | 1 name, 1 project, 2 containers, 2 assignments, 1 disturbance, fairness | tokens only for bindings with a container (`TokensWanted`), enforcement once per observation, agreement in the end |
| `agent_sessions` | 2 connections, queues of 1, 1 disturbance, fairness | readiness shown was true (`ShownIsTrue`), nothing older replaces something newer, the controller settles on what the agent knows |
| `operator_access` | 3 keys, 2 connections, 2 labels, 2 agents, 2 policies, 3 changes | lists and labels (`KeyListsSound`), revocations, decisions and grants hold, a bind answered as bound is what was asked, and one answered as failed can be repeated |
| `web_interface` | 2 browsers, 3 subjects, 2 policies, 4 sessions, 3 changes | one session per sign-in and submissions in their own session (`SessionsSound`), accepted forms act on what they showed |
| `endpoints` | 2 bindings, 2 ssh-agent connections, 2 vault requests, 4 changes, 4 certificates, fairness of the refresher | signatures and unwraps stay within the view, certificates are reissued |
| `policy_composition` | selections of up to 3 documents of up to 3 stanzas; limits of 1 | conflicts choose no winner (`ComposedSound`), HCL is read as OpenBao reads it (`ReadAlike`) |

Where a run has one invariant that is a conjunction, its parts are named and
commented in the module; the type invariant is one of them.

Why the bounds suffice. Two names and two generations are what a rename, a
delete followed by a new creation and a rename onto a used name need; two faults
allow a lost answer followed by a failed repair, which is the deepest error path
in the code (a failed restoration). Documents are written under one name, the other
comes from a rename: the code treats names alike. One binding is enough for TLC because the
safety properties are proved for every set of bindings. Two revisions, one
message and one delivery in flight give every order of an edit and a late
message; the run counts an edit as two disturbances (`MaxTrouble`) and
so has an edit alone, or a drop and a fault, because a third token would be
needed when a failed revocation follows an edit. The safety properties are proved for
any combination. Three faults in a recreate allow a failed create, a failed retry
and an exit; with two recreates an acknowledgement can meet a later journal (section 4).
Retention 2 with 5 events replaces the file three times, and four
faults put a failed call, a kill and a power failure around one replacement.
Two containers of one name, with a binding by name and one by project, give a
replaced container, a binding without one and two bindings that compete. Two
connections are what replacement needs. Three keys and two labels are what one pending place and
one conflict need, and three changes let a decision, a revocation and a request
meet in any order. A form, a change and a change back are the three that
an open form has to notice. In `policy_composition` the limits (64 in the code) are
1 so that two documents exceed them, and three stanzas give every order of a broad,
a narrow and a repeated pattern.
Deadlock is not checked where the system may rest: with its bounded requests
used up nothing has to happen. It is checked for the event store.

Fairness. Goroutines keep running, so steps whose guard only another step of the same
party can disable have weak fairness. What waits for `mutationMu` or the
connection's write lock has strong fairness: a Go mutex hands itself to a
waiter that starves. The agent reconnects for ever
(`internal/agent/session.go:65`), the service manager restarts it, and the
`select` of the agent's loop chooses at random among what is ready, so its ticker
is not starved by engine events (strong fairness of `List`, and of `Looking` for the
goroutines that share the lock). The refresher of certificates runs on a timer
(weak fairness of `Refresh`); requests of clients are not fair. In `AgentSessions`
the reporter shares a wake-up channel with the reporter of a session that ended, and
gets it again and again (strong fairness). Failures, drops,
exits and foreign changes are never fair; they are bounded, so that the liveness
properties say what happens once they stop.

## 4. Known behaviours outside the checked properties

Cases in which the code does something other than a comment or document of the
repository says. The models contain the first three and most of the others, and the
properties say what is left of the claim; only a run that expects a violation claims more.

* A save whose SQLite commit succeeded with an error rolls OpenBao back while the
  new row stays (`operations.go:242`; `:525` calls SQLite "the authoritative
  source after a partial policy publication"). `policy_save_answer_lost` shows it.
  `PublishedUnlessReverted` and `IssuanceGate` confine it: only that row differs from what
  OpenBao enforces, and only until its next save or the next synchronisation.
* An acknowledgement names binding, outcome, reason and failed items only
  (`internal/protocol/protocol.go:403`), so a late one can remove the journal of a
  later recreate that failed alike, whose report an exit then loses
  (`internal/agent/recreate.go:268`, against `:31` and `:111`). `recreate_late_ack` shows
  it, and `ReportsKept` that a container is forgotten in no other way.
* "The list holds at most 256 pending keys"
  (`docs/technical-designs/operator-interface.yml:48`), but counting and inserting
  are separate statements (`internal/controller/operator_keys.go:38-43`,
  `sshserver.go:82`), so connections that count before one another's inserts pass the
  limit. `PendingOvershoot` says by how much: less than the number of connections.
* A binding delete that removed the AppRole and then failed to retire the row leaves
  an applied binding without a role, which only an edit or another delete repairs
  (`operations.go:400`).
* An exit between stopping and removing leaves the container stopped, unreported
  (`internal/agent/recreate.go:184`).
* A reconciliation that looked at the engine before a recreate ended can invalidate the
  token, although "the agent's own recreate keeps the token"
  (`docs/technical-designs/agent.yml:124`; `internal/agent/agent.go:273`).
* A policy set without the binding that arrives while its container is recreated retires
  nothing (`internal/agent/agent.go:746`), and no later set does, so the token stays until
  an unbind of that binding or the agent's exit, although "A token exists only while its
  binding governs an observed container" (`docs/technical-designs/agent.yml:118`).
  `TokensWanted` exempts these tokens (`kept`).
* A bind can be answered as failed although the binding was created or applied: its status
  is read after the unlock and the read can fail
  (`internal/controller/operator_session.go:476`, `:487`, `:420`). `BoundAsAsked` says
  that the binding is then as it was or as asked, so that the request can be repeated.
* A recreate that failed to start its container is reported as conforming by the next
  reconciliation (`internal/agent/agent.go:650`).
* The confirmed deletion of a policy carries only its name: if the policy was deleted
  and made again meanwhile, the new one is deleted, although the page named the
  OpenBao policy of the old one (`internal/web/policy_delete.go:85`).
* The policy editor sends no revision, so the later of two saves replaces the earlier unseen;
  the unbind form carries the binding's id only, and unbinds whatever it selects by then.
* A certificate reissued between listing and signing makes the listed one unknown for
  that signature (`internal/sshagent/endpoint.go:70`: "clients never see a gap").
* A path stanza whose placeholder spells a lifecycle path for one binding is not
  recognised as one (`internal/policy/lifecycle.go:78` sees the text before
  expansion); `PolicyComposition` has placeholders as names only.

The event store depends on the file system: with `SyncCoversName` FALSE, `AckedSurvive`
fails. A daemon killed between the rename (`internal/events/store.go:215`) and the
sync of the directory leaves a name that is not durable; the next Open does not
sync the directory, and an append it acknowledges can be lost with the power.

## 5. Proofs

Each result holds for every value of the constants, from the assumptions named in
the module that declares them: the bounds are numbers that leave room for the
initial state, `None` is no view, version or binding, the bindings, keys, connections and
browsers are finitely many, no two bindings have one key, in `Endpoints` a key of the
agent is neither a role nor a certificate, and in `PolicyComposition` the paths of mounts
and of the lifecycle are literal, a `*` stands for a text it begins, and priorities differ
(section 2). Every invariant below is inductive: it holds initially, each action
has a lemma of its own that it keeps it, and the last step is temporal.

**`PolicyProofs`**, about `PolicyPublication` in three parts, and about
`PolicyComposition`.

1. `AssignmentInv` is `TypeOK`, the shape of the operation in flight and
   `EffectiveCurrent`. The shape is needed because an operation computes the rows it
   will commit at its beginning: until the commit they are still what the present
   store gives. `TypeCorrect` and `AssignmentsCurrent` follow. `GrantInv` adds what an
   operation that applies bindings has left to do, which is what a settlement needs
   before it removes: `RolesGrantAssignments`, `RetirementsSpareRoles`.
2. `IdentityInv`: a row has the last generation of its name, every identity that was
   left is older or its name has no row, and what the operation in flight will publish
   has a generation nobody had. `IdentitiesNotReused`, `DepartedTracked`, `DepartedGone`.
3. `PublishedInv` says which rows OpenBao enforces at every place of an operation, and
   `OpIssue` what issuance has established: `StoreIsPublished`, `IssuanceIsGated`. Neither
   has a hypothesis. Both except the rows that are reverted: `savePolicy` takes an error
   of the commit to mean that nothing was committed (section 4), and the invariant says
   that a save whose answer was lost is the only way into that set.
4. `ComposeInv`: at every turn of the loop the assignment is the union of the policies
   taken so far (`ComposeUnion`), each of which is in order by itself and finds its own
   values in it (`Accepted`), and a refusal has its reason in the selection as a whole
   (`ComposeOutcome`). That a conflict is found against the union, and not pairwise, is why
   the union is needed: a value of the union is the value of some policy before.
   `ComposedSoundAlways`. `ReadAlikeAlways` needs little of the loop and much of the texts:
   the priority is an order (`BelowOrder`); every pattern that matches a literal path is
   below it, by its first `+` (`PlusBelow`) or its `*` (`GlobBelow`), so that the exact
   rules of the managed grants decide (`ExactDecides`); after each stanza the pass of
   `legacyRenewal` knows the best pattern and whether a stanza with it grants or denies
   (`LoopKnows`); a literal prefix of a pattern is a prefix of what it matches (`NoReach`).

**`OperatorAccessProofs`**, `AccessInv`. What a connection carries at each step (its
identity, request and grant), that a key once approved keeps a label of its own, and that
a request performed after a revocation is the last of its connection. Counting the pending
keys and inserting one are two steps, so the limit can be passed; `PendingRoom` counts the
inserts on their way too, and shows that it is passed by less than the number of
connections. `KeyListsSoundAlways`, `RevocationAlways`,
`DecisionsStandAlways`, `GrantConfinesAlways`, `BoundAsAskedAlways`.

**`AgentSessionsProofs`**, `SessionsInv`. `Truthful`: every status on its way or at the
controller is one the agent stood by in that session, and a session that is over shows
none; `InOrder`: the assignments on their way to the agent are in the order in which they
were stored, and none is older than the one the agent has.
`ShownIsTrueAlways`, `NothingOlderAlways`.

**`TokenLifecycleProofs`**, `TokenInv`. `Locked`: the holder of the mutation lock works on
the assignment that is stored. `Issued`: no credential on its way is of a later epoch than
the role, and with identity values one the role still takes is of the assignment.
`Owned`: whoever names a token with a revision is right about it while the token lives. `TokensCurrentAlways`, `NoTokenForgotten`, `ValuesCurrentAlways`.

**`AgentProofs`**, about `Endpoints` and `Consumers`. `SocketInv` is for the SSH agent and
`WrapInv` for the proxy. The first
says what each connection and the refresher were granted by the view they read, and that
a certificate belongs to one binding and role; the second that a wrapped token is in the hands of
one request or remembered, by its own binding only, and not unwrapped yet. `SignedWhileOfferedAlways`, `ForwardedNeverSignsAlways`,
`WrappingSoundAlways`. `ConsumersInv` has the types of everything
the agent keeps, with two facts that make the properties inductive: a token waits to be
retired only in a process that is past the lock (`LookOK`), and a binding that has enforced
is known on disk, and in memory while the agent runs (`KnownOnDisk`), which is why an exit
between the two does not ask for a second recreation. `TokensWantedAlways` (a token is held
only by a binding that has a container or is being retired), `EnforcedOnceAlways`.

**`EventStoreProofs`**. Histories are compared by `Follows(s, t)`: `t` is `s` with events appended
and, if `t` is full, a prefix dropped. `EventsInv` says what memory, the file and its
replacement have in common at each step, and that every file a power failure can bring back
follows the one that is certain; `AckedInv` that this one has every acknowledged event
that retention has not pushed out. `StoreConsistentAlways` needs no
hypothesis; `AckedSurviveAlways` and `StoreImplementsLog`, the refinement of `EventLog`
step by step, have `SyncCoversName` (section 4).

**`RecreateProofs`**, `RecreateInv`. `Kept`: what the controller was not told is in the
journal, under the number of that recreate or a later one; the report in memory does
not count, since an exit loses it, and nothing is claimed once the journal itself could
not be written. `LeftOpen`: a journal that an exit left open is seen
only by scans that find no container. The number of the last recreate whose journal was
taken for that of an earlier one (`mistaken`) is the exception in `Kept` and in the result,
`ReportsKeptAlways`, which is for any number of recreates.

**`WebInterfaceProofs`**, `WebInv`. The number of a sign-in is in one place, the table, a
callback or a session, which is why a replayed callback makes no second session;
`SeenBefore` and `ShownBefore` relate every open form to the store, up to the writes made
since its page. `SessionsSoundAlways`, `ActsOnWhatWasSeenAlways`.

What a recursive function computes (`Offsets`, `Found`) is proved without an induction
theorem: a set of numbers has a smallest one (`SmallestOf`), so the function exists on every
initial segment, and a claim about it fails first at some place, where the equation of the
function contradicts it.

Only model-checked: the liveness properties `RetirementsDrain`, `DeletedTokensDie`,
`CredentialDelivered`, `EventuallyAgreed`, `StaysFresh`, `FailureArrives` and `Settles`,
since fairness is out of the prover's reach.

## 6. Not modelled, and the plan

Not modelled:

* `internal/command`, `internal/config`, `internal/linuxservice`, `internal/updates`:
  parsing, start-up and files; they keep no state of the protocols above.
* Presentation in `internal/web` (lists, filters, badges, settings, setup texts) and the
  pages that make single calls to OpenBao (keys, roles).
* `internal/openbao`: the controller's login loop, error categories, administration and
  provisioning.
* The codec of `internal/protocol` and the validation of messages: a peer of the same
  version sends nothing it refuses.
* HTTP handling in the proxies and in the engine client, ownership checks on files and
  sockets, the advisory lock of the event file, its projections.
* `internal/engineproxy`: a filter without state, which judges each request by the host's
  permission alone.
* The client library `operator/`, the other end of `OperatorAccess`.
* Wire-size limits (`preflight`), which only refuse.

What is left of the plan: larger instances where the time of TLC allows (three
connections, two bindings in `TokenLifecycle`), which would widen what the liveness
properties are checked on.

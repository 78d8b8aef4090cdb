--------------------------- MODULE PolicyComposition ---------------------------
(***************************************************************************)
(* How the policies that a binding selects become one assignment           *)
(* (internal/policy): the loop of Compose with its early returns, the      *)
(* validation of documents and settings, and what the controller reads in  *)
(* and adds to the operator's HCL, compared with what OpenBao makes of the *)
(* same text.  An HCL document is its path stanzas; a path is a sequence   *)
(* of segments, of which only the length of the text matters.  A leading   *)
(* slash is trimmed by every reader of a path and is left out.             *)
(***************************************************************************)
EXTENDS NoValue, Integers, FiniteSets, SequencesExt

CONSTANTS
    Cases,          \* the selections that are composed: [policies, settings]
    Mounts,         \* the configured mounts, as paths
    Outside,        \* paths of other mounts
    Length,         \* the length of a segment's text
    Begins,         \* Begins[glob]: the segments that begin with the glob's text
    IdentityLimit,  \* maximumIdentityNames
    EnvLimit,       \* maximumEnvEntries
    Oversized,      \* texts longer than maximumEnvValueBytes
    ValueLimit,     \* maximumBindingValues
    AmountLimit     \* maximumTokenTTLAmount

VARIABLES
    chosen,     \* the selection, sorted by name
    at,         \* how many of them were taken
    settings,   \* the binding's settings
    result,     \* the assignment made so far
    outcome     \* "composing", "composed", or the part of the form at fault
composeVars == <<chosen, at, settings, result, outcome>>

LookupSelf == <<"auth", "token", "lookup-self">>
RenewSelf  == <<"auth", "token", "renew-self">>
RevokeSelf == <<"auth", "token", "revoke-self">>
LifecyclePaths == {LookupSelf, RenewSelf, RevokeSelf}

-------------------------------------------------------------------------------
(* Paths and their priority: legacy_lifecycle.go.                          *)

IsGlob(segment) == segment \in DOMAIN Begins

\* The expression legacyRenewal makes of a pattern: "+" is one segment, a "*"
\* at the very end is any rest, further segments included.
Matches(pattern, path) ==
    LET n == Len(pattern)
        open == IsGlob(pattern[n]) IN
    /\ IF open THEN n <= Len(path) ELSE n = Len(path)
    /\ \A i \in 1 .. n :
          pattern[i] \in {"+", path[i]} \/ (i = n /\ open /\ path[i] \in Begins[pattern[n]])

\* Where the segment after the first k begins, and the length of the text.
Offsets(pattern) ==
    LET offset[k \in 0 .. Len(pattern)] ==
            IF k = 0 THEN 0 ELSE offset[k - 1] + Length[pattern[k]] + 1
    IN  offset

TextLength(pattern) == Offsets(pattern)[Len(pattern)] - 1

Plus(pattern) == {i \in 1 .. Len(pattern) : pattern[i] = "+"}
Globs(pattern) == IF IsGlob(pattern[Len(pattern)]) THEN 1 ELSE 0

FirstWildcard(pattern) ==
    Min({Offsets(pattern)[i - 1] : i \in Plus(pattern)} \cup {TextLength(pattern) - Globs(pattern)})

\* pathPriority: a later first wildcard, no "*", fewer "+", a longer text, the
\* most important first.
Below(a, b) ==
    \/ FirstWildcard(a) < FirstWildcard(b)
    \/ /\ FirstWildcard(a) = FirstWildcard(b)
       /\ \/ Globs(a) > Globs(b)
          \/ /\ Globs(a) = Globs(b)
             /\ \/ Cardinality(Plus(a)) > Cardinality(Plus(b))
                \/ /\ Cardinality(Plus(a)) = Cardinality(Plus(b))
                   /\ TextLength(a) < TextLength(b)

Documents == UNION {Range(c.policies) : c \in Cases}

Segments == DOMAIN Length
Pattern(path) == path \in Seq(Segments) /\ path # << >>
Plain(path) == Pattern(path) /\ \A i \in DOMAIN path : path[i] # "+" /\ ~ IsGlob(path[i])

\* The text of a glob without its "*" begins the segments it matches.
ASSUME TextAssumption ==
    /\ Length \in [Segments -> Nat]
    /\ \A glob \in DOMAIN Begins :
          /\ glob \in Segments /\ Length[glob] # 0
          /\ \A segment \in Begins[glob] \cap Segments : Length[glob] - 1 <= Length[segment]

\* The paths of the lifecycle and of the mounts are literal (validMount,
\* internal/config/controller.go:400), and a path outside is below no mount.
ASSUME PathAssumption ==
    /\ \A path \in LifecyclePaths :
          Plain(path) /\ \A i \in DOMAIN path : Length[path[i]] # 0
    /\ \A mount \in Mounts : Plain(mount)
    /\ \A path \in Outside :
          /\ Pattern(path) /\ path \notin LifecyclePaths
          /\ \A mount \in Mounts : ~ IsPrefix(mount, path)

\* Documents are what the store and the forms can hold.
ASSUME CaseAssumption ==
    /\ \A c \in Cases : c.policies \in Seq(Range(c.policies))
    /\ \A p \in Documents :
          /\ p.hcl.parses \in BOOLEAN /\ p.renewal \in BOOLEAN \cup {None}
          /\ p.hcl.rules \in Seq(Range(p.hcl.rules))
          /\ \A r \in Range(p.hcl.rules) : Pattern(r.path) /\ r.path # None
    /\ None \notin {"name", "openbao", "ssh", "contract", "selection", "settings", "none"}

Paths == UNION {{r.path : r \in Range(p.hcl.rules)} : p \in Documents}

\* pathPriority compares the texts themselves at last; for the renewal path,
\* that is, of the patterns that match it, the comparison never comes so far.
ASSUME PrioritiesDiffer ==
    \A a, b \in {p \in Paths : Matches(p, RenewSelf)} : a = b \/ Below(a, b) \/ Below(b, a)

\* OpenBao's decision: the rules of the most specific matching pattern count,
\* all of them together, and a deny among them leaves nothing.
Granted(rules, path) ==
    LET hits == {r \in rules : Matches(r.path, path)}
        best == {r \in hits : \A o \in hits : ~ Below(r.path, o.path)}
        capabilities == UNION {r.capabilities : r \in best}
    IN  IF "deny" \in capabilities THEN {} ELSE capabilities

\* One rule of legacyRenewal's loop.
Weigh(acc, rule) ==
    IF \/ ~ Matches(rule.path, RenewSelf)
       \/ acc.best # None /\ Below(rule.path, acc.best)
    THEN acc
    ELSE LET same == rule.path = acc.best IN
         [best  |-> rule.path,
          grant |-> (same /\ acc.grant) \/ "update" \in rule.capabilities,
          deny  |-> (same /\ acc.deny) \/ "deny" \in rule.capabilities]

\* What the loop has found after the first k rules.
Found(rules) ==
    LET found[k \in 0 .. Len(rules)] ==
            IF k = 0 THEN [best |-> None, grant |-> FALSE, deny |-> FALSE]
            ELSE Weigh(found[k - 1], rules[k])
    IN  found

LegacyRenewal(hcl) ==
    LET last == Found(hcl.rules)[Len(hcl.rules)]
    IN  hcl.parses /\ last.grant /\ ~ last.deny

-------------------------------------------------------------------------------
(* The managed grants: lifecycle.go.                                       *)

\* Mutant: renewal is denied, where an exact empty rule was meant.
FaultyLifecycleHCL(renew) ==
    {[path |-> LookupSelf, capabilities |-> {"read"}],
     [path |-> RenewSelf, capabilities |-> IF renew THEN {"update"} ELSE {"deny"}],
     [path |-> RevokeSelf, capabilities |-> {"update"}]}

LifecycleHCL(renew) ==
    {[path |-> LookupSelf, capabilities |-> {"read"}],
     [path |-> RenewSelf, capabilities |-> IF renew THEN {"update"} ELSE {}],
     [path |-> RevokeSelf, capabilities |-> {"update"}]}

WorkloadHCL(hcl) == {r \in Range(hcl.rules) : r.path \notin LifecyclePaths}

AgentRenewal(p) == IF p.renewal # None THEN p.renewal ELSE LegacyRenewal(p.hcl)

PublishedHCL(p) == WorkloadHCL(p.hcl) \cup LifecycleHCL(AgentRenewal(p))

\* An assignment stored before there was a choice has only its sources, and
\* its preview shows what was published for them.
StoredRenewal(sources) == \E p \in sources : LegacyRenewal(p.hcl)

PreviewHCL(sources) ==
    UNION {WorkloadHCL(p.hcl) \cup LifecycleHCL(LegacyRenewal(p.hcl)) : p \in sources}

-------------------------------------------------------------------------------
(* Advice about mounts: mount_warnings.go.                                 *)

ExpectedPath(pattern) == pattern \in LifecyclePaths \/ \E mount \in Mounts : IsPrefix(mount, pattern)

MountWarnings(hcl) ==
    IF hcl.parses THEN {r.path : r \in {r \in Range(hcl.rules) : ~ ExpectedPath(r.path)}}
    ELSE {"unavailable"}

-------------------------------------------------------------------------------
(* Validation: policy.go, binding_values.go, composition.go.               *)

ValueNames(p) == IF p.hcl.parses THEN p.hcl.names ELSE {}

\* A document that does not parse reports no placeholder.
PlaceholdersValid(p) ==
    ~ (p.hcl.parses /\ p.hcl.stray) /\ Cardinality(ValueNames(p)) <= ValueLimit

IdentitiesValid(identities) ==
    \A kind \in {"key", "role"} :
        Cardinality({x \in identities : x.kind = kind}) <= IdentityLimit

\* A value may grow over its limit when the mount target is put in.
ContractValid(env) ==
    Cardinality(DOMAIN env) <= EnvLimit /\ \A name \in DOMAIN env : env[name] \notin Oversized

\* The first part of a document that Validate finds at fault.  A part is
\* malformed when a name, a path or a value in it is not of its form.
PolicyFault(p) ==
    IF p.malformed = "name" THEN "name"
    ELSE IF p.malformed = "openbao" \/ ~ PlaceholdersValid(p) THEN "openbao"
    ELSE IF \/ p.malformed = "ssh"
            \/ ~ (IdentitiesValid(p.identities) /\ IdentitiesValid(p.restricted)) THEN "ssh"
    ELSE IF p.malformed = "contract" \/ ~ ContractValid(p.env) THEN "contract"
    ELSE None

\* Without a choice a token lives one hour, and eight hours at most.
Defaults(s) == [s EXCEPT !.ttl = IF @ = None THEN [amount |-> 1, unit |-> "h"] ELSE @,
                         !.max = IF @ = None THEN [amount |-> 8, unit |-> "h"] ELSE @]

\* A time in minutes, if it is in range.
ParseTTL(time) ==
    CASE time.amount \notin 1 .. AmountLimit -> None
      [] time.unit = "h" -> 60 * time.amount
      [] OTHER -> time.amount

ValuesValid(values) == Cardinality(values) <= ValueLimit

\* Settings are malformed when their access group or enforcement is.
SettingsFault(s) ==
    LET ttl == ParseTTL(Defaults(s).ttl)
        max == ParseTTL(Defaults(s).max)
    IN  IF ~ ValuesValid(s.values) THEN "selection"
        ELSE IF None \in {ttl, max} THEN "settings"
        ELSE IF max < ttl \/ s.malformed THEN "settings"
        ELSE None

\* The mount target takes the place of its token in a value.
ExpandedEnv(p) ==
    [name \in DOMAIN p.env |-> IF p.env[name] = "{mount-target}" THEN p.mount ELSE p.env[name]]

-------------------------------------------------------------------------------
(* Compose.                                                                *)

\* The selection in an order by name; policies of the same name come in any
\* order, as sort.Slice is not stable.  The first policy sets the mount target.
SortedOrders(policies) ==
    {order \in [DOMAIN policies -> DOMAIN policies] :
        /\ IsInjective(order)
        /\ \A i, j \in DOMAIN policies : i < j => policies[order[i]].name <= policies[order[j]].name}

ComposeInit ==
    \E c \in Cases : \E order \in SortedOrders(c.policies) :
        /\ chosen = [i \in DOMAIN c.policies |-> c.policies[order[i]]] /\ at = 0
        /\ settings = c.settings
        /\ outcome = IF chosen = << >> THEN "selection" ELSE "composing"
        /\ result = [sources |-> << >>, renew |-> FALSE, env |-> << >>,
                     identities |-> {}, restricted |-> {},
                     mount |-> IF chosen = << >> THEN None ELSE chosen[1].mount]

\* The values that p and the policies before it disagree about.
Conflicts(p) ==
    {name \in DOMAIN p.env \cap DOMAIN result.env : ExpandedEnv(p)[name] # result.env[name]}

\* Why the loop refuses p, in the order of its checks.
Refusal(p) ==
    IF PolicyFault(p) # None THEN PolicyFault(p)
    ELSE IF \E q \in Range(result.sources) : q.name = p.name THEN "selection"
    ELSE IF p.mount # result.mount \/ Conflicts(p) # {} THEN "contract"
    ELSE IF ~ (ValueNames(p) \subseteq settings.values) THEN "selection"
    ELSE None

\* The assignment with p.
With(p) ==
    [sources    |-> Append(result.sources, p),
     renew      |-> result.renew \/ AgentRenewal(p),
     env        |-> [name \in DOMAIN p.env \cup DOMAIN result.env |->
                        IF name \in DOMAIN p.env THEN ExpandedEnv(p)[name] ELSE result.env[name]],
     identities |-> result.identities \cup p.identities,
     restricted |-> result.restricted \cup p.restricted,
     mount      |-> result.mount]

\* One policy of the selection.
Take ==
    /\ outcome = "composing" /\ at < Len(chosen)
    /\ LET p == chosen[at + 1] IN
       IF Refusal(p) # None
       THEN outcome' = Refusal(p) /\ UNCHANGED result
       ELSE result' = With(p) /\ UNCHANGED outcome
    /\ at' = at + 1
    /\ UNCHANGED <<chosen, settings>>

\* What Effective.Validate finds at fault; its own errors name no part.
EffectiveFault(e) ==
    IF SettingsFault(settings) # None THEN SettingsFault(settings)
    ELSE IF ~ ContractValid(e.env) THEN "none"
    ELSE None

\* Mutant: a restriction is kept only when its own policy offers the identity.
FaultyFinish ==
    /\ outcome = "composing" /\ at = Len(chosen)
    /\ result' = [result EXCEPT !.restricted =
                     UNION {p.restricted \cap p.identities : p \in Range(result.sources)}]
    /\ outcome' = IF ~ IdentitiesValid(result.identities) THEN "ssh"
                  ELSE IF EffectiveFault(result) # None THEN EffectiveFault(result)
                  ELSE "composed"
    /\ UNCHANGED <<chosen, at, settings>>

\* Restrictions of identities that nobody offers are left out, and the whole
\* is checked against the limits.
Finish ==
    /\ outcome = "composing" /\ at = Len(chosen)
    /\ result' = [result EXCEPT !.restricted = @ \cap result.identities]
    /\ outcome' = IF ~ IdentitiesValid(result.identities) THEN "ssh"
                  ELSE IF EffectiveFault(result) # None THEN EffectiveFault(result)
                  ELSE "composed"
    /\ UNCHANGED <<chosen, at, settings>>

ComposeNext == Take \/ Finish

ComposeSpec == ComposeInit /\ [][ComposeNext]_composeVars

-------------------------------------------------------------------------------
(* Properties.                                                             *)

Sources == Range(result.sources)

\* Every variable has its type.
ComposeTypeOK ==
    /\ outcome \in {"composing", "composed", "selection", "name", "openbao", "ssh", "contract",
                    "settings", "none"}
    /\ at \in 0 .. Len(chosen) /\ Len(result.sources) \in {at - 1, at}
    /\ result.renew \in BOOLEAN
    /\ DOMAIN result.env \subseteq UNION {DOMAIN p.env : p \in Range(chosen)}

\* The selection can be composed: nothing in it is at fault, and no two of its
\* policies contradict each other.
Compatible ==
    LET selection == Range(chosen) IN
    /\ chosen # << >>
    /\ \A i, j \in DOMAIN chosen : chosen[i].name = chosen[j].name => i = j
    /\ \A p \in selection : PolicyFault(p) = None /\ ValueNames(p) \subseteq settings.values
    /\ \A p, q \in selection :
          /\ p.mount = q.mount
          /\ \A name \in DOMAIN p.env \cap DOMAIN q.env : ExpandedEnv(p)[name] = ExpandedEnv(q)[name]
    /\ IdentitiesValid(UNION {p.identities : p \in selection})
    /\ Cardinality(UNION {DOMAIN p.env : p \in selection}) <= EnvLimit
    /\ \A p \in selection : \A name \in DOMAIN p.env : ExpandedEnv(p)[name] \notin Oversized
    /\ SettingsFault(settings) = None

\* "A conflict never chooses a winner" (composition.go:176): a selection is
\* composed exactly when its policies agree, whichever comes first by name, and
\* the assignment is then what each of them asks for: the values of every
\* policy, and every identity restricted that any policy restricts, whichever
\* policy offers it.
NoWinner ==
    /\ outcome # "composing" => (outcome = "composed") = Compatible
    /\ outcome = "composed" =>
          /\ \A p \in Sources :
                /\ p.mount = result.mount
                /\ \A name \in DOMAIN p.env : result.env[name] = ExpandedEnv(p)[name]
                /\ p.restricted \cap result.identities \subseteq result.restricted
          /\ result.identities = UNION {p.identities : p \in Sources}
          /\ result.restricted \subseteq UNION {p.restricted : p \in Sources}

\* A token of the assignment may renew itself in OpenBao exactly when the
\* agent is told to renew it, and may always look itself up and revoke itself,
\* whatever stanzas, denials and wildcards the operators wrote and however
\* the selected policies differ (PublishedHCL, Compose).
RenewalAgrees ==
    outcome = "composed" /\ (\A p \in Sources : p.hcl.parses) =>
        LET published == UNION {PublishedHCL(p) : p \in Sources} IN
        /\ ("update" \in Granted(published, RenewSelf)) = result.renew
        /\ Granted(published, LookupSelf) = {"read"}
        /\ Granted(published, RevokeSelf) = {"update"}

\* For a document without the choice, legacyRenewal finds in one pass over the
\* stanzas, in any order, what OpenBao grants it, and an assignment stored
\* before the choice existed is shown with the renewal its agent performs
\* (AgentRenewal, PreviewHCL).
LegacyAsGranted ==
    /\ \A p \in Sources : p.hcl.parses =>
          LegacyRenewal(p.hcl) = ("update" \in Granted(Range(p.hcl.rules), RenewSelf))
    /\ Sources # {} /\ (\A p \in Sources : p.hcl.parses) =>
          ("update" \in Granted(PreviewHCL(Sources), RenewSelf)) = StoredRenewal(Sources)

\* A document without a mount warning reaches no path of another mount
\* (MountWarnings: a wildcard below the mount "cannot reach another mount").
NoSilentReach ==
    \A p \in Sources : MountWarnings(p.hcl) = {} =>
        \A r \in Range(p.hcl.rules), path \in Outside : ~ Matches(r.path, path)

\* What is composed is sound (Compose).
ComposedSound == ComposeTypeOK /\ NoWinner

\* The controller and OpenBao read the same HCL the same way (lifecycle.go,
\* legacy_lifecycle.go, mount_warnings.go).
ReadAlike == RenewalAgrees /\ LegacyAsGranted /\ NoSilentReach
===============================================================================

------------------------------ MODULE Endpoints ------------------------------
(***************************************************************************)
(* What serves a container: its ssh-agent socket (internal/sshagent) and   *)
(* its vault socket (internal/vaultproxy).                                 *)
(*                                                                         *)
(* Every request of a socket looks up the container's view (its binding,   *)
(* its token and what its policy offers) once, and then works with that    *)
(* view through several calls to OpenBao, while the agent may give the     *)
(* container another view, other connections share the certificate cache   *)
(* and the wrapped tokens, and a goroutine reissues certificates.          *)
(***************************************************************************)
EXTENDS NoValue, Naturals, Sequences, FiniteSets

CONSTANTS
    Conns,        \* connections to the ssh-agent socket
    Vaults,       \* requests in progress on the vault socket
    BindingIds,   \* bindings the container may have, one after another
    TransitKeys,  \* Transit keys
    Roles,        \* SSH certificate roles
    Views,        \* views the container may have
    FirstViews,   \* views it may have at first
    MaxWork,      \* bound: requests, changes of view, failures, ageing
    MaxSerial,    \* bound: certificates ever issued
    MaxTokens,    \* bound: wrapped tokens ever made
    WrapLimit     \* rememberWrapped: tokens remembered for a binding (1024)

Serials == 1 .. MaxSerial
Tokens == 1 .. MaxTokens
\* The public keys a client may name: a Transit key or a certificate.
Blobs == TransitKeys \cup Serials
Refresher == "refresh"
Issuers == Conns \cup {Refresher}

View == [id : BindingIds, token : BOOLEAN, offers : SUBSET (TransitKeys \cup Roles),
         restricted : SUBSET (TransitKeys \cup Roles)]

ASSUME EndpointsAssumption ==
    /\ Views \subseteq View \cup {None} /\ None \notin View /\ FirstViews \subseteq Views
    /\ TransitKeys \cap Roles = {} /\ TransitKeys \cap Serials = {} /\ Refresher \notin Conns
    /\ {MaxWork, MaxSerial, MaxTokens, WrapLimit} \subseteq Nat

VARIABLES
    views,      \* the container's views up to now, the current one last
    certs,      \* certificateCache.entries, by binding and role
    serials,    \* certificates issued by OpenBao
    ssh,        \* what each connection and the refresher are doing
    forwarded,  \* session.forwarded of each connection
    forwarding, \* history: a forwarding bind was verified on the connection
    wrapped,    \* Proxy.wrapped: remembered tokens of each binding
    expired,    \* wrapped tokens whose time is over
    owner,      \* history: the binding for which OpenBao made each token
    unwraps,    \* history: the bindings for which each token was unwrapped
    vault,      \* the requests on the vault socket
    work        \* how much of MaxWork is used

cacheVars == <<certs, serials>>
sshVars == <<ssh, forwarded, forwarding>>
wrapVars == <<wrapped, expired, owner, unwraps>>
vars == <<views, cacheVars, sshVars, wrapVars, vault, work>>

Current == views[Len(views)]
Usable(view) == view # None /\ view.token

Work == work < MaxWork /\ work' = work + 1

IdleSSH == [at |-> "idle", op |-> "list", blob |-> None, asked |-> 1, view |-> None,
            todo |-> {}, items |-> {}, got |-> None]
IdleVault == [at |-> "idle", op |-> "wrap", token |-> None, view |-> None]

Certificate == [serial : Serials, due : BOOLEAN]
Item == [name : TransitKeys \cup Roles, blob : Blobs]

\* A cached certificate is one that was issued, and no two bindings or roles
\* share one: its key belongs to the binding and role it is kept for.
TypeOK ==
    /\ \A i \in DOMAIN views : views[i] \in Views
    /\ certs \in [BindingIds \X Roles -> Certificate \cup {None}]
    /\ serials \in 0 .. MaxSerial
    /\ \A x, y \in BindingIds \X Roles :
          certs[x] # None /\ certs[y] # None /\ certs[x].serial = certs[y].serial => x = y
    /\ \A p \in Issuers :
          /\ ssh[p].at \in {"idle", "asked", "keys", "roles", "put", "listed", "signed", "refused"}
          /\ ssh[p].todo \subseteq Roles /\ ssh[p].items \subseteq Item
    /\ forwarded \in [Conns -> BOOLEAN]
    /\ wrapped \in [BindingIds -> SUBSET Tokens]
    /\ \A v \in Vaults : vault[v].at \in {"idle", "asked", "forward", "response", "answered"}
    /\ work \in 0 .. MaxWork

\* The agent gives the container another view, or takes its view away.
ChangeView ==
    /\ Work
    /\ \E view \in Views \ {Current} : views' = Append(views, view)
    /\ UNCHANGED <<cacheVars, sshVars, wrapVars, vault>>

-----------------------------------------------------------------------------
(* The ssh-agent socket.  A connection serves one request after another.   *)

Answering(c) == ssh[c].at \in {"idle", "listed", "signed", "refused"}

\* A client lists the identities, or asks for a signature with one of them.
\* Adding, removing and locking identities is refused without any effect.
Ask(c, op, blob) ==
    /\ Answering(c) /\ Work
    /\ op = "list" => blob = None
    /\ blob \in Serials => blob <= serials
    /\ ssh' = [ssh EXCEPT ![c] = [IdleSSH EXCEPT !.at = "asked", !.op = op, !.blob = blob,
                                     !.asked = Len(views), !.view = ssh[c].view]]
    /\ UNCHANGED <<views, cacheVars, forwarded, forwarding, wrapVars, vault>>

\* Mutant: a connection keeps the view of its first request.
FaultyLookup(c) ==
    /\ ssh[c].at = "asked"
    /\ LET view == IF Usable(ssh[c].view) THEN ssh[c].view ELSE Current IN
       ssh' = [ssh EXCEPT ![c].view = view,
                          ![c].at = IF Usable(view) THEN "keys"
                                    ELSE IF ssh[c].op = "list" THEN "listed" ELSE "refused",
                          ![c].todo = IF Usable(view) THEN view.offers \cap Roles ELSE {}]
    /\ UNCHANGED <<views, cacheVars, forwarded, forwarding, wrapVars, vault, work>>

\* session.current: without a binding or a token the list is empty and a
\* signature is refused.
Lookup(c) ==
    /\ ssh[c].at = "asked"
    /\ LET view == Current IN
       ssh' = [ssh EXCEPT ![c].view = view,
                          ![c].at = IF Usable(view) THEN "keys"
                                    ELSE IF ssh[c].op = "list" THEN "listed" ELSE "refused",
                          ![c].todo = IF Usable(view) THEN view.offers \cap Roles ELSE {}]
    /\ UNCHANGED <<views, cacheVars, forwarded, forwarding, wrapVars, vault, work>>

\* identities: the public key of every Transit key is read; one that cannot
\* be read is left out.
ResolveKeys(c) ==
    /\ ssh[c].at = "keys"
    /\ \E read \in SUBSET (ssh[c].view.offers \cap TransitKeys) :
          /\ IF read = ssh[c].view.offers \cap TransitKeys THEN UNCHANGED work ELSE Work
          /\ ssh' = [ssh EXCEPT ![c].at = "roles",
                                ![c].items = {[name |-> k, blob |-> k] : k \in read}]
    /\ UNCHANGED <<views, cacheVars, forwarded, forwarding, wrapVars, vault>>

Entry(p, r) == certs[<<ssh[p].view.id, r>>]
Offered(items, r, entry) == items \cup {[name |-> r, blob |-> entry.serial]}
\* Mutant: a certificate that is cached is used as it is.
FaultyNeedsIssue(p, r) == Entry(p, r) = None /\ p # Refresher

\* A connection issues what is missing or due, the refresher what is due.
NeedsIssue(p, r) ==
    IF Entry(p, r) = None THEN p # Refresher ELSE Entry(p, r).due

\* identities and refresh: the cached certificate will do.
ResolveCached(p, r) ==
    /\ ssh[p].at = "roles" /\ r \in ssh[p].todo
    /\ ~ NeedsIssue(p, r)
    /\ ssh' = [ssh EXCEPT ![p].todo = @ \ {r},
                          ![p].items = IF p = Refresher THEN @ ELSE Offered(@, r, Entry(p, r))]
    /\ UNCHANGED <<views, cacheVars, forwarded, forwarding, wrapVars, vault, work>>

\* issue: OpenBao signs the key of the binding and role.
Issue(p, r) ==
    /\ ssh[p].at = "roles" /\ r \in ssh[p].todo
    /\ NeedsIssue(p, r)
    /\ serials < MaxSerial /\ serials' = serials + 1
    /\ ssh' = [ssh EXCEPT ![p].at = "put", ![p].got = [role |-> r, serial |-> serials + 1]]
    /\ UNCHANGED <<views, certs, forwarded, forwarding, wrapVars, vault, work>>

\* OpenBao does not sign: a connection goes on with the certificate that is
\* due, or without one.
IssueFails(p, r) ==
    /\ ssh[p].at = "roles" /\ r \in ssh[p].todo
    /\ NeedsIssue(p, r) /\ Work
    /\ ssh' = [ssh EXCEPT ![p].todo = @ \ {r},
                          ![p].items = IF p = Refresher \/ Entry(p, r) = None THEN @
                                       ELSE Offered(@, r, Entry(p, r))]
    /\ UNCHANGED <<views, cacheVars, forwarded, forwarding, wrapVars, vault>>

Put(p) ==
    /\ ssh[p].at = "put"
    /\ LET got == ssh[p].got
           entry == [serial |-> got.serial, due |-> FALSE] IN
       /\ certs' = [certs EXCEPT ![<<ssh[p].view.id, got.role>>] = entry]
       /\ ssh' = [ssh EXCEPT ![p].at = "roles", ![p].got = None, ![p].todo = @ \ {got.role},
                             ![p].items = IF p = Refresher THEN @ ELSE Offered(@, got.role, entry)]
    /\ UNCHANGED <<views, serials, forwarded, forwarding, wrapVars, vault, work>>

Resolved(c) == ssh[c].at = "roles" /\ ssh[c].todo = {}

\* List answers with what was resolved.
Listed(c) ==
    /\ Resolved(c) /\ ssh[c].op = "list"
    /\ ssh' = [ssh EXCEPT ![c].at = "listed"]
    /\ UNCHANGED <<views, cacheVars, forwarded, forwarding, wrapVars, vault, work>>

Matches(c) == {item \in ssh[c].items : item.blob = ssh[c].blob}
Refused(c, item) == forwarded[c] /\ item.name \in ssh[c].view.restricted

\* SignWithFlags: the identity that was named must be one of those resolved.
\* A certificate's key signs here, a Transit key in OpenBao, which may fail.
Sign(c) ==
    /\ Resolved(c) /\ ssh[c].op = "sign"
    /\ LET allowed == \E item \in Matches(c) : ~ Refused(c, item) IN
       \/ /\ allowed /\ UNCHANGED work
          /\ ssh' = [ssh EXCEPT ![c].at = "signed"]
       \/ /\ IF allowed THEN ssh[c].blob \in TransitKeys /\ Work ELSE UNCHANGED work
          /\ ssh' = [ssh EXCEPT ![c].at = "refused"]
    /\ UNCHANGED <<views, cacheVars, forwarded, forwarding, wrapVars, vault>>

\* Mutant: the last bind decides.
FaultyBind(c, forwards) ==
    /\ Answering(c) /\ Work
    /\ forwarded' = [forwarded EXCEPT ![c] = forwards]
    /\ forwarding' = [forwarding EXCEPT ![c] = @ \/ forwards]
    /\ ssh' = [ssh EXCEPT ![c] = [IdleSSH EXCEPT !.view = ssh[c].view]]
    /\ UNCHANGED <<views, cacheVars, wrapVars, vault>>

\* Extension: a verified session-bind.  One that does not verify, and every
\* other extension, changes nothing.
Bind(c, forwards) ==
    /\ Answering(c) /\ Work
    /\ forwarded' = [forwarded EXCEPT ![c] = @ \/ forwards]
    /\ forwarding' = [forwarding EXCEPT ![c] = @ \/ forwards]
    /\ ssh' = [ssh EXCEPT ![c] = [IdleSSH EXCEPT !.view = ssh[c].view]]
    /\ UNCHANGED <<views, cacheVars, wrapVars, vault>>

\* The client closes the connection; another one takes its place.
Reconnect(c) ==
    /\ Answering(c) /\ ssh[c] # IdleSSH /\ Work
    /\ ssh' = [ssh EXCEPT ![c] = IdleSSH]
    /\ forwarded' = [forwarded EXCEPT ![c] = FALSE]
    /\ forwarding' = [forwarding EXCEPT ![c] = FALSE]
    /\ UNCHANGED <<views, cacheVars, wrapVars, vault>>

\* refresh: every 15 seconds, for the view of that moment.
RefreshTick ==
    /\ ssh[Refresher].at = "idle" /\ Usable(Current)
    /\ \E r \in Current.offers \cap Roles :
          certs[<<Current.id, r>>] # None /\ certs[<<Current.id, r>>].due
    /\ ssh' = [ssh EXCEPT ![Refresher].at = "roles", ![Refresher].view = Current,
                          ![Refresher].todo = Current.offers \cap Roles]
    /\ UNCHANGED <<views, cacheVars, forwarded, forwarding, wrapVars, vault, work>>

RefreshDone ==
    /\ Resolved(Refresher)
    /\ ssh' = [ssh EXCEPT ![Refresher] = IdleSSH]
    /\ UNCHANGED <<views, cacheVars, forwarded, forwarding, wrapVars, vault, work>>

\* Less than a third of the validity of a certificate remains.
NeedsReissue(x) ==
    /\ certs[x] # None /\ ~ certs[x].due /\ Work
    /\ certs' = [certs EXCEPT ![x].due = TRUE]
    /\ UNCHANGED <<views, serials, sshVars, wrapVars, vault>>

-----------------------------------------------------------------------------
(* The vault socket: requests run concurrently.  A login, a token creation *)
(* and a renewal are answered here, and a revocation is refused: none of   *)
(* them changes anything.  What is left is forwarded with the container's  *)
(* own token.                                                              *)

\* The container sends a request whose answer OpenBao wraps, or asks to
\* unwrap a token.
VaultAsk(v, op, token) ==
    /\ vault[v].at \in {"idle", "answered"} /\ Work
    /\ IF op = "wrap" THEN token = None ELSE token \in DOMAIN owner
    /\ vault' = [vault EXCEPT ![v] = [at |-> "asked", op |-> op, token |-> token, view |-> None]]
    /\ UNCHANGED <<views, cacheVars, sshVars, wrapVars>>

\* Mutant: a token stays remembered when it is used.
FaultyConsumeWrapped(id, token) == wrapped' = wrapped

\* consumeWrapped: the token is forgotten before it is forwarded.
ConsumeWrapped(id, token) == wrapped' = [wrapped EXCEPT ![id] = @ \ {token}]

Unwrappable(id, token) == token \in wrapped[id] /\ token \notin expired

\* serve: without a binding or a token the answer is 503, for a token that
\* this binding has not been given it is 403.
VaultServe(v) ==
    /\ vault[v].at = "asked"
    /\ LET view == Current
           token == vault[v].token
           unwrap == vault[v].op = "unwrap"
           forwards == Usable(view) /\ (unwrap => Unwrappable(view.id, token)) IN
       /\ vault' = [vault EXCEPT ![v].view = view,
                                 ![v].at = IF forwards THEN "forward" ELSE "answered"]
       /\ IF forwards /\ unwrap THEN ConsumeWrapped(view.id, token) ELSE UNCHANGED wrapped
    /\ UNCHANGED <<views, cacheVars, sshVars, expired, owner, unwraps, work>>

\* rememberWrapped: expired tokens are dropped, and a full list remembers
\* nothing more.
RememberWrapped(id, token) ==
    LET live == wrapped[id] \ expired IN
    wrapped' = [wrapped EXCEPT ![id] =
                   IF Cardinality(live) < WrapLimit THEN live \cup {token} ELSE live]

\* OpenBao wraps its answer in a new token.
Wrap(v) ==
    /\ vault[v].at = "forward" /\ vault[v].op = "wrap"
    /\ LET token == Cardinality(DOMAIN owner) + 1 IN
       /\ token \in Tokens
       /\ owner' = [t \in DOMAIN owner \cup {token} |->
                       IF t = token THEN vault[v].view.id ELSE owner[t]]
       /\ vault' = [vault EXCEPT ![v].at = "response", ![v].token = token]
    /\ UNCHANGED <<views, cacheVars, sshVars, wrapped, expired, unwraps, work>>

\* forward: the answer has arrived.
Respond(v) ==
    /\ vault[v].at = "response"
    /\ RememberWrapped(vault[v].view.id, vault[v].token)
    /\ vault' = [vault EXCEPT ![v].at = "answered"]
    /\ UNCHANGED <<views, cacheVars, sshVars, expired, owner, unwraps, work>>

\* A request to unwrap reaches OpenBao, for the binding whose token it
\* carries.
Unwrap(v) ==
    /\ vault[v].at = "forward" /\ vault[v].op = "unwrap"
    /\ unwraps' = [unwraps EXCEPT ![vault[v].token] = Append(@, vault[v].view.id)]
    /\ vault' = [vault EXCEPT ![v].at = "answered"]
    /\ UNCHANGED <<views, cacheVars, sshVars, wrapped, expired, owner, work>>

\* roundTrip fails before OpenBao was reached, or after: 502.
RoundTripFails(v) ==
    /\ vault[v].at \in {"forward", "response"} /\ Work
    /\ vault' = [vault EXCEPT ![v].at = "answered"]
    /\ UNCHANGED <<views, cacheVars, sshVars, wrapVars>>

Expire(token) ==
    /\ token \in DOMAIN owner \ expired /\ Work
    /\ expired' = expired \cup {token}
    /\ UNCHANGED <<views, cacheVars, sshVars, wrapped, owner, unwraps, vault>>

-----------------------------------------------------------------------------
Init ==
    /\ views \in {<<view>> : view \in FirstViews}
    /\ certs = [x \in BindingIds \X Roles |-> None] /\ serials = 0
    /\ ssh = [p \in Issuers |-> IdleSSH]
    /\ forwarded = [c \in Conns |-> FALSE] /\ forwarding = [c \in Conns |-> FALSE]
    /\ wrapped = [b \in BindingIds |-> {}] /\ expired = {}
    /\ owner = << >> /\ unwraps = [t \in Tokens |-> << >>]
    /\ vault = [v \in Vaults |-> IdleVault]
    /\ work = 0

Refresh ==
    \/ RefreshTick \/ RefreshDone
    \/ Put(Refresher)
    \/ \E r \in Roles : ResolveCached(Refresher, r) \/ Issue(Refresher, r)

Next ==
    \/ ChangeView \/ Refresh
    \/ \E r \in Roles : IssueFails(Refresher, r)
    \/ \E x \in BindingIds \X Roles : NeedsReissue(x)
    \/ \E c \in Conns :
          \/ Ask(c, "list", None)
          \/ \E blob \in Blobs : Ask(c, "sign", blob)
          \/ Lookup(c) \/ ResolveKeys(c) \/ Put(c) \/ Listed(c) \/ Sign(c) \/ Reconnect(c)
          \/ \E r \in Roles : ResolveCached(c, r) \/ Issue(c, r) \/ IssueFails(c, r)
          \/ \E forwards \in BOOLEAN : Bind(c, forwards)
    \/ \E v \in Vaults :
          \/ VaultAsk(v, "wrap", None)
          \/ \E token \in Tokens : VaultAsk(v, "unwrap", token)
          \/ VaultServe(v) \/ Wrap(v) \/ Respond(v) \/ Unwrap(v) \/ RoundTripFails(v)
    \/ \E token \in Tokens : Expire(token)

Spec == Init /\ [][Next]_vars

\* The refresher runs as long as the socket is served.  Clients and the
\* agent need not do anything.
FairSpec == Spec /\ WF_vars(Refresh)

-----------------------------------------------------------------------------
(* Properties.                                                             *)

Signature(c) == CHOOSE item \in Matches(c) : TRUE

\* A signature is made with an identity that the container's policy offered
\* at some moment of the request, and never with one that was taken from it
\* before the client asked, although certificates stay in the cache and
\* their keys sign without OpenBao (SignWithFlags: "a removed identity is
\* refused immediately").
SignedWhileOffered ==
    \A c \in Conns : ssh[c].at = "signed" =>
        \E i \in ssh[c].asked .. Len(views) :
            /\ views[i] # None /\ views[i].id = ssh[c].view.id
            /\ Signature(c).name \in views[i].offers

\* Once a forwarding bind was verified on a connection, no later request on
\* it signs with an identity that the policy keeps from being forwarded,
\* whatever binds follow (Extension).
ForwardedNeverSigns ==
    \A c \in Conns : ssh[c].at = "signed" /\ forwarding[c] =>
        Signature(c).name \notin ssh[c].view.restricted

\* A wrapped token is sent to OpenBao to be unwrapped at most once, and only
\* for the binding it was made for, although requests run concurrently and
\* the container's binding may have changed since (consumeWrapped).
UnwrappedOnceByOwner ==
    \A t \in DOMAIN owner : unwraps[t] \in {<< >>, <<owner[t]>>}

\* The proxies and their caches stay within their types, and no wrapped token
\* is spent twice or by another binding (consumeWrapped, certCache.put).
WrappingSound == TypeOK /\ UnwrappedOnceByOwner

\* Certificates of the roles that the policy offers are reissued when they
\* are due, also when no client asks: in the end none is due (refresh).
StaysFresh ==
    <>[](Usable(Current) => \A r \in Current.offers \cap Roles :
            certs[<<Current.id, r>>] # None => ~ certs[<<Current.id, r>>].due)
=============================================================================

----------------------------- MODULE AgentProofs -----------------------------
(***************************************************************************)
(* Proofs about the two modules of the agent's own state, which share no   *)
(* variable.                                                               *)
(*                                                                         *)
(* Endpoints, for every number of connections, requests, bindings, keys,   *)
(* roles, views, certificates and wrapped tokens: SocketInv is about the   *)
(* ssh-agent socket, WrapInv about the vault socket; each is inductive     *)
(* beside the types.  That certificates stay fresh is left to the run      *)
(* endpoints.                                                              *)
(*                                                                         *)
(* Consumers, for every set of names, projects, bindings and containers    *)
(* and every value of the bounds: ConsumersInv is inductive, and says which*)
(* tokens the agent may hold and what it remembers of what it enforced.    *)
(***************************************************************************)
EXTENDS Endpoints, Consumers, FiniteSetTheorems, WellFoundedInduction, TLAPS

(***************************************************************************)
(* Endpoints.                                                              *)
(***************************************************************************)

Places == BindingIds \X Roles
Gots == [role : Roles, serial : Serials]
SshRows ==
    [at : {"idle", "asked", "keys", "roles", "put", "listed", "signed", "refused"},
     op : {"list", "sign"}, blob : Blobs \cup {None}, asked : Nat,
     view : Views \cup {None}, todo : SUBSET Roles, items : SUBSET Item,
     got : Gots \cup {None}]
VaultRows ==
    [at : {"idle", "asked", "forward", "response", "answered"}, op : {"wrap", "unwrap"},
     token : Tokens \cup {None}, view : Views \cup {None}]

SocketTypes ==
    /\ ssh \in [Issuers -> SshRows] /\ certs \in [Places -> Certificate \cup {None}]
    /\ serials \in 0 .. MaxSerial
    /\ forwarded \in [Conns -> BOOLEAN] /\ forwarding = forwarded

Shared ==
    /\ views \in Seq(Views) /\ views # << >>
    /\ work \in 0 .. MaxWork

(* A request works with a view the container has had since it was asked,   *)
(* and resolves nothing that this view does not offer.                     *)
Granted(p) ==
    /\ ssh[p].asked \in 1 .. Len(views)
    /\ ssh[p].at \in {"keys", "roles", "put", "signed"} =>
          /\ ssh[p].view \in View /\ ssh[p].todo \subseteq ssh[p].view.offers
          /\ \E i \in ssh[p].asked .. Len(views) : views[i] = ssh[p].view
    /\ ssh[p].at \in {"roles", "put", "signed"} =>
          \A item \in ssh[p].items :
             /\ item.name \in ssh[p].view.offers
             /\ item.name \in TransitKeys => item.blob = item.name
             /\ item.name \in Roles => item.blob \in Serials
    /\ ssh[p].at = "put" => ssh[p].got \in Gots /\ ssh[p].got.role \in ssh[p].todo

(* The certificate s is that of the binding and role x: it is cached for   *)
(* them, was just issued for them, or is offered as theirs.                *)
Cached(x, s) == certs[x] # None /\ certs[x].serial = s
Fresh(p, x, s) ==
    /\ ssh[p].at = "put" /\ ssh[p].got.serial = s
    /\ x = <<ssh[p].view.id, ssh[p].got.role>>
Resolves(p, x, s) ==
    /\ ssh[p].at \in {"roles", "put", "signed"}
    /\ \E item \in ssh[p].items :
          item.blob = s /\ item.name \in Roles /\ x = <<ssh[p].view.id, item.name>>
Known(x, s) ==
    \/ Cached(x, s)
    \/ \E p \in Issuers : Fresh(p, x, s) \/ Resolves(p, x, s)

(* No two bindings or roles have a certificate in common.                  *)
Distinct ==
    \A x \in Places : \A s \in Serials : Known(x, s) =>
        /\ s <= serials
        /\ \A y \in Places : Known(y, s) => x = y

(* The identity a signature was made with was not refused.                 *)
Permitted ==
    \A c \in Conns : ssh[c].at = "signed" => \E item \in Matches(c) : ~ Refused(c, item)

SocketInv ==
    /\ SocketTypes /\ \A p \in Issuers : Granted(p)
    /\ Distinct /\ Permitted /\ ssh[Refresher].items = {}

WrapTypes ==
    /\ wrapped \in [BindingIds -> SUBSET Tokens] /\ vault \in [Vaults -> VaultRows]
    /\ \E n \in 0 .. MaxTokens : owner \in [1 .. n -> BindingIds]
    /\ unwraps \in [Tokens -> Seq(BindingIds)]

(* The request v has the wrapped token t in its hands: OpenBao has made it *)
(* for the request, or is about to unwrap it.                              *)
Carries(v, t) ==
    /\ vault[v].at = "response" \/ (vault[v].at = "forward" /\ vault[v].op = "unwrap")
    /\ vault[v].token = t

(* A token in a request's hands is that of the request's binding, was not  *)
(* unwrapped, is not remembered, and is in no other hands; a remembered    *)
(* token is that of the binding it is remembered for.                      *)
InHand ==
    \A v \in Vaults : \A t \in Tokens : Carries(v, t) =>
        /\ t \in DOMAIN owner /\ owner[t] = vault[v].view.id /\ unwraps[t] = << >>
        /\ \A b \in BindingIds : t \notin wrapped[b]
        /\ \A w \in Vaults : Carries(w, t) => w = v

Remembered ==
    \A b \in BindingIds : \A t \in wrapped[b] :
        t \in DOMAIN owner /\ owner[t] = b /\ unwraps[t] = << >>

(* What is forwarded has a view, and what is to be unwrapped was wrapped.  *)
Forwarded(v) ==
    /\ vault[v].at \in {"forward", "response"} => vault[v].view \in View
    /\ vault[v].at = "response" => vault[v].token \in Tokens
    /\ vault[v].op = "unwrap" => vault[v].token \in DOMAIN owner

WrapInv ==
    /\ WrapTypes /\ InHand /\ Remembered
    /\ \A v \in Vaults : Forwarded(v)
    /\ \A t \in Tokens \ DOMAIN owner : unwraps[t] = << >>
    /\ UnwrappedOnceByOwner

EndpointsInv == Shared /\ SocketInv /\ WrapInv

-----------------------------------------------------------------------------
(* Views.                                                                  *)

LEMMA ViewKinds ==
    /\ \A v \in Views : v # None => v \in View
    /\ MaxSerial \in Nat /\ MaxTokens \in Nat /\ MaxWork \in Nat
    /\ TransitKeys \cap Roles = {} /\ TransitKeys \cap Serials = {} /\ Refresher \notin Conns
    /\ None \notin View
    /\ Refresher \in Issuers /\ Conns \subseteq Issuers
  BY EndpointsAssumption DEF Issuers

LEMMA CurrentView ==
    ASSUME Shared
    PROVE  /\ Len(views) \in Nat /\ Len(views) >= 1 /\ Len(views) \in 1 .. Len(views)
           /\ Current \in Views /\ Current = views[Len(views)]
           /\ Usable(Current) => Current \in View
<1>1. Len(views) \in Nat /\ Len(views) >= 1
  BY DEF Shared
<1>2. Current \in Views /\ Current = views[Len(views)]
  BY <1>1 DEF Shared, Current
<1> QED BY <1>1, <1>2, ViewKinds DEF Usable

LEMMA WorkType ==
    ASSUME Shared, Work
    PROVE  work' \in 0 .. MaxWork
  BY ViewKinds DEF Shared, Work

(* A connection at rest.                                                   *)
Rest(at, op, b, n, v) ==
    [at |-> at, op |-> op, blob |-> b, asked |-> n, view |-> v, todo |-> {},
     items |-> {}, got |-> None]

LEMMA RestIdle ==
    ASSUME NEW at, NEW op, NEW b, NEW n, NEW v
    PROVE  [IdleSSH EXCEPT !.at = at, !.op = op, !.blob = b, !.asked = n, !.view = v]
              = Rest(at, op, b, n, v)
<1>1. SUFFICES ASSUME NEW r,
                      r = [IdleSSH EXCEPT !.at = at, !.op = op, !.blob = b, !.asked = n, !.view = v]
               PROVE  r = Rest(at, op, b, n, v)
  OBVIOUS
<1>2. r = [at |-> at, op |-> op, blob |-> b, asked |-> n, view |-> v, todo |-> {},
           items |-> {}, got |-> None]
  BY <1>1 DEF IdleSSH
<1> QED BY <1>2 DEF Rest

LEMMA RestRow ==
    ASSUME NEW at \in {"idle", "asked"}, NEW op \in {"list", "sign"},
           NEW b \in Blobs \cup {None}, NEW n \in Nat, NEW v \in Views \cup {None}
    PROVE  /\ Rest(at, op, b, n, v) \in SshRows /\ Rest(at, op, b, n, v).at = at
           /\ Rest(at, op, b, n, v).asked = n /\ Rest(at, op, b, n, v).items = {}
<1>1. /\ at \in {"idle", "asked", "keys", "roles", "put", "listed", "signed", "refused"}
      /\ {} \in SUBSET Roles /\ {} \in SUBSET Item /\ None \in Gots \cup {None}
  OBVIOUS
<1> QED BY <1>1 DEF Rest, SshRows

-----------------------------------------------------------------------------
(* Steps of the ssh-agent socket.  One connection, or the refresher, takes *)
(* a step; a good one is sound by itself and knows no other certificates.  *)

Others(p) == \A q \in Issuers : q # p => ssh'[q] = ssh[q]

LEMMA RowSet ==
    ASSUME ssh \in [Issuers -> SshRows], NEW p \in Issuers, NEW row \in SshRows,
           ssh' = [ssh EXCEPT ![p] = row]
    PROVE  ssh' \in [Issuers -> SshRows] /\ Others(p) /\ ssh'[p] = row
  BY DEF Others

LEMMA OthersGranted ==
    ASSUME SocketInv, NEW p \in Issuers, Others(p), UNCHANGED views, Granted(p)'
    PROVE  \A q \in Issuers : Granted(q)'
<1>1. SUFFICES ASSUME NEW q \in Issuers, q # p PROVE Granted(q)'
  OBVIOUS
<1>2. ssh'[q] = ssh[q] /\ Granted(q)
  BY <1>1 DEF Others, SocketInv
<1> QED BY <1>2 DEF Granted

LEMMA KnownKept ==
    ASSUME NEW p \in Issuers, Others(p),
           \A x \in Places : \A s \in Serials : Cached(x, s)' => Known(x, s),
           \A x \in Places : \A s \in Serials : Fresh(p, x, s)' => Known(x, s),
           \A x \in Places : \A s \in Serials : Resolves(p, x, s)' => Known(x, s)
    PROVE  \A x \in Places : \A s \in Serials : Known(x, s)' => Known(x, s)
<1>1. SUFFICES ASSUME NEW x \in Places, NEW s \in Serials, Known(x, s)' PROVE Known(x, s)
  OBVIOUS
<1>2. CASE Cached(x, s)'
  BY <1>2
<1>3. ASSUME NEW q \in Issuers, Fresh(q, x, s)' \/ Resolves(q, x, s)' PROVE Known(x, s)
  <2>1. CASE q = p
    BY <1>3, <2>1
  <2>2. CASE q # p
    <3>1. ssh'[q] = ssh[q]
      BY <2>2 DEF Others
    <3>2. Fresh(q, x, s) \/ Resolves(q, x, s)
      BY <1>3, <3>1 DEF Fresh, Resolves
    <3> QED BY <3>2 DEF Known
  <2> QED BY <2>1, <2>2
<1> QED BY <1>1, <1>2, <1>3 DEF Known

LEMMA DistinctKept ==
    ASSUME Distinct, UNCHANGED serials,
           \A x \in Places : \A s \in Serials : Known(x, s)' => Known(x, s)
    PROVE  Distinct'
  BY DEF Distinct

LEMMA OthersPermitted ==
    ASSUME SocketInv, NEW p \in Issuers, Others(p), UNCHANGED forwarded, ssh'[p].at # "signed"
    PROVE  Permitted'
<1>1. SUFFICES ASSUME NEW c \in Conns, ssh'[c].at = "signed"
               PROVE  \E item \in Matches(c)' : ~ Refused(c, item)'
  BY DEF Permitted
<1>2. c # p /\ c \in Issuers
  BY <1>1, ViewKinds
<1>3. ssh'[c] = ssh[c]
  BY <1>2 DEF Others
<1>4. PICK item \in Matches(c) : ~ Refused(c, item)
  BY <1>1, <1>3 DEF SocketInv, Permitted
<1>5. item \in Matches(c)' /\ ~ Refused(c, item)'
  BY <1>3, <1>4 DEF Matches, Refused
<1> QED BY <1>5

(* A step of p that leaves the cache and the binds of connections alone.   *)
LEMMA RowStepPermitted ==
    ASSUME Shared, SocketInv, NEW p \in Issuers, ssh' \in [Issuers -> SshRows], Others(p),
           UNCHANGED <<views, certs, serials, forwarded, forwarding>>,
           Granted(p)', Permitted', p = Refresher => ssh'[p].items = {},
           \A x \in Places : \A s \in Serials : Fresh(p, x, s)' => Known(x, s),
           \A x \in Places : \A s \in Serials : Resolves(p, x, s)' => Known(x, s)
    PROVE  SocketInv'
<1>1. SocketTypes'
  BY DEF SocketInv, SocketTypes
<1>2. \A x \in Places : \A s \in Serials : Known(x, s)' => Known(x, s)
  <2>1. \A x \in Places : \A s \in Serials : Cached(x, s)' => Known(x, s)
    BY DEF Cached, Known
  <2> QED BY <2>1, KnownKept
<1>3. Distinct'
  BY <1>2, DistinctKept DEF SocketInv
<1>4. ssh'[Refresher].items = {}
  BY ViewKinds DEF SocketInv, Others
<1> QED BY <1>1, <1>3, <1>4, OthersGranted DEF SocketInv

LEMMA RowStep ==
    ASSUME Shared, SocketInv, NEW p \in Issuers, ssh' \in [Issuers -> SshRows], Others(p),
           UNCHANGED <<views, certs, serials, forwarded, forwarding>>,
           Granted(p)', ssh'[p].at # "signed", p = Refresher => ssh'[p].items = {},
           \A x \in Places : \A s \in Serials : Fresh(p, x, s)' => Known(x, s),
           \A x \in Places : \A s \in Serials : Resolves(p, x, s)' => Known(x, s)
    PROVE  SocketInv'
  BY OthersPermitted, RowStepPermitted

(* A step of p to a state in which it has no view at work.                 *)
LEMMA RestStep ==
    ASSUME Shared, SocketInv, NEW p \in Issuers, ssh' \in [Issuers -> SshRows], Others(p),
           UNCHANGED <<views, certs, serials, forwarded, forwarding>>,
           ssh'[p].at \in {"idle", "asked", "listed", "refused"},
           ssh'[p].asked \in 1 .. Len(views), p = Refresher => ssh'[p].items = {}
    PROVE  SocketInv'
<1>1. Granted(p)'
  BY DEF Granted
<1>2. \A x \in Places : \A s \in Serials : ~ Fresh(p, x, s)' /\ ~ Resolves(p, x, s)'
  BY DEF Fresh, Resolves
<1> QED BY <1>1, <1>2, RowStep

LEMMA AskStep ==
    ASSUME Shared, SocketInv, NEW c \in Conns, NEW op \in {"list", "sign"},
           NEW b \in Blobs \cup {None}, Ask(c, op, b)
    PROVE  SocketInv'
<1> DEFINE r == Rest("asked", op, b, Len(views), ssh[c].view)
<1>1. /\ ssh' = [ssh EXCEPT ![c] = r]
      /\ UNCHANGED <<views, certs, serials, forwarded, forwarding>>
  <2>1. r = [IdleSSH EXCEPT !.at = "asked", !.op = op, !.blob = b, !.asked = Len(views),
                            !.view = ssh[c].view]
    BY RestIdle
  <2> HIDE DEF r
  <2> QED BY <2>1 DEF Ask, cacheVars
<1>2. ssh \in [Issuers -> SshRows] /\ c \in Issuers /\ ssh[c].view \in Views \cup {None}
  BY ViewKinds DEF SocketInv, SocketTypes, SshRows
<1>3. /\ r \in SshRows /\ r.at = "asked" /\ r.asked = Len(views)
  BY <1>2, CurrentView, RestRow
<1> HIDE DEF r
<1>4. ssh' \in [Issuers -> SshRows] /\ Others(c) /\ ssh'[c] = r
  BY <1>1, <1>2, <1>3, RowSet
<1> QED BY <1>1, <1>2, <1>3, <1>4, ViewKinds, CurrentView, RestStep

LEMMA LookupStep ==
    ASSUME Shared, SocketInv, NEW c \in Conns, Lookup(c)
    PROVE  SocketInv'
<1>1. UNCHANGED <<views, certs, serials, forwarded, forwarding>>
  BY DEF Lookup, cacheVars
<1>2. ssh \in [Issuers -> SshRows] /\ c \in Issuers /\ c # Refresher /\ Current \in Views
  BY ViewKinds, CurrentView DEF SocketInv, SocketTypes
<1>3. CASE ~ Usable(Current)
  <2>1. PICK at \in {"listed", "refused"} :
          ssh' = [ssh EXCEPT ![c].view = Current, ![c].at = at, ![c].todo = {}]
    BY <1>3 DEF Lookup
  <2> DEFINE row == [ssh[c] EXCEPT !.view = Current, !.at = at, !.todo = {}]
  <2>4. row \in SshRows
    BY <1>2, <2>1 DEF SshRows
  <2>5. row.at = at /\ row.asked = ssh[c].asked
    BY <1>2 DEF SshRows
  <2>6. ssh' = [ssh EXCEPT ![c] = row]
    BY <1>2, <2>1
  <2> HIDE DEF row
  <2>2. /\ ssh' \in [Issuers -> SshRows] /\ Others(c) /\ ssh'[c].at \in {"listed", "refused"}
        /\ ssh'[c].asked = ssh[c].asked
    BY <1>2, <2>1, <2>4, <2>5, <2>6, RowSet
  <2>3. ssh[c].asked \in 1 .. Len(views)
    BY <1>2 DEF SocketInv, Granted
  <2> QED BY <1>1, <1>2, <2>2, <2>3, RestStep
<1>4. CASE Usable(Current)
  <2>1. ssh' = [ssh EXCEPT ![c].view = Current, ![c].at = "keys",
                           ![c].todo = Current.offers \cap Roles]
    BY <1>4 DEF Lookup
  <2> DEFINE row == [ssh[c] EXCEPT !.view = Current, !.at = "keys",
                                   !.todo = Current.offers \cap Roles]
  <2>6. row \in SshRows
    BY <1>2 DEF SshRows
  <2>7. /\ row.at = "keys" /\ row.asked = ssh[c].asked /\ row.view = Current
        /\ row.todo = Current.offers \cap Roles
    BY <1>2 DEF SshRows
  <2>8. ssh' = [ssh EXCEPT ![c] = row]
    BY <1>2, <2>1
  <2> HIDE DEF row
  <2>2. /\ ssh' \in [Issuers -> SshRows] /\ Others(c) /\ ssh'[c].at = "keys"
        /\ ssh'[c].asked = ssh[c].asked /\ ssh'[c].view = Current
        /\ ssh'[c].todo = Current.offers \cap Roles
    BY <1>2, <2>6, <2>7, <2>8, RowSet
  <2>3. ssh[c].asked \in 1 .. Len(views)
    BY <1>2 DEF SocketInv, Granted
  <2>4. Granted(c)'
    <3>1. Len(views) \in ssh[c].asked .. Len(views) /\ views[Len(views)] = Current
      BY <2>3, CurrentView
    <3>2. Current \in View
      BY <1>4, CurrentView
    <3> QED BY <1>1, <2>2, <2>3, <3>1, <3>2 DEF Granted
  <2>5. \A x \in Places : \A s \in Serials : ~ Fresh(c, x, s)' /\ ~ Resolves(c, x, s)'
    BY <2>2 DEF Fresh, Resolves
  <2> QED BY <1>1, <1>2, <2>2, <2>4, <2>5, RowStep
<1> QED BY <1>3, <1>4

LEMMA ResolveKeysStep ==
    ASSUME Shared, SocketInv, NEW c \in Conns, ResolveKeys(c)
    PROVE  SocketInv'
<1>1. UNCHANGED <<views, certs, serials, forwarded, forwarding>> /\ ssh[c].at = "keys"
  BY DEF ResolveKeys, cacheVars
<1>2. ssh \in [Issuers -> SshRows] /\ c \in Issuers /\ c # Refresher /\ Granted(c)
  BY ViewKinds DEF SocketInv, SocketTypes
<1>3. PICK read \in SUBSET (ssh[c].view.offers \cap TransitKeys) :
        ssh' = [ssh EXCEPT ![c].at = "roles", ![c].items = {[name |-> k, blob |-> k] : k \in read}]
  BY DEF ResolveKeys
<1> DEFINE I == {[name |-> k, blob |-> k] : k \in read}
<1>4. /\ I \in SUBSET Item
      /\ \A item \in I : item.name \in TransitKeys /\ item.blob = item.name
                        /\ item.name \in ssh[c].view.offers
  BY <1>3 DEF Item, Blobs
<1> HIDE DEF I
<1>5. ssh' = [ssh EXCEPT ![c].at = "roles", ![c].items = I]
  BY <1>3 DEF I
<1> DEFINE row == [ssh[c] EXCEPT !.at = "roles", !.items = I]
<1>6. /\ ssh' \in [Issuers -> SshRows] /\ Others(c) /\ ssh'[c].at = "roles"
      /\ ssh'[c].asked = ssh[c].asked /\ ssh'[c].view = ssh[c].view
      /\ ssh'[c].todo = ssh[c].todo /\ ssh'[c].items = I
  <2>4. I \in SUBSET Item /\ ssh[c] \in SshRows
    BY <1>2, <1>4
  <2>1. row \in SshRows
    BY <2>4 DEF SshRows
  <2>2. /\ row.at = "roles" /\ row.asked = ssh[c].asked /\ row.view = ssh[c].view
        /\ row.todo = ssh[c].todo /\ row.items = I
    BY <1>2 DEF SshRows
  <2>3. ssh' = [ssh EXCEPT ![c] = row]
    BY <1>2, <1>5
  <2> HIDE DEF row
  <2> QED BY <1>2, <2>1, <2>2, <2>3, RowSet
<1>7. Granted(c)'
  BY <1>1, <1>2, <1>4, <1>6, ViewKinds DEF Granted
<1>8. \A x \in Places : \A s \in Serials : ~ Fresh(c, x, s)' /\ ~ Resolves(c, x, s)'
  BY <1>4, <1>6, ViewKinds DEF Fresh, Resolves
<1> QED BY <1>1, <1>2, <1>6, <1>7, <1>8, RowStep

(* The cached certificate of a role that is still to be resolved.          *)
LEMMA EntryKinds ==
    ASSUME Shared, SocketInv, NEW p \in Issuers, ssh[p].at = "roles", NEW r \in ssh[p].todo
    PROVE  /\ r \in Roles /\ r \in ssh[p].view.offers /\ ssh[p].view.id \in BindingIds
           /\ <<ssh[p].view.id, r>> \in Places
           /\ Entry(p, r) # None => Entry(p, r) \in Certificate
<1>1. ssh[p] \in SshRows /\ Granted(p) /\ certs \in [Places -> Certificate \cup {None}]
  BY DEF SocketInv, SocketTypes
<1>2. r \in Roles /\ r \in ssh[p].view.offers /\ ssh[p].view \in View
  BY <1>1 DEF SshRows, Granted
<1>3. ssh[p].view.id \in BindingIds
  BY <1>2 DEF View
<1>4. <<ssh[p].view.id, r>> \in Places
  BY <1>2, <1>3 DEF Places
<1> QED BY <1>1, <1>2, <1>3, <1>4 DEF Entry

(* A role is done with: its cached certificate is offered, or nothing.     *)
LEMMA SkipStep ==
    ASSUME Shared, SocketInv, NEW p \in Issuers, ssh[p].at = "roles", NEW r \in ssh[p].todo,
           NEW I, ssh' = [ssh EXCEPT ![p].todo = ssh[p].todo \ {r}, ![p].items = I],
           \/ I = ssh[p].items
           \/ p # Refresher /\ Entry(p, r) # None /\ I = Offered(ssh[p].items, r, Entry(p, r)),
           UNCHANGED <<views, certs, serials, forwarded, forwarding>>
    PROVE  SocketInv'
<1> DEFINE n == [name |-> r, blob |-> Entry(p, r).serial]
           row == [ssh[p] EXCEPT !.todo = ssh[p].todo \ {r}, !.items = I]
<1>1. ssh \in [Issuers -> SshRows] /\ ssh[p] \in SshRows /\ Granted(p)
  BY DEF SocketInv, SocketTypes
<1>2. Entry(p, r) # None => n \in Item /\ n.name = r /\ n.blob = Entry(p, r).serial
  <2>1. Entry(p, r) # None => Entry(p, r).serial \in Serials
    BY EntryKinds DEF Certificate
  <2>2. \A b \in Serials : [name |-> r, blob |-> b] \in Item
    BY EntryKinds DEF Item, Blobs
  <2>3. n.name = r /\ n.blob = Entry(p, r).serial
    OBVIOUS
  <2> QED BY <2>1, <2>2, <2>3
<1>3. /\ I \in SUBSET Item /\ (p = Refresher => I = {})
      /\ \A item \in I : item \in ssh[p].items \/ (item = n /\ Entry(p, r) # None)
  <2>1. ssh[p].items \in SUBSET Item /\ (p = Refresher => ssh[p].items = {})
    BY <1>1 DEF SshRows, SocketInv
  <2>2. Offered(ssh[p].items, r, Entry(p, r)) = ssh[p].items \cup {n}
    BY DEF Offered
  <2> HIDE DEF n
  <2>3. CASE I = ssh[p].items
    BY <2>1, <2>3
  <2>4. CASE p # Refresher /\ Entry(p, r) # None /\ I = ssh[p].items \cup {n}
    BY <1>2, <2>1, <2>4
  <2> QED BY <2>2, <2>3, <2>4
<1> HIDE DEF n
<1>4. row \in SshRows
  <2>1. I \in SUBSET Item /\ ssh[p].todo \ {r} \in SUBSET Roles
    BY <1>1, <1>3 DEF SshRows
  <2> QED BY <1>1, <2>1 DEF SshRows
<1>5. /\ row.at = "roles" /\ row.asked = ssh[p].asked /\ row.view = ssh[p].view
      /\ row.todo = ssh[p].todo \ {r} /\ row.items = I
  BY <1>1 DEF SshRows
<1>6. ssh' = [ssh EXCEPT ![p] = row]
  BY <1>1
<1> HIDE DEF row
<1>7. ssh' \in [Issuers -> SshRows] /\ Others(p) /\ ssh'[p] = row
  BY <1>1, <1>4, <1>6, RowSet
<1>8. Granted(p)'
  <2>1. \A item \in I : /\ item.name \in ssh[p].view.offers
                        /\ item.name \in TransitKeys => item.blob = item.name
                        /\ item.name \in Roles => item.blob \in Serials
    <3>1. Entry(p, r) # None => Entry(p, r).serial \in Serials
      BY EntryKinds DEF Certificate
    <3> QED BY <1>1, <1>2, <1>3, <3>1, EntryKinds, ViewKinds DEF Granted
  <2> QED BY <1>1, <1>5, <1>7, <2>1 DEF Granted
<1>9. \A x \in Places : \A s \in Serials : ~ Fresh(p, x, s)'
  BY <1>5, <1>7 DEF Fresh
<1>10. \A x \in Places : \A s \in Serials : Resolves(p, x, s)' => Known(x, s)
  <2>1. SUFFICES ASSUME NEW x \in Places, NEW s \in Serials, Resolves(p, x, s)' PROVE Known(x, s)
    OBVIOUS
  <2>2. PICK item \in I : item.blob = s /\ item.name \in Roles /\ x = <<ssh[p].view.id, item.name>>
    BY <1>5, <1>7, <2>1 DEF Resolves
  <2>3. CASE item \in ssh[p].items
    BY <2>2, <2>3 DEF Resolves, Known
  <2>4. CASE item = n /\ Entry(p, r) # None
    BY <1>2, <2>2, <2>4 DEF Cached, Known, Entry
  <2> QED BY <1>3, <2>3, <2>4
<1> QED BY <1>3, <1>5, <1>7, <1>8, <1>9, <1>10, RowStep

LEMMA ResolveCachedStep ==
    ASSUME Shared, SocketInv, NEW p \in Issuers, NEW r \in Roles, ResolveCached(p, r)
    PROVE  SocketInv'
<1> DEFINE I == IF p = Refresher THEN ssh[p].items ELSE Offered(ssh[p].items, r, Entry(p, r))
<1>1. /\ ssh[p].at = "roles" /\ r \in ssh[p].todo /\ ~ NeedsIssue(p, r)
      /\ ssh' = [ssh EXCEPT ![p].todo = ssh[p].todo \ {r}, ![p].items = I]
      /\ UNCHANGED <<views, certs, serials, forwarded, forwarding>>
  BY DEF ResolveCached, cacheVars, SocketInv, SocketTypes
<1>2. p # Refresher => Entry(p, r) # None
  BY <1>1 DEF NeedsIssue
<1>3. \/ I = ssh[p].items
      \/ p # Refresher /\ Entry(p, r) # None /\ I = Offered(ssh[p].items, r, Entry(p, r))
  BY <1>2
<1> HIDE DEF I
<1> QED BY <1>1, <1>3, SkipStep

LEMMA IssueFailsStep ==
    ASSUME Shared, SocketInv, NEW p \in Issuers, NEW r \in Roles, IssueFails(p, r)
    PROVE  SocketInv'
<1> DEFINE I == IF p = Refresher \/ Entry(p, r) = None THEN ssh[p].items
                ELSE Offered(ssh[p].items, r, Entry(p, r))
<1>1. /\ ssh[p].at = "roles" /\ r \in ssh[p].todo
      /\ ssh' = [ssh EXCEPT ![p].todo = ssh[p].todo \ {r}, ![p].items = I]
      /\ UNCHANGED <<views, certs, serials, forwarded, forwarding>>
  BY DEF IssueFails, cacheVars, SocketInv, SocketTypes
<1>2. \/ I = ssh[p].items
      \/ p # Refresher /\ Entry(p, r) # None /\ I = Offered(ssh[p].items, r, Entry(p, r))
  OBVIOUS
<1> HIDE DEF I
<1> QED BY <1>1, <1>2, SkipStep

(* A new certificate has a serial nobody knows yet.                        *)
LEMMA IssueStep ==
    ASSUME Shared, SocketInv, NEW p \in Issuers, NEW r \in Roles, Issue(p, r)
    PROVE  SocketInv'
<1> DEFINE g == [role |-> r, serial |-> serials + 1]
           row == [ssh[p] EXCEPT !.at = "put", !.got = g]
<1>1. /\ ssh[p].at = "roles" /\ r \in ssh[p].todo /\ serials < MaxSerial
      /\ serials' = serials + 1 /\ UNCHANGED <<views, certs, forwarded, forwarding>>
      /\ ssh' = [ssh EXCEPT ![p].at = "put", ![p].got = g]
  BY DEF Issue
<1>2. /\ ssh \in [Issuers -> SshRows] /\ ssh[p] \in SshRows /\ Granted(p)
      /\ serials \in 0 .. MaxSerial
  BY DEF SocketInv, SocketTypes
<1>3. serials' \in 0 .. MaxSerial /\ serials' \in Serials
  BY <1>1, <1>2, ViewKinds DEF Serials
<1>4. g \in Gots /\ g.role = r /\ g.serial = serials'
  BY <1>1, <1>3 DEF Gots
<1> HIDE DEF g
<1>5. row \in SshRows
  BY <1>2, <1>4 DEF SshRows
<1>6. /\ row.at = "put" /\ row.got = g /\ row.asked = ssh[p].asked /\ row.view = ssh[p].view
      /\ row.todo = ssh[p].todo /\ row.items = ssh[p].items
  BY <1>2 DEF SshRows
<1>7. ssh' = [ssh EXCEPT ![p] = row]
  BY <1>1, <1>2
<1> HIDE DEF row
<1>8. ssh' \in [Issuers -> SshRows] /\ Others(p) /\ ssh'[p] = row
  BY <1>2, <1>5, <1>7, RowSet
<1>9. SocketTypes'
  BY <1>1, <1>3, <1>8 DEF SocketInv, SocketTypes
<1>10. Granted(p)'
  BY <1>1, <1>2, <1>4, <1>6, <1>8 DEF Granted
<1>11. \A x \in Places : \A s \in Serials :
          Known(x, s)' => Known(x, s) \/ (s = serials' /\ x = <<ssh[p].view.id, r>>)
  <2>1. SUFFICES ASSUME NEW x \in Places, NEW s \in Serials, Known(x, s)'
                 PROVE  Known(x, s) \/ (s = serials' /\ x = <<ssh[p].view.id, r>>)
    OBVIOUS
  <2>2. CASE Cached(x, s)'
    BY <1>1, <2>2 DEF Cached, Known
  <2>3. CASE Fresh(p, x, s)'
    BY <1>4, <1>6, <1>8, <2>3 DEF Fresh
  <2>4. CASE Resolves(p, x, s)'
    <3>1. Resolves(p, x, s)
      BY <1>1, <1>6, <1>8, <2>4 DEF Resolves
    <3> QED BY <3>1 DEF Known
  <2>5. ASSUME NEW q \in Issuers, q # p, Fresh(q, x, s)' \/ Resolves(q, x, s)'
        PROVE  Known(x, s)
    <3>1. ssh'[q] = ssh[q]
      BY <1>8, <2>5 DEF Others
    <3>2. Fresh(q, x, s) \/ Resolves(q, x, s)
      BY <2>5, <3>1 DEF Fresh, Resolves
    <3> QED BY <3>2 DEF Known
  <2> QED BY <2>1, <2>2, <2>3, <2>4, <2>5 DEF Known
<1>12. Distinct'
  <2>1. SUFFICES ASSUME NEW x \in Places, NEW s \in Serials, Known(x, s)'
                 PROVE  s <= serials' /\ \A y \in Places : Known(y, s)' => x = y
    BY DEF Distinct
  <2>2. s \in Nat /\ serials \in Nat /\ serials' = serials + 1
    BY <1>1, <1>2, <2>1, ViewKinds DEF Serials
  <2>3. \A y \in Places : Known(y, s) => s <= serials /\ \A z \in Places : Known(z, s) => y = z
    BY DEF SocketInv, Distinct
  <2>4. CASE s = serials'
    <3>1. \A y \in Places : ~ Known(y, s)
      BY <2>2, <2>3, <2>4
    <3> QED BY <1>11, <2>1, <2>2, <2>4, <3>1
  <2>5. CASE s # serials'
    <3>1. Known(x, s) /\ \A y \in Places : Known(y, s)' => Known(y, s)
      BY <1>11, <2>1, <2>5
    <3> QED BY <2>2, <2>3, <3>1
  <2> QED BY <2>4, <2>5
<1>13. \A q \in Issuers : Granted(q)'
  BY <1>1, <1>8, <1>10, OthersGranted
<1>14. Permitted'
  BY <1>1, <1>6, <1>8, OthersPermitted
<1>15. ssh'[Refresher].items = {}
  BY <1>6, <1>8, ViewKinds DEF SocketInv, Others
<1> QED BY <1>9, <1>12, <1>13, <1>14, <1>15 DEF SocketInv

LEMMA PutStep ==
    ASSUME Shared, SocketInv, NEW p \in Issuers, Put(p)
    PROVE  SocketInv'
<1> DEFINE g == ssh[p].got
           entry == [serial |-> g.serial, due |-> FALSE]
           n == [name |-> g.role, blob |-> g.serial]
           place == <<ssh[p].view.id, g.role>>
           I == IF p = Refresher THEN ssh[p].items ELSE ssh[p].items \cup {n}
           row == [ssh[p] EXCEPT !.at = "roles", !.got = None, !.todo = ssh[p].todo \ {g.role},
                                 !.items = I]
<1>1. /\ ssh[p].at = "put" /\ certs' = [certs EXCEPT ![place] = entry]
      /\ UNCHANGED <<views, serials, forwarded, forwarding>>
      /\ ssh' = [ssh EXCEPT ![p].at = "roles", ![p].got = None,
                            ![p].todo = ssh[p].todo \ {g.role}, ![p].items = I]
  <2>1. Offered(ssh[p].items, g.role, entry) = ssh[p].items \cup {n}
    BY DEF Offered
  <2> QED BY <2>1 DEF Put, SocketInv, SocketTypes
<1>2. /\ ssh \in [Issuers -> SshRows] /\ ssh[p] \in SshRows /\ Granted(p)
      /\ certs \in [Places -> Certificate \cup {None}]
  BY DEF SocketInv, SocketTypes
<1>3. /\ g \in Gots /\ g.role \in Roles /\ g.serial \in Serials /\ ssh[p].view \in View
      /\ g.role \in ssh[p].view.offers
  BY <1>1, <1>2 DEF Granted, Gots
<1>4. place \in Places
  BY <1>3 DEF Places, View
<1>5. entry \in Certificate /\ entry.serial = g.serial
  BY <1>3 DEF Certificate
<1>6. n \in Item /\ n.name = g.role /\ n.blob = g.serial
  BY <1>3 DEF Item, Blobs
<1> HIDE DEF n, entry, place
<1>7. /\ I \in SUBSET Item /\ (p = Refresher => I = {})
      /\ \A item \in I : item \in ssh[p].items \/ item = n
  <2>1. ssh[p].items \in SUBSET Item /\ (p = Refresher => ssh[p].items = {})
    BY <1>2 DEF SshRows, SocketInv
  <2> QED BY <1>6, <2>1
<1> HIDE DEF I
<1>8. row \in SshRows
  <2>1. I \in SUBSET Item /\ ssh[p].todo \ {g.role} \in SUBSET Roles
    BY <1>2, <1>7 DEF SshRows
  <2> HIDE DEF g
  <2> QED BY <1>2, <2>1 DEF SshRows
<1>9. /\ row.at = "roles" /\ row.asked = ssh[p].asked /\ row.view = ssh[p].view
      /\ row.todo = ssh[p].todo \ {g.role} /\ row.items = I
  <2> HIDE DEF g
  <2> QED BY <1>2 DEF SshRows
<1>10. ssh' = [ssh EXCEPT ![p] = row]
  <2> HIDE DEF g
  <2> QED BY <1>1, <1>2
<1> HIDE DEF row, g
<1>11. ssh' \in [Issuers -> SshRows] /\ Others(p) /\ ssh'[p] = row
  BY <1>2, <1>8, <1>10, RowSet
<1>12. certs' \in [Places -> Certificate \cup {None}]
  BY <1>1, <1>2, <1>4, <1>5
<1>13. SocketTypes'
  BY <1>1, <1>11, <1>12 DEF SocketInv, SocketTypes
<1>14. Granted(p)'
  <2>1. \A item \in I : /\ item.name \in ssh[p].view.offers
                        /\ item.name \in TransitKeys => item.blob = item.name
                        /\ item.name \in Roles => item.blob \in Serials
    BY <1>1, <1>2, <1>3, <1>6, <1>7, ViewKinds DEF Granted
  <2> QED BY <1>1, <1>2, <1>9, <1>11, <2>1 DEF Granted
<1>15. Known(place, g.serial)
  BY <1>1 DEF Known, Fresh, place, g
<1>16. \A x \in Places : \A s \in Serials : Cached(x, s)' => Known(x, s)
  <2>1. SUFFICES ASSUME NEW x \in Places, NEW s \in Serials, Cached(x, s)' PROVE Known(x, s)
    OBVIOUS
  <2>2. CASE x = place
    BY <1>1, <1>2, <1>4, <1>5, <1>15, <2>1, <2>2 DEF Cached
  <2>3. CASE x # place
    <3>1. certs'[x] = certs[x]
      BY <1>1, <1>2, <2>3
    <3> QED BY <2>1, <3>1 DEF Cached, Known
  <2> QED BY <2>2, <2>3
<1>17. \A x \in Places : \A s \in Serials : ~ Fresh(p, x, s)'
  BY <1>9, <1>11 DEF Fresh
<1>18. \A x \in Places : \A s \in Serials : Resolves(p, x, s)' => Known(x, s)
  <2>1. SUFFICES ASSUME NEW x \in Places, NEW s \in Serials, Resolves(p, x, s)' PROVE Known(x, s)
    OBVIOUS
  <2>2. PICK item \in I : item.blob = s /\ item.name \in Roles /\ x = <<ssh[p].view.id, item.name>>
    BY <1>9, <1>11, <2>1 DEF Resolves
  <2>3. CASE item \in ssh[p].items
    BY <1>1, <2>2, <2>3 DEF Resolves, Known
  <2>4. CASE item = n
    <3>1. x = place /\ s = g.serial
      BY <1>6, <2>2, <2>4 DEF place
    <3> QED BY <1>15, <3>1
  <2> QED BY <1>7, <2>3, <2>4
<1>19. Distinct'
  BY <1>1, <1>11, <1>16, <1>17, <1>18, KnownKept, DistinctKept DEF SocketInv
<1>20. Permitted' /\ \A q \in Issuers : Granted(q)'
  BY <1>1, <1>9, <1>11, <1>14, OthersPermitted, OthersGranted
<1>21. ssh'[Refresher].items = {}
  BY <1>7, <1>9, <1>11, ViewKinds DEF SocketInv, Others
<1> QED BY <1>13, <1>19, <1>20, <1>21 DEF SocketInv

LEMMA AnswerStep ==
    ASSUME Shared, SocketInv, NEW c \in Conns, Listed(c) \/ Sign(c)
    PROVE  SocketInv'
<1>1. /\ ssh[c].at = "roles" /\ UNCHANGED <<views, certs, serials, forwarded, forwarding>>
      /\ \/ ssh' = [ssh EXCEPT ![c].at = "listed"]
         \/ ssh' = [ssh EXCEPT ![c].at = "refused"]
         \/ /\ ssh' = [ssh EXCEPT ![c].at = "signed"]
            /\ \E item \in Matches(c) : ~ Refused(c, item)
  BY DEF Listed, Sign, Resolved, cacheVars
<1>2. /\ ssh \in [Issuers -> SshRows] /\ ssh[c] \in SshRows /\ Granted(c) /\ c \in Issuers
      /\ c # Refresher
  BY ViewKinds DEF SocketInv, SocketTypes
<1>3. PICK at \in {"listed", "refused", "signed"} : ssh' = [ssh EXCEPT ![c].at = at]
  BY <1>1
<1> DEFINE row == [ssh[c] EXCEPT !.at = at]
<1>4. row \in SshRows
  BY <1>2, <1>3 DEF SshRows
<1>5. /\ row.at = at /\ row.asked = ssh[c].asked /\ row.view = ssh[c].view
      /\ row.todo = ssh[c].todo /\ row.items = ssh[c].items /\ row.blob = ssh[c].blob
  BY <1>2 DEF SshRows
<1>6. ssh' = [ssh EXCEPT ![c] = row]
  BY <1>2, <1>3
<1> HIDE DEF row
<1>7. ssh' \in [Issuers -> SshRows] /\ Others(c) /\ ssh'[c] = row
  BY <1>2, <1>4, <1>6, RowSet
<1>8. Granted(c)'
  BY <1>1, <1>2, <1>3, <1>5, <1>7 DEF Granted
<1>9. \A x \in Places : \A s \in Serials : ~ Fresh(c, x, s)'
  BY <1>3, <1>5, <1>7 DEF Fresh
<1>10. \A x \in Places : \A s \in Serials : Resolves(c, x, s)' => Known(x, s)
  BY <1>1, <1>2, <1>5, <1>7 DEF Resolves, Known
<1>11. CASE at # "signed"
  BY <1>1, <1>2, <1>5, <1>7, <1>8, <1>9, <1>10, <1>11, RowStep
<1>12. CASE at = "signed"
  <2>1. PICK item \in Matches(c) : ~ Refused(c, item)
    <3>1. ssh'[c].at = "signed"
      BY <1>5, <1>7, <1>12
    <3>2. ssh' # [ssh EXCEPT ![c].at = "listed"] /\ ssh' # [ssh EXCEPT ![c].at = "refused"]
      BY <1>2, <3>1 DEF SshRows
    <3> QED BY <1>1, <3>2
  <2>2. item \in Matches(c)' /\ ~ Refused(c, item)'
    BY <1>1, <1>5, <1>7, <2>1 DEF Matches, Refused
  <2>3. Permitted'
    <3>1. SUFFICES ASSUME NEW d \in Conns, d # c, ssh'[d].at = "signed"
                   PROVE  \E i \in Matches(d)' : ~ Refused(d, i)'
      BY <2>2 DEF Permitted
    <3>2. ssh'[d] = ssh[d]
      BY <1>7, <3>1, ViewKinds DEF Others
    <3>3. PICK i \in Matches(d) : ~ Refused(d, i)
      BY <3>1, <3>2 DEF SocketInv, Permitted
    <3>4. i \in Matches(d)' /\ ~ Refused(d, i)'
      BY <1>1, <3>2, <3>3 DEF Matches, Refused
    <3> QED BY <3>4
  <2> QED BY <1>1, <1>2, <1>7, <1>8, <1>9, <1>10, <2>3, RowStepPermitted
<1> QED BY <1>11, <1>12

(* A bind, or another connection: the request that was answered is gone.   *)
LEMMA ResetStep ==
    ASSUME Shared, SocketInv, NEW c \in Conns, NEW v \in Views \cup {None},
           ssh' = [ssh EXCEPT ![c] = Rest("idle", "list", None, 1, v)],
           forwarded' \in [Conns -> BOOLEAN], forwarding' = forwarded',
           \A d \in Conns : d # c => forwarded'[d] = forwarded[d],
           UNCHANGED <<views, certs, serials>>
    PROVE  SocketInv'
<1> DEFINE row == Rest("idle", "list", None, 1, v)
<1>1. ssh \in [Issuers -> SshRows] /\ c \in Issuers /\ c # Refresher
  BY ViewKinds DEF SocketInv, SocketTypes
<1>2. row \in SshRows /\ row.at = "idle" /\ row.asked = 1 /\ 1 \in 1 .. Len(views)
  <2>1. 1 \in 1 .. Len(views)
    BY CurrentView
  <2>2. \A at \in {"idle", "asked"}, op \in {"list", "sign"},
           b \in Blobs \cup {None}, n \in Nat :
           /\ Rest(at, op, b, n, v) \in SshRows /\ Rest(at, op, b, n, v).at = at
           /\ Rest(at, op, b, n, v).asked = n
    BY RestRow
  <2>3. row \in SshRows /\ row.at = "idle" /\ row.asked = 1
    BY <2>2
  <2> QED BY <2>1, <2>3
<1> HIDE DEF row
<1>3. ssh' \in [Issuers -> SshRows] /\ Others(c) /\ ssh'[c] = row
  BY <1>1, <1>2, RowSet DEF row
<1>4. SocketTypes'
  BY <1>3 DEF SocketInv, SocketTypes
<1>5. Granted(c)'
  BY <1>2, <1>3 DEF Granted
<1>6. \A x \in Places : \A s \in Serials : Known(x, s)' => Known(x, s)
  <2>1. \A x \in Places : \A s \in Serials : ~ Fresh(c, x, s)' /\ ~ Resolves(c, x, s)'
    BY <1>2, <1>3 DEF Fresh, Resolves
  <2>2. \A x \in Places : \A s \in Serials : Cached(x, s)' => Known(x, s)
    BY DEF Cached, Known
  <2> QED BY <1>1, <1>3, <2>1, <2>2, KnownKept
<1>7. Distinct'
  BY <1>6, DistinctKept DEF SocketInv
<1>8. Permitted'
  <2>1. SUFFICES ASSUME NEW d \in Conns, ssh'[d].at = "signed"
                 PROVE  \E i \in Matches(d)' : ~ Refused(d, i)'
    BY DEF Permitted
  <2>2. d # c
    BY <1>2, <1>3, <2>1
  <2>3. ssh'[d] = ssh[d] /\ forwarded'[d] = forwarded[d]
    BY <1>3, <2>2, ViewKinds DEF Others
  <2>4. PICK i \in Matches(d) : ~ Refused(d, i)
    BY <2>1, <2>3 DEF SocketInv, Permitted
  <2>5. i \in Matches(d)' /\ ~ Refused(d, i)'
    BY <2>3, <2>4 DEF Matches, Refused
  <2> QED BY <2>5
<1>9. ssh'[Refresher].items = {}
  BY <1>1, <1>3, ViewKinds DEF SocketInv, Others
<1> QED BY <1>1, <1>3, <1>4, <1>5, <1>7, <1>8, <1>9, OthersGranted DEF SocketInv

LEMMA BindStep ==
    ASSUME Shared, SocketInv, NEW c \in Conns, NEW f \in BOOLEAN, Bind(c, f)
    PROVE  SocketInv'
<1>1. [IdleSSH EXCEPT !.view = ssh[c].view] = Rest("idle", "list", None, 1, ssh[c].view)
  <2>1. SUFFICES ASSUME NEW r, r = [IdleSSH EXCEPT !.view = ssh[c].view]
                 PROVE  r = Rest("idle", "list", None, 1, ssh[c].view)
    OBVIOUS
  <2>2. r = [at |-> "idle", op |-> "list", blob |-> None, asked |-> 1, view |-> ssh[c].view,
             todo |-> {}, items |-> {}, got |-> None]
    BY <2>1 DEF IdleSSH
  <2> QED BY <2>2 DEF Rest
<1>2. /\ ssh' = [ssh EXCEPT ![c] = Rest("idle", "list", None, 1, ssh[c].view)]
      /\ forwarded' = [forwarded EXCEPT ![c] = forwarded[c] \/ f]
      /\ forwarding' = [forwarding EXCEPT ![c] = forwarding[c] \/ f]
      /\ UNCHANGED <<views, certs, serials>>
  BY <1>1 DEF Bind, cacheVars
<1>3. /\ forwarded \in [Conns -> BOOLEAN] /\ forwarding = forwarded
      /\ ssh[c].view \in Views \cup {None}
  BY ViewKinds DEF SocketInv, SocketTypes, SshRows
<1>4. /\ forwarded' \in [Conns -> BOOLEAN] /\ forwarding' = forwarded'
      /\ \A d \in Conns : d # c => forwarded'[d] = forwarded[d]
  <2>1. (forwarded[c] \/ f) \in BOOLEAN
    OBVIOUS
  <2> QED BY <1>2, <1>3, <2>1
<1> QED BY <1>2, <1>3, <1>4, ResetStep

LEMMA ReconnectStep ==
    ASSUME Shared, SocketInv, NEW c \in Conns, Reconnect(c)
    PROVE  SocketInv'
<1>1. IdleSSH = Rest("idle", "list", None, 1, None)
  BY DEF IdleSSH, Rest
<1>2. /\ ssh' = [ssh EXCEPT ![c] = Rest("idle", "list", None, 1, None)]
      /\ forwarded' = [forwarded EXCEPT ![c] = FALSE]
      /\ forwarding' = [forwarding EXCEPT ![c] = FALSE]
      /\ UNCHANGED <<views, certs, serials>>
  BY <1>1 DEF Reconnect, cacheVars
<1>3. forwarded \in [Conns -> BOOLEAN] /\ forwarding = forwarded
  BY DEF SocketInv, SocketTypes
<1>4. /\ forwarded' \in [Conns -> BOOLEAN] /\ forwarding' = forwarded'
      /\ \A d \in Conns : d # c => forwarded'[d] = forwarded[d]
  BY <1>2, <1>3
<1> QED BY <1>2, <1>4, ResetStep

LEMMA RefreshTickStep ==
    ASSUME Shared, SocketInv, RefreshTick
    PROVE  SocketInv'
<1> DEFINE p == Refresher
           row == [ssh[p] EXCEPT !.at = "roles", !.view = Current,
                                 !.todo = Current.offers \cap Roles]
<1>1. /\ Usable(Current) /\ UNCHANGED <<views, certs, serials, forwarded, forwarding>>
      /\ ssh' = [ssh EXCEPT ![p].at = "roles", ![p].view = Current,
                            ![p].todo = Current.offers \cap Roles]
  BY DEF RefreshTick, cacheVars
<1>2. /\ p \in Issuers /\ ssh \in [Issuers -> SshRows] /\ ssh[p] \in SshRows /\ Granted(p)
      /\ Current \in Views /\ Current \in View /\ ssh[p].items = {}
  BY <1>1, ViewKinds, CurrentView DEF SocketInv, SocketTypes
<1> HIDE DEF p
<1>3. row \in SshRows
  <2>1. Current.offers \cap Roles \in SUBSET Roles
    OBVIOUS
  <2> QED BY <1>2, <2>1 DEF SshRows
<1>4. /\ row.at = "roles" /\ row.asked = ssh[p].asked /\ row.view = Current
      /\ row.todo = Current.offers \cap Roles /\ row.items = {}
  BY <1>2 DEF SshRows
<1>5. ssh' = [ssh EXCEPT ![p] = row]
  BY <1>1, <1>2
<1> HIDE DEF row
<1>6. ssh' \in [Issuers -> SshRows] /\ Others(p) /\ ssh'[p] = row
  BY <1>2, <1>3, <1>5, RowSet
<1>7. Granted(p)'
  <2>1. ssh[p].asked \in 1 .. Len(views)
    BY <1>2 DEF Granted
  <2>2. Len(views) \in ssh[p].asked .. Len(views) /\ views[Len(views)] = Current
    BY <2>1, CurrentView
  <2> QED BY <1>1, <1>2, <1>4, <1>6, <2>1, <2>2 DEF Granted
<1>8. \A x \in Places : \A s \in Serials : ~ Fresh(p, x, s)' /\ ~ Resolves(p, x, s)'
  BY <1>4, <1>6 DEF Fresh, Resolves
<1> QED BY <1>1, <1>2, <1>4, <1>6, <1>7, <1>8, RowStep

LEMMA RefreshDoneStep ==
    ASSUME Shared, SocketInv, RefreshDone
    PROVE  SocketInv'
<1> DEFINE row == Rest("idle", "list", None, 1, None)
<1>1. IdleSSH = row
  BY DEF IdleSSH, Rest
<1>2. row \in SshRows /\ row.at = "idle" /\ row.asked = 1 /\ row.items = {}
  BY RestRow
<1> HIDE DEF row
<1>2a. 1 \in 1 .. Len(views)
  BY CurrentView
<1>3. /\ ssh' = [ssh EXCEPT ![Refresher] = row]
      /\ UNCHANGED <<views, certs, serials, forwarded, forwarding>>
  BY <1>1 DEF RefreshDone, cacheVars
<1>4. ssh \in [Issuers -> SshRows] /\ Refresher \in Issuers
  BY ViewKinds DEF SocketInv, SocketTypes
<1>5. ssh' \in [Issuers -> SshRows] /\ Others(Refresher) /\ ssh'[Refresher] = row
  BY <1>2, <1>3, <1>4, RowSet
<1> QED BY <1>2, <1>2a, <1>3, <1>4, <1>5, RestStep

(* Steps that leave every request as it is.                                *)
LEMMA ReissueStep ==
    ASSUME Shared, SocketInv, NEW x \in Places, NeedsReissue(x)
    PROVE  SocketInv'
<1>1. /\ certs[x] # None /\ certs' = [certs EXCEPT ![x].due = TRUE]
      /\ UNCHANGED <<views, serials, ssh, forwarded, forwarding>>
  BY DEF NeedsReissue, sshVars
<1>2. certs \in [Places -> Certificate \cup {None}] /\ certs[x] \in Certificate
  BY <1>1 DEF SocketInv, SocketTypes
<1> DEFINE entry == [certs[x] EXCEPT !.due = TRUE]
<1>3. entry \in Certificate /\ entry.serial = certs[x].serial
  BY <1>2 DEF Certificate
<1>4. certs' = [certs EXCEPT ![x] = entry]
  BY <1>1, <1>2
<1> HIDE DEF entry
<1>5. /\ certs' \in [Places -> Certificate \cup {None}] /\ certs'[x] = entry
      /\ \A y \in Places : y # x => certs'[y] = certs[y]
  BY <1>2, <1>3, <1>4
<1>6. \A y \in Places : \A s \in Serials : Cached(y, s)' => Known(y, s)
  BY <1>1, <1>3, <1>5 DEF Cached, Known
<1>7. \A y \in Places : \A s \in Serials : Known(y, s)' => Known(y, s)
  BY <1>1, <1>6 DEF Known, Fresh, Resolves
<1>8. Distinct'
  BY <1>1, <1>7, DistinctKept DEF SocketInv
<1>9. SocketTypes'
  BY <1>1, <1>5 DEF SocketInv, SocketTypes
<1>10. Permitted' /\ \A q \in Issuers : Granted(q)'
  BY <1>1 DEF SocketInv, Permitted, Matches, Refused, Granted
<1> QED BY <1>1, <1>8, <1>9, <1>10 DEF SocketInv

LEMMA SocketKept ==
    ASSUME SocketInv, UNCHANGED <<views, certs, serials, ssh, forwarded, forwarding>>
    PROVE  SocketInv'
<1>1. Distinct'
  BY DEF SocketInv, Distinct, Known, Cached, Fresh, Resolves
<1>2. Permitted' /\ SocketTypes'
  BY DEF SocketInv, Permitted, Matches, Refused, SocketTypes
<1>3. \A q \in Issuers : Granted(q)'
  BY DEF SocketInv, Granted
<1> QED BY <1>1, <1>2, <1>3 DEF SocketInv

LEMMA ChangeViewStep ==
    ASSUME Shared, SocketInv, ChangeView
    PROVE  SocketInv' /\ views' \in Seq(Views) /\ views' # << >>
<1>1. PICK v \in Views : views' = Append(views, v)
  BY DEF ChangeView
<1>2. UNCHANGED <<certs, serials, ssh, forwarded, forwarding>>
  BY DEF ChangeView, cacheVars, sshVars
<1>3. /\ views' \in Seq(Views) /\ views' # << >> /\ Len(views') = Len(views) + 1
      /\ Len(views) \in Nat /\ \A i \in 1 .. Len(views) : views'[i] = views[i]
  BY <1>1 DEF Shared
<1>4. ASSUME NEW q \in Issuers PROVE Granted(q)'
  <2>1. Granted(q) /\ ssh'[q] = ssh[q]
    BY <1>2, <1>4 DEF SocketInv
  <2>2. ssh[q].asked \in 1 .. Len(views')
    BY <1>3, <2>1 DEF Granted
  <2>3. \A i \in ssh[q].asked .. Len(views) :
           i \in ssh[q].asked .. Len(views') /\ i \in 1 .. Len(views)
    BY <1>3, <2>1 DEF Granted
  <2> QED BY <1>3, <2>1, <2>2, <2>3 DEF Granted
<1>5. Distinct'
  BY <1>2 DEF SocketInv, Distinct, Known, Cached, Fresh, Resolves
<1>6. Permitted' /\ SocketTypes'
  BY <1>2 DEF SocketInv, Permitted, Matches, Refused, SocketTypes
<1> QED BY <1>2, <1>3, <1>4, <1>5, <1>6 DEF SocketInv

-----------------------------------------------------------------------------
(* Steps of the vault socket.                                              *)

OtherRequests(v) == \A w \in Vaults : w # v => vault'[w] = vault[w]

LEMMA VaultSet ==
    ASSUME vault \in [Vaults -> VaultRows], NEW v \in Vaults, NEW row \in VaultRows,
           vault' = [vault EXCEPT ![v] = row]
    PROVE  vault' \in [Vaults -> VaultRows] /\ OtherRequests(v) /\ vault'[v] = row
  BY DEF OtherRequests

LEMMA OwnerKinds ==
    ASSUME WrapInv
    PROVE  /\ DOMAIN owner \subseteq Tokens
           /\ \A t \in DOMAIN owner : owner[t] \in BindingIds
  BY ViewKinds DEF WrapInv, WrapTypes, Tokens

LEMMA OthersCarry ==
    ASSUME NEW v \in Vaults, OtherRequests(v), NEW w \in Vaults, w # v, NEW t
    PROVE  Carries(w, t)' = Carries(w, t)
<1>1. vault'[w] = vault[w]
  BY DEF OtherRequests
<1> QED BY <1>1 DEF Carries

(* The request ends with empty hands, and nothing else changes.            *)
LEMMA ReleaseStep ==
    ASSUME WrapInv, NEW v \in Vaults, vault' \in [Vaults -> VaultRows], OtherRequests(v),
           UNCHANGED <<wrapped, owner, unwraps>>, \A t \in Tokens : ~ Carries(v, t)',
           Forwarded(v)'
    PROVE  WrapInv'
<1>1. WrapTypes' /\ Remembered' /\ UnwrappedOnceByOwner'
  BY DEF WrapInv, WrapTypes, Remembered, UnwrappedOnceByOwner
<1>2. ASSUME NEW w \in Vaults PROVE Forwarded(w)'
  <2>1. CASE w = v
    BY <2>1
  <2>2. CASE w # v
    <3>1. vault'[w] = vault[w] /\ Forwarded(w)
      BY <2>2 DEF OtherRequests, WrapInv
    <3> QED BY <3>1 DEF Forwarded
  <2> QED BY <2>1, <2>2
<1>3. \A w \in Vaults : \A t \in Tokens :
         Carries(w, t)' => Carries(w, t) /\ w # v /\ vault'[w] = vault[w]
  BY OthersCarry DEF OtherRequests
<1>4. InHand'
  <2>1. SUFFICES ASSUME NEW w \in Vaults, NEW t \in Tokens, Carries(w, t)'
                 PROVE  /\ t \in DOMAIN owner /\ owner[t] = vault'[w].view.id /\ unwraps[t] = << >>
                        /\ \A b \in BindingIds : t \notin wrapped[b]
                        /\ \A u \in Vaults : Carries(u, t)' => u = w
    BY DEF InHand
  <2>2. Carries(w, t) /\ vault'[w] = vault[w]
    BY <1>3, <2>1
  <2> QED BY <1>3, <2>2 DEF WrapInv, InHand
<1> QED BY <1>1, <1>2, <1>4 DEF WrapInv

LEMMA VaultAskStep ==
    ASSUME WrapInv, NEW v \in Vaults, NEW op \in {"wrap", "unwrap"},
           NEW t \in Tokens \cup {None}, VaultAsk(v, op, t)
    PROVE  WrapInv'
<1> DEFINE row == [at |-> "asked", op |-> op, token |-> t, view |-> None]
<1>1. /\ vault' = [vault EXCEPT ![v] = row] /\ UNCHANGED <<wrapped, owner, unwraps>>
      /\ op = "unwrap" => t \in DOMAIN owner
  BY DEF VaultAsk, wrapVars
<1>2. row \in VaultRows /\ row.at = "asked" /\ row.op = op /\ row.token = t
  BY DEF VaultRows
<1> HIDE DEF row
<1>3. vault' \in [Vaults -> VaultRows] /\ OtherRequests(v) /\ vault'[v] = row
  BY <1>1, <1>2, VaultSet DEF WrapInv, WrapTypes
<1>4. Forwarded(v)' /\ \A x \in Tokens : ~ Carries(v, x)'
  BY <1>1, <1>2, <1>3 DEF Forwarded, Carries
<1> QED BY <1>1, <1>3, <1>4, ReleaseStep

LEMMA RoundTripFailsStep ==
    ASSUME WrapInv, NEW v \in Vaults, RoundTripFails(v)
    PROVE  WrapInv'
<1> DEFINE row == [vault[v] EXCEPT !.at = "answered"]
<1>1. vault' = [vault EXCEPT ![v] = row] /\ UNCHANGED <<wrapped, owner, unwraps>>
  BY DEF RoundTripFails, wrapVars, WrapInv, WrapTypes
<1>2. vault \in [Vaults -> VaultRows] /\ vault[v] \in VaultRows /\ Forwarded(v)
  BY DEF WrapInv, WrapTypes
<1>3. row \in VaultRows /\ row.at = "answered" /\ row.op = vault[v].op /\ row.token = vault[v].token
  BY <1>2 DEF VaultRows
<1> HIDE DEF row
<1>4. vault' \in [Vaults -> VaultRows] /\ OtherRequests(v) /\ vault'[v] = row
  BY <1>1, <1>2, <1>3, VaultSet
<1>5. Forwarded(v)' /\ \A x \in Tokens : ~ Carries(v, x)'
  BY <1>1, <1>2, <1>3, <1>4 DEF Forwarded, Carries
<1> QED BY <1>1, <1>4, <1>5, ReleaseStep

LEMMA VaultServeStep ==
    ASSUME Shared, WrapInv, NEW v \in Vaults, VaultServe(v)
    PROVE  WrapInv'
<1> DEFINE t == vault[v].token
           unwrap == vault[v].op = "unwrap"
           forwards == Usable(Current) /\ (unwrap => Unwrappable(Current.id, t))
<1>1. /\ UNCHANGED <<owner, unwraps>> /\ vault[v].at = "asked"
      /\ vault' = [vault EXCEPT ![v].view = Current,
                                ![v].at = IF forwards THEN "forward" ELSE "answered"]
      /\ IF forwards /\ unwrap THEN wrapped' = [wrapped EXCEPT ![Current.id] = @ \ {t}]
                               ELSE UNCHANGED wrapped
  BY DEF VaultServe, ConsumeWrapped
<1>2. vault \in [Vaults -> VaultRows] /\ vault[v] \in VaultRows /\ Forwarded(v)
  BY DEF WrapInv, WrapTypes
<1>3. Current \in Views /\ (forwards => Current \in View)
  BY CurrentView
<1>4. (unwrap <=> vault[v].op = "unwrap") /\ (forwards /\ unwrap => Unwrappable(Current.id, t))
  OBVIOUS
<1> HIDE DEF forwards, unwrap
<1>5. PICK at \in {"forward", "answered"} :
        /\ vault' = [vault EXCEPT ![v].view = Current, ![v].at = at]
        /\ at = "forward" <=> forwards
  BY <1>1
<1> DEFINE row == [vault[v] EXCEPT !.view = Current, !.at = at]
<1>6. /\ row \in VaultRows /\ row.at = at /\ row.op = vault[v].op /\ row.token = t
      /\ row.view = Current
  BY <1>2, <1>3, <1>5 DEF VaultRows
<1>7. vault' = [vault EXCEPT ![v] = row]
  BY <1>2, <1>5
<1> HIDE DEF row
<1>8. vault' \in [Vaults -> VaultRows] /\ OtherRequests(v) /\ vault'[v] = row
  BY <1>2, <1>6, <1>7, VaultSet
<1>9. Forwarded(v)'
  BY <1>1, <1>2, <1>3, <1>5, <1>6, <1>8 DEF Forwarded
<1>10. CASE ~ (forwards /\ unwrap)
  <2>1. \A x \in Tokens : ~ Carries(v, x)'
    BY <1>4, <1>5, <1>6, <1>8, <1>10 DEF Carries
  <2> QED BY <1>1, <1>8, <1>9, <1>10, <2>1, ReleaseStep
<1>11. CASE forwards /\ unwrap
  <2> DEFINE id == Current.id
  <2>1. id \in BindingIds /\ t \in wrapped[id] /\ t \in Tokens
    <3>1. Current \in View /\ t \in wrapped[id]
      BY <1>3, <1>4, <1>11 DEF Unwrappable
    <3>2. id \in BindingIds
      BY <3>1 DEF View
    <3> QED BY <3>1, <3>2 DEF WrapInv, WrapTypes
  <2>2. t \in DOMAIN owner /\ owner[t] = id /\ unwraps[t] = << >>
    BY <2>1 DEF WrapInv, Remembered
  <2>3. wrapped' = [wrapped EXCEPT ![id] = wrapped[id] \ {t}]
    BY <1>1, <1>11 DEF WrapInv, WrapTypes
  <2> HIDE DEF id
  <2>4. /\ wrapped' \in [BindingIds -> SUBSET Tokens] /\ t \notin wrapped'[id]
        /\ \A b \in BindingIds : wrapped'[b] \subseteq wrapped[b]
    BY <2>1, <2>3 DEF WrapInv, WrapTypes
  <2>5. \A b \in BindingIds : t \notin wrapped'[b]
    BY <2>2, <2>4 DEF WrapInv, Remembered
  <2>6. WrapTypes' /\ Remembered' /\ UnwrappedOnceByOwner'
    BY <1>1, <1>8, <2>4 DEF WrapInv, WrapTypes, Remembered, UnwrappedOnceByOwner
  <2>7. \A w \in Vaults : \A x \in Tokens : w # v /\ Carries(w, x)' =>
           /\ Carries(w, x) /\ vault'[w] = vault[w] /\ x # t
    <3>1. \A w \in Vaults : \A x \in Tokens : w # v /\ Carries(w, x)' =>
             Carries(w, x) /\ vault'[w] = vault[w]
      BY <1>8, OthersCarry DEF OtherRequests
    <3>2. \A w \in Vaults : \A x \in Tokens : Carries(w, x) => x # t
      BY <2>1 DEF WrapInv, InHand
    <3> QED BY <3>1, <3>2
  <2>8. \A x \in Tokens : Carries(v, x)' => x = t
    BY <1>6, <1>8 DEF Carries
  <2>9. vault'[v].view.id = id
    BY <1>6, <1>8 DEF id
  <2>10. InHand'
    <3>1. SUFFICES ASSUME NEW w \in Vaults, NEW x \in Tokens, Carries(w, x)'
                   PROVE  /\ x \in DOMAIN owner /\ owner[x] = vault'[w].view.id
                          /\ unwraps[x] = << >> /\ \A b \in BindingIds : x \notin wrapped'[b]
                          /\ \A u \in Vaults : Carries(u, x)' => u = w
      BY <1>1 DEF InHand
    <3>2. CASE w = v
      BY <2>2, <2>5, <2>7, <2>8, <2>9, <3>1, <3>2
    <3>3. CASE w # v
      <4>1. Carries(w, x) /\ vault'[w] = vault[w] /\ x # t
        BY <2>7, <3>1, <3>3
      <4>2. /\ x \in DOMAIN owner /\ owner[x] = vault[w].view.id /\ unwraps[x] = << >>
            /\ \A b \in BindingIds : x \notin wrapped[b]
            /\ \A u \in Vaults : Carries(u, x) => u = w
        BY <4>1 DEF WrapInv, InHand
      <4> QED BY <2>4, <2>7, <2>8, <4>1, <4>2
    <3> QED BY <3>2, <3>3
  <2>11. ASSUME NEW w \in Vaults PROVE Forwarded(w)'
    <3>1. w # v => vault'[w] = vault[w] /\ Forwarded(w)
      BY <1>8 DEF OtherRequests, WrapInv
    <3> QED BY <1>1, <1>9, <3>1 DEF Forwarded
  <2>12. \A x \in Tokens \ DOMAIN owner' : unwraps'[x] = << >>
    BY <1>1 DEF WrapInv
  <2> QED BY <2>6, <2>10, <2>11, <2>12 DEF WrapInv
<1> QED BY <1>10, <1>11

(* OpenBao numbers the tokens it makes.                                    *)
LEMMA NewToken ==
    ASSUME WrapInv, Cardinality(DOMAIN owner) + 1 \in Tokens
    PROVE  \E n \in 0 .. MaxTokens :
              /\ owner \in [1 .. n -> BindingIds] /\ Cardinality(DOMAIN owner) + 1 = n + 1
              /\ n + 1 \in 0 .. MaxTokens /\ n + 1 \notin DOMAIN owner
              /\ DOMAIN owner \cup {n + 1} = 1 .. n + 1
<1>1. PICK n \in 0 .. MaxTokens : owner \in [1 .. n -> BindingIds]
  BY DEF WrapInv, WrapTypes
<1>2. DOMAIN owner = 1 .. n /\ n \in Nat
  BY <1>1, ViewKinds
<1>3. Cardinality(1 .. n) = n
  <2>1. Cardinality(1 .. n) = IF 1 > n THEN 0 ELSE n - 1 + 1
    BY <1>2, FS_Interval
  <2> QED BY <1>2, <2>1
<1>4. n + 1 \in 0 .. MaxTokens /\ n + 1 \notin 1 .. n /\ (1 .. n) \cup {n + 1} = 1 .. n + 1
  BY <1>2, <1>3, ViewKinds DEF Tokens
<1> QED BY <1>1, <1>2, <1>3, <1>4

LEMMA WrapStep ==
    ASSUME WrapInv, NEW v \in Vaults, Wrap(v)
    PROVE  WrapInv'
<1> DEFINE t == Cardinality(DOMAIN owner) + 1
           row == [vault[v] EXCEPT !.at = "response", !.token = t]
<1>1. /\ vault[v].at = "forward" /\ t \in Tokens /\ UNCHANGED <<wrapped, unwraps>>
      /\ vault[v].op = "wrap"
      /\ owner' = [x \in DOMAIN owner \cup {t} |-> IF x = t THEN vault[v].view.id ELSE owner[x]]
      /\ vault' = [vault EXCEPT ![v].at = "response", ![v].token = t]
  BY DEF Wrap
<1>2. PICK n \in 0 .. MaxTokens :
              /\ owner \in [1 .. n -> BindingIds] /\ t = n + 1
              /\ n + 1 \in 0 .. MaxTokens /\ t \notin DOMAIN owner
              /\ DOMAIN owner \cup {t} = 1 .. n + 1
  BY <1>1, NewToken
<1> HIDE DEF t
<1>3. vault \in [Vaults -> VaultRows] /\ vault[v] \in VaultRows /\ Forwarded(v)
  BY DEF WrapInv, WrapTypes
<1>4. vault[v].view \in View /\ vault[v].view.id \in BindingIds
  <2>1. vault[v].view \in View
    BY <1>1, <1>3 DEF Forwarded
  <2> QED BY <2>1 DEF View
<1>5. /\ row \in VaultRows /\ row.at = "response" /\ row.token = t /\ row.op = "wrap"
      /\ row.view = vault[v].view
  BY <1>1, <1>3 DEF VaultRows
<1>6. vault' = [vault EXCEPT ![v] = row]
  BY <1>1, <1>3
<1> HIDE DEF row
<1>7. vault' \in [Vaults -> VaultRows] /\ OtherRequests(v) /\ vault'[v] = row
  BY <1>3, <1>5, <1>6, VaultSet
<1>8. /\ owner' \in [1 .. n + 1 -> BindingIds] /\ owner'[t] = vault[v].view.id
      /\ DOMAIN owner' = DOMAIN owner \cup {t} /\ \A x \in DOMAIN owner : owner'[x] = owner[x]
  BY <1>1, <1>2, <1>4
<1>9. WrapTypes'
  BY <1>1, <1>2, <1>7, <1>8 DEF WrapInv, WrapTypes
<1>10. Remembered'
  BY <1>1, <1>8 DEF WrapInv, Remembered
<1>11. unwraps[t] = << >> /\ \A b \in BindingIds : t \notin wrapped[b]
  BY <1>1, <1>2 DEF WrapInv, Remembered
<1>12. \A w \in Vaults : \A x \in Tokens : w # v /\ Carries(w, x)' =>
           /\ Carries(w, x) /\ vault'[w] = vault[w] /\ x # t
  <2>1. \A w \in Vaults : \A x \in Tokens : w # v /\ Carries(w, x)' =>
           Carries(w, x) /\ vault'[w] = vault[w]
    BY <1>7, OthersCarry DEF OtherRequests
  <2>2. \A w \in Vaults : \A x \in Tokens : Carries(w, x) => x # t
    BY <1>2 DEF WrapInv, InHand
  <2> QED BY <2>1, <2>2
<1>13. \A x \in Tokens : Carries(v, x)' => x = t
  BY <1>5, <1>7 DEF Carries
<1>14. InHand'
  <2>1. SUFFICES ASSUME NEW w \in Vaults, NEW x \in Tokens, Carries(w, x)'
                 PROVE  /\ x \in DOMAIN owner' /\ owner'[x] = vault'[w].view.id
                        /\ unwraps[x] = << >> /\ \A b \in BindingIds : x \notin wrapped[b]
                        /\ \A u \in Vaults : Carries(u, x)' => u = w
    BY <1>1 DEF InHand
  <2>2. CASE w = v
    BY <1>5, <1>7, <1>8, <1>11, <1>12, <1>13, <2>1, <2>2
  <2>3. CASE w # v
    <3>1. Carries(w, x) /\ vault'[w] = vault[w] /\ x # t
      BY <1>12, <2>1, <2>3
    <3>2. /\ x \in DOMAIN owner /\ owner[x] = vault[w].view.id /\ unwraps[x] = << >>
          /\ \A b \in BindingIds : x \notin wrapped[b]
          /\ \A u \in Vaults : Carries(u, x) => u = w
      BY <3>1 DEF WrapInv, InHand
    <3> QED BY <1>8, <1>12, <1>13, <3>1, <3>2
  <2> QED BY <2>2, <2>3
<1>15. ASSUME NEW w \in Vaults PROVE Forwarded(w)'
  <2>1. CASE w = v
    BY <1>1, <1>4, <1>5, <1>7, <2>1 DEF Forwarded
  <2>2. CASE w # v
    <3>1. vault'[w] = vault[w] /\ Forwarded(w)
      BY <1>7, <2>2 DEF OtherRequests, WrapInv
    <3> QED BY <1>8, <3>1 DEF Forwarded
  <2> QED BY <2>1, <2>2
<1>16. UnwrappedOnceByOwner'
  BY <1>1, <1>8, <1>11 DEF WrapInv, UnwrappedOnceByOwner
<1>17. \A x \in Tokens \ DOMAIN owner' : unwraps'[x] = << >>
  BY <1>1, <1>8 DEF WrapInv
<1> QED BY <1>9, <1>10, <1>14, <1>15, <1>16, <1>17 DEF WrapInv

(* The token in the hands of v, and what the other requests have.          *)
LEMMA TokenInHand ==
    ASSUME WrapInv, NEW v \in Vaults, NEW t, Carries(v, t)
    PROVE  /\ t \in Tokens /\ t \in DOMAIN owner /\ owner[t] = vault[v].view.id
           /\ owner[t] \in BindingIds /\ unwraps[t] = << >>
           /\ \A b \in BindingIds : t \notin wrapped[b]
           /\ \A w \in Vaults : Carries(w, t) => w = v
<1>1. t \in Tokens
  BY OwnerKinds DEF WrapInv, Forwarded, Carries
<1>2. t \in DOMAIN owner
  BY <1>1 DEF WrapInv, InHand
<1> QED BY <1>1, <1>2, OwnerKinds DEF WrapInv, InHand

LEMMA RespondStep ==
    ASSUME WrapInv, NEW v \in Vaults, Respond(v)
    PROVE  WrapInv'
<1> DEFINE t == vault[v].token
           id == vault[v].view.id
           row == [vault[v] EXCEPT !.at = "answered"]
<1>1. /\ vault[v].at = "response" /\ UNCHANGED <<owner, unwraps>>
      /\ vault' = [vault EXCEPT ![v].at = "answered"] /\ RememberWrapped(id, t)
  BY DEF Respond
<1>2. Carries(v, t)
  BY <1>1 DEF Carries
<1>3. /\ t \in Tokens /\ t \in DOMAIN owner /\ owner[t] = id /\ id \in BindingIds
      /\ unwraps[t] = << >> /\ \A b \in BindingIds : t \notin wrapped[b]
      /\ \A w \in Vaults : Carries(w, t) => w = v
  BY <1>2, TokenInHand
<1>4. vault \in [Vaults -> VaultRows] /\ vault[v] \in VaultRows /\ Forwarded(v)
  BY DEF WrapInv, WrapTypes
<1>5. row \in VaultRows /\ row.at = "answered" /\ row.op = vault[v].op /\ row.token = t
  BY <1>4 DEF VaultRows
<1>6. vault' = [vault EXCEPT ![v] = row]
  BY <1>1, <1>4
<1> HIDE DEF row
<1>7. vault' \in [Vaults -> VaultRows] /\ OtherRequests(v) /\ vault'[v] = row
  BY <1>4, <1>5, <1>6, VaultSet
<1>8. PICK L : /\ L \subseteq wrapped[id] \cup {t}
              /\ wrapped' = [wrapped EXCEPT ![id] = L]
  BY <1>1 DEF RememberWrapped
<1> HIDE DEF t, id
<1>9. /\ wrapped' \in [BindingIds -> SUBSET Tokens] /\ wrapped'[id] \subseteq wrapped[id] \cup {t}
      /\ \A b \in BindingIds : b # id => wrapped'[b] = wrapped[b]
  BY <1>3, <1>8 DEF WrapInv, WrapTypes
<1>10. WrapTypes'
  BY <1>1, <1>7, <1>9 DEF WrapInv, WrapTypes
<1>11. Remembered'
  <2>1. SUFFICES ASSUME NEW b \in BindingIds, NEW x \in wrapped'[b]
                 PROVE  x \in DOMAIN owner /\ owner[x] = b /\ unwraps[x] = << >>
    BY <1>1 DEF Remembered
  <2>2. x \in wrapped[b] \/ (x = t /\ b = id)
    BY <1>9, <2>1
  <2> QED BY <1>3, <2>2 DEF WrapInv, Remembered
<1>12. \A w \in Vaults : \A x \in Tokens :
         Carries(w, x)' => Carries(w, x) /\ w # v /\ vault'[w] = vault[w]
  <2>1. \A x \in Tokens : ~ Carries(v, x)'
    BY <1>5, <1>7 DEF Carries
  <2> QED BY <1>7, <2>1, OthersCarry DEF OtherRequests
<1>13. InHand'
  <2>1. SUFFICES ASSUME NEW w \in Vaults, NEW x \in Tokens, Carries(w, x)'
                 PROVE  /\ x \in DOMAIN owner /\ owner[x] = vault'[w].view.id
                        /\ unwraps[x] = << >> /\ \A b \in BindingIds : x \notin wrapped'[b]
                        /\ \A u \in Vaults : Carries(u, x)' => u = w
    BY <1>1 DEF InHand
  <2>2. Carries(w, x) /\ w # v /\ vault'[w] = vault[w] /\ x # t
    BY <1>3, <1>12, <2>1
  <2>3. /\ x \in DOMAIN owner /\ owner[x] = vault[w].view.id /\ unwraps[x] = << >>
        /\ \A b \in BindingIds : x \notin wrapped[b]
        /\ \A u \in Vaults : Carries(u, x) => u = w
    BY <2>2 DEF WrapInv, InHand
  <2>4. \A b \in BindingIds : x \notin wrapped'[b]
    BY <1>9, <2>2, <2>3
  <2> QED BY <1>12, <2>2, <2>3, <2>4
<1>14. ASSUME NEW w \in Vaults PROVE Forwarded(w)'
  <2>1. CASE w = v
    BY <1>1, <1>4, <1>5, <1>7, <2>1 DEF Forwarded, t
  <2>2. CASE w # v
    <3>1. vault'[w] = vault[w] /\ Forwarded(w)
      BY <1>7, <2>2 DEF OtherRequests, WrapInv
    <3> QED BY <1>1, <3>1 DEF Forwarded
  <2> QED BY <2>1, <2>2
<1>15. UnwrappedOnceByOwner' /\ \A x \in Tokens \ DOMAIN owner' : unwraps'[x] = << >>
  BY <1>1 DEF WrapInv, UnwrappedOnceByOwner
<1> QED BY <1>10, <1>11, <1>13, <1>14, <1>15 DEF WrapInv

LEMMA UnwrapStep ==
    ASSUME WrapInv, NEW v \in Vaults, Unwrap(v)
    PROVE  WrapInv'
<1> DEFINE t == vault[v].token
           id == vault[v].view.id
           row == [vault[v] EXCEPT !.at = "answered"]
<1>1. /\ vault[v].at = "forward" /\ vault[v].op = "unwrap" /\ UNCHANGED <<owner, wrapped>>
      /\ vault' = [vault EXCEPT ![v].at = "answered"]
      /\ unwraps' = [unwraps EXCEPT ![t] = Append(unwraps[t], id)]
  BY DEF Unwrap, WrapInv, WrapTypes
<1>2. Carries(v, t)
  BY <1>1 DEF Carries
<1>3. /\ t \in Tokens /\ t \in DOMAIN owner /\ owner[t] = id /\ id \in BindingIds
      /\ unwraps[t] = << >> /\ \A b \in BindingIds : t \notin wrapped[b]
      /\ \A w \in Vaults : Carries(w, t) => w = v
  BY <1>2, TokenInHand
<1>4. vault \in [Vaults -> VaultRows] /\ vault[v] \in VaultRows /\ Forwarded(v)
  BY DEF WrapInv, WrapTypes
<1>5. row \in VaultRows /\ row.at = "answered" /\ row.op = vault[v].op /\ row.token = t
  BY <1>4 DEF VaultRows
<1>6. vault' = [vault EXCEPT ![v] = row]
  BY <1>1, <1>4
<1> HIDE DEF row
<1>7. vault' \in [Vaults -> VaultRows] /\ OtherRequests(v) /\ vault'[v] = row
  BY <1>4, <1>5, <1>6, VaultSet
<1> HIDE DEF t, id
<1>8. Append(unwraps[t], id) = <<id>> /\ <<id>> \in Seq(BindingIds)
  BY <1>3
<1>9. /\ unwraps' \in [Tokens -> Seq(BindingIds)] /\ unwraps'[t] = <<owner[t]>>
      /\ \A x \in Tokens : x # t => unwraps'[x] = unwraps[x]
  BY <1>1, <1>3, <1>8 DEF WrapInv, WrapTypes
<1>10. WrapTypes'
  BY <1>1, <1>7, <1>9 DEF WrapInv, WrapTypes
<1>11. Remembered'
  <2>1. \A b \in BindingIds : \A x \in wrapped[b] : x \in Tokens /\ x # t
    BY <1>3 DEF WrapInv, WrapTypes
  <2> QED BY <1>1, <1>9, <2>1 DEF WrapInv, Remembered
<1>12. \A w \in Vaults : \A x \in Tokens :
         Carries(w, x)' => Carries(w, x) /\ w # v /\ vault'[w] = vault[w]
  <2>1. \A x \in Tokens : ~ Carries(v, x)'
    BY <1>5, <1>7 DEF Carries
  <2> QED BY <1>7, <2>1, OthersCarry DEF OtherRequests
<1>13. InHand'
  <2>1. SUFFICES ASSUME NEW w \in Vaults, NEW x \in Tokens, Carries(w, x)'
                 PROVE  /\ x \in DOMAIN owner /\ owner[x] = vault'[w].view.id
                        /\ unwraps'[x] = << >> /\ \A b \in BindingIds : x \notin wrapped[b]
                        /\ \A u \in Vaults : Carries(u, x)' => u = w
    BY <1>1 DEF InHand
  <2>2. Carries(w, x) /\ w # v /\ vault'[w] = vault[w] /\ x # t
    BY <1>3, <1>12, <2>1
  <2>3. /\ x \in DOMAIN owner /\ owner[x] = vault[w].view.id /\ unwraps[x] = << >>
        /\ \A b \in BindingIds : x \notin wrapped[b]
        /\ \A u \in Vaults : Carries(u, x) => u = w
    BY <2>2 DEF WrapInv, InHand
  <2> QED BY <1>9, <1>12, <2>2, <2>3
<1>14. ASSUME NEW w \in Vaults PROVE Forwarded(w)'
  <2>1. CASE w = v
    BY <1>1, <1>3, <1>5, <1>7, <2>1 DEF Forwarded
  <2>2. CASE w # v
    <3>1. vault'[w] = vault[w] /\ Forwarded(w)
      BY <1>7, <2>2 DEF OtherRequests, WrapInv
    <3> QED BY <1>1, <3>1 DEF Forwarded
  <2> QED BY <2>1, <2>2
<1>15. UnwrappedOnceByOwner' /\ \A x \in Tokens \ DOMAIN owner' : unwraps'[x] = << >>
  BY <1>1, <1>3, <1>9, OwnerKinds DEF WrapInv, UnwrappedOnceByOwner
<1> QED BY <1>10, <1>11, <1>13, <1>14, <1>15 DEF WrapInv

LEMMA WrapKept ==
    ASSUME WrapInv, UNCHANGED <<wrapped, owner, unwraps, vault>>
    PROVE  WrapInv'
<1>1. WrapTypes' /\ Remembered' /\ UnwrappedOnceByOwner'
  BY DEF WrapInv, WrapTypes, Remembered, UnwrappedOnceByOwner
<1>2. /\ InHand' /\ (\A v \in Vaults : Forwarded(v)')
      /\ \A x \in Tokens \ DOMAIN owner' : unwraps'[x] = << >>
  BY DEF WrapInv, InHand, Carries, Forwarded
<1> QED BY <1>1, <1>2 DEF WrapInv

-----------------------------------------------------------------------------
(* The invariant.                                                          *)

LEMMA InitInv == Init => EndpointsInv
<1>1. SUFFICES ASSUME Init PROVE EndpointsInv
  OBVIOUS
<1> DEFINE row == Rest("idle", "list", None, 1, None)
<1>2. IdleSSH = row
  BY DEF IdleSSH, Rest
<1>3. row \in SshRows /\ row.at = "idle" /\ row.asked = 1 /\ row.items = {}
  BY RestRow
<1> HIDE DEF row
<1>4. ssh \in [Issuers -> SshRows] /\ \A p \in Issuers : ssh[p] = row
  BY <1>1, <1>2, <1>3 DEF Init
<1>5. PICK view \in FirstViews : views = <<view>>
  BY <1>1 DEF Init
<1>6. views \in Seq(Views) /\ views # << >> /\ Len(views) = 1
  <2>1. view \in Views
    BY <1>5, EndpointsAssumption
  <2> QED BY <1>5, <2>1
<1>7. Shared
  BY <1>1, <1>6, ViewKinds DEF Init, Shared
<1>8. certs \in [Places -> Certificate \cup {None}] /\ \A x \in Places : certs[x] = None
  BY <1>1 DEF Init, Places
<1>9. SocketTypes
  <2>1. forwarded \in [Conns -> BOOLEAN] /\ forwarding = forwarded
    BY <1>1 DEF Init
  <2>2. serials \in 0 .. MaxSerial
    BY <1>1, ViewKinds DEF Init
  <2> QED BY <1>4, <1>8, <2>1, <2>2 DEF SocketTypes
<1>10. \A p \in Issuers : Granted(p)
  BY <1>3, <1>4, <1>6 DEF Granted
<1>11. \A x \in Places : \A s \in Serials : ~ Known(x, s)
  BY <1>3, <1>4, <1>8 DEF Known, Cached, Fresh, Resolves
<1>12. Distinct
  BY <1>11 DEF Distinct
<1>13. Permitted /\ ssh[Refresher].items = {}
  BY <1>3, <1>4, ViewKinds DEF Permitted
<1>14. IdleVault \in VaultRows /\ IdleVault.at = "idle" /\ IdleVault.op = "wrap"
  BY DEF IdleVault, VaultRows
<1>15. vault \in [Vaults -> VaultRows] /\ \A v \in Vaults : vault[v] = IdleVault
  <2> HIDE DEF IdleVault
  <2> QED BY <1>1, <1>14 DEF Init
<1>16. /\ wrapped \in [BindingIds -> SUBSET Tokens] /\ \A b \in BindingIds : wrapped[b] = {}
      /\ unwraps \in [Tokens -> Seq(BindingIds)] /\ \A t \in Tokens : unwraps[t] = << >>
  BY <1>1 DEF Init
<1>17. owner \in [1 .. 0 -> BindingIds] /\ 0 \in 0 .. MaxTokens /\ DOMAIN owner = {}
  BY <1>1, ViewKinds DEF Init
<1>18. WrapInv
  <2> HIDE DEF IdleVault
  <2>1. WrapTypes
    BY <1>15, <1>16, <1>17 DEF WrapTypes
  <2>2. InHand /\ Remembered /\ \A v \in Vaults : Forwarded(v)
    BY <1>14, <1>15, <1>16 DEF InHand, Carries, Remembered, Forwarded
  <2> QED BY <1>16, <1>17, <2>1, <2>2 DEF WrapInv, UnwrappedOnceByOwner
<1> QED BY <1>7, <1>9, <1>10, <1>12, <1>13, <1>18 DEF EndpointsInv, SocketInv

LEMMA SharedKept ==
    ASSUME Shared, UNCHANGED views, Work \/ UNCHANGED work
    PROVE  Shared'
  BY WorkType DEF Shared

(* A step of one socket leaves the other alone.                            *)
LEMMA SocketOnly ==
    ASSUME EndpointsInv, SocketInv', UNCHANGED <<views, wrapVars, vault>>,
           Work \/ UNCHANGED work
    PROVE  EndpointsInv'
  BY SharedKept, WrapKept DEF EndpointsInv, wrapVars

LEMMA VaultOnly ==
    ASSUME EndpointsInv, WrapInv', UNCHANGED <<views, cacheVars, sshVars>>,
           Work \/ UNCHANGED work
    PROVE  EndpointsInv'
  BY SharedKept, SocketKept DEF EndpointsInv, cacheVars, sshVars

LEMMA IssuerInv ==
    ASSUME EndpointsInv, NEW p \in Issuers,
           Put(p) \/ \E r \in Roles : ResolveCached(p, r) \/ Issue(p, r) \/ IssueFails(p, r)
    PROVE  EndpointsInv'
<1>1. SocketInv'
  BY PutStep, ResolveCachedStep, IssueStep, IssueFailsStep DEF EndpointsInv
<1>2. UNCHANGED <<views, wrapVars, vault>> /\ (Work \/ UNCHANGED work)
  BY DEF Put, ResolveCached, Issue, IssueFails
<1> QED BY <1>1, <1>2, SocketOnly

LEMMA ConnectionInv ==
    ASSUME EndpointsInv, NEW c \in Conns,
           \/ Ask(c, "list", None)
           \/ \E blob \in Blobs : Ask(c, "sign", blob)
           \/ Lookup(c) \/ ResolveKeys(c) \/ Listed(c) \/ Sign(c) \/ Reconnect(c)
           \/ \E forwards \in BOOLEAN : Bind(c, forwards)
    PROVE  EndpointsInv'
<1>1. SocketInv'
  BY AskStep, LookupStep, ResolveKeysStep, AnswerStep, ReconnectStep, BindStep DEF EndpointsInv
<1>2. UNCHANGED <<views, wrapVars, vault>> /\ (Work \/ UNCHANGED work)
  BY DEF Ask, Lookup, ResolveKeys, Listed, Sign, Reconnect, Bind
<1> QED BY <1>1, <1>2, SocketOnly

LEMMA RefreshInv ==
    ASSUME EndpointsInv, \/ RefreshTick \/ RefreshDone
                         \/ \E x \in BindingIds \X Roles : NeedsReissue(x)
    PROVE  EndpointsInv'
<1>1. SocketInv'
  BY RefreshTickStep, RefreshDoneStep, ReissueStep DEF EndpointsInv, Places
<1>2. UNCHANGED <<views, wrapVars, vault>> /\ (Work \/ UNCHANGED work)
  BY DEF RefreshTick, RefreshDone, NeedsReissue
<1> QED BY <1>1, <1>2, SocketOnly

LEMMA VaultInv ==
    ASSUME EndpointsInv, NEW v \in Vaults,
           \/ VaultAsk(v, "wrap", None)
           \/ \E token \in Tokens : VaultAsk(v, "unwrap", token)
           \/ VaultServe(v) \/ Wrap(v) \/ Respond(v) \/ Unwrap(v) \/ RoundTripFails(v)
    PROVE  EndpointsInv'
<1>1. WrapInv'
  BY VaultAskStep, VaultServeStep, WrapStep, RespondStep, UnwrapStep, RoundTripFailsStep
     DEF EndpointsInv
<1>2. UNCHANGED <<views, cacheVars, sshVars>> /\ (Work \/ UNCHANGED work)
  BY DEF VaultAsk, VaultServe, Wrap, Respond, Unwrap, RoundTripFails
<1> QED BY <1>1, <1>2, VaultOnly

LEMMA NextInv == EndpointsInv /\ [Next]_vars => EndpointsInv'
<1>1. SUFFICES ASSUME EndpointsInv, [Next]_vars PROVE EndpointsInv'
  OBVIOUS
<1>2. CASE ChangeView
  <2>1. SocketInv' /\ views' \in Seq(Views) /\ views' # << >>
    BY <1>1, <1>2, ChangeViewStep DEF EndpointsInv
  <2>2. Shared'
    BY <1>1, <1>2, <2>1, WorkType DEF ChangeView, EndpointsInv, Shared
  <2> QED BY <1>1, <1>2, <2>1, <2>2, WrapKept DEF ChangeView, EndpointsInv, wrapVars
<1>4. CASE Refresh \/ \E r \in Roles : IssueFails(Refresher, r)
  BY <1>1, <1>4, RefreshInv, IssuerInv, ViewKinds DEF Refresh
<1>5. CASE \E x \in BindingIds \X Roles : NeedsReissue(x)
  BY <1>1, <1>5, RefreshInv
<1>6. CASE \E c \in Conns :
          \/ Ask(c, "list", None)
          \/ \E blob \in Blobs : Ask(c, "sign", blob)
          \/ Lookup(c) \/ ResolveKeys(c) \/ Put(c) \/ Listed(c) \/ Sign(c) \/ Reconnect(c)
          \/ \E r \in Roles : ResolveCached(c, r) \/ Issue(c, r) \/ IssueFails(c, r)
          \/ \E forwards \in BOOLEAN : Bind(c, forwards)
  BY <1>1, <1>6, ConnectionInv, IssuerInv, ViewKinds
<1>7. CASE \E v \in Vaults :
          \/ VaultAsk(v, "wrap", None)
          \/ \E token \in Tokens : VaultAsk(v, "unwrap", token)
          \/ VaultServe(v) \/ Wrap(v) \/ Respond(v) \/ Unwrap(v) \/ RoundTripFails(v)
  BY <1>1, <1>7, VaultInv
<1>8. CASE \E token \in Tokens : Expire(token)
  BY <1>1, <1>8, WrapKept, VaultOnly DEF EndpointsInv, Expire
<1>9. CASE UNCHANGED vars
  BY <1>1, <1>9, WrapKept, VaultOnly DEF EndpointsInv, vars, wrapVars
<1> QED BY <1>1, <1>2, <1>4, <1>5, <1>6, <1>7, <1>8, <1>9 DEF Next

LEMMA EndpointsInvAlways == Spec => []EndpointsInv
  BY InitInv, NextInv, PTL DEF Spec

-----------------------------------------------------------------------------
(* The theorems.                                                           *)

(* A wrapped token reaches OpenBao to be unwrapped at most once and only   *)
(* for the binding it was made for (consumeWrapped, rememberWrapped), and  *)
(* no two bindings or roles ever share a cached certificate                *)
(* (certCache.put): requests run concurrently and the container's binding  *)
(* may change at any moment of any of them.                                *)
THEOREM WrappingSoundAlways == Spec => []WrappingSound
<1>1. EndpointsInv => WrappingSound
  <2>1. SUFFICES ASSUME EndpointsInv PROVE TypeOK
    BY DEF EndpointsInv, WrapInv, WrappingSound
  <2>2. \A i \in DOMAIN views : views[i] \in Views
    BY <2>1 DEF EndpointsInv, Shared
  <2>3. \A x, y \in BindingIds \X Roles :
          certs[x] # None /\ certs[y] # None /\ certs[x].serial = certs[y].serial => x = y
    <3>1. SUFFICES ASSUME NEW x \in Places, NEW y \in Places, certs[x] # None, certs[y] # None,
                          certs[x].serial = certs[y].serial
                   PROVE  x = y
      BY DEF Places
    <3>2. certs[x] \in Certificate
      BY <2>1, <3>1 DEF EndpointsInv, SocketInv, SocketTypes
    <3>3. certs[x].serial \in Serials
      BY <3>2 DEF Certificate
    <3>4. Known(x, certs[x].serial) /\ Known(y, certs[x].serial)
      BY <3>1 DEF Known, Cached
    <3> QED BY <2>1, <3>3, <3>4 DEF EndpointsInv, SocketInv, Distinct
  <2>4. \A p \in Issuers :
          /\ ssh[p].at \in {"idle", "asked", "keys", "roles", "put", "listed", "signed", "refused"}
          /\ ssh[p].todo \subseteq Roles /\ ssh[p].items \subseteq Item
    BY <2>1 DEF EndpointsInv, SocketInv, SocketTypes, SshRows
  <2>5. \A v \in Vaults : vault[v].at \in {"idle", "asked", "forward", "response", "answered"}
    BY <2>1 DEF EndpointsInv, WrapInv, WrapTypes, VaultRows
  <2> QED BY <2>1, <2>2, <2>3, <2>4, <2>5
          DEF TypeOK, EndpointsInv, Shared, SocketInv, SocketTypes, WrapInv, WrapTypes, Places
<1> QED BY <1>1, EndpointsInvAlways, PTL

(* A signature is made with an identity that the container's policy has    *)
(* offered since the client asked (SignWithFlags, session.current),        *)
(* whatever views come and go while keys and certificates are resolved.    *)
THEOREM SignedWhileOfferedAlways == Spec => []SignedWhileOffered
<1>1. EndpointsInv => SignedWhileOffered
  <2>1. SUFFICES ASSUME EndpointsInv, NEW c \in Conns, ssh[c].at = "signed"
                 PROVE  \E i \in ssh[c].asked .. Len(views) :
                           /\ views[i] # None /\ views[i].id = ssh[c].view.id
                           /\ Signature(c).name \in views[i].offers
    BY DEF SignedWhileOffered
  <2>2. Matches(c) # {} /\ Granted(c)
    BY <2>1, ViewKinds DEF EndpointsInv, SocketInv, Permitted
  <2>3. Signature(c) \in ssh[c].items
    BY <2>2 DEF Signature, Matches
  <2>4. Signature(c).name \in ssh[c].view.offers
    BY <2>1, <2>2, <2>3 DEF Granted
  <2>5. PICK i \in ssh[c].asked .. Len(views) : views[i] = ssh[c].view
    BY <2>1, <2>2 DEF Granted
  <2>6. views[i] # None
    BY <2>1, <2>5, ViewKinds DEF EndpointsInv, SocketInv, SocketTypes, Granted
  <2> QED BY <2>4, <2>5, <2>6
<1> QED BY <1>1, EndpointsInvAlways, PTL

(* Once a forwarding bind was verified on a connection, nothing on it is   *)
(* signed with an identity that must not be forwarded (Extension,          *)
(* SignWithFlags): no later bind takes that back.                          *)
THEOREM ForwardedNeverSignsAlways == Spec => []ForwardedNeverSigns
<1>1. EndpointsInv => ForwardedNeverSigns
  <2>1. SUFFICES ASSUME EndpointsInv, NEW c \in Conns, ssh[c].at = "signed", forwarding[c]
                 PROVE  Signature(c).name \notin ssh[c].view.restricted
    BY DEF ForwardedNeverSigns
  <2>2. c \in Issuers /\ Granted(c) /\ forwarded[c] /\ ssh[c] \in SshRows
    BY <2>1, ViewKinds DEF EndpointsInv, SocketInv, SocketTypes
  <2>3. PICK item \in Matches(c) : ~ Refused(c, item)
    BY <2>1 DEF EndpointsInv, SocketInv, Permitted
  <2>4. item.name \notin ssh[c].view.restricted
    BY <2>2, <2>3 DEF Refused
  <2>5. ASSUME NEW other \in Matches(c) PROVE other = item
    <3>1. /\ item \in ssh[c].items /\ other \in ssh[c].items /\ item.blob = other.blob
          /\ item \in Item /\ other \in Item
      BY <2>2, <2>3, <2>5 DEF Matches, SshRows
    <3>2. /\ item.name \in TransitKeys => item.blob = item.name
          /\ other.name \in TransitKeys => other.blob = other.name
          /\ item.name \in Roles => item.blob \in Serials
          /\ other.name \in Roles => other.blob \in Serials
      BY <2>1, <2>2, <3>1 DEF Granted
    <3>3. item.name \in TransitKeys \cup Roles /\ other.name \in TransitKeys \cup Roles
      BY <3>1 DEF Item
    <3>4. item.name = other.name
      <4>1. CASE item.name \in Roles /\ other.name \in Roles
        <5> DEFINE x == <<ssh[c].view.id, item.name>>
                   y == <<ssh[c].view.id, other.name>>
        <5>1. ssh[c].view.id \in BindingIds
          BY <2>1, <2>2 DEF Granted, View
        <5>2. x \in Places /\ y \in Places /\ item.blob \in Serials
          BY <3>2, <4>1, <5>1 DEF Places
        <5>3. Known(x, item.blob) /\ Known(y, item.blob)
          BY <2>1, <2>2, <3>1, <4>1 DEF Known, Resolves
        <5>4. x = y
          <6> HIDE DEF x, y
          <6> QED BY <2>1, <5>2, <5>3 DEF EndpointsInv, SocketInv, Distinct
        <5> QED BY <5>4
      <4>2. CASE item.name \in TransitKeys /\ other.name \in TransitKeys
        BY <3>1, <3>2, <4>2
      <4>3. CASE item.name \in TransitKeys /\ other.name \in Roles
        BY <3>1, <3>2, <4>3, ViewKinds
      <4>4. CASE item.name \in Roles /\ other.name \in TransitKeys
        BY <3>1, <3>2, <4>4, ViewKinds
      <4> QED BY <3>3, <4>1, <4>2, <4>3, <4>4
    <3> QED BY <3>1, <3>4 DEF Item
  <2>6. Signature(c) = item
    BY <2>3, <2>5 DEF Signature
  <2> QED BY <2>4, <2>6
<1> QED BY <1>1, EndpointsInvAlways, PTL

-----------------------------------------------------------------------------
(***************************************************************************)
(* Consumers.                                                              *)
(***************************************************************************)

(* A set of numbers has a smallest one.                                    *)
LEMMA SmallestOf ==
    ASSUME NEW T, T \subseteq Nat, T # {}
    PROVE  \E m \in T : \A k \in T : m <= k
<1>1. PICK m \in T : \A k \in T : ~ (<<k, m>> \in OpToRel(<, Nat))
  BY NatLessThanWellFounded, WFMin
<1>2. ASSUME NEW k \in T PROVE m <= k
  <2>1. ~ (<<k, m>> \in OpToRel(<, Nat))
    BY <1>1
  <2>2. ~ (k < m)
    BY <2>1 DEF OpToRel
  <2> QED BY <2>2
<1> QED BY <1>2

-----------------------------------------------------------------------------
(* The types of what the agent, the engine and the session keep.           *)

Seens == UNION {[D -> Containers] : D \in SUBSET Ids}
Sets == UNION {[D -> 1 .. MaxAssignment] : D \in SUBSET Bindings}
Jobs == [at : {"none", "begun", "removed", "created", "failed"}, binding : Bindings \cup {None},
         id : 0 .. MaxId, project : Projects \cup {None}, new : 0 .. MaxId]
TargetRows == [binding : Bindings, id : Ids, name : Names]
Looks == [at : {"idle", "list", "look", "send", "enforce"}, todo : SUBSET Ids, got : Seens,
          blind : SUBSET Ids, rest : SUBSET Ids, retire : SUBSET Bindings,
          targets : SUBSET TargetRows]
Rows == {NoConsumer} \cup [binding : Bindings, group : 0 .. 1, sockets : BOOLEAN]
Messages == [type : {"set"}, set : Sets]
            \cup [type : {"credential"}, binding : Bindings, assignment : 1 .. MaxAssignment]
            \cup [type : {"unbind", "recreate"}, binding : Bindings]

EngineOK ==
    /\ born \in 0 .. MaxId /\ engine \in Seens /\ DOMAIN engine \subseteq 1 .. born
    /\ job \in [Names -> Jobs]

(* Only a process that is past the lock has tokens to retire.              *)
LookOK ==
    /\ look \in [Procs -> Looks]
    /\ \A p \in Procs : look[p].at # "enforce" => look[p].retire = {}

MemoryOK ==
    /\ containers \in Seens /\ set \in Sets /\ known \subseteq Bindings
    /\ observed \in [Bindings -> 0 .. MaxId \cup {None}] /\ consumers \in [Names -> Rows]
    /\ held \in [Bindings -> 0 .. MaxAssignment] /\ retrying \subseteq Bindings
    /\ cache \in [set : Sets, known : SUBSET Bindings]

ControllerOK ==
    /\ in \in Seq(Messages) /\ assigned \in Sets
    /\ matched \subseteq Bindings /\ DOMAIN credentialed \subseteq matched

(* An agent that is down holds nothing and does nothing.                   *)
DownOK ==
    /\ alive \in {"down", "boot", "up"} /\ link \in BOOLEAN
    /\ alive = "down" => /\ held = [b \in Bindings |-> 0] /\ ~ link
                         /\ \A p \in Procs : look[p].at = "idle"
                         /\ \A n \in Names : job[n].at = "none"

(* A binding that enforced is known on disk, and in memory while the agent *)
(* runs, or is excused.                                                    *)
KnownOnDisk ==
    /\ enforced \in [Bindings -> 0 .. 2]
    /\ \A b \in Bindings : enforced[b] # 0 /\ b \notin excused =>
          b \in cache.known /\ (alive # "down" => b \in known)

ConsumersInv ==
    /\ EngineOK /\ LookOK /\ MemoryOK /\ ControllerOK /\ DownOK
    /\ NoIdleToken /\ RetiredHoldNothing /\ KnownOnDisk /\ EnforcedOnce

-----------------------------------------------------------------------------
(* Facts about the constants and the types.                                *)

LEMMA ConsumersBounds ==
    /\ MaxId \in Nat /\ MaxAssignment \in Nat /\ 1 \in Ids /\ 1 \in 1 .. MaxAssignment
    /\ Users \subseteq Containers /\ IsFiniteSet(Bindings)
    /\ None \notin Bindings /\ None \notin Names /\ None \notin Nat
  BY ConsumersAssumption DEF Ids

LEMMA SeenType ==
    ASSUME NEW cs \in Seens
    PROVE  /\ DOMAIN cs \subseteq Ids /\ cs \in [DOMAIN cs -> Containers]
           /\ \A i \in DOMAIN cs : cs[i] \in Containers
  BY DEF Seens

LEMMA SeenIntro ==
    ASSUME NEW D \in SUBSET Ids, NEW cs \in [D -> Containers]
    PROVE  cs \in Seens
  BY DEF Seens

LEMMA SetType ==
    ASSUME NEW s \in Sets
    PROVE  /\ DOMAIN s \subseteq Bindings /\ s \in [DOMAIN s -> 1 .. MaxAssignment]
           /\ \A b \in DOMAIN s : s[b] \in 1 .. MaxAssignment
  BY DEF Sets

LEMMA SetIntro ==
    ASSUME NEW D \in SUBSET Bindings, NEW s \in [D -> 1 .. MaxAssignment]
    PROVE  s \in Sets
  BY DEF Sets

LEMMA EmptyTypes == Empty \in Seens /\ Empty \in Sets /\ DOMAIN Empty = {}
<1>1. Empty \in [{} -> Containers] /\ Empty \in [{} -> 1 .. MaxAssignment] /\ DOMAIN Empty = {}
  BY DEF Empty
<1> QED BY <1>1, SeenIntro, SetIntro

LEMMA IdleType == Idle \in Looks /\ Idle.retire = {} /\ Idle.at = "idle" /\ Idle.targets = {}
  BY EmptyTypes DEF Idle, Looks

-----------------------------------------------------------------------------
(* The binding that governs a container.                                   *)

LEMMA BoundToType ==
    ASSUME NEW key, NEW bs
    PROVE  BoundTo(key, bs) \in bs \cup {None}
<1>1. CASE \E b \in bs : KeyOf[b] = key
  <2>1. (CHOOSE b \in bs : KeyOf[b] = key) \in bs
    BY <1>1
  <2> QED BY <1>1, <2>1 DEF BoundTo
<1>2. CASE ~ \E b \in bs : KeyOf[b] = key
  BY <1>2 DEF BoundTo
<1> QED BY <1>1, <1>2

LEMMA GoverningType ==
    ASSUME NEW c, NEW bs
    PROVE  Governing(c, bs) \in bs \cup {None}
  BY BoundToType DEF Governing

LEMMA GovernedType ==
    ASSUME NEW cs \in Seens, NEW bs, NEW b
    PROVE  Governed(cs, bs, b) \subseteq DOMAIN cs /\ Governed(cs, bs, b) \subseteq Ids
  BY SeenType DEF Governed

-----------------------------------------------------------------------------
(* The first of some containers in the order of the walk.                  *)

LEMMA OrderType ==
    ASSUME NEW cs \in Seens, NEW o \in Orders(cs)
    PROVE  /\ Cardinality(DOMAIN cs) \in Nat
           /\ \A i \in DOMAIN cs : o[i] \in Nat /\ o[i] <= Cardinality(DOMAIN cs)
<1>1. IsFiniteSet(Ids)
  BY ConsumersBounds, FS_Interval DEF Ids
<1>2. IsFiniteSet(DOMAIN cs)
  BY <1>1, SeenType, FS_Subset
<1>3. Cardinality(DOMAIN cs) \in Nat
  BY <1>2, FS_CardinalityType
<1>4. o \in [DOMAIN cs -> 1 .. Cardinality(DOMAIN cs)]
  BY DEF Orders, Injection
<1> QED BY <1>3, <1>4

LEMMA FirstOfType ==
    ASSUME NEW cs \in Seens, NEW o \in Orders(cs), NEW is \in SUBSET DOMAIN cs, is # {}
    PROVE  FirstOf(is, o) \in is
<1> DEFINE T == {o[i] : i \in is}
<1>1. T \subseteq Nat /\ T # {}
  BY OrderType
<1>2. PICK m \in T : \A k \in T : m <= k
  BY <1>1, SmallestOf
<1>3. PICK i \in is : m = o[i]
  BY <1>2
<1>4. \A j \in is : o[i] <= o[j]
  BY <1>2, <1>3
<1> QED BY <1>3, <1>4 DEF FirstOf

LEMMA DesiredType ==
    ASSUME NEW cs \in Seens, NEW o \in Orders(cs), NEW s \in Sets, NEW n
    PROVE  DesiredAt(cs, o, s, n) \in DOMAIN s \cup {None}
  BY GoverningType, BoundToType DEF DesiredAt

-----------------------------------------------------------------------------
(* Consumer directories.                                                   *)

LEMMA ConsumersAfterType ==
    ASSUME NEW cs \in Seens, NEW o \in Orders(cs), NEW s \in Sets, NEW bad,
           consumers \in [Names -> Rows]
    PROVE  ConsumersAfter(cs, o, s, bad) \in [Names -> Rows]
<1> SUFFICES ASSUME NEW n \in Names
             PROVE  ConsumersAfter(cs, o, s, bad)[n] \in Rows
  BY DEF ConsumersAfter
<1> DEFINE b == DesiredAt(cs, o, s, n)
<1>1. b \in Bindings \cup {None} /\ (b # None => b \in DOMAIN s)
  BY DesiredType, SetType
<1>2. b # None => GroupOf(s[b]) \in 0 .. 1
  BY <1>1, SetType DEF GroupOf
<1> DEFINE g == GroupOf(s[b])
<1> HIDE DEF b, g
<1>3. CASE b # None
  <2>1. ConsumersAfter(cs, o, s, bad)[n] = EnsureConsumer(consumers[n], b, g, bad)
    BY <1>3 DEF ConsumersAfter, b, g
  <2>2. g \in 0 .. 1 /\ b \in Bindings
    BY <1>1, <1>2, <1>3 DEF g
  <2>3. CASE consumers[n] # NoConsumer
    <3>1. consumers[n] \in [binding : Bindings, group : 0 .. 1, sockets : BOOLEAN]
      BY <2>3 DEF Rows
    <3>2. EnsureConsumer(consumers[n], b, g, bad)
            \in [binding : Bindings, group : 0 .. 1, sockets : BOOLEAN]
      BY <2>2, <2>3, <3>1 DEF EnsureConsumer
    <3> QED BY <2>1, <3>2 DEF Rows
  <2>4. CASE consumers[n] = NoConsumer
    <3>1. (bad # "listen") \in BOOLEAN
      OBVIOUS
    <3> QED BY <2>1, <2>2, <2>4, <3>1 DEF EnsureConsumer, Rows
  <2> QED BY <2>3, <2>4
<1>4. CASE b = None
  BY <1>4 DEF ConsumersAfter, Rows, b
<1> QED BY <1>3, <1>4

-----------------------------------------------------------------------------
(* What applyLocked does to the tokens and the observations.               *)

LEMMA ApplyLockedEffect ==
    ASSUME MemoryOK, NEW cs \in Seens, NEW s \in Sets,
           NEW h \in [Bindings -> 0 .. MaxAssignment], NEW r \in SUBSET Bindings, NEW bad,
           ApplyLocked(cs, s, h, r, bad)
    PROVE  /\ containers' = cs /\ set' = s /\ consumers' \in [Names -> Rows]
           /\ observed' \in [Bindings -> 0 .. MaxId \cup {None}]
           /\ held' \in [Bindings -> 0 .. MaxAssignment] /\ retrying' \subseteq Bindings
           /\ \A b \in Bindings : held'[b] # 0 => held'[b] = h[b]
           /\ \A b \in DOMAIN s : KeyOf[b].kind = "name" /\ held'[b] # 0 /\ observed'[b] = None =>
                 h[b] # 0 /\ observed[b] = None
<1> DEFINE gov == [b \in Bindings |-> Governed(cs, DOMAIN s, b)]
<1>1. PICK o \in Orders(cs) :
         /\ consumers' = ConsumersAfter(cs, o, s, bad)
         /\ ObserveBindings(gov, o, s, ConsumersAfter(cs, o, s, bad), h, r)
         /\ containers' = cs /\ set' = s
  BY DEF ApplyLocked
<1> DEFINE cons == ConsumersAfter(cs, o, s, bad)
           invalidated == Revoked(gov, s, cons) \cup Replaced(gov, o, cons) \cup FirstSeen(gov, h)
<1>2. cons \in [Names -> Rows]
  BY ConsumersAfterType DEF MemoryOK
<1>4. ASSUME NEW b \in Bindings, gov[b] # {}
      PROVE  Identity(gov, o, b) \in 0 .. MaxId
  <2>1. gov[b] \in SUBSET DOMAIN cs /\ gov[b] \subseteq Ids
    BY GovernedType
  <2> HIDE DEF gov
  <2>2. FirstOf(gov[b], o) \in Ids
    BY <1>4, <2>1, FirstOfType
  <2>3. FirstOf(gov[b], o) \in 0 .. MaxId
    BY <2>2, ConsumersBounds DEF Ids
  <2> QED BY <2>3, ConsumersBounds DEF Identity
<1> HIDE DEF gov, cons
<1>3. /\ observed' = [b \in Bindings |-> IF gov[b] # {} THEN Identity(gov, o, b)
                                         ELSE IF b \in Lost(gov, cons) THEN None ELSE observed[b]]
      /\ held' = [b \in Bindings |-> IF b \in invalidated THEN 0 ELSE h[b]]
      /\ retrying' = (r \ Revoked(gov, s, cons)) \cup Replaced(gov, o, cons) \cup FirstSeen(gov, h)
  BY <1>1 DEF ObserveBindings, cons
<1>5. observed \in [Bindings -> 0 .. MaxId \cup {None}]
  BY DEF MemoryOK
<1>6. observed' \in [Bindings -> 0 .. MaxId \cup {None}]
  <2> SUFFICES ASSUME NEW b \in Bindings PROVE observed'[b] \in 0 .. MaxId \cup {None}
    BY <1>3
  <2>1. observed[b] \in 0 .. MaxId \cup {None}
    BY <1>5
  <2> QED BY <1>3, <1>4, <2>1
<1>7. /\ held' \in [Bindings -> 0 .. MaxAssignment] /\ retrying' \subseteq Bindings
      /\ \A b \in Bindings : held'[b] # 0 => held'[b] = h[b]
  <2>1. Replaced(gov, o, cons) \subseteq Bindings /\ FirstSeen(gov, h) \subseteq Bindings
    BY DEF Replaced, FirstSeen
  <2>2. 0 \in 0 .. MaxAssignment
    BY ConsumersBounds
  <2> HIDE DEF invalidated
  <2> QED BY <1>3, <2>1, <2>2
<1>8. ASSUME NEW b \in DOMAIN s, KeyOf[b].kind = "name", held'[b] # 0, observed'[b] = None
      PROVE  h[b] # 0 /\ observed[b] = None
  <2>1. b \in Bindings
    BY SetType
  <2>2. h[b] # 0 /\ b \notin invalidated
    BY <1>3, <1>8, <2>1
  <2>3. gov[b] = {}
    BY <1>3, <1>4, <1>8, <2>1, ConsumersBounds
  <2>4. b \notin Lost(gov, cons)
    BY <1>8, <2>2 DEF Revoked
  <2>5. observed'[b] = observed[b]
    BY <1>3, <2>1, <2>3, <2>4
  <2> QED BY <1>8, <2>2, <2>5
<1> QED BY <1>1, <1>2, <1>6, <1>7, <1>8 DEF cons

-----------------------------------------------------------------------------
(* The first observations of bindings.                                     *)

LEMMA TargetsType ==
    ASSUME NEW cs \in Seens, NEW s \in Sets, NEW fresh \in SUBSET Bindings
    PROVE  Targets(cs, s, fresh) \subseteq TargetRows
<1> SUFFICES ASSUME NEW i \in DOMAIN cs, Governing(cs[i], DOMAIN s) \in fresh
             PROVE  [binding |-> Governing(cs[i], DOMAIN s), id |-> i, name |-> cs[i].name]
                       \in TargetRows
  BY DEF Targets
<1>1. i \in Ids /\ cs[i] \in Containers
  BY SeenType
<1>2. cs[i].name \in Names
  BY <1>1 DEF Containers
<1> QED BY <1>1, <1>2 DEF TargetRows

(* The binding of a target is fresh.                                       *)
LEMMA TargetsFresh ==
    ASSUME NEW cs, NEW s, NEW fresh, NEW t \in Targets(cs, s, fresh)
    PROVE  t.binding \in fresh
  BY DEF Targets

LEMMA FirstObservationsEffect ==
    ASSUME MemoryOK, KnownOnDisk, EnforcedOnce, alive # "down",
           NEW cs \in Seens, NEW s \in Sets, NEW fresh, fresh \subseteq DOMAIN s \ known,
           NEW base \in [set : Sets, known : SUBSET Bindings],
           known \cap cache.known \subseteq base.known,
           NEW written, FirstObservations(cs, s, fresh, base, written)
    PROVE  /\ known' \subseteq Bindings /\ cache' \in [set : Sets, known : SUBSET Bindings]
           /\ enforced' \in [Bindings -> 0 .. 2]
           /\ \A b \in Bindings : enforced'[b] # 0 /\ b \notin excused' =>
                 b \in cache'.known /\ b \in known'
           /\ \A b \in Bindings : enforced'[b] <= 1 \/ b \in excused'
<1> DEFINE asked(b) == \E t \in Targets(cs, s, fresh) : t.binding = b
<1>1. fresh \subseteq Bindings /\ known \subseteq Bindings
  BY SetType DEF MemoryOK
<1>2. known' = known \cup fresh /\ known' \subseteq Bindings
  BY <1>1 DEF FirstObservations
<1>3. cache' \in [set : Sets, known : SUBSET Bindings]
  <2>1. SavedCache(s, known') \in [set : Sets, known : SUBSET Bindings]
    BY <1>2 DEF SavedCache
  <2> QED BY <2>1 DEF FirstObservations
<1>4. ASSUME NEW b \in Bindings, asked(b)
      PROVE  b \in fresh
  BY <1>4, TargetsFresh
<1>5. enforced' = [b \in Bindings |-> IF enforced[b] < 2 /\ asked(b) THEN enforced[b] + 1
                                      ELSE enforced[b]]
  BY DEF FirstObservations
<1> HIDE DEF asked
<1>6. enforced' \in [Bindings -> 0 .. 2]
  BY <1>5 DEF KnownOnDisk
<1>7. ASSUME NEW b \in Bindings, b \notin excused'
      PROVE  /\ enforced'[b] # 0 => b \in cache'.known /\ b \in known'
             /\ enforced'[b] <= 1
  <2>1. b \notin excused /\ (~ written => b \notin known')
    BY <1>7 DEF FirstObservations
  <2>2. enforced[b] \in 0 .. 2 /\ enforced[b] <= 1
    BY <2>1 DEF KnownOnDisk, EnforcedOnce
  <2>3. enforced[b] # 0 => b \in cache.known /\ b \in known
    BY <2>1 DEF KnownOnDisk
  <2>4. CASE b \in fresh
    <3>1. enforced[b] = 0
      BY <2>3, <2>4
    <3>2. enforced'[b] <= 1
      BY <1>5, <3>1
    <3>3. cache' = SavedCache(s, known') /\ b \in known'
      BY <1>2, <2>1, <2>4 DEF FirstObservations
    <3> QED BY <3>2, <3>3 DEF SavedCache
  <2>5. CASE b \notin fresh
    <3>1. enforced'[b] = enforced[b]
      BY <1>4, <1>5, <2>5
    <3>2. CASE enforced[b] = 0
      BY <3>1, <3>2
    <3>3. CASE enforced[b] # 0
      <4>1. b \in known' /\ b \in base.known
        BY <1>2, <2>3, <3>3
      <4>2. cache' = base \/ cache' = SavedCache(s, known')
        BY DEF FirstObservations
      <4>3. b \in cache'.known
        BY <4>1, <4>2 DEF SavedCache
      <4> QED BY <2>2, <3>1, <4>1, <4>3
    <3> QED BY <3>2, <3>3
  <2> QED BY <2>4, <2>5
<1> QED BY <1>2, <1>3, <1>6, <1>7

-----------------------------------------------------------------------------
(* Where a process goes next.                                              *)

LEMMA GoEffect ==
    ASSUME LookOK, NEW p \in Procs, NEW r \in Looks, r.at # "enforce" => r.retire = {}, Go(p, r)
    PROVE  /\ LookOK' /\ look'[p] = r
           /\ \A q \in Procs \ {p} : look'[q] = look[q]
<1>1. /\ look' \in [Procs -> Looks] /\ look'[p] = r
      /\ \A q \in Procs \ {p} : look'[q] = look[q]
  BY DEF Go, LookOK
<1>2. ASSUME NEW q \in Procs, look'[q].at # "enforce" PROVE look'[q].retire = {}
  <2>1. CASE q = p
    BY <1>1, <1>2, <2>1
  <2>2. CASE q # p
    BY <1>1, <1>2, <2>2 DEF LookOK
  <2> QED BY <2>1, <2>2
<1> QED BY <1>1, <1>2 DEF LookOK

LEMMA EndsEffect ==
    ASSUME LookOK, NEW p \in Procs, NEW r \in Looks, alive \in {"boot", "up"}, Ends(p, r)
    PROVE  /\ LookOK' /\ look'[p].retire = r.retire /\ alive' \in {"boot", "up"}
           /\ \A q \in Procs \ {p} : look'[q] = look[q]
<1>1. CASE r.targets = {} /\ r.retire = {}
  <2>1. Go(p, Idle) /\ alive' \in {"boot", "up"}
    BY <1>1 DEF Ends
  <2> QED BY <1>1, <2>1, GoEffect, IdleType
<1>2. CASE ~ (r.targets = {} /\ r.retire = {})
  <2> DEFINE n == [r EXCEPT !.at = "enforce", !.got = Empty]
  <2>1. n \in Looks /\ n.at = "enforce" /\ n.retire = r.retire
    BY EmptyTypes DEF Looks
  <2>2. Go(p, n) /\ alive' = alive
    BY <1>2 DEF Ends
  <2> HIDE DEF n
  <2> QED BY <2>1, <2>2, GoEffect
<1> QED BY <1>1, <1>2

-----------------------------------------------------------------------------
(* What a step leaves alone stays as it was.                               *)

LEMMA EngineStays == EngineOK /\ UNCHANGED <<engineVars, job>> => EngineOK'
  BY DEF EngineOK, engineVars

LEMMA LookStays == LookOK /\ UNCHANGED look => LookOK'
  BY DEF LookOK

LEMMA MemoryStays == MemoryOK /\ UNCHANGED <<memVars, cache>> => MemoryOK'
  BY DEF MemoryOK, memVars, tokenVars

LEMMA ControllerStays ==
    ControllerOK /\ UNCHANGED <<in, assigned, matched, credentialed>> => ControllerOK'
  BY DEF ControllerOK

LEMMA DownStays == DownOK /\ UNCHANGED <<alive, link, held, look, job>> => DownOK'
  BY DEF DownOK

LEMMA UpStays ==
    ASSUME alive' \in {"boot", "up"}, link' \in BOOLEAN
    PROVE  DownOK'
  BY DEF DownOK

LEMMA TokensStay ==
    ASSUME NoIdleToken, RetiredHoldNothing, UNCHANGED <<set, held, kept>>,
           observed' = observed, look'["session"].retire = look["session"].retire
    PROVE  NoIdleToken' /\ RetiredHoldNothing'
  BY DEF NoIdleToken, RetiredHoldNothing

LEMMA HistoryStays ==
    ASSUME KnownOnDisk, EnforcedOnce, UNCHANGED <<enforced, excused, known, cache>>,
           alive' = "down" \/ alive # "down" \/ alive' = alive
    PROVE  KnownOnDisk' /\ EnforcedOnce'
  BY DEF KnownOnDisk, EnforcedOnce

(* A process at work, a worker or a session means that the agent runs.     *)
LEMMA Running ==
    ASSUME DownOK
    PROVE  /\ \A p \in Procs : look[p].at # "idle" => alive \in {"boot", "up"}
           /\ \A n \in Names : job[n].at # "none" => alive \in {"boot", "up"}
           /\ link => alive \in {"boot", "up"}
  BY DEF DownOK

-----------------------------------------------------------------------------
(* The engine, its users and the workers.                                  *)

LEMMA WithoutSeen ==
    ASSUME NEW cs \in Seens, NEW i
    PROVE  Without(cs, i) \in Seens /\ DOMAIN Without(cs, i) \subseteq DOMAIN cs
<1>1. DOMAIN cs \ {i} \in SUBSET Ids /\ Without(cs, i) \in [DOMAIN cs \ {i} -> Containers]
  BY SeenType DEF Without
<1> QED BY <1>1, SeenIntro

LEMMA AddedSeen ==
    ASSUME NEW cs \in Seens, NEW i \in Ids, NEW c \in Containers
    PROVE  [j \in DOMAIN cs \cup {i} |-> IF j = i THEN c ELSE cs[j]] \in Seens
<1> DEFINE f == [j \in DOMAIN cs \cup {i} |-> IF j = i THEN c ELSE cs[j]]
<1>1. DOMAIN cs \cup {i} \in SUBSET Ids /\ f \in [DOMAIN cs \cup {i} -> Containers]
  BY SeenType
<1> HIDE DEF f
<1>2. f \in Seens
  BY <1>1, SeenIntro
<1> QED BY <1>2 DEF f

(* A new container takes the next identifier.                              *)
LEMMA EngineAdds ==
    ASSUME EngineOK, born < MaxId, born' = born + 1, NEW c \in Containers,
           engine' = [i \in DOMAIN engine \cup {born'} |-> IF i = born' THEN c ELSE engine[i]],
           job' \in [Names -> Jobs]
    PROVE  EngineOK'
<1>1. born' \in Ids /\ born' \in 0 .. MaxId /\ DOMAIN engine \cup {born'} \subseteq 1 .. born'
  BY ConsumersBounds DEF EngineOK, Ids
<1>2. engine' \in Seens
  BY <1>1, AddedSeen DEF EngineOK
<1>3. DOMAIN engine' = DOMAIN engine \cup {born'}
  OBVIOUS
<1> QED BY <1>1, <1>2, <1>3 DEF EngineOK

LEMMA EngineRemoves ==
    ASSUME EngineOK, NEW i, engine' = Without(engine, i), born' = born, job' \in [Names -> Jobs]
    PROVE  EngineOK'
<1>1. engine' \in Seens /\ DOMAIN engine' \subseteq DOMAIN engine
  BY WithoutSeen DEF EngineOK
<1> QED BY <1>1 DEF EngineOK

LEMMA NoJobType == NoJob \in Jobs
  BY ConsumersBounds DEF NoJob, Jobs

LEMMA UserCreatesInv ==
    ASSUME ConsumersInv, NEW c \in Users, UserCreates(c)
    PROVE  ConsumersInv'
<1> USE DEF ConsumersInv
<1>1. /\ UNCHANGED <<alive, memVars, job, look, cache>> /\ UNCHANGED <<link, in>>
      /\ UNCHANGED <<assigned, matched, credentialed>> /\ UNCHANGED <<enforced, excused, kept>>
  BY DEF UserCreates, agentVars, netVars, ctlVars, ghostVars
<1>2. EngineOK'
  <2>1. job' \in [Names -> Jobs] /\ c \in Containers
    BY <1>1, ConsumersBounds DEF EngineOK
  <2> QED BY <2>1, EngineAdds DEF UserCreates
<1>3. LookOK' /\ MemoryOK' /\ ControllerOK'
  BY <1>1, LookStays, MemoryStays, ControllerStays
<1>4. UNCHANGED <<set, known, observed, held>>
  BY <1>1 DEF memVars, tokenVars
<1>5. DownOK' /\ NoIdleToken' /\ RetiredHoldNothing' /\ KnownOnDisk' /\ EnforcedOnce'
  BY <1>1, <1>4, DownStays, TokensStay, HistoryStays
<1> QED BY <1>2, <1>3, <1>5

LEMMA UserRemovesInv ==
    ASSUME ConsumersInv, NEW i \in Ids, UserRemoves(i)
    PROVE  ConsumersInv'
<1> USE DEF ConsumersInv
<1>1. /\ UNCHANGED <<alive, memVars, job, look, cache>> /\ UNCHANGED <<link, in>>
      /\ UNCHANGED <<assigned, matched, credentialed>> /\ UNCHANGED <<enforced, excused, kept>>
  BY DEF UserRemoves, agentVars, netVars, ctlVars, ghostVars
<1>2. EngineOK'
  <2>1. job' \in [Names -> Jobs]
    BY <1>1 DEF EngineOK
  <2> QED BY <2>1, EngineRemoves DEF UserRemoves
<1>3. LookOK' /\ MemoryOK' /\ ControllerOK'
  BY <1>1, LookStays, MemoryStays, ControllerStays
<1>4. UNCHANGED <<set, known, observed, held>>
  BY <1>1 DEF memVars, tokenVars
<1>5. DownOK' /\ NoIdleToken' /\ RetiredHoldNothing' /\ KnownOnDisk' /\ EnforcedOnce'
  BY <1>1, <1>4, DownStays, TokensStay, HistoryStays
<1> QED BY <1>2, <1>3, <1>5

LEMMA RecreateRemoveInv ==
    ASSUME ConsumersInv, NEW n \in Names, RecreateRemove(n)
    PROVE  ConsumersInv'
<1> USE DEF ConsumersInv
<1>1. /\ UNCHANGED <<alive, memVars, look, cache>> /\ UNCHANGED <<link, in>>
      /\ UNCHANGED <<assigned, matched, credentialed>> /\ UNCHANGED <<enforced, excused, kept>>
  BY DEF RecreateRemove, netVars, ctlVars, ghostVars
<1>2. job[n].at = "begun" /\ born' = born /\ job[n] \in Jobs
  BY DEF RecreateRemove, EngineOK
<1>3. alive \in {"boot", "up"}
  BY <1>2, Running
<1>4. EngineOK'
  <2>1. CASE /\ job[n].id \in DOMAIN engine
             /\ engine' = Without(engine, job[n].id)
             /\ job' = [job EXCEPT ![n].at = "removed", ![n].project = engine[job[n].id].project]
    <3> DEFINE project == engine[job[n].id].project
    <3>1. engine[job[n].id] \in Containers
      BY <2>1, SeenType DEF EngineOK
    <3>2. project \in Projects \cup {None}
      BY <3>1 DEF Containers
    <3>3. job' = [job EXCEPT ![n].at = "removed", ![n].project = project]
      BY <2>1
    <3> HIDE DEF project
    <3>4. job' \in [Names -> Jobs]
      BY <3>2, <3>3 DEF EngineOK, Jobs
    <3> QED BY <1>2, <2>1, <3>4, EngineRemoves
  <2>2. CASE job' = [job EXCEPT ![n].at = "failed"] /\ UNCHANGED engine
    <3>1. job' \in [Names -> Jobs]
      BY <2>2 DEF EngineOK, Jobs
    <3> QED BY <1>2, <2>2, <3>1 DEF EngineOK
  <2> QED BY <2>1, <2>2 DEF RecreateRemove
<1>5. LookOK' /\ MemoryOK' /\ ControllerOK'
  BY <1>1, LookStays, MemoryStays, ControllerStays
<1>6. UNCHANGED <<set, known, observed, held>>
  BY <1>1 DEF memVars, tokenVars
<1>7. NoIdleToken' /\ RetiredHoldNothing' /\ KnownOnDisk' /\ EnforcedOnce'
  BY <1>1, <1>6, TokensStay, HistoryStays
<1>8. DownOK'
  BY <1>1, <1>3, UpStays DEF DownOK
<1> QED BY <1>4, <1>5, <1>7, <1>8

LEMMA RecreateCreateInv ==
    ASSUME ConsumersInv, NEW n \in Names, RecreateCreate(n)
    PROVE  ConsumersInv'
<1> USE DEF ConsumersInv
<1>1. /\ UNCHANGED <<alive, memVars, look, cache>> /\ UNCHANGED <<link, in>>
      /\ UNCHANGED <<assigned, matched, credentialed>> /\ UNCHANGED <<enforced, excused, kept>>
  BY DEF RecreateCreate, netVars, ctlVars, ghostVars
<1>2. job[n].at = "removed" /\ job[n] \in Jobs
  BY DEF RecreateCreate, EngineOK
<1>3. alive \in {"boot", "up"}
  BY <1>2, Running
<1>4. EngineOK'
  <2> DEFINE c == [name |-> n, project |-> job[n].project, conforms |-> TRUE, state |-> "up"]
  <2>1. CASE /\ born < MaxId /\ born' = born + 1
             /\ engine' = [i \in DOMAIN engine \cup {born'} |->
                             IF i = born' THEN c ELSE engine[i]]
             /\ job' = [job EXCEPT ![n].at = "created", ![n].new = born']
    <3>1. c \in Containers
      BY <1>2 DEF Containers, Jobs
    <3>2. PICK k : k = born'
      OBVIOUS
    <3>3. k \in 0 .. MaxId /\ job' = [job EXCEPT ![n].at = "created", ![n].new = k]
      BY <2>1, <3>2, ConsumersBounds DEF EngineOK
    <3>4. job' \in [Names -> Jobs]
      BY <3>3 DEF EngineOK, Jobs
    <3> HIDE DEF c
    <3> QED BY <2>1, <3>1, <3>4, EngineAdds
  <2>2. CASE job' = [job EXCEPT ![n].at = "failed"] /\ UNCHANGED <<engine, born>>
    <3>1. job' \in [Names -> Jobs]
      BY <2>2 DEF EngineOK, Jobs
    <3> QED BY <2>2, <3>1 DEF EngineOK
  <2> QED BY <2>1, <2>2 DEF RecreateCreate
<1>5. LookOK' /\ MemoryOK' /\ ControllerOK'
  BY <1>1, LookStays, MemoryStays, ControllerStays
<1>6. UNCHANGED <<set, known, observed, held>>
  BY <1>1 DEF memVars, tokenVars
<1>7. NoIdleToken' /\ RetiredHoldNothing' /\ KnownOnDisk' /\ EnforcedOnce'
  BY <1>1, <1>6, TokensStay, HistoryStays
<1>8. DownOK'
  BY <1>1, <1>3, UpStays DEF DownOK
<1> QED BY <1>4, <1>5, <1>7, <1>8

(* The replacement inherits the observation, so the token stays wanted.    *)
LEMMA RecreateFinishInv ==
    ASSUME ConsumersInv, NEW n \in Names, RecreateFinish(n)
    PROVE  ConsumersInv'
<1> USE DEF ConsumersInv
<1>1. /\ UNCHANGED <<alive, containers, set, known, consumers, held, retrying, cache>>
      /\ UNCHANGED <<link, in>> /\ UNCHANGED <<engine, born>>
      /\ UNCHANGED <<assigned, matched, credentialed>> /\ UNCHANGED <<enforced, excused, kept>>
  BY DEF RecreateFinish, netVars, ctlVars, ghostVars, tokenVars, engineVars
<1>2. job[n].at \in {"created", "failed"} /\ job[n] \in Jobs
  BY DEF RecreateFinish, EngineOK
<1>3. alive \in {"boot", "up"}
  BY <1>2, Running
<1>4. EngineOK'
  <2>1. job' = [job EXCEPT ![n] = NoJob]
    BY DEF RecreateFinish
  <2>2. job' \in [Names -> Jobs]
    BY <2>1, NoJobType DEF EngineOK
  <2> QED BY <1>1, <2>2 DEF EngineOK
<1>5. LookOK' /\ look'["session"] = look["session"]
  <2> DEFINE r == [Idle EXCEPT !.at = "list"]
  <2>1. r \in Looks /\ r.retire = {}
    BY IdleType DEF Looks
  <2>2. Go("other", r)
    BY DEF RecreateFinish
  <2> HIDE DEF r
  <2>3. "other" \in Procs /\ "session" \in Procs \ {"other"}
    BY DEF Procs
  <2> QED BY <2>1, <2>2, <2>3, GoEffect
<1>6. /\ observed' \in [Bindings -> 0 .. MaxId \cup {None}]
      /\ \A b \in Bindings : observed[b] # None => observed'[b] # None
  <2>1. job[n].new \in 0 .. MaxId /\ job[n].new # None
    BY <1>2, ConsumersBounds DEF Jobs
  <2>2. observed' = observed \/ observed' = [observed EXCEPT ![job[n].binding] = job[n].new]
    BY DEF RecreateFinish
  <2>3. observed \in [Bindings -> 0 .. MaxId \cup {None}]
    BY DEF MemoryOK
  <2> QED BY <2>1, <2>2, <2>3
<1>7. MemoryOK' /\ ControllerOK'
  BY <1>1, <1>6, ControllerStays DEF MemoryOK
<1>8. NoIdleToken' /\ RetiredHoldNothing'
  <2>1. DOMAIN set \subseteq Bindings
    BY SetType DEF MemoryOK
  <2> QED BY <1>1, <1>5, <1>6, <2>1 DEF NoIdleToken, RetiredHoldNothing
<1>9. KnownOnDisk' /\ EnforcedOnce' /\ DownOK'
  BY <1>1, <1>3, HistoryStays, UpStays DEF DownOK
<1> QED BY <1>4, <1>5, <1>7, <1>8, <1>9

LEMMA StartDecideInv ==
    ASSUME ConsumersInv, NEW i \in Ids, StartDecide(i)
    PROVE  ConsumersInv'
<1> USE DEF ConsumersInv
<1>1. /\ UNCHANGED <<alive, memVars, job, look, cache>> /\ UNCHANGED <<link, in>>
      /\ UNCHANGED <<assigned, matched, credentialed>> /\ UNCHANGED <<enforced, excused, kept>>
      /\ UNCHANGED engineVars
  BY DEF StartDecide, netVars, ctlVars, ghostVars
<1>2. EngineOK' /\ LookOK' /\ MemoryOK' /\ ControllerOK'
  BY <1>1, EngineStays, LookStays, MemoryStays, ControllerStays
<1>3. UNCHANGED <<set, known, observed, held>>
  BY <1>1 DEF memVars, tokenVars
<1>4. DownOK' /\ NoIdleToken' /\ RetiredHoldNothing' /\ KnownOnDisk' /\ EnforcedOnce'
  BY <1>1, <1>3, DownStays, TokensStay, HistoryStays
<1> QED BY <1>2, <1>4

LEMMA StartContainerInv ==
    ASSUME ConsumersInv, NEW i \in Ids, StartContainer(i)
    PROVE  ConsumersInv'
<1> USE DEF ConsumersInv
<1>1. /\ UNCHANGED <<alive, memVars, job, look, cache>> /\ UNCHANGED <<link, in>>
      /\ UNCHANGED <<assigned, matched, credentialed>> /\ UNCHANGED <<enforced, excused, kept>>
      /\ UNCHANGED born
  BY DEF StartContainer, netVars, ctlVars, ghostVars
<1>2. EngineOK'
  <2>1. CASE i \in DOMAIN engine /\ engine' = [engine EXCEPT ![i].state = "up"]
    <3>1. engine \in [DOMAIN engine -> Containers] /\ DOMAIN engine \in SUBSET Ids
      BY SeenType DEF EngineOK
    <3>2. [engine[i] EXCEPT !.state = "up"] \in Containers
      BY <2>1, <3>1 DEF Containers
    <3>3. engine' \in [DOMAIN engine -> Containers]
      BY <2>1, <3>1, <3>2
    <3>4. engine' \in Seens /\ DOMAIN engine' = DOMAIN engine
      BY <3>1, <3>3, SeenIntro
    <3> QED BY <1>1, <3>4 DEF EngineOK
  <2>2. CASE UNCHANGED engine
    BY <1>1, <2>2 DEF EngineOK
  <2> QED BY <2>1, <2>2 DEF StartContainer
<1>3. LookOK' /\ MemoryOK' /\ ControllerOK'
  BY <1>1, LookStays, MemoryStays, ControllerStays
<1>4. UNCHANGED <<set, known, observed, held>>
  BY <1>1 DEF memVars, tokenVars
<1>5. DownOK' /\ NoIdleToken' /\ RetiredHoldNothing' /\ KnownOnDisk' /\ EnforcedOnce'
  BY <1>1, <1>4, DownStays, TokensStay, HistoryStays
<1> QED BY <1>2, <1>3, <1>5

-----------------------------------------------------------------------------
(* The agent starts and exits.                                             *)

LEMMA StartInv ==
    ASSUME ConsumersInv, Start
    PROVE  ConsumersInv'
<1> USE DEF ConsumersInv
<1>1. /\ UNCHANGED <<containers, observed, consumers, held, retrying, job, cache>>
      /\ UNCHANGED <<link, in>> /\ UNCHANGED engineVars
      /\ UNCHANGED <<assigned, matched, credentialed>> /\ UNCHANGED <<enforced, excused, kept>>
      /\ set' = cache.set /\ known' = cache.known /\ alive = "down" /\ alive' = "boot"
  BY DEF Start, LoadCache, netVars, ctlVars, ghostVars, tokenVars
<1>2. LookOK'
  <2> DEFINE r == [Idle EXCEPT !.at = "list"]
  <2>1. r \in Looks /\ r.retire = {}
    BY IdleType DEF Looks
  <2>2. Go("main", r) /\ "main" \in Procs
    BY DEF Start, Procs
  <2> HIDE DEF r
  <2> QED BY <2>1, <2>2, GoEffect
<1>3. held' = [b \in Bindings |-> 0]
  BY <1>1 DEF DownOK
<1>4. EngineOK' /\ ControllerOK'
  BY <1>1, EngineStays, ControllerStays
<1>5. MemoryOK'
  BY <1>1 DEF MemoryOK
<1>6. DownOK'
  BY <1>1, UpStays DEF DownOK
<1>7. set' \in Sets
  BY <1>5 DEF MemoryOK
<1>8. DOMAIN set' \subseteq Bindings
  BY <1>7, SetType
<1>9. NoIdleToken' /\ RetiredHoldNothing'
  BY <1>3, <1>8 DEF NoIdleToken, RetiredHoldNothing
<1>10. KnownOnDisk' /\ EnforcedOnce'
  BY <1>1 DEF KnownOnDisk, EnforcedOnce
<1> QED BY <1>2, <1>4, <1>5, <1>6, <1>9, <1>10

(* What the agent forgets was typed, and its tokens are gone.              *)
LEMMA ForgottenInv ==
    ASSUME ConsumersInv, Forgotten, EngineOK', UNCHANGED <<cache, assigned, enforced, excused>>
    PROVE  ConsumersInv'
<1> USE DEF ConsumersInv
<1>1. look' = [p \in Procs |-> Idle]
  BY DEF Forgotten
<1>2. LookOK'
  BY <1>1, IdleType DEF LookOK
<1>3. MemoryOK'
  <2>1. consumers' \in [Names -> Rows]
    BY DEF Forgotten, Rows
  <2>2. 0 \in 0 .. MaxAssignment
    BY ConsumersBounds
  <2> QED BY <2>1, <2>2, EmptyTypes DEF Forgotten, MemoryOK
<1>4. ControllerOK'
  BY EmptyTypes DEF Forgotten, ControllerOK
<1>5. DownOK'
  <2>1. \A p \in Procs : look'[p].at = "idle"
    BY <1>1, IdleType
  <2>2. \A n \in Names : job'[n].at = "none"
    BY DEF Forgotten, NoJob
  <2> QED BY <2>1, <2>2 DEF Forgotten, DownOK
<1>6. NoIdleToken' /\ RetiredHoldNothing'
  <2>1. DOMAIN set' = {} /\ held' = [b \in Bindings |-> 0]
    BY EmptyTypes DEF Forgotten
  <2> QED BY <2>1 DEF NoIdleToken, RetiredHoldNothing
<1>7. KnownOnDisk' /\ EnforcedOnce'
  BY DEF Forgotten, KnownOnDisk, EnforcedOnce
<1> QED BY <1>2, <1>3, <1>4, <1>5, <1>6, <1>7

LEMMA ExitInv ==
    ASSUME ConsumersInv, Exit
    PROVE  ConsumersInv'
<1>1. job' \in [Names -> Jobs]
  BY NoJobType DEF Exit, Forgotten
<1>2. EngineOK'
  BY <1>1 DEF Exit, EngineOK, engineVars, ConsumersInv
<1> QED BY <1>2, ForgottenInv DEF Exit

LEMMA RebootInv ==
    ASSUME ConsumersInv, Reboot
    PROVE  ConsumersInv'
<1>1. job' \in [Names -> Jobs]
  BY NoJobType DEF Reboot, Forgotten
<1>2. engine \in [DOMAIN engine -> Containers] /\ DOMAIN engine \in SUBSET Ids
  BY SeenType DEF EngineOK, ConsumersInv
<1>3. ASSUME NEW c \in Containers, c.conforms
      PROVE  [c EXCEPT !.state = "failed"] \in Containers
  BY <1>3 DEF Containers
<1>4. engine' \in [DOMAIN engine -> Containers]
  BY <1>2, <1>3 DEF Reboot
<1>5. engine' \in Seens /\ DOMAIN engine' = DOMAIN engine
  BY <1>2, <1>4, SeenIntro
<1>6. EngineOK'
  BY <1>1, <1>5 DEF Reboot, EngineOK, ConsumersInv
<1> QED BY <1>6, ForgottenInv DEF Reboot

-----------------------------------------------------------------------------
(* Reconciliations up to the lock.                                         *)

(* A process that only goes elsewhere, before the lock.                    *)
LEMMA GoesInv ==
    ASSUME ConsumersInv, NEW p \in Procs, NEW r \in Looks, r.retire = {}, Go(p, r),
           look[p].retire = {}, alive # "down",
           UNCHANGED <<engineVars, alive, memVars, job, cache>>, UNCHANGED <<link, in>>,
           UNCHANGED <<assigned, matched, credentialed>>, UNCHANGED <<enforced, excused, kept>>
    PROVE  ConsumersInv'
<1> USE DEF ConsumersInv
<1>1. LookOK' /\ look'[p] = r /\ \A q \in Procs \ {p} : look'[q] = look[q]
  BY GoEffect
<1>2. look'["session"].retire = look["session"].retire
  <2>1. CASE p = "session"
    BY <1>1, <2>1
  <2>2. CASE p # "session"
    BY <1>1, <2>2 DEF Procs
  <2> QED BY <2>1, <2>2
<1>3. EngineOK' /\ MemoryOK' /\ ControllerOK'
  BY EngineStays, MemoryStays, ControllerStays
<1>4. UNCHANGED <<set, known, observed, held>>
  BY DEF memVars, tokenVars
<1>5. NoIdleToken' /\ RetiredHoldNothing' /\ KnownOnDisk' /\ EnforcedOnce'
  BY <1>2, <1>4, TokensStay, HistoryStays
<1>6. DownOK'
  BY UpStays DEF DownOK
<1> QED BY <1>1, <1>3, <1>5, <1>6

LEMMA ListInv ==
    ASSUME ConsumersInv, NEW p \in Procs, List(p)
    PROVE  ConsumersInv'
<1>1. alive # "down" /\ look[p].at # "enforce"
  BY Running DEF List, At, ConsumersInv
<1>2. look[p].retire = {}
  BY <1>1 DEF LookOK, ConsumersInv
<1>3. DOMAIN engine \subseteq Ids
  BY SeenType DEF EngineOK, ConsumersInv
<1>4. Inspecting \in Looks /\ Inspecting.retire = {}
  BY <1>3, IdleType DEF Looks, Inspecting
<1>5. Go(p, Inspecting)
  BY DEF List
<1>6. /\ UNCHANGED <<engineVars, alive, memVars, job, cache>> /\ UNCHANGED <<link, in>>
      /\ UNCHANGED <<assigned, matched, credentialed>> /\ UNCHANGED <<enforced, excused, kept>>
  BY DEF List, netVars, ctlVars, ghostVars
<1> QED BY <1>1, <1>2, <1>4, <1>5, <1>6, GoesInv

LEMMA EventInv ==
    ASSUME ConsumersInv, NEW i \in Ids, Event(i)
    PROVE  ConsumersInv'
<1> DEFINE seen == [j \in {i} \cap DOMAIN engine |-> engine[j]]
           r == [Idle EXCEPT !.at = "look", !.rest = Ids \ {i}, !.got = seen]
<1>1. /\ UNCHANGED <<engineVars, alive, memVars, job, cache>> /\ UNCHANGED <<link, in>>
      /\ UNCHANGED <<assigned, matched, credentialed>> /\ UNCHANGED <<enforced, excused, kept>>
      /\ alive # "down" /\ look["main"].at = "idle" /\ "main" \in Procs
  BY DEF Event, netVars, ctlVars, ghostVars, At, Procs
<1>2. CASE Go("main", r)
  <2>1. {i} \cap DOMAIN engine \in SUBSET Ids /\ seen \in [{i} \cap DOMAIN engine -> Containers]
    BY SeenType DEF EngineOK, ConsumersInv
  <2> HIDE DEF seen
  <2>2. seen \in Seens
    BY <2>1, SeenIntro
  <2>3. r \in Looks /\ r.retire = {}
    BY <2>2, IdleType DEF Looks
  <2>4. look["main"].retire = {}
    BY <1>1 DEF LookOK, ConsumersInv
  <2> HIDE DEF r
  <2> QED BY <1>1, <1>2, <2>3, <2>4, GoesInv
<1>3. CASE UNCHANGED look
  <2> USE DEF ConsumersInv
  <2>1. EngineOK' /\ LookOK' /\ MemoryOK' /\ ControllerOK'
    BY <1>1, <1>3, EngineStays, LookStays, MemoryStays, ControllerStays
  <2>2. UNCHANGED <<set, known, observed, held>>
    BY <1>1 DEF memVars, tokenVars
  <2>3. DownOK' /\ NoIdleToken' /\ RetiredHoldNothing' /\ KnownOnDisk' /\ EnforcedOnce'
    BY <1>1, <1>3, <2>2, DownStays, TokensStay, HistoryStays
  <2> QED BY <2>1, <2>3
<1> QED BY <1>2, <1>3 DEF Event

LEMMA InspectInv ==
    ASSUME ConsumersInv, NEW p \in Procs, NEW i \in Ids, Inspect(p, i)
    PROVE  ConsumersInv'
<1> DEFINE rest == [look[p] EXCEPT !.todo = look[p].todo \ {i}]
           seen == [j \in DOMAIN look[p].got \cup {i} |->
                       IF j = i THEN engine[i] ELSE look[p].got[j]]
<1>1. /\ UNCHANGED <<engineVars, alive, memVars, job, cache>> /\ UNCHANGED <<link, in>>
      /\ UNCHANGED <<assigned, matched, credentialed>> /\ UNCHANGED <<enforced, excused, kept>>
      /\ look[p].at = "look"
  BY DEF Inspect, netVars, ctlVars, ghostVars, At
<1>2. alive # "down" /\ look[p].retire = {} /\ look[p] \in Looks
  BY <1>1, Running DEF LookOK, ConsumersInv
<1>3. rest \in Looks /\ rest.retire = {} /\ rest.got = look[p].got /\ rest.blind = look[p].blind
  BY <1>2 DEF Looks
<1>4. \/ i \in DOMAIN engine /\ Go(p, [rest EXCEPT !.got = seen])
      \/ Go(p, rest)
      \/ Go(p, [rest EXCEPT !.blind = rest.blind \cup {i}])
  BY <1>3 DEF Inspect
<1> HIDE DEF rest
<1>5. ASSUME i \in DOMAIN engine PROVE seen \in Seens
  <2>1. look[p].got \in Seens
    BY <1>2 DEF Looks
  <2>2. engine[i] \in Containers
    BY <1>5, SeenType DEF EngineOK, ConsumersInv
  <2> QED BY <2>1, <2>2, AddedSeen
<1> HIDE DEF seen
<1>6. ASSUME i \in DOMAIN engine
      PROVE  [rest EXCEPT !.got = seen] \in Looks /\ [rest EXCEPT !.got = seen].retire = {}
  BY <1>3, <1>5, <1>6 DEF Looks
<1>7. /\ [rest EXCEPT !.blind = rest.blind \cup {i}] \in Looks
      /\ [rest EXCEPT !.blind = rest.blind \cup {i}].retire = {}
  BY <1>3 DEF Looks
<1>8. PICK r \in Looks : r.retire = {} /\ Go(p, r)
  BY <1>3, <1>4, <1>6, <1>7
<1> QED BY <1>1, <1>2, <1>8, GoesInv

-----------------------------------------------------------------------------
(* Reconciliations at the lock and after it.                               *)

(* The tokens after the containers cs are applied to the policy set.       *)
LEMMA AppliedTokens ==
    ASSUME MemoryOK, NoIdleToken, RetiredHoldNothing, NEW cs \in Seens, NEW bad,
           ApplyLocked(cs, set, held, retrying, bad), kept' = kept,
           look'["session"].retire = look["session"].retire
    PROVE  NoIdleToken' /\ RetiredHoldNothing'
<1>1. /\ set' = set
      /\ \A b \in Bindings : held'[b] # 0 => held'[b] = held[b]
      /\ \A b \in DOMAIN set : KeyOf[b].kind = "name" /\ held'[b] # 0 /\ observed'[b] = None =>
            held[b] # 0 /\ observed[b] = None
  BY ApplyLockedEffect DEF MemoryOK
<1>2. NoIdleToken'
  BY <1>1 DEF NoIdleToken
<1>3. RetiredHoldNothing'
  BY <1>1 DEF RetiredHoldNothing
<1> QED BY <1>2, <1>3

LEMMA AppliedMemory ==
    ASSUME MemoryOK, NEW cs \in Seens, NEW s \in Sets,
           NEW h \in [Bindings -> 0 .. MaxAssignment], NEW r \in SUBSET Bindings, NEW bad,
           ApplyLocked(cs, s, h, r, bad), known' \subseteq Bindings,
           cache' \in [set : Sets, known : SUBSET Bindings]
    PROVE  MemoryOK'
<1>1. /\ containers' = cs /\ set' = s /\ consumers' \in [Names -> Rows]
      /\ observed' \in [Bindings -> 0 .. MaxId \cup {None}]
      /\ held' \in [Bindings -> 0 .. MaxAssignment] /\ retrying' \subseteq Bindings
  BY ApplyLockedEffect
<1> QED BY <1>1 DEF MemoryOK

LEMMA ListFailsInv ==
    ASSUME ConsumersInv, NEW p \in Procs, ListFails(p)
    PROVE  ConsumersInv'
<1> USE DEF ConsumersInv
<1>1. /\ UNCHANGED <<engine, born, known, job, cache>> /\ UNCHANGED <<link, in>>
      /\ UNCHANGED <<assigned, matched, credentialed>> /\ UNCHANGED <<enforced, excused, kept>>
      /\ look[p].at = "list" /\ Go(p, Idle)
  BY DEF ListFails, netVars, ctlVars, ghostVars, engineVars, At
<1>2. alive \in {"boot", "up"} /\ look[p].retire = {}
  BY <1>1, Running DEF LookOK
<1>3. CASE alive = "boot"
  <2>1. ApplyLocked(containers, set, held, retrying, "none") /\ alive' = "up"
    BY <1>3 DEF ListFails
  <2>2. LookOK' /\ look'[p] = Idle /\ \A q \in Procs \ {p} : look'[q] = look[q]
    BY <1>1, GoEffect, IdleType
  <2>3. look'["session"].retire = look["session"].retire
    <3>1. CASE p = "session"
      BY <1>2, <2>2, <3>1, IdleType
    <3>2. CASE p # "session"
      BY <2>2, <3>2 DEF Procs
    <3> QED BY <3>1, <3>2
  <2>4. containers \in Seens
    BY DEF MemoryOK
  <2>5. NoIdleToken' /\ RetiredHoldNothing'
    BY <1>1, <2>1, <2>3, <2>4, AppliedTokens
  <2>6. MemoryOK'
    BY <1>1, <2>1, AppliedMemory DEF MemoryOK
  <2>7. EngineOK' /\ ControllerOK'
    BY <1>1, ControllerStays DEF EngineOK
  <2>8. KnownOnDisk' /\ EnforcedOnce' /\ DownOK'
    BY <1>1, <1>3, <2>1, HistoryStays, UpStays DEF DownOK
  <2> QED BY <2>2, <2>5, <2>6, <2>7, <2>8
<1>4. CASE alive # "boot"
  <2>1. UNCHANGED <<alive, memVars>>
    BY <1>1, <1>4 DEF ListFails, memVars, tokenVars
  <2>2. UNCHANGED <<engineVars, alive, memVars, job, cache>>
    BY <1>1, <2>1 DEF engineVars
  <2> QED BY <1>1, <1>2, <2>2, GoesInv, IdleType
<1> QED BY <1>3, <1>4

LEMMA SeenByType ==
    ASSUME MemoryOK, LookOK, NEW p \in Procs
    PROVE  Seen(p) \in Seens
<1> DEFINE l == look[p]
           stay == (l.blind \cup l.rest) \cap DOMAIN containers
           f == [i \in stay \cup DOMAIN l.got |-> IF i \in stay THEN containers[i] ELSE l.got[i]]
<1>1. l \in Looks
  BY DEF LookOK
<1>2. l.got \in Seens /\ containers \in Seens
  BY <1>1 DEF Looks, MemoryOK
<1>3. stay \cup DOMAIN l.got \in SUBSET Ids /\ f \in [stay \cup DOMAIN l.got -> Containers]
  BY <1>2, SeenType
<1>4. f \in Seens
  BY <1>3, SeenIntro
<1> QED BY <1>4 DEF Seen

LEMMA ThenInventoryEffect ==
    ASSUME LookOK, NEW p \in Procs, NEW r \in Looks, r.retire = {}, alive \in {"boot", "up"},
           look[p].retire = {}, ThenInventory(p, r)
    PROVE  /\ LookOK' /\ alive' \in {"boot", "up"}
           /\ look'["session"].retire = look["session"].retire
<1>1. /\ LookOK' /\ alive' \in {"boot", "up"} /\ look'[p].retire = {}
      /\ \A q \in Procs \ {p} : look'[q] = look[q]
  <2>1. CASE InventoryDue
    <3> DEFINE n == [r EXCEPT !.at = "send"]
    <3>1. n \in Looks /\ n.retire = {}
      BY DEF Looks
    <3>2. Go(p, n) /\ alive' = alive
      BY <2>1 DEF ThenInventory
    <3> HIDE DEF n
    <3> QED BY <3>1, <3>2, GoEffect
  <2>2. CASE ~ InventoryDue
    <3>1. Ends(p, r)
      BY <2>2 DEF ThenInventory
    <3> QED BY <3>1, EndsEffect
  <2> QED BY <2>1, <2>2
<1>2. CASE p = "session"
  BY <1>1, <1>2
<1>3. CASE p # "session"
  BY <1>1, <1>3 DEF Procs
<1> QED BY <1>1, <1>2, <1>3

LEMMA ReconcileInv ==
    ASSUME ConsumersInv, NEW p \in Procs, Reconcile(p)
    PROVE  ConsumersInv'
<1> USE DEF ConsumersInv
<1> DEFINE cs == Seen(p)
           fresh == FreshBindings(set)
           r == [Idle EXCEPT !.targets = Targets(cs, set, fresh)]
<1>1. /\ UNCHANGED <<engineVars, job>> /\ UNCHANGED <<link, in>> /\ kept' = kept
      /\ UNCHANGED <<in, assigned, matched, credentialed>> /\ look[p].at = "look"
  BY DEF Reconcile, netVars, ctlVars, At
<1>2. PICK bad : /\ ApplyLocked(cs, set, held, retrying, bad)
                 /\ FirstObservations(cs, set, fresh, cache, bad # "cache")
                 /\ ThenInventory(p, r)
  BY DEF Reconcile
<1>3. cs \in Seens /\ set \in Sets
  BY SeenByType DEF MemoryOK
<1>4. fresh \subseteq DOMAIN set \ known /\ fresh \in SUBSET Bindings
  BY <1>3, SetType DEF FreshBindings
<1>5. alive \in {"boot", "up"} /\ look[p].retire = {}
  BY <1>1, Running DEF LookOK
<1> HIDE DEF cs, fresh
<1>6. r \in Looks /\ r.retire = {}
  BY <1>3, <1>4, TargetsType, IdleType DEF Looks
<1> HIDE DEF r
<1>7. /\ LookOK' /\ alive' \in {"boot", "up"}
      /\ look'["session"].retire = look["session"].retire
  BY <1>2, <1>5, <1>6, ThenInventoryEffect
<1>8. NoIdleToken' /\ RetiredHoldNothing'
  BY <1>1, <1>2, <1>3, <1>7, AppliedTokens
<1>9. cache \in [set : Sets, known : SUBSET Bindings]
  BY DEF MemoryOK
<1>10. /\ known' \subseteq Bindings /\ cache' \in [set : Sets, known : SUBSET Bindings]
       /\ enforced' \in [Bindings -> 0 .. 2]
       /\ \A b \in Bindings : enforced'[b] # 0 /\ b \notin excused' =>
             b \in cache'.known /\ b \in known'
       /\ \A b \in Bindings : enforced'[b] <= 1 \/ b \in excused'
  BY <1>2, <1>3, <1>4, <1>5, <1>9, FirstObservationsEffect
<1>11. MemoryOK'
  BY <1>2, <1>3, <1>10, AppliedMemory DEF MemoryOK
<1>12. KnownOnDisk' /\ EnforcedOnce'
  BY <1>10 DEF KnownOnDisk, EnforcedOnce
<1>13. EngineOK' /\ ControllerOK' /\ DownOK'
  BY <1>1, <1>7, EngineStays, ControllerStays, UpStays DEF DownOK
<1> QED BY <1>7, <1>8, <1>11, <1>12, <1>13

LEMMA EnforceInv ==
    ASSUME ConsumersInv, NEW p \in Procs, NEW t \in look[p].targets, Enforce(p, t)
    PROVE  ConsumersInv'
<1> USE DEF ConsumersInv
<1> DEFINE r == [look[p] EXCEPT !.targets = look[p].targets \ {t}]
<1>1. /\ UNCHANGED <<engine, born>> /\ UNCHANGED <<memVars, cache>> /\ UNCHANGED <<link, in>>
      /\ UNCHANGED <<in, assigned, matched, credentialed>> /\ UNCHANGED <<enforced, excused, kept>>
      /\ look[p].at = "enforce" /\ StartRecreate(t) /\ Ends(p, r)
  BY DEF Enforce, netVars, ctlVars, ghostVars, engineVars, At
<1>2. alive \in {"boot", "up"} /\ look[p] \in Looks
  BY <1>1, Running DEF LookOK
<1>3. r \in Looks /\ r.retire = look[p].retire /\ t \in TargetRows
  BY <1>2 DEF Looks
<1>4. EngineOK'
  <2> DEFINE j == [NoJob EXCEPT !.at = "begun", !.binding = t.binding, !.id = t.id]
  <2>1. j \in Jobs
    <3>1. t.binding \in Bindings /\ t.id \in 0 .. MaxId
      BY <1>3, ConsumersBounds DEF TargetRows, Ids
    <3>2. 0 \in 0 .. MaxId
      BY ConsumersBounds
    <3> QED BY <3>1, <3>2 DEF NoJob, Jobs
  <2>2. job' = job \/ job' = [job EXCEPT ![t.name] = j]
    BY <1>1 DEF StartRecreate
  <2> HIDE DEF j
  <2>3. job' \in [Names -> Jobs]
    BY <2>1, <2>2 DEF EngineOK
  <2> QED BY <1>1, <2>3 DEF EngineOK
<1> HIDE DEF r
<1>5. /\ LookOK' /\ look'[p].retire = look[p].retire /\ alive' \in {"boot", "up"}
      /\ \A q \in Procs \ {p} : look'[q] = look[q]
  BY <1>1, <1>2, <1>3, EndsEffect
<1>6. look'["session"].retire = look["session"].retire
  BY <1>5 DEF Procs
<1>7. UNCHANGED <<set, known, observed, held, cache>>
  BY <1>1 DEF memVars, tokenVars
<1>8. NoIdleToken' /\ RetiredHoldNothing' /\ KnownOnDisk' /\ EnforcedOnce'
  BY <1>1, <1>2, <1>6, <1>7, TokensStay, HistoryStays
<1>9. MemoryOK' /\ ControllerOK' /\ DownOK'
  BY <1>1, <1>5, MemoryStays, ControllerStays, UpStays DEF DownOK
<1> QED BY <1>4, <1>5, <1>8, <1>9

-----------------------------------------------------------------------------
(* Sessions.                                                               *)

LEMMA ConnectInv ==
    ASSUME ConsumersInv, Connect
    PROVE  ConsumersInv'
<1> USE DEF ConsumersInv
<1>1. /\ UNCHANGED <<engineVars, job>> /\ UNCHANGED <<memVars, cache>> /\ UNCHANGED alive
      /\ UNCHANGED assigned /\ UNCHANGED <<enforced, excused, kept>>
      /\ link' = TRUE /\ in' = <<>> /\ matched' = {} /\ credentialed' = Empty
      /\ alive = "up" /\ look["session"].at = "idle" /\ "session" \in Procs
  BY DEF Connect, ghostVars, At, Procs
<1>2. LookOK' /\ look'["session"].retire = {}
  <2> DEFINE r == IF Recreating = {} THEN [Idle EXCEPT !.at = "send"] ELSE Idle
  <2>1. [Idle EXCEPT !.at = "send"] \in Looks /\ [Idle EXCEPT !.at = "send"].retire = {}
    BY IdleType DEF Looks
  <2>2. r \in Looks /\ r.retire = {}
    BY <2>1, IdleType
  <2>3. Go("session", r)
    BY DEF Connect
  <2> HIDE DEF r
  <2> QED BY <1>1, <2>2, <2>3, GoEffect
<1>3. look["session"].retire = {}
  BY <1>1 DEF LookOK
<1>4. UNCHANGED <<set, known, observed, held, cache>>
  BY <1>1 DEF memVars, tokenVars
<1>5. NoIdleToken' /\ RetiredHoldNothing' /\ KnownOnDisk' /\ EnforcedOnce'
  BY <1>1, <1>2, <1>3, <1>4, TokensStay, HistoryStays
<1>6. ControllerOK'
  BY <1>1, EmptyTypes DEF ControllerOK
<1>7. EngineOK' /\ MemoryOK' /\ DownOK'
  BY <1>1, EngineStays, MemoryStays, UpStays
<1> QED BY <1>2, <1>5, <1>6, <1>7

LEMMA DropInv ==
    ASSUME ConsumersInv, Drop
    PROVE  ConsumersInv'
<1> USE DEF ConsumersInv
<1>1. /\ UNCHANGED <<engineVars, job>> /\ UNCHANGED <<memVars, cache>> /\ UNCHANGED alive
      /\ UNCHANGED assigned /\ UNCHANGED <<enforced, excused, kept>>
      /\ link /\ link' = FALSE /\ in' = <<>> /\ matched' = {} /\ credentialed' = Empty
  BY DEF Drop, ghostVars
<1>2. alive \in {"boot", "up"}
  BY <1>1, Running
<1>3. look' = [p \in Procs |->
          IF look[p].at # "send" THEN look[p]
          ELSE IF look[p].targets = {} THEN Idle
          ELSE [look[p] EXCEPT !.at = "enforce", !.got = Empty]]
  BY DEF Drop, At
<1>4. ASSUME NEW p \in Procs
      PROVE  /\ look'[p] \in Looks /\ look'[p].retire = look[p].retire
             /\ look'[p].at # "enforce" => look'[p].retire = {}
  <2>1. look[p] \in Looks /\ (look[p].at # "enforce" => look[p].retire = {})
    BY DEF LookOK
  <2>2. CASE look[p].at # "send"
    BY <1>3, <2>1, <2>2
  <2>3. CASE look[p].at = "send" /\ look[p].targets = {}
    BY <1>3, <2>1, <2>3, IdleType
  <2>4. CASE look[p].at = "send" /\ look[p].targets # {}
    <3>1. look'[p] = [look[p] EXCEPT !.at = "enforce", !.got = Empty]
      BY <1>3, <2>4
    <3>2. look'[p] \in Looks /\ look'[p].retire = look[p].retire /\ look'[p].at = "enforce"
      BY <2>1, <3>1, EmptyTypes DEF Looks
    <3> QED BY <3>2
  <2> QED BY <2>2, <2>3, <2>4
<1>5. LookOK' /\ look'["session"].retire = look["session"].retire
  <2>1. look' \in [Procs -> Looks]
    BY <1>3, <1>4
  <2> QED BY <1>4, <2>1 DEF LookOK, Procs
<1>6. UNCHANGED <<set, known, observed, held, cache>>
  BY <1>1 DEF memVars, tokenVars
<1>7. NoIdleToken' /\ RetiredHoldNothing' /\ KnownOnDisk' /\ EnforcedOnce'
  BY <1>1, <1>5, <1>6, TokensStay, HistoryStays
<1>8. ControllerOK'
  BY <1>1, EmptyTypes DEF ControllerOK
<1>9. EngineOK' /\ MemoryOK' /\ DownOK'
  BY <1>1, <1>2, EngineStays, MemoryStays, UpStays
<1> QED BY <1>5, <1>7, <1>8, <1>9

-----------------------------------------------------------------------------
(* Messages to the agent.                                                  *)

(* The message at the head, and what follows from the session being idle.  *)
LEMMA ReceivingEffect ==
    ASSUME ConsumersInv, NEW type, Receiving(type)
    PROVE  /\ Head(in) \in Messages /\ Head(in).type = type /\ in' \in Seq(Messages)
           /\ look["session"].retire = {} /\ alive \in {"boot", "up"} /\ link
<1>1. in \in Seq(Messages) /\ in # <<>> /\ in' = Tail(in) /\ Head(in).type = type
  BY DEF Receiving, ControllerOK, ConsumersInv
<1>2. Head(in) \in Messages /\ in' \in Seq(Messages)
  BY <1>1
<1>3. "session" \in Procs /\ look["session"].at = "idle" /\ link
  BY DEF Receiving, At, Procs
<1> QED BY <1>1, <1>2, <1>3, Running DEF LookOK, ConsumersInv

LEMMA MessageTypes ==
    ASSUME NEW m \in Messages
    PROVE  /\ m.type = "set" => m.set \in Sets
           /\ m.type \in {"credential", "unbind", "recreate"} => m.binding \in Bindings
  BY DEF Messages

LEMMA ApplyPolicySetInv ==
    ASSUME ConsumersInv, ApplyPolicySet
    PROVE  ConsumersInv'
<1> USE DEF ConsumersInv
<1> DEFINE s == Head(in).set
           new == Superseded(s)
           h == [b \in Bindings |-> IF b \in new THEN 0 ELSE held[b]]
           q == (retrying \ new) \cup {b \in new : observed[b] # None}
           dropped == DOMAIN set \ DOMAIN s
           spared == {b \in dropped : RecreatingBinding(b, consumers)}
           fresh == FreshBindings(s)
           r == [Idle EXCEPT !.retire = dropped \ spared, !.targets = Targets(containers, s, fresh)]
<1>1. Receiving("set") /\ UNCHANGED <<engineVars, job>> /\ link' = link
      /\ UNCHANGED <<assigned, matched, credentialed>>
  BY DEF ApplyPolicySet, ctlVars
<1>2. PICK bad : /\ ApplyLocked(containers, s, h, q, bad)
                 /\ FirstObservations(containers, s, fresh,
                       IF bad = "cache" THEN cache ELSE SavedCache(s, known), bad # "cache")
                 /\ Ends("session", r)
                 /\ kept' = (kept \ DOMAIN s) \cup spared
  BY DEF ApplyPolicySet
<1>3. /\ in' \in Seq(Messages) /\ look["session"].retire = {} /\ alive \in {"boot", "up"}
      /\ s \in Sets /\ link /\ "session" \in Procs
  BY <1>1, ReceivingEffect, MessageTypes DEF Procs
<1>4. DOMAIN s \subseteq Bindings /\ DOMAIN set \subseteq Bindings
  BY <1>3, SetType DEF MemoryOK
<1>5. new \subseteq DOMAIN s
  BY DEF Superseded
<1>6. containers \in Seens /\ held \in [Bindings -> 0 .. MaxAssignment] /\ retrying \subseteq Bindings
  BY DEF MemoryOK
<1>7. h \in [Bindings -> 0 .. MaxAssignment] /\ q \in SUBSET Bindings
  <2> HIDE DEF s, new
  <2>1. 0 \in 0 .. MaxAssignment
    BY ConsumersBounds
  <2> QED BY <1>4, <1>5, <1>6, <2>1
<1>8. fresh \subseteq DOMAIN s \ known /\ fresh \in SUBSET Bindings
  BY <1>4 DEF FreshBindings
<1>9. ASSUME NEW b \in Bindings, h[b] # 0
      PROVE  h[b] = held[b] /\ (b \in DOMAIN s => b \in DOMAIN set)
  BY <1>9 DEF Superseded
<1> HIDE DEF s, new, h, q, fresh
<1>10. r \in Looks /\ r.retire = dropped \ spared
  BY <1>3, <1>4, <1>6, <1>8, TargetsType, IdleType DEF Looks
<1> HIDE DEF r
<1>11. LookOK' /\ look'["session"].retire = dropped \ spared /\ alive' \in {"boot", "up"}
  BY <1>2, <1>3, <1>10, EndsEffect
<1>12. /\ set' = s
       /\ \A b \in Bindings : held'[b] # 0 => held'[b] = h[b]
       /\ \A b \in DOMAIN s : KeyOf[b].kind = "name" /\ held'[b] # 0 /\ observed'[b] = None =>
             h[b] # 0 /\ observed[b] = None
  BY <1>2, <1>3, <1>6, <1>7, ApplyLockedEffect
<1>13. NoIdleToken'
  <2> SUFFICES ASSUME NEW b \in DOMAIN s, KeyOf[b].kind = "name", held'[b] # 0, observed'[b] = None
               PROVE  FALSE
    BY <1>12 DEF NoIdleToken
  <2>1. h[b] # 0 /\ observed[b] = None /\ b \in Bindings
    BY <1>4, <1>12
  <2>2. held[b] # 0 /\ b \in DOMAIN set
    BY <1>9, <2>1
  <2> QED BY <2>1, <2>2 DEF NoIdleToken
<1>14. RetiredHoldNothing'
  <2> SUFFICES ASSUME NEW b \in Bindings, b \notin DOMAIN s, held'[b] # 0
               PROVE  b \in kept' \/ b \in look'["session"].retire
    BY <1>12 DEF RetiredHoldNothing
  <2>1. held[b] # 0
    BY <1>9, <1>12
  <2>2. CASE b \in DOMAIN set
    BY <1>2, <1>11, <2>2
  <2>3. CASE b \notin DOMAIN set
    BY <1>2, <1>3, <2>1, <2>3 DEF RetiredHoldNothing
  <2> QED BY <2>2, <2>3
<1> DEFINE base == IF bad = "cache" THEN cache ELSE SavedCache(s, known)
<1>15. base \in [set : Sets, known : SUBSET Bindings] /\ known \cap cache.known \subseteq base.known
  BY <1>3 DEF SavedCache, MemoryOK
<1> HIDE DEF base
<1>16. /\ known' \subseteq Bindings /\ cache' \in [set : Sets, known : SUBSET Bindings]
       /\ enforced' \in [Bindings -> 0 .. 2]
       /\ \A b \in Bindings : enforced'[b] # 0 /\ b \notin excused' =>
             b \in cache'.known /\ b \in known'
       /\ \A b \in Bindings : enforced'[b] <= 1 \/ b \in excused'
  <2>1. FirstObservations(containers, s, fresh, base, bad # "cache")
    BY <1>2 DEF base
  <2> QED BY <1>3, <1>6, <1>8, <1>15, <2>1, FirstObservationsEffect
<1>17. MemoryOK'
  BY <1>2, <1>3, <1>6, <1>7, <1>16, AppliedMemory
<1>18. KnownOnDisk' /\ EnforcedOnce'
  BY <1>16 DEF KnownOnDisk, EnforcedOnce
<1>19. ControllerOK'
  BY <1>1, <1>3 DEF ControllerOK
<1>20. EngineOK' /\ DownOK'
  BY <1>1, <1>11, EngineStays, UpStays DEF DownOK
<1> QED BY <1>11, <1>13, <1>14, <1>17, <1>18, <1>19, <1>20

LEMMA RetireInv ==
    ASSUME ConsumersInv, NEW b \in Bindings, Retire(b)
    PROVE  ConsumersInv'
<1> USE DEF ConsumersInv
<1> DEFINE r == [look["session"] EXCEPT !.retire = look["session"].retire \ {b}]
<1>1. /\ UNCHANGED <<engineVars, job>> /\ UNCHANGED <<link, in>>
      /\ UNCHANGED <<containers, set, known, observed, consumers, cache>>
      /\ UNCHANGED <<in, assigned, matched, credentialed>> /\ UNCHANGED <<enforced, excused>>
      /\ kept' = kept \ {b} /\ look["session"].at = "enforce" /\ Ends("session", r)
      /\ "session" \in Procs
  BY DEF Retire, netVars, ctlVars, At, Procs
<1>2. held' = [c \in Bindings |-> IF c = b THEN 0 ELSE held[c]] /\ retrying' = retrying \ {b}
  BY DEF Retire, InvalidateTo
<1>3. alive \in {"boot", "up"} /\ look["session"] \in Looks
  BY <1>1, Running DEF LookOK
<1>4. r \in Looks /\ r.retire = look["session"].retire \ {b}
  BY <1>3 DEF Looks
<1> HIDE DEF r
<1>5. LookOK' /\ look'["session"].retire = look["session"].retire \ {b} /\ alive' \in {"boot", "up"}
  BY <1>1, <1>3, <1>4, EndsEffect
<1>6. MemoryOK'
  <2>1. held' \in [Bindings -> 0 .. MaxAssignment]
    BY <1>2, ConsumersBounds DEF MemoryOK
  <2> QED BY <1>1, <1>2, <2>1 DEF MemoryOK
<1>7. DOMAIN set \subseteq Bindings
  BY SetType DEF MemoryOK
<1>8. NoIdleToken' /\ RetiredHoldNothing'
  BY <1>1, <1>2, <1>5, <1>7 DEF NoIdleToken, RetiredHoldNothing
<1>9. KnownOnDisk' /\ EnforcedOnce' /\ DownOK'
  BY <1>1, <1>3, <1>5, HistoryStays, UpStays DEF DownOK
<1>10. EngineOK' /\ ControllerOK'
  BY <1>1, EngineStays, ControllerStays
<1> QED BY <1>5, <1>6, <1>8, <1>9, <1>10

LEMMA UnbindInv ==
    ASSUME ConsumersInv, Unbind
    PROVE  ConsumersInv'
<1> USE DEF ConsumersInv
<1> DEFINE b == Head(in).binding
           s == Without(set, b)
           r == [Idle EXCEPT !.at = "enforce", !.retire = {b}]
<1>1. /\ Receiving("unbind") /\ UNCHANGED <<engineVars, job>> /\ link' = link /\ alive' = alive
      /\ UNCHANGED <<assigned, matched, credentialed>> /\ UNCHANGED <<enforced, kept>>
      /\ excused' = excused \cup {b} /\ Go("session", r)
  BY DEF Unbind, ctlVars
<1>2. /\ in' \in Seq(Messages) /\ look["session"].retire = {} /\ alive \in {"boot", "up"}
      /\ b \in Bindings /\ link /\ "session" \in Procs
  BY <1>1, ReceivingEffect, MessageTypes DEF Procs
<1>3. \/ /\ b \in DOMAIN set /\ known' = known \ {b}
         /\ \E bad : /\ cache' = IF bad = "cache" THEN cache ELSE SavedCache(s, known')
                     /\ ApplyLocked(containers, s, held, retrying, bad)
      \/ UNCHANGED <<containers, set, known, observed, consumers, held, retrying, cache>>
  BY DEF Unbind, tokenVars
<1>4. set \in Sets /\ DOMAIN set \subseteq Bindings /\ known \subseteq Bindings
  BY SetType DEF MemoryOK
<1>5. s \in Sets /\ DOMAIN s = DOMAIN set \ {b}
  <2>1. DOMAIN set \ {b} \in SUBSET Bindings /\ s \in [DOMAIN set \ {b} -> 1 .. MaxAssignment]
    BY <1>4, SetType DEF Without
  <2> HIDE DEF s
  <2> QED BY <2>1, SetIntro
<1> HIDE DEF b, s
<1>6. r \in Looks /\ r.retire = {b} /\ r.at = "enforce"
  BY <1>2, IdleType DEF Looks
<1> HIDE DEF r
<1>7. LookOK' /\ look'["session"].retire = {b}
  BY <1>1, <1>2, <1>6, GoEffect
<1>8. EngineOK' /\ ControllerOK' /\ DownOK'
  BY <1>1, <1>2, EngineStays, UpStays DEF ControllerOK, DownOK
<1>9. CASE UNCHANGED <<containers, set, known, observed, consumers, held, retrying, cache>>
  <2>1. MemoryOK'
    BY <1>9 DEF MemoryOK
  <2>2. NoIdleToken' /\ RetiredHoldNothing'
    BY <1>1, <1>2, <1>7, <1>9 DEF NoIdleToken, RetiredHoldNothing
  <2>3. KnownOnDisk' /\ EnforcedOnce'
    BY <1>1, <1>9 DEF KnownOnDisk, EnforcedOnce
  <2> QED BY <1>7, <1>8, <2>1, <2>2, <2>3
<1>10. ASSUME NEW bad, b \in DOMAIN set, known' = known \ {b},
              cache' = IF bad = "cache" THEN cache ELSE SavedCache(s, known'),
              ApplyLocked(containers, s, held, retrying, bad)
       PROVE  ConsumersInv'
  <2>1. /\ containers \in Seens /\ held \in [Bindings -> 0 .. MaxAssignment]
        /\ retrying \in SUBSET Bindings /\ cache \in [set : Sets, known : SUBSET Bindings]
    BY DEF MemoryOK
  <2>2. known' \subseteq Bindings /\ cache' \in [set : Sets, known : SUBSET Bindings]
    BY <1>4, <1>5, <1>10, <2>1 DEF SavedCache
  <2>3. MemoryOK'
    BY <1>5, <1>10, <2>1, <2>2, AppliedMemory
  <2>4. /\ set' = s
        /\ \A c \in Bindings : held'[c] # 0 => held'[c] = held[c]
        /\ \A c \in DOMAIN s : KeyOf[c].kind = "name" /\ held'[c] # 0 /\ observed'[c] = None =>
              held[c] # 0 /\ observed[c] = None
    BY <1>5, <1>10, <2>1, ApplyLockedEffect
  <2>5. NoIdleToken'
    BY <1>5, <2>4 DEF NoIdleToken
  <2>6. RetiredHoldNothing'
    BY <1>1, <1>2, <1>5, <1>7, <2>4 DEF RetiredHoldNothing
  <2>7. (cache.known \cap known) \ {b} \subseteq cache'.known
    BY <1>10 DEF SavedCache
  <2>8. KnownOnDisk' /\ EnforcedOnce'
    BY <1>1, <1>2, <1>10, <2>7 DEF KnownOnDisk, EnforcedOnce
  <2> QED BY <1>7, <1>8, <2>3, <2>5, <2>6, <2>8
<1> QED BY <1>3, <1>9, <1>10

LEMMA ReceiveCredentialInv ==
    ASSUME ConsumersInv, ReceiveCredential
    PROVE  ConsumersInv'
<1> USE DEF ConsumersInv
<1> DEFINE b == Head(in).binding
<1>1. /\ Receiving("credential") /\ UNCHANGED <<engineVars, job>> /\ link' = link /\ alive' = alive
      /\ UNCHANGED <<containers, set, known, observed, consumers, cache>> /\ UNCHANGED look
      /\ UNCHANGED <<assigned, matched, credentialed>> /\ UNCHANGED <<enforced, excused, kept>>
  BY DEF ReceiveCredential, ctlVars, ghostVars
<1>2. in' \in Seq(Messages) /\ alive \in {"boot", "up"} /\ b \in Bindings /\ link
  BY <1>1, ReceivingEffect, MessageTypes
<1>3. \/ /\ b \in DOMAIN set /\ observed[b] # None
         /\ held' = [held EXCEPT ![b] = set[b]] /\ retrying' = retrying \ {b}
      \/ held' = held /\ retrying' \subseteq retrying \cup {b}
  BY DEF ReceiveCredential, tokenVars
<1> HIDE DEF b
<1>4. DOMAIN set \subseteq Bindings /\ \A c \in DOMAIN set : set[c] \in 1 .. MaxAssignment
  BY SetType DEF MemoryOK
<1>5. MemoryOK'
  <2>1. held' \in [Bindings -> 0 .. MaxAssignment]
    <3>1. b \in DOMAIN set => set[b] \in 0 .. MaxAssignment
      BY <1>4, ConsumersBounds
    <3> QED BY <1>2, <1>3, <3>1 DEF MemoryOK
  <2>2. retrying' \subseteq Bindings
    BY <1>2, <1>3 DEF MemoryOK
  <2> QED BY <1>1, <2>1, <2>2 DEF MemoryOK
<1>6. \A c \in Bindings : held'[c] = held[c] \/ (c = b /\ b \in DOMAIN set /\ observed[b] # None)
  BY <1>3 DEF MemoryOK
<1>7. NoIdleToken' /\ RetiredHoldNothing'
  BY <1>1, <1>4, <1>6 DEF NoIdleToken, RetiredHoldNothing
<1>8. KnownOnDisk' /\ EnforcedOnce' /\ DownOK'
  BY <1>1, <1>2, HistoryStays, UpStays DEF DownOK
<1>9. EngineOK' /\ LookOK' /\ ControllerOK'
  BY <1>1, <1>2, EngineStays, LookStays DEF ControllerOK
<1> QED BY <1>5, <1>7, <1>8, <1>9

LEMMA RequestRecreateInv ==
    ASSUME ConsumersInv, RequestRecreate
    PROVE  ConsumersInv'
<1> USE DEF ConsumersInv
<1> DEFINE b == Head(in).binding
           governed == IF b \in DOMAIN set THEN Governed(containers, DOMAIN set, b) ELSE {}
           ts == {[binding |-> b, id |-> i, name |-> containers[i].name] : i \in governed}
           r == [Idle EXCEPT !.targets = ts]
<1>1. /\ Receiving("recreate") /\ UNCHANGED <<engineVars, job>> /\ link' = link
      /\ UNCHANGED <<memVars, cache>> /\ UNCHANGED <<enforced, excused, kept>>
      /\ UNCHANGED <<assigned, matched, credentialed>> /\ Ends("session", r)
  BY DEF RequestRecreate, ctlVars, ghostVars
<1>2. /\ in' \in Seq(Messages) /\ alive \in {"boot", "up"} /\ b \in Bindings /\ link
      /\ look["session"].retire = {} /\ "session" \in Procs
  BY <1>1, ReceivingEffect, MessageTypes DEF Procs
<1>3. governed \subseteq DOMAIN containers
  BY GovernedType DEF MemoryOK
<1> HIDE DEF governed, b
<1>4. ASSUME NEW i \in governed
      PROVE  [binding |-> b, id |-> i, name |-> containers[i].name] \in TargetRows
  <2>1. i \in Ids /\ containers[i] \in Containers
    BY <1>3, SeenType DEF MemoryOK
  <2> QED BY <1>2, <2>1 DEF TargetRows, Containers
<1>5. ts \subseteq TargetRows
  BY <1>4
<1> HIDE DEF ts
<1>6. r \in Looks /\ r.retire = {}
  BY <1>5, IdleType DEF Looks
<1> HIDE DEF r
<1>7. LookOK' /\ look'["session"].retire = {} /\ alive' \in {"boot", "up"}
  BY <1>1, <1>2, <1>6, EndsEffect
<1>8. UNCHANGED <<set, known, observed, held, cache>>
  BY <1>1 DEF memVars, tokenVars
<1>9. NoIdleToken' /\ RetiredHoldNothing' /\ KnownOnDisk' /\ EnforcedOnce' /\ DownOK'
  BY <1>1, <1>2, <1>7, <1>8, TokensStay, HistoryStays, UpStays DEF DownOK
<1>10. EngineOK' /\ MemoryOK' /\ ControllerOK'
  BY <1>1, <1>2, EngineStays, MemoryStays DEF ControllerOK
<1> QED BY <1>7, <1>9, <1>10

-----------------------------------------------------------------------------
(* The controller.                                                         *)

LEMMA PushEffect ==
    ASSUME ControllerOK, NEW cs, NEW as \in Sets, NEW issuing, Push(cs, as, issuing)
    PROVE  in' \in Seq(Messages) /\ matched' \subseteq Bindings /\ DOMAIN credentialed' \subseteq matched'
<1> DEFINE ms == MatchBindings(cs, DOMAIN as)
           issued == {b \in ms : issuing /\ (b \notin DOMAIN credentialed \/ credentialed[b] # as[b])}
           carried == Restrict(as, CarriedBindings(cs, DOMAIN as))
<1>1. /\ matched' = ms
      /\ credentialed' = [b \in issued \cup (DOMAIN credentialed \cap ms) |->
                              IF b \in issued THEN as[b] ELSE credentialed[b]]
  BY DEF Push
<1>2. PICK order \in Bijection(1 .. Cardinality(issued), issued) :
          in' = in \o <<SetMessage(carried)>>
                   \o [k \in DOMAIN order |-> CredentialMessage(order[k], as[order[k]])]
  BY DEF Push
<1>3. ms \subseteq DOMAIN as /\ issued \subseteq ms /\ CarriedBindings(cs, DOMAIN as) \subseteq DOMAIN as
  BY DEF MatchBindings, CarriedBindings
<1>4. DOMAIN as \subseteq Bindings /\ \A b \in DOMAIN as : as[b] \in 1 .. MaxAssignment
  BY SetType
<1>5. carried \in Sets
  <2>1. /\ CarriedBindings(cs, DOMAIN as) \in SUBSET Bindings
        /\ carried \in [CarriedBindings(cs, DOMAIN as) -> 1 .. MaxAssignment]
    BY <1>3, <1>4 DEF Restrict
  <2> HIDE DEF carried
  <2> QED BY <2>1, SetIntro
<1> HIDE DEF ms, issued, carried
<1>6. SetMessage(carried) \in Messages
  BY <1>5 DEF SetMessage, Messages
<1>7. IsFiniteSet(issued)
  BY <1>3, <1>4, ConsumersBounds, FS_Subset
<1>8. Cardinality(issued) \in Nat
  BY <1>7, FS_CardinalityType
<1>9. order \in [1 .. Cardinality(issued) -> issued]
  BY <1>2 DEF Bijection, Injection
<1> DEFINE n == Cardinality(issued)
           cms == [k \in DOMAIN order |-> CredentialMessage(order[k], as[order[k]])]
<1> HIDE DEF n
<1>10. n \in Nat /\ order \in [1 .. n -> issued]
  BY <1>8, <1>9 DEF n
<1>11. ASSUME NEW k \in 1 .. n PROVE CredentialMessage(order[k], as[order[k]]) \in Messages
  <2>1. order[k] \in Bindings /\ as[order[k]] \in 1 .. MaxAssignment
    BY <1>3, <1>4, <1>10
  <2> QED BY <2>1 DEF CredentialMessage, Messages
<1>12. cms \in [1 .. n -> Messages]
  BY <1>10, <1>11
<1> HIDE DEF cms
<1>13. cms \in Seq(Messages)
  BY <1>10, <1>12
<1>14. in' \in Seq(Messages)
  <2>1. in \in Seq(Messages) /\ <<SetMessage(carried)>> \in Seq(Messages)
    BY <1>6 DEF ControllerOK
  <2>2. in \o <<SetMessage(carried)>> \in Seq(Messages)
    BY <2>1
  <2>3. in' = (in \o <<SetMessage(carried)>>) \o cms
    BY <1>2 DEF cms
  <2> QED BY <1>13, <2>2, <2>3
<1>15. matched' \subseteq Bindings
  BY <1>1, <1>3, <1>4
<1>16. DOMAIN credentialed' \subseteq matched'
  BY <1>1, <1>3
<1> QED BY <1>14, <1>15, <1>16

(* A step of the controller that only sends.                               *)
LEMMA ControllerInv ==
    ASSUME ConsumersInv, ControllerOK',
           UNCHANGED <<engineVars, job>>, UNCHANGED <<alive, memVars, look, cache>>,
           UNCHANGED <<enforced, excused, kept>>, UNCHANGED link
    PROVE  ConsumersInv'
<1> USE DEF ConsumersInv
<1>1. EngineOK' /\ LookOK' /\ MemoryOK'
  BY EngineStays, LookStays, MemoryStays
<1>2. UNCHANGED <<set, known, observed, held>>
  BY DEF memVars, tokenVars
<1>3. DownOK' /\ NoIdleToken' /\ RetiredHoldNothing' /\ KnownOnDisk' /\ EnforcedOnce'
  BY <1>2, DownStays, TokensStay, HistoryStays
<1> QED BY <1>1, <1>3

LEMMA HandleRequestInv ==
    ASSUME ConsumersInv, NEW b \in Bindings, HandleRequest(b)
    PROVE  ConsumersInv'
<1>1. /\ UNCHANGED <<engineVars, job>> /\ UNCHANGED <<alive, memVars, look, cache>>
      /\ UNCHANGED <<enforced, excused, kept>> /\ UNCHANGED link
      /\ UNCHANGED <<assigned, matched>> /\ b \in DOMAIN assigned /\ b \in matched
  BY DEF HandleRequest, agentVars, ghostVars
<1>2. assigned[b] \in 1 .. MaxAssignment
  BY <1>1, SetType DEF ControllerOK, ConsumersInv
<1>3. CredentialMessage(b, assigned[b]) \in Messages
  BY <1>2 DEF CredentialMessage, Messages
<1>4. in' \in Seq(Messages)
  BY <1>3 DEF HandleRequest, ControllerOK, ConsumersInv
<1>5. DOMAIN credentialed' = DOMAIN credentialed \cup {b}
  BY DEF HandleRequest
<1>6. ControllerOK'
  BY <1>1, <1>4, <1>5 DEF ControllerOK, ConsumersInv
<1> QED BY <1>1, <1>6, ControllerInv

LEMMA AskRecreateInv ==
    ASSUME ConsumersInv, NEW b \in Bindings, AskRecreate(b)
    PROVE  ConsumersInv'
<1>1. /\ UNCHANGED <<engineVars, job>> /\ UNCHANGED <<alive, memVars, look, cache>>
      /\ UNCHANGED <<enforced, excused, kept>> /\ UNCHANGED link
      /\ UNCHANGED <<assigned, matched, credentialed>>
  BY DEF AskRecreate, agentVars, ghostVars, ctlVars
<1>2. [type |-> "recreate", binding |-> b] \in Messages
  BY DEF Messages
<1>3. in' \in Seq(Messages)
  BY <1>2 DEF AskRecreate, ControllerOK, ConsumersInv
<1>4. ControllerOK'
  BY <1>1, <1>3 DEF ControllerOK, ConsumersInv
<1> QED BY <1>1, <1>4, ControllerInv

LEMMA DeleteBindingInv ==
    ASSUME ConsumersInv, NEW b \in Bindings, DeleteBinding(b)
    PROVE  ConsumersInv'
<1>1. /\ UNCHANGED <<engineVars, job>> /\ UNCHANGED <<alive, memVars, look, cache>>
      /\ UNCHANGED <<enforced, excused, kept>> /\ UNCHANGED link
      /\ UNCHANGED <<assigned, matched, credentialed>>
  BY DEF DeleteBinding, agentVars, ghostVars
<1>2. [type |-> "unbind", binding |-> b] \in Messages
  BY DEF Messages
<1>3. in' \in Seq(Messages)
  BY <1>2 DEF DeleteBinding, ControllerOK, ConsumersInv
<1>4. ControllerOK'
  BY <1>1, <1>3 DEF ControllerOK, ConsumersInv
<1> QED BY <1>1, <1>4, ControllerInv

LEMMA AssignInv ==
    ASSUME ConsumersInv, NEW b \in Bindings, Assign(b)
    PROVE  ConsumersInv'
<1> DEFINE a == IF b \in DOMAIN assigned THEN assigned[b] + 1 ELSE 1
<1>1. /\ UNCHANGED <<engineVars, job>> /\ UNCHANGED <<alive, memVars, look, cache>>
      /\ UNCHANGED <<enforced, excused, kept>> /\ UNCHANGED link
      /\ a <= MaxAssignment
      /\ assigned' = [c \in DOMAIN assigned \cup {b} |-> IF c = b THEN a ELSE assigned[c]]
  BY DEF Assign, agentVars, ghostVars
<1>2. \/ \E issuing \in BOOLEAN : Push(inventory, assigned', issuing)
      \/ UNCHANGED <<in, matched, credentialed>>
  BY DEF Assign
<1>3. DOMAIN assigned \subseteq Bindings /\ \A c \in DOMAIN assigned : assigned[c] \in 1 .. MaxAssignment
  BY SetType DEF ControllerOK, ConsumersInv
<1>4. a \in 1 .. MaxAssignment
  BY <1>1, <1>3, ConsumersBounds
<1> HIDE DEF a
<1>5. /\ DOMAIN assigned \cup {b} \in SUBSET Bindings
      /\ assigned' \in [DOMAIN assigned \cup {b} -> 1 .. MaxAssignment]
  BY <1>1, <1>3, <1>4
<1>6. assigned' \in Sets
  BY <1>5, SetIntro
<1>7. in' \in Seq(Messages) /\ matched' \subseteq Bindings /\ DOMAIN credentialed' \subseteq matched'
  <2>1. ASSUME NEW issuing, Push(inventory, assigned', issuing)
        PROVE  in' \in Seq(Messages) /\ matched' \subseteq Bindings /\ DOMAIN credentialed' \subseteq matched'
    BY <1>6, <2>1, PushEffect DEF ConsumersInv
  <2> QED BY <1>2, <2>1 DEF ControllerOK, ConsumersInv
<1>8. ControllerOK'
  BY <1>6, <1>7 DEF ControllerOK
<1> QED BY <1>1, <1>8, ControllerInv

LEMMA BindingDeletedInv ==
    ASSUME ConsumersInv, NEW b \in Bindings, BindingDeleted(b)
    PROVE  ConsumersInv'
<1>1. /\ UNCHANGED <<engineVars, job>> /\ UNCHANGED <<alive, memVars, look, cache>>
      /\ UNCHANGED <<enforced, excused, kept>> /\ UNCHANGED link
      /\ assigned' = Without(assigned, b)
  BY DEF BindingDeleted, agentVars, ghostVars
<1>2. \/ \E ok \in BOOLEAN : Push(inventory, assigned', ok)
      \/ UNCHANGED <<in, matched, credentialed>>
  BY DEF BindingDeleted
<1>3. /\ DOMAIN assigned \ {b} \in SUBSET Bindings
      /\ assigned' \in [DOMAIN assigned \ {b} -> 1 .. MaxAssignment]
  BY <1>1, SetType DEF Without, ControllerOK, ConsumersInv
<1>4. assigned' \in Sets
  BY <1>3, SetIntro
<1>5. in' \in Seq(Messages) /\ matched' \subseteq Bindings /\ DOMAIN credentialed' \subseteq matched'
  <2>1. ASSUME NEW ok, Push(inventory, assigned', ok)
        PROVE  in' \in Seq(Messages) /\ matched' \subseteq Bindings /\ DOMAIN credentialed' \subseteq matched'
    BY <1>4, <2>1, PushEffect DEF ConsumersInv
  <2> QED BY <1>2, <2>1 DEF ControllerOK, ConsumersInv
<1>6. ControllerOK'
  BY <1>4, <1>5 DEF ControllerOK
<1> QED BY <1>1, <1>6, ControllerInv

LEMMA SendInventoryInv ==
    ASSUME ConsumersInv, NEW p \in Procs, SendInventory(p)
    PROVE  ConsumersInv'
<1> USE DEF ConsumersInv
<1>1. /\ UNCHANGED <<engineVars, job>> /\ UNCHANGED <<memVars, cache>>
      /\ UNCHANGED <<enforced, excused, kept>> /\ UNCHANGED link /\ UNCHANGED assigned
      /\ Ends(p, look[p]) /\ look[p].at = "send"
  BY DEF SendInventory, ghostVars, At
<1>2. PICK issuing : Push(inventory', assigned, issuing)
  BY DEF SendInventory
<1>3. in' \in Seq(Messages) /\ matched' \subseteq Bindings /\ DOMAIN credentialed' \subseteq matched'
  BY <1>2, PushEffect DEF ControllerOK
<1>4. ControllerOK'
  BY <1>1, <1>3 DEF ControllerOK
<1>5. alive \in {"boot", "up"} /\ look[p] \in Looks
  BY <1>1, Running DEF LookOK
<1>6. /\ LookOK' /\ look'[p].retire = look[p].retire /\ alive' \in {"boot", "up"}
      /\ \A q \in Procs \ {p} : look'[q] = look[q]
  BY <1>1, <1>5, EndsEffect
<1>7. look'["session"].retire = look["session"].retire
  BY <1>6 DEF Procs
<1>8. UNCHANGED <<set, known, observed, held, cache>>
  BY <1>1 DEF memVars, tokenVars
<1>9. NoIdleToken' /\ RetiredHoldNothing' /\ KnownOnDisk' /\ EnforcedOnce'
  BY <1>1, <1>5, <1>7, <1>8, TokensStay, HistoryStays
<1>10. EngineOK' /\ MemoryOK' /\ DownOK'
  BY <1>1, <1>6, EngineStays, MemoryStays, UpStays DEF DownOK
<1> QED BY <1>4, <1>6, <1>9, <1>10

-----------------------------------------------------------------------------
(* The inductive invariant, and what it says.                              *)

LEMMA ConsumersStart == ConsumersInit => ConsumersInv
<1> SUFFICES ASSUME ConsumersInit PROVE ConsumersInv
  OBVIOUS
<1>1. EngineOK
  <2>1. job \in [Names -> Jobs]
    BY NoJobType DEF ConsumersInit
  <2>2. CASE engine = Empty
    <3>1. born = 0 /\ DOMAIN engine = {}
      BY <2>2, EmptyTypes, FS_EmptySet DEF ConsumersInit
    <3> QED BY <2>1, <2>2, <3>1, EmptyTypes, ConsumersBounds DEF EngineOK
  <2>3. CASE engine \in [{1} -> Users]
    <3>1. DOMAIN engine = {1}
      BY <2>3
    <3>2. born = 1
      BY <3>1, FS_Singleton DEF ConsumersInit
    <3>3. {1} \in SUBSET Ids /\ engine \in [{1} -> Containers]
      BY <2>3, ConsumersBounds
    <3>4. engine \in Seens
      BY <3>3, SeenIntro
    <3> QED BY <2>1, <3>1, <3>2, <3>4, ConsumersBounds DEF EngineOK, Ids
  <2> QED BY <2>2, <2>3 DEF ConsumersInit
<1>2. look = [p \in Procs |-> Idle]
  BY DEF ConsumersInit
<1>3. LookOK
  BY <1>2, IdleType DEF LookOK
<1>4. MemoryOK
  <2>1. consumers \in [Names -> Rows]
    BY DEF ConsumersInit, Rows
  <2>2. 0 \in 0 .. MaxAssignment
    BY ConsumersBounds
  <2> QED BY <2>1, <2>2, EmptyTypes DEF ConsumersInit, MemoryOK
<1>5. ControllerOK
  <2>1. assigned \in [Bindings -> 1 .. MaxAssignment]
    BY ConsumersBounds DEF ConsumersInit
  <2>2. assigned \in Sets
    BY <2>1, SetIntro
  <2> QED BY <2>2, EmptyTypes DEF ConsumersInit, ControllerOK
<1>6. DownOK
  <2>1. \A p \in Procs : look[p].at = "idle"
    BY <1>2, IdleType
  <2>2. \A n \in Names : job[n].at = "none"
    BY DEF ConsumersInit, NoJob
  <2> QED BY <2>1, <2>2 DEF ConsumersInit, DownOK
<1>7. NoIdleToken /\ RetiredHoldNothing
  <2>1. DOMAIN set = {} /\ held = [b \in Bindings |-> 0]
    BY EmptyTypes DEF ConsumersInit
  <2> QED BY <2>1 DEF NoIdleToken, RetiredHoldNothing
<1>8. KnownOnDisk /\ EnforcedOnce
  BY DEF ConsumersInit, KnownOnDisk, EnforcedOnce
<1> QED BY <1>1, <1>3, <1>4, <1>5, <1>6, <1>7, <1>8 DEF ConsumersInv

LEMMA LookingInv ==
    ASSUME ConsumersInv, NEW p \in Procs, Looking(p) \/ ListFails(p)
    PROVE  ConsumersInv'
<1>1. CASE List(p)
  BY <1>1, ListInv
<1>2. CASE Reconcile(p)
  BY <1>2, ReconcileInv
<1>3. CASE \E i \in Ids : Inspect(p, i)
  BY <1>3, InspectInv
<1>4. CASE SendInventory(p)
  BY <1>4, SendInventoryInv
<1>5. CASE \E t \in look[p].targets : Enforce(p, t)
  BY <1>5, EnforceInv
<1>6. CASE ListFails(p)
  BY <1>6, ListFailsInv
<1> QED BY <1>1, <1>2, <1>3, <1>4, <1>5, <1>6 DEF Looking

LEMMA WorkersInv ==
    ASSUME ConsumersInv, (\E n \in Names : Working(n)) \/ (\E i \in Ids : Starting(i))
    PROVE  ConsumersInv'
<1>1. ASSUME NEW n \in Names, Working(n) PROVE ConsumersInv'
  BY <1>1, RecreateRemoveInv, RecreateCreateInv, RecreateFinishInv DEF Working
<1>2. ASSUME NEW i \in Ids, Starting(i) PROVE ConsumersInv'
  BY <1>2, StartDecideInv, StartContainerInv DEF Starting
<1> QED BY <1>1, <1>2

LEMMA ReceiveInv ==
    ASSUME ConsumersInv, Receive
    PROVE  ConsumersInv'
  BY ApplyPolicySetInv, UnbindInv, ReceiveCredentialInv, RequestRecreateInv, RetireInv DEF Receive

LEMMA ChangesInv ==
    ASSUME ConsumersInv, Changes
    PROVE  ConsumersInv'
<1>1. CASE \E c \in Users : UserCreates(c)
  BY <1>1, UserCreatesInv
<1>2. CASE \E i \in Ids : UserRemoves(i)
  BY <1>2, UserRemovesInv
<1>3. CASE \E b \in Bindings : Assign(b) \/ DeleteBinding(b) \/ AskRecreate(b)
  BY <1>3, AssignInv, DeleteBindingInv, AskRecreateInv
<1> QED BY <1>1, <1>2, <1>3 DEF Changes

LEMMA ConsumersSteps == ConsumersInv /\ [ConsumersNext]_allVars => ConsumersInv'
<1> SUFFICES ASSUME ConsumersInv, [ConsumersNext]_allVars PROVE ConsumersInv'
  OBVIOUS
<1>1. CASE Start \/ Exit \/ Reboot
  BY <1>1, StartInv, ExitInv, RebootInv
<1>2. CASE \E p \in Procs : Looking(p) \/ ListFails(p)
  BY <1>2, LookingInv
<1>3. CASE \E i \in Ids : Event(i)
  BY <1>3, EventInv
<1>4. CASE (\E n \in Names : Working(n)) \/ (\E i \in Ids : Starting(i))
  BY <1>4, WorkersInv
<1>5. CASE \E b \in Bindings : BindingDeleted(b)
  BY <1>5, BindingDeletedInv
<1>6. CASE Connect \/ Drop
  BY <1>6, ConnectInv, DropInv
<1>7. CASE Receive
  BY <1>7, ReceiveInv
<1>8. CASE Controller
  BY <1>8, HandleRequestInv DEF Controller
<1>9. CASE Changes
  BY <1>9, ChangesInv
<1>10. CASE UNCHANGED allVars
  <2>1. /\ UNCHANGED <<engineVars, job>> /\ UNCHANGED <<alive, memVars, look, cache>>
        /\ UNCHANGED <<enforced, excused, kept>> /\ UNCHANGED link
        /\ UNCHANGED <<in, assigned, matched, credentialed>>
    BY <1>10 DEF allVars, ctlVars, ghostVars
  <2>2. ControllerOK'
    BY <2>1, ControllerStays DEF ConsumersInv
  <2> QED BY <2>1, <2>2, ControllerInv
<1> QED BY <1>1, <1>2, <1>3, <1>4, <1>5, <1>6, <1>7, <1>8, <1>9, <1>10 DEF ConsumersNext

LEMMA ConsumersTypes == ConsumersInv => ConsumersTypeOK
<1> SUFFICES ASSUME ConsumersInv PROVE ConsumersTypeOK
  OBVIOUS
<1> USE DEF ConsumersInv
<1>1. /\ DOMAIN engine \subseteq 1 .. born /\ \A i \in DOMAIN engine : engine[i] \in Containers
      /\ DOMAIN containers \subseteq Ids
      /\ \A i \in DOMAIN containers : containers[i] \in Containers
  BY SeenType DEF EngineOK, MemoryOK
<1>2. /\ DOMAIN set \subseteq Bindings /\ \A b \in DOMAIN set : set[b] \in 1 .. MaxAssignment
      /\ DOMAIN cache.set \subseteq Bindings /\ cache.known \subseteq Bindings
  <2>1. cache.set \in Sets /\ cache.known \subseteq Bindings /\ set \in Sets
    BY DEF MemoryOK
  <2> QED BY <2>1, SetType
<1>3. \A p \in Procs : look[p].at \in {"idle", "list", "look", "send", "enforce"}
  BY DEF LookOK, Looks
<1> QED BY <1>1, <1>2, <1>3 DEF ConsumersTypeOK, MemoryOK, ControllerOK, DownOK, Rows

(* Whatever order the observations, the policy sets, the credentials and   *)
(* the workers come in, and whatever fails, every token the agent holds is *)
(* wanted (observeBindingsLocked, applyPolicySet, unbind, retire).         *)
THEOREM TokensWantedAlways == ConsumersSpec => []TokensWanted
<1>1. ConsumersInv => TokensWanted
  BY ConsumersTypes DEF ConsumersInv, TokensWanted
<1> QED BY <1>1, ConsumersStart, ConsumersSteps, PTL DEF ConsumersSpec

(* A binding enforces its contract once, across restarts of the agent,     *)
(* unless it was unbound or the cache could not be written                 *)
(* (firstObservationsLocked, saveCacheLocked).                             *)
THEOREM EnforcedOnceAlways == ConsumersSpec => []EnforcedOnce
<1>1. ConsumersInv => EnforcedOnce
  BY DEF ConsumersInv
<1> QED BY <1>1, ConsumersStart, ConsumersSteps, PTL DEF ConsumersSpec

=============================================================================

------------------------ MODULE OperatorAccessProofs ------------------------
(***************************************************************************)
(* Proofs about OperatorAccess, for every set of keys, connections,        *)
(* labels, agents, policies and grants.  AccessInv, inductive, gives the   *)
(* five properties that the run operator_access checks.                    *)
(***************************************************************************)
EXTENDS OperatorAccess, TLAPS, FiniteSetTheorems

(* The states of an operator key that was approved once.                   *)
Labelled == {"approved", "revoked"}

(* A connection has the key and the user it authenticates, and the         *)
(* request and the grant it was dispatched with.                           *)
ConnShape ==
    \A c \in Conns :
        /\ conn[c].step \in {"unknown", "counted"} =>
              conn[c].key \in Keys /\ conn[c].user \in Users
        /\ conn[c].step \in {"open", "dispatched", "done"} =>
              conn[c].key \in Keys /\ operators[conn[c].key].state \in Labelled
        /\ conn[c].step = "dispatched" =>
              conn[c].request \in Requests /\ conn[c].grant \in Grants

(* An operator key that was approved once keeps a label of its own and its *)
(* grant.                                                                  *)
OwnLabels ==
    /\ \A k \in Keys : operators[k].state \in Labelled =>
          operators[k].label \in Labels /\ operators[k].grant \in Grants
    /\ \A k, m \in Keys :
          /\ operators[k].state \in Labelled
          /\ operators[m].state \in Labelled
          /\ operators[k].label = operators[m].label
          => k = m

(* What was done under a label was done by a key that has this label now.  *)
ActedLabelled ==
    \A l \in Labels : \A k \in acted[l] :
        operators[k].state \in Labelled /\ operators[k].label = l

(* A connection that performed a request after the revocation of its key   *)
(* has performed one, and dispatches no other.                             *)
LateOnce ==
    /\ work \in Nat
    /\ \A c \in Conns :
          /\ late[c] # 0 => /\ late[c] = 1
                            /\ conn[c].step \in {"done", "open"}
                            /\ operators[conn[c].key].state = "revoked"
          /\ conn[c].step = "dispatched" => MaxWork > 0

(* The connections that were let through by a count and have not inserted  *)
(* their key yet.                                                          *)
Counted(role) == {c \in Conns : conn[c].step = "counted" /\ conn[c].user.role = role}

(* The limit holds for the pending keys and the inserts on their way: the  *)
(* last of these counted before it was on its way itself.                  *)
PendingRoom ==
    /\ PendingCount + Cardinality(Counted("agent"))
          <= PendingLimit + Cardinality(Conns) - 1
    /\ PendingOperatorKeyCount + Cardinality(Counted("operator"))
          <= PendingLimit + Cardinality(Conns) - 1

AccessInv ==
    /\ TypeOK /\ KeyOnOneList /\ ConnShape /\ OwnLabels /\ ActedLabelled
    /\ LateOnce /\ PendingRoom

-----------------------------------------------------------------------------
(* The policies and the bindings have their types after every change.      *)

PolicyRows == [Policies -> Sources \cup {None}]
Binding == [policies : Selections, applied : BOOLEAN]
BindingRows == [Agents -> Binding \cup {None}]

(* A binding whose application is marked stays a binding.                  *)
LEMMA MarkedType ==
    ASSUME NEW row \in Binding, NEW S, NEW a
    PROVE  [row EXCEPT !.applied = a \in S] \in Binding
<1>1. (a \in S) \in BOOLEAN
  OBVIOUS
<1>2. ASSUME NEW v \in BOOLEAN PROVE [row EXCEPT !.applied = v] \in Binding
  BY DEF Binding
<1> QED BY <1>1, <1>2

(* A binding that holds a policy is a binding.                             *)
LEMMA HolderBound ==
    ASSUME TypeOK, NEW name, NEW a \in Holders(name)
    PROVE  a \in Agents /\ bindings[a] \in Binding /\ bindings[a] # None
           /\ name \in bindings[a].policies
  BY DEF Holders, TypeOK, Binding

LEMMA SaveType ==
    ASSUME TypeOK, NEW name \in Policies, NEW source \in Sources, NEW done,
           SavePolicyBindings(name, source, done)
    PROVE  policies' \in PolicyRows /\ bindings' \in BindingRows
<1>1. policies' \in PolicyRows
  BY DEF SavePolicyBindings, PolicyRows, TypeOK
<1>2. ASSUME NEW a \in Agents
      PROVE  (IF a \in Holders(name) THEN [bindings[a] EXCEPT !.applied = a \in done]
              ELSE bindings[a]) \in Binding \cup {None}
  <2>1. CASE a \in Holders(name)
    <3>1. [bindings[a] EXCEPT !.applied = a \in done] \in Binding
      BY <2>1, HolderBound, MarkedType
    <3> QED BY <2>1, <3>1
  <2>2. CASE a \notin Holders(name)
    BY <2>2 DEF TypeOK, Binding
  <2> QED BY <2>1, <2>2
<1>3. bindings' \in BindingRows
  BY <1>2 DEF SavePolicyBindings, BindingRows
<1> QED BY <1>1, <1>3

LEMMA RenameType ==
    ASSUME TypeOK, NEW name \in Policies, NEW newName \in Policies, WebRename(name, newName)
    PROVE  policies' \in PolicyRows /\ bindings' \in BindingRows
<1>1. policies' \in PolicyRows
  BY DEF WebRename, PolicyRows, TypeOK
<1>2. PICK done \in SUBSET Holders(name) :
         bindings' = [a \in Agents |->
            IF a \in Holders(name)
            THEN [policies |-> (bindings[a].policies \ {name}) \cup {newName},
                  applied |-> a \in done]
            ELSE bindings[a]]
  BY DEF WebRename
<1>3. ASSUME NEW a \in Holders(name)
      PROVE  [policies |-> (bindings[a].policies \ {name}) \cup {newName},
              applied |-> a \in done] \in Binding
  <2>1. (bindings[a].policies \ {name}) \cup {newName} \in Selections
    <3>1. bindings[a].policies \subseteq Policies
      BY HolderBound DEF Selections, Binding
    <3> DEFINE S == (bindings[a].policies \ {name}) \cup {newName}
    <3>2. S \subseteq Policies /\ S # {}
      BY <3>1
    <3>3. S \in Selections
      BY <3>2 DEF Selections
    <3> QED BY <3>3
  <2>2. (a \in done) \in BOOLEAN
    OBVIOUS
  <2> QED BY <2>1, <2>2 DEF Binding
<1>4. ASSUME NEW a \in Agents \ Holders(name)
      PROVE  bindings[a] \in Binding \cup {None}
  BY DEF TypeOK, Binding
<1> QED BY <1>1, <1>2, <1>3, <1>4 DEF BindingRows

LEMMA CreateType ==
    ASSUME TypeOK, NEW agent \in Agents, NEW selection \in Selections,
           NEW applied \in BOOLEAN, CreateBinding(agent, selection, applied)
    PROVE  policies' \in PolicyRows /\ bindings' \in BindingRows
  BY DEF CreateBinding, TypeOK, Binding, BindingRows, PolicyRows

(* A change of the web interface.                                          *)
Web ==
    \/ \E name \in Policies :
          \/ \E source \in Sources : WebSave(name, source)
          \/ \E newName \in Policies \ {name} : WebRename(name, newName)
          \/ WebDelete(name)
    \/ \E agent \in Agents :
          \/ \E selection \in Selections :
                WebBind(agent, selection) \/ WebChange(agent, selection)
          \/ WebUnbind(agent)

LEMMA WebType ==
    ASSUME TypeOK, Web
    PROVE  policies' \in PolicyRows /\ bindings' \in BindingRows
<1>1. ASSUME NEW name \in Policies, NEW source \in Sources, WebSave(name, source)
      PROVE  policies' \in PolicyRows /\ bindings' \in BindingRows
  BY <1>1, SaveType DEF WebSave
<1>2. ASSUME NEW name \in Policies, WebDelete(name)
      PROVE  policies' \in PolicyRows /\ bindings' \in BindingRows
  BY <1>2 DEF WebDelete, TypeOK, PolicyRows, BindingRows, Binding
<1>3. ASSUME NEW agent \in Agents, NEW selection \in Selections, WebBind(agent, selection)
      PROVE  policies' \in PolicyRows /\ bindings' \in BindingRows
  BY <1>3, CreateType DEF WebBind
<1>4. ASSUME NEW agent \in Agents, NEW selection \in Selections,
             WebChange(agent, selection)
      PROVE  policies' \in PolicyRows /\ bindings' \in BindingRows
  BY <1>4 DEF WebChange, TypeOK, PolicyRows, BindingRows, Binding
<1>5. ASSUME NEW agent \in Agents, WebUnbind(agent)
      PROVE  policies' \in PolicyRows /\ bindings' \in BindingRows
  BY <1>5 DEF WebUnbind, TypeOK, PolicyRows, BindingRows, Binding
<1> QED BY <1>1, <1>2, <1>3, <1>4, <1>5, RenameType DEF Web

(* A change of the web interface touches no key and no connection.         *)
LEMMA WebFrame ==
    ASSUME Web
    PROVE  /\ UNCHANGED <<agents, operators, conn, acted, late>>
           /\ work < MaxWork /\ work' = work + 1
  BY DEF Web, WebSave, WebRename, WebDelete, WebBind, WebChange, WebUnbind, Changed, Work

-----------------------------------------------------------------------------
(* The pending keys and the inserts on their way.                          *)

AgentPending == {k \in Keys : agents[k].state = "pending"}
OperatorPending == {k \in Keys : operators[k].state = "pending"}

LEMMA PendingFinite ==
    /\ IsFiniteSet(AgentPending) /\ PendingCount = Cardinality(AgentPending)
    /\ IsFiniteSet(OperatorPending)
    /\ PendingOperatorKeyCount = Cardinality(OperatorPending)
    /\ PendingCount \in Nat /\ PendingOperatorKeyCount \in Nat
    /\ Cardinality(Conns) \in Nat
    /\ \A role : /\ IsFiniteSet(Counted(role)) /\ Cardinality(Counted(role)) \in Nat
                 /\ Cardinality(Counted(role)) <= Cardinality(Conns)
<1>1. IsFiniteSet(AgentPending) /\ IsFiniteSet(OperatorPending)
  BY FS_Subset, OperatorAccessAssumption DEF AgentPending, OperatorPending
<1>2. \A role : /\ IsFiniteSet(Counted(role))
                /\ Cardinality(Counted(role)) <= Cardinality(Conns)
  <2>1. \A role : Counted(role) \in SUBSET Conns
    BY DEF Counted
  <2> QED BY <2>1, FS_Subset, OperatorAccessAssumption
<1> QED BY <1>1, <1>2, FS_CardinalityType, OperatorAccessAssumption
        DEF PendingCount, PendingOperatorKeyCount, AgentPending, OperatorPending

(* The bound stays when no key becomes pending and no count lets through.  *)
LEMMA RoomKept ==
    ASSUME PendingRoom,
           AgentPending' \subseteq AgentPending, OperatorPending' \subseteq OperatorPending,
           \A role : Counted(role)' \subseteq Counted(role)
    PROVE  PendingRoom'
<1>1. /\ PendingCount' = Cardinality(AgentPending')
      /\ PendingOperatorKeyCount' = Cardinality(OperatorPending')
  BY DEF PendingCount, PendingOperatorKeyCount, AgentPending, OperatorPending
<1>2. /\ Cardinality(AgentPending') \in Nat /\ Cardinality(AgentPending') <= PendingCount
      /\ Cardinality(OperatorPending') \in Nat
      /\ Cardinality(OperatorPending') <= PendingOperatorKeyCount
  BY PendingFinite, FS_Subset, FS_CardinalityType
<1>3. ASSUME NEW role
      PROVE  /\ Cardinality(Counted(role)') \in Nat
             /\ Cardinality(Counted(role)') <= Cardinality(Counted(role))
  BY PendingFinite, FS_Subset, FS_CardinalityType
<1>4. /\ Cardinality(Counted("agent")') <= Cardinality(Counted("agent"))
      /\ Cardinality(Counted("operator")') <= Cardinality(Counted("operator"))
      /\ Cardinality(Counted("agent")') \in Nat
      /\ Cardinality(Counted("operator")') \in Nat
  BY <1>3
<1> QED BY <1>1, <1>2, <1>4, PendingFinite, OperatorAccessAssumption DEF PendingRoom

(* A count that lets through found room for one more.                      *)
LEMMA RoomCounted ==
    ASSUME AccessInv, NEW c \in Conns, Count(c)
    PROVE  PendingRoom'
<1>1. UNCHANGED <<agents, operators>>
  BY DEF Count
<1>2. PendingCount' = PendingCount /\ PendingOperatorKeyCount' = PendingOperatorKeyCount
  BY <1>1 DEF PendingCount, PendingOperatorKeyCount
<1>3. \A role : /\ Cardinality(Counted(role)') \in Nat
                /\ Cardinality(Counted(role)') <= Cardinality(Conns)
  <2>1. \A role : Counted(role)' \in SUBSET Conns
    BY DEF Counted
  <2> QED BY <2>1, FS_Subset, FS_CardinalityType, OperatorAccessAssumption
<1>4. conn[c].user \in Users /\ conn[c].user.role \in {"agent", "operator"}
  BY DEF Count, AccessInv, ConnShape, Users
<1>5. CASE PendingCount < PendingLimit /\ conn[c].user.role = "agent"
  <2>1. Counted("operator")' \subseteq Counted("operator")
    BY <1>5 DEF Count, Counted, Goto, Set, Closed, AccessInv, TypeOK
  <2>2. Cardinality(Counted("operator")') <= Cardinality(Counted("operator"))
    BY <2>1, PendingFinite, FS_Subset
  <2> QED BY <1>2, <1>3, <1>5, <2>2, PendingFinite, OperatorAccessAssumption
          DEF PendingRoom, AccessInv
<1>6. CASE PendingOperatorKeyCount < PendingLimit /\ conn[c].user.role = "operator"
  <2>1. Counted("agent")' \subseteq Counted("agent")
    BY <1>6 DEF Count, Counted, Goto, Set, Closed, AccessInv, TypeOK
  <2>2. Cardinality(Counted("agent")') <= Cardinality(Counted("agent"))
    BY <2>1, PendingFinite, FS_Subset
  <2> QED BY <1>2, <1>3, <1>6, <2>2, PendingFinite, OperatorAccessAssumption
          DEF PendingRoom, AccessInv
<1>7. CASE (IF conn[c].user.role = "agent" THEN PendingCount ELSE PendingOperatorKeyCount)
              >= PendingLimit
  <2>1. Set(c, Closed)
    BY <1>7 DEF Count
  <2>2. \A role : Counted(role)' \subseteq Counted(role)
    BY <2>1 DEF Counted, Set, Closed, AccessInv, TypeOK
  <2>3. AgentPending' \subseteq AgentPending /\ OperatorPending' \subseteq OperatorPending
    BY <1>1 DEF AgentPending, OperatorPending
  <2> QED BY <2>2, <2>3, RoomKept DEF AccessInv
<1> QED BY <1>4, <1>5, <1>6, <1>7, PendingFinite, OperatorAccessAssumption

(* An insert moves a connection's place to at most one pending key.        *)
LEMMA RoomRecorded ==
    ASSUME AccessInv, NEW c \in Conns, Record(c)
    PROVE  PendingRoom'
<1>1. /\ conn[c].step = "counted" /\ conn[c].key \in Keys
      /\ conn[c].user \in Users /\ conn[c].user.role \in {"agent", "operator"}
  BY DEF Record, AccessInv, ConnShape, Users
<1>2. \A role : Counted(role)' = Counted(role) \ {c}
  BY DEF Record, Set, Closed, Counted, AccessInv, TypeOK
<1>3. c \in Counted(conn[c].user.role)
  BY <1>1 DEF Counted
<1>4. \A role : Cardinality(Counted(role)') =
                   IF c \in Counted(role) THEN Cardinality(Counted(role)) - 1
                   ELSE Cardinality(Counted(role))
  BY <1>2, PendingFinite, FS_RemoveElement
<1>5. /\ PendingCount' = Cardinality(AgentPending')
      /\ PendingOperatorKeyCount' = Cardinality(OperatorPending')
  BY DEF PendingCount, PendingOperatorKeyCount, AgentPending, OperatorPending
<1>6. CASE conn[c].user.role = "agent"
  <2>1. OperatorPending' = OperatorPending
    BY <1>6 DEF Record, OperatorPending
  <2>2. AgentPending' \subseteq AgentPending \cup {conn[c].key}
    BY <1>1, <1>6 DEF Record, RecordKey, AgentPending, AccessInv, TypeOK
  <2>3. PendingCount' \in Nat /\ PendingCount' <= PendingCount + 1
    <3>1. /\ IsFiniteSet(AgentPending \cup {conn[c].key})
          /\ Cardinality(AgentPending \cup {conn[c].key}) \in {PendingCount, PendingCount + 1}
      BY PendingFinite, FS_AddElement
    <3>2. /\ IsFiniteSet(AgentPending')
          /\ Cardinality(AgentPending') <= Cardinality(AgentPending \cup {conn[c].key})
      BY <2>2, <3>1, FS_Subset
    <3> QED BY <1>5, <3>1, <3>2, PendingFinite, FS_CardinalityType
  <2> QED BY <1>3, <1>4, <1>5, <1>6, <2>1, <2>3, PendingFinite, OperatorAccessAssumption
          DEF PendingRoom, AccessInv
<1>7. CASE conn[c].user.role = "operator"
  <2>1. AgentPending' = AgentPending
    BY <1>7 DEF Record, AgentPending
  <2>2. OperatorPending' \subseteq OperatorPending \cup {conn[c].key}
    BY <1>1, <1>7 DEF Record, RecordOperatorKey, OperatorPending, AccessInv, TypeOK
  <2>3. PendingOperatorKeyCount' \in Nat
        /\ PendingOperatorKeyCount' <= PendingOperatorKeyCount + 1
    <3>1. /\ IsFiniteSet(OperatorPending \cup {conn[c].key})
          /\ Cardinality(OperatorPending \cup {conn[c].key}) \in {PendingOperatorKeyCount, PendingOperatorKeyCount + 1}
      BY PendingFinite, FS_AddElement
    <3>2. /\ IsFiniteSet(OperatorPending')
          /\ Cardinality(OperatorPending') <= Cardinality(OperatorPending \cup {conn[c].key})
      BY <2>2, <3>1, FS_Subset
    <3> QED BY <1>5, <3>1, <3>2, PendingFinite, FS_CardinalityType
  <2> QED BY <1>3, <1>4, <1>5, <1>7, <2>1, <2>3, PendingFinite, OperatorAccessAssumption
          DEF PendingRoom, AccessInv
<1> QED BY <1>1, <1>6, <1>7

-----------------------------------------------------------------------------
(* A step of one connection that leaves the keys and the rest alone.       *)

ConnType ==
    [step : {"closed", "unknown", "counted", "open", "dispatched", "done"},
     key : Keys \cup {None}, user : Users \cup {None}, request : Requests \cup {None},
     grant : Grants \cup {None}, outcome : Outcomes]

(* What the invariant asks of the connection c in the state r.             *)
ConnGood(c, r, l) ==
    /\ r \in ConnType
    /\ r.step = "closed" => r = Closed
    /\ r.step \in {"unknown", "counted"} => r.key \in Keys /\ r.user \in Users
    /\ r.step \in {"open", "dispatched", "done"} =>
          r.key \in Keys /\ operators[r.key].state \in Labelled
    /\ r.step = "dispatched" =>
          /\ r.request \in Requests /\ r.grant \in Grants
          /\ r.grant = operators[r.key].grant /\ MaxWork > 0
    /\ l \in 0 .. MaxWork
    /\ l # 0 => /\ l = 1 /\ r.step \in {"done", "open"}
                /\ operators[r.key].state = "revoked"

(* The invariant says of every connection that it is good.                 *)
LEMMA InvConnGood ==
    ASSUME AccessInv, NEW c \in Conns
    PROVE  ConnGood(c, conn[c], late[c])
  BY DEF AccessInv, TypeOK, ConnShape, LateOnce, ConnGood, ConnType, Labelled

(* One connection goes on to a good state; the keys stay as they are.      *)
LEMMA ConnChange ==
    ASSUME AccessInv, NEW c \in Conns, NEW r, NEW l,
           conn' = [conn EXCEPT ![c] = r], late' = [late EXCEPT ![c] = l],
           ConnGood(c, r, l), UNCHANGED <<agents, operators>>, work' \in Nat,
           policies' \in PolicyRows, bindings' \in BindingRows,
           acted' \in [Labels -> SUBSET Keys], ActedLabelled',
           r.step = "counted" => PendingRoom'
    PROVE  AccessInv'
<1>1. ASSUME NEW d \in Conns PROVE ConnGood(d, conn'[d], late'[d])
  <2>1. ConnGood(d, conn[d], late[d])
    BY InvConnGood
  <2> QED BY <2>1 DEF AccessInv, TypeOK
<1>2. TypeOK'
  BY <1>1 DEF AccessInv, TypeOK, ConnGood, ConnType, Labelled, PolicyRows, BindingRows,
              Binding
<1>3. KeyOnOneList' /\ OwnLabels'
  BY DEF AccessInv, KeyOnOneList, OwnLabels
<1>4. ConnShape'
  BY <1>1 DEF ConnShape, ConnGood
<1>5. LateOnce'
  BY <1>1 DEF LateOnce, ConnGood
<1>6. PendingRoom'
  <2>1. CASE r.step # "counted"
    <3>1. \A role : Counted(role)' \subseteq Counted(role)
      BY <2>1 DEF Counted, AccessInv, TypeOK
    <3>2. AgentPending' = AgentPending /\ OperatorPending' = OperatorPending
      BY DEF AgentPending, OperatorPending
    <3> QED BY <3>1, <3>2, RoomKept DEF AccessInv
  <2> QED BY <2>1
<1> QED BY <1>2, <1>3, <1>4, <1>5, <1>6 DEF AccessInv

(* One connection goes on and nothing else changes but the bounded work.   *)
LEMMA ConnStep ==
    ASSUME AccessInv, NEW c \in Conns, NEW r, NEW l,
           conn' = [conn EXCEPT ![c] = r], late' = [late EXCEPT ![c] = l],
           ConnGood(c, r, l), UNCHANGED <<agents, operators, policies, bindings, acted>>,
           work' \in Nat,
           r.step = "counted" => PendingRoom'
    PROVE  AccessInv'
<1>1. /\ policies' \in PolicyRows /\ bindings' \in BindingRows
      /\ acted' \in [Labels -> SUBSET Keys]
  BY DEF AccessInv, TypeOK, PolicyRows, BindingRows, Binding
<1>2. ActedLabelled'
  BY DEF AccessInv, ActedLabelled
<1> QED BY <1>1, <1>2, ConnChange

(* No connection changes by a step of another, so late[c] may be kept.     *)
LEMMA LateSame ==
    ASSUME AccessInv, NEW c \in Conns, UNCHANGED late
    PROVE  late' = [late EXCEPT ![c] = late[c]]
  BY DEF AccessInv, TypeOK

(* A closed connection is good.                                            *)
LEMMA ClosedGood ==
    ASSUME NEW c PROVE ConnGood(c, Closed, 0)
  BY OperatorAccessAssumption DEF ConnGood, Closed, ConnType, Outcomes

LEMMA AuthenticateInv ==
    ASSUME AccessInv, NEW c \in Conns, NEW key \in Keys, NEW user \in Users,
           Authenticate(c, key, user)
    PROVE  AccessInv'
<1> DEFINE unknown == [[Closed EXCEPT !.key = key, !.user = user] EXCEPT !.step = "unknown"]
           open == [Closed EXCEPT !.step = "open", !.key = key]
<1>0. Closed \in ConnType
  BY DEF Closed, ConnType, Outcomes
<1>1. ConnGood(c, conn[c], late[c]) /\ conn[c].step = "closed"
  BY InvConnGood DEF Authenticate
<1>2. late[c] = 0 /\ late' = [late EXCEPT ![c] = 0]
  BY <1>1, LateSame DEF ConnGood, Authenticate
<1>3. UNCHANGED <<agents, operators, policies, bindings, acted>> /\ work' \in Nat
  BY DEF Authenticate, AccessInv, LateOnce
<1>4. CASE conn' = [conn EXCEPT ![c] = unknown]
  <2>1. /\ unknown \in ConnType /\ unknown.step = "unknown"
        /\ unknown.key = key /\ unknown.user = user
    BY <1>0 DEF ConnType
  <2>2. ConnGood(c, unknown, 0) /\ unknown.step = "unknown"
    <3> HIDE DEF unknown
    <3> QED BY <2>1, OperatorAccessAssumption DEF ConnGood, ConnType, Outcomes
  <2> HIDE DEF unknown
  <2> QED BY <1>2, <1>3, <1>4, <2>2, ConnStep
<1>5. CASE /\ conn' = [conn EXCEPT ![c] = open]
           /\ operators[key].state = "approved"
  <2>1. open \in ConnType /\ open.step = "open" /\ open.key = key
    BY <1>0 DEF ConnType
  <2>2. ConnGood(c, open, 0) /\ open.step = "open"
    <3> HIDE DEF open
    <3> QED BY <1>5, <2>1, OperatorAccessAssumption DEF ConnGood, ConnType, Outcomes, Labelled
  <2> HIDE DEF open
  <2> QED BY <1>2, <1>3, <1>5, <2>2, ConnStep
<1> QED BY <1>4, <1>5 DEF Authenticate, Set

LEMMA CountInv ==
    ASSUME AccessInv, NEW c \in Conns, Count(c)
    PROVE  AccessInv'
<1> DEFINE counted == [conn[c] EXCEPT !.step = "counted"]
<1>1. ConnGood(c, conn[c], late[c]) /\ conn[c].step = "unknown"
  BY InvConnGood DEF Count
<1>2. late[c] = 0 /\ late' = [late EXCEPT ![c] = 0]
  BY <1>1, LateSame DEF ConnGood, Count
<1>3. UNCHANGED <<agents, operators, policies, bindings, acted>> /\ work' \in Nat
  BY DEF Count, AccessInv, LateOnce
<1>4. CASE conn' = [conn EXCEPT ![c] = counted]
  <2>1. ConnGood(c, counted, 0)
    BY <1>1, OperatorAccessAssumption DEF ConnGood, ConnType
  <2> HIDE DEF counted
  <2> QED BY <1>2, <1>3, <1>4, <2>1, ConnStep, RoomCounted
<1>5. CASE conn' = [conn EXCEPT ![c] = Closed]
  BY <1>2, <1>3, <1>5, ClosedGood, ConnStep, RoomCounted
<1> QED BY <1>4, <1>5 DEF Count, Goto, Set

LEMMA DisconnectInv ==
    ASSUME AccessInv, NEW c \in Conns, Disconnect(c)
    PROVE  AccessInv'
<1>1. UNCHANGED <<agents, operators, policies, bindings, acted>> /\ work' \in Nat
  BY DEF Disconnect, AccessInv, LateOnce
<1>2. Closed.step = "closed"
  BY DEF Closed
<1> QED BY <1>1, <1>2, ClosedGood, ConnStep DEF Disconnect, Set

LEMMA DispatchInv ==
    ASSUME AccessInv, NEW c \in Conns, NEW request \in Requests, Dispatch(c, request)
    PROVE  AccessInv'
<1> DEFINE sent == [conn[c] EXCEPT !.step = "dispatched", !.request = request,
                                   !.grant = operators[conn[c].key].grant]
<1>1. ConnGood(c, conn[c], late[c]) /\ conn[c].step = "open"
  BY InvConnGood DEF Dispatch
<1>2. /\ UNCHANGED <<agents, operators, policies, bindings, acted>>
      /\ work' \in Nat /\ MaxWork > 0
  BY OperatorAccessAssumption DEF Dispatch, Work, AccessInv, LateOnce
<1>3. CASE operators[conn[c].key].state = "approved"
  <2>1. late[c] = 0 /\ late' = [late EXCEPT ![c] = 0]
    BY <1>1, <1>3, LateSame DEF ConnGood, Dispatch
  <2>2. conn' = [conn EXCEPT ![c] = sent]
    BY <1>3 DEF Dispatch
  <2>3. ConnGood(c, sent, 0) /\ sent.step = "dispatched"
    BY <1>1, <1>2, <1>3, OperatorAccessAssumption
       DEF ConnGood, ConnType, AccessInv, OwnLabels, Labelled
  <2> HIDE DEF sent
  <2> QED BY <1>2, <2>1, <2>2, <2>3, ConnStep
<1>4. CASE operators[conn[c].key].state # "approved"
  <2>1. conn' = [conn EXCEPT ![c] = Closed] /\ late' = [late EXCEPT ![c] = 0]
    BY <1>4 DEF Dispatch, Set
  <2>2. Closed.step = "closed"
    BY DEF Closed
  <2> QED BY <1>2, <2>1, <2>2, ClosedGood, ConnStep
<1> QED BY <1>3, <1>4

LEMMA ReplyInv ==
    ASSUME AccessInv, NEW c \in Conns, Reply(c)
    PROVE  AccessInv'
<1> DEFINE open == [conn[c] EXCEPT !.step = "open", !.request = None, !.grant = None,
                                   !.outcome = None]
<1>1. ConnGood(c, conn[c], late[c]) /\ conn[c].step = "done"
  BY InvConnGood DEF Reply
<1>2. UNCHANGED <<agents, operators, policies, bindings, acted>> /\ work' \in Nat
  BY DEF Reply, AccessInv, LateOnce
<1>3. CASE conn' = [conn EXCEPT ![c] = open] /\ UNCHANGED late
  <2>1. ConnGood(c, open, late[c]) /\ open.step = "open"
    BY <1>1 DEF ConnGood, ConnType, Outcomes
  <2> HIDE DEF open
  <2> QED BY <1>2, <1>3, <2>1, ConnStep, LateSame
<1>4. CASE conn' = [conn EXCEPT ![c] = Closed] /\ late' = [late EXCEPT ![c] = 0]
  <2>1. Closed.step = "closed"
    BY DEF Closed
  <2> QED BY <1>2, <1>4, <2>1, ClosedGood, ConnStep
<1> QED BY <1>3, <1>4 DEF Reply, Set

(* The invariant read connection by connection and row by row.             *)
LEMMA InvFromParts ==
    ASSUME AccessInv,
           agents' \in [Keys -> [state : {"none", "pending", "approved", "rejected"},
                                 name : Agents \cup {None}]],
           operators' \in [Keys -> [state : {"none", "pending", "approved", "rejected",
                                             "revoked"},
                                    label : Labels \cup {None},
                                    grant : Grants \cup {None}]],
           UNCHANGED <<conn, policies, bindings, acted, late>>, work' \in Nat,
           \A k \in Keys : operators[k].state \in Labelled =>
              /\ operators'[k].state \in Labelled
              /\ operators[k].state = "revoked" => operators'[k].state = "revoked"
              /\ operators'[k].label = operators[k].label
              /\ operators'[k].grant = operators[k].grant,
           KeyOnOneList', OwnLabels',
           AgentPending' \subseteq AgentPending, OperatorPending' \subseteq OperatorPending
    PROVE  AccessInv'
<1>1. TypeOK'
  <2>1. ASSUME NEW c \in Conns, conn[c].step = "dispatched"
        PROVE  /\ operators'[conn[c].key].state \in {"approved", "revoked"}
               /\ conn[c].grant = operators'[conn[c].key].grant
    BY <2>1 DEF AccessInv, TypeOK, ConnShape, Labelled
  <2> QED BY <2>1 DEF AccessInv, TypeOK
<1>2. ConnShape'
  BY DEF AccessInv, ConnShape
<1>3. ActedLabelled'
  <2>1. \A l \in Labels : \A k \in acted[l] : k \in Keys
    BY DEF AccessInv, TypeOK
  <2> QED BY <2>1 DEF AccessInv, ActedLabelled
<1>4. LateOnce'
  <2>1. \A c \in Conns : late[c] # 0 => conn[c].key \in Keys
    BY DEF AccessInv, LateOnce, ConnShape
  <2> QED BY <2>1 DEF AccessInv, LateOnce, Labelled
<1>5. PendingRoom'
  <2>1. \A role : Counted(role)' \subseteq Counted(role)
    BY DEF Counted
  <2> QED BY <2>1, RoomKept DEF AccessInv
<1> QED BY <1>1, <1>2, <1>3, <1>4, <1>5 DEF AccessInv

(* The decisions of the web interface on keys.                             *)
LEMMA DecideAgentInv ==
    ASSUME AccessInv, NEW key \in Keys, NEW approve \in BOOLEAN, DecideAgent(key, approve)
    PROVE  AccessInv'
<1>1. /\ UNCHANGED <<operators, conn, policies, bindings, acted, late>> /\ work' \in Nat
      /\ agents[key].state = "pending"
  BY DEF DecideAgent, Decided, Work, AccessInv, LateOnce
<1>2. PICK s \in {"approved", "rejected"} : agents' = [agents EXCEPT ![key].state = s]
  BY DEF DecideAgent
<1>3. agents' \in [Keys -> [state : {"none", "pending", "approved", "rejected"},
                            name : Agents \cup {None}]]
  BY <1>2 DEF AccessInv, TypeOK
<1>4. KeyOnOneList' /\ OwnLabels'
  BY <1>1, <1>2 DEF AccessInv, TypeOK, KeyOnOneList, OwnLabels
<1>5. AgentPending' \subseteq AgentPending /\ OperatorPending' \subseteq OperatorPending
  BY <1>1, <1>2 DEF AccessInv, TypeOK, AgentPending, OperatorPending
<1>6. operators' \in [Keys -> [state : {"none", "pending", "approved", "rejected",
                                        "revoked"},
                               label : Labels \cup {None}, grant : Grants \cup {None}]]
  BY <1>1 DEF AccessInv, TypeOK
<1> QED BY <1>1, <1>3, <1>4, <1>5, <1>6, InvFromParts

LEMMA OperatorDecisionInv ==
    ASSUME AccessInv, NEW key \in Keys,
           \/ \E label \in Labels, grant \in Grants : ApproveOperatorKey(key, label, grant)
           \/ RejectOperatorKey(key) \/ RevokeOperatorKey(key)
    PROVE  AccessInv'
<1>1. UNCHANGED <<agents, conn, policies, bindings, acted, late>> /\ work' \in Nat
  BY DEF ApproveOperatorKey, RejectOperatorKey, RevokeOperatorKey, Decided, Work,
         AccessInv, LateOnce
<1>2. agents' \in [Keys -> [state : {"none", "pending", "approved", "rejected"},
                            name : Agents \cup {None}]]
  BY <1>1 DEF AccessInv, TypeOK
<1>3. ASSUME NEW label \in Labels, NEW grant \in Grants,
             ApproveOperatorKey(key, label, grant)
      PROVE  AccessInv'
  <2> DEFINE row == [state |-> "approved", label |-> label, grant |-> grant]
  <2>1. /\ operators' = [operators EXCEPT ![key] = row]
        /\ operators[key].state = "pending" /\ LabelFree(key, label)
    BY <1>3 DEF ApproveOperatorKey
  <2>2. operators' \in [Keys -> [state : {"none", "pending", "approved", "rejected",
                                          "revoked"},
                                 label : Labels \cup {None}, grant : Grants \cup {None}]]
    BY <2>1 DEF AccessInv, TypeOK
  <2>3. operators'[key] = row /\ \A k \in Keys \ {key} : operators'[k] = operators[k]
    BY <2>1 DEF AccessInv, TypeOK
  <2>4. KeyOnOneList'
    BY <1>1, <2>1, <2>3 DEF AccessInv, KeyOnOneList
  <2>5. OwnLabels'
    BY <2>1, <2>3 DEF AccessInv, OwnLabels, Labelled, LabelFree
  <2>6. AgentPending' \subseteq AgentPending /\ OperatorPending' \subseteq OperatorPending
    BY <1>1, <2>3 DEF AgentPending, OperatorPending
  <2>7. \A k \in Keys : operators[k].state \in Labelled => operators'[k] = operators[k]
    BY <2>1, <2>3 DEF Labelled
  <2> QED BY <1>1, <1>2, <2>2, <2>4, <2>5, <2>6, <2>7, InvFromParts
<1>4. ASSUME NEW s \in {"rejected", "revoked"},
             operators' = [operators EXCEPT ![key].state = s],
             operators[key].state = IF s = "rejected" THEN "pending" ELSE "approved"
      PROVE  AccessInv'
  <2>1. operators' \in [Keys -> [state : {"none", "pending", "approved", "rejected",
                                          "revoked"},
                                 label : Labels \cup {None}, grant : Grants \cup {None}]]
    <3>1. /\ s \in {"none", "pending", "approved", "rejected", "revoked"}
          /\ operators[key] \in [state : {"none", "pending", "approved", "rejected",
                                         "revoked"},
                                label : Labels \cup {None}, grant : Grants \cup {None}]
      BY DEF AccessInv, TypeOK
    <3>2. [operators[key] EXCEPT !.state = s] \in
             [state : {"none", "pending", "approved", "rejected", "revoked"},
              label : Labels \cup {None}, grant : Grants \cup {None}]
      BY <3>1
    <3>3. operators' = [operators EXCEPT ![key] = [operators[key] EXCEPT !.state = s]]
      BY <1>4
    <3> QED BY <3>2, <3>3 DEF AccessInv, TypeOK
  <2>2. /\ operators'[key] = [operators[key] EXCEPT !.state = s]
        /\ \A k \in Keys \ {key} : operators'[k] = operators[k]
    BY <1>4 DEF AccessInv, TypeOK
  <2>3. /\ operators'[key].state = s
        /\ operators'[key].label = operators[key].label
        /\ operators'[key].grant = operators[key].grant
    BY <2>2 DEF AccessInv, TypeOK
  <2>4. KeyOnOneList'
    BY <1>1, <1>4, <2>2 DEF AccessInv, KeyOnOneList
  <2>5. OwnLabels'
    BY <1>4, <2>2, <2>3 DEF AccessInv, OwnLabels, Labelled
  <2>6. AgentPending' \subseteq AgentPending /\ OperatorPending' \subseteq OperatorPending
    BY <1>1, <2>2, <2>3 DEF AgentPending, OperatorPending
  <2>7. \A k \in Keys : operators[k].state \in Labelled =>
           /\ operators'[k].state \in Labelled
           /\ operators[k].state = "revoked" => operators'[k].state = "revoked"
           /\ operators'[k].label = operators[k].label
           /\ operators'[k].grant = operators[k].grant
    BY <1>4, <2>2, <2>3 DEF Labelled
  <2> QED BY <1>1, <1>2, <2>1, <2>4, <2>5, <2>6, <2>7, InvFromParts
<1> QED BY <1>3, <1>4 DEF RejectOperatorKey, RevokeOperatorKey

(* An insert changes no key that was decided, and puts no key on the list  *)
(* it is not on.                                                           *)
LEMMA RecordInv ==
    ASSUME AccessInv, NEW c \in Conns, Record(c)
    PROVE  AccessInv'
<1>1. /\ conn[c].step = "counted" /\ conn[c].key \in Keys /\ conn[c].user \in Users
      /\ UNCHANGED <<policies, bindings, acted, late, work>>
      /\ conn' = [conn EXCEPT ![c] = Closed]
  BY DEF Record, Set, AccessInv, ConnShape
<1>2. /\ agents' \in [Keys -> [state : {"none", "pending", "approved", "rejected"},
                               name : Agents \cup {None}]]
      /\ operators' \in [Keys -> [state : {"none", "pending", "approved", "rejected",
                                           "revoked"},
                                  label : Labels \cup {None}, grant : Grants \cup {None}]]
  <2>1. CASE conn[c].user.role = "agent"
    <3>1. conn[c].user.name \in Agents
      BY <1>1, <2>1 DEF Users
    <3> QED BY <1>1, <2>1, <3>1 DEF Record, RecordKey, AccessInv, TypeOK
  <2>2. CASE conn[c].user.role # "agent"
    <3>1. conn[c].user.name \in Labels
      BY <1>1, <2>2 DEF Users
    <3> QED BY <1>1, <2>2, <3>1 DEF Record, RecordOperatorKey, AccessInv, TypeOK
  <2> QED BY <2>1, <2>2
<1>3. \A k \in Keys :
         /\ operators[k].state \in Labelled => operators'[k] = operators[k]
         /\ operators'[k].state \in Labelled => operators'[k] = operators[k]
  BY <1>1 DEF Record, RecordOperatorKey, AccessInv, TypeOK, Labelled
<1>4. KeyOnOneList'
  <2>1. \A k \in Keys : agents[k].state = "none" \/ operators[k].state = "none"
    BY DEF AccessInv, KeyOnOneList
  <2>2. CASE conn[c].user.role = "agent"
    <3>1. /\ operators' = operators
          /\ \A k \in Keys : agents'[k] = agents[k] \/ operators[k].state = "none"
      BY <1>1, <2>2 DEF Record, RecordKey, AccessInv, TypeOK
    <3> QED BY <2>1, <3>1 DEF KeyOnOneList
  <2>3. CASE conn[c].user.role # "agent"
    <3>1. /\ agents' = agents
          /\ \A k \in Keys : operators'[k] = operators[k] \/ agents[k].state = "none"
      BY <1>1, <2>3 DEF Record, RecordOperatorKey, AccessInv, TypeOK
    <3> QED BY <2>1, <3>1 DEF KeyOnOneList
  <2> QED BY <2>2, <2>3
<1>5. OwnLabels'
  BY <1>3 DEF AccessInv, OwnLabels
<1>6. ActedLabelled'
  <2>1. \A l \in Labels : \A k \in acted[l] : k \in Keys
    BY DEF AccessInv, TypeOK
  <2> QED BY <1>1, <1>3, <2>1 DEF AccessInv, ActedLabelled
<1>7. ASSUME NEW d \in Conns PROVE ConnGood(d, conn[d], late[d])'
  <2>1. ConnGood(d, conn[d], late[d])
    BY InvConnGood
  <2>2. CASE d = c
    <3>1. conn'[d] = Closed /\ late'[d] = 0
      BY <1>1, <2>1, <2>2 DEF AccessInv, TypeOK, ConnGood
    <3>2. Closed \in ConnType /\ Closed.step = "closed"
      BY DEF Closed, ConnType, Outcomes
    <3> QED BY <3>1, <3>2, OperatorAccessAssumption DEF ConnGood, ConnType
  <2>3. CASE d # c
    <3>1. conn'[d] = conn[d] /\ late'[d] = late[d]
      BY <1>1, <2>3 DEF AccessInv, TypeOK
    <3>2. CASE conn[d].step \in {"open", "dispatched", "done"}
      BY <1>3, <2>1, <3>1, <3>2 DEF ConnGood
    <3>3. CASE conn[d].step \notin {"open", "dispatched", "done"}
      BY <2>1, <3>1, <3>3 DEF ConnGood
    <3> QED BY <3>2, <3>3
  <2> QED BY <2>2, <2>3
<1>8. conn' \in [Conns -> ConnType] /\ late' \in [Conns -> 0 .. MaxWork]
  BY <1>1, ClosedGood DEF AccessInv, TypeOK, ConnType, ConnGood
<1>9. TypeOK'
  BY <1>1, <1>2, <1>7, <1>8 DEF AccessInv, TypeOK, ConnGood, ConnType, Labelled
<1>10. ConnShape' /\ LateOnce'
  BY <1>1, <1>7 DEF ConnShape, LateOnce, ConnGood, AccessInv
<1> QED BY <1>4, <1>5, <1>6, <1>9, <1>10, RoomRecorded DEF AccessInv

(* A request keeps the policies and the bindings within their types.       *)
LEMMA PerformType ==
    ASSUME AccessInv, NEW c \in Conns, Perform(c)
    PROVE  policies' \in PolicyRows /\ bindings' \in BindingRows
<1> DEFINE request == conn[c].request
<1> DEFINE grant == conn[c].grant
<1> DEFINE Typed == policies' \in PolicyRows /\ bindings' \in BindingRows
<1>1. TypeOK /\ request \in Requests
  BY DEF Perform, AccessInv, ConnShape
<1>2. Unchanged => Typed
  BY <1>1 DEF Unchanged, TypeOK, PolicyRows, BindingRows, Binding
<1>3. PICK outcome \in Outcomes \ {None} :
         CASE request.op = "read" -> Read(grant, request, outcome)
           [] request.op = "put" -> PutPolicy(grant, request, outcome)
           [] request.op = "bind" -> Bind(grant, request, outcome)
           [] request.op = "unbind" -> Unbind(grant, request, outcome)
  BY DEF Perform
<1>4. CASE request.op = "read"
  BY <1>2, <1>3, <1>4 DEF Read
<1>5. CASE request.op = "put"
  <2>1. request.name \in Policies /\ request.source \in Sources
    BY <1>1, <1>5 DEF Requests
  <2>2. PutPolicy(grant, request, outcome)
    BY <1>3, <1>5
  <2> HIDE DEF request, grant
  <2>3. Unchanged \/ \E done : SavePolicyBindings(request.name, request.source, done)
    BY <2>2 DEF PutPolicy
  <2> QED BY <1>1, <1>2, <2>1, <2>3, SaveType
<1>6. request.op \in {"bind", "unbind"} => request.agent \in Agents
  BY <1>1 DEF Requests
<1>7. bindings[request.agent] # None /\ request.agent \in Agents =>
         bindings[request.agent] \in Binding
  BY <1>1 DEF TypeOK, Binding
<1>8. CASE request.op = "bind"
  <2>1. request.selection \in Selections
    BY <1>1, <1>8 DEF Requests
  <2>2. Bind(grant, request, outcome)
    BY <1>3, <1>8
  <2>3. request.agent \in Agents
    BY <1>6, <1>8
  <2> HIDE DEF request, grant
  <2>4. \/ Unchanged
        \/ /\ bindings[request.agent] # None
           /\ \E applied \in BOOLEAN : Apply(request.agent, applied)
        \/ \E applied \in BOOLEAN : CreateBinding(request.agent, request.selection, applied)
    BY <2>2 DEF Bind, RepeatBind
  <2>5. CASE /\ bindings[request.agent] # None
             /\ \E applied \in BOOLEAN : Apply(request.agent, applied)
    BY <1>1, <1>7, <2>3, <2>5 DEF Apply, TypeOK, Binding, BindingRows, PolicyRows
  <2> QED BY <1>1, <1>2, <2>1, <2>3, <2>4, <2>5, CreateType
<1>9. CASE request.op = "unbind"
  <2>1. Unbind(grant, request, outcome)
    BY <1>3, <1>9
  <2> HIDE DEF request, grant
  <2>2. \/ Unchanged
        \/ bindings' = [bindings EXCEPT ![request.agent] = None] /\ UNCHANGED policies
    BY <2>1 DEF Unbind
  <2>3. CASE bindings' = [bindings EXCEPT ![request.agent] = None] /\ UNCHANGED policies
    BY <1>1, <2>3 DEF TypeOK, Binding, BindingRows, PolicyRows
  <2> QED BY <1>2, <2>2, <2>3
<1> QED BY <1>1, <1>4, <1>5, <1>8, <1>9 DEF Requests

(* A request a connection performs: it is late only when its key was       *)
(* revoked after the dispatch, and acts under its key's label.             *)
LEMMA PerformInv ==
    ASSUME AccessInv, NEW c \in Conns, Perform(c)
    PROVE  AccessInv'
<1> DEFINE key == conn[c].key
<1>1. ConnGood(c, conn[c], late[c]) /\ conn[c].step = "dispatched"
  BY InvConnGood DEF Perform
<1>2. UNCHANGED <<agents, operators, work>> /\ work' \in Nat
  BY DEF Perform, AccessInv, LateOnce
<1>3. late[c] = 0 /\ MaxWork > 0 /\ key \in Keys /\ operators[key].state \in Labelled
  BY <1>1 DEF ConnGood
<1>4. PICK outcome \in Outcomes \ {None} :
         conn' = [conn EXCEPT ![c] = [conn[c] EXCEPT !.step = "done", !.request = None,
                                                     !.grant = None, !.outcome = outcome]]
  BY DEF Perform
<1> DEFINE done == [conn[c] EXCEPT !.step = "done", !.request = None, !.grant = None,
                                   !.outcome = outcome]
<1>5. PICK l \in {0, 1} : /\ late' = [late EXCEPT ![c] = l]
                          /\ l = 1 => operators[key].state = "revoked"
  <2>1. CASE operators[key].state = "approved"
    BY <1>3, <2>1, LateSame DEF Perform
  <2>2. CASE operators[key].state = "revoked"
    BY <1>3, <2>2 DEF Perform
  <2> QED BY <1>3, <2>1, <2>2 DEF Labelled
<1>6. ConnGood(c, done, l) /\ done.step = "done"
  <2>1. done \in ConnType /\ done.step = "done" /\ done.key = key
    BY <1>1 DEF ConnGood, ConnType
  <2>2. l \in 0 .. MaxWork /\ (l # 0 => l = 1)
    BY <1>3, <1>5, OperatorAccessAssumption
  <2> HIDE DEF done
  <2> QED BY <1>3, <1>5, <2>1, <2>2 DEF ConnGood
<1>7. operators[key].label \in Labels
  BY <1>3 DEF AccessInv, OwnLabels
<1>8. \/ acted' = acted
      \/ acted' = [acted EXCEPT ![operators[key].label] =
                                    acted[operators[key].label] \cup {key}]
  BY DEF Perform
<1>9. acted' \in [Labels -> SUBSET Keys]
  BY <1>3, <1>7, <1>8 DEF AccessInv, TypeOK
<1>10. ActedLabelled'
  BY <1>2, <1>3, <1>7, <1>8 DEF AccessInv, TypeOK, ActedLabelled
<1>11. conn' = [conn EXCEPT ![c] = done]
  BY <1>4
<1> HIDE DEF done
<1> QED BY <1>2, <1>5, <1>6, <1>9, <1>10, <1>11, PerformType, ConnChange

LEMMA WebInv ==
    ASSUME AccessInv, Web
    PROVE  AccessInv'
<1>1. UNCHANGED <<agents, operators, conn, acted, late>> /\ work' \in Nat
  BY WebFrame DEF AccessInv, LateOnce
<1>2. policies' \in PolicyRows /\ bindings' \in BindingRows
  BY WebType DEF AccessInv
<1>3. TypeOK'
  BY <1>1, <1>2 DEF AccessInv, TypeOK, PolicyRows, BindingRows, Binding
<1>4. KeyOnOneList' /\ ConnShape' /\ OwnLabels' /\ ActedLabelled' /\ LateOnce'
  BY <1>1 DEF AccessInv, KeyOnOneList, ConnShape, OwnLabels, ActedLabelled, LateOnce
<1>5. PendingRoom'
  <2>1. AgentPending' = AgentPending /\ OperatorPending' = OperatorPending
    BY <1>1 DEF AgentPending, OperatorPending
  <2>2. \A role : Counted(role)' = Counted(role)
    BY <1>1 DEF Counted
  <2> QED BY <2>1, <2>2, RoomKept DEF AccessInv
<1> QED BY <1>3, <1>4, <1>5 DEF AccessInv

-----------------------------------------------------------------------------
(* The initial states.                                                     *)

LEMMA InitRoom ==
    ASSUME \A k \in Keys : agents[k].state # "pending" /\ operators[k].state # "pending",
           \A c \in Conns : conn[c] = Closed
    PROVE  PendingRoom
<1>1. AgentPending = {} /\ OperatorPending = {}
  BY DEF AgentPending, OperatorPending
<1>2. Counted("agent") = {} /\ Counted("operator") = {}
  BY DEF Counted, Closed
<1> QED BY <1>1, <1>2, PendingFinite, FS_EmptySet, OperatorAccessAssumption
        DEF PendingRoom

(* A controller with no key, and one with the operator key in use.         *)
LEMMA InitRows ==
    ASSUME Init
    PROVE  /\ agents \in [Keys -> [state : {"none", "pending", "approved", "rejected"},
                                   name : Agents \cup {None}]]
           /\ operators \in [Keys -> [state : {"none", "pending", "approved", "rejected",
                                               "revoked"},
                                      label : Labels \cup {None},
                                      grant : Grants \cup {None}]]
           /\ policies \in PolicyRows /\ bindings \in BindingRows
           /\ acted \in [Labels -> SUBSET Keys]
           /\ \A k \in Keys : agents[k].state # "pending" /\ operators[k].state # "pending"
           /\ KeyOnOneList /\ OwnLabels /\ ActedLabelled
           /\ work \in Nat
<1>1. CASE /\ agents = NoAgents /\ operators = NoOperators /\ work = 1
           /\ acted = [l \in Labels |-> {}]
           /\ policies = [p \in Policies |-> None] /\ bindings = [a \in Agents |-> None]
  BY <1>1 DEF NoAgents, NoOperators, PolicyRows, BindingRows, KeyOnOneList, OwnLabels,
              ActedLabelled, Labelled
<1>2. ASSUME NEW key \in Keys, NEW label \in Labels, NEW grant \in Grants,
             operators = [NoOperators EXCEPT ![key] = [state |-> "approved",
                                                       label |-> label, grant |-> grant]]
      PROVE  /\ operators \in [Keys -> [state : {"none", "pending", "approved", "rejected",
                                                 "revoked"},
                                        label : Labels \cup {None},
                                        grant : Grants \cup {None}]]
             /\ operators[key] = [state |-> "approved", label |-> label, grant |-> grant]
             /\ \A k \in Keys \ {key} : operators[k].state = "none"
  BY <1>2 DEF NoOperators
<1>3. ASSUME NEW key \in Keys, NEW label \in Labels, NEW grant \in Grants,
             NEW source \in Sources, InUse(key, label, grant, source)
      PROVE  /\ agents \in [Keys -> [state : {"none", "pending", "approved", "rejected"},
                                     name : Agents \cup {None}]]
             /\ policies \in PolicyRows /\ bindings \in BindingRows
             /\ acted \in [Labels -> SUBSET Keys]
             /\ \A k \in Keys : agents[k].state # "pending" /\ operators[k].state # "pending"
             /\ KeyOnOneList /\ OwnLabels /\ ActedLabelled
             /\ work \in Nat
  <2>1. /\ operators[key] = [state |-> "approved", label |-> label, grant |-> grant]
        /\ \A k \in Keys \ {key} : operators[k].state = "none"
    BY <1>2, <1>3 DEF InUse
  <2>2. /\ acted \in [Labels -> SUBSET Keys] /\ work \in Nat /\ OwnLabels /\ ActedLabelled
    <3>1. acted \in [Labels -> SUBSET Keys] /\ work \in Nat
      <4>1. \A l \in Labels : (IF l = label THEN {key} ELSE {}) \in SUBSET Keys
        OBVIOUS
      <4>2. work \in {0, 1}
        BY <1>3 DEF InUse
      <4> QED BY <1>3, <4>1, <4>2 DEF InUse
    <3>2. OwnLabels
      BY <2>1 DEF OwnLabels, Labelled
    <3>3. ASSUME NEW l \in Labels, NEW k \in acted[l] PROVE k = key /\ l = label
      BY <1>3 DEF InUse
    <3> QED BY <2>1, <3>1, <3>2, <3>3 DEF ActedLabelled, Labelled
  <2>3. policies \in PolicyRows
    BY <1>3 DEF InUse, PolicyRows
  <2>4. bindings \in BindingRows
    BY <1>3 DEF InUse, BindingRows, Binding
  <2>5. /\ agents \in [Keys -> [state : {"none", "pending", "approved", "rejected"},
                                name : Agents \cup {None}]]
        /\ agents[key].state = "none"
        /\ \A k \in Keys : agents[k].state # "pending"
    <3>1. CASE agents = NoAgents
      BY <3>1 DEF NoAgents
    <3>2. ASSUME NEW owner \in [Agents -> Keys \ {key}],
                 agents = [k \in Keys |->
                            IF \E a \in Agents : owner[a] = k
                            THEN [state |-> "approved",
                                  name |-> CHOOSE a \in Agents : owner[a] = k]
                            ELSE NoAgents[k]]
          PROVE  /\ agents \in [Keys -> [state : {"none", "pending", "approved", "rejected"},
                                         name : Agents \cup {None}]]
                 /\ agents[key].state = "none"
                 /\ \A k \in Keys : agents[k].state # "pending"
      <4>1. ASSUME NEW k \in Keys, \E a \in Agents : owner[a] = k
            PROVE  (CHOOSE a \in Agents : owner[a] = k) \in Agents
        BY <4>1
      <4> QED BY <3>2, <4>1 DEF NoAgents
    <3> QED BY <1>3, <3>1, <3>2 DEF InUse
  <2>6. KeyOnOneList
    BY <2>1, <2>5 DEF KeyOnOneList
  <2> QED BY <2>1, <2>2, <2>3, <2>4, <2>5, <2>6
<1>4. CASE ~ (/\ work = 1 /\ acted = [l \in Labels |-> {}]
              /\ agents = NoAgents /\ operators = NoOperators
              /\ policies = [p \in Policies |-> None] /\ bindings = [a \in Agents |-> None])
  <2>1. PICK key \in Keys, label \in Labels, grant \in Grants, source \in Sources :
            InUse(key, label, grant, source)
    BY <1>4 DEF Init
  <2>2. operators \in [Keys -> [state : {"none", "pending", "approved", "rejected",
                                        "revoked"},
                               label : Labels \cup {None}, grant : Grants \cup {None}]]
    BY <1>2, <2>1 DEF InUse
  <2>3. /\ agents \in [Keys -> [state : {"none", "pending", "approved", "rejected"},
                                name : Agents \cup {None}]]
        /\ policies \in PolicyRows /\ bindings \in BindingRows
        /\ acted \in [Labels -> SUBSET Keys]
        /\ \A k \in Keys : agents[k].state # "pending" /\ operators[k].state # "pending"
        /\ KeyOnOneList /\ OwnLabels /\ ActedLabelled
        /\ work \in Nat
    BY <1>3, <2>1
  <2> QED BY <2>2, <2>3
<1> QED BY <1>1, <1>4

LEMMA InitInv == Init => AccessInv
<1> SUFFICES ASSUME Init PROVE AccessInv
  OBVIOUS
<1>1. /\ conn = [c \in Conns |-> Closed] /\ late = [c \in Conns |-> 0]
  BY DEF Init
<1>2. Closed \in ConnType /\ Closed.step = "closed"
  BY DEF Closed, ConnType, Outcomes
<1>3. TypeOK
  BY <1>1, <1>2, InitRows, OperatorAccessAssumption
     DEF TypeOK, ConnType, PolicyRows, BindingRows, Binding
<1>4. ConnShape /\ LateOnce
  BY <1>1, <1>2, InitRows DEF ConnShape, LateOnce
<1>5. PendingRoom
  BY <1>1, InitRows, InitRoom
<1> QED BY <1>3, <1>4, <1>5, InitRows DEF AccessInv

LEMMA StutterInv ==
    ASSUME AccessInv, UNCHANGED vars
    PROVE  AccessInv'
  BY DEF AccessInv, TypeOK, KeyOnOneList, ConnShape, OwnLabels, ActedLabelled, LateOnce,
         PendingRoom, PendingCount, PendingOperatorKeyCount, Counted, vars

LEMMA NextInv ==
    ASSUME AccessInv, [Next]_vars
    PROVE  AccessInv'
<1>1. ASSUME NEW c \in Conns,
             \/ \E key \in Keys, user \in Users : Authenticate(c, key, user)
             \/ Count(c) \/ Record(c) \/ Disconnect(c)
             \/ \E request \in Requests : Dispatch(c, request)
             \/ Perform(c) \/ Reply(c)
      PROVE  AccessInv'
  BY <1>1, AuthenticateInv, CountInv, RecordInv, DisconnectInv, DispatchInv, PerformInv,
     ReplyInv
<1>2. CASE Web
  BY <1>2, WebInv
<1>3. CASE UNCHANGED vars
  BY <1>3, StutterInv
<1> QED BY <1>1, <1>2, <1>3, DecideAgentInv, OperatorDecisionInv DEF Next, Web

LEMMA InvAlways == Spec => []AccessInv
  BY InitInv, NextInv, PTL DEF Spec

-----------------------------------------------------------------------------
(* The properties of states.                                               *)

(* Whatever connections present and operators decide, in whatever order    *)
(* the lookups, counts and inserts run: no key is on both lists, a label   *)
(* never names two keys, and the pending lists stay bounded (RecordKey,    *)
(* RecordOperatorKey, ApproveOperatorKey, authenticateOperator).           *)
THEOREM KeyListsSoundAlways == Spec => []KeyListsSound
<1>1. AccessInv => KeyListsSound
  <2> SUFFICES ASSUME AccessInv PROVE KeyListsSound
    OBVIOUS
  <2>1. ASSUME NEW l \in Labels PROVE Cardinality(acted[l]) <= 1
    <3>1. \A k, m \in acted[l] : k \in Keys /\ m \in Keys /\ k = m
      BY DEF AccessInv, TypeOK, ActedLabelled, OwnLabels
    <3>2. CASE acted[l] = {}
      BY <3>2, FS_EmptySet
    <3>3. CASE acted[l] # {}
      <4>1. PICK k : acted[l] = {k}
        BY <3>1, <3>3
      <4>2. Cardinality({k}) = 1
        BY FS_Singleton
      <4> QED BY <4>1, <4>2
    <3> QED BY <3>2, <3>3
  <2>2. PendingOvershoot
    BY PendingFinite, OperatorAccessAssumption DEF AccessInv, PendingRoom, PendingOvershoot
  <2> QED BY <2>1, <2>2 DEF AccessInv, KeyListsSound, OneKeyPerSubject
<1> QED BY <1>1, InvAlways, PTL

(* An open session performs at most one request after its key was revoked, *)
(* the one it had dispatched (RevokeOperatorKey, dispatchOperator).        *)
THEOREM RevocationAlways == Spec => []RevocationHolds
<1>1. AccessInv => RevocationHolds
  BY OperatorAccessAssumption DEF AccessInv, TypeOK, LateOnce, RevocationHolds
<1> QED BY <1>1, InvAlways, PTL

-----------------------------------------------------------------------------
(* The properties of steps.                                                *)

Stands ==
    \A k \in Keys :
        /\ agents[k].state \in {"approved", "rejected"} => agents'[k] = agents[k]
        /\ operators[k].state \in {"rejected", "revoked"} => operators'[k] = operators[k]
        /\ operators[k].state = "approved" =>
              operators'[k] \in {operators[k], [operators[k] EXCEPT !.state = "revoked"]}

(* A decided key keeps its decision, its name, label and grant, whatever   *)
(* insert arrives after the decision (RecordKey, RecordOperatorKey,        *)
(* DecideAgent, RevokeOperatorKey).                                        *)
THEOREM DecisionsStandAlways == Spec => DecisionsStand
<1>1. ASSUME AccessInv, [Next]_vars PROVE Stands
  <2>1. CASE UNCHANGED <<agents, operators>>
    BY <2>1 DEF Stands
  <2>2. ASSUME NEW c \in Conns, Record(c) PROVE Stands
    <3>1. conn[c].key \in Keys
      BY <1>1, <2>2 DEF Record, AccessInv, ConnShape
    <3> QED BY <1>1, <2>2, <3>1
            DEF Stands, Record, RecordKey, RecordOperatorKey, AccessInv, TypeOK
  <2>3. ASSUME NEW key \in Keys, NEW approve \in BOOLEAN, DecideAgent(key, approve)
        PROVE  Stands
    BY <1>1, <2>3 DEF Stands, DecideAgent, AccessInv, TypeOK
  <2>4. ASSUME NEW key \in Keys,
               \/ \E label \in Labels, grant \in Grants :
                     ApproveOperatorKey(key, label, grant)
               \/ RejectOperatorKey(key) \/ RevokeOperatorKey(key)
        PROVE  Stands
    BY <1>1, <2>4 DEF Stands, ApproveOperatorKey, RejectOperatorKey, RevokeOperatorKey,
                      AccessInv, TypeOK
  <2>5. ASSUME NEW c \in Conns,
               \/ \E key \in Keys, user \in Users : Authenticate(c, key, user)
               \/ Count(c) \/ Disconnect(c)
               \/ \E request \in Requests : Dispatch(c, request)
               \/ Perform(c) \/ Reply(c)
        PROVE  UNCHANGED <<agents, operators>>
    BY <2>5 DEF Authenticate, Count, Disconnect, Dispatch, Perform, Reply
  <2>6. CASE Web
    BY <2>1, <2>6, WebFrame
  <2>7. CASE UNCHANGED vars
    BY <2>1, <2>7 DEF vars
  <2>8. ASSUME NEW c \in Conns,
               \/ \E key \in Keys, user \in Users : Authenticate(c, key, user)
               \/ Count(c) \/ Record(c) \/ Disconnect(c)
               \/ \E request \in Requests : Dispatch(c, request)
               \/ Perform(c) \/ Reply(c)
        PROVE  Stands
    BY <2>1, <2>2, <2>5, <2>8
  <2> QED BY <1>1, <2>3, <2>4, <2>6, <2>7, <2>8 DEF Next, Web
<1> QED BY <1>1, InvAlways, PTL DEF Spec, DecisionsStand, Stands

(* A connection completes its request by performing it, in no other step.  *)
LEMMA CompletedPerformed ==
    ASSUME AccessInv, [Next]_vars, NEW c \in Conns,
           conn[c].step = "dispatched", conn'[c].step = "done"
    PROVE  Perform(c)
<1>1. CASE UNCHANGED conn
  BY <1>1
<1>2. ASSUME NEW d \in Conns,
             \/ \E key \in Keys, user \in Users : Authenticate(d, key, user)
             \/ Count(d) \/ Record(d) \/ Disconnect(d)
             \/ \E request \in Requests : Dispatch(d, request)
             \/ Perform(d) \/ Reply(d)
      PROVE  Perform(c)
  <2>1. CASE d = c
    BY <1>2, <2>1 DEF Authenticate, Count, Record, Disconnect, Dispatch, Reply
  <2>2. CASE d # c
    <3>1. conn'[c] = conn[c]
      BY <1>2, <2>2 DEF Authenticate, Count, Record, Disconnect, Dispatch, Perform, Reply,
                        Set, Goto, AccessInv, TypeOK
    <3> QED BY <3>1
  <2> QED BY <2>1, <2>2
<1>3. ASSUME NEW key \in Keys,
             \/ \E approve \in BOOLEAN : DecideAgent(key, approve)
             \/ \E label \in Labels, grant \in Grants : ApproveOperatorKey(key, label, grant)
             \/ RejectOperatorKey(key) \/ RevokeOperatorKey(key)
      PROVE  UNCHANGED conn
  BY <1>3 DEF DecideAgent, ApproveOperatorKey, RejectOperatorKey, RevokeOperatorKey, Decided
<1>4. CASE Web
  BY <1>1, <1>4, WebFrame
<1>5. CASE UNCHANGED vars
  BY <1>1, <1>5 DEF vars
<1> QED BY <1>1, <1>2, <1>3, <1>4, <1>5 DEF Next, Web

(* What a completed request did, and the grant it was judged by.           *)
LEMMA Performed ==
    ASSUME AccessInv, NEW c \in Conns, Perform(c)
    PROVE  /\ conn[c].request \in Requests /\ conn[c].grant = operators[conn[c].key].grant
           /\ LET request == conn[c].request
                  grant == conn[c].grant
                  outcome == conn'[c].outcome IN
              CASE request.op = "read" -> Read(grant, request, outcome)
                [] request.op = "put" -> PutPolicy(grant, request, outcome)
                [] request.op = "bind" -> Bind(grant, request, outcome)
                [] request.op = "unbind" -> Unbind(grant, request, outcome)
<1>1. /\ conn[c].request \in Requests /\ conn[c].grant = operators[conn[c].key].grant
      /\ conn[c] \in ConnType
  BY InvConnGood DEF Perform, ConnGood
<1>2. PICK outcome \in Outcomes \ {None} :
         /\ LET request == conn[c].request
                grant == conn[c].grant IN
            CASE request.op = "read" -> Read(grant, request, outcome)
              [] request.op = "put" -> PutPolicy(grant, request, outcome)
              [] request.op = "bind" -> Bind(grant, request, outcome)
              [] request.op = "unbind" -> Unbind(grant, request, outcome)
         /\ conn' = [conn EXCEPT ![c] = [conn[c] EXCEPT !.step = "done", !.request = None,
                                                        !.grant = None, !.outcome = outcome]]
  BY DEF Perform
<1>3. conn'[c].outcome = outcome
  BY <1>1, <1>2 DEF AccessInv, TypeOK, ConnType
<1> QED BY <1>1, <1>2, <1>3

(* What a request may do under a grant.                                    *)
Confined(grant) ==
    /\ \A p \in Policies : policies'[p] # policies[p] => AllowsPolicy(grant, p)
    /\ \A a \in Agents :
          Received(a, bindings, policies)' # Received(a, bindings, policies) =>
             /\ bindings[a] # None => Covers(grant, a, bindings[a].policies)
             /\ bindings'[a] # None => Covers(grant, a, bindings'[a].policies)

LEMMA UnchangedConfined ==
    ASSUME NEW grant, Unchanged
    PROVE  Confined(grant)
  BY DEF Unchanged, Confined, Received

(* A put reaches the bindings that hold the policy, and no other.          *)
LEMMA PutConfined ==
    ASSUME TypeOK, NEW grant, NEW request, request.name \in Policies, NEW outcome,
           PutPolicy(grant, request, outcome)
    PROVE  Confined(grant)
<1>1. CASE Unchanged
  BY <1>1, UnchangedConfined
<1>2. ASSUME NEW done, SavePolicyBindings(request.name, request.source, done),
             PutAllowed(grant, request)
      PROVE  Confined(grant)
  <2>1. \A p \in Policies : p # request.name => policies'[p] = policies[p]
    BY <1>2 DEF SavePolicyBindings, TypeOK
  <2>2. ASSUME NEW a \in Agents, a \notin Holders(request.name)
        PROVE  Received(a, bindings, policies)' = Received(a, bindings, policies)
    <3>1. bindings'[a] = bindings[a]
      BY <1>2, <2>2 DEF SavePolicyBindings
    <3>2. CASE bindings[a] = None
      BY <3>1, <3>2 DEF Received
    <3>3. CASE bindings[a] # None
      <4>1. bindings[a].policies \subseteq Policies /\ request.name \notin bindings[a].policies
        BY <2>2, <3>3 DEF Holders, TypeOK, Selections
      <4>2. [p \in bindings[a].policies |-> policies'[p]]
               = [p \in bindings[a].policies |-> policies[p]]
        BY <2>1, <4>1
      <4> QED BY <3>1, <4>2 DEF Received
    <3> QED BY <3>2, <3>3
  <2>3. ASSUME NEW a \in Holders(request.name)
        PROVE  /\ bindings'[a].policies = bindings[a].policies
               /\ Covers(grant, a, bindings[a].policies)
    <3>1. a \in Agents /\ bindings[a] \in Binding
      BY HolderBound
    <3>2. bindings'[a] = [bindings[a] EXCEPT !.applied = a \in done]
      BY <1>2, <3>1 DEF SavePolicyBindings
    <3>3. bindings'[a].policies = bindings[a].policies
      BY <3>1, <3>2 DEF Binding
    <3>4. Covers(grant, a, bindings[a].policies)
      BY <1>2 DEF PutAllowed
    <3> QED BY <3>3, <3>4
  <2>4. AllowsPolicy(grant, request.name)
    BY <1>2 DEF PutAllowed
  <2> QED BY <2>1, <2>2, <2>3, <2>4 DEF Confined
<1> QED BY <1>1, <1>2 DEF PutPolicy

(* A change of one container's binding under a grant that covers it.       *)
LEMMA OneConfined ==
    ASSUME NEW grant, NEW agent \in Agents, UNCHANGED policies,
           \A a \in Agents : a # agent => bindings'[a] = bindings[a],
           bindings[agent] # None => Covers(grant, agent, bindings[agent].policies),
           bindings'[agent] # None => Covers(grant, agent, bindings'[agent].policies)
    PROVE  Confined(grant)
<1>1. ASSUME NEW a \in Agents, a # agent
      PROVE  Received(a, bindings, policies)' = Received(a, bindings, policies)
  BY <1>1 DEF Received
<1> QED BY <1>1 DEF Confined

(* What a bind does to the binding of its container: nothing, or it        *)
(* becomes what was asked, which an existing one was but for its mark.     *)
BindDone(grant, request, outcome) ==
    \/ Unchanged /\ outcome # "bound"
    \/ /\ UNCHANGED policies
       /\ \A a \in Agents : a # request.agent => bindings'[a] = bindings[a]
       /\ \E applied \in BOOLEAN :
             /\ bindings'[request.agent] = [policies |-> request.selection,
                                            applied |-> applied]
             /\ outcome = "bound" => applied
       /\ bindings[request.agent] # None =>
             /\ Covers(grant, request.agent, bindings[request.agent].policies)
             /\ bindings[request.agent].policies = request.selection
       /\ Covers(grant, request.agent, request.selection)
       /\ outcome \in {"bound", "pending", "failed"}

(* Bind does that.                                                         *)
LEMMA BindEffect ==
    ASSUME TypeOK, NEW grant, NEW request, request.agent \in Agents,
           request.selection \in Selections, NEW outcome, Bind(grant, request, outcome)
    PROVE  BindDone(grant, request, outcome)
<1> DEFINE agent == request.agent
<1>1. \/ Unchanged /\ outcome # "bound"
      \/ /\ bindings[agent] # None /\ Covers(grant, agent, bindings[agent].policies)
         /\ Covers(grant, agent, request.selection)
         /\ request.selection = bindings[agent].policies
         /\ \E applied \in BOOLEAN : /\ Apply(agent, applied)
                                     /\ outcome = "bound" => applied
         /\ outcome \in {"bound", "pending", "failed"}
      \/ /\ Covers(grant, agent, request.selection)
         /\ \E applied \in BOOLEAN : /\ CreateBinding(agent, request.selection, applied)
                                     /\ outcome = "bound" => applied
         /\ outcome \in {"bound", "pending", "failed"}
  BY DEF Bind, RepeatBind, StatusRead
<1>2. ASSUME bindings[agent] # None, request.selection = bindings[agent].policies,
             NEW applied \in BOOLEAN, Apply(agent, applied)
      PROVE  /\ UNCHANGED policies
             /\ \A a \in Agents : a # agent => bindings'[a] = bindings[a]
             /\ bindings'[agent] = [policies |-> request.selection, applied |-> applied]
  <2>1. bindings[agent] \in Binding
    BY <1>2 DEF TypeOK, Binding
  <2>2. bindings'[agent] = [bindings[agent] EXCEPT !.applied = applied]
    BY <1>2 DEF Apply, TypeOK
  <2>3. bindings'[agent] = [policies |-> request.selection, applied |-> applied]
    BY <1>2, <2>1, <2>2 DEF Binding
  <2>4. \A a \in Agents : a # agent => bindings'[a] = bindings[a]
    BY <1>2 DEF Apply, TypeOK
  <2> QED BY <1>2, <2>3, <2>4 DEF Apply
<1>3. ASSUME NEW applied \in BOOLEAN, CreateBinding(agent, request.selection, applied)
      PROVE  /\ UNCHANGED policies
             /\ \A a \in Agents : a # agent => bindings'[a] = bindings[a]
             /\ bindings'[agent] = [policies |-> request.selection, applied |-> applied]
             /\ bindings[agent] = None
  BY <1>3 DEF CreateBinding, TypeOK
<1> QED BY <1>1, <1>2, <1>3 DEF BindDone

(* What a request of any kind does is confined by the grant it was         *)
(* judged by.                                                              *)
LEMMA RequestConfined ==
    ASSUME AccessInv, NEW c \in Conns, Perform(c)
    PROVE  Confined(operators[conn[c].key].grant)
<1> DEFINE request == conn[c].request
<1> DEFINE grant == conn[c].grant
<1> DEFINE outcome == conn'[c].outcome
<1>1. /\ TypeOK /\ request \in Requests /\ grant = operators[conn[c].key].grant
      /\ CASE request.op = "read" -> Read(grant, request, outcome)
           [] request.op = "put" -> PutPolicy(grant, request, outcome)
           [] request.op = "bind" -> Bind(grant, request, outcome)
           [] request.op = "unbind" -> Unbind(grant, request, outcome)
  BY Performed DEF AccessInv
<1>2. request.op \in {"read", "put", "bind", "unbind"}
  BY <1>1 DEF Requests
<1>3. CASE request.op = "read"
  BY <1>1, <1>3, UnchangedConfined DEF Read
<1>4. CASE request.op = "put"
  <2>1. request.name \in Policies
    BY <1>1, <1>4 DEF Requests
  <2> QED BY <1>1, <1>4, <2>1, PutConfined
<1>5. CASE request.op = "bind"
  <2>1. request.agent \in Agents /\ request.selection \in Selections
    BY <1>1, <1>5 DEF Requests
  <2>2. Bind(grant, request, outcome)
    BY <1>1, <1>5
  <2> HIDE DEF request, grant, outcome
  <2>3. \/ Unchanged
        \/ /\ UNCHANGED policies
           /\ \A a \in Agents : a # request.agent => bindings'[a] = bindings[a]
           /\ bindings'[request.agent].policies = request.selection
           /\ bindings[request.agent] # None =>
                 Covers(grant, request.agent, bindings[request.agent].policies)
           /\ Covers(grant, request.agent, request.selection)
    <3>1. ASSUME NEW applied, bindings'[request.agent] = [policies |-> request.selection,
                                                          applied |-> applied]
          PROVE  bindings'[request.agent].policies = request.selection
      BY <3>1
    <3>2. BindDone(grant, request, outcome)
      BY <1>1, <2>1, <2>2, BindEffect
    <3> QED BY <3>1, <3>2 DEF BindDone
  <2>4. CASE /\ UNCHANGED policies
             /\ \A a \in Agents : a # request.agent => bindings'[a] = bindings[a]
             /\ bindings'[request.agent].policies = request.selection
             /\ bindings[request.agent] # None =>
                   Covers(grant, request.agent, bindings[request.agent].policies)
             /\ Covers(grant, request.agent, request.selection)
    <3>1. Covers(grant, request.agent, bindings'[request.agent].policies)
      BY <2>4
    <3>2. Confined(grant)
      BY <2>1, <2>4, <3>1, OneConfined
    <3> QED BY <1>1, <3>2
  <2> QED BY <1>1, <2>3, <2>4, UnchangedConfined
<1>6. CASE request.op = "unbind"
  <2>1. request.agent \in Agents
    BY <1>1, <1>6 DEF Requests
  <2>2. Unbind(grant, request, outcome)
    BY <1>1, <1>6
  <2> HIDE DEF request, grant, outcome
  <2>3. \/ Unchanged
        \/ /\ bindings' = [bindings EXCEPT ![request.agent] = None] /\ UNCHANGED policies
           /\ Covers(grant, request.agent, bindings[request.agent].policies)
    BY <2>2 DEF Unbind
  <2>4. CASE /\ bindings' = [bindings EXCEPT ![request.agent] = None] /\ UNCHANGED policies
             /\ Covers(grant, request.agent, bindings[request.agent].policies)
    <3>1. /\ bindings'[request.agent] = None
          /\ \A a \in Agents : a # request.agent => bindings'[a] = bindings[a]
      BY <1>1, <2>1, <2>4 DEF TypeOK
    <3> QED BY <1>1, <2>1, <2>4, <3>1, OneConfined
  <2> QED BY <1>1, <2>3, <2>4, UnchangedConfined
<1> QED BY <1>2, <1>3, <1>4, <1>5, <1>6

(* A request changes a policy, and what a container receives, only inside  *)
(* the grant of its key, although other operators change bindings between  *)
(* its dispatch and its turn (authorizedPutPolicy, operatorBind,           *)
(* operatorUnbind).                                                        *)
THEOREM GrantConfinesAlways == Spec => GrantConfines
<1> DEFINE Step == \A c \in Conns :
              conn[c].step = "dispatched" /\ conn'[c].step = "done" =>
                 Confined(operators[conn[c].key].grant)
<1>1. ASSUME AccessInv, [Next]_vars PROVE Step
  BY <1>1, CompletedPerformed, RequestConfined
<1> QED BY <1>1, InvAlways, PTL DEF Spec, GrantConfines, Confined

(* Whatever a bind answers, its container is bound as it was or to what     *)
(* was asked, to the latter when the answer says so, and a binding that     *)
(* existed keeps its selection (operatorBind, readOperatorBinding).         *)
THEOREM BoundAsAskedAlways == Spec => BoundAsAsked
<1> DEFINE Asked(r, before, after, answer) ==
              /\ answer = "bound" =>
                    after = [policies |-> r.selection, applied |-> TRUE]
              /\ answer \in {"outside-grant", "binding-differs"} => after = before
              /\ after \in {before, [policies |-> r.selection, applied |-> TRUE],
                            [policies |-> r.selection, applied |-> FALSE]}
              /\ before # None => after.policies = before.policies
<1> DEFINE Step == \A c \in Conns :
              (/\ conn[c].step = "dispatched" /\ conn'[c].step = "done"
               /\ conn[c].request.op = "bind") =>
                 Asked(conn[c].request, bindings[conn[c].request.agent],
                       bindings'[conn[c].request.agent], conn'[c].outcome)
<1>1. ASSUME AccessInv, [Next]_vars PROVE Step
  <2> SUFFICES ASSUME NEW c \in Conns, conn[c].step = "dispatched", conn'[c].step = "done",
                      conn[c].request.op = "bind"
               PROVE  Asked(conn[c].request, bindings[conn[c].request.agent],
                            bindings'[conn[c].request.agent], conn'[c].outcome)
    OBVIOUS
  <2> DEFINE request == conn[c].request
  <2> DEFINE grant == conn[c].grant
  <2> DEFINE outcome == conn'[c].outcome
  <2>1. TypeOK /\ request \in Requests /\ Bind(grant, request, outcome)
    BY <1>1, CompletedPerformed, Performed DEF AccessInv
  <2>2. request.agent \in Agents /\ request.selection \in Selections
    BY <2>1 DEF Requests
  <2> HIDE DEF request, grant, outcome
  <2>3. Asked(request, bindings[request.agent], bindings'[request.agent], outcome)
    <3>1. CASE Unchanged /\ outcome # "bound"
      <4>1. bindings'[request.agent] = bindings[request.agent]
        BY <3>1 DEF Unchanged
      <4> QED BY <3>1, <4>1
    <3>2. ASSUME NEW applied \in BOOLEAN,
                 bindings'[request.agent] = [policies |-> request.selection,
                                             applied |-> applied],
                 outcome = "bound" => applied,
                 bindings[request.agent] # None =>
                    bindings[request.agent].policies = request.selection,
                 outcome \in {"bound", "pending", "failed"}
          PROVE  Asked(request, bindings[request.agent], bindings'[request.agent], outcome)
      <4>1. applied = TRUE \/ applied = FALSE
        OBVIOUS
      <4>2. bindings'[request.agent].policies = request.selection
        BY <3>2
      <4> QED BY <3>2, <4>1, <4>2
    <3> HIDE DEF Asked
    <3>3. BindDone(grant, request, outcome)
      BY <2>1, <2>2, BindEffect
    <3> QED BY <3>1, <3>2, <3>3 DEF BindDone
  <2> QED BY <2>3 DEF request, outcome
<1> QED BY <1>1, InvAlways, PTL DEF Spec, BoundAsAsked
=============================================================================

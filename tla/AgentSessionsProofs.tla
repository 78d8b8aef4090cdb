------------------------ MODULE AgentSessionsProofs ------------------------
(***************************************************************************)
(* Proofs about AgentSessions, for every bound on the connections, the     *)
(* trouble and the queues.  SessionsInv, inductive, gives ShownIsTrue and  *)
(* NothingOlder, which the run agent_sessions checks; that the sessions    *)
(* settle is a property of fair behaviours and is left to that run.        *)
(***************************************************************************)
EXTENDS AgentSessions, TLAPS

Messages ==
    [type : {"inventory"}, container : Containers] \cup [type : {"status"}, fact : Facts]

(* The types of all variables.  An assignment is no greater than the       *)
(* trouble that made it.                                                   *)
AgentType ==
    /\ mine \in 0 .. MaxConns /\ fact \in Facts /\ wake \in BOOLEAN
    /\ reporter \in [Conns -> {"off", "pass", "wait"}]
    /\ sent \in [Conns -> {None} \cup [type : {"status"}, fact : Facts]]
    /\ out \in [Conns -> Seq(Messages)]
    /\ in \in [Conns -> Seq(Nat)]
    /\ stood \in [Conns -> SUBSET (Nat \X Nat)]

HubType ==
    /\ serve \in [Conns -> {"none", "hello", "publish", "loop", "push", "remove", "ended"}]
    /\ cancelled \in SUBSET Conns /\ replaced \in SUBSET Conns
    /\ pushing \in [Conns -> [by : {"nobody", "loop", "operator"}, assignment : Nat]]
    /\ status \in [Conns -> Facts \cup {None}]
    /\ hub \in 0 .. MaxConns /\ inventory \in Containers
    /\ operator \in [at : {"idle", "stored", "push"}, conn : 0 .. MaxConns]
    /\ assigned \in Nat /\ trouble \in Nat
    /\ 1 <= assigned /\ assigned <= trouble + 1 /\ trouble <= MaxTrouble

(* The places of the sessions: who is published, who pushes, and that a    *)
(* replaced session is cancelled and not over yet.                         *)
Places ==
    /\ hub # 0 => serve[hub] \in {"loop", "push", "remove"}
    /\ \A i \in Conns : pushing[i].by \in Pushers => Wants(pushing[i].by, i)
    /\ \A i \in Conns : pushing[i].by = "nobody" => pushing[i] = NoPush
    /\ \A i \in replaced : i \in cancelled /\ serve[i] \notin {"none", "ended"}
    /\ \A i \in Conns : reporter[i] = "pass" => mine = i

(* What a session reported, reports and will report, the agent stood by in *)
(* this session; a session that is over shows nothing.                     *)
Truthful ==
    \A i \in Conns :
        IF serve[i] \in {"none", "ended"} THEN status[i] = None
        ELSE /\ status[i] # None => Good(status[i]) \subseteq stood[i]
             /\ \A k \in DOMAIN out[i] :
                   out[i][k].type = "status" => Good(out[i][k].fact) \subseteq stood[i]
             /\ mine = i => Good(fact) \subseteq stood[i]

(* The assignments on their way to the agent are in the order in which     *)
(* they were stored, and none is older than the one the agent has.         *)
InOrder ==
    /\ fact.assignment <= assigned
    /\ \A i \in Conns : pushing[i].by \in Pushers => pushing[i].assignment <= assigned
    /\ \A i \in Conns : mine # i => in[i] = <<>>
    /\ \A i \in Conns : mine = i =>
          /\ \A k \in DOMAIN in[i] : fact.assignment <= in[i][k] /\ in[i][k] <= assigned
          /\ \A k, l \in DOMAIN in[i] : k < l => in[i][k] <= in[i][l]
          /\ pushing[i].by \in Pushers =>
                /\ fact.assignment <= pushing[i].assignment
                /\ \A k \in DOMAIN in[i] : in[i][k] <= pushing[i].assignment

SessionsInv == AgentType /\ HubType /\ Places /\ Truthful /\ InOrder

-----------------------------------------------------------------------------
(* Sequences.                                                              *)

LEMMA Appended ==
    ASSUME NEW S, NEW q \in Seq(S), NEW x \in S
    PROVE  /\ Append(q, x) \in Seq(S) /\ DOMAIN q = 1 .. Len(q)
           /\ \A k \in DOMAIN Append(q, x) :
                 \/ k \in DOMAIN q /\ Append(q, x)[k] = q[k]
                 \/ k = Len(q) + 1 /\ Append(q, x)[k] = x
  OBVIOUS

LEMMA Shortened ==
    ASSUME NEW S, NEW q \in Seq(S), q # <<>>
    PROVE  /\ Head(q) \in S /\ Tail(q) \in Seq(S) /\ 1 \in DOMAIN q /\ Head(q) = q[1]
           /\ \A k \in DOMAIN Tail(q) :
                 k \in Nat /\ k >= 1 /\ k + 1 \in DOMAIN q /\ Tail(q)[k] = q[k + 1]
  OBVIOUS

LEMMA NumbersType ==
    /\ MaxConns \in Nat /\ MaxTrouble \in Nat /\ MaxQueue \in Nat
    /\ 0 \notin Conns /\ \A i \in Conns : i \in Nat /\ i \in 0 .. MaxConns
    /\ \A i \in 0 .. MaxConns : i # 0 => i \in Conns
<1>1. {MaxConns, MaxTrouble, MaxQueue} \subseteq Nat
  BY AgentSessionsAssumption
<1>2. MaxConns \in Nat /\ MaxTrouble \in Nat /\ MaxQueue \in Nat
  BY <1>1
<1> QED BY <1>2 DEF Conns

(* The facts, and what the agent stands by with them.                      *)
LEMMA GoodType == \A f \in Facts : Good(f) \in SUBSET (Nat \X Nat)
<1> SUFFICES ASSUME NEW f \in Facts PROVE Good(f) \in SUBSET (Nat \X Nat)
  OBVIOUS
<1>1. f.assignment \in Nat /\ f.container \in Nat
  BY NumbersType DEF Facts, Containers
<1>2. <<f.assignment, f.container>> \in Nat \X Nat
  BY <1>1
<1>3. Good(f) = {<<f.assignment, f.container>>} \/ Good(f) = {}
  BY DEF Good
<1> QED BY <1>2, <1>3

LEMMA MessageType ==
    \A f \in Facts : Inventory(f) \in Messages /\ Status(f) \in Messages
  BY DEF Facts, Inventory, Status, Messages

-----------------------------------------------------------------------------
(* The agent.                                                              *)

LEMMA ConnectInv ==
    ASSUME SessionsInv, NEW i \in Conns, Connect(i)
    PROVE  SessionsInv'
<1>1. AgentType'
  <2>1. Good(fact) \in SUBSET (Nat \X Nat) /\ <<Inventory(fact)>> \in Seq(Messages)
    BY GoodType, MessageType DEF SessionsInv, AgentType
  <2> QED BY <2>1, NumbersType DEF SessionsInv, AgentType, Connect
<1>2. HubType'
  BY DEF SessionsInv, HubType, Connect
<1>3. Places'
  BY DEF SessionsInv, Places, HubType, AgentType, Connect, Conns, Wants, Serving, Free, Pushers
<1>4. Truthful'
  BY DEF SessionsInv, Truthful, HubType, AgentType, Connect, Conns, Free, Inventory
<1>5. InOrder'
  BY DEF SessionsInv, InOrder, HubType, AgentType, Connect, Conns, Free, Inventory, Places,
         Wants, Serving, Pushers
<1> QED BY <1>1, <1>2, <1>3, <1>4, <1>5 DEF SessionsInv

LEMMA EndSessionInv ==
    ASSUME SessionsInv, mine # 0, EndSession(mine), trouble' \in {trouble, trouble + 1},
           trouble' <= MaxTrouble
    PROVE  SessionsInv'
<1>0. mine \in Conns
  BY NumbersType DEF SessionsInv, AgentType
<1>1. AgentType'
  BY <1>0, NumbersType DEF SessionsInv, AgentType, EndSession
<1>2. HubType'
  <2>1. cancelled' \in SUBSET Conns
    BY DEF SessionsInv, HubType, EndSession
  <2>2. serve' \in [Conns -> {"none", "hello", "publish", "loop", "push", "remove", "ended"}]
    BY DEF SessionsInv, HubType, EndSession
  <2>3. trouble' \in Nat /\ assigned <= trouble' + 1
    <3>1. trouble \in Nat /\ assigned \in Nat /\ assigned <= trouble + 1
      BY DEF SessionsInv, HubType
    <3>2. trouble' = trouble \/ trouble' = trouble + 1
      OBVIOUS
    <3>3. trouble + 1 \in Nat /\ assigned <= trouble + 1 + 1
      BY <3>1
    <3> QED BY <3>1, <3>2, <3>3
  <2> QED BY <2>1, <2>2, <2>3 DEF SessionsInv, HubType, EndSession
<1>3. Places'
  <2>1. \A i \in Conns : serve[i] # "ended" => serve'[i] = serve[i]
    BY DEF EndSession, SessionsInv, HubType
  <2>2. \A i \in replaced : i \in cancelled' /\ serve'[i] \notin {"none", "ended"}
    BY <2>1 DEF EndSession, SessionsInv, HubType, Places
  <2>3. hub # 0 => serve'[hub] \in {"loop", "push", "remove"}
    BY <2>1, NumbersType DEF SessionsInv, HubType, Places
  <2>4. \A i \in Conns : pushing[i].by \in Pushers => Wants(pushing[i].by, i)'
    BY <2>1 DEF SessionsInv, Places, EndSession, Wants, Serving, Pushers
  <2>5. \A i \in Conns : reporter'[i] # "pass"
    BY <1>0 DEF SessionsInv, Places, AgentType, EndSession
  <2> QED BY <2>2, <2>3, <2>4, <2>5 DEF SessionsInv, Places, EndSession
<1>4. Truthful'
  BY <1>0, NumbersType DEF SessionsInv, Truthful, HubType, AgentType, EndSession
<1>5. InOrder'
  BY <1>0, NumbersType DEF SessionsInv, InOrder, HubType, AgentType, EndSession, Places
<1> QED BY <1>1, <1>2, <1>3, <1>4, <1>5 DEF SessionsInv

LEMMA ReconcileInv ==
    ASSUME SessionsInv, Reconcile
    PROVE  SessionsInv'
<1>1. /\ UNCHANGED <<mine, fact, reporter, sent, in, ctlVars, replaced, stood, trouble>>
      /\ wake' = TRUE
  BY DEF Reconcile
<1>2. UNCHANGED out \/ (mine \in Conns /\ out' = [out EXCEPT ![mine] = Append(out[mine], Inventory(fact))])
  BY NumbersType DEF Reconcile, Enqueue, SessionsInv, AgentType
<1>3. ASSUME NEW j \in Conns
      PROVE  /\ out'[j] \in Seq(Messages)
             /\ \A k \in DOMAIN out'[j] :
                   out'[j][k].type = "status" => k \in DOMAIN out[j] /\ out'[j][k] = out[j][k]
  <2>1. out[j] \in Seq(Messages) /\ Inventory(fact) \in Messages
    BY MessageType DEF SessionsInv, AgentType
  <2>2. CASE out'[j] = out[j]
    BY <2>1, <2>2
  <2>3. CASE out'[j] = Append(out[j], Inventory(fact))
    BY <2>1, <2>3, Appended DEF Inventory
  <2> QED BY <1>2, <2>2, <2>3 DEF SessionsInv, AgentType
<1>4. AgentType'
  BY <1>1, <1>2, <1>3 DEF SessionsInv, AgentType
<1>5. HubType'
  BY <1>1 DEF SessionsInv, HubType, ctlVars
<1>6. Places'
  BY <1>1 DEF SessionsInv, Places, ctlVars, Wants, Serving
<1>7. Truthful'
  BY <1>1, <1>3 DEF SessionsInv, Truthful, ctlVars
<1>8. InOrder'
  BY <1>1 DEF SessionsInv, InOrder, ctlVars
<1> QED BY <1>4, <1>5, <1>6, <1>7, <1>8 DEF SessionsInv

(* The agent comes to another fact, which it stands by, and wakes the      *)
(* reporter.                                                               *)
LEMMA StandsTruthful ==
    ASSUME SessionsInv, fact' \in Facts, Stands(fact'),
           UNCHANGED <<mine, reporter, sent, out, ctlVars>>
    PROVE  Truthful' /\ stood' \in [Conns -> SUBSET (Nat \X Nat)]
<1>1. Good(fact') \in SUBSET (Nat \X Nat)
  BY GoodType
<1>2. stood' \in [Conns -> SUBSET (Nat \X Nat)]
  BY <1>1 DEF Stands, SessionsInv, AgentType
<1>3. \A i \in Conns : stood[i] \subseteq stood'[i] /\ (mine = i => Good(fact') \subseteq stood'[i])
  BY DEF Stands
<1>4. Truthful'
  BY <1>3 DEF SessionsInv, Truthful, ctlVars
<1> QED BY <1>2, <1>4

LEMMA ChangeInv ==
    ASSUME SessionsInv, NEW c \in Containers, NEW h \in Healths, Change(c, h)
    PROVE  SessionsInv'
<1>1. /\ UNCHANGED <<mine, reporter, sent, netVars, ctlVars, replaced>> /\ Stands(fact')
      /\ wake' = TRUE /\ trouble < MaxTrouble /\ trouble' = trouble + 1
      /\ fact' = [fact EXCEPT !.container = c, !.health = h]
  BY DEF Change, Fault
<1>2. fact' \in Facts /\ fact'.assignment = fact.assignment
  BY <1>1 DEF SessionsInv, AgentType, Facts
<1>3. Truthful' /\ stood' \in [Conns -> SUBSET (Nat \X Nat)]
  BY <1>1, <1>2, StandsTruthful DEF netVars
<1>4. AgentType'
  BY <1>1, <1>2, <1>3 DEF SessionsInv, AgentType, netVars
<1>5. HubType'
  BY <1>1, NumbersType DEF SessionsInv, HubType, ctlVars
<1>6. Places'
  BY <1>1 DEF SessionsInv, Places, ctlVars, Wants, Serving
<1>7. InOrder'
  BY <1>1, <1>2 DEF SessionsInv, InOrder, ctlVars, netVars
<1> QED BY <1>3, <1>4, <1>5, <1>6, <1>7 DEF SessionsInv

LEMMA ApplyPolicySetInv ==
    ASSUME SessionsInv, ApplyPolicySet
    PROVE  SessionsInv' /\ fact'.assignment >= fact.assignment
<1>1. /\ UNCHANGED <<mine, reporter, sent, out, ctlVars, replaced, trouble>> /\ Stands(fact')
      /\ wake' = TRUE /\ mine \in Conns /\ in[mine] # <<>>
      /\ fact' = [fact EXCEPT !.assignment = Head(in[mine])]
      /\ in' = [in EXCEPT ![mine] = Tail(in[mine])]
  BY NumbersType DEF ApplyPolicySet, SessionsInv, AgentType
<1> DEFINE q == in[mine]
<1>2. /\ q \in Seq(Nat) /\ Head(q) \in Nat /\ Tail(q) \in Seq(Nat) /\ 1 \in DOMAIN q
      /\ Head(q) = q[1]
      /\ \A k \in DOMAIN Tail(q) :
            k \in Nat /\ k >= 1 /\ k + 1 \in DOMAIN q /\ Tail(q)[k] = q[k + 1]
  BY <1>1, Shortened DEF SessionsInv, AgentType
<1>3. fact.assignment <= Head(q) /\ Head(q) <= assigned
  BY <1>1, <1>2 DEF SessionsInv, InOrder
<1>4. fact' \in Facts /\ fact'.assignment = Head(q)
  <2>1. Head(q) \in 0 .. MaxTrouble + 1
    BY <1>2, <1>3, NumbersType DEF SessionsInv, HubType
  <2> QED BY <1>1, <2>1 DEF SessionsInv, AgentType, Facts
<1>5. Truthful' /\ stood' \in [Conns -> SUBSET (Nat \X Nat)]
  BY <1>1, <1>4, StandsTruthful
<1>6. AgentType'
  BY <1>1, <1>2, <1>4, <1>5 DEF SessionsInv, AgentType
<1>7. HubType'
  BY <1>1 DEF SessionsInv, HubType, ctlVars
<1>8. Places'
  BY <1>1 DEF SessionsInv, Places, ctlVars, Wants, Serving
<1>9. InOrder'
  <2>1. in'[mine] = Tail(q) /\ \A i \in Conns : i # mine => in'[i] = in[i]
    BY <1>1 DEF SessionsInv, AgentType
  <2>2. \A k \in DOMAIN Tail(q) : /\ Head(q) <= Tail(q)[k] /\ Tail(q)[k] <= assigned
    <3>1. \A k \in DOMAIN Tail(q) : 1 < k + 1 /\ k + 1 \in DOMAIN q
      BY <1>2
    <3> QED BY <1>1, <1>2, <3>1 DEF SessionsInv, InOrder
  <2>3. \A k, l \in DOMAIN Tail(q) : k < l => Tail(q)[k] <= Tail(q)[l]
    <3>1. \A k, l \in DOMAIN Tail(q) : k < l => k + 1 < l + 1
      BY <1>2
    <3> QED BY <1>1, <1>2, <3>1 DEF SessionsInv, InOrder
  <2>4. pushing[mine].by \in Pushers =>
           /\ Head(q) <= pushing[mine].assignment
           /\ \A k \in DOMAIN Tail(q) : Tail(q)[k] <= pushing[mine].assignment
    BY <1>1, <1>2 DEF SessionsInv, InOrder
  <2> QED BY <1>1, <1>3, <1>4, <2>1, <2>2, <2>3, <2>4 DEF SessionsInv, InOrder, ctlVars
<1>10. Head(q) >= fact.assignment
  BY <1>2, <1>3, NumbersType DEF SessionsInv, AgentType, Facts
<1> QED BY <1>4, <1>5, <1>6, <1>7, <1>8, <1>9, <1>10 DEF SessionsInv

LEMMA ReportPassInv ==
    ASSUME SessionsInv, NEW i \in Conns, ReportPass(i)
    PROVE  SessionsInv'
<1>1. /\ UNCHANGED <<mine, fact, wake, in, ctlVars, replaced, stood, trouble>>
      /\ reporter' = [reporter EXCEPT ![i] = "wait"] /\ mine = i
  BY DEF ReportPass, SessionsInv, Places
<1>2. sent' = [sent EXCEPT ![i] = None] \/ sent' = [sent EXCEPT ![i] = Status(fact)]
  BY DEF ReportPass
<1>3. sent' \in [Conns -> {None} \cup [type : {"status"}, fact : Facts]]
  <2>1. Status(fact) \in [type : {"status"}, fact : Facts]
    BY DEF Status, SessionsInv, AgentType
  <2> QED BY <1>2, <2>1 DEF SessionsInv, AgentType
<1>4. UNCHANGED out \/ out' = [out EXCEPT ![i] = Append(out[i], Status(fact))]
  BY DEF ReportPass, Enqueue
<1>5. ASSUME NEW j \in Conns
      PROVE  /\ out'[j] \in Seq(Messages)
             /\ \A k \in DOMAIN out'[j] :
                   \/ k \in DOMAIN out[j] /\ out'[j][k] = out[j][k]
                   \/ mine = j /\ out'[j][k].fact = fact
  <2>1. out[j] \in Seq(Messages) /\ Status(fact) \in Messages
    BY MessageType DEF SessionsInv, AgentType
  <2>2. CASE out'[j] = out[j]
    BY <2>1, <2>2
  <2>3. CASE j = i /\ out'[j] = Append(out[j], Status(fact))
    BY <1>1, <2>1, <2>3, Appended DEF Status
  <2> QED BY <1>4, <2>2, <2>3 DEF SessionsInv, AgentType
<1>6. AgentType'
  BY <1>1, <1>3, <1>4, <1>5 DEF SessionsInv, AgentType
<1>7. HubType'
  BY <1>1 DEF SessionsInv, HubType, ctlVars
<1>8. Places'
  BY <1>1 DEF SessionsInv, AgentType, Places, ctlVars, Wants, Serving
<1>9. Truthful'
  BY <1>1, <1>5 DEF SessionsInv, Truthful, ctlVars
<1>10. InOrder'
  BY <1>1 DEF SessionsInv, InOrder, ctlVars
<1> QED BY <1>6, <1>7, <1>8, <1>9, <1>10 DEF SessionsInv

LEMMA ReportWaitInv ==
    ASSUME SessionsInv, NEW i \in Conns, ReportWoken(i) \/ ReportDone(i)
    PROVE  SessionsInv'
<1>1. /\ UNCHANGED <<mine, fact, sent, netVars, ctlVars, replaced, stood, trouble>>
      /\ wake' \in BOOLEAN
  BY DEF ReportWoken, ReportDone, SessionsInv, AgentType
<1>2. PICK r \in {"pass", "wait", "off"} :
         /\ reporter' = [reporter EXCEPT ![i] = r]
         /\ r = "pass" => mine = i
  BY DEF ReportWoken, ReportDone
<1>3. AgentType'
  <2>1. reporter' \in [Conns -> {"off", "pass", "wait"}]
    BY <1>2 DEF SessionsInv, AgentType
  <2> QED BY <1>1, <2>1 DEF SessionsInv, AgentType, netVars
<1>4. HubType'
  BY <1>1 DEF SessionsInv, HubType, ctlVars
<1>5. Places'
  <2>1. \A j \in Conns : reporter'[j] = "pass" => mine = j
    BY <1>2 DEF SessionsInv, AgentType, Places
  <2> QED BY <1>1, <2>1 DEF SessionsInv, Places, ctlVars, Wants, Serving
<1>6. Truthful'
  BY <1>1 DEF SessionsInv, Truthful, ctlVars, netVars
<1>7. InOrder'
  BY <1>1 DEF SessionsInv, InOrder, ctlVars, netVars
<1> QED BY <1>3, <1>4, <1>5, <1>6, <1>7 DEF SessionsInv

-----------------------------------------------------------------------------
(* hub.serve.                                                              *)

LEMMA NoticeInv ==
    ASSUME SessionsInv, NEW i \in Conns, Notice(i)
    PROVE  SessionsInv'
<1>1. AgentType' /\ HubType'
  BY DEF SessionsInv, AgentType, HubType, Notice, agentVars, netVars
<1>2. Places'
  BY DEF SessionsInv, Places, Notice, agentVars, Wants, Serving
<1>3. Truthful'
  BY DEF SessionsInv, Truthful, Notice, agentVars, netVars
<1>4. InOrder'
  BY DEF SessionsInv, InOrder, Notice, agentVars, netVars
<1> QED BY <1>1, <1>2, <1>3, <1>4 DEF SessionsInv

(* The end of a goroutine, at a place where it is not published and holds  *)
(* no lock, or with its entry removed.                                     *)
LEMMA EndInv ==
    ASSUME SessionsInv, NEW i \in Conns, End(i), serve[i] \in {"hello", "loop", "remove"},
           hub' = hub \/ hub' = 0, hub' # i,
           UNCHANGED <<agentVars, in, pushing, inventory, assigned, operator, trouble>>
    PROVE  SessionsInv'
<1>1. PICK e \in {"ended", "none"} :
         /\ serve' = [serve EXCEPT ![i] = e]
         /\ status' = [status EXCEPT ![i] = None] /\ stood' = [stood EXCEPT ![i] = {}]
         /\ out' = [out EXCEPT ![i] = <<>>] /\ replaced' = replaced \ {i}
  BY DEF End, To
<1>2. cancelled' = cancelled \cup {i} \/ cancelled' = cancelled \ {i}
  BY DEF End
<1>3. AgentType'
  <2>1. <<>> \in Seq(Messages) /\ {} \in SUBSET (Nat \X Nat)
    OBVIOUS
  <2> QED BY <1>1, <2>1 DEF SessionsInv, AgentType, agentVars
<1>4. HubType'
  BY <1>1, <1>2, NumbersType DEF SessionsInv, HubType
<1>5. Places'
  <2>1. \A j \in Conns : j # i => serve'[j] = serve[j]
    BY <1>1 DEF SessionsInv, HubType
  <2>2. hub' # 0 => serve'[hub'] \in {"loop", "push", "remove"}
    BY <2>1, NumbersType DEF SessionsInv, HubType, Places
  <2>3. \A j \in Conns : pushing[j].by \in Pushers => Wants(pushing[j].by, j)'
    BY <2>1 DEF SessionsInv, Places, Wants, Serving, Pushers
  <2>4. \A j \in replaced' : j \in cancelled' /\ serve'[j] \notin {"none", "ended"}
    BY <1>1, <1>2, <2>1 DEF SessionsInv, Places, HubType
  <2> QED BY <2>2, <2>3, <2>4 DEF SessionsInv, Places, agentVars
<1>6. Truthful'
  BY <1>1 DEF SessionsInv, Truthful, HubType, AgentType, agentVars
<1>7. InOrder'
  BY DEF SessionsInv, InOrder, agentVars
<1> QED BY <1>3, <1>4, <1>5, <1>6, <1>7 DEF SessionsInv

LEMMA ReceiveHelloInv ==
    ASSUME SessionsInv, NEW i \in Conns, ReceiveHello(i)
    PROVE  SessionsInv'
<1>1. CASE i \in cancelled
  <2>1. /\ End(i) /\ serve[i] = "hello" /\ hub' = hub
        /\ UNCHANGED <<agentVars, in, pushing, inventory, assigned, operator, trouble>>
    BY <1>1 DEF ReceiveHello, Serving
  <2>2. hub # i
    BY <2>1, NumbersType DEF SessionsInv, Places
  <2> QED BY <2>1, <2>2, EndInv
<1>2. CASE i \notin cancelled
  <2>1. /\ serve[i] = "hello" /\ serve' = [serve EXCEPT ![i] = "publish"]
        /\ UNCHANGED <<agentVars, netVars, cancelled, pushing, status, hub, inventory,
                       assigned, operator, replaced, stood, trouble>>
    BY <1>2 DEF ReceiveHello, Serving, To, netVars
  <2>2. AgentType' /\ HubType'
    BY <2>1 DEF SessionsInv, AgentType, HubType, agentVars, netVars
  <2>3. Places'
    BY <2>1, NumbersType DEF SessionsInv, Places, HubType, agentVars, Wants, Serving, Pushers
  <2>4. Truthful'
    BY <2>1 DEF SessionsInv, Truthful, HubType, agentVars, netVars
  <2>5. InOrder'
    BY <2>1 DEF SessionsInv, InOrder, agentVars, netVars
  <2> QED BY <2>2, <2>3, <2>4, <2>5 DEF SessionsInv
<1> QED BY <1>1, <1>2

LEMMA PublishInv ==
    ASSUME SessionsInv, NEW i \in Conns, Publish(i)
    PROVE  SessionsInv'
<1>1. /\ serve[i] = "publish" /\ serve' = [serve EXCEPT ![i] = "loop"] /\ hub' = i
      /\ replaced' = replaced \cup ({hub} \ {0})
      /\ cancelled' = cancelled \cup ({hub} \ {0})
      /\ UNCHANGED <<agentVars, netVars, pushing, status, inventory, assigned, operator,
                     stood, trouble>>
  BY DEF Publish, Serving, To
<1>2. ({hub} \ {0}) \subseteq Conns
  BY NumbersType DEF SessionsInv, HubType
<1>3. AgentType' /\ HubType'
  BY <1>1, <1>2, NumbersType DEF SessionsInv, AgentType, HubType, agentVars, netVars
<1>4. Places'
  <2>1. \A j \in Conns : j # i => serve'[j] = serve[j]
    BY <1>1 DEF SessionsInv, HubType
  <2>2. serve'[i] = "loop"
    BY <1>1 DEF SessionsInv, HubType
  <2>3. \A j \in Conns : pushing[j].by \in Pushers => Wants(pushing[j].by, j)'
    BY <1>1, <2>1 DEF SessionsInv, Places, Wants, Serving, Pushers
  <2>4. \A j \in replaced' : j \in cancelled' /\ serve'[j] \notin {"none", "ended"}
    BY <1>1, <1>2, <2>1, <2>2 DEF SessionsInv, Places, HubType
  <2> QED BY <1>1, <2>2, <2>3, <2>4 DEF SessionsInv, Places, agentVars
<1>5. Truthful'
  BY <1>1 DEF SessionsInv, Truthful, HubType, agentVars, netVars
<1>6. InOrder'
  BY <1>1 DEF SessionsInv, InOrder, agentVars, netVars
<1> QED BY <1>3, <1>4, <1>5, <1>6 DEF SessionsInv

(* A message is read: those that stay were there before.                   *)
LEMMA Received ==
    ASSUME SessionsInv, NEW i \in Conns, NEW type, Receiving(i, type)
    PROVE  /\ serve[i] = "loop" /\ out' \in [Conns -> Seq(Messages)]
           /\ Head(out[i]) \in Messages /\ Head(out[i]).type = type
           /\ 1 \in DOMAIN out[i] /\ Head(out[i]) = out[i][1]
           /\ \A j \in Conns : \A k \in DOMAIN out'[j] :
                 \E l \in DOMAIN out[j] : out'[j][k] = out[j][l]
<1>1. /\ serve[i] = "loop" /\ out[i] # <<>> /\ Head(out[i]).type = type
      /\ out' = [out EXCEPT ![i] = Tail(out[i])] /\ out[i] \in Seq(Messages)
  BY DEF Receiving, Serving, SessionsInv, AgentType
<1>2. /\ Head(out[i]) \in Messages /\ Tail(out[i]) \in Seq(Messages) /\ 1 \in DOMAIN out[i]
      /\ Head(out[i]) = out[i][1]
      /\ \A k \in DOMAIN Tail(out[i]) :
            k + 1 \in DOMAIN out[i] /\ Tail(out[i])[k] = out[i][k + 1]
  BY <1>1, Shortened
<1>3. out' \in [Conns -> Seq(Messages)]
  BY <1>1, <1>2 DEF SessionsInv, AgentType
<1>4. ASSUME NEW j \in Conns, NEW k \in DOMAIN out'[j]
      PROVE  \E l \in DOMAIN out[j] : out'[j][k] = out[j][l]
  <2>1. CASE j = i
    <3>1. out'[j] = Tail(out[i])
      BY <1>1, <2>1 DEF SessionsInv, AgentType
    <3> QED BY <1>2, <2>1, <3>1
  <2>2. CASE j # i
    <3>1. out'[j] = out[j]
      BY <1>1, <2>2 DEF SessionsInv, AgentType
    <3> QED BY <3>1
  <2> QED BY <2>1, <2>2
<1> QED BY <1>1, <1>2, <1>3, <1>4

LEMMA HandleInventoryInv ==
    ASSUME SessionsInv, NEW i \in Conns, HandleInventory(i)
    PROVE  SessionsInv' /\ (inventory' # inventory => i \notin cancelled)
<1>1. /\ Receiving(i, "inventory") /\ serve' = [serve EXCEPT ![i] = "push"]
      /\ UNCHANGED <<agentVars, in, cancelled, pushing, status, hub, assigned, operator,
                     replaced, stood>>
      /\ inventory' # inventory => i \notin cancelled
      /\ inventory' = inventory \/ inventory' = Head(out[i]).container
      /\ trouble' = trouble \/ (trouble < MaxTrouble /\ trouble' = trouble + 1)
  BY DEF HandleInventory, To, Fault
<1>2. /\ serve[i] = "loop" /\ out' \in [Conns -> Seq(Messages)]
      /\ Head(out[i]).container \in Containers
      /\ \A j \in Conns : \A k \in DOMAIN out'[j] :
            \E l \in DOMAIN out[j] : out'[j][k] = out[j][l]
  BY <1>1, Received DEF Messages
<1>3. AgentType'
  BY <1>1, <1>2 DEF SessionsInv, AgentType, agentVars
<1>4. HubType'
  <2>1. trouble' \in Nat /\ assigned <= trouble' + 1 /\ trouble' <= MaxTrouble
    BY <1>1, NumbersType DEF SessionsInv, HubType
  <2> QED BY <1>1, <1>2, <2>1 DEF SessionsInv, HubType
<1>5. Places'
  BY <1>1, <1>2, NumbersType DEF SessionsInv, Places, HubType, agentVars, Wants, Serving, Pushers
<1>6. Truthful'
  <2>1. \A j \in Conns : serve'[j] \in {"none", "ended"} <=> serve[j] \in {"none", "ended"}
    BY <1>1, <1>2 DEF SessionsInv, HubType
  <2>2. ASSUME NEW j \in Conns, serve[j] \notin {"none", "ended"}, NEW k \in DOMAIN out'[j],
               out'[j][k].type = "status"
        PROVE  Good(out'[j][k].fact) \subseteq stood[j]
    <3>1. PICK l \in DOMAIN out[j] : out'[j][k] = out[j][l]
      BY <1>2, <2>2
    <3> QED BY <2>2, <3>1 DEF SessionsInv, Truthful
  <2> QED BY <1>1, <2>1, <2>2 DEF SessionsInv, Truthful, agentVars
<1>7. InOrder'
  BY <1>1 DEF SessionsInv, InOrder, agentVars
<1> QED BY <1>1, <1>3, <1>4, <1>5, <1>6, <1>7 DEF SessionsInv

LEMMA HandleStatusInv ==
    ASSUME SessionsInv, NEW i \in Conns, HandleStatus(i)
    PROVE  SessionsInv'
<1>1. /\ Receiving(i, "status") /\ status' = [status EXCEPT ![i] = Head(out[i]).fact]
      /\ UNCHANGED <<agentVars, in, serve, cancelled, pushing, hub, inventory, assigned,
                     operator, replaced, stood, trouble>>
  BY DEF HandleStatus
<1>2. /\ serve[i] = "loop" /\ out' \in [Conns -> Seq(Messages)]
      /\ Head(out[i]) \in Messages /\ Head(out[i]).type = "status"
      /\ 1 \in DOMAIN out[i] /\ Head(out[i]) = out[i][1]
      /\ \A j \in Conns : \A k \in DOMAIN out'[j] :
            \E l \in DOMAIN out[j] : out'[j][k] = out[j][l]
  BY <1>1, Received
<1>3. Head(out[i]).fact \in Facts /\ Good(Head(out[i]).fact) \subseteq stood[i]
  BY <1>2 DEF Messages, SessionsInv, Truthful
<1>4. AgentType'
  BY <1>1, <1>2 DEF SessionsInv, AgentType, agentVars
<1>5. HubType'
  BY <1>1, <1>3 DEF SessionsInv, HubType
<1>6. Places'
  BY <1>1 DEF SessionsInv, Places, agentVars, Wants, Serving
<1>7. Truthful'
  <2>1. ASSUME NEW j \in Conns, serve[j] \notin {"none", "ended"}, NEW k \in DOMAIN out'[j],
               out'[j][k].type = "status"
        PROVE  Good(out'[j][k].fact) \subseteq stood[j]
    <3>1. PICK l \in DOMAIN out[j] : out'[j][k] = out[j][l]
      BY <1>2, <2>1
    <3> QED BY <2>1, <3>1 DEF SessionsInv, Truthful
  <2>2. /\ status'[i] = Head(out[i]).fact
        /\ \A j \in Conns : j # i => status'[j] = status[j]
    BY <1>1 DEF SessionsInv, HubType
  <2> QED BY <1>1, <1>2, <1>3, <2>1, <2>2 DEF SessionsInv, Truthful, agentVars
<1>8. InOrder'
  BY <1>1 DEF SessionsInv, InOrder, agentVars
<1> QED BY <1>4, <1>5, <1>6, <1>7, <1>8 DEF SessionsInv

LEMMA RemoveInv ==
    ASSUME SessionsInv, NEW i \in Conns, Remove(i)
    PROVE  SessionsInv'
<1>1. hub' # i /\ (hub' = hub \/ hub' = 0)
  BY NumbersType DEF Remove
<1> QED BY <1>1, EndInv DEF Remove, LoopEnds, Serving

-----------------------------------------------------------------------------
(* push.                                                                   *)

(* A push is over, or fails: nobody holds the lock of this session.        *)
LEMMA DonePlaces ==
    ASSUME SessionsInv, NEW i \in Conns, NEW by \in Pushers, NEW ok \in BOOLEAN,
           Wants(by, i), Done(by, i, ok), pushing'[i] = NoPush,
           \A j \in Conns : j # i => pushing'[j] = pushing[j]
    PROVE  /\ serve' \in [Conns -> {"none", "hello", "publish", "loop", "push", "remove",
                                    "ended"}]
           /\ operator' \in [at : {"idle", "stored", "push"}, conn : 0 .. MaxConns]
           /\ \A j \in Conns : serve'[j] # serve[j] =>
                 serve[j] = "push" /\ serve'[j] \in {"loop", "remove"}
           /\ \A j \in Conns : pushing'[j].by \in Pushers => Wants(pushing[j].by, j)'
<1>1. CASE by = "loop"
  <2>1. /\ serve[i] = "push" /\ UNCHANGED operator
        /\ \E e \in {"loop", "remove"} : serve' = [serve EXCEPT ![i] = e]
    BY <1>1 DEF Wants, Done, Serving, To
  <2>2. PICK e \in {"loop", "remove"} : serve' = [serve EXCEPT ![i] = e]
    BY <2>1
  <2> QED BY <2>1, <2>2 DEF SessionsInv, HubType, Places, Wants, Serving, Pushers, NoPush
<1>2. CASE by = "operator"
  <2>1. /\ operator = [at |-> "push", conn |-> i] /\ operator' = [at |-> "idle", conn |-> 0]
        /\ UNCHANGED serve
    BY <1>2 DEF Wants, Done
  <2>2. operator.conn = i
    BY <2>1
  <2> QED BY <2>1, <2>2, NumbersType
          DEF SessionsInv, HubType, Places, Wants, Serving, Pushers, NoPush
<1> QED BY <1>1, <1>2 DEF Pushers

(* The steps of push change, besides, what is sent to the agent, who is    *)
(* cancelled, and who holds the lock.                                      *)
LEMMA PushPlaces ==
    ASSUME SessionsInv,
           serve' \in [Conns -> {"none", "hello", "publish", "loop", "push", "remove",
                                 "ended"}],
           \A j \in Conns : serve'[j] # serve[j] =>
              serve[j] = "push" /\ serve'[j] \in {"loop", "remove"},
           \A j \in Conns : pushing'[j].by \in Pushers => Wants(pushing[j].by, j)',
           \A j \in Conns : pushing'[j].by = "nobody" => pushing'[j] = NoPush,
           cancelled \subseteq cancelled', UNCHANGED <<agentVars, out, hub, replaced, status, stood>>
    PROVE  Places' /\ Truthful'
<1>1. \A j \in Conns : serve'[j] \in {"none", "ended"} <=> serve[j] \in {"none", "ended"}
  BY DEF SessionsInv, HubType
<1>2. hub # 0 => serve'[hub] \in {"loop", "push", "remove"}
  BY NumbersType DEF SessionsInv, HubType, Places
<1>3. \A j \in replaced : j \in cancelled' /\ serve'[j] \notin {"none", "ended"}
  BY <1>1 DEF SessionsInv, HubType, Places
<1>4. Places'
  BY <1>2, <1>3 DEF SessionsInv, Places, agentVars
<1>5. Truthful'
  BY <1>1 DEF SessionsInv, Truthful, agentVars
<1> QED BY <1>4, <1>5

LEMMA PushReadInv ==
    ASSUME SessionsInv, NEW i \in Conns, NEW by \in Pushers, PushRead(by, i)
    PROVE  SessionsInv'
<1>1. /\ UNCHANGED <<agentVars, netVars, cancelled, status, hub, inventory, assigned, replaced,
                     stood>>
      /\ Wants(by, i) /\ pushing[i] = NoPush
      /\ trouble' = trouble \/ (trouble < MaxTrouble /\ trouble' = trouble + 1)
  BY DEF PushRead, Fault
<1>2. AgentType'
  BY <1>1 DEF SessionsInv, AgentType, agentVars, netVars
<1>3. trouble' \in Nat /\ assigned <= trouble' + 1 /\ trouble' <= MaxTrouble
  BY <1>1, NumbersType DEF SessionsInv, HubType
<1>4. CASE /\ pushing' = [pushing EXCEPT ![i] = [by |-> by, assignment |-> assigned]]
           /\ UNCHANGED <<serve, operator, trouble>>
  <2>1. /\ pushing'[i] = [by |-> by, assignment |-> assigned]
        /\ \A j \in Conns : j # i => pushing'[j] = pushing[j]
    BY <1>4 DEF SessionsInv, HubType
  <2>2. pushing' \in [Conns -> [by : {"nobody", "loop", "operator"}, assignment : Nat]]
    BY <1>4 DEF SessionsInv, HubType, Pushers
  <2>3. HubType'
    BY <1>1, <1>3, <1>4, <2>2 DEF SessionsInv, HubType
  <2>4. pushing'[i].by = by /\ pushing'[i].assignment = assigned /\ by # "nobody"
    BY <2>1 DEF Pushers
  <2>5. \A j \in Conns : pushing'[j].by \in Pushers => Wants(pushing[j].by, j)'
    BY <1>1, <1>4, <2>1, <2>4 DEF SessionsInv, Places, Wants, Serving
  <2>6. \A j \in Conns : pushing'[j].by = "nobody" => pushing'[j] = NoPush
    BY <2>1, <2>4 DEF SessionsInv, Places
  <2>7. Places' /\ Truthful'
    <3>1. cancelled \subseteq cancelled'
      BY <1>1
    <3> QED BY <1>1, <1>4, <2>5, <2>6, <3>1, PushPlaces DEF SessionsInv, HubType, netVars
  <2>8. InOrder'
    <3>1. assigned <= assigned /\ UNCHANGED <<mine, fact, in, assigned>>
      BY <1>1 DEF SessionsInv, HubType, agentVars, netVars
    <3>2. \A j \in Conns : pushing'[j].by \in Pushers => pushing'[j].assignment <= assigned'
      BY <2>1, <2>4, <3>1 DEF SessionsInv, InOrder
    <3>3. \A j \in Conns : mine = j /\ pushing'[j].by \in Pushers =>
             /\ fact.assignment <= pushing'[j].assignment
             /\ \A k \in DOMAIN in[j] : in[j][k] <= pushing'[j].assignment
      BY <2>1, <2>4 DEF SessionsInv, InOrder
    <3> QED BY <3>1, <3>2, <3>3 DEF SessionsInv, InOrder
  <2> QED BY <1>2, <2>3, <2>7, <2>8 DEF SessionsInv
<1>5. CASE Done(by, i, TRUE) /\ UNCHANGED pushing
  <2>1. /\ serve' \in [Conns -> {"none", "hello", "publish", "loop", "push", "remove", "ended"}]
        /\ operator' \in [at : {"idle", "stored", "push"}, conn : 0 .. MaxConns]
        /\ \A j \in Conns : serve'[j] # serve[j] =>
              serve[j] = "push" /\ serve'[j] \in {"loop", "remove"}
        /\ \A j \in Conns : pushing'[j].by \in Pushers => Wants(pushing[j].by, j)'
    BY <1>1, <1>5, DonePlaces
  <2>2. HubType'
    BY <1>1, <1>3, <1>5, <2>1 DEF SessionsInv, HubType
  <2>3. Places' /\ Truthful'
    <3>1. cancelled \subseteq cancelled'
      BY <1>1
    <3>2. \A j \in Conns : pushing'[j].by = "nobody" => pushing'[j] = NoPush
      BY <1>5 DEF SessionsInv, Places
    <3> QED BY <1>1, <2>1, <3>1, <3>2, PushPlaces DEF netVars
  <2>4. InOrder'
    BY <1>1, <1>5 DEF SessionsInv, InOrder, agentVars, netVars
  <2> QED BY <1>2, <2>2, <2>3, <2>4 DEF SessionsInv
<1> QED BY <1>4, <1>5 DEF PushRead

LEMMA PushSendInv ==
    ASSUME SessionsInv, NEW i \in Conns, NEW by \in Pushers, PushSend(by, i)
    PROVE  SessionsInv'
<1>1. /\ UNCHANGED <<agentVars, out, status, hub, inventory, assigned, replaced, stood, trouble>>
      /\ Wants(by, i) /\ pushing[i].by = by /\ pushing' = [pushing EXCEPT ![i] = NoPush]
      /\ cancelled \subseteq cancelled' /\ cancelled' \in SUBSET Conns
  BY DEF PushSend, SessionsInv, HubType
<1>2. PICK ok \in BOOLEAN : Done(by, i, ok)
  BY DEF PushSend
<1>3. /\ pushing'[i] = NoPush /\ \A j \in Conns : j # i => pushing'[j] = pushing[j]
      /\ pushing' \in [Conns -> [by : {"nobody", "loop", "operator"}, assignment : Nat]]
  BY <1>1 DEF SessionsInv, HubType, NoPush
<1>4. /\ serve' \in [Conns -> {"none", "hello", "publish", "loop", "push", "remove", "ended"}]
      /\ operator' \in [at : {"idle", "stored", "push"}, conn : 0 .. MaxConns]
      /\ \A j \in Conns : serve'[j] # serve[j] =>
            serve[j] = "push" /\ serve'[j] \in {"loop", "remove"}
      /\ \A j \in Conns : pushing'[j].by \in Pushers => Wants(pushing[j].by, j)'
  BY <1>1, <1>2, <1>3, DonePlaces
<1>5. HubType'
  BY <1>1, <1>3, <1>4 DEF SessionsInv, HubType
<1>6. Places' /\ Truthful'
  <2>1. \A j \in Conns : pushing'[j].by = "nobody" => pushing'[j] = NoPush
    BY <1>3 DEF SessionsInv, Places
  <2> QED BY <1>1, <1>4, <2>1, PushPlaces
<1> DEFINE a == pushing[i].assignment
<1>7. a \in Nat /\ in[i] \in Seq(Nat) /\ by \in Pushers
  BY DEF SessionsInv, HubType, AgentType
<1>8. in' = in \/ (mine = i /\ in' = [in EXCEPT ![i] = Append(in[i], a)])
  BY DEF PushSend
<1>9. AgentType'
  <2>1. Append(in[i], a) \in Seq(Nat)
    BY <1>7
  <2>2. in' \in [Conns -> Seq(Nat)]
    BY <1>8, <2>1 DEF SessionsInv, AgentType
  <2> QED BY <1>1, <2>2 DEF SessionsInv, AgentType, agentVars
<1>10. InOrder'
  <2>1. /\ UNCHANGED <<mine, fact, assigned>> /\ fact.assignment <= assigned /\ a <= assigned
        /\ mine = i =>
              /\ fact.assignment <= a /\ \A k \in DOMAIN in[i] : in[i][k] <= a
    BY <1>1, <1>7 DEF SessionsInv, InOrder, agentVars
  <2>2. \A j \in Conns : pushing'[j].by \in Pushers => j # i /\ pushing'[j] = pushing[j]
    BY <1>3 DEF NoPush, Pushers
  <2>3. CASE in' = in
    BY <2>1, <2>2, <2>3 DEF SessionsInv, InOrder
  <2>4. CASE mine = i /\ in' = [in EXCEPT ![i] = Append(in[i], a)]
    <3> DEFINE q == Append(in[i], a)
    <3>1. in'[i] = q /\ \A j \in Conns : j # i => in'[j] = in[j]
      BY <2>4 DEF SessionsInv, AgentType
    <3>2. /\ DOMAIN in[i] = 1 .. Len(in[i]) /\ Len(in[i]) \in Nat
          /\ \A k \in DOMAIN q : \/ k \in DOMAIN in[i] /\ q[k] = in[i][k]
                                 \/ k = Len(in[i]) + 1 /\ q[k] = a
      BY <1>7, Appended
    <3> HIDE DEF q
    <3>3. \A k \in DOMAIN q : fact.assignment <= q[k] /\ q[k] <= assigned
      BY <2>1, <2>4, <3>2 DEF SessionsInv, InOrder
    <3>4. \A k, l \in DOMAIN q : k < l => q[k] <= q[l]
      <4> SUFFICES ASSUME NEW k \in DOMAIN q, NEW l \in DOMAIN q, k < l PROVE q[k] <= q[l]
        OBVIOUS
      <4>1. CASE l \in DOMAIN in[i]
        <5>1. k \in DOMAIN in[i]
          BY <3>2, <4>1
        <5> QED BY <2>4, <3>2, <4>1, <5>1 DEF SessionsInv, InOrder
      <4>2. CASE l = Len(in[i]) + 1 /\ q[l] = a
        <5>1. k \in DOMAIN in[i] /\ q[k] = in[i][k]
          BY <3>2, <4>2
        <5> QED BY <2>1, <2>4, <4>2, <5>1
      <4> QED BY <3>2, <4>1, <4>2
    <3> QED BY <2>1, <2>2, <2>4, <3>1, <3>3, <3>4 DEF SessionsInv, InOrder
  <2> QED BY <1>8, <2>3, <2>4
<1> QED BY <1>5, <1>6, <1>9, <1>10 DEF SessionsInv

LEMMA AssignInv ==
    ASSUME SessionsInv, Assign
    PROVE  SessionsInv'
<1>1. /\ operator.at = "idle" /\ trouble < MaxTrouble /\ trouble' = trouble + 1
      /\ assigned' = assigned + 1 /\ operator' = [at |-> "stored", conn |-> 0]
      /\ UNCHANGED <<agentVars, netVars, serve, cancelled, pushing, status, hub,
                     inventory, replaced, stood>>
  BY DEF Assign, Fault
<1>2. AgentType'
  BY <1>1 DEF SessionsInv, AgentType, agentVars, netVars
<1>3. HubType'
  BY <1>1, NumbersType DEF SessionsInv, HubType
<1>4. Places'
  BY <1>1 DEF SessionsInv, Places, agentVars, Wants, Serving, Pushers
<1>5. Truthful'
  BY <1>1 DEF SessionsInv, Truthful, agentVars, netVars
<1>6. InOrder'
  <2>1. fact.assignment \in Nat /\ \A i \in Conns : in[i] \in Seq(Nat) /\ pushing[i].assignment \in Nat
    BY NumbersType DEF SessionsInv, AgentType, HubType, Facts
  <2>2. \A i \in Conns : \A k \in DOMAIN in[i] : in[i][k] \in Nat
    BY <2>1
  <2>3. \A n \in Nat : n <= assigned => n <= assigned'
    BY <1>1 DEF SessionsInv, HubType
  <2> QED BY <1>1, <2>1, <2>2, <2>3 DEF SessionsInv, InOrder, agentVars, netVars
<1> QED BY <1>2, <1>3, <1>4, <1>5, <1>6 DEF SessionsInv

LEMMA PushAgentInv ==
    ASSUME SessionsInv, PushAgent
    PROVE  SessionsInv'
<1>1. /\ operator.at = "stored"
      /\ operator' = [at |-> "idle", conn |-> 0] \/ operator' = [at |-> "push", conn |-> hub]
      /\ UNCHANGED <<agentVars, netVars, serve, cancelled, pushing, status, hub,
                     inventory, assigned, replaced, stood, trouble>>
  BY DEF PushAgent
<1>2. AgentType'
  BY <1>1 DEF SessionsInv, AgentType, agentVars, netVars
<1>3. HubType'
  BY <1>1, NumbersType DEF SessionsInv, HubType
<1>4. Places'
  BY <1>1 DEF SessionsInv, Places, agentVars, Wants, Serving, Pushers
<1>5. Truthful'
  BY <1>1 DEF SessionsInv, Truthful, agentVars, netVars
<1>6. InOrder'
  BY <1>1 DEF SessionsInv, InOrder, agentVars, netVars
<1> QED BY <1>2, <1>3, <1>4, <1>5, <1>6 DEF SessionsInv

LEMMA RestartInv ==
    ASSUME SessionsInv, Restart
    PROVE  SessionsInv'
<1>1. AgentType'
  <2>1. <<>> \in Seq(Messages) /\ {} \in SUBSET (Nat \X Nat)
    OBVIOUS
  <2> QED BY <2>1 DEF SessionsInv, AgentType, agentVars, Restart
<1>2. HubType'
  <2>1. cancelled' \in SUBSET Conns
    BY NumbersType DEF Restart, SessionsInv, AgentType
  <2>2. /\ serve' \in [Conns -> {"none", "hello", "publish", "loop", "push", "remove", "ended"}]
        /\ pushing' \in [Conns -> [by : {"nobody", "loop", "operator"}, assignment : Nat]]
        /\ status' \in [Conns -> Facts \cup {None}]
        /\ operator' \in [at : {"idle", "stored", "push"}, conn : 0 .. MaxConns]
        /\ hub' \in 0 .. MaxConns
    BY NumbersType DEF Restart, NoPush
  <2> QED BY <2>1, <2>2, NumbersType DEF Restart, Fault, SessionsInv, HubType
<1>3. Places'
  BY DEF SessionsInv, Places, Restart, agentVars, Wants, Serving, Pushers, NoPush
<1>4. Truthful'
  BY DEF Truthful, Restart
<1>5. InOrder'
  BY DEF SessionsInv, InOrder, Restart, agentVars, NoPush, Pushers
<1> QED BY <1>1, <1>2, <1>3, <1>4, <1>5 DEF SessionsInv

-----------------------------------------------------------------------------
(* The invariant.                                                          *)

LEMMA InitInv == Init => SessionsInv
<1> SUFFICES ASSUME Init PROVE SessionsInv
  OBVIOUS
<1>1. fact \in Facts /\ fact.assignment = 0
  <2>1. 0 \in 0 .. MaxTrouble + 1 /\ 1 \in Containers
    BY NumbersType DEF Containers
  <2> QED BY <2>1 DEF Init, Facts
<1>2. AgentType
  <2>1. <<>> \in Seq(Messages) /\ <<>> \in Seq(Nat) /\ {} \in SUBSET (Nat \X Nat)
    OBVIOUS
  <2>2. /\ mine = 0 /\ wake = FALSE
        /\ reporter = [i \in Conns |-> "off"] /\ sent = [i \in Conns |-> None]
        /\ out = [i \in Conns |-> <<>>] /\ in = [i \in Conns |-> <<>>]
        /\ stood = [i \in Conns |-> {}]
    BY DEF Init
  <2>3. mine \in 0 .. MaxConns
    BY <2>2, NumbersType
  <2>6. wake \in BOOLEAN
    BY <2>2
  <2>4. /\ out \in [Conns -> Seq(Messages)] /\ in \in [Conns -> Seq(Nat)]
        /\ stood \in [Conns -> SUBSET (Nat \X Nat)]
    BY <2>1, <2>2
  <2>5. /\ reporter \in [Conns -> {"off", "pass", "wait"}]
        /\ sent \in [Conns -> {None} \cup [type : {"status"}, fact : Facts]]
    BY <2>2
  <2> QED BY <1>1, <2>3, <2>4, <2>5, <2>6 DEF AgentType
<1>3. HubType
  <2>1. 0 \in Containers
    BY NumbersType DEF Containers
  <2>2. operator \in [at : {"idle", "stored", "push"}, conn : 0 .. MaxConns]
    BY NumbersType DEF Init
  <2> QED BY <2>1, <2>2, NumbersType DEF Init, HubType, NoPush
<1>4. Places
  BY DEF Init, Places, NoPush, Pushers
<1>5. Truthful
  BY DEF Init, Truthful
<1>6. InOrder
  BY <1>1, NumbersType DEF Init, InOrder, NoPush, Pushers
<1> QED BY <1>2, <1>3, <1>4, <1>5, <1>6 DEF SessionsInv

LEMMA StutterInv ==
    ASSUME SessionsInv, UNCHANGED vars
    PROVE  SessionsInv'
<1>1. AgentType' /\ HubType'
  BY DEF SessionsInv, AgentType, HubType, vars, agentVars, netVars, ctlVars
<1>2. Places'
  BY DEF SessionsInv, Places, Wants, Serving, vars, agentVars, netVars, ctlVars
<1>3. Truthful' /\ InOrder'
  BY DEF SessionsInv, Truthful, InOrder, vars, agentVars, netVars, ctlVars
<1> QED BY <1>1, <1>2, <1>3 DEF SessionsInv

LEMMA NextInv ==
    ASSUME SessionsInv, [Next]_vars
    PROVE  SessionsInv'
<1>1. ASSUME NEW i \in Conns, Connect(i) \/ Notice(i) \/ Reporter(i) \/ Serve(i)
      PROVE  SessionsInv'
  <2>1. "loop" \in Pushers
    BY DEF Pushers
  <2> QED BY <1>1, <2>1, ConnectInv, NoticeInv, ReportPassInv, ReportWaitInv, ReceiveHelloInv,
             PublishInv, HandleInventoryInv, HandleStatusInv, RemoveInv, PushReadInv,
             PushSendInv
          DEF Reporter, Serve
<1>2. CASE Drop \/ Closed
  <2>1. mine # 0
    BY <1>2, NumbersType DEF Drop, Closed, SessionsInv, HubType
  <2>2. EndSession(mine) /\ (trouble' = trouble \/ trouble' = trouble + 1)
    BY <1>2 DEF Drop, Closed, Fault
  <2>3. trouble' <= MaxTrouble
    BY <1>2, NumbersType DEF Drop, Closed, Fault, SessionsInv, HubType
  <2> QED BY <2>1, <2>2, <2>3, EndSessionInv
<1>3. CASE Operator
  <2>1. "operator" \in Pushers
    BY DEF Pushers
  <2> QED BY <1>3, <2>1, PushAgentInv, PushReadInv, PushSendInv DEF Operator
<1>4. CASE UNCHANGED vars
  BY <1>4, StutterInv
<1> QED BY <1>1, <1>2, <1>3, <1>4, ReconcileInv, ApplyPolicySetInv, ChangeInv, AssignInv,
           RestartInv
        DEF Next

LEMMA InvAlways == Spec => []SessionsInv
  BY InitInv, NextInv, PTL DEF Spec

-----------------------------------------------------------------------------
(* A binding is shown as ready only when the agent once had, in the        *)
(* session shown as connected, its stored assignment, the container of the *)
(* stored inventory, the sockets, a token and a conforming result at one   *)
(* time, however many sessions are served at once (bindingStatus,          *)
(* recordStatus, hub.serve).                                               *)
THEOREM ShownIsTrueAlways == Spec => []ShownIsTrue
<1>1. SessionsInv => ShownIsTrue
  <2> SUFFICES ASSUME SessionsInv PROVE ShownIsTrue
    OBVIOUS
  <2>1. TypeOK
    <3>1. assigned \in 1 .. MaxTrouble + 1
      BY NumbersType DEF SessionsInv, HubType
    <3>2. \A i \in Conns : sent[i] = None \/ sent[i].fact \in Facts
      BY DEF SessionsInv, AgentType
    <3> QED BY <3>1, <3>2 DEF SessionsInv, AgentType, HubType, Places, TypeOK
  <2>2. ASSUME Shown = "ready" PROVE <<assigned, inventory>> \in stood[hub]
    <3> DEFINE f == status[hub]
    <3>1. /\ hub # 0 /\ f # None /\ f.assignment = assigned
          /\ JudgeFailed(f) = {} /\ JudgeWaiting(inventory, f) = {}
      BY <2>2 DEF Shown
    <3>2. hub \in Conns /\ f \in Facts /\ assigned # 0
      BY <3>1, NumbersType DEF SessionsInv, HubType
    <3>3. Good(f) \subseteq stood[hub]
      BY <3>1, <3>2 DEF SessionsInv, Truthful, Places
    <3> HIDE DEF f
    <3>4. f.health.failed = "" /\ (f.container # 0 => f.health.outcome # "non-conforming")
      BY <3>1 DEF JudgeFailed
    <3>5. inventory # 0 /\ f.container = inventory
      BY <3>1 DEF JudgeWaiting
    <3>6. f.health.sockets /\ f.health.token /\ f.health.outcome # ""
      BY <3>1, <3>4, <3>5 DEF JudgeWaiting
    <3>7. f.health.outcome \in {"", "conforming", "recreated", "non-conforming"}
      <4>1. f.health \in Healths
        BY <3>2 DEF Facts
      <4> QED BY <4>1, AgentSessionsAssumption
    <3>8. Good(f) = {<<f.assignment, f.container>>}
      BY <3>1, <3>2, <3>4, <3>5, <3>6, <3>7 DEF Good
    <3> QED BY <3>1, <3>3, <3>5, <3>8
  <2> QED BY <2>1, <2>2 DEF ShownIsTrue, ReadyWasTrue
<1> QED BY <1>1, InvAlways, PTL

(* A session that was replaced stores no inventory any more, and the agent *)
(* never goes back to an earlier assignment, whichever goroutines push     *)
(* policy sets (hub.serve, pushMu).                                        *)
THEOREM NothingOlderAlways == Spec => NothingOlder
<1> DEFINE Newer == /\ inventory' # inventory => \A i \in replaced : serve'[i] = serve[i]
                    /\ fact'.assignment >= fact.assignment
<1>1. ASSUME SessionsInv, [Next]_vars PROVE Newer
  <2>0. fact.assignment \in Nat /\ fact.assignment >= fact.assignment
    BY <1>1, NumbersType DEF SessionsInv, AgentType, Facts
  <2>1. ASSUME NEW i \in Conns, HandleInventory(i) PROVE Newer
    <3>1. inventory' # inventory => i \notin replaced
      BY <1>1, <2>1, HandleInventoryInv DEF SessionsInv, Places
    <3>2. \A j \in Conns : j # i => serve'[j] = serve[j]
      BY <1>1, <2>1 DEF HandleInventory, To, SessionsInv, HubType
    <3> QED BY <1>1, <2>0, <2>1, <3>1, <3>2
            DEF HandleInventory, agentVars, SessionsInv, HubType
  <2>2. CASE ApplyPolicySet
    BY <1>1, <2>2, ApplyPolicySetInv DEF ApplyPolicySet, ctlVars
  <2>3. ASSUME NEW c \in Containers, NEW h \in Healths, Change(c, h) PROVE Newer
    BY <1>1, <2>0, <2>3 DEF Change, ctlVars, SessionsInv, AgentType, Facts
  <2>4. CASE inventory' = inventory /\ fact' = fact
    BY <2>0, <2>4
  <2>5. ASSUME NEW i \in Conns, Connect(i) \/ Notice(i) \/ Reporter(i)
        PROVE  inventory' = inventory /\ fact' = fact
    BY <2>5 DEF Connect, Notice, Reporter, ReportPass, ReportWoken, ReportDone, agentVars,
                ctlVars
  <2>6. ASSUME NEW i \in Conns, Serve(i), ~ HandleInventory(i)
        PROVE  inventory' = inventory /\ fact' = fact
    BY <2>6 DEF Serve, ReceiveHello, Publish, HandleStatus, Remove, PushRead, PushSend,
                agentVars
  <2>7. CASE Drop \/ Closed \/ Reconcile \/ Assign \/ Operator \/ Restart \/ UNCHANGED vars
    BY <2>4, <2>7 DEF Drop, Closed, EndSession, Reconcile, Assign, Operator, PushAgent,
                      PushRead, PushSend, Restart, vars, agentVars, ctlVars
  <2>8. ASSUME NEW i \in Conns, Connect(i) \/ Notice(i) \/ Reporter(i) \/ Serve(i)
        PROVE  Newer
    BY <2>1, <2>4, <2>5, <2>6, <2>8
  <2> HIDE DEF Newer
  <2> QED BY <1>1, <2>2, <2>3, <2>7, <2>8 DEF Next
<1> QED BY <1>1, InvAlways, PTL DEF Spec, NothingOlder
=============================================================================

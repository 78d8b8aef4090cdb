--------------------------- MODULE RecreateProofs ---------------------------
(***************************************************************************)
(* Proofs about Recreate, for any number of recreates, reconciliations,    *)
(* failures, exits and foreign changes: a container the agent removed is   *)
(* not forgotten, unless an acknowledgement removed the journal of a       *)
(* recreate later than its own.                                            *)
(*                                                                         *)
(* RecreateInv, inductive, does without the report in memory, which an     *)
(* exit loses: what the controller was not told is in the journal, with    *)
(* the number of that recreate or a later one, or went with a journal that *)
(* was mistaken for an earlier one.                                        *)
(***************************************************************************)
EXTENDS Recreate, SequenceTheorems, TLAPS

Places == {"idle", "inspect", "journal", "stop", "remove", "undo", "create", "start",
           "fail", "done", "finish"}

(* Reports and journals of up to k recreates; a failure has its number.    *)
Numbered(k) == {r \in [outcome : Outcomes, n : 0 .. k] : r.outcome \in Failures => r.n # 0}
Journals(k) == {j \in [outcome : Failures \cup {"none", "open"}, n : 0 .. k] :
                   j.outcome # "none" => j.n # 0}

Workers(k) == [at : Places, id : 0 .. k, new : 0 .. k, up : BOOLEAN, retried : BOOLEAN,
               reason : Failures \cup {"none"}]
Scans(k) == {x \in [at : {"none", "one", "all"}, id : 0 .. k, inspected : BOOLEAN] :
                x.at = "one" => x.id # 0}

EngineTypes ==
    /\ lastId \in 0 .. MaxId /\ container \in 0 .. lastId /\ running \in BOOLEAN
    /\ made \subseteq 1 .. lastId /\ foreign \in 0 .. MaxForeign
AgentTypes ==
    /\ alive \in BOOLEAN /\ seen \subseteq 1 .. lastId /\ observed \in 0 .. lastId
    /\ result \in Numbered(started) /\ invalidated \in BOOLEAN
    /\ worker \in Workers(lastId) /\ recreating = (worker.at # "idle")
    /\ scan \in [Scanners -> Scans(lastId)]
NetTypes ==
    /\ session \in BOOLEAN /\ stored \in Outcomes
    /\ toController \in Seq(Numbered(started)) /\ toAgent \in Seq(Numbered(started))
CountTypes ==
    /\ started \in 0 .. MaxRecreates /\ faults \in 0 .. MaxFaults /\ unwritten \in BOOLEAN
    /\ journal \in Journals(started) /\ gone \in 0 .. started /\ told \in 0 .. started
    /\ mistaken \in 0 .. started

Types == EngineTypes /\ AgentTypes /\ NetTypes /\ CountTypes

(* Where the recreate is, what the journal says.                           *)
AtWork ==
    /\ worker.at # "idle" => started # 0
    /\ worker.at \in {"stop", "remove", "undo", "create", "start"} =>
          journal = Report("open", started)
    /\ worker.at \in {"start", "done"} => gone = 0
    /\ worker.at = "fail" => worker.reason \in Failures
    /\ worker.at = "finish" /\ ~ unwritten => journal.outcome # "open"

(* Where nothing was created since, nothing is there.                      *)
Absent == gone # 0 => container = 0

(* What was acknowledged was stored.                                       *)
AcksTold ==
    \A i \in 1 .. Len(toAgent) : toAgent[i].outcome \in Failures /\ toAgent[i].n <= told

(* The removal is in the journal or was told, or its journal was mistaken  *)
(* for that of an earlier recreate.                                        *)
Kept ==
    gone # 0 /\ ~ unwritten =>
        \/ told >= gone
        \/ journal.outcome # "none" /\ journal.n >= gone
        \/ mistaken >= gone

(* A journal that an exit left open: whoever looks sees no container.      *)
LeftOpen ==
    journal.outcome = "open" /\ ~ recreating /\ gone # 0 /\ ~ unwritten =>
        \A s \in Scanners : scan[s].at = "all" => scan[s].id = 0

RecreateInv == Types /\ AtWork /\ Absent /\ AcksTold /\ Kept /\ LeftOpen

-----------------------------------------------------------------------------
(* Types.                                                                  *)

LEMMA Bounds ==
    /\ MaxId \in Nat /\ MaxId >= 1 /\ MaxRecreates \in Nat /\ MaxFaults \in Nat
    /\ MaxForeign \in Nat /\ MaxQueue \in Nat
  BY RecreateAssumption

LEMMA WorkerMoved ==
    ASSUME NEW k, NEW w \in Workers(k), NEW a \in Places
    PROVE  /\ [w EXCEPT !.at = a] \in Workers(k)
           /\ [w EXCEPT !.at = a].at = a
           /\ [w EXCEPT !.at = a].reason = w.reason
  BY DEF Workers

LEMMA WorkerFailed ==
    ASSUME NEW k, NEW w \in Workers(k), NEW r \in Failures
    PROVE  /\ [w EXCEPT !.at = "fail", !.reason = r] \in Workers(k)
           /\ [w EXCEPT !.at = "fail", !.reason = r].at = "fail"
           /\ [w EXCEPT !.at = "fail", !.reason = r].reason = r
  BY DEF Workers, Places

LEMMA WorkerInspected ==
    ASSUME NEW k, NEW w \in Workers(k), NEW u \in BOOLEAN
    PROVE  /\ [w EXCEPT !.at = "journal", !.up = u] \in Workers(k)
           /\ [w EXCEPT !.at = "journal", !.up = u].at = "journal"
  BY DEF Workers, Places

LEMMA WorkerRetried ==
    ASSUME NEW k, NEW w \in Workers(k)
    PROVE  /\ [w EXCEPT !.retried = TRUE] \in Workers(k)
           /\ [w EXCEPT !.retried = TRUE].at = w.at
  BY DEF Workers

LEMMA WorkerStarted ==
    ASSUME NEW k \in Nat, NEW id \in 0 .. k
    PROVE  /\ Idle \in Workers(k) /\ Idle.at = "idle"
           /\ [Idle EXCEPT !.at = "inspect", !.id = id] \in Workers(k)
           /\ [Idle EXCEPT !.at = "inspect", !.id = id].at = "inspect"
  <1>1. Idle \in Workers(k) /\ Idle.at = "idle"
    BY DEF Workers, Places, Idle
  <1> QED BY <1>1 DEF Workers, Places

(* More identifiers and more recreates.                                    *)
LEMMA Grown ==
    ASSUME NEW k \in Nat, NEW m \in Nat, k <= m
    PROVE  /\ 0 .. k \subseteq 0 .. m /\ 1 .. k \subseteq 1 .. m
           /\ Workers(k) \subseteq Workers(m) /\ Scans(k) \subseteq Scans(m)
           /\ Numbered(k) \subseteq Numbered(m) /\ Journals(k) \subseteq Journals(m)
  <1>1. 0 .. k \subseteq 0 .. m /\ 1 .. k \subseteq 1 .. m
    OBVIOUS
  <1>2. Workers(k) \subseteq Workers(m)
    BY <1>1 DEF Workers
  <1>3. Scans(k) \subseteq Scans(m)
    BY <1>1 DEF Scans
  <1>4. Numbered(k) \subseteq Numbered(m)
    BY <1>1 DEF Numbered
  <1>5. Journals(k) \subseteq Journals(m)
    BY <1>1 DEF Journals
  <1> QED BY <1>1, <1>2, <1>3, <1>4, <1>5

LEMMA Failing ==
    /\ Failures \subseteq Outcomes /\ "open" \notin Failures /\ "none" \notin Failures
    /\ "open" \notin Outcomes
  BY DEF Failures, Outcomes

LEMMA ReportNumbered ==
    ASSUME NEW k \in Nat, NEW n \in 0 .. k, NEW o
    PROVE  /\ o \in Outcomes /\ (o \in Failures => n # 0) => Report(o, n) \in Numbered(k)
           /\ o \in Failures \cup {"open"} /\ n # 0 => Report(o, n) \in Journals(k)
           /\ Report(o, n).outcome = o /\ Report(o, n).n = n
           /\ NoReport \in Numbered(k) /\ NoJournal \in Journals(k)
           /\ NoJournal.outcome = "none"
  BY DEF Report, Numbered, Journals, NoReport, NoJournal, Failures, Outcomes

-----------------------------------------------------------------------------
(* The steps of a recreate.                                                *)

WorkerBusy == worker.at # "idle" /\ WorkerOnly /\ UNCHANGED <<told, mistaken>>

LEMMA WorkerStep ==
    ASSUME RecreateInv, WorkerBusy,
           EngineTypes', lastId' \in Nat, lastId <= lastId',
           worker' \in Workers(lastId'), worker'.at # "idle",
           faults' \in 0 .. MaxFaults, unwritten' \in BOOLEAN,
           journal' \in Journals(started), gone' \in 0 .. started,
           AtWork', Absent', Kept'
    PROVE  RecreateInv'
  <1>0. /\ UNCHANGED <<seen, observed, recreating, result, invalidated>>
        /\ UNCHANGED <<session, toController, toAgent, stored>>
        /\ UNCHANGED <<alive, scan, started, told, mistaken>>
    BY DEF WorkerBusy, WorkerOnly, memVars, netVars
  <1>1. NetTypes' /\ CountTypes'
    BY <1>0 DEF RecreateInv, Types, NetTypes, CountTypes
  <1>2. lastId \in Nat
    BY Bounds DEF RecreateInv, Types, EngineTypes
  <1>3. recreating = TRUE /\ recreating' = (worker'.at # "idle")
    BY <1>0 DEF RecreateInv, Types, AgentTypes, WorkerBusy
  <1>4. AgentTypes'
    <2>1. /\ 0 .. lastId \subseteq 0 .. lastId' /\ 1 .. lastId \subseteq 1 .. lastId'
          /\ Scans(lastId) \subseteq Scans(lastId')
      BY <1>2, Grown
    <2>2. scan' \in [Scanners -> Scans(lastId')]
      BY <1>0, <2>1 DEF RecreateInv, Types, AgentTypes
    <2>3. /\ alive' \in BOOLEAN /\ seen' \subseteq 1 .. lastId' /\ observed' \in 0 .. lastId'
          /\ result' \in Numbered(started') /\ invalidated' \in BOOLEAN
      BY <1>0, <2>1 DEF RecreateInv, Types, AgentTypes
    <2> QED BY <1>3, <2>2, <2>3 DEF AgentTypes
  <1>5. AcksTold'
    BY <1>0 DEF RecreateInv, AcksTold
  <1>6. LeftOpen'
    BY <1>0, <1>3 DEF LeftOpen
  <1> QED BY <1>1, <1>4, <1>5, <1>6 DEF RecreateInv, Types

(* The types the steps of a recreate begin with.                           *)
LEMMA Before ==
    ASSUME RecreateInv
    PROVE  /\ lastId \in Nat /\ started \in Nat /\ gone \in Nat /\ told \in Nat /\ faults \in Nat
           /\ mistaken \in Nat /\ mistaken \in 0 .. started
           /\ worker \in Workers(lastId) /\ EngineTypes
           /\ faults \in 0 .. MaxFaults /\ unwritten \in BOOLEAN
           /\ journal \in Journals(started) /\ gone \in 0 .. started
           /\ AtWork /\ Absent /\ Kept
  BY Bounds DEF RecreateInv, Types, EngineTypes, AgentTypes, CountTypes

LEMMA FaultCounted ==
    ASSUME faults \in 0 .. MaxFaults, Fault \/ faults' = faults
    PROVE  faults' \in 0 .. MaxFaults
  BY Bounds DEF Fault, MayFail

LEMMA InspectKeeps ==
    ASSUME RecreateInv, Inspect
    PROVE  RecreateInv'
  <1>0. /\ worker.at = "inspect" /\ WorkerBusy
        /\ UNCHANGED <<unwritten, container, running, made, lastId, gone, foreign, journal>>
    BY DEF Inspect, WorkerBusy, engineVars
  <1>1. \/ worker' = [worker EXCEPT !.at = "journal", !.up = running] /\ faults' = faults
        \/ /\ worker' = [worker EXCEPT !.at = "fail", !.reason = "engine-error"]
           /\ Fault \/ faults' = faults
    BY DEF Inspect, Fail, Fault
  <1>2. /\ worker' \in Workers(lastId)
        /\ worker'.at \in {"journal", "fail"}
        /\ worker'.at = "fail" => worker'.reason \in Failures
    <2>1. CASE worker' = [worker EXCEPT !.at = "journal", !.up = running]
      BY <2>1, Before, WorkerInspected DEF EngineTypes
    <2>2. CASE worker' = [worker EXCEPT !.at = "fail", !.reason = "engine-error"]
      BY <2>2, Before, WorkerFailed DEF Failures
    <2> QED BY <1>1, <2>1, <2>2
  <1>3. started' = started
    BY <1>0 DEF WorkerBusy, WorkerOnly
  <1>4. AtWork'
    BY <1>0, <1>2, <1>3, Before DEF AtWork
  <1>5. EngineTypes' /\ Absent'
    BY <1>0, Before DEF EngineTypes, Absent
  <1>6. Kept'
    BY <1>0, Before DEF Kept, WorkerBusy
  <1>7. faults' \in 0 .. MaxFaults
    BY <1>1, Before, FaultCounted
  <1>8. /\ lastId' \in Nat /\ lastId <= lastId' /\ worker'.at # "idle"
        /\ worker' \in Workers(lastId')
    BY <1>0, <1>2, Before
  <1>9. unwritten' \in BOOLEAN /\ journal' \in Journals(started) /\ gone' \in 0 .. started
    BY <1>0, Before
  <1> QED BY <1>0, <1>4, <1>5, <1>6, <1>7, <1>8, <1>9, WorkerStep

LEMMA WriteJournalKeeps ==
    ASSUME RecreateInv, WriteJournal
    PROVE  RecreateInv'
  <1>0. /\ worker.at = "journal" /\ WorkerBusy /\ started' = started
        /\ UNCHANGED <<unwritten, container, running, made, lastId, gone, foreign>>
    BY DEF WriteJournal, WorkerBusy, WorkerOnly, engineVars
  <1>1. started # 0 /\ Report("open", started) \in Journals(started)
        /\ Report("open", started).outcome = "open" /\ Report("open", started).n = started
    BY <1>0, Before, ReportNumbered DEF AtWork
  <1>2. EngineTypes' /\ Absent'
    BY <1>0, Before DEF EngineTypes, Absent
  <1>3. CASE journal' = Report("open", started) /\ Step("stop") /\ UNCHANGED faults
    <2>1. worker' \in Workers(lastId) /\ worker'.at = "stop"
      BY <1>3, Before, WorkerMoved DEF Step, Places
    <2>2. AtWork'
      BY <1>0, <1>1, <1>3, <2>1 DEF AtWork
    <2>3. Kept'
      BY <1>0, <1>1, <1>3, Before DEF Kept
    <2>4. lastId' \in Nat /\ lastId <= lastId' /\ worker' \in Workers(lastId')
      BY <1>0, <2>1, Before
    <2> QED BY <1>0, <1>1, <1>2, <1>3, <2>1, <2>2, <2>3, <2>4, Before, WorkerStep
  <1>4. CASE Fault /\ Fail("engine-error") /\ UNCHANGED journal
    <2>1. worker' \in Workers(lastId) /\ worker'.at = "fail" /\ worker'.reason \in Failures
      BY <1>4, Before, WorkerFailed DEF Fail, Failures
    <2>2. AtWork'
      BY <1>0, <1>1, <2>1 DEF AtWork
    <2>3. Kept'
      BY <1>0, <1>4, Before DEF Kept, WorkerBusy
    <2>4. lastId' \in Nat /\ lastId <= lastId' /\ worker' \in Workers(lastId')
      BY <1>0, <2>1, Before
    <2>5. faults' \in 0 .. MaxFaults
      BY <1>4, Before, FaultCounted
    <2> QED BY <1>0, <1>1, <1>2, <1>4, <2>1, <2>2, <2>3, <2>4, <2>5, Before, WorkerStep
  <1> QED BY <1>3, <1>4 DEF WriteJournal

(* The steps between the journal and its settlement, which leave it alone. *)
Open == {"stop", "remove", "undo", "create", "start"}

LEMMA OpenStep ==
    ASSUME RecreateInv, WorkerBusy, worker.at \in Open, UNCHANGED <<unwritten, journal>>,
           EngineTypes', lastId' \in Nat, lastId <= lastId', worker' \in Workers(lastId'),
           worker'.at \in Open \cup {"fail", "done"},
           worker'.at = "fail" => worker'.reason \in Failures,
           worker'.at \in {"start", "done"} => gone' = 0,
           gone' \in 0 .. started, gone' # 0 => container' = 0,
           Fault \/ faults' = faults
    PROVE  RecreateInv'
  <1>1. journal = Report("open", started) /\ started # 0 /\ started \in Nat
    BY Before DEF AtWork, Open
  <1>2. journal.outcome = "open" /\ journal.n = started
    BY <1>1, ReportNumbered
  <1>3. started' = started
    BY DEF WorkerBusy, WorkerOnly
  <1>4. AtWork'
    BY <1>1, <1>3 DEF AtWork, Open
  <1>5. Kept'
    BY <1>1, <1>2, <1>3 DEF Kept
  <1>6. Absent'
    BY DEF Absent
  <1>7. faults' \in 0 .. MaxFaults
    BY Before, FaultCounted
  <1>8. worker'.at # "idle"
    BY DEF Open
  <1> QED BY <1>4, <1>5, <1>6, <1>7, <1>8, Before, WorkerStep

LEMMA StopKeeps ==
    ASSUME RecreateInv, Stop
    PROVE  RecreateInv'
  <1>0. /\ worker.at = "stop" /\ WorkerBusy
        /\ UNCHANGED <<unwritten, journal, container, made, lastId, gone, foreign>>
        /\ running' = FALSE \/ running' = running
        /\ Step("remove") \/ Fail("engine-error")
        /\ Fault \/ faults' = faults
    BY DEF Stop, WorkerBusy
  <1>1. /\ worker' \in Workers(lastId) /\ worker'.at \in {"remove", "fail"}
        /\ worker'.at = "fail" => worker'.reason \in Failures
    <2>1. CASE Step("remove")
      BY <2>1, Before, WorkerMoved DEF Step, Places
    <2>2. CASE Fail("engine-error")
      BY <2>2, Before, WorkerFailed DEF Fail, Failures
    <2> QED BY <1>0, <2>1, <2>2
  <1>2. EngineTypes'
    BY <1>0, Before DEF EngineTypes
  <1>3. lastId' \in Nat /\ lastId <= lastId' /\ gone' \in 0 .. started
        /\ (gone' # 0 => container' = 0)
    BY <1>0, Before DEF Absent
  <1>4. worker.at \in Open /\ worker'.at \in Open \cup {"fail", "done"}
        /\ worker'.at \notin {"start", "done"}
    BY <1>0, <1>1 DEF Open
  <1> QED BY <1>0, <1>1, <1>2, <1>3, <1>4, OpenStep

LEMMA RemoveKeeps ==
    ASSUME RecreateInv, Remove
    PROVE  RecreateInv'
  <1>0. /\ worker.at = "remove" /\ WorkerBusy
        /\ UNCHANGED <<unwritten, journal, made, lastId, foreign>>
        /\ \/ container' = 0 /\ running' = FALSE /\ gone' = started
           \/ UNCHANGED <<container, running, gone>>
        /\ Step("create") \/ Step("undo")
        /\ Fault \/ faults' = faults
    BY DEF Remove, WorkerBusy
  <1>1. worker' \in Workers(lastId) /\ worker'.at \in {"create", "undo"}
    <2>1. CASE Step("create")
      BY <2>1, Before, WorkerMoved DEF Step, Places
    <2>2. CASE Step("undo")
      BY <2>2, Before, WorkerMoved DEF Step, Places
    <2> QED BY <1>0, <2>1, <2>2
  <1>2. EngineTypes'
    <2>1. CASE container' = 0 /\ running' = FALSE
      <3>1. container' \in 0 .. lastId
        BY <2>1, Before
      <3> QED BY <1>0, <2>1, <3>1, Before DEF EngineTypes
    <2>2. CASE UNCHANGED <<container, running>>
      BY <1>0, <2>2, Before DEF EngineTypes
    <2> QED BY <1>0, <2>1, <2>2
  <1>3. lastId' \in Nat /\ lastId <= lastId' /\ gone' \in 0 .. started
        /\ (gone' # 0 => container' = 0)
    BY <1>0, Before DEF Absent
  <1>4. worker.at \in Open /\ worker'.at \in Open \cup {"fail", "done"}
        /\ worker'.at \notin {"start", "done", "fail"}
    BY <1>0, <1>1 DEF Open
  <1> QED BY <1>0, <1>1, <1>2, <1>3, <1>4, OpenStep

LEMMA UndoKeeps ==
    ASSUME RecreateInv, Undo
    PROVE  RecreateInv'
  <1>0. /\ worker.at = "undo" /\ WorkerBusy
        /\ UNCHANGED <<unwritten, journal, container, made, lastId, gone, foreign>>
        /\ running' = TRUE \/ running' = running
        /\ Fail("engine-error")
        /\ Fault \/ faults' = faults
    BY DEF Undo, WorkerBusy
  <1>1. worker' \in Workers(lastId) /\ worker'.at = "fail" /\ worker'.reason \in Failures
    BY <1>0, Before, WorkerFailed DEF Fail, Failures
  <1>2. EngineTypes'
    BY <1>0, Before DEF EngineTypes
  <1>3. lastId' \in Nat /\ lastId <= lastId' /\ gone' \in 0 .. started
        /\ (gone' # 0 => container' = 0)
    BY <1>0, Before DEF Absent
  <1>4. worker.at \in Open /\ worker'.at \in Open \cup {"fail", "done"}
        /\ worker'.at \notin {"start", "done"}
    BY <1>0, <1>1 DEF Open
  <1> QED BY <1>0, <1>1, <1>2, <1>3, <1>4, OpenStep

LEMMA CreateKeeps ==
    ASSUME RecreateInv, Create
    PROVE  RecreateInv'
  <1>0. /\ worker.at = "create" /\ WorkerBusy
        /\ UNCHANGED <<unwritten, journal, running, foreign>>
        /\ Fault \/ faults' = faults
    BY DEF Create, WorkerBusy
  <1>1. worker.at \in Open
    BY <1>0 DEF Open
  <1>2. ASSUME CreateFailed
        PROVE  /\ worker' \in Workers(lastId) /\ worker'.at \in {"create", "fail"}
               /\ worker'.at = "fail" => worker'.reason \in Failures
    <2>1. CASE worker.retried
      <3>1. Fail("create-failed")
        BY <1>2, <2>1 DEF CreateFailed
      <3>2. "create-failed" \in Failures
        BY DEF Failures
      <3>3. /\ worker' \in Workers(lastId) /\ worker'.at = "fail"
            /\ worker'.reason = "create-failed"
        BY <3>1, <3>2, Before DEF Fail, Workers, Places
      <3> QED BY <3>2, <3>3
    <2>2. CASE ~ worker.retried
      <3>1. worker' = [worker EXCEPT !.retried = TRUE]
        BY <1>2, <2>2 DEF CreateFailed
      <3>2. worker' \in Workers(lastId) /\ worker'.at = worker.at
        BY <3>1, Before, WorkerRetried
      <3> QED BY <1>0, <3>2
    <2> QED BY <2>1, <2>2
  <1>3. CASE /\ lastId < MaxId /\ container' = lastId + 1 /\ lastId' = lastId + 1
             /\ made' = made \cup {lastId + 1} /\ gone' = 0
             /\ \/ worker' = [worker EXCEPT !.at = IF worker.up THEN "start" ELSE "done",
                                            !.new = lastId + 1]
                \/ CreateFailed
    <2>1. lastId \in Nat /\ lastId' \in Nat /\ lastId <= lastId' /\ lastId' \in 0 .. lastId'
      BY <1>3, Before
    <2>2. worker \in Workers(lastId')
      BY <2>1, Before, Grown
    <2>3. /\ worker' \in Workers(lastId') /\ worker'.at \in {"create", "fail", "start", "done"}
          /\ worker'.at = "fail" => worker'.reason \in Failures
      <3>1. CASE CreateFailed
        BY <1>2, <2>1, <3>1, Grown
      <3>2. CASE worker' = [worker EXCEPT !.at = IF worker.up THEN "start" ELSE "done",
                                          !.new = lastId + 1]
        <4>1. PICK a \in {"start", "done"} : worker' = [worker EXCEPT !.at = a, !.new = lastId']
          BY <1>3, <3>2
        <4>2. PICK k \in Nat : k = lastId'
          BY <2>1
        <4>3. a \in Places /\ k \in 0 .. k /\ worker \in Workers(k)
          BY <2>2, <4>2 DEF Places
        <4>4. /\ [worker EXCEPT !.at = a, !.new = k] \in Workers(k)
              /\ [worker EXCEPT !.at = a, !.new = k].at = a
          BY <4>3 DEF Workers
        <4>5. worker' \in Workers(lastId') /\ worker'.at = a
          BY <4>1, <4>2, <4>4
        <4> QED BY <4>5
      <3> QED BY <1>3, <3>1, <3>2
    <2>4. EngineTypes'
      <3>1. lastId' \in 0 .. MaxId /\ container' \in 0 .. lastId'
        BY <1>3, <2>1, Bounds
      <3>2. made' \subseteq 1 .. lastId'
        BY <1>3, <2>1, Before DEF EngineTypes
      <3> QED BY <1>0, <3>1, <3>2, Before DEF EngineTypes
    <2>5. gone' \in 0 .. started
      BY <1>3, Before
    <2>6. worker'.at \in Open \cup {"fail", "done"}
      BY <2>3 DEF Open
    <2> QED BY <1>0, <1>1, <1>3, <2>1, <2>3, <2>4, <2>5, <2>6, OpenStep
  <1>4. CASE CreateFailed /\ UNCHANGED <<container, lastId, made, gone>>
    <2>1. EngineTypes' /\ lastId' \in Nat /\ lastId <= lastId' /\ gone' \in 0 .. started
          /\ (gone' # 0 => container' = 0)
      BY <1>0, <1>4, Before DEF EngineTypes, Absent
    <2>2. worker'.at \in Open \cup {"fail", "done"} /\ worker'.at \notin {"start", "done"}
      BY <1>2, <1>4 DEF Open
    <2> QED BY <1>0, <1>1, <1>2, <1>4, <2>1, <2>2, OpenStep
  <1> QED BY <1>3, <1>4 DEF Create

LEMMA StartNewKeeps ==
    ASSUME RecreateInv, StartNew
    PROVE  RecreateInv'
  <1>0. /\ worker.at = "start" /\ WorkerBusy
        /\ UNCHANGED <<unwritten, journal, container, made, lastId, gone, foreign>>
        /\ running' = TRUE \/ running' = running
        /\ Step("done") \/ Fail("start-failed")
        /\ Fault \/ faults' = faults
    BY DEF StartNew, WorkerBusy
  <1>1. /\ worker' \in Workers(lastId) /\ worker'.at \in {"done", "fail"}
        /\ worker'.at = "fail" => worker'.reason \in Failures
    <2>1. CASE Step("done")
      BY <2>1, Before, WorkerMoved DEF Step, Places
    <2>2. CASE Fail("start-failed")
      BY <2>2, Before, WorkerFailed DEF Fail, Failures
    <2> QED BY <1>0, <2>1, <2>2
  <1>2. EngineTypes'
    BY <1>0, Before DEF EngineTypes
  <1>3. lastId' \in Nat /\ lastId <= lastId' /\ gone' = 0 /\ gone' \in 0 .. started
    BY <1>0, Before DEF AtWork
  <1>4. worker.at \in Open /\ worker'.at \in Open \cup {"fail", "done"}
    BY <1>0, <1>1 DEF Open
  <1> QED BY <1>0, <1>1, <1>2, <1>3, <1>4, OpenStep

LEMMA SettleJournalKeeps ==
    ASSUME RecreateInv, SettleJournal
    PROVE  RecreateInv'
  <1>0. /\ worker.at \in {"fail", "done"} /\ WorkerBusy /\ started' = started
        /\ UNCHANGED <<container, running, made, lastId, gone, foreign>>
        /\ Step("finish")
    BY DEF SettleJournal, WorkerBusy, WorkerOnly, engineVars
  <1>1. worker' \in Workers(lastId) /\ worker'.at = "finish"
    BY <1>0, Before, WorkerMoved DEF Step, Places
  <1>2. EngineTypes' /\ Absent' /\ lastId' \in Nat /\ lastId <= lastId'
        /\ gone' \in 0 .. started /\ worker' \in Workers(lastId')
    BY <1>0, <1>1, Before DEF EngineTypes, Absent
  <1>3. started \in Nat /\ started # 0 /\ told' = told
    BY <1>0, Before DEF AtWork, WorkerBusy
  <1>4. CASE /\ journal' = IF worker.at = "fail" THEN Report(worker.reason, started)
                                                ELSE NoJournal
             /\ UNCHANGED <<unwritten, faults>>
    <2>1. CASE worker.at = "fail"
      <3>1. /\ journal' = Report(worker.reason, started) /\ worker.reason \in Failures
        BY <1>4, <2>1, Before DEF AtWork
      <3>2. /\ journal' \in Journals(started) /\ journal'.outcome \in Failures
            /\ journal'.n = started
        BY <1>3, <3>1, ReportNumbered
      <3>3. AtWork'
        BY <1>0, <1>1, <1>3, <3>2, Failing DEF AtWork
      <3>4. Kept'
        BY <1>2, <1>3, <3>2, Failing DEF Kept
      <3> QED BY <1>0, <1>1, <1>2, <1>4, <3>2, <3>3, <3>4, Before, WorkerStep
    <2>2. CASE worker.at = "done"
      <3>1. journal' = NoJournal /\ gone' = 0
        BY <1>0, <1>4, <2>2, Before DEF AtWork
      <3>2. journal' \in Journals(started) /\ journal'.outcome = "none"
        BY <1>3, <3>1, ReportNumbered
      <3>3. AtWork'
        BY <1>0, <1>1, <1>3, <3>2 DEF AtWork
      <3>4. Kept'
        BY <3>1 DEF Kept
      <3> QED BY <1>0, <1>1, <1>2, <1>4, <3>2, <3>3, <3>4, Before, WorkerStep
    <2> QED BY <1>0, <2>1, <2>2
  <1>5. CASE Fault /\ unwritten' = TRUE /\ UNCHANGED journal
    <2>1. AtWork' /\ Kept'
      BY <1>0, <1>1, <1>3, <1>5 DEF AtWork, Kept
    <2>2. faults' \in 0 .. MaxFaults
      BY <1>5, Before, FaultCounted
    <2> QED BY <1>0, <1>1, <1>2, <1>5, <2>1, <2>2, Before, WorkerStep
  <1> QED BY <1>4, <1>5 DEF SettleJournal

-----------------------------------------------------------------------------
(* Reports.                                                                *)

Memos(k) == [result : Numbered(k), out : Seq(Numbered(k))]

LEMMA MemoReported ==
    ASSUME NEW k, NEW memo \in Memos(k), NEW r \in Numbered(k)
    PROVE  ReportLocked(memo, r) \in Memos(k)
  <1>1. Append(memo.out, r) \in Seq(Numbered(k))
    BY DEF Memos
  <1> QED BY <1>1 DEF Memos, ReportLocked

LEMMA MemoForgotten ==
    ASSUME NEW k \in Nat, NEW memo \in Memos(k)
    PROVE  Forget(memo) \in Memos(k)
  <1>1. NoReport \in Numbered(k)
    BY ReportNumbered
  <1> QED BY <1>1 DEF Memos, Forget

LEMMA MemoNow ==
    ASSUME NEW k, result \in Numbered(k)
    PROVE  Memo \in Memos(k)
  BY DEF Memos, Memo

LEMMA Sent ==
    ASSUME NEW k, NEW memo \in Memos(k), toController \in Seq(Numbered(k)), Send(memo)
    PROVE  /\ result' \in Numbered(k) /\ toController' \in Seq(Numbered(k))
           /\ UNCHANGED <<session, toAgent, stored>>
  <1>1. memo.result \in Numbered(k) /\ memo.out \in Seq(Numbered(k))
    BY DEF Memos
  <1>2. toController \o memo.out \in Seq(Numbered(k))
    BY <1>1, ConcatProperties
  <1> QED BY <1>1, <1>2 DEF Send

(* What the agent does in memory and on the network keeps these types.     *)
LEMMA AgentBefore ==
    ASSUME RecreateInv
    PROVE  /\ AgentTypes /\ NetTypes /\ CountTypes /\ AcksTold /\ LeftOpen
           /\ toController \in Seq(Numbered(started)) /\ result \in Numbered(started)
           /\ Memo \in Memos(started)
  BY MemoNow DEF RecreateInv, Types, AgentTypes, NetTypes

LEMMA StartRecreateKeeps ==
    ASSUME RecreateInv, StartRecreate
    PROVE  RecreateInv'
  <1>0. /\ started < MaxRecreates /\ started' = started + 1 /\ recreating' = TRUE
        /\ Send(ReportLocked(Memo, Report("recreating", started + 1)))
        /\ \E id \in seen : worker' = [Idle EXCEPT !.at = "inspect", !.id = id]
        /\ UNCHANGED <<container, running, made, lastId, gone, foreign, seen, observed,
                       invalidated, journal, alive, scan, unwritten, told, mistaken, faults>>
    BY DEF StartRecreate, engineVars
  <1>1. PICK k \in Nat : k = started + 1
    BY Before
  <1>2. started \in Nat /\ started <= k /\ k \in 0 .. MaxRecreates /\ k \in 0 .. k /\ k # 0
    BY <1>0, <1>1, Before, Bounds
  <1>3. /\ Numbered(started) \subseteq Numbered(k) /\ Journals(started) \subseteq Journals(k)
        /\ 0 .. started \subseteq 0 .. k
    BY <1>2, Grown
  <1>4. Seq(Numbered(started)) \subseteq Seq(Numbered(k))
    BY <1>3
  <1>5. Report("recreating", k) \in Numbered(k)
    BY <1>2, ReportNumbered DEF Outcomes
  <1>6. result \in Numbered(k) /\ toController \in Seq(Numbered(k))
        /\ toAgent \in Seq(Numbered(k))
    BY <1>3, <1>4, AgentBefore DEF NetTypes
  <1>7. Memo \in Memos(k)
    BY <1>6, MemoNow
  <1>8. ReportLocked(Memo, Report("recreating", k)) \in Memos(k)
    BY <1>5, <1>7, MemoReported
  <1>9. /\ result' \in Numbered(k) /\ toController' \in Seq(Numbered(k))
        /\ UNCHANGED <<session, toAgent, stored>>
    BY <1>0, <1>1, <1>6, <1>8, Sent
  <1>10. worker' \in Workers(lastId) /\ worker'.at = "inspect"
    <2>1. PICK id \in seen : worker' = [Idle EXCEPT !.at = "inspect", !.id = id]
      BY <1>0
    <2>2. id \in 0 .. lastId
      BY Before, AgentBefore DEF AgentTypes
    <2> QED BY <2>1, <2>2, Before, WorkerStarted
  <1>11. EngineTypes' /\ Absent'
    BY <1>0, Before DEF EngineTypes, Absent
  <1>12. AgentTypes'
    BY <1>0, <1>1, <1>9, <1>10, AgentBefore DEF AgentTypes
  <1>13. NetTypes'
    BY <1>0, <1>1, <1>6, <1>9, AgentBefore DEF NetTypes
  <1>14. CountTypes'
    <2>1. journal' \in Journals(k) /\ gone' \in 0 .. k /\ told' \in 0 .. k
      BY <1>0, <1>3, AgentBefore DEF CountTypes
    <2> QED BY <1>0, <1>1, <1>2, <2>1, AgentBefore DEF CountTypes
  <1>15. AtWork'
    BY <1>0, <1>1, <1>2, <1>10 DEF AtWork
  <1>16. AcksTold'
    BY <1>0, <1>9, AgentBefore DEF AcksTold
  <1>17. Kept' /\ LeftOpen'
    BY <1>0, Before DEF Kept, LeftOpen
  <1> QED BY <1>11, <1>12, <1>13, <1>14, <1>15, <1>16, <1>17 DEF RecreateInv, Types

LEMMA FinishKeeps ==
    ASSUME RecreateInv, Finish
    PROVE  RecreateInv'
  <1> DEFINE r == Report(IF worker.reason # "none" THEN worker.reason ELSE "recreated", started)
  <1>0. /\ worker.at = "finish" /\ worker' = Idle /\ recreating' = FALSE
        /\ observed' = worker.new \/ observed' = observed
        /\ Send(ReportLocked(Memo, r))
        /\ UNCHANGED <<container, running, made, lastId, gone, foreign, seen, invalidated,
                       journal, alive, scan, started, unwritten, told, mistaken, faults>>
    BY DEF Finish, engineVars
  <1>1. started \in Nat /\ started # 0 /\ started \in 0 .. started
    BY <1>0, Before DEF AtWork
  <1>2. worker.reason \in Failures \cup {"none"} /\ worker.new \in 0 .. lastId
    BY Before DEF Workers
  <1>3. r \in Numbered(started)
    BY <1>1, <1>2, ReportNumbered, Failing DEF Outcomes
  <1> HIDE DEF r
  <1>4. ReportLocked(Memo, r) \in Memos(started)
    BY <1>3, AgentBefore, MemoReported
  <1>5. /\ result' \in Numbered(started) /\ toController' \in Seq(Numbered(started))
        /\ UNCHANGED <<session, toAgent, stored>>
    BY <1>0, <1>4, AgentBefore, Sent
  <1>6. worker' \in Workers(lastId) /\ worker'.at = "idle"
    <2>1. 0 \in 0 .. lastId
      BY Before
    <2> QED BY <1>0, <2>1, Before, WorkerStarted
  <1>7. EngineTypes' /\ Absent'
    BY <1>0, Before DEF EngineTypes, Absent
  <1>8. AgentTypes'
    BY <1>0, <1>2, <1>5, <1>6, AgentBefore DEF AgentTypes
  <1>9. NetTypes' /\ CountTypes' /\ AcksTold'
    BY <1>0, <1>5, AgentBefore DEF NetTypes, CountTypes, AcksTold
  <1>10. AtWork'
    BY <1>6 DEF AtWork
  <1>11. Kept'
    BY <1>0, Before DEF Kept
  <1>12. LeftOpen'
    BY <1>0, Before DEF LeftOpen, AtWork
  <1> QED BY <1>7, <1>8, <1>9, <1>10, <1>11, <1>12 DEF RecreateInv, Types

-----------------------------------------------------------------------------
(* The session.                                                            *)

(* Steps that leave the engine, the worker and the journal alone.          *)
Quiet == UNCHANGED <<container, running, made, lastId, gone, foreign, recreating, worker,
                     started, unwritten, journal, scan, mistaken>>

LEMMA QuietKeeps ==
    ASSUME RecreateInv, Quiet, AgentTypes', NetTypes', AcksTold', faults' \in 0 .. MaxFaults,
           told' \in 0 .. started, told <= told'
    PROVE  RecreateInv'
  <1>1. EngineTypes' /\ Absent'
    BY Before DEF EngineTypes, Absent, Quiet
  <1>2. CountTypes'
    BY AgentBefore DEF CountTypes, Quiet
  <1>3. AtWork'
    BY Before DEF AtWork, Quiet
  <1>4. Kept'
    <2>1. told' \in Nat
      BY Before
    <2> QED BY <2>1, Before DEF Kept, Quiet
  <1>5. LeftOpen'
    BY AgentBefore DEF LeftOpen, Quiet
  <1> QED BY <1>1, <1>2, <1>3, <1>4, <1>5 DEF RecreateInv, Types

LEMMA ConnectKeeps ==
    ASSUME RecreateInv, Connect
    PROVE  RecreateInv'
  <1>0. /\ session' = TRUE /\ toController' = IF result = NoReport THEN <<>> ELSE <<result>>
        /\ Quiet /\ UNCHANGED <<seen, observed, result, invalidated, toAgent, stored, alive,
                                told, mistaken, faults>>
    BY DEF Connect, Quiet, engineVars, memVars
  <1>1. toController' \in Seq(Numbered(started))
    BY <1>0, AgentBefore
  <1>2. AgentTypes' /\ NetTypes' /\ AcksTold'
    BY <1>0, <1>1, AgentBefore DEF AgentTypes, NetTypes, AcksTold, Quiet
  <1>3. faults' \in 0 .. MaxFaults /\ told' \in 0 .. started /\ told <= told'
    BY <1>0, AgentBefore, Before DEF CountTypes
  <1> QED BY <1>0, <1>2, <1>3, QuietKeeps

LEMMA DropKeeps ==
    ASSUME RecreateInv, Drop
    PROVE  RecreateInv'
  <1>0. /\ session' = FALSE /\ toController' = <<>> /\ toAgent' = <<>> /\ Fault
        /\ Quiet /\ UNCHANGED <<seen, observed, result, invalidated, stored, alive, told, mistaken>>
    BY DEF Drop, Quiet, engineVars, memVars
  <1>1. AgentTypes' /\ NetTypes' /\ AcksTold'
    <2>1. AgentTypes'
      BY <1>0, AgentBefore DEF AgentTypes, Quiet
    <2>2. toController' \in Seq(Numbered(started)) /\ toAgent' \in Seq(Numbered(started))
      BY <1>0
    <2>3. NetTypes'
      BY <1>0, <2>2, AgentBefore DEF NetTypes, Quiet
    <2>4. AcksTold'
      BY <1>0 DEF AcksTold
    <2> QED BY <2>1, <2>3, <2>4
  <1>2. told' \in 0 .. started /\ told <= told'
    BY <1>0, AgentBefore, Before DEF CountTypes
  <1>3. faults' \in 0 .. MaxFaults
    BY <1>0, Before, FaultCounted
  <1> QED BY <1>0, <1>1, <1>2, <1>3, QuietKeeps

LEMMA StartKeeps ==
    ASSUME RecreateInv, Start
    PROVE  RecreateInv'
  <1>0. /\ alive' = TRUE
        /\ Quiet /\ UNCHANGED <<seen, observed, result, invalidated, session, toController,
                                toAgent, stored, told, mistaken, faults>>
    BY DEF Start, Quiet, engineVars, memVars, netVars
  <1>1. AgentTypes' /\ NetTypes' /\ AcksTold'
    BY <1>0, AgentBefore DEF AgentTypes, NetTypes, AcksTold, Quiet
  <1>2. faults' \in 0 .. MaxFaults /\ told' \in 0 .. started /\ told <= told'
    BY <1>0, AgentBefore, Before DEF CountTypes
  <1> QED BY <1>0, <1>1, <1>2, QuietKeeps

LEMMA HandleResultKeeps ==
    ASSUME RecreateInv, HandleResult
    PROVE  RecreateInv'
  <1> DEFINE r == Head(toController)
  <1>0. /\ toController # <<>> /\ toController' = Tail(toController)
        /\ Quiet /\ UNCHANGED <<seen, observed, result, invalidated, session, alive>>
        /\ \/ /\ stored' = r.outcome
              /\ told' = IF r.outcome \in Failures /\ r.n > told THEN r.n ELSE told
              /\ toAgent' = IF r.outcome \in Failures THEN Append(toAgent, r) ELSE toAgent
              /\ UNCHANGED faults
           \/ Fault /\ UNCHANGED <<stored, told, toAgent>>
    BY DEF HandleResult, Quiet, engineVars, memVars
  <1>1. toController' \in Seq(Numbered(started)) /\ r \in Numbered(started)
    BY <1>0, AgentBefore
  <1>2. r.outcome \in Outcomes /\ r.n \in 0 .. started
    BY <1>1 DEF Numbered
  <1>3. toAgent \in Seq(Numbered(started)) /\ told \in 0 .. started /\ started \in Nat
    BY AgentBefore, Before DEF NetTypes, CountTypes
  <1> HIDE DEF r
  <1>4. CASE Fault /\ UNCHANGED <<stored, told, toAgent>>
    <2>1. AgentTypes' /\ NetTypes' /\ AcksTold'
      BY <1>0, <1>1, <1>4, AgentBefore DEF AgentTypes, NetTypes, AcksTold, Quiet
    <2>2. told' \in 0 .. started /\ told <= told'
      BY <1>3, <1>4
    <2>3. faults' \in 0 .. MaxFaults
      BY <1>4, Before, FaultCounted
    <2> QED BY <1>0, <2>1, <2>2, <2>3, QuietKeeps
  <1>5. CASE /\ stored' = r.outcome
             /\ told' = IF r.outcome \in Failures /\ r.n > told THEN r.n ELSE told
             /\ toAgent' = IF r.outcome \in Failures THEN Append(toAgent, r) ELSE toAgent
             /\ UNCHANGED faults
    <2>1. told' \in 0 .. started /\ told <= told' /\ (r.outcome \in Failures => r.n <= told')
      BY <1>2, <1>3, <1>5
    <2>2. toAgent' \in Seq(Numbered(started))
      BY <1>1, <1>3, <1>5
    <2>3. AgentTypes' /\ NetTypes'
      BY <1>0, <1>1, <1>2, <1>5, <2>2, AgentBefore DEF AgentTypes, NetTypes, Quiet
    <2>4. AcksTold'
      <3>1. ASSUME NEW i \in 1 .. Len(toAgent)
            PROVE  toAgent[i].outcome \in Failures /\ toAgent[i].n <= told'
        <4>1. toAgent[i] \in Numbered(started)
          BY <1>3
        <4>2. toAgent[i].n \in 0 .. started /\ toAgent[i].outcome \in Failures
              /\ toAgent[i].n <= told
          BY <4>1, AgentBefore DEF Numbered, AcksTold
        <4> QED BY <1>3, <2>1, <4>2
      <3>2. CASE r.outcome \in Failures
        <4>1. toAgent' = Append(toAgent, r)
          BY <1>5, <3>2
        <4>2. \A i \in 1 .. Len(toAgent') :
                 \/ i \in 1 .. Len(toAgent) /\ toAgent'[i] = toAgent[i]
                 \/ toAgent'[i] = r
          BY <1>3, <4>1
        <4> QED BY <2>1, <3>1, <3>2, <4>2 DEF AcksTold
      <3>3. CASE r.outcome \notin Failures
        BY <1>5, <3>1, <3>3 DEF AcksTold
      <3> QED BY <3>2, <3>3
    <2>5. faults' \in 0 .. MaxFaults
      BY <1>5, Before
    <2> QED BY <1>0, <2>1, <2>3, <2>4, <2>5, QuietKeeps
  <1> QED BY <1>0, <1>4, <1>5

(* An acknowledgement removes the journal of its own recreate, which was   *)
(* told, or one it mistakes for it.                                        *)
LEMMA ResultRecordedKeeps ==
    ASSUME RecreateInv, ResultRecorded
    PROVE  RecreateInv'
  <1> DEFINE ack == Head(toAgent)
             Removed ==
                /\ journal.outcome = ack.outcome /\ journal' = NoJournal
                /\ mistaken' = IF ack.n # journal.n /\ journal.n > mistaken
                                THEN journal.n ELSE mistaken
                /\ UNCHANGED <<unwritten, faults>>
  <1>0. /\ toAgent # <<>> /\ toAgent' = Tail(toAgent)
        /\ UNCHANGED <<container, running, made, lastId, gone, foreign, seen, observed,
                       recreating, result, invalidated, session, toController, stored, alive,
                       worker, scan, started, told>>
        /\ \/ Removed
           \/ Fault /\ unwritten' = TRUE /\ UNCHANGED <<journal, mistaken>>
           \/ UNCHANGED <<journal, mistaken, unwritten, faults>>
    BY DEF ResultRecorded, engineVars, memVars
  <1>1. toAgent \in Seq(Numbered(started)) /\ toAgent' \in Seq(Numbered(started))
    BY <1>0, AgentBefore DEF NetTypes
  <1>2. /\ Len(toAgent) \in Nat /\ Len(toAgent) # 0 /\ ack = toAgent[1]
        /\ Len(toAgent') = Len(toAgent) - 1
        /\ \A i \in 1 .. Len(toAgent') : toAgent'[i] = toAgent[i + 1]
    BY <1>0, <1>1
  <1>3. AcksTold'
    <2>1. \A i \in 1 .. Len(toAgent') : i + 1 \in 1 .. Len(toAgent)
      BY <1>2
    <2> QED BY <1>0, <1>2, <2>1, AgentBefore DEF AcksTold
  <1>4. ack.outcome \in Failures /\ ack.n <= told
    <2>1. 1 \in 1 .. Len(toAgent)
      BY <1>2
    <2> QED BY <1>2, <2>1, AgentBefore DEF AcksTold
  <1> HIDE DEF ack
  <1>5. EngineTypes' /\ Absent'
    BY <1>0, Before DEF EngineTypes, Absent
  <1>6. AgentTypes' /\ NetTypes'
    BY <1>0, <1>1, AgentBefore DEF AgentTypes, NetTypes
  <1>7. faults' \in 0 .. MaxFaults
    BY <1>0, Before, FaultCounted
  <1>8. CASE Fault /\ unwritten' = TRUE /\ UNCHANGED <<journal, mistaken>>
    <2>1. CountTypes'
      BY <1>0, <1>7, <1>8, AgentBefore DEF CountTypes
    <2>2. AtWork' /\ Kept' /\ LeftOpen'
      BY <1>0, <1>8, Before DEF AtWork, Kept, LeftOpen
    <2> QED BY <1>3, <1>5, <1>6, <2>1, <2>2 DEF RecreateInv, Types
  <1>9. CASE UNCHANGED <<journal, mistaken, unwritten, faults>>
    <2>1. CountTypes'
      BY <1>0, <1>9, AgentBefore DEF CountTypes
    <2>2. AtWork' /\ Kept' /\ LeftOpen'
      BY <1>0, <1>9, Before, AgentBefore DEF AtWork, Kept, LeftOpen
    <2> QED BY <1>3, <1>5, <1>6, <2>1, <2>2 DEF RecreateInv, Types
  <1>10. CASE Removed
    <2>1. journal' \in Journals(started) /\ journal'.outcome = "none"
      <3>1. 0 \in 0 .. started
        BY Before
      <3> QED BY <1>10, <3>1, Before, ReportNumbered
    <2>2. journal.outcome \in Failures /\ journal' # journal
      BY <1>4, <1>10, <2>1, Failing
    <2>3. journal.n \in 0 .. started /\ ack.n \in Nat
      <3>1. ack \in Numbered(started)
        BY <1>0, <1>1 DEF ack
      <3> QED BY <3>1, Before DEF Numbered, Journals
    <2>4. worker.at \notin {"stop", "remove", "undo", "create", "start"}
      <3>1. Report("open", started).outcome = "open"
        BY DEF Report
      <3> QED BY <2>2, <3>1, Before, Failing DEF AtWork
    <2>5. CountTypes'
      <3>1. mistaken' \in 0 .. started
        BY <1>10, <2>3, Before
      <3> QED BY <1>0, <1>10, <2>1, <3>1, AgentBefore DEF CountTypes
    <2>6. AtWork'
      BY <1>0, <1>10, <2>1, <2>4, Before DEF AtWork
    <2>7. mistaken' \in Nat /\ mistaken' >= mistaken
      BY <1>10, <2>3, Before
    <2>8. Kept'
      <3>1. CASE ack.n = journal.n
        BY <1>0, <1>4, <1>10, <2>3, <2>7, <3>1, Before DEF Kept
      <3>2. CASE ack.n # journal.n
        <4>1. mistaken' >= journal.n
          BY <1>10, <2>3, <3>2, Before
        <4> QED BY <1>0, <1>10, <2>3, <2>7, <4>1, Before DEF Kept
      <3> QED BY <3>1, <3>2
    <2>9. LeftOpen'
      BY <2>1 DEF LeftOpen
    <2> QED BY <1>3, <1>5, <1>6, <2>5, <2>6, <2>8, <2>9 DEF RecreateInv, Types
  <1> QED BY <1>0, <1>8, <1>9, <1>10

(* An exit loses the worker, the scans, the messages and the last result;  *)
(* the journal stays.                                                      *)
LEMMA ExitKeeps ==
    ASSUME RecreateInv, Exit
    PROVE  RecreateInv'
  <1>0. /\ Fault /\ alive' = FALSE /\ seen' = {} /\ observed' = 0 /\ recreating' = FALSE
        /\ result' = NoReport /\ worker' = Idle /\ scan' = [s \in Scanners |-> NoScan]
        /\ session' = FALSE /\ toController' = <<>> /\ toAgent' = <<>>
        /\ UNCHANGED <<container, running, made, lastId, gone, foreign, invalidated, stored,
                       journal, started, unwritten, told, mistaken>>
    BY DEF Exit, engineVars
  <1>1. EngineTypes' /\ Absent'
    BY <1>0, Before DEF EngineTypes, Absent
  <1>2. lastId \in Nat /\ started \in Nat /\ 0 \in 0 .. lastId /\ 0 \in 0 .. started
    BY Before
  <1>3. worker' \in Workers(lastId) /\ worker'.at = "idle"
    BY <1>0, <1>2, WorkerStarted
  <1>4. result' \in Numbered(started)
    BY <1>0, <1>2, ReportNumbered
  <1>5. NoScan \in Scans(lastId) /\ NoScan.at = "none"
    BY <1>2 DEF NoScan, Scans
  <1>6. AgentTypes'
    <2>1. scan' \in [Scanners -> Scans(lastId)]
      BY <1>0, <1>5
    <2>2. seen' \subseteq 1 .. lastId /\ observed' \in 0 .. lastId
      BY <1>0, <1>2
    <2> QED BY <1>0, <1>3, <1>4, <2>1, <2>2, AgentBefore DEF AgentTypes
  <1>7. NetTypes'
    <2>1. toController' \in Seq(Numbered(started)) /\ toAgent' \in Seq(Numbered(started))
      BY <1>0
    <2> QED BY <1>0, <2>1, AgentBefore DEF NetTypes
  <1>8. faults' \in 0 .. MaxFaults
    BY <1>0, Before, FaultCounted
  <1>9. CountTypes'
    BY <1>0, <1>8, AgentBefore DEF CountTypes
  <1>10. AtWork'
    BY <1>3 DEF AtWork
  <1>11. AcksTold'
    BY <1>0 DEF AcksTold
  <1>12. Kept'
    BY <1>0, Before DEF Kept
  <1>13. LeftOpen'
    BY <1>0, <1>5 DEF LeftOpen
  <1> QED BY <1>1, <1>6, <1>7, <1>9, <1>10, <1>11, <1>12, <1>13 DEF RecreateInv, Types

(* Somebody else uses the engine.                                          *)
LEMMA ForeignKeeps ==
    ASSUME RecreateInv, ForeignRemove \/ ForeignCreate
    PROVE  RecreateInv'
  <1>0. /\ foreign < MaxForeign /\ foreign' = foreign + 1
        /\ UNCHANGED <<made, seen, observed, recreating, result, invalidated, session,
                       toController, toAgent, stored, journal, alive, worker, scan, started,
                       unwritten, told, mistaken, faults>>
        /\ \/ container' = 0 /\ running' = FALSE /\ lastId' = lastId /\ gone' = gone
           \/ /\ container' = lastId + 1 /\ lastId' = lastId + 1 /\ lastId < MaxId
              /\ running' = TRUE /\ gone' = 0
    BY DEF ForeignRemove, ForeignCreate, memVars, netVars
  <1>1. foreign' \in 0 .. MaxForeign
    BY <1>0, Before, Bounds DEF EngineTypes
  <1>2. /\ lastId \in Nat /\ lastId' \in Nat /\ lastId <= lastId' /\ lastId' \in 0 .. MaxId
        /\ container' \in 0 .. lastId' /\ running' \in BOOLEAN
        /\ gone' \in 0 .. started /\ (gone' # 0 => container' = 0 /\ gone' = gone)
    <2>1. CASE container' = 0 /\ running' = FALSE /\ lastId' = lastId /\ gone' = gone
      <3>1. lastId \in Nat /\ lastId \in 0 .. MaxId /\ gone \in 0 .. started /\ 0 \in 0 .. lastId
        BY Before DEF EngineTypes
      <3>2. running' \in BOOLEAN
        BY <2>1
      <3> QED BY <2>1, <3>1, <3>2
    <2>2. CASE /\ container' = lastId + 1 /\ lastId' = lastId + 1 /\ lastId < MaxId
               /\ running' = TRUE /\ gone' = 0
      BY <2>2, Before, Bounds
    <2> QED BY <1>0, <2>1, <2>2
  <1>3. /\ 0 .. lastId \subseteq 0 .. lastId' /\ 1 .. lastId \subseteq 1 .. lastId'
        /\ Scans(lastId) \subseteq Scans(lastId') /\ Workers(lastId) \subseteq Workers(lastId')
    BY <1>2, Grown
  <1>4. EngineTypes'
    BY <1>0, <1>1, <1>2, <1>3, Before DEF EngineTypes
  <1>5. AgentTypes'
    <2>1. scan' \in [Scanners -> Scans(lastId')]
      BY <1>0, <1>3, AgentBefore DEF AgentTypes
    <2> QED BY <1>0, <1>3, <2>1, AgentBefore DEF AgentTypes
  <1>6. NetTypes' /\ AcksTold'
    BY <1>0, AgentBefore DEF NetTypes, AcksTold
  <1>7. CountTypes'
    BY <1>0, <1>2, AgentBefore DEF CountTypes
  <1>8. AtWork'
    BY <1>0, <1>2, Before DEF AtWork
  <1>9. Absent' /\ Kept' /\ LeftOpen'
    BY <1>0, <1>2, Before, AgentBefore DEF Absent, Kept, LeftOpen
  <1> QED BY <1>4, <1>5, <1>6, <1>7, <1>8, <1>9 DEF RecreateInv, Types

-----------------------------------------------------------------------------
(* Reconciliation.                                                         *)

LEMMA LookKeeps ==
    ASSUME RecreateInv, NEW s \in Scanners, List(s) \/ InspectOne(s)
    PROVE  RecreateInv'
  <1>0. /\ Fault \/ faults' = faults
        /\ UNCHANGED <<container, running, made, lastId, gone, foreign, seen, observed,
                       recreating, result, invalidated, session, toController, toAgent, stored,
                       journal, alive, worker, started, unwritten, told, mistaken>>
    BY DEF List, InspectOne, engineVars, memVars, netVars
  <1>1. PICK x : /\ scan' = [scan EXCEPT ![s] = x] /\ x \in Scans(lastId)
                 /\ x.at = "all" => x.id = container
    <2>1. CASE List(s)
      <3>1. PICK i \in BOOLEAN :
              scan' = [scan EXCEPT ![s] = [at |-> "all", id |-> container, inspected |-> i]]
        BY <2>1, Zenon DEF List
      <3>2. /\ [at |-> "all", id |-> container, inspected |-> i] \in Scans(lastId)
            /\ [at |-> "all", id |-> container, inspected |-> i].id = container
        BY Before DEF Scans, EngineTypes
      <3> QED BY <3>1, <3>2
    <2>2. CASE InspectOne(s)
      <3>1. PICK id \in 1 .. lastId :
              scan' = [scan EXCEPT ![s] = [at |-> "one", id |-> id, inspected |-> container = id]]
        BY <2>2 DEF InspectOne
      <3>2. id \in 0 .. lastId /\ (container = id) \in BOOLEAN
        BY Before
      <3>3. /\ [at |-> "one", id |-> id, inspected |-> container = id] \in Scans(lastId)
            /\ [at |-> "one", id |-> id, inspected |-> container = id].at = "one"
        BY <3>1, <3>2, Before DEF Scans
      <3> QED BY <3>1, <3>3
    <2> QED BY <2>1, <2>2
  <1>2. /\ scan' \in [Scanners -> Scans(lastId)] /\ scan'[s] = x
        /\ \A z \in Scanners \ {s} : scan'[z] = scan[z]
    BY <1>1, AgentBefore DEF AgentTypes
  <1>3. faults' \in 0 .. MaxFaults
    BY <1>0, Before, FaultCounted
  <1>4. EngineTypes' /\ Absent'
    BY <1>0, Before DEF EngineTypes, Absent
  <1>5. AgentTypes' /\ NetTypes' /\ CountTypes' /\ AcksTold'
    BY <1>0, <1>2, <1>3, AgentBefore DEF AgentTypes, NetTypes, CountTypes, AcksTold
  <1>6. AtWork' /\ Kept'
    BY <1>0, Before DEF AtWork, Kept
  <1>7. LeftOpen'
    BY <1>0, <1>1, <1>2, Before, AgentBefore DEF LeftOpen, Absent
  <1> QED BY <1>4, <1>5, <1>6, <1>7 DEF RecreateInv, Types

(* The containers a scan leaves the agent with.                            *)
LEMMA SeenTypes ==
    ASSUME RecreateInv, NEW sc \in Scans(lastId), sc.at # "none"
    PROVE  /\ SeenAfter(sc) \subseteq 1 .. lastId
           /\ sc.at = "all" /\ sc.id = 0 => SeenAfter(sc) = {}
  <1>1. /\ sc.at \in {"one", "all"} /\ sc.id \in 0 .. lastId /\ lastId \in Nat
        /\ seen \subseteq 1 .. lastId /\ 0 \notin seen
    BY Before, AgentBefore DEF Scans, AgentTypes
  <1>2. CASE sc.at = "one"
    <2>1. SeenAfter(sc) = IF sc.inspected THEN seen \cup {sc.id} ELSE seen \ {sc.id}
      BY <1>2 DEF SeenAfter
    <2>2. sc.id \in 1 .. lastId
      BY <1>1, <1>2 DEF Scans
    <2>3. CASE sc.inspected
      BY <1>1, <1>2, <2>1, <2>2, <2>3
    <2>4. CASE ~ sc.inspected
      BY <1>1, <1>2, <2>1, <2>4
    <2> QED BY <2>3, <2>4
  <1>3. CASE sc.at = "all"
    <2>1. SeenAfter(sc) = IF sc.inspected THEN {sc.id} \ {0} ELSE seen \cap {sc.id}
      BY <1>3 DEF SeenAfter
    <2> QED BY <1>1, <1>3, <2>1
  <1> QED BY <1>1, <1>2, <1>3

(* A journal left open is not taken to be settled while the container is   *)
(* gone.                                                                   *)
LEMMA NotSettled ==
    ASSUME RecreateInv, NEW s \in Scanners, Interrupted(scan[s]), gone # 0, ~ unwritten
    PROVE  ~ Settled(SeenAfter(scan[s]))
  <1> SUFFICES ASSUME journal.outcome = "open"
               PROVE  SeenAfter(scan[s]) = {}
    BY DEF Settled
  <1>1. scan[s].at = "all" /\ ~ recreating
    BY DEF Interrupted, Complete
  <1>2. scan[s].id = 0
    BY <1>1, AgentBefore DEF LeftOpen
  <1>3. scan[s] \in Scans(lastId)
    BY AgentBefore DEF AgentTypes
  <1> QED BY <1>1, <1>2, <1>3, SeenTypes

(* The journal after a reconciliation, and the report it makes.            *)
LEMMA JournalAfterTypes ==
    ASSUME RecreateInv, NEW now
    PROVE  /\ JournalAfter(now) \in Journals(started)
           /\ ~ Settled(now) => /\ JournalAfter(now) \in Numbered(started)
                                /\ JournalAfter(now).n = journal.n
                                /\ journal.outcome # "none" => JournalAfter(now).outcome # "none"
                                /\ JournalAfter(now).outcome # "open"
  <1>1. /\ journal \in Journals(started) /\ started \in Nat /\ 0 \in 0 .. started
        /\ journal.outcome \in Failures \cup {"none", "open"} /\ journal.n \in 0 .. started
        /\ journal.outcome # "none" => journal.n # 0
    BY Before DEF Journals
  <1>2. CASE Settled(now)
    <2>1. JournalAfter(now) = NoJournal
      BY <1>2 DEF JournalAfter, Settled
    <2> QED BY <1>1, <1>2, <2>1, ReportNumbered
  <1>3. CASE ~ Settled(now) /\ journal.outcome = "open"
    <2>0. now = {}
      BY <1>3 DEF Settled
    <2>1. JournalAfter(now) = Report("create-failed", journal.n)
      BY <1>3, <2>0, Zenon DEF JournalAfter
    <2>2. "create-failed" \in Failures /\ "create-failed" \in Outcomes
      BY DEF Failures, Outcomes
    <2>3. journal.n # 0
      BY <1>1, <1>3
    <2>4. /\ JournalAfter(now) \in Journals(started) /\ JournalAfter(now) \in Numbered(started)
          /\ JournalAfter(now).n = journal.n /\ JournalAfter(now).outcome = "create-failed"
      BY <1>1, <2>1, <2>2, <2>3, ReportNumbered
    <2> QED BY <2>4
  <1>4. CASE journal.outcome # "open"
    <2>0. ~ Settled(now)
      BY <1>4 DEF Settled
    <2>1. JournalAfter(now) = journal
      BY <1>4, <2>0, Zenon DEF JournalAfter
    <2>2. journal \in Numbered(started)
      BY <1>1, <1>4 DEF Journals, Numbered, Outcomes, Failures
    <2> QED BY <1>1, <1>4, <2>0, <2>1, <2>2
  <1> QED BY <1>2, <1>3, <1>4

LEMMA MemosOfApply ==
    ASSUME RecreateInv, NEW sc, NEW now, NEW displaced \in BOOLEAN
    PROVE  LET memo  == InterruptedMemo(sc, now)
               memo2 == IF displaced THEN Forget(memo) ELSE memo
           IN  Checked(memo2, now) \in Memos(started)
  <1> DEFINE memo  == InterruptedMemo(sc, now)
             memo2 == IF displaced THEN Forget(memo) ELSE memo
  <1>1. started \in Nat /\ Memo \in Memos(started) /\ Forget(Memo) \in Memos(started)
    BY Before, AgentBefore, MemoForgotten
  <1>2. memo \in Memos(started)
    <2>1. CASE Interrupted(sc) /\ ~ Settled(now)
      <3>1. JournalAfter(now) \in Numbered(started)
        BY <2>1, JournalAfterTypes
      <3>2. memo = ReportLocked(Forget(Memo), JournalAfter(now))
        BY <2>1 DEF InterruptedMemo
      <3> QED BY <1>1, <3>1, <3>2, MemoReported
    <2>2. CASE ~ (Interrupted(sc) /\ ~ Settled(now))
      BY <1>1, <2>2 DEF InterruptedMemo
    <2> QED BY <2>1, <2>2
  <1> HIDE DEF memo
  <1>3. memo2 \in Memos(started)
    <2>1. CASE displaced
      BY <1>1, <1>2, <2>1, MemoForgotten
    <2>2. CASE ~ displaced
      BY <1>2, <2>2
    <2> QED BY <2>1, <2>2
  <1> HIDE DEF memo2
  <1>4. \A o \in {"conforming", "non-conforming"} : Report(o, 0) \in Numbered(started)
    <2>1. 0 \in 0 .. started
      BY <1>1
    <2> QED BY <1>1, <2>1, ReportNumbered DEF Outcomes, Failures
  <1>5. Checked(memo2, now) \in Memos(started)
    <2>1. PICK o \in {"conforming", "non-conforming"} :
            \/ Checked(memo2, now) = memo2
            \/ Checked(memo2, now) = ReportLocked(memo2, Report(o, 0))
      BY Zenon DEF Checked
    <2> QED BY <1>3, <1>4, <2>1, MemoReported
  <1> QED BY <1>5 DEF memo, memo2

LEMMA ApplyKeeps ==
    ASSUME RecreateInv, NEW s \in Scanners, Apply(s)
    PROVE  RecreateInv'
  <1> DEFINE sc == scan[s]
             now == SeenAfter(sc)
  <1>0. /\ sc.at # "none" /\ scan' = [scan EXCEPT ![s] = NoScan]
        /\ UNCHANGED <<container, running, made, lastId, gone, foreign, recreating, alive,
                       worker, started, told, mistaken>>
    BY DEF Apply, engineVars
  <1>1. PICK identity \in IF now = {} THEN {0} ELSE now :
           /\ seen' = now
           /\ \/ /\ journal' = IF Interrupted(sc) THEN JournalAfter(now) ELSE journal
                 /\ UNCHANGED <<unwritten, faults>>
              \/ /\ Interrupted(sc) /\ JournalAfter(now) # journal /\ Fault
                 /\ unwritten' = TRUE
                 /\ UNCHANGED journal
           /\ observed' = IF now = {} /\ recreating THEN observed ELSE identity
           /\ invalidated' = (invalidated \/ Displaced(now, identity))
           /\ Send(Checked(IF Displaced(now, identity) THEN Forget(InterruptedMemo(sc, now))
                           ELSE InterruptedMemo(sc, now), now))
    BY DEF Apply
  <1>2. sc \in Scans(lastId)
    BY AgentBefore DEF AgentTypes
  <1>3. now \subseteq 1 .. lastId
    BY <1>0, <1>2, SeenTypes
  <1>4. Interrupted(sc) /\ gone # 0 /\ ~ unwritten => ~ Settled(now)
    BY NotSettled
  <1> HIDE DEF now, sc
  <1>5. identity \in 0 .. lastId
    BY <1>1, <1>3, Before
  <1>6. Displaced(now, identity) \in BOOLEAN
    BY DEF Displaced
  <1>7. Checked(IF Displaced(now, identity) THEN Forget(InterruptedMemo(sc, now))
                ELSE InterruptedMemo(sc, now), now) \in Memos(started)
    BY <1>6, MemosOfApply
  <1>8. /\ result' \in Numbered(started) /\ toController' \in Seq(Numbered(started))
        /\ UNCHANGED <<session, toAgent, stored>>
    BY <1>1, <1>7, AgentBefore, Sent
  <1>9. /\ scan' \in [Scanners -> Scans(lastId)]
        /\ \A z \in Scanners : scan'[z].at = "all" => scan'[z] = scan[z]
    <2>1. NoScan \in Scans(lastId) /\ NoScan.at = "none"
      BY Before DEF NoScan, Scans
    <2> QED BY <1>0, <2>1, AgentBefore DEF AgentTypes
  <1>10. EngineTypes' /\ Absent'
    BY <1>0, Before DEF EngineTypes, Absent
  <1>11. AgentTypes'
    <2>1. observed' \in 0 .. lastId
      BY <1>1, <1>5, AgentBefore DEF AgentTypes
    <2>2. invalidated' \in BOOLEAN
      BY <1>1, <1>6, AgentBefore DEF AgentTypes
    <2> QED BY <1>0, <1>1, <1>3, <1>8, <1>9, <2>1, <2>2, AgentBefore DEF AgentTypes
  <1>12. NetTypes' /\ AcksTold'
    BY <1>0, <1>8, AgentBefore DEF NetTypes, AcksTold
  <1>13. CASE /\ journal' = IF Interrupted(sc) THEN JournalAfter(now) ELSE journal
              /\ UNCHANGED <<unwritten, faults>>
    <2>1. CASE Interrupted(sc)
      <3>1. journal' = JournalAfter(now) /\ journal' \in Journals(started)
        BY <1>13, <2>1, JournalAfterTypes
      <3>2. CountTypes'
        BY <1>0, <1>13, <3>1, AgentBefore DEF CountTypes
      <3>3. worker.at = "idle"
        BY <2>1, AgentBefore DEF Interrupted, AgentTypes
      <3>4. AtWork'
        BY <1>0, <3>3 DEF AtWork
      <3>5. gone # 0 /\ ~ unwritten =>
              /\ journal'.n = journal.n /\ journal'.outcome # "open"
              /\ journal.outcome # "none" => journal'.outcome # "none"
        BY <1>4, <2>1, <3>1, JournalAfterTypes
      <3>6. Kept'
        BY <1>0, <1>13, <3>5, Before DEF Kept
      <3>7. LeftOpen'
        BY <1>0, <1>13, <3>5 DEF LeftOpen
      <3> QED BY <1>10, <1>11, <1>12, <3>2, <3>4, <3>6, <3>7 DEF RecreateInv, Types
    <2>2. CASE ~ Interrupted(sc)
      <3>1. journal' = journal
        BY <1>13, <2>2
      <3>2. CountTypes'
        BY <1>0, <1>13, <3>1, AgentBefore DEF CountTypes
      <3>3. AtWork' /\ Kept'
        BY <1>0, <1>13, <3>1, Before DEF AtWork, Kept
      <3>4. LeftOpen'
        BY <1>0, <1>9, <1>13, <3>1, AgentBefore DEF LeftOpen
      <3> QED BY <1>10, <1>11, <1>12, <3>2, <3>3, <3>4 DEF RecreateInv, Types
    <2> QED BY <2>1, <2>2
  <1>14. CASE Interrupted(sc) /\ Fault /\ unwritten' = TRUE /\ UNCHANGED journal
    <2>1. faults' \in 0 .. MaxFaults
      BY <1>14, Before, FaultCounted
    <2>2. CountTypes'
      BY <1>0, <1>14, <2>1, AgentBefore DEF CountTypes
    <2>3. AtWork' /\ Kept' /\ LeftOpen'
      BY <1>0, <1>14, Before DEF AtWork, Kept, LeftOpen
    <2> QED BY <1>10, <1>11, <1>12, <2>2, <2>3 DEF RecreateInv, Types
  <1> QED BY <1>1, <1>13, <1>14

-----------------------------------------------------------------------------
LEMMA InitRecreate ==
    ASSUME Init
    PROVE  RecreateInv
  <1>1. EngineTypes
    BY Bounds DEF Init, EngineTypes
  <1>2. lastId = 1 /\ started = 0 /\ gone = 0 /\ worker = Idle
    BY DEF Init
  <1>3. 0 \in 0 .. 0 /\ 0 \in 0 .. 1 /\ 0 \in Nat /\ 1 \in Nat
    OBVIOUS
  <1>4. /\ NoReport \in Numbered(0) /\ NoJournal \in Journals(0) /\ NoJournal.outcome = "none"
        /\ Idle \in Workers(1) /\ Idle.at = "idle"
    BY <1>3, ReportNumbered, WorkerStarted
  <1>5. NoScan \in Scans(1)
    BY DEF NoScan, Scans
  <1>6. AgentTypes
    <2>1. /\ result \in Numbered(started) /\ worker \in Workers(lastId)
          /\ recreating = (worker.at # "idle")
      BY <1>2, <1>4 DEF Init
    <2>2. scan \in [Scanners -> Scans(lastId)]
      BY <1>2, <1>5 DEF Init
    <2>3. alive \in BOOLEAN /\ invalidated \in BOOLEAN
      BY DEF Init
    <2>4. seen \subseteq 1 .. lastId /\ observed \in 0 .. lastId
      BY <1>2, <1>3 DEF Init
    <2> QED BY <2>1, <2>2, <2>3, <2>4 DEF AgentTypes
  <1>7. NetTypes
    <2>1. toController \in Seq(Numbered(started)) /\ toAgent \in Seq(Numbered(started))
      BY DEF Init
    <2>2. session \in BOOLEAN /\ stored \in Outcomes
      BY DEF Init, Outcomes
    <2> QED BY <2>1, <2>2 DEF NetTypes
  <1>8. CountTypes
    <2>1. started \in 0 .. MaxRecreates /\ faults \in 0 .. MaxFaults
      BY Bounds DEF Init
    <2>2. unwritten \in BOOLEAN
      BY DEF Init
    <2>3. journal \in Journals(started) /\ gone \in 0 .. started /\ told \in 0 .. started
          /\ mistaken \in 0 .. started
      BY <1>2, <1>3, <1>4 DEF Init
    <2> QED BY <2>1, <2>2, <2>3 DEF CountTypes
  <1>9. AtWork /\ Absent /\ Kept /\ LeftOpen
    BY <1>2, <1>4 DEF AtWork, Absent, Kept, LeftOpen
  <1>10. AcksTold
    BY DEF Init, AcksTold
  <1> QED BY <1>1, <1>6, <1>7, <1>8, <1>9, <1>10 DEF RecreateInv, Types

LEMMA NextKeeps ==
    ASSUME RecreateInv, [Next]_vars
    PROVE  RecreateInv'
  <1>1. CASE \/ StartRecreate \/ Inspect \/ WriteJournal \/ Stop \/ Remove \/ Undo \/ Create
             \/ StartNew \/ SettleJournal \/ Finish
    BY <1>1, StartRecreateKeeps, InspectKeeps, WriteJournalKeeps, StopKeeps, RemoveKeeps,
       UndoKeeps, CreateKeeps, StartNewKeeps, SettleJournalKeeps, FinishKeeps
  <1>2. CASE \E s \in Scanners : List(s) \/ InspectOne(s) \/ Apply(s)
    BY <1>2, LookKeeps, ApplyKeeps
  <1>3. CASE Connect \/ Drop \/ HandleResult \/ ResultRecorded
    BY <1>3, ConnectKeeps, DropKeeps, HandleResultKeeps, ResultRecordedKeeps
  <1>4. CASE Exit \/ Start \/ ForeignRemove \/ ForeignCreate
    BY <1>4, ExitKeeps, StartKeeps, ForeignKeeps
  <1>5. CASE UNCHANGED vars
    <2>1. /\ Quiet /\ UNCHANGED <<seen, observed, result, invalidated, session, toController,
                                  toAgent, stored, told, mistaken, faults, alive>>
      BY <1>5 DEF vars, engineVars, memVars, netVars, Quiet
    <2>2. AgentTypes' /\ NetTypes' /\ AcksTold'
      BY <2>1, AgentBefore DEF AgentTypes, NetTypes, AcksTold, Quiet
    <2>3. faults' \in 0 .. MaxFaults /\ told' \in 0 .. started /\ told <= told'
      BY <2>1, AgentBefore, Before DEF CountTypes
    <2> QED BY <2>1, <2>2, <2>3, QuietKeeps
  <1> QED BY <1>1, <1>2, <1>3, <1>4, <1>5 DEF Next

LEMMA KeptIsReported ==
    ASSUME RecreateInv
    PROVE  ReportsKept
  <1>1. AbsentIsReported \/ gone <= mistaken
    <2> SUFFICES ASSUME gone # 0, ~ unwritten
                 PROVE  journal # NoJournal \/ told >= gone \/ gone <= mistaken
      BY DEF AbsentIsReported, Reported
    <2>1. NoJournal.outcome = "none"
      BY DEF NoJournal, Report
    <2> QED BY <2>1, Before DEF Kept
  <1>2. Numbered(started) \subseteq Reports
    BY Bounds, AgentBefore DEF Numbered, Reports, CountTypes
  <1>3. toController \in Seq(Reports) /\ toAgent \in Seq(Reports) /\ result \in Reports
    BY <1>2, AgentBefore DEF NetTypes
  <1>4. journal \in [outcome : Failures \cup {"none", "open"}, n : 0 .. MaxRecreates]
    BY Bounds, AgentBefore DEF Journals, CountTypes
  <1>5. worker.at \in Places
    BY Before DEF Workers
  <1>6. TypeOK
    BY <1>3, <1>4, <1>5, Before, AgentBefore
       DEF TypeOK, EngineTypes, AgentTypes, NetTypes, CountTypes, Places
  <1> QED BY <1>1, <1>6 DEF ReportsKept

(* A container the agent removed is never forgotten, through any number of *)
(* recreates, exits, drops, failed calls and late reconciliations, unless  *)
(* its journal was removed on the acknowledgement of an earlier recreate's *)
(* report (recreate, reportInterruptedRecreatesLocked, resultRecorded).    *)
THEOREM ReportsKeptAlways == Spec => []ReportsKept
  <1>1. Init => RecreateInv
    BY InitRecreate
  <1>2. RecreateInv /\ [Next]_vars => RecreateInv'
    BY NextKeeps
  <1>3. RecreateInv => ReportsKept
    BY KeptIsReported
  <1> QED BY <1>1, <1>2, <1>3, PTL DEF Spec
=============================================================================

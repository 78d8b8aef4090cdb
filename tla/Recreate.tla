------------------------------- MODULE Recreate -------------------------------
(***************************************************************************)
(* Recreation of a bound container by the agent (internal/agent/recreate.go *)
(* and the reconciliation of agent.go), and the report of its failure to   *)
(* the controller (internal/controller/session.go).                        *)
(*                                                                         *)
(* One name binding governs the container of one name.  The agent stops,   *)
(* removes, creates and starts it by separate engine calls, while its      *)
(* reconciliations look at the engine without holding agent.mu and while   *)
(* somebody else may remove or create the container.  A journal on disk    *)
(* lets the next agent process report what an exit interrupted, and is     *)
(* kept until the controller acknowledges the report.  Every engine call,  *)
(* journal write and controller save may fail, the session may drop and    *)
(* the agent may exit at any step.                                         *)
(***************************************************************************)
EXTENDS Naturals, Sequences, FiniteSets

CONSTANTS
    Scanners,      \* concurrent reconciliations: the loop, the event watch, workers
    MaxId,         \* bound: engine identifiers handed out
    MaxRecreates,  \* bound: recreates started
    MaxFaults,     \* bound: failed calls, dropped sessions, agent exits
    MaxForeign,    \* bound: removals and creations by somebody else
    MaxTrouble,    \* bound: recreates, failures and foreign changes together
    MaxQueue       \* bound: messages on their way in either direction

ASSUME RecreateAssumption ==
    /\ {MaxId, MaxRecreates, MaxFaults, MaxForeign, MaxTrouble, MaxQueue} \subseteq Nat
    /\ MaxId # 0

VARIABLES
    container,   \* the engine's container of that name: its identifier, or 0
    running,     \* is it running
    made,        \* identifiers whose container carries the contract
    lastId,      \* last engine identifier handed out
    journal,     \* recreate journal on disk
    alive,       \* the agent process runs
    seen,        \* agent.containers of that name
    observed,    \* agent.observed of the binding: an identifier, or 0
    recreating,  \* agent.recreating of the name
    result,      \* agent.results of the binding
    worker,      \* the recreate in progress
    scan,        \* per scanner, what it found in the engine
    session,     \* the session with the controller is up
    toController, toAgent,
    stored,      \* the outcome the controller stored
    started,     \* number of recreates started
    gone,        \* the recreate that removed the container, 0 once there is one again
    foreign,     \* number of changes by somebody else
    invalidated, \* the binding's token was invalidated
    unwritten,   \* a journal could not be written or removed
    told,        \* the last recreate whose failure the controller stored
    mistaken,    \* history: the last recreate whose journal was removed on the
                 \* acknowledgement of another one's report, 0 for none
    faults

engineVars == <<container, running, made, lastId, gone, foreign>>
memVars    == <<seen, observed, recreating, result, invalidated>>
netVars    == <<session, toController, toAgent, stored>>
vars == <<engineVars, memVars, netVars, journal, alive, worker, scan, started, unwritten, told,
          mistaken, faults>>

Failures == {"create-failed", "start-failed", "engine-error"}
Outcomes == Failures \cup {"none", "conforming", "non-conforming", "recreating", "recreated"}

\* A report carries the number of the recreate it is about as history: the
\* messages and the journal do not have it, and no step depends on it.
Report(o, n) == [outcome |-> o, n |-> n]
NoReport == Report("none", 0)
NoJournal == Report("none", 0)
Idle   == [at |-> "idle", id |-> 0, new |-> 0, up |-> FALSE, retried |-> FALSE, reason |-> "none"]
NoScan == [at |-> "none", id |-> 0, inspected |-> FALSE]

\* Room for one more of what is counted.
Room == started + foreign + faults < MaxTrouble
MayFail == faults < MaxFaults /\ Room
Fault == MayFail /\ faults' = faults + 1

Init ==
    /\ container = 1 /\ running = TRUE /\ made = {} /\ lastId = 1
    /\ gone = 0 /\ foreign = 0
    /\ journal = NoJournal
    /\ alive = TRUE
    /\ seen = {} /\ observed = 0 /\ recreating = FALSE /\ result = NoReport
    /\ invalidated = FALSE
    /\ worker = Idle
    /\ scan = [s \in Scanners |-> NoScan]
    /\ session = FALSE /\ toController = <<>> /\ toAgent = <<>> /\ stored = "none"
    /\ started = 0 /\ unwritten = FALSE /\ told = 0 /\ mistaken = 0 /\ faults = 0

-------------------------------------------------------------------------------
(***************************************************************************)
(* Reports.  A memo is the last result and the reports sent since.         *)
(***************************************************************************)

\* reportLocked and sameResult
ReportLocked(memo, r) ==
    IF memo.result.outcome = r.outcome THEN memo
    ELSE [result |-> r, out |-> Append(memo.out, r)]

Memo == [result |-> result, out |-> <<>>]
Forget(memo) == [memo EXCEPT !.result = NoReport]

\* The reports of a memo are queued on the session, if there is one.
Send(memo) ==
    /\ result' = memo.result
    /\ IF session
         THEN /\ toController' = toController \o memo.out
              /\ Len(toController') <= MaxQueue
         ELSE UNCHANGED toController
    /\ UNCHANGED <<session, toAgent, stored>>

-------------------------------------------------------------------------------
(***************************************************************************)
(* The recreate.                                                           *)
(***************************************************************************)

\* requestRecreate and startRecreate: for a container the agent knows of,
\* unless one is being recreated.
StartRecreate ==
    /\ alive /\ session
    /\ started < MaxRecreates /\ Room
    /\ seen # {}
    /\ ~recreating
    /\ started' = started + 1
    /\ recreating' = TRUE
    /\ Send(ReportLocked(Memo, Report("recreating", started + 1)))
    /\ \E id \in seen : worker' = [Idle EXCEPT !.at = "inspect", !.id = id]
    /\ UNCHANGED <<engineVars, seen, observed, invalidated, journal, alive, scan, unwritten,
                   told, mistaken, faults>>

Step(at) == worker' = [worker EXCEPT !.at = at]
Fail(reason) == worker' = [worker EXCEPT !.at = "fail", !.reason = reason]
WorkerOnly == UNCHANGED <<memVars, netVars, alive, scan, started>>

\* performRecreate: the container is inspected.
Inspect ==
    /\ worker.at = "inspect"
    /\ \/ /\ container = worker.id
          /\ worker' = [worker EXCEPT !.at = "journal", !.up = running]
          /\ UNCHANGED faults
       \/ /\ container # worker.id \/ MayFail
          /\ Fail("engine-error")
          /\ faults' = IF container # worker.id THEN faults ELSE faults + 1
    /\ WorkerOnly /\ UNCHANGED <<unwritten, told, mistaken, engineVars, journal>>

\* Mutant: the container is stopped although no journal was written.
FaultyWriteJournal ==
    /\ worker.at = "journal"
    /\ Step("stop")
    /\ WorkerOnly /\ UNCHANGED <<unwritten, told, mistaken, engineVars, journal, faults>>

\* performRecreate: the journal is written before anything is changed.
WriteJournal ==
    /\ worker.at = "journal"
    /\ \/ journal' = Report("open", started) /\ Step("stop") /\ UNCHANGED faults
       \/ Fault /\ Fail("engine-error") /\ UNCHANGED journal
    /\ WorkerOnly /\ UNCHANGED <<unwritten, told, mistaken, engineVars>>

\* performRecreate: Stop, which may take effect and still report an error.
Stop ==
    /\ worker.at = "stop"
    /\ \/ /\ container = worker.id
          /\ running' = FALSE
          /\ \/ Step("remove") /\ UNCHANGED faults
             \/ Fault /\ Fail("engine-error")
       \/ /\ IF container = worker.id THEN Fault ELSE UNCHANGED faults
          /\ Fail("engine-error")
          /\ UNCHANGED running
    /\ WorkerOnly /\ UNCHANGED <<unwritten, told, mistaken, container, made, lastId, gone,
                                 foreign, journal>>

\* performRecreate: Remove; when it reports an error the original container
\* is started again.
Remove ==
    /\ worker.at = "remove"
    /\ \/ /\ container = worker.id
          /\ container' = 0 /\ running' = FALSE /\ gone' = started
          /\ \/ Step("create") /\ UNCHANGED faults
             \/ Fault /\ Step("undo")
       \/ /\ IF container = worker.id THEN Fault ELSE UNCHANGED faults
          /\ Step("undo")
          /\ UNCHANGED <<container, running, gone>>
    /\ WorkerOnly /\ UNCHANGED <<unwritten, told, mistaken, made, lastId, foreign, journal>>

\* performRecreate: the start of the original after a failed removal, whose
\* own error is ignored.
Undo ==
    /\ worker.at = "undo"
    /\ Fail("engine-error")
    /\ \/ /\ worker.up /\ container = worker.id
          /\ running' = TRUE
          /\ UNCHANGED faults
       \/ /\ ~worker.up \/ container # worker.id
          /\ UNCHANGED <<running, faults>>
       \/ /\ worker.up /\ Fault
          /\ UNCHANGED running
    /\ WorkerOnly /\ UNCHANGED <<unwritten, told, mistaken, container, made, lastId, gone,
                                 foreign, journal>>

\* createAndStart: Create, refused when the name is taken, retried once.
CreateFailed ==
    IF worker.retried THEN Fail("create-failed")
    ELSE worker' = [worker EXCEPT !.retried = TRUE]

Create ==
    /\ worker.at = "create"
    /\ \/ /\ container = 0 /\ lastId < MaxId
          /\ container' = lastId + 1 /\ lastId' = lastId + 1
          /\ made' = made \cup {lastId + 1}
          /\ gone' = 0
          /\ \/ /\ worker' = [worker EXCEPT !.at = IF worker.up THEN "start" ELSE "done",
                                            !.new = lastId + 1]
                /\ UNCHANGED faults
             \/ Fault /\ CreateFailed
       \/ /\ IF container = 0 THEN Fault ELSE UNCHANGED faults
          /\ CreateFailed
          /\ UNCHANGED <<container, lastId, made, gone>>
    /\ WorkerOnly /\ UNCHANGED <<unwritten, told, mistaken, running, foreign, journal>>

\* createAndStart: Start of a container that was running.
StartNew ==
    /\ worker.at = "start"
    /\ \/ /\ container = worker.new
          /\ running' = TRUE
          /\ \/ Step("done") /\ UNCHANGED faults
             \/ Fault /\ Fail("start-failed")
       \/ /\ IF container = worker.new THEN Fault ELSE UNCHANGED faults
          /\ Fail("start-failed")
          /\ UNCHANGED running
    /\ WorkerOnly /\ UNCHANGED <<unwritten, told, mistaken, container, made, lastId, gone,
                                 foreign, journal>>

\* recreate: the journal records a failure, or is removed after a success.
SettleJournal ==
    /\ worker.at \in {"fail", "done"}
    /\ \/ /\ journal' = IF worker.at = "fail" THEN Report(worker.reason, started) ELSE NoJournal
          /\ UNCHANGED <<unwritten, faults>>
       \/ /\ Fault
          /\ unwritten' = TRUE
          /\ UNCHANGED journal
    /\ Step("finish")
    /\ WorkerOnly /\ UNCHANGED <<engineVars, told, mistaken>>

\* recreate: under agent.mu, the replacement takes the place of the original
\* and the result is reported.
Finish ==
    /\ worker.at = "finish"
    /\ LET failed == worker.reason # "none"
       IN  /\ observed' = IF ~failed /\ observed # 0 THEN worker.new ELSE observed
           /\ Send(ReportLocked(Memo, Report(IF failed THEN worker.reason ELSE "recreated", started)))
    /\ recreating' = FALSE
    /\ worker' = Idle
    /\ UNCHANGED <<engineVars, seen, invalidated, journal, alive, scan, started, unwritten,
                   told, mistaken, faults>>

-------------------------------------------------------------------------------
(***************************************************************************)
(* Reconciliation.  The engine is asked first, without agent.mu, and what  *)
(* it said is applied later.                                               *)
(***************************************************************************)

\* fullReconcile: the containers are listed and inspected; an inspection may
\* fail for a container that is listed.
List(s) ==
    /\ alive /\ scan[s].at = "none"
    /\ \/ /\ scan' = [scan EXCEPT ![s] = [at |-> "all", id |-> container, inspected |-> TRUE]]
          /\ UNCHANGED faults
       \/ /\ container # 0 /\ Fault
          /\ scan' = [scan EXCEPT ![s] = [at |-> "all", id |-> container, inspected |-> FALSE]]
    /\ UNCHANGED <<engineVars, memVars, netVars, journal, alive, worker, started, unwritten,
                   told, mistaken>>

\* reconcileContainer: an engine event names one container, which is
\* inspected; a failure other than its absence ends it.
InspectOne(s) ==
    /\ alive /\ scan[s].at = "none"
    /\ \E id \in 1 .. lastId :
         scan' = [scan EXCEPT ![s] = [at |-> "one", id |-> id, inspected |-> container = id]]
    /\ UNCHANGED <<engineVars, memVars, netVars, journal, alive, worker, started, unwritten,
                   told, mistaken, faults>>

\* The containers known after a scan: a listed container that could not be
\* inspected is kept if it was known.
SeenAfter(sc) ==
    CASE sc.at = "one" -> IF sc.inspected THEN seen \cup {sc.id} ELSE seen \ {sc.id}
      [] sc.at = "all" -> IF sc.inspected THEN {sc.id} \ {0} ELSE seen \cap {sc.id}

Complete(sc) == sc.at = "all" /\ (sc.inspected \/ sc.id \in seen)

\* reportInterruptedRecreatesLocked, on the journal and on the reports.
Interrupted(sc) == Complete(sc) /\ ~recreating /\ journal # NoJournal
Settled(now) == journal.outcome = "open" /\ now # {}
JournalAfter(now) ==
    CASE Settled(now) -> NoJournal
      [] journal.outcome = "open" /\ now = {} -> Report("create-failed", journal.n)
      [] OTHER -> journal

\* Mutant: the last result is not cleared, so the report is not sent again.
FaultyInterruptedMemo(sc, now) ==
    IF Interrupted(sc) /\ ~Settled(now) THEN ReportLocked(Memo, JournalAfter(now)) ELSE Memo

\* Clearing the last result makes ReportLocked send it again.
InterruptedMemo(sc, now) ==
    IF Interrupted(sc) /\ ~Settled(now)
    THEN ReportLocked(Forget(Memo), JournalAfter(now))
    ELSE Memo

\* observeBindingsLocked: the token is invalidated when the container is gone
\* or another took its place, unless a recreate holds it.
Displaced(now, identity) ==
    observed # 0 /\ ~recreating /\ (now = {} \/ observed # identity)

\* checkLocked: a failed recreate stays reported over a non-conformance.
Checked(memo, now) ==
    LET outcome == IF now \subseteq made THEN "conforming" ELSE "non-conforming"
    IN  IF \/ now = {} \/ recreating
           \/ memo.result.outcome \in Failures /\ outcome = "non-conforming"
        THEN memo
        ELSE ReportLocked(memo, Report(outcome, 0))

\* fullReconcile and reconcileContainer under agent.mu.
Apply(s) ==
    /\ scan[s].at # "none"
    /\ scan' = [scan EXCEPT ![s] = NoScan]
    /\ LET sc  == scan[s]
           now == SeenAfter(sc)
       IN  \E identity \in IF now = {} THEN {0} ELSE now :
             LET memo  == InterruptedMemo(sc, now)
                 memo2 == IF Displaced(now, identity) THEN Forget(memo) ELSE memo
             IN  /\ seen' = now
                 /\ \/ /\ journal' = IF Interrupted(sc) THEN JournalAfter(now) ELSE journal
                       /\ UNCHANGED <<unwritten, faults>>
                    \/ /\ Interrupted(sc) /\ JournalAfter(now) # journal /\ Fault
                       /\ unwritten' = TRUE
                       /\ UNCHANGED journal
                 /\ observed' = IF now = {} /\ recreating THEN observed ELSE identity
                 /\ invalidated' = (invalidated \/ Displaced(now, identity))
                 /\ Send(Checked(memo2, now))
    /\ UNCHANGED <<engineVars, recreating, alive, worker, started, told, mistaken>>

-------------------------------------------------------------------------------
(***************************************************************************)
(* The session with the controller.                                        *)
(***************************************************************************)

\* connectOnce sends the last results.
Connect ==
    /\ alive /\ ~session
    /\ session' = TRUE
    /\ toController' = IF result = NoReport THEN <<>> ELSE <<result>>
    /\ UNCHANGED <<engineVars, memVars, toAgent, stored, journal, alive, worker, scan, started,
                   unwritten, told, mistaken, faults>>

Drop ==
    /\ session /\ Fault
    /\ session' = FALSE
    /\ toController' = <<>> /\ toAgent' = <<>>
    /\ UNCHANGED <<engineVars, memVars, stored, journal, alive, worker, scan, started,
                   unwritten, told, mistaken>>

\* The controller's handle of a contract result: stored, then acknowledged.
\* Acknowledgements of outcomes other than a failure are ignored by the agent.
HandleResult ==
    /\ toController # <<>> /\ Len(toAgent) < MaxQueue
    /\ toController' = Tail(toController)
    /\ LET r == Head(toController)
       IN  \/ /\ stored' = r.outcome
              /\ told' = IF r.outcome \in Failures /\ r.n > told THEN r.n ELSE told
              /\ toAgent' = IF r.outcome \in Failures THEN Append(toAgent, r) ELSE toAgent
              /\ UNCHANGED faults
           \/ Fault /\ UNCHANGED <<stored, told, toAgent>>
    /\ UNCHANGED <<engineVars, memVars, session, journal, alive, worker, scan, started, unwritten,
                   mistaken>>

\* resultRecorded removes the journal with the acknowledged outcome.  Neither
\* says which recreate it is of, so a late acknowledgement removes the journal
\* of a later recreate that failed alike.
ResultRecorded ==
    /\ toAgent # <<>>
    /\ toAgent' = Tail(toAgent)
    /\ LET ack == Head(toAgent)
       IN  IF journal.outcome = ack.outcome
           THEN \/ /\ journal' = NoJournal
                   /\ mistaken' = IF ack.n # journal.n /\ journal.n > mistaken
                                   THEN journal.n ELSE mistaken
                   /\ UNCHANGED <<unwritten, faults>>
                \/ Fault /\ unwritten' = TRUE /\ UNCHANGED <<journal, mistaken>>
           ELSE UNCHANGED <<journal, mistaken, unwritten, faults>>
    /\ UNCHANGED <<engineVars, memVars, session, toController, stored, alive, worker, scan,
                   started, told>>

-------------------------------------------------------------------------------
(***************************************************************************)
(* The agent process ends and starts, and others use the engine.           *)
(***************************************************************************)
Exit ==
    /\ alive /\ Fault
    /\ alive' = FALSE
    /\ seen' = {} /\ observed' = 0 /\ recreating' = FALSE /\ result' = NoReport
    /\ worker' = Idle
    /\ scan' = [s \in Scanners |-> NoScan]
    /\ session' = FALSE /\ toController' = <<>> /\ toAgent' = <<>>
    /\ UNCHANGED <<engineVars, invalidated, stored, journal, started, unwritten, told, mistaken>>

Start ==
    /\ ~alive
    /\ alive' = TRUE
    /\ UNCHANGED <<engineVars, memVars, netVars, journal, worker, scan, started, unwritten,
                   told, mistaken, faults>>

ForeignRemove ==
    /\ foreign < MaxForeign /\ Room /\ container # 0
    /\ foreign' = foreign + 1
    /\ container' = 0 /\ running' = FALSE
    /\ UNCHANGED <<made, lastId, gone, memVars, netVars, journal, alive, worker, scan, started,
                   unwritten, told, mistaken, faults>>

ForeignCreate ==
    /\ foreign < MaxForeign /\ Room /\ container = 0 /\ lastId < MaxId
    /\ foreign' = foreign + 1
    /\ container' = lastId + 1 /\ lastId' = lastId + 1 /\ running' = TRUE
    /\ gone' = 0
    /\ UNCHANGED <<made, memVars, netVars, journal, alive, worker, scan, started,
                   unwritten, told, mistaken, faults>>

Next ==
    \/ StartRecreate \/ Inspect \/ WriteJournal \/ Stop \/ Remove \/ Undo \/ Create \/ StartNew
    \/ SettleJournal \/ Finish
    \/ \E s \in Scanners : List(s) \/ InspectOne(s) \/ Apply(s)
    \/ Connect \/ Drop \/ HandleResult \/ ResultRecorded
    \/ Exit \/ Start \/ ForeignRemove \/ ForeignCreate

Spec == Init /\ [][Next]_vars

(***************************************************************************)
(* Liveness: the worker runs on, the agent reconnects for ever and is      *)
(* restarted by its service manager, and both ends read what arrives.  The *)
(* loop of Run chooses at random between the ticker and engine events, so  *)
(* that events cannot keep the ticker's full reconciliation away for ever. *)
(***************************************************************************)
Work == Inspect \/ WriteJournal \/ Stop \/ Remove \/ Undo \/ Create \/ StartNew
        \/ SettleJournal \/ Finish

FairSpec ==
    /\ Spec
    /\ WF_vars(Work)
    /\ \A s \in Scanners : SF_vars(List(s)) /\ WF_vars(Apply(s))
    /\ WF_vars(Connect) /\ WF_vars(HandleResult) /\ WF_vars(ResultRecorded) /\ WF_vars(Start)

-------------------------------------------------------------------------------
(***************************************************************************)
(* Properties.                                                             *)
(***************************************************************************)
Reports == [outcome : Outcomes, n : 0 .. MaxRecreates]

\* Every variable has its type, and only a worker holds the recreating mark.
TypeOK ==
    /\ container \in 0 .. lastId /\ running \in BOOLEAN /\ made \subseteq 1 .. lastId
    /\ lastId \in 0 .. MaxId
    /\ journal \in [outcome : Failures \cup {"none", "open"}, n : 0 .. MaxRecreates]
    /\ alive \in BOOLEAN
    /\ seen \subseteq 1 .. lastId /\ observed \in 0 .. lastId
    /\ recreating = (worker.at # "idle")
    /\ result \in Reports
    /\ worker.at \in {"idle", "inspect", "journal", "stop", "remove", "undo", "create", "start",
                      "fail", "done", "finish"}
    /\ session \in BOOLEAN /\ toController \in Seq(Reports) /\ toAgent \in Seq(Reports)
    /\ stored \in Outcomes
    /\ started \in 0 .. MaxRecreates /\ foreign \in 0 .. MaxForeign /\ faults \in 0 .. MaxFaults
    /\ {gone, told, mistaken} \subseteq 0 .. started
    /\ {invalidated, unwritten} \subseteq BOOLEAN

Reported(n) == journal # NoJournal \/ told >= n

\* "The container is never left absent silently" (recreate.go:111) and "the
\* report survives restarts and controller storage failures" (recreate.go:31):
\* once no recreate is in progress, a container that the agent removed and that
\* nobody created again has a journal on disk, which the next process reports,
\* or the controller stored that failure, or the running agent still has it in
\* memory; unless the agent could not write the journal.  resultRecorded breaks
\* it with the second recreate that fails.
AbsentIsReported ==
    gone # 0 /\ ~recreating /\ ~unwritten => Reported(gone) \/ result.outcome \in Failures

\* What the code keeps of it, for any number of recreates: no removed container
\* is forgotten but one whose own journal, or a later one, was taken for that of
\* an earlier recreate; and everything stays within its type (recreate,
\* reportInterruptedRecreatesLocked, resultRecorded).
ReportsKept == TypeOK /\ (AbsentIsReported \/ gone <= mistaken)

\* Liveness: the failure of a recreate that left no container reaches the
\* controller, through exits, drops and failed saves, or somebody creates the
\* container again, or its journal was taken for another's
\* (reportInterruptedRecreatesLocked resends every interval).
FailureArrives ==
    gone # 0 /\ ~recreating ~> gone = 0 \/ told >= gone \/ unwritten \/ mistaken >= gone
===============================================================================

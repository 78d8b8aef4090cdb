------------------------------ MODULE EventStore ------------------------------
(***************************************************************************)
(* The durable operational event history (internal/events/store.go,        *)
(* format.go and filesystem.go): one file of checksummed frames, appended  *)
(* to and synced for every event, and replaced through a temporary file    *)
(* and a rename when it outgrows its retention.                            *)
(*                                                                         *)
(* The daemon may be killed at any step, which keeps what the kernel has,  *)
(* and the power may fail at any step, which keeps what was synced and any *)
(* prefix of what was not.  A rename is certain to survive a power failure *)
(* once the directory is synced.  One action models one call that can      *)
(* fail or be the last.                                                    *)
(***************************************************************************)
EXTENDS Naturals, Sequences, Functions

CONSTANTS
    Retention,         \* number of events the history keeps
    MaxEvents,         \* bound: events offered to Append
    MaxFaults,         \* bound: failed calls, kills and power failures
    SyncCoversName     \* does syncing a file also make its name durable

ASSUME EventStoreAssumption ==
    /\ Retention \in Nat \ {0}
    /\ MaxEvents \in Nat
    /\ MaxFaults \in Nat
    /\ SyncCoversName \in BOOLEAN

VARIABLES
    file,     \* the file the path names: what the kernel has and what is synced
    former,   \* files whose name was replaced, by renames not certain to last
    stale,    \* a replacement file lies in the directory
    temp,     \* the replacement being written
    events,   \* store.events
    step,     \* where the daemon is in Open, Append or Close
    opening,  \* the step belongs to Open, not to Append
    next,     \* number of the next event
    acked,    \* events whose Append returned without an error
    faults

vars == <<file, former, stale, temp, events, step, opening, next, acked, faults>>

(***************************************************************************)
(* Files.  A content is the file header and the frames after it, each an   *)
(* event or Damaged: a frame cut short or with a wrong checksum.           *)
(***************************************************************************)
Damaged == 0
Heads == {"absent", "empty", "torn", "whole"}
Content(h, fs) == [head |-> h, frames |-> fs]
Absent == Content("absent", <<>>)
Empty  == Content("empty", <<>>)
File(cache, disk) == [cache |-> cache, disk |-> disk]

\* What a power failure can leave of a file: what was synced, or any prefix
\* of what was written since, cut inside the header or inside a frame too.
Survivors(f) ==
    {f.disk, f.cache} \cup
    {Content("torn", <<>>) : h \in {f.disk.head} \ {"whole", "absent"}} \cup
    UNION {LET whole == SubSeq(f.cache.frames, 1, n)
           IN  {Content(f.cache.head, whole), Content(f.cache.head, Append(whole, Damaged))}
           : n \in Len(f.disk.frames) .. Len(f.cache.frames) - 1}

\* loadFrames: only the final frame may be damaged, and an incomplete header
\* is not recovered.
Interrupted(c) == c.frames # <<>> /\ c.frames[Len(c.frames)] = Damaged
Events(c) == IF Interrupted(c) THEN SubSeq(c.frames, 1, Len(c.frames) - 1) ELSE c.frames
Readable(c) ==
    /\ c.head # "torn"
    /\ \A i \in 1 .. Len(c.frames) - 1 : c.frames[i] # Damaged

\* The newest Retention events, as initialize and Append keep them.
Newest(s) ==
    IF Len(s) <= Retention THEN s
    ELSE SubSeq(s, Len(s) - Retention + 1, Len(s))

\* The effects of File.Sync on a file and on the names that may come back.
Synced(f) == [f EXCEPT !.disk = f.cache]
NamesAfterSync == IF SyncCoversName THEN <<>> ELSE former

-------------------------------------------------------------------------------
Init ==
    /\ file = File(Absent, Absent)
    /\ former = <<>>
    /\ stale = FALSE
    /\ temp = File(Empty, Empty)
    /\ events = <<>>
    /\ step = "down"
    /\ opening = FALSE
    /\ next = 1
    /\ acked = {}
    /\ faults = 0

Fault == faults < MaxFaults /\ faults' = faults + 1

\* The earlier files whose name is not yet durable, after the directory was
\* cleaned of stale replacements: it is synced if there was one.
CleanupStaleReplacements == IF stale THEN <<>> ELSE former

\* openWithRemove: the directory is cleaned, and the file is opened, created
\* when absent.  A failure leaves the store unopened.
Open ==
    /\ step = "down"
    /\ events' = <<>>
    /\ opening' = TRUE
    /\ \/ /\ stale' = FALSE
          /\ IF file.cache.head = "absent"
             THEN /\ file' = File(Empty, Empty)
                  /\ former' = Append(CleanupStaleReplacements, file)
             ELSE file' = file /\ former' = CleanupStaleReplacements
          /\ \/ step' = "load" /\ UNCHANGED faults
             \/ Fault /\ UNCHANGED step
       \/ /\ Fault
          /\ stale' \in {FALSE, stale}
          /\ former' \in {former, CleanupStaleReplacements}
          /\ UNCHANGED <<file, step>>
    /\ UNCHANGED <<temp, next, acked>>

\* initialize, up to its first write: an empty file gets its header, an
\* interrupted final frame is cut off, a corrupt file is refused.
Load ==
    /\ step = "load"
    /\ \/ /\ ~Readable(file.cache)
          /\ step' = "down"
          /\ UNCHANGED <<file, faults>>
       \/ /\ file.cache.head = "empty"
          /\ \/ /\ file' = [file EXCEPT !.cache = Content("whole", <<>>)]
                /\ step' = "header"
                /\ UNCHANGED faults
             \/ /\ Fault
                /\ \E h \in {"empty", "torn"} :
                     file' = [file EXCEPT !.cache = Content(h, <<>>)]
                /\ step' = "down"
       \/ /\ Readable(file.cache) /\ Interrupted(file.cache)
          /\ \/ /\ file' = [file EXCEPT !.cache.frames = Events(file.cache)]
                /\ step' = "truncated"
                /\ UNCHANGED faults
             \/ Fault /\ step' = "down" /\ UNCHANGED file
       \/ /\ file.cache.head = "whole"
          /\ Readable(file.cache) /\ ~Interrupted(file.cache)
          /\ step' = "loaded"
          /\ UNCHANGED <<file, faults>>
    /\ UNCHANGED <<former, stale, temp, events, opening, next, acked>>

\* syncFileAndDirectory after the header, or the sync after a truncation.
SyncRecovered ==
    /\ step \in {"header", "truncated"}
    /\ \/ /\ file' = Synced(file)
          /\ former' = IF step = "header" THEN <<>> ELSE NamesAfterSync
          /\ step' = "loaded"
          /\ UNCHANGED faults
       \/ /\ Fault
          /\ \/ file' = file /\ former' = former
             \/ step = "header" /\ file' = Synced(file) /\ former' = NamesAfterSync
          /\ step' = "down"
    /\ UNCHANGED <<stale, temp, events, opening, next, acked>>

\* Mutant: the memory is cut to the retention but the file is not.
FaultyLoaded ==
    /\ step = "loaded"
    /\ events' = Newest(Events(file.cache))
    /\ step' = "idle"
    /\ UNCHANGED <<file, former, stale, temp, opening, next, acked, faults>>

\* The end of initialize: the events are kept in memory, the newest ones only
\* and by a replacement of the file when there are too many.
Loaded ==
    /\ step = "loaded"
    /\ events' = Newest(Events(file.cache))
    /\ step' = IF Len(Events(file.cache)) > Retention THEN "replace" ELSE "idle"
    /\ UNCHANGED <<file, former, stale, temp, opening, next, acked, faults>>

\* closeAfterWriteFailure in Append; in Open the files are closed and the
\* store is not returned.
Failed == IF opening THEN "down" ELSE "closed"

\* Append up to its write.  A failed write leaves part of the frame or none
\* and closes the store.
AppendWrite ==
    /\ step = "idle"
    /\ next <= MaxEvents
    /\ next' = next + 1
    /\ opening' = FALSE
    /\ \/ /\ file' = [file EXCEPT !.cache.frames = Append(@, next)]
          /\ step' = "written"
          /\ UNCHANGED faults
       \/ /\ Fault
          /\ \/ file' = [file EXCEPT !.cache.frames = Append(@, Damaged)]
             \/ UNCHANGED file
          /\ step' = "closed"
    /\ UNCHANGED <<former, stale, temp, events, acked>>

\* Append from its sync on: the event is added in memory and acknowledged,
\* unless the history is full and must be replaced first.
AppendSync ==
    /\ step = "written"
    /\ \/ /\ file' = Synced(file)
          /\ former' = NamesAfterSync
          /\ events' = Newest(Append(events, next - 1))
          /\ IF Len(events) < Retention
               THEN step' = "idle" /\ acked' = acked \cup {next - 1}
               ELSE step' = "replace" /\ UNCHANGED acked
          /\ UNCHANGED faults
       \/ /\ Fault
          /\ step' = "closed"
          /\ UNCHANGED <<file, former, events, acked>>
    /\ UNCHANGED <<stale, temp, opening, next>>

\* A call of replace fails; the replacement is removed, as far as it can be.
ReplaceFails ==
    /\ Fault
    /\ stale' \in {FALSE, stale}
    /\ step' = Failed
    /\ UNCHANGED <<file, former>>

\* replace: the replacement is created and written.
WriteReplacement ==
    /\ step = "replace"
    /\ \/ /\ temp' = File(Content("whole", events), Empty)
          /\ stale' = TRUE
          /\ step' = "replacement"
          /\ UNCHANGED faults
       \/ /\ Fault
          /\ stale' \in BOOLEAN
          /\ step' = Failed
          /\ UNCHANGED temp
    /\ UNCHANGED <<file, former, events, opening, next, acked>>

\* Mutant: the replacement is renamed without having been synced.
FaultySyncReplacement ==
    /\ step = "replacement"
    /\ step' = "publish"
    /\ UNCHANGED <<file, former, stale, temp, events, opening, next, acked, faults>>

\* replace: the replacement is synced and closed, so that a power failure
\* leaves all of it.
SyncReplacement ==
    /\ step = "replacement"
    /\ \/ /\ temp' = Synced(temp)
          /\ step' = "publish"
          /\ UNCHANGED <<file, former, stale, faults>>
       \/ ReplaceFails /\ UNCHANGED temp
    /\ UNCHANGED <<events, opening, next, acked>>

\* Mutant: the old file is removed before the rename.
FaultyPublish ==
    /\ step = "publish"
    /\ former' = Append(former, file)
    /\ \/ /\ file' = temp
          /\ stale' = FALSE
          /\ step' = "published"
          /\ UNCHANGED faults
       \/ /\ Fault
          /\ file' = File(Absent, Absent)
          /\ step' = Failed
          /\ UNCHANGED stale
    /\ UNCHANGED <<temp, events, opening, next, acked>>

\* replace: the rename publishes the replacement, which is opened in place of
\* the old file.  When it cannot be opened the rename has still happened.
Publish ==
    /\ step = "publish"
    /\ \/ /\ file' = temp
          /\ former' = Append(former, file)
          /\ stale' = FALSE
          /\ \/ step' = "published" /\ UNCHANGED faults
             \/ Fault /\ step' = Failed
       \/ ReplaceFails
    /\ UNCHANGED <<temp, events, opening, next, acked>>

\* replace: the directory is synced, and Append or Open returns.
SyncDirectory ==
    /\ step = "published"
    /\ \/ /\ former' = <<>>
          /\ step' = "idle"
          /\ acked' = IF opening THEN acked ELSE acked \cup {next - 1}
          /\ UNCHANGED faults
       \/ /\ Fault
          /\ step' = Failed
          /\ UNCHANGED <<former, acked>>
    /\ UNCHANGED <<file, stale, temp, events, opening, next>>

\* Close, and the end of the daemon: an open store is synced.
Close ==
    /\ step \in {"idle", "closed"}
    /\ step' = "down"
    /\ IF step = "idle"
         THEN \/ file' = Synced(file) /\ former' = NamesAfterSync /\ UNCHANGED faults
              \/ Fault /\ UNCHANGED <<file, former>>
         ELSE UNCHANGED <<file, former, faults>>
    /\ events' = <<>>
    /\ UNCHANGED <<stale, temp, opening, next, acked>>

-------------------------------------------------------------------------------
(***************************************************************************)
(* Crashes.                                                                *)
(***************************************************************************)
\* The contents a power failure can leave under the path.
PowerLossOutcomes == UNION {Survivors(f) : f \in {file} \cup Range(former)}

Kill ==
    /\ step # "down"
    /\ Fault
    /\ step' = "down"
    /\ events' = <<>>
    /\ UNCHANGED <<file, former, stale, temp, opening, next, acked>>

PowerLoss ==
    /\ Fault
    /\ \E c \in PowerLossOutcomes : file' = File(c, c)
    /\ former' = <<>>
    /\ stale' \in {FALSE, stale}
    /\ step' = "down"
    /\ events' = <<>>
    /\ UNCHANGED <<temp, opening, next, acked>>

Next ==
    \/ Open \/ Load \/ SyncRecovered \/ Loaded
    \/ AppendWrite \/ AppendSync
    \/ WriteReplacement \/ SyncReplacement \/ Publish \/ SyncDirectory
    \/ Close \/ Kill \/ PowerLoss

Spec == Init /\ [][Next]_vars

-------------------------------------------------------------------------------
(***************************************************************************)
(* Properties.                                                             *)
(***************************************************************************)
Contents == [head : Heads, frames : Seq(0 .. MaxEvents)]
Files == [cache : Contents, disk : Contents]

\* Every variable has its type, and what is acknowledged was offered.
TypeOK ==
    /\ file \in Files
    /\ former \in Seq(Files)
    /\ stale \in BOOLEAN
    /\ temp \in Files
    /\ events \in Seq(1 .. MaxEvents)
    /\ step \in {"down", "load", "header", "truncated", "loaded", "idle", "written",
                  "replace", "replacement", "publish", "published", "closed"}
    /\ opening \in BOOLEAN
    /\ next \in 1 .. MaxEvents + 1
    /\ acked \subseteq 1 .. next - 1
    /\ faults \in 0 .. MaxFaults

\* Append "durably records one validated event before returning"
\* (store.go:119): whatever the daemon or the power does now, the next Open
\* can read the file and finds every acknowledged event in it, except those
\* that Retention newer events have pushed out.
AckedSurvive ==
    acked # {} =>
      \A c \in PowerLossOutcomes \cup {file.cache} :
        /\ Readable(c)
        /\ \A e \in acked :
             \/ e \in Range(Events(c))
             \/ Len(Events(c)) >= Retention /\ e < Events(c)[1]

\* Between calls the memory that answers Recent and BindingHealth is the file:
\* the same events in the same order, none damaged, no more than Retention,
\* after any recovery, replacement or restart.
MemoryMatchesFile ==
    step = "idle" =>
        file.cache = Content("whole", events) /\ Len(events) <= Retention

\* Between any two calls the store is consistent, each part within its type
\* (Open, Append, replace, reopen after a failure).
StoreConsistent == TypeOK /\ MemoryMatchesFile

(***************************************************************************)
(* The store implements the abstract log: what it keeps is what was synced *)
(* under the name that is certain to last.                                 *)
(***************************************************************************)
Certain == (IF former = <<>> THEN file ELSE former[1]).disk

Log == INSTANCE EventLog WITH kept <- Newest(Events(Certain))

\* Events are taken into the history in order, leave it only as the oldest
\* of more than Retention, and never come back: no failed call, kill or power
\* failure does anything else to it (Append, replace and initialize).
ImplementsLog == Log!Spec
===============================================================================

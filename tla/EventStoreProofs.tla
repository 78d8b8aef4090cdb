--------------------------- MODULE EventStoreProofs ---------------------------
(***************************************************************************)
(* Proofs about EventStore, for any retention and any number of events,    *)
(* failed calls, kills and power failures: the memory is the file between  *)
(* calls, what was acknowledged survives, and the store implements         *)
(* EventLog.                                                               *)
(*                                                                         *)
(* None of it is inductive by itself.  What is, EventsInv, says what every *)
(* file that a power failure can bring back holds: events in write order   *)
(* with at most a damaged last frame, on the disk a prefix of what the     *)
(* kernel has; where the daemon is in Append or in a replacement, and what *)
(* the file, the replacement and the memory are there; and that each of    *)
(* those files is a later history than the one certain to last.            *)
(***************************************************************************)
EXTENDS EventStore, SequenceTheorems, TLAPS

(***************************************************************************)
(* Histories: sequences of events in write order.                          *)
(***************************************************************************)
Rising(s) == \A i, j \in 1 .. Len(s) : i < j => s[i] < s[j]

HistoriesTo(n) == {s \in Seq(1 .. n - 1) : Rising(s)}

(* t has lost the d oldest events of s, and gained newer ones at its end.  *)
Shifted(s, t, d) ==
    /\ Len(s) - d <= Len(t)
    /\ \A i \in 1 .. Len(s) - d : t[i] = s[i + d]
    /\ d > 0 => Len(t) >= Retention
    /\ \A i \in 1 .. Len(s), j \in Len(s) - d + 1 .. Len(t) : s[i] < t[j]

(* History t can come after s.                                             *)
Follows(s, t) == \E d \in 0 .. Len(s) : Shifted(s, t, d)

(* s has every event of A that retention has not pushed out.               *)
Holds(s, A) ==
    \A e \in A : e \in Range(s) \/ (Len(s) >= Retention /\ e < s[1])

Prefix(s, t) == Len(s) <= Len(t) /\ \A i \in 1 .. Len(s) : s[i] = t[i]

(***************************************************************************)
(* Files.                                                                  *)
(***************************************************************************)
WellFormed(c, n) ==
    /\ c \in Contents
    /\ \A i \in 1 .. Len(c.frames) - 1 : c.frames[i] # Damaged
    /\ Events(c) \in HistoriesTo(n)
    /\ c.head # "whole" => c.frames = <<>>

FileOK(f, n) ==
    /\ f \in Files
    /\ WellFormed(f.disk, n) /\ WellFormed(f.cache, n)
    /\ f.disk.head = "whole" => f.cache.head = "whole"
    /\ Prefix(Events(f.disk), Events(f.cache))

FilesOK ==
    /\ FileOK(file, next) /\ FileOK(temp, next)
    /\ former \in Seq(Files) /\ \A i \in 1 .. Len(former) : FileOK(former[i], next)

(***************************************************************************)
(* The daemon.                                                             *)
(***************************************************************************)
Steps == {"down", "load", "header", "truncated", "loaded", "idle", "written",
          "replace", "replacement", "publish", "published", "closed"}

Replacing == {"replace", "replacement", "publish", "published"}

Counters ==
    /\ stale \in BOOLEAN /\ opening \in BOOLEAN /\ step \in Steps
    /\ next \in 1 .. MaxEvents + 1 /\ acked \subseteq 1 .. next - 1
    /\ faults \in 0 .. MaxFaults

Memory ==
    /\ events \in HistoriesTo(next) /\ Len(events) <= Retention
    /\ step \in Steps \ {"down", "load", "closed"} =>
          file.cache.head = "whole" /\ ~ Interrupted(file.cache)
    /\ step \in {"load", "header", "truncated", "loaded"} => opening
    /\ step = "idle" => file.cache.frames = events
    /\ step = "written" =>
          /\ file.cache.frames = Append(events, next - 1) /\ next - 1 \in 1 .. MaxEvents
          /\ ~ opening
    /\ step \in {"replace", "replacement", "publish"} => events = Newest(file.cache.frames)
    /\ step = "replacement" => temp = File(Content("whole", events), Empty)
    /\ step = "publish" => temp = File(Content("whole", events), Content("whole", events))
    /\ step = "published" => file = File(Content("whole", events), Content("whole", events))
    /\ step \in Replacing /\ ~ opening => events # <<>> /\ events[Len(events)] = next - 1

(* What a power failure can bring back is no older than what is certain.   *)
Later ==
    /\ Follows(Events(Certain), Events(file.disk))
    /\ \A i \in 1 .. Len(former) : Follows(Events(Certain), Events(former[i].disk))

EventsInv == Counters /\ FilesOK /\ Memory /\ Later

(* With something acknowledged, the header of every file is durable.       *)
AckedInv ==
    acked # {} =>
      /\ file.disk.head = "whole"
      /\ \A i \in 1 .. Len(former) : former[i].disk.head = "whole"
      /\ Holds(Events(Certain), acked)

-------------------------------------------------------------------------------
(***************************************************************************)
(* Facts about histories.                                                  *)
(***************************************************************************)
LEMMA Bounds ==
    /\ Retention \in Nat /\ Retention >= 1 /\ MaxEvents \in Nat /\ MaxFaults \in Nat
    /\ SyncCoversName \in BOOLEAN
  BY EventStoreAssumption

LEMMA FollowsRefl ==
    ASSUME NEW s \in Seq(Nat)
    PROVE  Follows(s, s)
<1>1. Shifted(s, s, 0)
  BY Bounds DEF Shifted
<1> QED BY <1>1 DEF Follows

LEMMA FollowsEmpty ==
    ASSUME NEW t \in Seq(Nat)
    PROVE  Follows(<<>>, t)
<1>1. Shifted(<<>>, t, 0)
  BY Bounds DEF Shifted
<1> QED BY <1>1 DEF Follows

LEMMA PrefixFollows ==
    ASSUME NEW s \in Seq(Nat), NEW t \in Seq(Nat), Rising(t), Prefix(s, t)
    PROVE  Follows(s, t)
<1>1. Len(s) \in Nat /\ Len(t) \in Nat /\ Len(s) <= Len(t)
  BY DEF Prefix
<1>2. ASSUME NEW i \in 1 .. Len(s), NEW j \in Len(s) + 1 .. Len(t)
      PROVE  s[i] < t[j]
  <2>1. i \in 1 .. Len(t) /\ j \in 1 .. Len(t) /\ i < j
    BY <1>1
  <2>2. t[i] < t[j]
    BY <2>1 DEF Rising
  <2>3. t[i] = s[i]
    BY DEF Prefix
  <2> QED BY <2>2, <2>3
<1>3. \A i \in 1 .. Len(s) : t[i] = s[i]
  BY DEF Prefix
<1>4. Shifted(s, t, 0)
  BY <1>1, <1>2, <1>3 DEF Shifted
<1> QED BY <1>1, <1>4 DEF Follows

(* A history that lost its d oldest events has only newer ones than those. *)
LEMMA ShiftedAbove ==
    ASSUME NEW s \in Seq(Nat), NEW t \in Seq(Nat), Rising(s),
           NEW d \in 0 .. Len(s), Shifted(s, t, d), t # <<>>,
           NEW i \in 1 .. Len(s)
    PROVE  \E k \in 1 .. Len(t) : s[i] <= t[k]
<1>1. Len(s) \in Nat /\ Len(t) \in Nat /\ Len(t) >= 1 /\ d \in Nat /\ i \in Nat
  OBVIOUS
<1>2. CASE i > d
  <2>1. i - d \in 1 .. Len(s) - d /\ (i - d) + d = i
    BY <1>1, <1>2
  <2>2. t[i - d] = s[i]
    BY <2>1 DEF Shifted
  <2>3. i - d \in 1 .. Len(t) /\ s[i] \in Nat
    BY <1>1, <2>1 DEF Shifted
  <2>4. s[i] <= t[i - d]
    BY <2>2, <2>3
  <2> QED BY <2>3, <2>4
<1>3. CASE i <= d /\ Len(s) - d >= 1
  <2>1. 1 \in 1 .. Len(s) - d /\ 1 \in 1 .. Len(t) /\ 1 + d \in 1 .. Len(s) /\ i < 1 + d
    BY <1>1, <1>3
  <2>2. t[1] = s[1 + d] /\ s[i] < s[1 + d]
    BY <2>1 DEF Shifted, Rising
  <2>3. s[i] \in Nat /\ t[1] \in Nat
    BY <2>1
  <2> QED BY <2>1, <2>2, <2>3
<1>4. CASE i <= d /\ Len(s) - d < 1
  <2>1. 1 \in Len(s) - d + 1 .. Len(t) /\ 1 \in 1 .. Len(t)
    BY <1>1, <1>4
  <2>2. s[i] < t[1] /\ s[i] \in Nat /\ t[1] \in Nat
    BY <2>1 DEF Shifted
  <2> QED BY <2>1, <2>2
<1> QED BY <1>1, <1>2, <1>3, <1>4

LEMMA FollowsTrans ==
    ASSUME NEW s \in Seq(Nat), NEW t \in Seq(Nat), NEW u \in Seq(Nat), Rising(s),
           Follows(s, t), Follows(t, u)
    PROVE  Follows(s, u)
<1>1. PICK a \in 0 .. Len(s) : Shifted(s, t, a)
  BY DEF Follows
<1>2. PICK b \in 0 .. Len(t) : Shifted(t, u, b)
  BY DEF Follows
<1>3. /\ Len(s) \in Nat /\ Len(t) \in Nat /\ Len(u) \in Nat /\ a \in Nat /\ b \in Nat
      /\ a <= Len(s) /\ b <= Len(t)
  OBVIOUS
<1>4. ASSUME NEW i \in 1 .. Len(s), NEW j \in 1 .. Len(u), j + b > Len(s) - a
      PROVE  s[i] < u[j]
  <2>1. s[i] \in Nat /\ u[j] \in Nat
    OBVIOUS
  <2>2. CASE j <= Len(t) - b
    <3>1. j \in 1 .. Len(t) - b /\ j + b \in Len(s) - a + 1 .. Len(t)
      BY <1>3, <1>4, <2>2
    <3>2. u[j] = t[j + b]
      BY <1>2, <3>1 DEF Shifted
    <3>3. s[i] < t[j + b]
      BY <1>1, <3>1 DEF Shifted
    <3> QED BY <3>2, <3>3
  <2>3. CASE j > Len(t) - b /\ t # <<>>
    <3>1. PICK k \in 1 .. Len(t) : s[i] <= t[k]
      BY <1>1, <2>3, ShiftedAbove
    <3>2. j \in Len(t) - b + 1 .. Len(u)
      BY <1>3, <2>3
    <3>3. t[k] < u[j]
      BY <1>2, <3>2 DEF Shifted
    <3>4. t[k] \in Nat
      BY ElementOfSeq
    <3>5. \A x, y, z \in Nat : x <= y /\ y < z => x < z
      OBVIOUS
    <3> QED BY ONLY <2>1, <3>1, <3>3, <3>4, <3>5
  <2>4. CASE t = <<>>
    <3>1. Len(t) = 0 /\ a = 0
      BY <1>1, <1>3, <2>4, Bounds DEF Shifted
    <3>2. Len(s) = 0
      BY <1>1, <1>3, <3>1 DEF Shifted
    <3> QED BY <3>2
  <2> QED BY <1>3, <2>2, <2>3, <2>4
<1>5. CASE b <= Len(s) - a
  <2>1. a + b \in 0 .. Len(s) /\ Len(s) - (a + b) <= Len(u)
    BY <1>1, <1>2, <1>3, <1>5 DEF Shifted
  <2>2. ASSUME NEW i \in 1 .. Len(s) - (a + b)
        PROVE  u[i] = s[i + (a + b)]
    <3>1. i \in 1 .. Len(t) - b /\ i + b \in 1 .. Len(s) - a
      BY <1>1, <1>3, <1>5 DEF Shifted
    <3>2. u[i] = t[i + b]
      BY <1>2, <3>1 DEF Shifted
    <3>3. t[i + b] = s[(i + b) + a]
      BY <1>1, <3>1 DEF Shifted
    <3>4. (i + b) + a = i + (a + b)
      BY <1>3
    <3> QED BY <3>2, <3>3, <3>4
  <2>3. a + b > 0 => Len(u) >= Retention
    <3>1. CASE b > 0
      BY <1>2, <3>1 DEF Shifted
    <3>2. CASE b = 0 /\ a > 0
      <4>1. Len(t) >= Retention
        BY <1>1, <3>2 DEF Shifted
      <4>2. Len(t) <= Len(u)
        BY <1>2, <1>3, <3>2 DEF Shifted
      <4> QED BY <1>3, <4>1, <4>2, Bounds
    <3> QED BY <1>3, <3>1, <3>2
  <2>4. \A i \in 1 .. Len(s), j \in Len(s) - (a + b) + 1 .. Len(u) : s[i] < u[j]
    <3>1. SUFFICES ASSUME NEW i \in 1 .. Len(s), NEW j \in Len(s) - (a + b) + 1 .. Len(u)
                   PROVE  s[i] < u[j]
      OBVIOUS
    <3>2. j \in 1 .. Len(u) /\ j + b > Len(s) - a
      BY <1>3, <2>1
    <3> QED BY <1>4, <3>2
  <2>5. Shifted(s, u, a + b)
    BY <2>1, <2>2, <2>3, <2>4 DEF Shifted
  <2> QED BY <2>1, <2>5 DEF Follows
<1>6. CASE b > Len(s) - a
  <2>1. Len(s) - Len(s) <= Len(u) /\ Len(s) \in 0 .. Len(s)
    BY <1>3
  <2>2. Len(s) > 0 => Len(u) >= Retention
    BY <1>2, <1>3, <1>6 DEF Shifted
  <2>3. \A i \in 1 .. Len(s), j \in Len(s) - Len(s) + 1 .. Len(u) : s[i] < u[j]
    <3>1. SUFFICES ASSUME NEW i \in 1 .. Len(s), NEW j \in Len(s) - Len(s) + 1 .. Len(u)
                   PROVE  s[i] < u[j]
      OBVIOUS
    <3>2. j \in 1 .. Len(u) /\ j + b > Len(s) - a
      BY <1>3, <1>6
    <3> QED BY <1>4, <3>2
  <2>4. \A i \in 1 .. Len(s) - Len(s) : u[i] = s[i + Len(s)]
    BY <1>3
  <2>5. Shifted(s, u, Len(s))
    BY <2>1, <2>2, <2>3, <2>4 DEF Shifted
  <2> QED BY <2>1, <2>5 DEF Follows
<1> QED BY <1>3, <1>5, <1>6

(* What Newest keeps.                                                      *)
LEMMA NewestIs ==
    ASSUME NEW S, NEW s \in Seq(S)
    PROVE  /\ Newest(s) \in Seq(S)
           /\ Len(s) <= Retention => Newest(s) = s
           /\ Len(s) > Retention =>
                /\ Len(Newest(s)) = Retention
                /\ \A i \in 1 .. Retention : Newest(s)[i] = s[i + (Len(s) - Retention)]
           /\ Len(Newest(s)) <= Retention
           /\ s # <<>> => Newest(s) # <<>> /\ Newest(s)[Len(Newest(s))] = s[Len(s)]
<1>1. Len(s) \in Nat /\ Retention \in Nat /\ Retention >= 1
  BY Bounds
<1>2. CASE Len(s) <= Retention
  <2>1. Newest(s) = s
    BY <1>2 DEF Newest
  <2> QED BY <1>1, <1>2, <2>1
<1>3. CASE Len(s) > Retention
  <2>1. Newest(s) = SubSeq(s, Len(s) - Retention + 1, Len(s))
    BY <1>1, <1>3 DEF Newest
  <2>2. /\ Len(s) - Retention + 1 \in 1 .. Len(s)
        /\ Len(s) - (Len(s) - Retention + 1) + 1 = Retention
    BY <1>1, <1>3
  <2>3. Newest(s) \in Seq(S) /\ Len(Newest(s)) = Retention
    BY <1>1, <1>3, <2>1, <2>2
  <2>4. ASSUME NEW i \in 1 .. Retention
        PROVE  Newest(s)[i] = s[i + (Len(s) - Retention)]
    BY <1>1, <1>3, <2>1, <2>2
  <2>5. Newest(s)[Retention] = s[Len(s)]
    BY <1>1, <1>3, <2>4
  <2> QED BY <1>1, <1>3, <2>3, <2>4, <2>5
<1> QED BY <1>1, <1>2, <1>3

LEMMA NewestRises ==
    ASSUME NEW s \in Seq(Nat), Rising(s)
    PROVE  Rising(Newest(s)) /\ Follows(s, Newest(s))
<1>1. /\ Len(s) \in Nat /\ Retention \in Nat /\ Retention >= 1 /\ Newest(s) \in Seq(Nat)
      /\ Len(Newest(s)) \in Nat
  BY Bounds, NewestIs
<1>2. CASE Len(s) <= Retention
  BY <1>2, NewestIs, FollowsRefl
<1>3. CASE Len(s) > Retention
  <2> DEFINE d == Len(s) - Retention
  <2>1. d \in 1 .. Len(s) /\ d \in Nat /\ Len(s) - d = Retention
    BY <1>1, <1>3
  <2>2. Len(Newest(s)) = Retention /\ \A i \in 1 .. Retention : Newest(s)[i] = s[i + d]
    BY <1>3, NewestIs
  <2> HIDE DEF d
  <2>3. Rising(Newest(s))
    <3>1. SUFFICES ASSUME NEW i \in 1 .. Retention, NEW j \in 1 .. Retention, i < j
                   PROVE  Newest(s)[i] < Newest(s)[j]
      BY <2>2 DEF Rising
    <3>2. i + d \in 1 .. Len(s) /\ j + d \in 1 .. Len(s) /\ i + d < j + d
      BY <1>1, <2>1, <3>1
    <3>3. s[i + d] < s[j + d]
      BY <3>2 DEF Rising
    <3> QED BY <2>2, <3>3
  <2>4. Shifted(s, Newest(s), d)
    BY <1>1, <2>1, <2>2 DEF Shifted
  <2>5. d \in 0 .. Len(s)
    BY <2>1
  <2> QED BY <2>3, <2>4, <2>5 DEF Follows
<1> QED BY <1>1, <1>2, <1>3

(* The events that a later history lost are older than all it has.         *)
LEMMA LostBelow ==
    ASSUME NEW s \in Seq(Nat), NEW t \in Seq(Nat), Rising(s),
           NEW d \in 0 .. Len(s), Shifted(s, t, d), t # <<>>,
           NEW i \in 1 .. Len(s), i <= d
    PROVE  s[i] < t[1]
<1>1. Len(s) \in Nat /\ Len(t) \in Nat /\ Len(t) >= 1 /\ d \in Nat /\ i \in Nat
  OBVIOUS
<1>2. CASE Len(s) - d >= 1
  <2>1. 1 \in 1 .. Len(s) - d /\ 1 + d \in 1 .. Len(s) /\ i < 1 + d
    BY <1>1, <1>2
  <2>2. t[1] = s[1 + d]
    BY <2>1 DEF Shifted
  <2>3. s[i] < s[1 + d]
    BY <2>1 DEF Rising
  <2> QED BY <2>2, <2>3
<1>3. CASE Len(s) - d < 1
  <2>1. 1 \in Len(s) - d + 1 .. Len(t)
    BY <1>1, <1>3
  <2> QED BY <2>1 DEF Shifted
<1> QED BY <1>1, <1>2, <1>3

LEMMA FollowsHolds ==
    ASSUME NEW s \in Seq(Nat), NEW t \in Seq(Nat), Rising(s), Follows(s, t),
           NEW A \in SUBSET Nat, Holds(s, A)
    PROVE  Holds(t, A)
<1>1. PICK d \in 0 .. Len(s) : Shifted(s, t, d)
  BY DEF Follows
<1>2. /\ Len(s) \in Nat /\ Len(t) \in Nat /\ d \in Nat /\ d <= Len(s)
      /\ Retention \in Nat /\ Retention >= 1
  BY Bounds
<1>3. SUFFICES ASSUME NEW e \in A
               PROVE  e \in Range(t) \/ (Len(t) >= Retention /\ e < t[1])
  BY DEF Holds
<1>4. d > 0 => Len(t) >= Retention /\ t # <<>>
  BY <1>1, <1>2 DEF Shifted
<1>5. CASE e \in Range(s)
  <2>1. PICK i \in 1 .. Len(s) : s[i] = e
    BY <1>5 DEF Range
  <2>2. CASE i > d
    <3>1. i - d \in 1 .. Len(s) - d /\ (i - d) + d = i
      BY <1>2, <2>2
    <3>2. t[i - d] = e
      BY <1>1, <2>1, <3>1 DEF Shifted
    <3>3. i - d \in 1 .. Len(t)
      BY <1>1, <1>2, <3>1 DEF Shifted
    <3> QED BY <3>2, <3>3 DEF Range
  <2>3. CASE i <= d
    <3>1. d > 0
      BY <1>2, <2>3
    <3>2. s[i] < t[1]
      BY <1>1, <1>4, <2>3, <3>1, LostBelow
    <3> QED BY <1>4, <2>1, <3>1, <3>2
  <2> QED BY <1>2, <2>2, <2>3
<1>6. CASE Len(s) >= Retention /\ e < s[1]
  <2>1. CASE d > 0
    <3>1. 1 \in 1 .. Len(s) /\ 1 <= d
      BY <1>2, <2>1
    <3>2. s[1] < t[1] /\ 1 \in 1 .. Len(t)
      BY <1>1, <1>2, <1>4, <2>1, <3>1, LostBelow
    <3>3. s[1] \in Nat /\ t[1] \in Nat /\ e \in Nat
      BY <3>1, <3>2
    <3> QED BY <1>4, <1>6, <2>1, <3>2, <3>3
  <2>2. CASE d = 0
    <3>1. 1 \in 1 .. Len(s) - d /\ 1 + d = 1
      BY <1>2, <1>6, <2>2
    <3>2. t[1] = s[1]
      BY <1>1, <3>1 DEF Shifted
    <3>3. Len(t) >= Len(s)
      BY <1>1, <1>2, <2>2 DEF Shifted
    <3> QED BY <1>2, <1>6, <3>2, <3>3
  <2> QED BY <1>2, <2>1, <2>2
<1> QED BY <1>5, <1>6 DEF Holds

LEMMA Excess ==
    ASSUME NEW x \in Nat
    PROVE  \E a \in Nat : a = IF x > Retention THEN x - Retention ELSE 0
<1>1. Retention \in Nat
  BY Bounds
<1>2. CASE x > Retention
  <2>1. x - Retention \in Nat
    BY <1>1, <1>2
  <2> QED BY <1>2, <2>1
<1>3. CASE ~ (x > Retention)
  BY <1>3
<1> QED BY <1>2, <1>3

(* By how much the newest events of a later history are shifted.           *)
Lengths(K, L, S, T, a, b, D) ==
    /\ K + a = S /\ L + b = T /\ D <= S /\ S - D <= T /\ L <= Retention
    /\ (a > 0 => K = Retention) /\ (D > 0 => L = Retention) /\ (b > 0 => L = Retention)

OffsetBy(K, L, S, a, b, D, e) ==
    /\ e <= K /\ K - e <= L
    /\ e > 0 => b > 0 \/ D > 0
    /\ e = b + D - a \/ (e = K /\ S - D < b)

LEMMA NewestOffset ==
    ASSUME NEW K \in Nat, NEW L \in Nat, NEW S \in Nat, NEW T \in Nat,
           NEW a \in Nat, NEW b \in Nat, NEW D \in Nat, Lengths(K, L, S, T, a, b, D)
    PROVE  \E e \in Nat : OffsetBy(K, L, S, a, b, D, e)
<1>1. Retention \in Nat
  BY Bounds
<1>2. b + D - a >= 0
  <2>1. CASE D = 0 /\ b = 0
    BY <1>1, <2>1 DEF Lengths
  <2>2. CASE D > 0 \/ b > 0
    BY <1>1, <2>2 DEF Lengths
  <2> QED BY <2>1, <2>2
<1>3. CASE b + D - a <= K
  <2>1. b + D - a \in Nat /\ K - (b + D - a) <= L
    BY <1>2 DEF Lengths
  <2>2. b + D - a > 0 => b > 0 \/ D > 0
    OBVIOUS
  <2> QED BY <1>3, <2>1, <2>2 DEF OffsetBy
<1>4. CASE b + D - a > K
  <2>1. K > 0 => b > 0 \/ D > 0
    BY <1>4 DEF Lengths
  <2>2. S - D < b /\ K - K <= L
    BY <1>4 DEF Lengths
  <2> QED BY <2>1, <2>2 DEF OffsetBy
<1> QED BY <1>3, <1>4

(* Newest is where the abstract log looks.                                 *)
LEMMA NewestFollows ==
    ASSUME NEW s \in Seq(Nat), NEW t \in Seq(Nat), Follows(s, t)
    PROVE  Follows(Newest(s), Newest(t))
<1>1. PICK d \in 0 .. Len(s) : Shifted(s, t, d)
  BY DEF Follows
<1> DEFINE k == Newest(s)
           l == Newest(t)
<1>2. /\ Len(s) \in Nat /\ Len(t) \in Nat /\ d \in Nat /\ d <= Len(s)
      /\ Retention \in Nat /\ Retention >= 1
  BY Bounds
<1>a. PICK a \in Nat : a = IF Len(s) > Retention THEN Len(s) - Retention ELSE 0
  BY <1>2, Excess
<1>b. PICK b \in Nat : b = IF Len(t) > Retention THEN Len(t) - Retention ELSE 0
  BY <1>2, Excess
<1>3. /\ k \in Seq(Nat) /\ Len(k) \in Nat /\ Len(k) + a = Len(s) /\ a \in Nat
      /\ \A i \in 1 .. Len(k) : k[i] = s[i + a]
      /\ a > 0 => Len(k) = Retention
  <2>1. CASE Len(s) <= Retention
    <3>1. k = s /\ a = 0
      BY <1>2, <1>a, <1>b, <2>1, NewestIs
    <3> QED BY <1>2, <3>1
  <2>2. CASE Len(s) > Retention
    <3>1. a = Len(s) - Retention
      BY <1>a, <2>2
    <3>2. k \in Seq(Nat) /\ Len(k) = Retention
      BY <2>2, NewestIs
    <3>3. \A i \in 1 .. Retention : k[i] = s[i + (Len(s) - Retention)]
      BY <2>2, NewestIs
    <3> HIDE DEF k
    <3>4. Len(k) \in Nat /\ Len(k) + a = Len(s) /\ a \in Nat
      BY <1>2, <2>2, <3>1, <3>2
    <3>5. \A i \in 1 .. Len(k) : k[i] = s[i + a]
      BY <3>1, <3>2, <3>3
    <3> QED BY <3>2, <3>4, <3>5
  <2> QED BY <1>2, <2>1, <2>2
<1>4. /\ l \in Seq(Nat) /\ Len(l) \in Nat /\ Len(l) + b = Len(t) /\ b \in Nat
      /\ \A i \in 1 .. Len(l) : l[i] = t[i + b]
      /\ b > 0 \/ Len(t) >= Retention => Len(l) = Retention
  <2>1. CASE Len(t) <= Retention
    <3>1. l = t /\ b = 0
      BY <1>2, <1>a, <1>b, <2>1, NewestIs
    <3> QED BY <1>2, <2>1, <3>1
  <2>2. CASE Len(t) > Retention
    <3>1. b = Len(t) - Retention
      BY <1>b, <2>2
    <3>2. l \in Seq(Nat) /\ Len(l) = Retention
      BY <2>2, NewestIs
    <3>3. \A i \in 1 .. Retention : l[i] = t[i + (Len(t) - Retention)]
      BY <2>2, NewestIs
    <3> HIDE DEF l
    <3>4. Len(l) \in Nat /\ Len(l) + b = Len(t) /\ b \in Nat
      BY <1>2, <2>2, <3>1, <3>2
    <3>5. \A i \in 1 .. Len(l) : l[i] = t[i + b]
      BY <3>1, <3>2, <3>3
    <3> QED BY <3>2, <3>4, <3>5
  <2> QED BY <1>2, <2>1, <2>2
<1> HIDE DEF k, l
<1>5. PICK K \in Nat, L \in Nat, S \in Nat, T \in Nat, D \in Nat :
        K = Len(k) /\ L = Len(l) /\ S = Len(s) /\ T = Len(t) /\ D = d
  BY <1>2, <1>3, <1>4
<1>6. K + a = S /\ L + b = T /\ D <= S /\ S - D <= T
  BY <1>1, <1>2, <1>3, <1>4, <1>5 DEF Shifted
<1>7. /\ D > 0 => L = Retention
      /\ b > 0 => L = Retention
  BY <1>1, <1>2, <1>4, <1>5 DEF Shifted
<1>8. L <= Retention /\ (a > 0 => K = Retention)
  BY <1>3, <1>5, NewestIs DEF l
<1>9. PICK e \in Nat : OffsetBy(K, L, S, a, b, D, e)
  <2>1. Lengths(K, L, S, T, a, b, D)
    BY <1>6, <1>7, <1>8 DEF Lengths
  <2> QED BY <2>1, NewestOffset
<1>10. ASSUME NEW i \in 1 .. K - e PROVE l[i] = k[i + e]
  <2>1. /\ i \in 1 .. L /\ i + e \in 1 .. K /\ i + b \in 1 .. S - D
        /\ (i + b) + D = (i + e) + a
    BY <1>6, <1>9 DEF OffsetBy
  <2>2. l[i] = t[i + b]
    BY <1>4, <1>5, <2>1
  <2>3. k[i + e] = s[(i + e) + a]
    BY <1>3, <1>5, <2>1
  <2>4. t[i + b] = s[(i + b) + D]
    BY <1>1, <1>5, <2>1 DEF Shifted
  <2> QED BY <2>1, <2>2, <2>3, <2>4
<1>11. e > 0 => L >= Retention
  BY <1>7, <1>9, Bounds DEF OffsetBy
<1>12. ASSUME NEW i \in 1 .. K, NEW j \in K - e + 1 .. L
       PROVE  k[i] < l[j]
  <2>1. i + a \in 1 .. S /\ j \in 1 .. L /\ j + b \in S - D + 1 .. T
    BY <1>6, <1>9 DEF OffsetBy
  <2>2. s[i + a] < t[j + b]
    BY <1>1, <1>5, <2>1 DEF Shifted
  <2>3. k[i] = s[i + a]
    BY <1>3, <1>5
  <2>4. l[j] = t[j + b]
    BY <1>4, <1>5, <2>1
  <2> QED BY <2>2, <2>3, <2>4
<1>13. Shifted(k, l, e)
  BY <1>5, <1>9, <1>10, <1>11, <1>12 DEF Shifted, OffsetBy
<1>14. e \in 0 .. Len(k)
  BY <1>5, <1>9 DEF OffsetBy
<1>15. Follows(k, l)
  BY <1>13, <1>14 DEF Follows
<1> QED BY <1>15 DEF k, l

(* A later history of at most Retention events is a step of the log.       *)
Short(s) == Len(s) <= Retention

LEMMA FollowsRecorded ==
    ASSUME NEW k \in Seq(Nat), NEW l \in Seq(Nat), Rising(k), Rising(l), Follows(k, l),
           Short(l)
    PROVE  \E n \in 0 .. Len(l) :
              /\ l = Newest(k \o SubSeq(l, n + 1, Len(l)))
              /\ Rising(k \o SubSeq(l, n + 1, Len(l)))
<1>1. PICK e \in 0 .. Len(k) : Shifted(k, l, e)
  BY DEF Follows
<1>a. PICK K \in Nat, L \in Nat, E \in Nat : K = Len(k) /\ L = Len(l) /\ E = e
  OBVIOUS
<1>b. E <= K /\ K - E <= L
  BY <1>1, <1>a DEF Shifted
<1>c. PICK n \in Nat : n = K - E
  BY <1>b
<1> DEFINE new == SubSeq(l, n + 1, Len(l))
           w == k \o new
<1>2. n <= L /\ n + E = K
  BY <1>b, <1>c
<1>3. /\ new \in Seq(Nat) /\ Len(new) = L - n
      /\ \A i \in 1 .. L - n : new[i] = l[i + n]
  <2>1. n + 1 \in 1 .. L + 1
    BY <1>2
  <2>2. new \in Seq(Nat)
    BY <1>2, <1>a, SubSeqProperties
  <2>3. Len(new) = L - n
    BY <1>2, <1>a, SubSeqProperties
  <2>4. ASSUME NEW i \in 1 .. L - n PROVE new[i] = l[i + n]
    <3>1. new[i] = l[(n + 1) + i - 1]
      BY <1>2, <1>a, SubSeqProperties
    <3>2. (n + 1) + i - 1 = i + n
      BY <1>2
    <3> QED BY <3>1, <3>2
  <2> QED BY <2>2, <2>3, <2>4
<1> HIDE DEF new
<1>4. /\ w \in Seq(Nat) /\ Len(w) = L + E
      /\ \A i \in 1 .. K : w[i] = k[i]
      /\ \A i \in K + 1 .. L + E : w[i] = new[i - K]
  <2>1. /\ w \in Seq(Nat) /\ Len(w) = K + Len(new)
        /\ \A i \in 1 .. K + Len(new) :
              w[i] = IF i <= K THEN k[i] ELSE new[i - K]
    BY <1>3, <1>a, ConcatProperties
  <2> HIDE DEF w
  <2>2. K + Len(new) = L + E
    BY <1>2, <1>3
  <2>3. ASSUME NEW i \in 1 .. K PROVE w[i] = k[i]
    <3>1. i \in 1 .. K + Len(new) /\ i <= K
      BY <1>2, <1>3
    <3> QED BY <2>1, <3>1
  <2>4. ASSUME NEW i \in K + 1 .. L + E PROVE w[i] = new[i - K]
    <3>1. i \in 1 .. K + Len(new) /\ ~ (i <= K)
      BY <1>2, <2>2
    <3> QED BY <2>1, <3>1
  <2> QED BY <2>1, <2>2, <2>3, <2>4
<1> HIDE DEF w
<1>5. ASSUME NEW i \in 1 .. L PROVE w[i + E] = l[i]
  <2>1. CASE i <= n
    <3>1. i \in 1 .. K - E /\ i + E \in 1 .. K
      BY <1>2, <2>1
    <3>2. l[i] = k[i + E]
      BY <1>1, <1>a, <3>1 DEF Shifted
    <3> QED BY <1>4, <3>1, <3>2
  <2>2. CASE i > n
    <3>1. i + E \in K + 1 .. L + E
      BY <1>2, <2>2
    <3>2. (i + E) - K = i - n
      BY <1>2
    <3>3. i - n \in 1 .. L - n /\ (i - n) + n = i
      BY <1>2, <2>2
    <3>4. w[i + E] = new[i - n]
      BY <1>4, <3>1, <3>2
    <3> QED BY <1>3, <3>3, <3>4
  <2> QED BY <1>2, <2>1, <2>2
<1>6. l = Newest(w)
  <2>1. CASE E = 0
    <3>1. Len(w) = L
      BY <1>2, <1>4, <2>1
    <3>2. \A i \in 1 .. L : w[i] = l[i]
      BY <1>2, <1>5, <2>1
    <3>3. w = l
      BY <1>4, <1>a, <3>1, <3>2, SeqEqual
    <3> QED BY <3>3, NewestIs DEF Short
  <2>2. CASE E > 0
    <3>1. L = Retention
      BY <1>1, <1>2, <1>a, <2>2, Bounds DEF Shifted, Short
    <3>2. Len(w) > Retention /\ Len(w) - Retention = E
      BY <1>2, <1>4, <2>2, <3>1, Bounds
    <3>3. /\ Newest(w) \in Seq(Nat) /\ Len(Newest(w)) = L
          /\ \A i \in 1 .. L : Newest(w)[i] = w[i + E]
      BY <1>4, <3>1, <3>2, NewestIs
    <3>4. \A i \in 1 .. L : Newest(w)[i] = l[i]
      BY <1>5, <3>3
    <3> QED BY <1>a, <3>3, <3>4, SeqEqual
  <2> QED BY <1>2, <2>1, <2>2
<1>7. Rising(w)
  <2>1. SUFFICES ASSUME NEW i \in 1 .. L + E, NEW j \in 1 .. L + E, i < j
                 PROVE  w[i] < w[j]
    BY <1>4 DEF Rising
  <2>2. CASE j <= K
    <3>1. i \in 1 .. K /\ j \in 1 .. K
      BY <1>2, <2>1, <2>2
    <3>2. k[i] < k[j]
      BY <1>a, <2>1, <3>1 DEF Rising
    <3> QED BY <1>4, <3>1, <3>2
  <2>3. CASE i <= K /\ j > K
    <3>1. i \in 1 .. K /\ j - E \in K - E + 1 .. L /\ j - E \in 1 .. L
          /\ (j - E) + E = j
      BY <1>2, <2>3
    <3>2. k[i] < l[j - E]
      BY <1>1, <1>a, <3>1 DEF Shifted
    <3>3. w[j] = l[j - E]
      BY <1>5, <3>1
    <3> QED BY <1>4, <3>1, <3>2, <3>3
  <2>4. CASE i > K
    <3>1. /\ i - E \in 1 .. L /\ j - E \in 1 .. L /\ i - E < j - E
          /\ (i - E) + E = i /\ (j - E) + E = j
      BY <1>2, <2>1, <2>4
    <3>2. l[i - E] < l[j - E]
      BY <1>a, <3>1 DEF Rising
    <3>3. w[i] = l[i - E] /\ w[j] = l[j - E]
      BY <1>5, <3>1
    <3> QED BY <3>2, <3>3
  <2> QED BY <1>2, <2>2, <2>3, <2>4
<1> QED BY <1>2, <1>a, <1>6, <1>7 DEF w, new

-------------------------------------------------------------------------------
(***************************************************************************)
(* Facts about contents and files.                                         *)
(***************************************************************************)
Numbers == 1 .. MaxEvents + 1

LEMMA HistoryIs ==
    ASSUME NEW n \in Numbers, NEW s \in HistoriesTo(n)
    PROVE  /\ s \in Seq(Nat) /\ s \in Seq(1 .. MaxEvents) /\ s \in Seq(0 .. MaxEvents)
           /\ s \in Seq(1 .. n - 1) /\ Rising(s)
           /\ \A i \in 1 .. Len(s) : s[i] \in 1 .. n - 1
<1>1. s \in Seq(1 .. n - 1) /\ Rising(s)
  BY DEF HistoriesTo
<1>2. /\ 1 .. n - 1 \subseteq Nat /\ 1 .. n - 1 \subseteq 1 .. MaxEvents
      /\ 1 .. n - 1 \subseteq 0 .. MaxEvents
  BY Bounds DEF Numbers
<1>3. s \in Seq(Nat)
  BY <1>1, <1>2, SeqMonotonic
<1>4. s \in Seq(1 .. MaxEvents)
  BY <1>1, <1>2, SeqMonotonic
<1>5. s \in Seq(0 .. MaxEvents)
  BY <1>1, <1>2, SeqMonotonic
<1>6. \A i \in 1 .. Len(s) : s[i] \in 1 .. n - 1
  BY <1>1, ElementOfSeq
<1> QED BY <1>1, <1>3, <1>4, <1>5, <1>6

LEMMA HistoryGrows ==
    ASSUME NEW n \in Numbers, NEW m \in Numbers, n <= m, NEW s \in HistoriesTo(n)
    PROVE  s \in HistoriesTo(m)
<1>1. s \in Seq(1 .. n - 1) /\ Rising(s)
  BY DEF HistoriesTo
<1>2. 1 .. n - 1 \subseteq 1 .. m - 1
  BY Bounds DEF Numbers
<1>3. s \in Seq(1 .. m - 1)
  BY <1>1, <1>2, SeqMonotonic
<1> QED BY <1>1, <1>3 DEF HistoriesTo

LEMMA NoHistory ==
    ASSUME NEW n \in Numbers
    PROVE  <<>> \in HistoriesTo(n)
<1>1. Rising(<<>>)
  BY DEF Rising
<1> QED BY <1>1 DEF HistoriesTo

(* One more event, the latest.                                             *)
LEMMA HistoryAppend ==
    ASSUME NEW n \in Numbers, n <= MaxEvents, NEW s \in HistoriesTo(n)
    PROVE  Append(s, n) \in HistoriesTo(n + 1)
<1>1. /\ n + 1 \in Numbers /\ n \in 1 .. n /\ n \in Nat /\ (n + 1) - 1 = n
      /\ 1 .. n - 1 \subseteq 1 .. n
  BY Bounds DEF Numbers
<1>2. s \in Seq(1 .. n - 1) /\ Rising(s) /\ \A i \in 1 .. Len(s) : s[i] \in 1 .. n - 1
  BY HistoryIs
<1>3. s \in Seq(1 .. n)
  BY <1>1, <1>2, SeqMonotonic
<1>4. /\ Append(s, n) \in Seq(1 .. n) /\ Len(Append(s, n)) = Len(s) + 1
      /\ \A i \in 1 .. Len(s) : Append(s, n)[i] = s[i]
      /\ Append(s, n)[Len(s) + 1] = n
  BY <1>1, <1>3, AppendProperties
<1>5. Rising(Append(s, n))
  <2>1. SUFFICES ASSUME NEW i \in 1 .. Len(s) + 1, NEW j \in 1 .. Len(s) + 1, i < j
                 PROVE  Append(s, n)[i] < Append(s, n)[j]
    BY <1>4 DEF Rising
  <2>2. i \in 1 .. Len(s)
    BY <1>3, <2>1
  <2>3. CASE j \in 1 .. Len(s)
    <3>1. s[i] < s[j]
      BY <1>2, <2>1, <2>2, <2>3 DEF Rising
    <3> QED BY <1>4, <2>2, <2>3, <3>1
  <2>4. CASE j = Len(s) + 1
    <3>1. s[i] \in 1 .. n - 1
      BY <1>2, <2>2
    <3>2. s[i] < n
      BY <1>1, <3>1
    <3> QED BY <1>4, <2>2, <2>4, <3>2
  <2> QED BY <1>3, <2>3, <2>4
<1> QED BY <1>1, <1>4, <1>5 DEF HistoriesTo

LEMMA HistoryNewest ==
    ASSUME NEW n \in Numbers, NEW s \in HistoriesTo(n)
    PROVE  /\ Newest(s) \in HistoriesTo(n) /\ Len(Newest(s)) <= Retention
           /\ Follows(s, Newest(s))
<1>1. s \in Seq(Nat) /\ s \in Seq(1 .. n - 1) /\ Rising(s)
  BY HistoryIs
<1>2. Newest(s) \in Seq(1 .. n - 1) /\ Len(Newest(s)) <= Retention
  BY <1>1, NewestIs
<1> QED BY <1>1, <1>2, NewestRises DEF HistoriesTo

LEMMA ContentIs ==
    ASSUME NEW h, NEW fs
    PROVE  Content(h, fs).head = h /\ Content(h, fs).frames = fs
  BY DEF Content

(* A whole header and undamaged frames.                                    *)
LEMMA WholeContent ==
    ASSUME NEW n \in Numbers, NEW s \in HistoriesTo(n)
    PROVE  /\ WellFormed(Content("whole", s), n) /\ Events(Content("whole", s)) = s
           /\ ~ Interrupted(Content("whole", s))
<1> DEFINE c == Content("whole", s)
<1>1. c.head = "whole" /\ c.frames = s /\ c = [head |-> "whole", frames |-> s]
  BY DEF Content
<1>2. s \in Seq(0 .. MaxEvents) /\ \A i \in 1 .. Len(s) : s[i] \in 1 .. n - 1
  BY HistoryIs
<1>3. c \in Contents
  BY <1>1, <1>2 DEF Contents, Heads
<1> HIDE DEF c
<1>4. \A i \in 1 .. Len(s) : s[i] # Damaged
  BY <1>2 DEF Damaged, Numbers
<1>5. ~ Interrupted(c)
  BY <1>1, <1>2, <1>4 DEF Interrupted
<1>6. Events(c) = s
  BY <1>1, <1>5 DEF Events
<1>7. \A i \in 1 .. Len(c.frames) - 1 : c.frames[i] # Damaged
  BY <1>1, <1>2, <1>4
<1> QED BY <1>1, <1>3, <1>5, <1>6, <1>7 DEF WellFormed, c

(* A whole header, and a damaged frame after the others.                   *)
LEMMA DamagedContent ==
    ASSUME NEW n \in Numbers, NEW s \in HistoriesTo(n)
    PROVE  /\ WellFormed(Content("whole", Append(s, Damaged)), n)
           /\ Events(Content("whole", Append(s, Damaged))) = s
<1> DEFINE c == Content("whole", Append(s, Damaged))
<1>1. /\ c.head = "whole" /\ c.frames = Append(s, Damaged)
      /\ c = [head |-> "whole", frames |-> Append(s, Damaged)]
  BY DEF Content
<1>2. s \in Seq(0 .. MaxEvents) /\ \A i \in 1 .. Len(s) : s[i] \in 1 .. n - 1
  BY HistoryIs
<1>3. Damaged \in 0 .. MaxEvents
  BY Bounds DEF Damaged
<1>4. /\ c.frames \in Seq(0 .. MaxEvents) /\ c.frames # <<>> /\ Len(c.frames) = Len(s) + 1
      /\ \A i \in 1 .. Len(s) : c.frames[i] = s[i]
      /\ c.frames[Len(s) + 1] = Damaged
  <2>1. /\ Append(s, Damaged) \in Seq(0 .. MaxEvents) /\ Append(s, Damaged) # <<>>
        /\ Len(Append(s, Damaged)) = Len(s) + 1
        /\ \A i \in 1 .. Len(s) : Append(s, Damaged)[i] = s[i]
        /\ Append(s, Damaged)[Len(s) + 1] = Damaged
    BY <1>2, <1>3, AppendProperties
  <2> HIDE DEF c
  <2> QED BY <1>1, <2>1
<1>5. c \in Contents
  BY <1>1, <1>4 DEF Contents, Heads
<1> HIDE DEF c
<1>6. \A i \in 1 .. Len(s) : s[i] # Damaged
  BY <1>2 DEF Damaged, Numbers
<1>7. Len(c.frames) - 1 = Len(s)
  BY <1>2, <1>4
<1>8. Interrupted(c)
  BY <1>4 DEF Interrupted
<1>9. Events(c) = SubSeq(c.frames, 1, Len(s))
  BY <1>7, <1>8 DEF Events
<1>10. SubSeq(c.frames, 1, Len(s)) = s
  <2>1. \A i \in 1 .. Len(s) : c.frames[i] \in 0 .. MaxEvents
    BY <1>2, <1>4, ElementOfSeq
  <2>2. /\ SubSeq(c.frames, 1, Len(s)) \in Seq(0 .. MaxEvents)
        /\ Len(SubSeq(c.frames, 1, Len(s))) = IF 1 <= Len(s) THEN Len(s) - 1 + 1 ELSE 0
        /\ \A i \in 1 .. Len(s) - 1 + 1 : SubSeq(c.frames, 1, Len(s))[i] = c.frames[1 + i - 1]
    BY <1>2, <2>1, SubSeqProperties
  <2>3. Len(SubSeq(c.frames, 1, Len(s))) = Len(s)
    BY <1>2, <2>2
  <2>4. \A i \in 1 .. Len(s) : SubSeq(c.frames, 1, Len(s))[i] = s[i]
    BY <1>2, <1>4, <2>2
  <2> QED BY <1>2, <2>2, <2>3, <2>4, SeqEqual
<1>11. \A i \in 1 .. Len(c.frames) - 1 : c.frames[i] # Damaged
  BY <1>4, <1>6, <1>7
<1> QED BY <1>1, <1>5, <1>9, <1>10, <1>11 DEF WellFormed, c

(* A header that is not whole, and nothing after it.                       *)
LEMMA BareContent ==
    ASSUME NEW n \in Numbers, NEW h \in Heads
    PROVE  WellFormed(Content(h, <<>>), n) /\ Events(Content(h, <<>>)) = <<>>
<1>1. Content(h, <<>>).frames = <<>> /\ Content(h, <<>>) \in Contents
  BY DEF Content, Contents
<1>2. Events(Content(h, <<>>)) = <<>>
  BY <1>1 DEF Events, Interrupted
<1>3. Len(<<>>) = 0
  OBVIOUS
<1> QED BY <1>1, <1>2, <1>3, NoHistory DEF WellFormed

LEMMA Within ==
    ASSUME NEW S, NEW s \in Seq(S), NEW m \in Nat, m <= Len(s)
    PROVE  \A i \in 1 .. m : i \in 1 .. Len(s) /\ s[i] \in S
<1>1. PICK L \in Nat : L = Len(s)
  OBVIOUS
<1>2. \A i \in 1 .. m : i \in 1 .. L
  BY <1>1
<1> QED BY <1>1, <1>2, ElementOfSeq

LEMMA EventsOf ==
    ASSUME NEW n \in Numbers, NEW c, WellFormed(c, n)
    PROVE  /\ c.frames \in Seq(0 .. MaxEvents) /\ Events(c) \in Seq(0 .. MaxEvents)
           /\ Len(Events(c)) <= Len(c.frames) /\ Len(c.frames) <= Len(Events(c)) + 1
           /\ \A i \in 1 .. Len(Events(c)) : Events(c)[i] = c.frames[i]
<1>1. c.frames \in Seq(0 .. MaxEvents) /\ Events(c) \in Seq(0 .. MaxEvents)
  BY HistoryIs DEF WellFormed, Contents
<1>2. CASE Interrupted(c)
  <2>1. Events(c) = SubSeq(c.frames, 1, Len(c.frames) - 1)
    BY <1>2 DEF Events
  <2>2. PICK m \in Nat : m = Len(c.frames) - 1 /\ Len(c.frames) = m + 1
    <3>1. c.frames # <<>>
      BY <1>2 DEF Interrupted
    <3>2. Len(c.frames) \in Nat /\ Len(c.frames) # 0
      BY <1>1, <3>1
    <3> QED BY <3>2
  <2>3. \A i \in 1 .. m : c.frames[i] \in 0 .. MaxEvents
    <3>1. m <= Len(c.frames)
      BY <2>2
    <3> QED BY <1>1, <3>1, Within
  <2>4. /\ Len(SubSeq(c.frames, 1, m)) = IF 1 <= m THEN m - 1 + 1 ELSE 0
        /\ \A i \in 1 .. m - 1 + 1 : SubSeq(c.frames, 1, m)[i] = c.frames[1 + i - 1]
    BY <2>3, SubSeqProperties
  <2>5. Len(Events(c)) = m
    BY <2>1, <2>2, <2>4
  <2>6. \A i \in 1 .. m : Events(c)[i] = c.frames[i]
    BY <2>1, <2>2, <2>4
  <2> QED BY <1>1, <2>2, <2>5, <2>6
<1>3. CASE ~ Interrupted(c)
  <2>1. Events(c) = c.frames
    BY <1>3 DEF Events
  <2>2. Len(c.frames) \in Nat
    BY <1>1
  <2> QED BY <1>1, <2>1, <2>2
<1> QED BY <1>2, <1>3

LEMMA HistoryPrefix ==
    ASSUME NEW n \in Numbers, NEW s \in HistoriesTo(n), NEW m \in Nat, m <= Len(s)
    PROVE  /\ SubSeq(s, 1, m) \in HistoriesTo(n) /\ Len(SubSeq(s, 1, m)) = m
           /\ \A i \in 1 .. m : SubSeq(s, 1, m)[i] = s[i]
<1> DEFINE p == SubSeq(s, 1, m)
<1>1. s \in Seq(1 .. n - 1) /\ Rising(s)
  BY HistoryIs
<1>2. \A i \in 1 .. m : i \in 1 .. Len(s) /\ s[i] \in 1 .. n - 1
  BY <1>1, Within
<1>3. /\ p \in Seq(1 .. n - 1) /\ Len(p) = IF 1 <= m THEN m - 1 + 1 ELSE 0
      /\ \A i \in 1 .. m - 1 + 1 : p[i] = s[1 + i - 1]
  BY <1>2, SubSeqProperties
<1> HIDE DEF p
<1>4. Len(p) = m /\ \A i \in 1 .. m : p[i] = s[i]
  BY <1>3
<1>5. Rising(p)
  BY <1>1, <1>2, <1>4 DEF Rising
<1> QED BY <1>3, <1>4, <1>5 DEF HistoriesTo, p

LEMMA PrefixTrans ==
    ASSUME NEW s \in Seq(Nat), NEW t \in Seq(Nat), NEW u \in Seq(Nat),
           Prefix(s, t), Prefix(t, u)
    PROVE  Prefix(s, u)
<1>1. Len(s) <= Len(t) /\ Len(t) <= Len(u)
  BY DEF Prefix
<1>2. \A i \in 1 .. Len(s) : i \in 1 .. Len(t)
  BY <1>1, Within
<1>3. Len(s) <= Len(u)
  BY <1>1
<1> QED BY <1>2, <1>3 DEF Prefix

(* Whatever a power failure leaves of a file can be read back: it is a     *)
(* history no older than the synced one.                                   *)
LEMMA SurvivorOK ==
    ASSUME NEW n \in Numbers, NEW f, FileOK(f, n), NEW c \in Survivors(f)
    PROVE  /\ WellFormed(c, n) /\ Prefix(Events(f.disk), Events(c))
           /\ f.disk.head = "whole" => c.head = "whole"
<1>1. /\ WellFormed(f.disk, n) /\ WellFormed(f.cache, n)
      /\ f.disk.head = "whole" => f.cache.head = "whole"
      /\ Prefix(Events(f.disk), Events(f.cache))
  BY DEF FileOK
<1>2. Events(f.disk) \in HistoriesTo(n) /\ Events(f.cache) \in HistoriesTo(n)
  BY <1>1 DEF WellFormed
<1>3. Events(f.disk) \in Seq(Nat) /\ Events(f.cache) \in Seq(Nat)
  BY <1>2, HistoryIs
<1>4. CASE c = f.disk
  BY <1>1, <1>3, <1>4 DEF Prefix
<1>5. CASE c = f.cache
  BY <1>1, <1>5
<1>6. CASE c = Content("torn", <<>>) /\ f.disk.head # "whole"
  <2>1. f.disk.frames = <<>>
    BY <1>1, <1>6 DEF WellFormed
  <2>2. Events(f.disk) = <<>>
    BY <2>1 DEF Events, Interrupted
  <2>3. WellFormed(c, n) /\ Events(c) = <<>>
    BY <1>6, BareContent DEF Heads
  <2> QED BY <1>6, <2>2, <2>3 DEF Prefix
<1>7. ASSUME NEW m \in Len(f.disk.frames) .. Len(f.cache.frames) - 1,
             c \in {Content(f.cache.head, SubSeq(f.cache.frames, 1, m)),
                    Content(f.cache.head, Append(SubSeq(f.cache.frames, 1, m), Damaged))}
      PROVE  WellFormed(c, n) /\ Prefix(Events(f.disk), Events(c)) /\ c.head = "whole"
  <2> DEFINE w == SubSeq(f.cache.frames, 1, m)
             v == SubSeq(Events(f.cache), 1, m)
  <2>1. /\ f.disk.frames \in Seq(0 .. MaxEvents) /\ f.cache.frames \in Seq(0 .. MaxEvents)
        /\ Events(f.cache) \in Seq(0 .. MaxEvents)
        /\ Len(Events(f.disk)) <= Len(f.disk.frames)
        /\ Len(f.cache.frames) <= Len(Events(f.cache)) + 1
        /\ \A i \in 1 .. Len(Events(f.cache)) : Events(f.cache)[i] = f.cache.frames[i]
    BY <1>1, EventsOf
  <2>2. PICK M \in Nat : M = m
    BY <2>1
  <2>3. /\ M <= Len(Events(f.cache)) /\ Len(f.cache.frames) # 0 /\ M <= Len(f.cache.frames)
        /\ Len(Events(f.disk)) <= M
    BY <1>3, <2>1, <2>2
  <2>4. f.cache.head = "whole"
    BY <1>1, <2>3 DEF WellFormed
  <2>5. /\ v \in HistoriesTo(n) /\ Len(v) = M
        /\ \A i \in 1 .. M : v[i] = Events(f.cache)[i]
    BY <1>2, <2>2, <2>3, HistoryPrefix
  <2>6. w = v
    <3>1. \A i \in 1 .. M : f.cache.frames[i] \in 0 .. MaxEvents
      BY <2>1, <2>3, Within
    <3>2. /\ w \in Seq(0 .. MaxEvents) /\ Len(w) = IF 1 <= M THEN M - 1 + 1 ELSE 0
          /\ \A i \in 1 .. M - 1 + 1 : w[i] = f.cache.frames[1 + i - 1]
      BY <2>2, <3>1, SubSeqProperties
    <3> HIDE DEF w, v
    <3>3. Len(w) = M /\ \A i \in 1 .. M : w[i] = f.cache.frames[i]
      BY <3>2
    <3>6. \A i \in 1 .. M : i \in 1 .. Len(Events(f.cache))
      BY <2>1, <2>3, Within
    <3>4. \A i \in 1 .. M : w[i] = v[i]
      BY <2>1, <2>5, <3>3, <3>6
    <3>5. v \in Seq(0 .. MaxEvents)
      BY <2>5, HistoryIs
    <3> QED BY <2>5, <3>2, <3>3, <3>4, <3>5, SeqEqual
  <2>7. c \in {Content("whole", v), Content("whole", Append(v, Damaged))}
    BY <1>7, <2>4, <2>6
  <2> HIDE DEF v
  <2>8. WellFormed(c, n) /\ Events(c) = v /\ c.head = "whole"
    BY <2>5, <2>7, WholeContent, DamagedContent, ContentIs
  <2>9. Prefix(Events(f.disk), v)
    <3>1. \A i \in 1 .. Len(Events(f.disk)) : i \in 1 .. M
      BY <1>3, <2>3
    <3>2. \A i \in 1 .. Len(Events(f.disk)) : Events(f.disk)[i] = v[i]
      BY <1>1, <2>5, <3>1 DEF Prefix
    <3> QED BY <2>3, <2>5, <3>2 DEF Prefix
  <2> QED BY <2>8, <2>9
<1>8. \/ c = f.disk \/ c = f.cache
      \/ c = Content("torn", <<>>) /\ f.disk.head # "whole"
      \/ \E m \in Len(f.disk.frames) .. Len(f.cache.frames) - 1 :
            c \in {Content(f.cache.head, SubSeq(f.cache.frames, 1, m)),
                   Content(f.cache.head, Append(SubSeq(f.cache.frames, 1, m), Damaged))}
  BY DEF Survivors
<1> QED BY <1>4, <1>5, <1>6, <1>7, <1>8

LEMMA Grown ==
    ASSUME NEW n \in Numbers, NEW m \in Numbers, n <= m
    PROVE  /\ \A c : WellFormed(c, n) => WellFormed(c, m)
           /\ \A f : FileOK(f, n) => FileOK(f, m)
<1>1. \A c : WellFormed(c, n) => WellFormed(c, m)
  BY HistoryGrows DEF WellFormed
<1> QED BY <1>1 DEF FileOK

(* A file that is what is synced.                                          *)
LEMMA FileSame ==
    ASSUME NEW n \in Numbers, NEW c, WellFormed(c, n)
    PROVE  /\ FileOK(File(c, c), n) /\ File(c, c).disk = c /\ File(c, c).cache = c
<1>1. File(c, c).disk = c /\ File(c, c).cache = c /\ File(c, c) \in Files
  BY DEF File, Files, WellFormed
<1>2. Events(c) \in Seq(Nat)
  BY HistoryIs DEF WellFormed
<1>3. Prefix(Events(c), Events(c))
  BY <1>2 DEF Prefix
<1> QED BY <1>1, <1>3 DEF FileOK

(* File.Sync.                                                              *)
LEMMA FileSynced ==
    ASSUME NEW n \in Numbers, NEW f, FileOK(f, n)
    PROVE  Synced(f) = File(f.cache, f.cache) /\ FileOK(Synced(f), n)
<1>1. f = [cache |-> f.cache, disk |-> f.disk] /\ WellFormed(f.cache, n)
  BY DEF FileOK, Files
<1>2. Synced(f) = File(f.cache, f.cache)
  BY <1>1 DEF Synced, File
<1> QED BY <1>1, <1>2, FileSame

(* A write that keeps what was synced.                                     *)
LEMMA FileWritten ==
    ASSUME NEW n \in Numbers, NEW f, FileOK(f, n), NEW c, WellFormed(c, n),
           f.disk.head = "whole" => c.head = "whole",
           Prefix(Events(f.disk), Events(c))
    PROVE  /\ [f EXCEPT !.cache = c] = File(c, f.disk)
           /\ FileOK(File(c, f.disk), n)
           /\ File(c, f.disk).disk = f.disk /\ File(c, f.disk).cache = c
<1>1. f = [cache |-> f.cache, disk |-> f.disk] /\ WellFormed(f.disk, n)
  BY DEF FileOK, Files
<1>2. /\ File(c, f.disk).disk = f.disk /\ File(c, f.disk).cache = c
      /\ File(c, f.disk) \in Files
  BY <1>1 DEF File, Files, WellFormed
<1>3. [f EXCEPT !.cache = c] = File(c, f.disk)
  BY <1>1 DEF File
<1> QED BY <1>1, <1>2, <1>3 DEF FileOK

-------------------------------------------------------------------------------
(***************************************************************************)
(* The history certain to last only goes forward.                          *)
(***************************************************************************)
Onward == Later' /\ Follows(Events(Certain), Events(Certain)')

LEMMA InvFacts ==
    ASSUME EventsInv
    PROVE  /\ next \in Numbers /\ FileOK(file, next) /\ FileOK(temp, next)
           /\ former \in Seq(Files) /\ \A i \in 1 .. Len(former) : FileOK(former[i], next)
           /\ WellFormed(file.disk, next) /\ WellFormed(file.cache, next)
           /\ Prefix(Events(file.disk), Events(file.cache))
           /\ file.disk.head = "whole" => file.cache.head = "whole"
  BY DEF EventsInv, Counters, FilesOK, FileOK, Numbers

LEMMA EventsTyped ==
    ASSUME NEW n \in Numbers, NEW c, WellFormed(c, n)
    PROVE  Events(c) \in HistoriesTo(n) /\ Events(c) \in Seq(Nat) /\ Rising(Events(c))
  BY HistoryIs DEF WellFormed

LEMMA CertainOK ==
    ASSUME EventsInv
    PROVE  WellFormed(Certain, next) /\ Events(Certain) \in Seq(Nat) /\ Rising(Events(Certain))
<1>1. CASE former = <<>>
  BY <1>1, InvFacts, EventsTyped DEF Certain
<1>2. CASE former # <<>>
  <2>1. 1 \in 1 .. Len(former)
    BY <1>2, InvFacts
  <2>2. FileOK(former[1], next) /\ Certain = former[1].disk
    BY <1>2, <2>1, InvFacts DEF Certain
  <2> QED BY <2>2, InvFacts, EventsTyped DEF FileOK
<1> QED BY <1>1, <1>2

(* Onward from a file that a power failure can bring back.                 *)
LEMMA Ahead ==
    ASSUME EventsInv, NEW c, Events(c) \in Seq(Nat),
           \/ Follows(Events(file.disk), Events(c))
           \/ \E i \in 1 .. Len(former) : Follows(Events(former[i].disk), Events(c))
    PROVE  Follows(Events(Certain), Events(c))
<1>1. CASE Follows(Events(file.disk), Events(c))
  <2>1. Events(file.disk) \in Seq(Nat) /\ Follows(Events(Certain), Events(file.disk))
    BY InvFacts, EventsTyped DEF EventsInv, Later
  <2> QED BY <1>1, <2>1, CertainOK, FollowsTrans
<1>2. ASSUME NEW i \in 1 .. Len(former), Follows(Events(former[i].disk), Events(c))
      PROVE  Follows(Events(Certain), Events(c))
  <2>1. /\ Events(former[i].disk) \in Seq(Nat)
        /\ Follows(Events(Certain), Events(former[i].disk))
    BY InvFacts, EventsTyped DEF EventsInv, Later, FileOK
  <2> QED BY <1>2, <2>1, CertainOK, FollowsTrans
<1> QED BY <1>1, <1>2

LEMMA OnwardKept ==
    ASSUME EventsInv, file'.disk = file.disk, former' = former
    PROVE  Onward
<1>1. Certain' = Certain
  BY DEF Certain
<1>2. Events(Certain)' = Events(Certain) /\ Events(file.disk)' = Events(file.disk)
  BY <1>1 DEF Events, Interrupted
<1>3. Follows(Events(Certain), Events(Certain))
  BY CertainOK, FollowsRefl
<1>4. ASSUME NEW i \in 1 .. Len(former)
      PROVE  Follows(Events(Certain), Events(former[i].disk))
  BY DEF EventsInv, Later
<1>5. Follows(Events(Certain), Events(file.disk))
  BY DEF EventsInv, Later
<1>6. \A i \in 1 .. Len(former') : Follows(Events(Certain'), Events(former'[i].disk))
  BY <1>1, <1>4
<1> QED BY <1>1, <1>2, <1>3, <1>5, <1>6 DEF Onward, Later

LEMMA OnwardNamed ==
    ASSUME EventsInv, former' = <<>>, Events(file'.disk) \in Seq(Nat),
           Follows(Events(Certain), Events(file'.disk))
    PROVE  Onward
<1>1. Certain' = file'.disk
  BY DEF Certain
<1>2. Follows(Events(file'.disk), Events(file'.disk))
  BY FollowsRefl
<1>3. \A i \in 1 .. Len(former') : FALSE
  OBVIOUS
<1>4. Later'
  BY <1>1, <1>2, <1>3 DEF Later
<1> QED BY <1>1, <1>4 DEF Onward

LEMMA OnwardSynced ==
    ASSUME EventsInv, file' = Synced(file), former' \in {former, <<>>}
    PROVE  Onward
<1>1. /\ file'.disk = file.cache /\ Events(file.cache) \in Seq(Nat)
      /\ Rising(Events(file.cache)) /\ Events(file.disk) \in Seq(Nat)
  BY InvFacts, FileSynced, EventsTyped DEF File
<1>2. Follows(Events(file.disk), Events(file.cache))
  BY <1>1, InvFacts, PrefixFollows
<1>3. Follows(Events(Certain), Events(file.cache))
  BY <1>1, <1>2, Ahead
<1>4. CASE former' = <<>>
  BY <1>1, <1>3, <1>4, OnwardNamed
<1>5. CASE former' = former /\ former # <<>>
  <2>1. Certain' = Certain
    BY <1>5 DEF Certain
  <2>2. Follows(Events(Certain), Events(Certain))
    BY CertainOK, FollowsRefl
  <2>3. \A i \in 1 .. Len(former') : Follows(Events(Certain'), Events(former'[i].disk))
    BY <1>5, <2>1 DEF EventsInv, Later
  <2>4. Follows(Events(Certain'), Events(file'.disk))
    BY <1>1, <1>3, <2>1
  <2> QED BY <2>1, <2>2, <2>3, <2>4 DEF Onward, Later
<1> QED BY <1>4, <1>5

(* A new file under the name, in the place of the old one.                 *)
LEMMA OnwardReplaced ==
    ASSUME EventsInv, NEW names \in {former, <<>>}, former' = Append(names, file),
           Events(file'.disk) \in Seq(Nat),
           Follows(Events(file.disk), Events(file'.disk))
    PROVE  Onward
<1>1. names \in Seq(Files) /\ file \in Files
  <2>1. former \in Seq(Files) /\ file \in Files
    BY InvFacts DEF FileOK
  <2>2. <<>> \in Seq(Files)
    OBVIOUS
  <2> QED BY <2>1, <2>2
<1>2. /\ former' # <<>> /\ Len(former') = Len(names) + 1
      /\ \A i \in 1 .. Len(names) : former'[i] = names[i]
      /\ former'[Len(names) + 1] = file
  BY <1>1, AppendProperties
<1>3. Certain' = former'[1].disk
  BY <1>2 DEF Certain
<1>4. Events(file.disk) \in Seq(Nat) /\ Follows(Events(file.disk), Events(file.disk))
  BY InvFacts, EventsTyped, FollowsRefl
<1>5. CASE names = <<>>
  <2>1. Len(former') = 1 /\ former'[1] = file
    BY <1>2, <1>5
  <2>2. Certain' = file.disk
    BY <1>3, <2>1
  <2>3. Follows(Events(Certain), Events(file.disk))
    BY <1>4, Ahead
  <2>4. \A i \in 1 .. Len(former') : Follows(Events(Certain'), Events(former'[i].disk))
    BY <1>4, <2>1, <2>2
  <2>5. Later'
    BY <2>2, <2>4 DEF Later
  <2> QED BY <2>2, <2>3, <2>5 DEF Onward
<1>6. CASE names = former /\ former # <<>>
  <2>1. 1 \in 1 .. Len(former)
    BY <1>6, InvFacts
  <2>2. Certain' = Certain
    BY <1>2, <1>3, <1>6, <2>1 DEF Certain
  <2>3. Follows(Events(Certain), Events(Certain))
    BY CertainOK, FollowsRefl
  <2>4. Follows(Events(Certain), Events(file.disk)) /\ Follows(Events(Certain), Events(file'.disk))
    BY <1>4, Ahead
  <2>5. ASSUME NEW i \in 1 .. Len(former')
        PROVE  Follows(Events(Certain), Events(former'[i].disk))
    <3>1. CASE i \in 1 .. Len(former)
      <4>1. former'[i] = former[i]
        BY <1>2, <1>6, <3>1
      <4> QED BY <3>1, <4>1 DEF EventsInv, Later
    <3>2. CASE i = Len(former) + 1
      BY <1>2, <1>6, <2>4, <3>2
    <3> QED BY <1>2, <1>6, <3>1, <3>2, InvFacts
  <2> QED BY <2>2, <2>3, <2>4, <2>5 DEF Onward, Later
<1> QED BY <1>5, <1>6

-------------------------------------------------------------------------------
(***************************************************************************)
(* Counters.                                                               *)
(***************************************************************************)
LEMMA NewestEvent ==
    ASSUME EventsInv, step \in Replacing, ~ opening
    PROVE  next - 1 \in 1 .. next - 1 /\ next - 1 \in Range(events)
<1>1. events # <<>> /\ events[Len(events)] = next - 1 /\ events \in HistoriesTo(next)
  BY DEF EventsInv, Memory
<1>2. events \in Seq(1 .. next - 1) /\ next \in Numbers
  BY <1>1, InvFacts, HistoryIs
<1>3. Len(events) \in 1 .. Len(events)
  BY <1>1, <1>2
<1>4. events[Len(events)] \in 1 .. next - 1
  BY <1>2, <1>3, ElementOfSeq
<1>5. DOMAIN events = 1 .. Len(events)
  BY <1>2
<1> QED BY <1>1, <1>3, <1>4, <1>5 DEF Range

LEMMA FaultCounted ==
    ASSUME Counters, faults' = faults \/ Fault
    PROVE  faults' \in 0 .. MaxFaults
  BY Bounds DEF Counters, Fault

LEMMA CountersKept ==
    ASSUME EventsInv, [Next]_vars
    PROVE  Counters'
<1> USE DEF EventsInv
<1>1. CASE UNCHANGED vars
  BY <1>1 DEF vars, Counters
<1>2. faults' = faults \/ Fault
  BY DEF Next, vars, Open, Load, SyncRecovered, Loaded, AppendWrite, AppendSync, ReplaceFails,
     WriteReplacement, SyncReplacement, Publish, SyncDirectory, Close, Kill, PowerLoss
<1>3. faults' \in 0 .. MaxFaults
  BY <1>2, FaultCounted
<1>4. CASE Open
  BY <1>3, <1>4 DEF Open, CleanupStaleReplacements, Counters, Steps
<1>5. CASE Load \/ SyncRecovered \/ Loaded
  BY <1>3, <1>5 DEF Load, SyncRecovered, Loaded, Counters, Steps
<1>6. CASE AppendWrite
  <2>1. next' = next + 1 /\ next <= MaxEvents /\ next \in 1 .. MaxEvents + 1 /\ acked' = acked
    BY <1>6 DEF AppendWrite, Counters
  <2>2. next' \in 1 .. MaxEvents + 1
    BY <2>1, Bounds
  <2>3. 1 .. next - 1 \subseteq 1 .. next' - 1
    BY <2>1
  <2>4. acked' \subseteq 1 .. next' - 1
    BY <2>1, <2>3 DEF Counters
  <2>5. stale' \in BOOLEAN /\ opening' \in BOOLEAN /\ step' \in Steps
    BY <1>6 DEF AppendWrite, Counters, Steps
  <2> QED BY <1>3, <2>2, <2>4, <2>5 DEF Counters
<1>7. CASE AppendSync
  <2>1. next - 1 \in 1 .. next - 1
    BY <1>7 DEF AppendSync, Memory, Counters
  <2>2. acked' \subseteq 1 .. next' - 1
    BY <1>7, <2>1 DEF AppendSync, Counters
  <2>3. stale' \in BOOLEAN /\ opening' \in BOOLEAN /\ step' \in Steps /\ next' = next
    BY <1>7 DEF AppendSync, Counters, Steps
  <2> QED BY <1>3, <2>2, <2>3 DEF Counters
<1>8. CASE WriteReplacement \/ SyncReplacement \/ Publish
  BY <1>3, <1>8 DEF WriteReplacement, SyncReplacement, Publish, ReplaceFails, Failed, Counters,
     Steps
<1>9. CASE SyncDirectory
  <2>1. acked' \subseteq 1 .. next' - 1
    BY <1>9, NewestEvent DEF SyncDirectory, Counters, Replacing
  <2>2. stale' \in BOOLEAN /\ opening' \in BOOLEAN /\ step' \in Steps /\ next' = next
    BY <1>9 DEF SyncDirectory, Counters, Steps, Failed
  <2> QED BY <1>3, <2>1, <2>2 DEF Counters
<1>10. CASE Close \/ Kill \/ PowerLoss
  BY <1>3, <1>10 DEF Close, Kill, PowerLoss, Counters, Steps
<1> QED BY <1>1, <1>4, <1>5, <1>6, <1>7, <1>8, <1>9, <1>10 DEF Next

-------------------------------------------------------------------------------
(***************************************************************************)
(* What each action leaves of the files, of the memory and of the history. *)
(***************************************************************************)
Good == FilesOK' /\ Memory' /\ Onward

(* The store is left closed: nothing is said of the memory but its type.   *)
LEMMA Left ==
    ASSUME EventsInv, step' \in {"down", "load", "closed"}, step' = "load" => opening',
           events' \in {events, <<>>}, next' = next
    PROVE  Memory'
<1>1. events' \in HistoriesTo(next') /\ Len(events') <= Retention
  BY InvFacts, NoHistory, Bounds DEF EventsInv, Memory
<1> QED BY <1>1 DEF Memory, Replacing, Steps

LEMMA FilesKept ==
    ASSUME EventsInv, next' = next, FileOK(file', next), former' \in {former, <<>>},
           temp' = temp
    PROVE  FilesOK'
<1>1. former' \in Seq(Files) /\ \A i \in 1 .. Len(former') : FileOK(former'[i], next)
  <2>1. CASE former' = former
    BY <2>1, InvFacts
  <2>2. CASE former' = <<>>
    BY <2>2
  <2> QED BY <2>1, <2>2
<1> QED BY <1>1, InvFacts DEF FilesOK

LEMMA FilesNamed ==
    ASSUME EventsInv, next' = next, FileOK(file', next), NEW names \in {former, <<>>},
           former' = Append(names, file), temp' = temp
    PROVE  FilesOK'
<1>1. names \in Seq(Files) /\ \A i \in 1 .. Len(names) : FileOK(names[i], next)
  <2>1. CASE names = former
    BY <2>1, InvFacts
  <2>2. CASE names = <<>>
    BY <2>2
  <2> QED BY <2>1, <2>2
<1>2. FileOK(file, next) /\ file \in Files
  BY InvFacts DEF FileOK
<1>3. /\ former' \in Seq(Files) /\ Len(former') = Len(names) + 1
      /\ \A i \in 1 .. Len(names) : former'[i] = names[i]
      /\ former'[Len(names) + 1] = file
  BY <1>1, <1>2, AppendProperties
<1>4. \A i \in 1 .. Len(former') : i \in 1 .. Len(names) \/ i = Len(names) + 1
  BY <1>1, <1>3
<1>5. \A i \in 1 .. Len(former') : FileOK(former'[i], next)
  BY <1>1, <1>2, <1>3, <1>4
<1> QED BY <1>3, <1>5, InvFacts DEF FilesOK

LEMMA OnwardSame ==
    ASSUME EventsInv, file'.disk = file.disk, former' \in {former, <<>>}
    PROVE  Onward
<1>1. CASE former' = former
  BY <1>1, OnwardKept
<1>2. CASE former' = <<>>
  <2>1. Events(file.disk) \in Seq(Nat)
    BY InvFacts, EventsTyped
  <2>2. Follows(Events(Certain), Events(file.disk))
    BY <2>1, FollowsRefl, Ahead
  <2> QED BY <1>2, <2>1, <2>2, OnwardNamed
<1> QED BY <1>1, <1>2

(* Nothing but the names of the file changes, and the store is left.       *)
LEMMA LeftAlone ==
    ASSUME EventsInv, step' \in {"down", "load", "closed"}, step' = "load" => opening',
           events' \in {events, <<>>}, next' = next, temp' = temp,
           file' \in {file, Synced(file)}, former' \in {former, <<>>}
    PROVE  Good
<1>1. FileOK(file', next)
  BY InvFacts, FileSynced
<1>2. FilesOK' /\ Memory'
  BY <1>1, FilesKept, Left
<1>3. Onward
  BY OnwardSame, OnwardSynced
<1> QED BY <1>2, <1>3 DEF Good

(* A file without a durable header holds no events.                        *)
LEMMA NothingSynced ==
    ASSUME EventsInv, file.cache.head # "whole"
    PROVE  file.disk.head # "whole" /\ Events(file.disk) = <<>>
<1>1. file.disk.head # "whole" /\ file.disk.frames = <<>>
  BY InvFacts DEF WellFormed
<1> QED BY <1>1 DEF Events, Interrupted

LEMMA OpenGood ==
    ASSUME EventsInv, Open
    PROVE  Good
<1> DEFINE names == IF stale THEN <<>> ELSE former
<1>1. names \in {former, <<>>}
  OBVIOUS
<1>2. /\ events' = <<>> /\ opening' = TRUE /\ step' \in {"down", "load"}
      /\ temp' = temp /\ next' = next
  BY DEF Open, CleanupStaleReplacements
<1>3. \/ /\ file.cache.head = "absent" /\ file' = File(Empty, Empty)
         /\ former' = Append(names, file)
      \/ file' = file /\ former' \in {former, names}
  BY DEF Open, CleanupStaleReplacements
<1>4. CASE file' = file /\ former' \in {former, names}
  BY <1>1, <1>2, <1>4, LeftAlone
<1>5. CASE /\ file.cache.head = "absent" /\ file' = File(Empty, Empty)
           /\ former' = Append(names, file)
  <2>1. WellFormed(Empty, next) /\ Events(Empty) = <<>>
    BY InvFacts, BareContent DEF Empty, Heads
  <2>2. FileOK(file', next) /\ file'.disk = Empty
    BY <1>5, <2>1, InvFacts, FileSame
  <2>3. FilesOK'
    BY <1>1, <1>2, <1>5, <2>2, FilesNamed
  <2>4. Memory'
    BY <1>2, Left
  <2>5. Events(file.disk) = <<>>
    BY <1>5, NothingSynced
  <2>6. Follows(Events(file.disk), Events(file'.disk)) /\ Events(file'.disk) \in Seq(Nat)
    <3>1. <<>> \in Seq(Nat)
      OBVIOUS
    <3>2. Follows(<<>>, <<>>)
      BY <3>1, FollowsEmpty
    <3>3. Events(file'.disk) = <<>>
      BY <2>1, <2>2
    <3> QED BY <2>5, <3>1, <3>2, <3>3
  <2>7. Onward
    BY <1>1, <1>5, <2>6, OnwardReplaced
  <2> QED BY <2>3, <2>4, <2>7 DEF Good
<1> QED BY <1>3, <1>4, <1>5

(* A write that leaves the history on the disk.                            *)
LEMMA Written ==
    ASSUME EventsInv, next' = next, temp' = temp, former' = former,
           NEW c, WellFormed(c, next), file.disk.head = "whole" => c.head = "whole",
           Prefix(Events(file.disk), Events(c)), file' = [file EXCEPT !.cache = c]
    PROVE  FilesOK' /\ Onward /\ file'.cache = c
<1>1. file'.disk = file.disk /\ file'.cache = c /\ FileOK(file', next)
  BY InvFacts, FileWritten
<1> QED BY <1>1, FilesKept, OnwardSame

LEMMA LoadGood ==
    ASSUME EventsInv, Load
    PROVE  Good
<1>1. /\ former' = former /\ temp' = temp /\ events' = events /\ opening' = opening
      /\ next' = next /\ opening
  BY DEF Load, EventsInv, Memory
<1>2. events \in HistoriesTo(next) /\ Len(events) <= Retention
  BY DEF EventsInv, Memory
<1>3. CASE file' = file /\ step' = "down"
  BY <1>1, <1>3, LeftAlone
<1>4. CASE /\ file.cache.head = "empty" /\ step' = "header"
           /\ file' = [file EXCEPT !.cache = Content("whole", <<>>)]
  <2>1. /\ WellFormed(Content("whole", <<>>), next) /\ Events(Content("whole", <<>>)) = <<>>
        /\ ~ Interrupted(Content("whole", <<>>)) /\ Content("whole", <<>>).head = "whole"
    BY InvFacts, NoHistory, WholeContent, ContentIs
  <2>2. Events(file.disk) = <<>>
    BY <1>4, NothingSynced
  <2>3. Prefix(<<>>, <<>>)
    BY DEF Prefix
  <2>4. FilesOK' /\ Onward /\ file'.cache = Content("whole", <<>>)
    BY <1>1, <1>4, <2>1, <2>2, <2>3, Written
  <2>5. Memory'
    BY <1>1, <1>2, <1>4, <2>1, <2>4 DEF Memory, Replacing
  <2> QED BY <2>4, <2>5 DEF Good
<1>5. ASSUME NEW h \in {"empty", "torn"}, file.cache.head = "empty", step' = "down",
             file' = [file EXCEPT !.cache = Content(h, <<>>)]
      PROVE  Good
  <2>1. WellFormed(Content(h, <<>>), next) /\ Events(Content(h, <<>>)) = <<>>
    BY InvFacts, BareContent DEF Heads
  <2>2. file.disk.head # "whole" /\ Events(file.disk) = <<>>
    BY <1>5, NothingSynced
  <2>3. Prefix(<<>>, <<>>)
    BY DEF Prefix
  <2>4. FilesOK' /\ Onward
    BY <1>1, <1>5, <2>1, <2>2, <2>3, Written
  <2>5. Memory'
    BY <1>1, <1>5, Left
  <2> QED BY <2>4, <2>5 DEF Good
<1>6. CASE /\ Interrupted(file.cache) /\ step' = "truncated"
           /\ file' = [file EXCEPT !.cache.frames = Events(file.cache)]
  <2> DEFINE c == Content("whole", Events(file.cache))
  <2>1. file.cache.head = "whole"
    BY <1>6, InvFacts DEF Interrupted, WellFormed
  <2>2. file' = [file EXCEPT !.cache = c]
    <3>1. file.cache \in [head : Heads, frames : Seq(0 .. MaxEvents)]
      BY InvFacts DEF WellFormed, Contents
    <3>2. [file.cache EXCEPT !.frames = Events(file.cache)] = c
      BY <2>1, <3>1 DEF Content
    <3> QED BY <1>6, <3>2
  <2>3. /\ WellFormed(c, next) /\ Events(c) = Events(file.cache) /\ ~ Interrupted(c)
        /\ c.head = "whole"
    BY InvFacts, EventsTyped, WholeContent, ContentIs
  <2> HIDE DEF c
  <2>4. FilesOK' /\ Onward /\ file'.cache = c
    BY <1>1, <2>2, <2>3, InvFacts, Written
  <2>5. Memory'
    BY <1>1, <1>2, <1>6, <2>3, <2>4 DEF Memory, Replacing
  <2> QED BY <2>4, <2>5 DEF Good
<1>7. CASE /\ file.cache.head = "whole" /\ ~ Interrupted(file.cache) /\ step' = "loaded"
           /\ file' = file
  <2>1. FilesOK' /\ Onward
    BY <1>1, <1>7, InvFacts, FilesKept, OnwardSame
  <2>2. Memory'
    BY <1>1, <1>2, <1>7 DEF Memory, Replacing
  <2> QED BY <2>1, <2>2 DEF Good
<1> QED BY <1>3, <1>4, <1>5, <1>6, <1>7 DEF Load

(* An undamaged file is its events.                                        *)
LEMMA Undamaged ==
    ASSUME EventsInv, file.cache.head = "whole", ~ Interrupted(file.cache)
    PROVE  /\ Events(file.cache) = file.cache.frames
           /\ file.cache.frames \in HistoriesTo(next)
           /\ file.cache = Content("whole", file.cache.frames)
<1>1. Events(file.cache) = file.cache.frames
  BY DEF Events
<1>2. file.cache.frames \in HistoriesTo(next)
  BY <1>1, InvFacts, EventsTyped
<1>3. file.cache \in [head : Heads, frames : Seq(0 .. MaxEvents)]
  BY InvFacts DEF WellFormed, Contents
<1> QED BY <1>1, <1>2, <1>3 DEF Content

LEMMA SyncRecoveredGood ==
    ASSUME EventsInv, SyncRecovered
    PROVE  Good
<1>1. /\ temp' = temp /\ events' = events /\ opening' = opening /\ next' = next
      /\ opening /\ file.cache.head = "whole" /\ ~ Interrupted(file.cache)
      /\ former' \in {former, <<>>} /\ file' \in {file, Synced(file)}
      /\ step' \in {"down", "loaded"}
  BY DEF SyncRecovered, NamesAfterSync, EventsInv, Memory, Steps
<1>2. CASE step' = "down"
  BY <1>1, <1>2, LeftAlone
<1>3. CASE step' = "loaded"
  <2>1. file'.cache = file.cache /\ FileOK(file', next)
    BY <1>1, InvFacts, FileSynced, FileSame
  <2>2. FilesOK'
    BY <1>1, <2>1, FilesKept
  <2>3. Onward
    BY <1>1, OnwardSame, OnwardSynced
  <2>4. events \in HistoriesTo(next) /\ Len(events) <= Retention
    BY DEF EventsInv, Memory
  <2>5. Interrupted(file'.cache) = Interrupted(file.cache)
    BY <2>1 DEF Interrupted
  <2>6. Memory'
    BY <1>1, <1>3, <2>1, <2>4, <2>5 DEF Memory, Replacing
  <2> QED BY <2>2, <2>3, <2>6 DEF Good
<1> QED BY <1>1, <1>2, <1>3

LEMMA LoadedGood ==
    ASSUME EventsInv, Loaded
    PROVE  Good
<1>1. /\ file' = file /\ former' = former /\ temp' = temp /\ opening' = opening
      /\ next' = next /\ opening /\ file.cache.head = "whole" /\ ~ Interrupted(file.cache)
      /\ events' = Newest(Events(file.cache))
      /\ step' = IF Len(Events(file.cache)) > Retention THEN "replace" ELSE "idle"
  BY DEF Loaded, EventsInv, Memory, Steps
<1>2. Events(file.cache) = file.cache.frames /\ file.cache.frames \in HistoriesTo(next)
  BY <1>1, Undamaged
<1>3. events' = Newest(file.cache.frames)
  BY <1>1, <1>2
<1>4. events' \in HistoriesTo(next) /\ Len(events') <= Retention
  BY <1>2, <1>3, InvFacts, HistoryNewest
<1>5. FilesOK' /\ Onward
  BY <1>1, InvFacts, FilesKept, OnwardSame
<1>6. CASE step' = "replace"
  <2>1. Memory'
    BY <1>1, <1>3, <1>4, <1>6 DEF Memory, Replacing
  <2> QED BY <1>5, <2>1 DEF Good
<1>7. CASE step' = "idle"
  <2>1. ~ (Len(file.cache.frames) > Retention)
    BY <1>1, <1>2, <1>7
  <2>2. file.cache.frames \in Seq(Nat)
    BY <1>2, InvFacts, HistoryIs
  <2>3. Len(file.cache.frames) <= Retention
    BY <2>1, <2>2, Bounds
  <2>4. events' = file.cache.frames
    BY <1>3, <2>2, <2>3, NewestIs
  <2>5. Memory'
    BY <1>1, <1>4, <1>7, <2>4 DEF Memory, Replacing
  <2> QED BY <1>5, <2>5 DEF Good
<1> QED BY <1>1, <1>6, <1>7

LEMMA AppendWriteGood ==
    ASSUME EventsInv, AppendWrite
    PROVE  Good
<1>1. /\ former' = former /\ temp' = temp /\ events' = events /\ ~ opening'
      /\ next' = next + 1 /\ next <= MaxEvents
      /\ file.cache.head = "whole" /\ ~ Interrupted(file.cache)
      /\ file.cache.frames = events
  BY DEF AppendWrite, EventsInv, Memory, Steps
<1>2. /\ next \in Numbers /\ next' \in Numbers /\ next <= next' /\ next' - 1 = next
      /\ next \in 1 .. MaxEvents
  BY <1>1, InvFacts, Bounds DEF Numbers
<1>3. events \in HistoriesTo(next) /\ Len(events) <= Retention
  BY DEF EventsInv, Memory
<1>4. events \in HistoriesTo(next') /\ Append(events, next) \in HistoriesTo(next')
  BY <1>1, <1>2, <1>3, HistoryGrows, HistoryAppend
<1>5. /\ FileOK(file, next') /\ FileOK(temp, next') /\ former \in Seq(Files)
      /\ \A i \in 1 .. Len(former) : FileOK(former[i], next')
  BY <1>2, InvFacts, Grown
<1>6. events = Events(file.cache) /\ Prefix(Events(file.disk), events)
  BY <1>1, Undamaged, InvFacts
<1>7. ASSUME NEW c, WellFormed(c, next'), c.head = "whole",
             Prefix(Events(file.disk), Events(c)), file' = [file EXCEPT !.cache = c]
      PROVE  FilesOK' /\ Onward /\ file'.cache = c
  <2>1. file'.disk = file.disk /\ file'.cache = c /\ FileOK(file', next')
    BY <1>2, <1>5, <1>7, FileWritten
  <2>2. FilesOK'
    BY <1>1, <1>5, <2>1 DEF FilesOK
  <2> QED BY <1>1, <2>1, <2>2, OnwardSame
<1>8. ASSUME NEW e PROVE
        [file EXCEPT !.cache.frames = Append(@, e)] =
        [file EXCEPT !.cache = Content("whole", Append(events, e))]
  <2>1. file.cache \in [head : Heads, frames : Seq(0 .. MaxEvents)]
    BY InvFacts DEF WellFormed, Contents
  <2>2. [file.cache EXCEPT !.frames = Append(@, e)] = Content("whole", Append(events, e))
    BY <1>1, <2>1 DEF Content
  <2> QED BY <2>2
<1>9. CASE file' = [file EXCEPT !.cache.frames = Append(@, next)] /\ step' = "written"
  <2> DEFINE c == Content("whole", Append(events, next))
  <2>1. /\ WellFormed(c, next') /\ Events(c) = Append(events, next) /\ ~ Interrupted(c)
        /\ c.head = "whole" /\ c.frames = Append(events, next)
    BY <1>2, <1>4, WholeContent, ContentIs
  <2>2. file' = [file EXCEPT !.cache = c]
    BY <1>8, <1>9
  <2> HIDE DEF c
  <2>3. Prefix(Events(file.disk), Events(c))
    <3>1. /\ events \in Seq(Nat) /\ next \in Nat /\ Events(file.disk) \in Seq(Nat)
      BY <1>2, <1>3, InvFacts, HistoryIs, EventsTyped DEF Numbers
    <3>2. Append(events, next) \in Seq(Nat) /\ Prefix(events, Append(events, next))
      BY <3>1, AppendProperties DEF Prefix
    <3> QED BY <1>6, <2>1, <3>1, <3>2, PrefixTrans
  <2>4. FilesOK' /\ Onward /\ file'.cache = c
    BY <1>7, <2>1, <2>2, <2>3
  <2>5. Memory'
    <3>1. file'.cache.frames = Append(events', next' - 1) /\ next' - 1 \in 1 .. MaxEvents
      BY <1>1, <1>2, <2>1, <2>4
    <3> QED BY <1>1, <1>3, <1>4, <1>9, <2>1, <2>4, <3>1 DEF Memory, Replacing
  <2> QED BY <2>4, <2>5 DEF Good
<1>10. CASE step' = "closed"
  <2>1. Memory'
    BY <1>1, <1>3, <1>4, <1>10 DEF Memory, Replacing, Steps
  <2>2. CASE file' = file
    <3>1. FilesOK'
      BY <1>1, <1>5, <2>2 DEF FilesOK
    <3> QED BY <1>1, <2>1, <2>2, <3>1, OnwardSame DEF Good
  <2>3. CASE file' = [file EXCEPT !.cache.frames = Append(@, Damaged)]
    <3> DEFINE c == Content("whole", Append(events, Damaged))
    <3>1. WellFormed(c, next') /\ Events(c) = events /\ c.head = "whole"
      BY <1>2, <1>4, DamagedContent, ContentIs
    <3>2. file' = [file EXCEPT !.cache = c]
      BY <1>8, <2>3
    <3> HIDE DEF c
    <3> QED BY <1>6, <1>7, <2>1, <3>1, <3>2 DEF Good
  <2> QED BY <1>10, <2>2, <2>3 DEF AppendWrite
<1> QED BY <1>9, <1>10 DEF AppendWrite

LEMMA AppendSyncGood ==
    ASSUME EventsInv, AppendSync
    PROVE  Good
<1>1. /\ temp' = temp /\ opening' = opening /\ next' = next /\ ~ opening
      /\ file.cache.head = "whole" /\ ~ Interrupted(file.cache)
      /\ file.cache.frames = Append(events, next - 1) /\ Len(events) <= Retention
      /\ events \in HistoriesTo(next) /\ next - 1 \in 1 .. MaxEvents
  BY DEF AppendSync, EventsInv, Memory, Steps
<1>2. CASE step' = "closed" /\ file' = file /\ former' = former /\ events' = events
  BY <1>1, <1>2, LeftAlone
<1>3. CASE /\ file' = Synced(file) /\ former' = NamesAfterSync
           /\ events' = Newest(Append(events, next - 1))
           /\ step' = IF Len(events) < Retention THEN "idle" ELSE "replace"
  <2>1. former' \in {former, <<>>}
    BY <1>3 DEF NamesAfterSync
  <2>2. file'.cache = file.cache /\ FileOK(file', next)
    BY <1>3, InvFacts, FileSynced, FileSame
  <2>3. FilesOK' /\ Onward
    BY <1>1, <1>3, <2>1, <2>2, FilesKept, OnwardSynced
  <2>4. Append(events, next - 1) \in HistoriesTo(next)
    BY <1>1, Undamaged
  <2>5. events' \in HistoriesTo(next) /\ Len(events') <= Retention
    BY <1>3, <2>4, InvFacts, HistoryNewest
  <2>6. /\ events \in Seq(Nat) /\ next - 1 \in Nat
    BY <1>1, InvFacts, HistoryIs
  <2>7. /\ Append(events, next - 1) \in Seq(Nat) /\ Append(events, next - 1) # <<>>
        /\ Len(Append(events, next - 1)) = Len(events) + 1
        /\ Append(events, next - 1)[Len(events) + 1] = next - 1
    BY <2>6, AppendProperties
  <2>8. events' # <<>> /\ events'[Len(events')] = next - 1
    BY <1>3, <2>7, NewestIs
  <2>9. Interrupted(file'.cache) = Interrupted(file.cache)
    BY <2>2 DEF Interrupted
  <2>10. CASE step' = "idle"
    <3>1. Len(events) < Retention
      BY <1>3, <2>10
    <3>2. Len(Append(events, next - 1)) <= Retention
      BY <2>6, <2>7, <3>1, Bounds
    <3>3. events' = file'.cache.frames
      BY <1>1, <1>3, <2>2, <2>7, <3>2, NewestIs
    <3>4. Memory'
      BY <1>1, <2>2, <2>5, <2>9, <2>10, <3>3 DEF Memory, Replacing
    <3> QED BY <2>3, <3>4 DEF Good
  <2>11. CASE step' = "replace"
    <3>1. events' = Newest(file'.cache.frames)
      BY <1>1, <1>3, <2>2
    <3>2. Memory'
      BY <1>1, <2>2, <2>5, <2>8, <2>9, <2>11, <3>1 DEF Memory, Replacing
    <3> QED BY <2>3, <3>2 DEF Good
  <2> QED BY <1>3, <2>10, <2>11
<1> QED BY <1>2, <1>3 DEF AppendSync

(* What holds through a replacement.                                       *)
LEMMA InReplacement ==
    ASSUME EventsInv, step \in {"replace", "replacement", "publish"}
    PROVE  /\ file.cache.head = "whole" /\ ~ Interrupted(file.cache)
           /\ events \in HistoriesTo(next) /\ Len(events) <= Retention
           /\ events = Newest(file.cache.frames)
           /\ ~ opening => events # <<>> /\ events[Len(events)] = next - 1
  BY DEF EventsInv, Memory, Replacing, Steps

LEMMA WriteReplacementGood ==
    ASSUME EventsInv, WriteReplacement
    PROVE  Good
<1>1. /\ file' = file /\ former' = former /\ events' = events /\ opening' = opening
      /\ next' = next /\ step = "replace"
  BY DEF WriteReplacement
<1>2. CASE step' = Failed /\ temp' = temp
  BY <1>1, <1>2, LeftAlone DEF Failed
<1>3. CASE temp' = File(Content("whole", events), Empty) /\ step' = "replacement"
  <2>1. events \in HistoriesTo(next)
    BY <1>1, InReplacement
  <2>2. /\ WellFormed(Content("whole", events), next) /\ WellFormed(Empty, next)
        /\ Events(Empty) = <<>> /\ Events(Content("whole", events)) = events
    BY <2>1, InvFacts, WholeContent, BareContent DEF Empty, Heads
  <2>3. /\ temp'.cache = Content("whole", events) /\ temp'.disk = Empty /\ temp' \in Files
    BY <1>3, <2>2 DEF File, Files, WellFormed
  <2>4. Prefix(<<>>, events) /\ Empty.head # "whole"
    <3>1. events \in Seq(Nat)
      BY <2>1, InvFacts, HistoryIs
    <3> QED BY <3>1 DEF Prefix, Empty, Content
  <2>5. FileOK(temp', next)
    BY <2>2, <2>3, <2>4 DEF FileOK
  <2>6. FilesOK'
    BY <1>1, <2>5, InvFacts DEF FilesOK
  <2>7. Onward
    BY <1>1, OnwardKept
  <2>8. Memory'
    BY <1>1, <1>3, InReplacement DEF Memory, Replacing
  <2> QED BY <2>6, <2>7, <2>8 DEF Good
<1> QED BY <1>2, <1>3 DEF WriteReplacement

LEMMA SyncReplacementGood ==
    ASSUME EventsInv, SyncReplacement
    PROVE  Good
<1>1. /\ file' = file /\ former' = former /\ events' = events /\ opening' = opening
      /\ next' = next /\ step = "replacement"
  BY DEF SyncReplacement, ReplaceFails
<1>2. CASE step' = Failed /\ temp' = temp
  BY <1>1, <1>2, LeftAlone DEF Failed
<1>3. CASE temp' = Synced(temp) /\ step' = "publish"
  <2>1. FileOK(temp', next) /\ temp' = File(temp.cache, temp.cache)
    BY <1>3, InvFacts, FileSynced
  <2>2. temp = File(Content("whole", events), Empty)
    BY <1>1 DEF EventsInv, Memory
  <2>3. temp' = File(Content("whole", events), Content("whole", events))
    BY <2>1, <2>2 DEF File
  <2>4. FilesOK'
    BY <1>1, <2>1, InvFacts DEF FilesOK
  <2>5. Onward
    BY <1>1, OnwardKept
  <2>6. Memory'
    BY <1>1, <1>3, <2>3, InReplacement DEF Memory, Replacing
  <2> QED BY <2>4, <2>5, <2>6 DEF Good
<1> QED BY <1>2, <1>3 DEF SyncReplacement, ReplaceFails

LEMMA PublishGood ==
    ASSUME EventsInv, Publish
    PROVE  Good
<1>1. /\ temp' = temp /\ events' = events /\ opening' = opening /\ next' = next
      /\ step = "publish"
  BY DEF Publish
<1>2. CASE step' = Failed /\ file' = file /\ former' = former
  BY <1>1, <1>2, LeftAlone DEF Failed
<1>3. CASE file' = temp /\ former' = Append(former, file) /\ step' \in {"published", Failed}
  <2>1. temp = File(Content("whole", events), Content("whole", events))
    BY <1>1 DEF EventsInv, Memory
  <2>2. events \in HistoriesTo(next) /\ Len(events) <= Retention
    BY <1>1, InReplacement
  <2>3. /\ Events(Content("whole", events)) = events /\ ~ Interrupted(Content("whole", events))
        /\ Content("whole", events).head = "whole" /\ events \in Seq(Nat)
    BY <2>2, InvFacts, WholeContent, ContentIs, HistoryIs
  <2>4. file'.disk = Content("whole", events) /\ file'.cache = Content("whole", events)
    BY <1>3, <2>1 DEF File
  <2>5. FilesOK'
    BY <1>1, <1>3, InvFacts, FilesNamed
  <2>6. Follows(Events(file.disk), events)
    <3>1. Events(file.cache) = file.cache.frames /\ file.cache.frames \in HistoriesTo(next)
      BY <1>1, InReplacement, Undamaged
    <3>2. events = Newest(Events(file.cache))
      BY <1>1, <3>1, InReplacement
    <3>3. Follows(Events(file.cache), events)
      BY <3>1, <3>2, InvFacts, HistoryNewest
    <3>4. /\ Events(file.disk) \in Seq(Nat) /\ Rising(Events(file.disk))
          /\ Events(file.cache) \in Seq(Nat) /\ Rising(Events(file.cache))
      BY InvFacts, EventsTyped
    <3>5. Follows(Events(file.disk), Events(file.cache))
      BY <3>4, InvFacts, PrefixFollows
    <3> QED BY <2>3, <3>3, <3>4, <3>5, FollowsTrans
  <2>7. Onward
    BY <1>3, <2>3, <2>4, <2>6, OnwardReplaced
  <2>8. CASE step' = Failed
    <3>1. Memory'
      BY <1>1, <2>8, Left DEF Failed
    <3> QED BY <2>5, <2>7, <3>1 DEF Good
  <2>9. CASE step' = "published"
    <3>1. file' = File(Content("whole", events'), Content("whole", events'))
      BY <1>1, <1>3, <2>1
    <3>2. file'.cache.head = "whole" /\ ~ Interrupted(file'.cache)
      BY <2>3, <2>4
    <3>3. ~ opening => events # <<>> /\ events[Len(events)] = next - 1
      BY <1>1, InReplacement
    <3>4. Memory'
      BY <1>1, <2>2, <2>9, <3>1, <3>2, <3>3 DEF Memory, Replacing
    <3> QED BY <2>5, <2>7, <3>4 DEF Good
  <2> QED BY <1>3, <2>8, <2>9
<1> QED BY <1>2, <1>3 DEF Publish, ReplaceFails

LEMMA SyncDirectoryGood ==
    ASSUME EventsInv, SyncDirectory
    PROVE  Good
<1>1. /\ file' = file /\ temp' = temp /\ events' = events /\ opening' = opening
      /\ next' = next /\ step = "published"
  BY DEF SyncDirectory
<1>2. CASE step' = Failed /\ former' = former
  BY <1>1, <1>2, LeftAlone DEF Failed
<1>3. CASE former' = <<>> /\ step' = "idle"
  <2>1. /\ events \in HistoriesTo(next) /\ Len(events) <= Retention
        /\ file.cache.head = "whole" /\ ~ Interrupted(file.cache)
        /\ file = File(Content("whole", events), Content("whole", events))
    BY <1>1 DEF EventsInv, Memory, Steps
  <2>2. file.cache.frames = events
    BY <2>1 DEF File, Content
  <2>3. FilesOK' /\ Onward
    BY <1>1, <1>3, InvFacts, FilesKept, OnwardSame
  <2>4. Memory'
    BY <1>1, <1>3, <2>1, <2>2 DEF Memory, Replacing
  <2> QED BY <2>3, <2>4 DEF Good
<1> QED BY <1>2, <1>3 DEF SyncDirectory

LEMMA CloseGood ==
    ASSUME EventsInv, Close \/ Kill
    PROVE  Good
<1>1. /\ step' = "down" /\ events' = <<>> /\ next' = next /\ temp' = temp
      /\ file' \in {file, Synced(file)} /\ former' \in {former, <<>>}
  BY DEF Close, Kill, NamesAfterSync
<1> QED BY <1>1, LeftAlone

LEMMA PowerLossGood ==
    ASSUME EventsInv, PowerLoss
    PROVE  Good
<1>1. /\ former' = <<>> /\ step' = "down" /\ events' = <<>> /\ next' = next /\ temp' = temp
  BY DEF PowerLoss
<1>a. PICK f \in {file} \cup Range(former) : \E c \in Survivors(f) : file' = File(c, c)
  BY DEF PowerLoss, PowerLossOutcomes
<1>2. PICK c \in Survivors(f) : file' = File(c, c)
  BY <1>a
<1>3. f = file \/ \E i \in 1 .. Len(former) : f = former[i]
  <2>1. DOMAIN former = 1 .. Len(former)
    BY InvFacts
  <2> QED BY <1>a, <2>1 DEF Range
<1>4. FileOK(f, next)
  BY <1>3, InvFacts
<1>5. WellFormed(c, next) /\ Prefix(Events(f.disk), Events(c))
  BY <1>2, <1>4, InvFacts, SurvivorOK
<1>6. FileOK(file', next) /\ file'.disk = c
  BY <1>2, <1>5, InvFacts, FileSame
<1>7. /\ Events(c) \in Seq(Nat) /\ Rising(Events(c)) /\ Events(f.disk) \in Seq(Nat)
  BY <1>4, <1>5, InvFacts, EventsTyped DEF FileOK
<1>8. Follows(Events(f.disk), Events(c))
  BY <1>5, <1>7, PrefixFollows
<1>9. Follows(Events(Certain), Events(c))
  BY <1>3, <1>7, <1>8, Ahead
<1>10. Onward
  BY <1>1, <1>6, <1>7, <1>9, OnwardNamed
<1>11. FilesOK' /\ Memory'
  BY <1>1, <1>6, FilesKept, Left
<1> QED BY <1>10, <1>11 DEF Good

LEMMA StutterGood ==
    ASSUME EventsInv, UNCHANGED vars
    PROVE  Good
<1>1. FilesOK' /\ Memory'
  BY DEF vars, EventsInv, FilesOK, Memory, Newest
<1>2. Onward
  BY OnwardKept DEF vars
<1> QED BY <1>1, <1>2 DEF Good

LEMMA StepGood ==
    ASSUME EventsInv, [Next]_vars
    PROVE  EventsInv' /\ Onward
<1>1. Good
  BY OpenGood, LoadGood, SyncRecoveredGood, LoadedGood, AppendWriteGood, AppendSyncGood,
     WriteReplacementGood, SyncReplacementGood, PublishGood, SyncDirectoryGood, CloseGood,
     PowerLossGood, StutterGood DEF Next
<1> QED BY <1>1, CountersKept DEF Good, Onward, EventsInv

LEMMA InitGood ==
    ASSUME Init
    PROVE  EventsInv /\ AckedInv /\ Events(Certain) = <<>>
<1>1. next = 1 /\ 1 \in Numbers /\ former = <<>> /\ acked = {}
  BY Bounds DEF Init, Numbers
<1>2. Counters
  <2>1. stale \in BOOLEAN /\ opening \in BOOLEAN /\ step \in Steps
    BY DEF Init, Steps
  <2>2. next \in 1 .. MaxEvents + 1 /\ acked \subseteq 1 .. next - 1
    BY <1>1 DEF Numbers
  <2>3. faults \in 0 .. MaxFaults
    BY Bounds DEF Init
  <2> QED BY <2>1, <2>2, <2>3 DEF Counters
<1>3. /\ WellFormed(Absent, 1) /\ Events(Absent) = <<>>
      /\ WellFormed(Empty, 1)
  BY <1>1, BareContent DEF Absent, Empty, Heads
<1>4. FileOK(file, 1) /\ FileOK(temp, 1) /\ file.disk = Absent
  BY <1>1, <1>3, FileSame DEF Init
<1>5. \A i \in 1 .. Len(former) : FALSE
  BY <1>1
<1>6. FilesOK
  BY <1>1, <1>4, <1>5 DEF FilesOK
<1>7. Memory
  BY <1>1, NoHistory, Bounds DEF Init, Memory, Replacing, Steps
<1>8. Certain = Absent
  BY <1>1, <1>4 DEF Certain
<1>9. <<>> \in Seq(Nat)
  OBVIOUS
<1>10. Follows(<<>>, <<>>)
  BY <1>9, FollowsRefl
<1>11. Later
  BY <1>3, <1>4, <1>5, <1>8, <1>10 DEF Later
<1> QED BY <1>1, <1>2, <1>3, <1>6, <1>7, <1>8, <1>11 DEF EventsInv, AckedInv

LEMMA EventsInvAlways == Spec => []EventsInv
<1>1. Init => EventsInv
  BY InitGood
<1>2. EventsInv /\ [Next]_vars => EventsInv'
  BY StepGood
<1> QED BY <1>1, <1>2, PTL DEF Spec

(* Between calls the memory that answers Recent and BindingHealth is the   *)
(* file, after any recovery, replacement, failure or restart of the store  *)
(* (initialize, Append, replace), whatever a sync does to a file's name.   *)
THEOREM StoreConsistentAlways == Spec => []StoreConsistent
<1>1. EventsInv => StoreConsistent
  <2>1. SUFFICES ASSUME EventsInv PROVE StoreConsistent
    OBVIOUS
  <2>2. file \in Files /\ former \in Seq(Files) /\ temp \in Files
    BY <2>1, InvFacts DEF FileOK
  <2>3. events \in Seq(1 .. MaxEvents) /\ Len(events) <= Retention
    BY <2>1, InvFacts, HistoryIs DEF EventsInv, Memory
  <2>4. TypeOK
    BY <2>1, <2>2, <2>3 DEF TypeOK, EventsInv, Counters, Steps
  <2>5. ASSUME step = "idle" PROVE file.cache = Content("whole", events)
    <3>1. file.cache.head = "whole" /\ ~ Interrupted(file.cache) /\ file.cache.frames = events
      BY <2>1, <2>5 DEF EventsInv, Memory, Steps
    <3> QED BY <2>1, <3>1, Undamaged
  <2> QED BY <2>3, <2>4, <2>5 DEF StoreConsistent, MemoryMatchesFile
<1> QED BY <1>1, EventsInvAlways, PTL

-------------------------------------------------------------------------------
(***************************************************************************)
(* Acknowledged events, where syncing a file makes its name durable.       *)
(***************************************************************************)
(* An event is acknowledged when it is the last of the certain history.    *)
Acknowledges ==
    /\ acked' = acked \cup {next - 1} /\ next - 1 \in Nat /\ former' = <<>>
    /\ file'.disk.head = "whole" /\ Events(file'.disk) # <<>>
    /\ Events(file'.disk)[Len(Events(file'.disk))] = next - 1

LEMMA Acks ==
    ASSUME EventsInv, [Next]_vars, SyncCoversName
    PROVE  acked' = acked \/ Acknowledges
<1>1. CASE AppendSync
  <2>1. /\ file.cache.head = "whole" /\ ~ Interrupted(file.cache)
        /\ file.cache.frames = Append(events, next - 1)
        /\ events \in HistoriesTo(next) /\ next - 1 \in 1 .. MaxEvents
    BY <1>1 DEF AppendSync, EventsInv, Memory, Steps
  <2>2. CASE acked' # acked
    <3>1. file' = Synced(file) /\ former' = <<>> /\ acked' = acked \cup {next - 1}
      BY <1>1, <2>2 DEF AppendSync, NamesAfterSync
    <3>2. file'.disk = file.cache
      BY <3>1, InvFacts, FileSynced, FileSame
    <3>3. Events(file'.disk) = Append(events, next - 1)
      BY <2>1, <3>2, Undamaged
    <3>4. events \in Seq(Nat) /\ next - 1 \in Nat
      BY <2>1, InvFacts, HistoryIs
    <3>5. /\ Append(events, next - 1) # <<>> /\ Len(Append(events, next - 1)) = Len(events) + 1
          /\ Append(events, next - 1)[Len(events) + 1] = next - 1
      BY <3>4, AppendProperties
    <3> QED BY <2>1, <3>1, <3>2, <3>3, <3>4, <3>5 DEF Acknowledges
  <2> QED BY <2>2
<1>2. CASE SyncDirectory
  <2>1. CASE acked' # acked
    <3>1. /\ former' = <<>> /\ file' = file /\ acked' = acked \cup {next - 1} /\ ~ opening
          /\ step = "published"
      BY <1>2, <2>1 DEF SyncDirectory
    <3>2. /\ file = File(Content("whole", events), Content("whole", events))
          /\ events \in HistoriesTo(next) /\ events # <<>> /\ events[Len(events)] = next - 1
      BY <3>1 DEF EventsInv, Memory, Replacing
    <3>3. file'.disk = Content("whole", events)
      BY <3>1, <3>2 DEF File
    <3>4. Events(file'.disk) = events /\ file'.disk.head = "whole"
      BY <3>2, <3>3, InvFacts, WholeContent, ContentIs
    <3>5. next - 1 \in Nat
      BY InvFacts, Bounds DEF Numbers
    <3> QED BY <3>1, <3>2, <3>4, <3>5 DEF Acknowledges
  <2> QED BY <2>1
<1>3. CASE ~ AppendSync /\ ~ SyncDirectory
  BY <1>3 DEF Next, vars, Open, Load, SyncRecovered, Loaded, AppendWrite, WriteReplacement,
     SyncReplacement, Publish, Close, Kill, PowerLoss
<1> QED BY <1>1, <1>2, <1>3

(* Once every header is durable it stays so.                               *)
Headed ==
    /\ file.disk.head = "whole"
    /\ \A i \in 1 .. Len(former) : former[i].disk.head = "whole"

LEMMA HeadedKept ==
    ASSUME EventsInv, [Next]_vars, Headed
    PROVE  Headed'
<1>1. file.disk.head = "whole" /\ file.cache.head = "whole"
  BY InvFacts DEF Headed
<1>2. ASSUME file'.disk.head = "whole", former' \in {former, <<>>}
      PROVE  Headed'
  <2>1. CASE former' = former
    BY <1>2, <2>1 DEF Headed
  <2>2. CASE former' = <<>>
    BY <1>2, <2>2 DEF Headed
  <2> QED BY <1>2, <2>1, <2>2
<1>3. ASSUME file' \in {file, Synced(file)}, former' \in {former, <<>>}
      PROVE  Headed'
  <2>1. file'.disk.head = "whole"
    BY <1>1, <1>3, InvFacts, FileSynced, FileSame
  <2> QED BY <1>2, <1>3, <2>1
<1>4. CASE Open
  <2>1. file' = file /\ former' \in {former, <<>>}
    BY <1>1, <1>4 DEF Open, CleanupStaleReplacements
  <2> QED BY <1>3, <2>1
<1>5. CASE Load \/ AppendWrite
  <2>1. file'.disk = file.disk /\ former' = former
    <3>1. file \in Files
      BY InvFacts DEF FileOK
    <3> QED BY <1>5, <3>1 DEF Load, AppendWrite, Files
  <2> QED BY <1>1, <1>2, <2>1
<1>6. CASE SyncRecovered \/ AppendSync \/ Close
  <2>1. file' \in {file, Synced(file)} /\ former' \in {former, <<>>}
    BY <1>6 DEF SyncRecovered, AppendSync, Close, NamesAfterSync
  <2> QED BY <1>3, <2>1
<1>7. CASE Loaded \/ WriteReplacement \/ SyncReplacement \/ SyncDirectory \/ Kill
           \/ UNCHANGED vars
  <2>1. file' = file /\ former' \in {former, <<>>}
    BY <1>7 DEF Loaded, WriteReplacement, SyncReplacement, ReplaceFails, SyncDirectory, Kill, vars
  <2> QED BY <1>3, <2>1
<1>8. CASE Publish
  <2>1. CASE file' = file /\ former' = former
    BY <1>3, <2>1
  <2>2. CASE file' = temp /\ former' = Append(former, file)
    <3>1. temp = File(Content("whole", events), Content("whole", events))
      BY <1>8 DEF Publish, EventsInv, Memory
    <3>2. file'.disk.head = "whole"
      BY <2>2, <3>1 DEF File, Content
    <3>3. former \in Seq(Files) /\ file \in Files
      BY InvFacts DEF FileOK
    <3>4. /\ Len(former') = Len(former) + 1 /\ former'[Len(former) + 1] = file
          /\ \A i \in 1 .. Len(former) : former'[i] = former[i]
      BY <2>2, <3>3, AppendProperties
    <3>5. \A i \in 1 .. Len(former') : i \in 1 .. Len(former) \/ i = Len(former) + 1
      BY <3>3, <3>4
    <3> QED BY <1>1, <3>2, <3>4, <3>5 DEF Headed
  <2> QED BY <1>8, <2>1, <2>2 DEF Publish, ReplaceFails
<1>9. CASE PowerLoss
  <2>1. former' = <<>>
    BY <1>9 DEF PowerLoss
  <2>2. PICK f \in {file} \cup Range(former) : \E c \in Survivors(f) : file' = File(c, c)
    BY <1>9 DEF PowerLoss, PowerLossOutcomes
  <2>3. PICK c \in Survivors(f) : file' = File(c, c)
    BY <2>2
  <2>4. DOMAIN former = 1 .. Len(former)
    BY InvFacts
  <2>5. f = file \/ \E i \in 1 .. Len(former) : f = former[i]
    BY <2>2, <2>4 DEF Range
  <2>6. FileOK(f, next) /\ f.disk.head = "whole"
    BY <2>5, InvFacts DEF Headed
  <2>7. c.head = "whole" /\ file'.disk = c
    BY <2>3, <2>6, InvFacts, SurvivorOK DEF File
  <2> QED BY <1>2, <2>1, <2>7
<1> QED BY <1>4, <1>5, <1>6, <1>7, <1>8, <1>9 DEF Next

LEMMA CertainTyped ==
    ASSUME EventsInv'
    PROVE  Events(Certain)' \in Seq(Nat) /\ Rising(Events(Certain)')
<1>1. next' \in Numbers
  BY DEF EventsInv, Counters, Numbers
<1>2. CASE former' = <<>>
  <2>1. FileOK(file', next') /\ Certain' = file'.disk
    BY <1>2 DEF EventsInv, FilesOK, Certain
  <2> QED BY <1>1, <2>1, EventsTyped DEF FileOK
<1>3. CASE former' # <<>>
  <2>1. former' \in Seq(Files) /\ \A i \in 1 .. Len(former') : FileOK(former'[i], next')
    BY DEF EventsInv, FilesOK
  <2>2. 1 \in 1 .. Len(former')
    BY <1>3, <2>1
  <2>3. FileOK(former'[1], next') /\ Certain' = former'[1].disk
    BY <1>3, <2>1, <2>2 DEF Certain
  <2> QED BY <1>1, <2>3, EventsTyped DEF FileOK
<1> QED BY <1>2, <1>3

LEMMA AckedInvKept ==
    ASSUME EventsInv, AckedInv, [Next]_vars, SyncCoversName
    PROVE  AckedInv'
<1>1. EventsInv' /\ Onward
  BY StepGood
<1>2. /\ Events(Certain) \in Seq(Nat) /\ Rising(Events(Certain))
      /\ next \in Numbers /\ next' \in Numbers
  BY CertainOK, InvFacts, <1>1 DEF EventsInv, Counters, Numbers
<1>3. Events(Certain)' \in Seq(Nat)
  BY <1>1, CertainTyped
<1>4. acked \in SUBSET Nat
  <2>1. acked \subseteq 1 .. next - 1
    BY DEF EventsInv, Counters
  <2> QED BY <1>2, <2>1, Bounds DEF Numbers
<1>5. acked # {} => Holds(Events(Certain)', acked)
  BY <1>1, <1>2, <1>3, <1>4, FollowsHolds DEF AckedInv, Onward
<1>6. acked # {} => Headed'
  BY HeadedKept DEF AckedInv, Headed
<1>7. CASE acked' = acked
  BY <1>5, <1>6, <1>7 DEF AckedInv, Headed
<1>8. CASE Acknowledges
  <2>1. Certain' = file'.disk
    BY <1>8 DEF Acknowledges, Certain
  <2>2. Events(Certain)' = Events(file'.disk)
    BY <2>1 DEF Events, Interrupted
  <2>3. next - 1 \in Range(Events(file'.disk))
    <3> DEFINE s == Events(file'.disk)
    <3>1. s \in Seq(Nat) /\ s # <<>> /\ s[Len(s)] = next - 1
      BY <1>3, <1>8, <2>2 DEF Acknowledges
    <3> HIDE DEF s
    <3>2. Len(s) \in DOMAIN s
      BY <3>1
    <3>3. next - 1 \in Range(s)
      BY <3>1, <3>2 DEF Range
    <3> QED BY <3>3 DEF s
  <2>4. \A e \in acked : \/ e \in Range(Events(file'.disk))
                         \/ /\ Len(Events(file'.disk)) >= Retention
                            /\ e < Events(file'.disk)[1]
    BY <1>5, <2>2 DEF Holds
  <2>5. Holds(Events(Certain)', acked')
    BY <1>8, <2>2, <2>3, <2>4 DEF Holds, Acknowledges
  <2>6. Headed'
    BY <1>8 DEF Acknowledges, Headed
  <2> QED BY <2>5, <2>6 DEF AckedInv, Headed
<1> QED BY <1>7, <1>8, Acks

LEMMA AckedInvAlways ==
    ASSUME SyncCoversName
    PROVE  Spec => [](EventsInv /\ AckedInv)
<1>1. Init => EventsInv /\ AckedInv
  BY InitGood
<1>2. EventsInv /\ AckedInv /\ [Next]_vars => (EventsInv /\ AckedInv)'
  BY StepGood, AckedInvKept
<1> QED BY <1>1, <1>2, PTL DEF Spec

(* Append "durably records one validated event before returning": after    *)
(* any failed calls, kills and power failures the next Open can read the   *)
(* file and finds every acknowledged event but those that Retention newer  *)
(* ones pushed out, where File.Sync makes the name of a file durable.      *)
THEOREM AckedSurviveAlways ==
    ASSUME SyncCoversName
    PROVE  Spec => []AckedSurvive
<1>1. EventsInv /\ AckedInv => AckedSurvive
  <2>1. SUFFICES ASSUME EventsInv, AckedInv, acked # {},
                        NEW c \in PowerLossOutcomes \cup {file.cache}
                 PROVE  Readable(c) /\ Holds(Events(c), acked)
    BY DEF AckedSurvive, Holds
  <2>2. PICK f \in {file} \cup Range(former) : c \in Survivors(f)
    BY <2>1 DEF PowerLossOutcomes, Survivors
  <2>3. DOMAIN former = 1 .. Len(former)
    BY <2>1, InvFacts
  <2>4. f = file \/ \E i \in 1 .. Len(former) : f = former[i]
    BY <2>2, <2>3 DEF Range
  <2>5. FileOK(f, next) /\ f.disk.head = "whole" /\ next \in Numbers
    BY <2>1, <2>4, InvFacts DEF AckedInv
  <2>6. WellFormed(c, next) /\ Prefix(Events(f.disk), Events(c)) /\ c.head = "whole"
    BY <2>2, <2>5, SurvivorOK
  <2>7. /\ Events(c) \in Seq(Nat) /\ Rising(Events(c)) /\ Events(f.disk) \in Seq(Nat)
    BY <2>5, <2>6, EventsTyped DEF FileOK
  <2>8. Follows(Events(f.disk), Events(c))
    BY <2>6, <2>7, PrefixFollows
  <2>9. Follows(Events(Certain), Events(c))
    BY <2>1, <2>4, <2>7, <2>8, Ahead
  <2>10. acked \in SUBSET Nat
    <3>1. acked \subseteq 1 .. next - 1
      BY <2>1 DEF EventsInv, Counters
    <3> QED BY <2>5, <3>1, Bounds DEF Numbers
  <2>11. Holds(Events(c), acked)
    BY <2>1, <2>7, <2>9, <2>10, CertainOK, FollowsHolds DEF AckedInv
  <2>12. Readable(c)
    BY <2>6 DEF Readable, WellFormed
  <2> QED BY <2>11, <2>12
<1> QED BY <1>1, AckedInvAlways, PTL

LEMMA LogAscending ==
    ASSUME NEW s
    PROVE  Log!Ascending(s) = Rising(s) /\ Log!Newest(s) = Newest(s)
  BY DEF Log!Ascending, Rising, Log!Newest, Newest

(* The store implements the abstract log, where File.Sync makes the name   *)
(* of a file durable: what is certain to last takes events in the order of *)
(* Append, loses only the oldest of more than Retention, and takes nothing *)
(* back, through every recovery, replacement and crash.                    *)
THEOREM StoreImplementsLog ==
    ASSUME SyncCoversName
    PROVE  Spec => ImplementsLog
<1>1. Init => Log!Init
  <2>1. SUFFICES ASSUME Init PROVE Newest(Events(Certain)) = <<>> /\ acked = {}
    BY DEF Log!Init
  <2>2. <<>> \in Seq(Nat) /\ Len(<<>>) <= Retention
    BY Bounds
  <2>3. Newest(<<>>) = <<>>
    BY <2>2, NewestIs
  <2> QED BY <2>1, <2>3, InitGood DEF Init
<1>2. EventsInv /\ AckedInv /\ [Next]_vars => [Log!Next]_(Log!vars)
  <2>1. SUFFICES ASSUME EventsInv, AckedInv, [Next]_vars PROVE Log!Record
    BY DEF Log!Next
  <2> DEFINE k == Newest(Events(Certain))
             l == Newest(Events(Certain)')
  <2>2. EventsInv' /\ Onward
    BY <2>1, StepGood
  <2>3. Events(Certain) \in Seq(Nat) /\ Rising(Events(Certain))
    BY <2>1, CertainOK
  <2>4. Events(Certain)' \in Seq(Nat) /\ Rising(Events(Certain)')
    BY <2>2, CertainTyped
  <2>5. Follows(k, l)
    BY <2>2, <2>3, <2>4, NewestFollows DEF Onward
  <2>6. /\ k \in Seq(Nat) /\ Rising(k) /\ l \in Seq(Nat) /\ Rising(l) /\ Short(l)
    BY <2>3, <2>4, NewestIs, NewestRises DEF Short
  <2>7. PICK n \in 0 .. Len(l) :
          /\ l = Newest(k \o SubSeq(l, n + 1, Len(l)))
          /\ Rising(k \o SubSeq(l, n + 1, Len(l)))
    BY <2>5, <2>6, FollowsRecorded
  <2>8. acked' = acked \/ (l # <<>> /\ acked' = acked \cup {l[Len(l)]})
    <3>1. CASE Acknowledges
      <4>1. Certain' = file'.disk
        BY <3>1 DEF Acknowledges, Certain
      <4>2. /\ Events(Certain)' # <<>>
            /\ Events(Certain)'[Len(Events(Certain)')] = next - 1
        BY <3>1, <4>1 DEF Acknowledges
      <4>3. l # <<>> /\ l[Len(l)] = next - 1
        BY <2>4, <4>2, NewestIs
      <4> QED BY <3>1, <4>3 DEF Acknowledges
    <3> QED BY <2>1, <3>1, Acks
  <2>9. l = Newest(Events(Certain))'
    BY DEF Newest
  <2> HIDE DEF k, l
  <2> QED BY <2>7, <2>8, <2>9, LogAscending DEF Log!Record, k
<1>3. QED
  BY <1>1, <1>2, AckedInvAlways, PTL DEF Spec, ImplementsLog, Log!Spec
===============================================================================

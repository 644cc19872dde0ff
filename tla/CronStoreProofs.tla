-------------------------- MODULE CronStoreProofs --------------------------
(* What CronStore keeps for every set of jobs, every schedule and every       *)
(* bound: removals hold, the timer covers its jobs, no occurrence runs twice  *)
(* and no job leaves without a reason.                                        *)
EXTENDS CronStore, TLAPS

\* The gateway's own jobs have their ids from the start and are not removed.
IdsInv ==
    /\ System \subseteq ever /\ gone \subseteq ever \ System
    /\ \A j \in Jobs : started[j] <= now /\ (started[j] # 0 => j \in ever)

DownInv ==
    ~up => mem = NoJobs /\ ~dirty /\ timer = "none" /\ current = NoJob /\ manual = {}

\* The file is what a reload would have to find: the jobs in memory, unless it was lost.
FileInv ==
    /\ file # "sound" => disk = NoJobs
    /\ up /\ ~dirty /\ Idle /\ file = "sound" => disk = mem

\* Of a list and the notes of a journal beside it: a job that is known has its id, and no occurrence
\* counts as started while a record of its job waits in the journal.
Known(m, notes) ==
    \A j \in Jobs : /\ m[j] # Gone \/ notes[j] # NoEdit => j \in ever
                    /\ notes[j] \notin {Gone, NoEdit} => started[j] = 0

\* The journal says of each removed job that it is gone, or the list does.
Absent(m, notes, j) == notes[j] = Gone \/ (notes[j] = NoEdit /\ m[j] = Gone)
Cleared(m, notes) == \A j \in gone : Absent(m, notes, j)

\* An occurrence that may still be started comes after the last one that was.
Later(r, j) == r \notin {Gone, NoEdit} /\ r.on /\ r.next # Never => r.next > started[j]
Ahead(m) == \A j \in Jobs : j = current \/ Later(m[j], j)

Lists == [Jobs -> Job \cup {Gone}]
Notes == [Jobs -> Job \cup {Gone, NoEdit}]
Sane(m, notes) == m \in Lists /\ notes \in Notes /\ Known(m, notes) /\ Cleared(m, notes) /\ Ahead(m)

MemInv == up => Sane(mem, journal)
DiskInv == Known(disk, journal) /\ (~dirty => Cleared(disk, journal))

IInv == TypeOK /\ IdsInv /\ DownInv /\ FileInv /\ MemInv /\ DiskInv /\ TimerCovers

Kept == IF Merges THEN Empty ELSE journal   \* the journal after a load
\* Jobs that the last load can have added behind the timer's back.
Noted == IF Merges THEN {j \in Jobs : journal[j] # NoEdit} ELSE {}

-----------------------------------------------------------------------------
(* What the operators return.                                               *)

LEMMA Constants ==
    /\ MaxNow \in Nat \ {0} /\ MaxSleep \in Nat \ {0}
    /\ OneShot \subseteq Jobs /\ System \subseteq Jobs /\ DeleteAfter \subseteq OneShot
    /\ System \cap OneShot = {} /\ NoJob \notin Jobs
    /\ Gone \notin Job /\ NoEdit \notin Job /\ Gone # NoEdit
    /\ Job \subseteq [on : BOOLEAN, when : Nat, next : Nat]
    /\ NoJobs \in Lists /\ Empty \in Notes
    /\ \A j \in Jobs : NoJobs[j] = Gone /\ Empty[j] = NoEdit
<1>1. Gone.next = -1 /\ NoEdit.next = -2 /\ \A r \in Job : r.next \in Nat
  BY CronAssumption DEF Gone, NoEdit, Job, Never, Times
<1> QED
  BY <1>1, CronAssumption DEF Job, Never, Times, NoJobs, Empty, Lists, Notes

\* A new schedule lies ahead of the clock or has no next run.
LEMMA RescheduledIsAhead ==
    ASSUME now \in Times, NEW j \in Jobs, NEW on \in BOOLEAN, NEW w \in Nat
    PROVE  /\ Rescheduled(j, on, w) \in Job
           /\ Rescheduled(j, on, w).next # Never => Rescheduled(j, on, w).next > now
<1>1. NextRun(j, w) \in {Never} \cup Times /\ (NextRun(j, w) # Never => NextRun(j, w) > now)
  BY CronAssumption DEF NextRun, Never, Times
<1> QED
  BY <1>1 DEF Rescheduled, Job, Never

LEMMA WhensAreTimes ==
    ASSUME NEW j \in Jobs, NEW w \in Whens[j] PROVE w \in Nat
  BY CronAssumption

\* A merge takes each job from the journal or, if that says nothing, from the list.
LEMMA MergedTyped ==
    ASSUME TypeOK, NEW m \in Lists
    PROVE  /\ Merged(m) \in Lists
           /\ \A j \in Jobs : Merged(m)[j] = IF journal[j] = NoEdit THEN m[j] ELSE journal[j]
  BY DEF TypeOK, Lists, Merged

\* The end of a run touches its own job alone, and leaves it gone or with nothing due.
LEMMA AfterRunTyped ==
    ASSUME TypeOK, NEW k \in Jobs
    PROVE  /\ AfterRun(k) \in Lists
           /\ \A j \in Jobs : j # k \/ mem[j] = Gone => AfterRun(k)[j] = mem[j]
           /\ AfterRun(k)[k] # Gone /\ AfterRun(k)[k].next # Never => AfterRun(k)[k].next > now
           /\ AfterRun(k)[k] = Gone /\ mem[k] # Gone => k \in DeleteAfter
<1>1. CASE mem[k] = Gone
  BY <1>1, Constants DEF AfterRun, TypeOK, Lists
<1>2. CASE mem[k] # Gone /\ k \in DeleteAfter
  BY <1>2, Constants DEF AfterRun, TypeOK, Lists
<1>3. CASE mem[k] # Gone /\ k \notin DeleteAfter
  <2>1. mem[k] \in Job /\ mem[k].when \in Nat /\ mem[k].on \in BOOLEAN
    BY <1>3 DEF TypeOK, Job
  <2>2. NextRun(k, mem[k].when) \in {Never} \cup Times
        /\ (NextRun(k, mem[k].when) # Never => NextRun(k, mem[k].when) > now)
    BY <2>1, CronAssumption DEF NextRun, Never, Times, TypeOK
  <2>3. [mem[k] EXCEPT !.on = FALSE, !.next = Never] \in Job
    BY <2>1 DEF Job
  <2>4. /\ [mem[k] EXCEPT !.next = NextRun(k, mem[k].when)] \in Job
        /\ [mem[k] EXCEPT !.next = NextRun(k, mem[k].when)].next = NextRun(k, mem[k].when)
    BY <2>1, <2>2 DEF Job
  <2>5. /\ AfterRun(k) \in Lists
        /\ \A j \in Jobs : j # k => AfterRun(k)[j] = mem[j]
        /\ AfterRun(k)[k] = IF k \in OneShot THEN [mem[k] EXCEPT !.on = FALSE, !.next = Never]
                            ELSE [mem[k] EXCEPT !.next = NextRun(k, mem[k].when)]
    BY <1>3, <2>3, <2>4 DEF AfterRun, TypeOK, Lists
  <2>6. [mem[k] EXCEPT !.on = FALSE, !.next = Never].next = Never
    BY <2>1 DEF Job
  <2>7. AfterRun(k)[k] \in Job
    BY <2>3, <2>4, <2>5
  <2> QED
    BY <1>3, <2>2, <2>4, <2>5, <2>6, <2>7, Constants
<1> QED
  BY <1>1, <1>2, <1>3

\* An alarm rings in time for every scheduled job of the list.
LEMMA AlarmCovers ==
    ASSUME now \in Times, NEW m \in Lists, NEW t \in Alarms(m)
    PROVE  /\ t \in 0 .. MaxNow
           /\ \A j \in Jobs : Scheduled(m, j) => t <= now \/ t <= m[j].next
  BY Constants DEF Alarms, Scheduled, Times

-----------------------------------------------------------------------------
(* What a load finds.                                                       *)

LEMMA MergedMemIsSane ==
    ASSUME IInv, up PROVE Sane(Merged(mem), Empty)
<1>1. Sane(mem, journal) /\ mem \in Lists /\ TypeOK
  BY DEF IInv, MemInv, Sane
<1>2. /\ Merged(mem) \in Lists
      /\ \A j \in Jobs : Merged(mem)[j] = IF journal[j] = NoEdit THEN mem[j] ELSE journal[j]
  BY <1>1, MergedTyped
<1>3. Ahead(Merged(mem))
  <2> SUFFICES ASSUME NEW j \in Jobs PROVE Later(Merged(mem)[j], j) \/ j = current
    BY DEF Ahead
  <2>1. CASE journal[j] = NoEdit
    BY <2>1, <1>1, <1>2 DEF Sane, Ahead
  <2>2. CASE journal[j] = Gone
    BY <2>2, <1>2, Constants DEF Later
  <2>3. CASE journal[j] \notin {NoEdit, Gone}
    <3>1. started[j] = 0 /\ journal[j] \in Job
      BY <2>3, <1>1 DEF Sane, Known, Notes
    <3> QED
      BY <2>3, <3>1, <1>2, Constants DEF Later, Never
  <2> QED
    BY <2>1, <2>2, <2>3
<1>4. gone \subseteq Jobs
  BY DEF IInv, TypeOK
<1>5. Known(Merged(mem), Empty)
  BY <1>1, <1>2, Constants DEF Sane, Known
<1>6. Cleared(Merged(mem), Empty)
  BY <1>1, <1>2, <1>4, Constants DEF Sane, Cleared, Absent
<1> QED
  BY <1>2, <1>3, <1>5, <1>6, Constants DEF Sane

\* When the file is read it holds the jobs in memory, or nothing at all.
LEMMA ReloadFindsMemory ==
    ASSUME IInv, up, Reloads, file # "damaged"
    PROVE  \/ file = "sound" /\ disk = mem
           \/ file = "missing" /\ disk = NoJobs
  BY DEF IInv, FileInv, Reloads, TypeOK

LEMMA NothingIsSane ==
    ASSUME IInv, up PROVE Sane(Merged(NoJobs), Empty)
<1>1. /\ Merged(NoJobs) \in Lists /\ Merged(mem) \in Lists
      /\ \A j \in Jobs : Merged(NoJobs)[j] \in {Gone, Merged(mem)[j]}
  BY MergedTyped, Constants DEF IInv, TypeOK, Lists
<1>2. Sane(Merged(mem), Empty)
  BY MergedMemIsSane
<1>3. \A j \in Jobs : Later(Gone, j)
  BY DEF Later
<1>4. gone \subseteq Jobs
  BY DEF IInv, TypeOK
<1>5. Ahead(Merged(NoJobs))
  BY <1>1, <1>2, <1>3 DEF Sane, Ahead
<1> QED
  BY <1>1, <1>2, <1>4, <1>5, Constants DEF Sane, Absent, Known, Cleared

LEMMA MergedNothing ==
    ASSUME TypeOK, NEW m \in Lists, ~Pending PROVE Merged(m) = m
  BY MergedTyped DEF Pending, TypeOK, Lists

\* A load leaves a sane list in memory, drops nothing without a reason and adds only what the
\* journal notes.
LEMMA ViewIsSane ==
    ASSUME IInv, up
    PROVE  /\ Sane(View, Kept)
           /\ \A j \in Jobs : mem[j] # Gone /\ View[j] = Gone => journal[j] = Gone \/ file = "missing"
           /\ \A j \in Jobs : j \in Noted \/ View[j] \in {mem[j], Gone}
<1>0. Sane(mem, journal) /\ TypeOK
  BY DEF IInv, MemInv
<1>1. CASE ~Reloads \/ file = "damaged"
  BY <1>0, <1>1 DEF View, Kept, Merges
<1>2. CASE Reloads /\ file # "damaged"
  <2>1. View = Merged(disk) /\ disk \in Lists
    BY <1>0, <1>2 DEF View, TypeOK, Lists
  <2>2. CASE Pending
    <3>1. Kept = Empty /\ Noted = {j \in Jobs : journal[j] # NoEdit}
      BY <1>2, <2>2 DEF Kept, Noted, Merges
    <3>2. Sane(View, Kept)
      BY <1>2, <2>1, <3>1, ReloadFindsMemory, MergedMemIsSane, NothingIsSane
    <3>3. \A j \in Jobs : View[j] = IF journal[j] = NoEdit THEN disk[j] ELSE journal[j]
      BY <1>0, <2>1, MergedTyped
    <3> QED
      BY <1>2, <3>1, <3>2, <3>3, ReloadFindsMemory, Constants
  <2>3. CASE ~Pending
    <3>1. View = disk /\ Kept = journal /\ Noted = {}
      BY <1>0, <2>1, <2>3, MergedNothing DEF Kept, Noted, Merges
    <3>2. CASE disk = mem
      BY <1>0, <3>1, <3>2
    <3>3. CASE file = "missing" /\ disk = NoJobs
      <4>1. \A j \in Jobs : journal[j] = NoEdit
        BY <2>3 DEF Pending
      <4>2. Merged(NoJobs) = NoJobs
        BY <1>0, <2>3, MergedNothing, Constants
      <4>3. journal = Empty
        BY <1>0, <4>1 DEF Empty, TypeOK
      <4> QED
        BY <3>1, <3>3, <4>2, <4>3, NothingIsSane, Constants
    <3> QED
      BY <1>2, <3>2, <3>3, ReloadFindsMemory
  <2> QED
    BY <2>2, <2>3
<1> QED
  BY <1>1, <1>2

\* So does the load of a manual run.
FreshKept == IF Idle /\ dirty THEN Empty ELSE Kept
LEMMA FreshIsSane ==
    ASSUME IInv, up
    PROVE  /\ Sane(Fresh, FreshKept)
           /\ \A j \in Jobs : mem[j] # Gone /\ Fresh[j] = Gone => journal[j] = Gone \/ file = "missing"
<1>0. Sane(mem, journal) /\ TypeOK
  BY DEF IInv, MemInv
<1>1. CASE ~dirty
  <2>1. Fresh = View /\ FreshKept = Kept
    BY <1>1 DEF Fresh, FreshKept, View, Reloads
  <2> QED
    BY <2>1, ViewIsSane
<1>2. CASE dirty /\ Idle
  <2>1. Fresh = Merged(mem) /\ FreshKept = Empty
    BY <1>2 DEF Fresh, FreshKept, Reloads
  <2>2. \A j \in Jobs : Fresh[j] = IF journal[j] = NoEdit THEN mem[j] ELSE journal[j]
    BY <1>0, <2>1, MergedTyped DEF TypeOK, Lists
  <2> QED
    BY <2>1, <2>2, MergedMemIsSane
<1>3. CASE dirty /\ ~Idle
  <2>1. Fresh = mem /\ FreshKept = journal
    BY <1>3 DEF Fresh, FreshKept, Kept, Merges, Reloads
  <2> QED
    BY <1>0, <2>1
<1> QED
  BY <1>1, <1>2, <1>3

\* What a load leaves on disk.
LEMMA LoadedDiskIsSane ==
    ASSUME IInv, up
    PROVE  /\ LoadedDisk \in Lists /\ Kept \in Notes
           /\ Known(LoadedDisk, Kept) /\ (~dirty => Cleared(LoadedDisk, Kept))
           /\ LoadedFile \in {"sound", "damaged", "missing"}
           /\ LoadedFile # "sound" => LoadedDisk = NoJobs
           /\ Reloads /\ LoadedFile = "sound" => LoadedDisk = View
<1>1. CASE Merges
  BY <1>1, ViewIsSane DEF LoadedDisk, LoadedFile, Merges, Sane
<1>2. CASE ~Merges
  <2>1. LoadedDisk = disk /\ Kept = journal /\ LoadedFile \in {file, "missing"}
        /\ (LoadedFile # file => file = "damaged")
    BY <1>2 DEF LoadedDisk, LoadedFile, Kept
  <2>2. disk \in Lists /\ journal \in Notes /\ file \in {"sound", "damaged", "missing"}
    BY DEF IInv, TypeOK, Lists, Notes
  <2>3. ASSUME Reloads, file = "sound" PROVE disk = View
    BY <1>2, <2>2, <2>3, MergedNothing DEF Merges, View, IInv
  <2> QED
    BY <2>1, <2>2, <2>3 DEF IInv, DiskInv, FileInv
<1> QED
  BY <1>1, <1>2

-----------------------------------------------------------------------------
(* The steps.                                                               *)

LEMMA StartStep ==
    ASSUME IInv, Start PROVE IInv'
<1>1. PICK enabled \in SUBSET System, every \in Schedules :
          /\ mem' = Recomputed(Registered(Merged(disk), enabled, every))
          /\ disk' = mem'
          /\ Arms(Recomputed(Registered(Merged(disk), enabled, every)))
  BY DEF Start
<1> DEFINE r == Registered(Merged(disk), enabled, every)
<1>2. TypeOK /\ ~up /\ ~dirty /\ current = NoJob /\ manual = {} /\ timer = "none"
  BY DEF Start, IInv, DownInv
<1>3. /\ Merged(disk) \in Lists
      /\ \A j \in Jobs : Merged(disk)[j] = IF journal[j] = NoEdit THEN disk[j] ELSE journal[j]
  BY <1>2, MergedTyped DEF TypeOK, Lists
<1>4. \A j \in System : every[j] \in Nat
  BY CronAssumption, Constants DEF Schedules
<1>5. \A j \in Jobs : r[j] = IF j \in enabled THEN [on |-> TRUE, when |-> every[j], next |-> Never]
                             ELSE IF j \in System THEN Gone ELSE Merged(disk)[j]
  BY DEF Registered
<1>6. \A j \in System : [on |-> TRUE, when |-> every[j], next |-> Never] \in Job
  BY <1>4 DEF Job, Never
<1>7. r \in Lists
  BY <1>3, <1>5, <1>6, Constants DEF Lists, Registered
<1>8. \A j \in Jobs : mem'[j] = IF r[j] # Gone /\ r[j].on THEN Rescheduled(j, TRUE, r[j].when) ELSE r[j]
  BY <1>1 DEF Recomputed
<1> HIDE DEF r
<1>9. ASSUME NEW j \in Jobs, r[j] # Gone, r[j].on
      PROVE  mem'[j] \in Job /\ (mem'[j].next # Never => mem'[j].next > now)
  <2>1. r[j] \in Job
    BY <1>7, <1>9 DEF Lists
  <2>2. r[j].when \in Nat
    BY <2>1 DEF Job
  <2> QED
    BY <1>2, <1>8, <1>9, <2>2, RescheduledIsAhead DEF TypeOK
<1>10. mem' \in Lists
  <2>1. \A j \in Jobs : mem'[j] \in Job \cup {Gone}
    BY <1>7, <1>8, <1>9 DEF Lists
  <2> QED
    BY <1>1, <2>1 DEF Recomputed, Lists
<1>11. \A j \in Jobs : r[j] = Gone => mem'[j] = Gone
  BY <1>8
<1>12. Known(mem, journal)'
  BY <1>3, <1>5, <1>8, Constants DEF Start, Known, IInv, DiskInv, IdsInv, history
<1>13. Cleared(mem, journal)'
  <2>1. \A j \in gone : j \in Jobs /\ j \notin System /\ Absent(disk, journal, j)
    BY <1>2 DEF IInv, DiskInv, IdsInv, Cleared, TypeOK
  <2>2. \A j \in gone : mem'[j] = Gone
    BY <2>1, <1>3, <1>5, <1>11, Constants DEF Absent
  <2> QED
    BY <2>1, <2>2, Constants DEF Start, Cleared, Absent, history
<1>14. Ahead(mem)'
  <2> SUFFICES ASSUME NEW j \in Jobs PROVE Later(mem[j], j)'
    BY DEF Ahead
  <2>1. started'[j] = started[j] /\ started[j] <= now /\ started[j] \in Nat /\ now \in Nat
    BY <1>2 DEF Start, history, IInv, IdsInv, TypeOK, Times
  <2>2. CASE r[j] # Gone /\ r[j].on
    BY <1>9, <2>1, <2>2, Constants DEF Later
  <2>3. CASE ~(r[j] # Gone /\ r[j].on)
    BY <1>8, <2>3 DEF Later
  <2> QED
    BY <2>2, <2>3
<1>15. MemInv'
  BY <1>10, <1>12, <1>13, <1>14, Constants DEF MemInv, Sane, Start
<1>16. DiskInv'
  BY <1>1, <1>12, <1>13 DEF DiskInv, Start
<1>17. /\ timer' = "armed" /\ wake' \in 0 .. MaxNow /\ unseen' = {}
       /\ \A j \in Jobs : Scheduled(mem', j) => wake' <= now \/ wake' <= mem'[j].next
  <2>1. wake' \in Alarms(mem') /\ timer' = "armed" /\ unseen' = {}
    BY <1>1 DEF Arms
  <2> QED
    BY <2>1, <1>2, <1>10, AlarmCovers DEF TypeOK
<1>18. TimerCovers'
  BY <1>17 DEF TimerCovers, Scheduled, Start
<1>19. TypeOK'
  BY <1>1, <1>2, <1>10, <1>17, Constants DEF TypeOK, Start, history, Lists, Notes
<1> QED
  BY <1>1, <1>15, <1>16, <1>18, <1>19 DEF IInv, IdsInv, DownInv, FileInv, Start, history

LEMMA HaltStep ==
    ASSUME IInv, Stop \/ CrashInMerge PROVE IInv'
<1>1. DiskInv'
  <2>1. \A j \in gone : j \in Jobs
    BY DEF IInv, TypeOK
  <2>2. CASE Stop /\ dirty
    <3>1. \A j \in gone' : j \in gone /\ Merged(disk)[j] = Gone
      BY <2>2 DEF Stop, Forgets
    <3>2. \A j \in Jobs : Merged(disk)[j] = IF journal[j] = NoEdit THEN disk[j] ELSE journal[j]
      BY DEF Merged
    <3> QED
      BY <2>1, <2>2, <3>1, <3>2 DEF Stop, DiskInv, IInv, Known, Cleared, Absent, storage
  <2>3. CASE Stop /\ ~dirty
    BY <2>3 DEF Stop, DiskInv, IInv, Known, Cleared, Absent, storage
  <2>4. CASE CrashInMerge
    <3>1. \A j \in gone' : j \in gone /\ disk[j] = Gone
      BY <2>4 DEF CrashInMerge, Forgets
    <3> QED
      BY <2>1, <2>4, <3>1, Constants DEF CrashInMerge, DiskInv, IInv, Known, Cleared, Absent
  <2> QED
    BY <2>2, <2>3, <2>4
<1>2. gone' \subseteq gone
  BY DEF Stop, CrashInMerge, Forgets
<1>3. TypeOK'
  <2>1. mem' \in Lists /\ journal' \in Notes /\ disk' \in Lists
    BY Constants DEF IInv, TypeOK, Stop, CrashInMerge, Halted, storage, Lists, Notes
  <2>2. gone' \subseteq Jobs /\ wake' \in 0 .. MaxNow
    BY <1>2, Constants DEF IInv, TypeOK, Stop, CrashInMerge, Halted
  <2> QED
    BY <2>1, <2>2 DEF IInv, TypeOK, Stop, CrashInMerge, Halted, storage, Lists, Notes
<1>4. IdsInv' /\ DownInv' /\ FileInv' /\ MemInv' /\ TimerCovers'
  BY <1>2 DEF IInv, IdsInv, DownInv, FileInv, MemInv, TimerCovers, Stop, CrashInMerge, Halted, storage
<1> QED
  BY <1>1, <1>3, <1>4 DEF IInv

\* The timer after a list is in place.
LEMMA ArmsCovers ==
    ASSUME TypeOK, NEW m \in Lists, Arms(m), mem' = m, now' = now
    PROVE  TimerCovers' /\ timer' = "armed" /\ wake' \in 0 .. MaxNow /\ unseen' = {}
<1>1. wake' \in Alarms(m) /\ timer' = "armed" /\ unseen' = {}
  BY DEF Arms
<1>2. wake' \in 0 .. MaxNow
      /\ \A j \in Jobs : Scheduled(m, j) => wake' <= now \/ wake' <= m[j].next
  BY <1>1, AlarmCovers DEF TypeOK
<1> QED
  BY <1>1, <1>2 DEF TimerCovers, Scheduled

\* A call that loads and does no more.
LEMMA LookStep ==
    ASSUME IInv, Look PROVE IInv'
<1>0. TypeOK /\ up
  BY DEF IInv, Look
<1>1. mem' = View /\ journal' = Kept /\ disk' = LoadedDisk /\ file' = LoadedFile
  BY DEF Look, Loads, Kept
<1>2. PICK arm \in BOOLEAN : ArmsIf(arm /\ Idle, View)
  BY DEF Look
<1>3. UNCHANGED <<now, up, dirty, due, current, manual, ever, gone, started>>
  BY DEF Look, history
<1>4. Sane(View, Kept) /\ \A j \in Jobs : j \in Noted \/ View[j] \in {mem[j], Gone}
  BY <1>0, ViewIsSane
<1>5. MemInv'
  BY <1>1, <1>3, <1>4 DEF MemInv, Sane, Known, Cleared, Ahead, Later, Absent
<1>6. DiskInv' /\ FileInv' /\ disk' \in Lists /\ file' \in {"sound", "damaged", "missing"}
  <2>1. Idle' => Idle
    BY <1>2, <1>3 DEF Idle, ArmsIf, Arms
  <2> QED
    BY <1>0, <1>1, <1>3, <2>1, LoadedDiskIsSane
       DEF DiskInv, FileInv, Known, Cleared, Absent, Reloads
<1>7. TimerCovers' /\ timer' \in {"none", "armed", "running"} /\ wake' \in 0 .. MaxNow
      /\ unseen' \subseteq Jobs /\ (timer' = "running" <=> timer = "running")
  <2>1. CASE arm /\ Idle
    <3>1. Arms(View)
      BY <1>2, <2>1 DEF ArmsIf
    <3> QED
      BY <1>0, <1>1, <1>3, <1>4, <2>1, <3>1, ArmsCovers DEF Sane, Idle
  <2>2. CASE ~(arm /\ Idle)
    <3>1. UNCHANGED <<timer, wake>> /\ unseen' = unseen \cup Noted
      BY <1>2, <2>2 DEF ArmsIf, Noted
    <3>2. ASSUME Idle, ~dirty, NEW j \in Jobs \ unseen', Scheduled(View, j)
          PROVE  Scheduled(mem, j) /\ View[j] = mem[j]
      BY <1>4, <3>1, <3>2 DEF Scheduled
    <3>3. TimerCovers'
      BY <1>0, <1>1, <1>3, <3>1, <3>2 DEF TimerCovers, Scheduled, Idle, IInv
    <3> QED
      BY <1>0, <3>1, <3>3 DEF TypeOK, Noted
  <2> QED
    BY <2>1, <2>2
<1>8. TypeOK'
  BY <1>0, <1>1, <1>3, <1>4, <1>6, <1>7 DEF TypeOK, Sane, Lists, Notes
<1>9. IdsInv' /\ DownInv'
  BY <1>0, <1>3 DEF IInv, IdsInv, DownInv
<1> QED
  BY <1>5, <1>6, <1>7, <1>8, <1>9 DEF IInv

\* A merge that cannot be saved leaves the merged list in memory alone.
LEMMA MergeFailsKeeps ==
    ASSUME IInv, up, Merges, up', mem' = View, dirty', journal' = Empty,
           UNCHANGED <<now, disk, file, ever, gone, started>>,
           current' = current \/ (timer # "running" /\ current' = NoJob)
    PROVE  MemInv' /\ DiskInv' /\ FileInv' /\ mem' \in Lists /\ journal' \in Notes
<1>1. Sane(View, Empty)
  BY ViewIsSane DEF Kept
<1>2. current' = current
  BY DEF IInv, TypeOK
<1>3. MemInv'
  BY <1>1, <1>2 DEF MemInv, Sane, Known, Cleared, Ahead, Later, Absent
<1>4. DiskInv'
  BY Constants DEF DiskInv, IInv, Known
<1> QED
  BY <1>1, <1>3, <1>4, Constants DEF IInv, FileInv, Sane

LEMMA LoadFailsStep ==
    ASSUME IInv, LoadFails PROVE IInv'
<1>0. TypeOK /\ up /\ Merges /\ Idle
  BY DEF IInv, LoadFails, Merges, Reloads
<1>1. MemInv' /\ DiskInv' /\ FileInv' /\ mem' \in Lists /\ journal' \in Notes
  BY MergeFailsKeeps DEF LoadFails, history
<1>2. PICK arm \in BOOLEAN : ArmsIf(arm, View)
  BY DEF LoadFails
<1>3. TimerCovers' /\ timer' = "armed" /\ wake' \in 0 .. MaxNow /\ unseen' \subseteq Jobs
  <2>1. CASE arm
    BY <1>0, <1>1, <1>2, <2>1, ArmsCovers DEF ArmsIf, LoadFails
  <2>2. CASE ~arm
    BY <1>0, <1>2, <2>2 DEF ArmsIf, LoadFails, TimerCovers, IInv, TypeOK
  <2> QED
    BY <2>1, <2>2
<1>4. TypeOK'
  BY <1>0, <1>1, <1>3 DEF TypeOK, LoadFails, history, Lists, Notes, Idle
<1>5. IdsInv' /\ DownInv'
  BY <1>0 DEF IInv, IdsInv, DownInv, LoadFails, history
<1> QED
  BY <1>1, <1>3, <1>4, <1>5 DEF IInv

\* A change of the jobs keeps all but the list itself, whatever the save does.
LEMMA EditStep ==
    ASSUME IInv, NEW m, NEW ok \in BOOLEAN, Edits(m, ok), MemInv', TypeOK,
           System \subseteq ever', ever' \subseteq Jobs, ever \subseteq ever',
           gone' \subseteq ever' \ System, ok \/ gone' = gone, started' = started
    PROVE  IInv'
<1>0. up /\ up'
  BY DEF Edits
<1>1. /\ mem' = m /\ journal' = Kept /\ dirty' = ~ok
      /\ disk' = IF ok THEN m ELSE LoadedDisk
      /\ file' = IF ok THEN "sound" ELSE LoadedFile
  BY DEF Edits, LoadsAndSaves, Kept
<1>2. UNCHANGED <<now, up, due, current, manual>> /\ ArmsIf(ok /\ Idle, m)
  BY DEF Edits
<1>3. mem' \in Lists /\ journal' \in Notes /\ Known(mem, journal)' /\ Cleared(mem, journal)'
  BY <1>0 DEF MemInv, Sane
<1>4. /\ LoadedDisk \in Lists /\ Known(LoadedDisk, Kept)
      /\ LoadedFile \in {"sound", "damaged", "missing"}
      /\ (LoadedFile # "sound" => LoadedDisk = NoJobs)
  BY <1>0, LoadedDiskIsSane
<1>5. DiskInv'
  <2>1. CASE ok
    BY <1>1, <1>3, <2>1 DEF DiskInv
  <2>2. CASE ~ok
    BY <1>1, <1>4, <2>2 DEF DiskInv, Known
  <2> QED
    BY <2>1, <2>2
<1>6. FileInv'
  BY <1>1, <1>4 DEF FileInv
<1>7. TimerCovers' /\ timer' \in {"none", "armed", "running"} /\ wake' \in 0 .. MaxNow
      /\ unseen' \subseteq Jobs /\ (timer' = "running" <=> timer = "running")
  <2>1. CASE ok /\ Idle
    <3>1. Arms(m)
      BY <1>2, <2>1 DEF ArmsIf
    <3> QED
      BY <1>1, <1>2, <1>3, <2>1, <3>1, ArmsCovers DEF Idle
  <2>2. CASE ~(ok /\ Idle)
    BY <1>0, <1>1, <1>2, <2>2 DEF ArmsIf, TimerCovers, Idle, IInv, TypeOK
  <2> QED
    BY <2>1, <2>2
<1>8. TypeOK'
  BY <1>1, <1>2, <1>3, <1>4, <1>7 DEF TypeOK, Lists, Notes
<1>9. IdsInv' /\ DownInv'
  BY <1>0, <1>2 DEF IInv, IdsInv, DownInv
<1> QED
  BY <1>5, <1>6, <1>7, <1>8, <1>9 DEF IInv

LEMMA AddStep ==
    ASSUME IInv, NEW j \in Jobs, NEW ok \in BOOLEAN, AddJob(j, ok) PROVE IInv'
<1>1. PICK w \in Whens[j] : Edits([View EXCEPT ![j] = Rescheduled(j, TRUE, w)], ok)
  BY DEF AddJob
<1> DEFINE m == [View EXCEPT ![j] = Rescheduled(j, TRUE, w)]
<1>0. TypeOK /\ up /\ j \notin ever /\ ever' = ever \cup {j} /\ gone' = gone /\ started' = started
  BY <1>1 DEF IInv, AddJob, Edits
<1>2. Sane(View, Kept)
  BY <1>0, ViewIsSane
<1>3. /\ Rescheduled(j, TRUE, w) \in Job
      /\ Rescheduled(j, TRUE, w).next # Never => Rescheduled(j, TRUE, w).next > now
  BY <1>0, RescheduledIsAhead, WhensAreTimes DEF TypeOK
<1>4. m \in Lists /\ m[j] = Rescheduled(j, TRUE, w) /\ \A i \in Jobs : i # j => m[i] = View[i]
  BY <1>2, <1>3 DEF Sane, Lists
<1> HIDE DEF m
<1>5. mem' = m /\ journal' = Kept /\ up' /\ current' = current
  BY <1>1 DEF Edits, LoadsAndSaves, Kept, m
<1>6. j \notin gone /\ gone \subseteq Jobs /\ Kept[j] = NoEdit /\ started[j] <= now /\ started[j] \in Nat /\ now \in Nat
  BY <1>0, <1>2 DEF Sane, Known, IInv, IdsInv, TypeOK, Times
<1>7. Known(mem, journal)' /\ Cleared(mem, journal)'
  BY <1>0, <1>2, <1>4, <1>5, <1>6 DEF Sane, Known, Cleared, Absent
<1>8. Later(m[j], j)
  <2>1. m[j].next # Never => m[j].next > now /\ m[j].next \in Nat
    BY <1>3, <1>4, Constants
  <2> QED
    BY <2>1, <1>6 DEF Later
<1>9. Ahead(mem)'
  BY <1>0, <1>2, <1>4, <1>5, <1>8 DEF Sane, Ahead, Later
<1>10. MemInv'
  BY <1>2, <1>4, <1>5, <1>7, <1>9 DEF MemInv, Sane
<1> QED
  BY <1>0, <1>1, <1>10, EditStep DEF IInv, IdsInv, TypeOK

\* A job that is listed gets another schedule.
LEMMA RescheduleStep ==
    ASSUME IInv, NEW j \in Jobs, NEW on \in BOOLEAN, NEW w \in Nat, NEW ok \in BOOLEAN,
           View[j] # Gone, Edits([View EXCEPT ![j] = Rescheduled(j, on, w)], ok),
           UNCHANGED history
    PROVE  IInv'
<1> DEFINE m == [View EXCEPT ![j] = Rescheduled(j, on, w)]
<1>0. TypeOK /\ up /\ ever' = ever /\ gone' = gone /\ started' = started
  BY DEF IInv, Edits, history
<1>2. Sane(View, Kept)
  BY <1>0, ViewIsSane
<1>3. /\ Rescheduled(j, on, w) \in Job
      /\ Rescheduled(j, on, w).next # Never => Rescheduled(j, on, w).next > now
  BY <1>0, RescheduledIsAhead DEF TypeOK
<1>4. m \in Lists /\ m[j] = Rescheduled(j, on, w) /\ \A i \in Jobs : i # j => m[i] = View[i]
  BY <1>2, <1>3 DEF Sane, Lists
<1> HIDE DEF m
<1>5. mem' = m /\ journal' = Kept /\ up' /\ current' = current
  BY DEF Edits, LoadsAndSaves, Kept, m
<1>6. /\ (j \in gone => Kept[j] = Gone) /\ j \in ever
      /\ gone \subseteq Jobs /\ started[j] <= now /\ started[j] \in Nat /\ now \in Nat
  BY <1>0, <1>2 DEF Sane, Known, Cleared, Absent, IInv, IdsInv, TypeOK, Times
<1>7. Known(mem, journal)' /\ Cleared(mem, journal)'
  BY <1>0, <1>2, <1>4, <1>5, <1>6 DEF Sane, Known, Cleared, Absent
<1>8. Later(m[j], j)
  BY <1>3, <1>4, <1>6, Constants DEF Later
<1>9. Ahead(mem)'
  BY <1>0, <1>2, <1>4, <1>5, <1>8 DEF Sane, Ahead, Later
<1>10. MemInv'
  BY <1>2, <1>4, <1>5, <1>7, <1>9 DEF MemInv, Sane
<1>11. Edits(m, ok)
  BY DEF m
<1> QED
  BY <1>0, <1>10, <1>11, EditStep DEF IInv, IdsInv, TypeOK

LEMMA ChangeStep ==
    ASSUME IInv, NEW j \in Jobs, NEW ok \in BOOLEAN,
           (\E on \in BOOLEAN : EnableJob(j, on, ok)) \/ (\E w \in Whens[j] : UpdateJob(j, w, ok))
    PROVE  IInv'
<1>0. up /\ View[j] # Gone
  BY DEF EnableJob, UpdateJob, Edits
<1>1. View[j] \in Job
  BY <1>0, ViewIsSane DEF Sane, Lists
<1>2. View[j].when \in Nat /\ View[j].on \in BOOLEAN
  BY <1>1 DEF Job
<1>3. ASSUME NEW on \in BOOLEAN, EnableJob(j, on, ok) PROVE IInv'
  BY <1>0, <1>2, <1>3, RescheduleStep DEF EnableJob
<1>4. ASSUME NEW w \in Whens[j], UpdateJob(j, w, ok) PROVE IInv'
  BY <1>0, <1>2, <1>4, RescheduleStep, WhensAreTimes DEF UpdateJob
<1> QED
  BY <1>3, <1>4

LEMMA RemoveStep ==
    ASSUME IInv, NEW j \in Jobs, NEW ok \in BOOLEAN, RemoveJob(j, ok) PROVE IInv'
<1> DEFINE m == [View EXCEPT ![j] = Gone]
<1>0. /\ TypeOK /\ up /\ View[j] # Gone /\ j \notin System /\ ever' = ever /\ started' = started
      /\ gone' = IF ok /\ ~Outlives(j) THEN gone \cup {j} ELSE gone
  BY DEF IInv, RemoveJob, Edits
<1>2. Sane(View, Kept)
  BY <1>0, ViewIsSane
<1>4. m \in Lists /\ m[j] = Gone /\ \A i \in Jobs : i # j => m[i] = View[i]
  BY <1>2 DEF Sane, Lists
<1> HIDE DEF m
<1>5. mem' = m /\ journal' = Kept /\ up' /\ current' = current
  BY DEF RemoveJob, Edits, LoadsAndSaves, Kept, m
<1>6. /\ j \in ever /\ gone \subseteq Jobs
      /\ j \in gone' /\ j \notin gone => Kept[j] \in {NoEdit, Gone}
  BY <1>0, <1>2, <1>5 DEF Sane, Known, TypeOK, Outlives, Notes
<1>7. Known(mem, journal)' /\ Cleared(mem, journal)'
  BY <1>0, <1>2, <1>4, <1>5, <1>6 DEF Sane, Known, Cleared, Absent
<1>9. Ahead(mem)'
  BY <1>0, <1>2, <1>4, <1>5 DEF Sane, Ahead, Later
<1>10. MemInv'
  BY <1>2, <1>4, <1>5, <1>7, <1>9 DEF MemInv, Sane
<1>11. Edits(m, ok)
  BY DEF RemoveJob, m
<1> QED
  BY <1>0, <1>6, <1>10, <1>11, EditStep DEF IInv, IdsInv, TypeOK

\* The list after a callback.
LEMMA AfterRunIsSane ==
    ASSUME IInv, up, NEW k \in Jobs
    PROVE  /\ AfterRun(k) \in Lists /\ Known(AfterRun(k), journal) /\ Cleared(AfterRun(k), journal)
           /\ \A j \in Jobs : j # k /\ j # current => Later(AfterRun(k)[j], j)
           /\ Later(AfterRun(k)[k], k)
<1>0. Sane(mem, journal) /\ TypeOK /\ gone \subseteq Jobs
  BY DEF IInv, MemInv, TypeOK
<1>1. /\ AfterRun(k) \in Lists
      /\ \A j \in Jobs : j # k \/ mem[j] = Gone => AfterRun(k)[j] = mem[j]
      /\ AfterRun(k)[k] # Gone /\ AfterRun(k)[k].next # Never => AfterRun(k)[k].next > now
  BY <1>0, AfterRunTyped
<1>2. Known(AfterRun(k), journal) /\ Cleared(AfterRun(k), journal)
  BY <1>0, <1>1 DEF Sane, Known, Cleared, Absent
<1>3. started[k] <= now /\ started[k] \in Nat /\ now \in Nat
  BY <1>0 DEF IInv, IdsInv, TypeOK, Times
<1>4. AfterRun(k)[k] # Gone => AfterRun(k)[k].next \in Nat
  BY <1>1, Constants DEF Lists
<1>5. Later(AfterRun(k)[k], k)
  BY <1>1, <1>3, <1>4 DEF Later
<1>6. \A j \in Jobs : j # k /\ j # current => Later(AfterRun(k)[j], j)
  BY <1>0, <1>1 DEF Sane, Ahead
<1> QED
  BY <1>1, <1>2, <1>5, <1>6

\* The end of a tick that leaves the list m in memory.
LEMMA TickEndStep ==
    ASSUME IInv, NEW m \in Lists, up, up', mem' = m, now' = now, manual' = manual,
           ever' = ever, gone' = gone, file' \in {"sound", "damaged", "missing"}, dirty' \in BOOLEAN,
           disk' \in Lists, journal' \in Notes, TickEnds(m),
           Known(m, journal'), Cleared(m, journal'), \A j \in Jobs : Later(m[j], j),
           DiskInv', FileInv'
    PROVE  IInv'
<1>0. TypeOK
  BY DEF IInv
<1>1. /\ timer' \in {"none", "armed"} /\ wake' \in 0 .. MaxNow /\ unseen' \subseteq Jobs
      /\ current' = NoJob /\ due' = {} /\ started' = started
      /\ TimerCovers'
  <2>1. CASE manual = {}
    BY <1>0, <2>1, ArmsCovers DEF TickEnds
  <2>2. CASE manual # {}
    BY <1>0, <2>2, Constants DEF TickEnds, TimerCovers, Idle, TypeOK
  <2> QED
    BY <2>1, <2>2
<1>2. MemInv'
  BY <1>1 DEF MemInv, Sane, Known, Cleared, Ahead, Later, Absent
<1>3. TypeOK'
  BY <1>0, <1>1 DEF TypeOK, Lists, Notes
<1>4. IdsInv' /\ DownInv'
  BY <1>1 DEF IInv, IdsInv, DownInv
<1> QED
  BY <1>1, <1>2, <1>3, <1>4 DEF IInv

LEMMA TickSavesStep ==
    ASSUME IInv, NEW ok \in BOOLEAN, TickSaves(ok) PROVE IInv'
<1>0. TypeOK /\ up /\ dirty /\ current = NoJob /\ Sane(mem, journal)
  BY DEF IInv, TypeOK, TickSaves, MemInv
<1>1. /\ mem' = mem /\ journal' = journal /\ dirty' = ~ok /\ TickEnds(mem)
      /\ disk' = IF ok THEN mem ELSE disk
      /\ file' = IF ok THEN "sound" ELSE file
      /\ UNCHANGED <<now, up, manual, ever, gone>>
  BY DEF TickSaves, Saves
<1>2. DiskInv' /\ FileInv'
  BY <1>0, <1>1 DEF DiskInv, FileInv, IInv, Sane, Known, Cleared, Absent, TickEnds
<1>3. \A j \in Jobs : Later(mem[j], j)
  BY <1>0, Constants DEF Sane, Ahead
<1>4. disk' \in Lists /\ file' \in {"sound", "damaged", "missing"}
  BY <1>0, <1>1 DEF TypeOK, Lists
<1> QED
  BY <1>0, <1>1, <1>2, <1>3, <1>4, TickEndStep DEF Sane

LEMMA TickLoadFailsStep ==
    ASSUME IInv, TickLoadFails PROVE IInv'
<1>0. TypeOK /\ up /\ Merges /\ current = NoJob /\ timer # "running" /\ current' = NoJob
  BY DEF IInv, TypeOK, TickLoadFails, Awake, TickEnds
<1>1. MemInv' /\ DiskInv' /\ FileInv' /\ mem' \in Lists /\ journal' \in Notes
  BY <1>0, MergeFailsKeeps DEF TickLoadFails, TickEnds
<1>2. Sane(View, Empty)
  BY <1>0, ViewIsSane DEF Kept
<1>3. \A j \in Jobs : Later(View[j], j)
  BY <1>0, <1>2, Constants DEF Sane, Ahead
<1>4. journal' = Empty /\ mem' = View /\ TickEnds(View) /\ dirty'
      /\ UNCHANGED <<now, disk, file, up, manual, ever, gone>>
  BY DEF TickLoadFails
<1> QED
  BY <1>0, <1>1, <1>2, <1>3, <1>4, TickEndStep DEF Sane, TypeOK, Lists

LEMMA TickFindsNoneStep ==
    ASSUME IInv, NEW ok \in BOOLEAN, TickFindsNone(ok) PROVE IInv'
<1>0. TypeOK /\ up /\ current = NoJob
  BY DEF IInv, TypeOK, TickFindsNone, Awake
<1>1. /\ mem' = View /\ journal' = Kept /\ dirty' = ~ok /\ TickEnds(View)
      /\ disk' = IF ok THEN View ELSE LoadedDisk
      /\ file' = IF ok THEN "sound" ELSE LoadedFile
      /\ UNCHANGED <<now, up, manual, ever, gone>>
  BY DEF TickFindsNone, LoadsAndSaves, Kept
<1>2. Sane(View, Kept)
  BY <1>0, ViewIsSane
<1>3. \A j \in Jobs : Later(View[j], j)
  BY <1>0, <1>2, Constants DEF Sane, Ahead
<1>4. /\ LoadedDisk \in Lists /\ Known(LoadedDisk, Kept)
      /\ LoadedFile \in {"sound", "damaged", "missing"}
      /\ (LoadedFile # "sound" => LoadedDisk = NoJobs)
  BY <1>0, LoadedDiskIsSane
<1>5. DiskInv' /\ FileInv'
  <2>1. started' = started
    BY <1>1 DEF TickEnds
  <2>2. CASE ok
    BY <1>1, <1>2, <2>1, <2>2 DEF DiskInv, FileInv, Sane, Known, Cleared, Absent
  <2>3. CASE ~ok
    BY <1>1, <1>4, <2>1, <2>3 DEF DiskInv, FileInv, Known
  <2> QED
    BY <2>2, <2>3
<1>6. disk' \in Lists /\ file' \in {"sound", "damaged", "missing"} /\ dirty' \in BOOLEAN
  BY <1>1, <1>2, <1>4 DEF Sane
<1>7. View \in Lists /\ Kept \in Notes /\ Known(View, Kept) /\ Cleared(View, Kept)
  BY <1>2 DEF Sane
<1> QED
  BY <1>0, <1>1, <1>3, <1>5, <1>6, <1>7, TickEndStep

LEMMA TickDoneStep ==
    ASSUME IInv, NEW ok \in BOOLEAN, TickDone(ok) PROVE IInv'
<1>0. TypeOK /\ up /\ current \in Jobs /\ Sane(mem, journal)
  BY DEF IInv, TypeOK, TickDone, MemInv
<1> DEFINE m == AfterRun(current)
<1>1. /\ mem' = m /\ journal' = journal /\ dirty' = ~ok /\ TickEnds(m)
      /\ disk' = IF ok THEN m ELSE disk
      /\ file' = IF ok THEN "sound" ELSE file
      /\ UNCHANGED <<now, up, manual, ever, gone>>
  BY DEF TickDone, Saves
<1>2. /\ m \in Lists /\ Known(m, journal) /\ Cleared(m, journal)
      /\ \A j \in Jobs : Later(m[j], j)
  BY <1>0, AfterRunIsSane
<1> HIDE DEF m
<1>3. DiskInv' /\ FileInv'
  <2>1. started' = started
    BY <1>1 DEF TickEnds
  <2>2. CASE ok
    BY <1>1, <1>2, <2>1, <2>2 DEF DiskInv, FileInv, Known, Cleared, Absent
  <2>3. CASE ~ok
    BY <1>1, <2>1, <2>3 DEF DiskInv, FileInv, Known, IInv
  <2> QED
    BY <2>2, <2>3
<1>4. disk' \in Lists /\ file' \in {"sound", "damaged", "missing"} /\ dirty' \in BOOLEAN
      /\ journal' \in Notes
  BY <1>0, <1>1, <1>2 DEF TypeOK, Lists, Notes
<1> QED
  BY <1>0, <1>1, <1>2, <1>3, <1>4, TickEndStep

\* The timer starts a callback of the list m.
LEMMA BeginStep ==
    ASSUME IInv, NEW m \in Lists, NEW c \in Jobs, NEW rest \in SUBSET Jobs, up, up' = up, mem' = m,
           now' = now, manual' = manual, ever' = ever, gone' = gone, dirty' = dirty,
           file' \in {"sound", "damaged", "missing"}, disk' \in Lists, journal' \in Notes,
           Begins(m, c, rest), Due(m, c),
           Known(m, journal'), Cleared(m, journal'), \A j \in Jobs : j # c => Later(m[j], j),
           Known(disk', journal'), ~dirty => Cleared(disk', journal'), file' # "sound" => disk' = NoJobs
    PROVE  IInv'
<1>0. TypeOK
  BY DEF IInv
<1>1. /\ timer' = "running" /\ current' = c /\ due' = rest /\ wake' = 0 /\ unseen' = unseen
      /\ started' = [started EXCEPT ![c] = IF Outlives(c) THEN 0 ELSE m[c].next]
  BY DEF Begins
<1>2. m[c] # Gone /\ m[c].next \in 0 .. MaxNow /\ m[c].next <= now
  BY Constants DEF Due, Scheduled, Lists, Job, Never, Times
<1>3. c \in ever /\ (journal'[c] \notin {Gone, NoEdit} => Outlives(c))
  BY <1>2 DEF Known, Outlives, Notes
<1>4. /\ started' \in [Jobs -> 0 .. MaxNow]
      /\ \A j \in Jobs : j # c => started'[j] = started[j]
      /\ started'[c] <= now /\ (Outlives(c) => started'[c] = 0)
  BY <1>0, <1>1, <1>2, Constants DEF TypeOK, Times
<1>5. Known(m, journal)' /\ Known(disk, journal)'
  BY <1>3, <1>4 DEF Known
<1>6. MemInv'
  BY <1>1, <1>4, <1>5 DEF MemInv, Sane, Known, Cleared, Ahead, Later, Absent
<1>7. DiskInv' /\ FileInv' /\ TimerCovers'
  BY <1>1, <1>5 DEF DiskInv, FileInv, TimerCovers, Idle, Cleared, Absent
<1>8. TypeOK'
  BY <1>0, <1>1, <1>4, Constants DEF TypeOK, Lists, Notes
<1>9. IdsInv' /\ DownInv'
  BY <1>3, <1>4 DEF IInv, IdsInv, DownInv
<1> QED
  BY <1>6, <1>7, <1>8, <1>9 DEF IInv

LEMMA TickBeginsStep ==
    ASSUME IInv, TickBegins PROVE IInv'
<1>0. TypeOK /\ up /\ current = NoJob /\ ~dirty
  BY DEF IInv, TypeOK, TickBegins, Awake
<1>1. PICK c \in Jobs : Due(View, c) /\ Begins(View, c, {j \in Jobs : Due(View, j)} \ {c})
  BY DEF TickBegins
<1>2. /\ mem' = View /\ journal' = Kept /\ disk' = LoadedDisk /\ file' = LoadedFile
      /\ UNCHANGED <<now, up, dirty, manual, ever, gone>>
  BY DEF TickBegins, Loads, Kept
<1>3. Sane(View, Kept)
  BY <1>0, ViewIsSane
<1>4. \A j \in Jobs : Later(View[j], j)
  BY <1>0, <1>3, Constants DEF Sane, Ahead
<1>5. View \in Lists /\ Kept \in Notes /\ Known(View, Kept) /\ Cleared(View, Kept)
  BY <1>3 DEF Sane
<1> QED
  BY <1>0, <1>1, <1>2, <1>4, <1>5, LoadedDiskIsSane, BeginStep

LEMMA TickGoesOnStep ==
    ASSUME IInv, TickGoesOn PROVE IInv'
<1>0. TypeOK /\ up /\ current \in Jobs /\ due \subseteq Jobs
  BY DEF IInv, TypeOK, TickGoesOn
<1> DEFINE m == AfterRun(current)
<1>1. mem' = m /\ UNCHANGED <<now, disk, file, journal, up, dirty, manual, ever, gone>>
  BY DEF TickGoesOn, storage
<1>2. PICK c \in due : Due(m, c) /\ Begins(m, c, due \ {c})
  BY <1>1 DEF TickGoesOn
<1>3. /\ m \in Lists /\ Known(m, journal) /\ Cleared(m, journal)
      /\ \A j \in Jobs : Later(m[j], j)
  BY <1>0, AfterRunIsSane
<1> HIDE DEF m
<1> QED
  BY <1>0, <1>1, <1>2, <1>3, BeginStep DEF IInv, DiskInv, FileInv, TypeOK, Lists, Notes

\* A manual run: what it saves first, loads and merges.
LEMMA ManualLoadsKeeps ==
    ASSUME IInv, up, ManualLoads, UNCHANGED <<now, up, current, ever, gone, started>>
    PROVE  /\ mem' = Fresh /\ journal' = FreshKept /\ MemInv' /\ DiskInv'
           /\ disk' \in Lists /\ file' \in {"sound", "damaged", "missing"} /\ dirty' = FALSE
           /\ file' # "sound" => disk' = NoJobs
           /\ dirty => disk' = mem'
<1>1. Sane(Fresh, FreshKept)
  BY FreshIsSane
<1>2. CASE ~dirty
  <2>1. Fresh = View /\ FreshKept = Kept
    BY <1>2 DEF Fresh, FreshKept, View, Reloads
  <2>2. /\ mem' = View /\ disk' = LoadedDisk /\ journal' = Kept /\ file' = LoadedFile
        /\ dirty' = dirty
    BY <1>2 DEF ManualLoads, Loads, Kept
  <2>3. dirty' = FALSE
    BY <1>2, <2>2 DEF IInv, TypeOK
  <2>4. MemInv'
    BY <1>1, <2>1, <2>2 DEF MemInv, Sane, Known, Cleared, Ahead, Later, Absent
  <2> QED
    BY <1>2, <2>1, <2>2, <2>3, <2>4, LoadedDiskIsSane DEF DiskInv, Known, Cleared, Absent
<1>3. CASE dirty
  <2>1. FreshKept = IF Idle THEN Empty ELSE journal
    BY <1>3 DEF FreshKept, Kept, Merges, Reloads
  <2>2. mem' = Fresh /\ disk' = Fresh /\ journal' = FreshKept /\ file' = "sound" /\ dirty' = FALSE
    BY <1>3, <2>1 DEF ManualLoads
  <2>3. MemInv'
    BY <1>1, <2>2 DEF MemInv, Sane, Known, Cleared, Ahead, Later, Absent
  <2> QED
    BY <1>1, <1>3, <2>2, <2>3 DEF DiskInv, Sane, Known, Cleared, Absent
<1> QED
  BY <1>2, <1>3

LEMMA ManualFailsStep ==
    ASSUME IInv, ManualSaveFails \/ ManualMergeFails PROVE IInv'
<1>0. TypeOK /\ up /\ dirty /\ Sane(mem, journal) /\ UNCHANGED history
  BY DEF IInv, MemInv, ManualSaveFails, ManualMergeFails
<1>1. CASE ManualSaveFails
  <2>1. UNCHANGED <<now, disk, file, journal, up, mem, dirty, due, current, manual, history>>
    BY <1>1 DEF ManualSaveFails, storage
  <2>2. MemInv' /\ DiskInv' /\ FileInv'
    BY <1>0, <2>1 DEF IInv, MemInv, DiskInv, FileInv, Sane, Known, Cleared, Ahead, Later, Absent,
                      history
  <2>3. TimerCovers' /\ timer' \in {"none", "armed", "running"} /\ wake' \in 0 .. MaxNow
        /\ unseen' \subseteq Jobs /\ (timer' = "running" <=> timer = "running")
    <3>1. CASE Idle
      BY <1>0, <1>1, <2>1, <3>1, ArmsCovers DEF ManualSaveFails, ArmsIf, Idle, Sane
    <3>2. CASE ~Idle
      BY <1>0, <1>1, <2>1, <3>2 DEF ManualSaveFails, ArmsIf, Idle, TimerCovers, TypeOK
    <3> QED
      BY <3>1, <3>2
  <2>4. TypeOK'
    BY <1>0, <2>1, <2>3 DEF TypeOK, history
  <2> QED
    BY <1>0, <2>1, <2>2, <2>3, <2>4 DEF IInv, IdsInv, DownInv, history
<1>2. CASE ManualMergeFails
  <2>1. /\ mem' = Fresh /\ disk' = mem /\ journal' = Empty /\ file' = "sound" /\ Arms(Fresh)
        /\ UNCHANGED <<now, up, dirty, due, current, manual, history>> /\ Idle
    BY <1>2 DEF ManualMergeFails
  <2>2. FreshKept = Empty /\ Sane(Fresh, Empty)
    BY <1>0, <2>1, FreshIsSane DEF FreshKept
  <2>3. MemInv'
    BY <2>1, <2>2 DEF MemInv, Sane, Known, Cleared, Ahead, Later, Absent, history
  <2>4. DiskInv'
    BY <1>0, <2>1, Constants DEF DiskInv, Sane, Known, history
  <2>5. TimerCovers' /\ timer' = "armed" /\ wake' \in 0 .. MaxNow /\ unseen' = {}
    BY <1>0, <2>1, <2>2, ArmsCovers DEF Sane
  <2>6. TypeOK'
    BY <1>0, <2>1, <2>2, <2>5 DEF TypeOK, Sane, Lists, Notes, history, Idle
  <2> QED
    BY <1>0, <2>1, <2>3, <2>4, <2>5, <2>6 DEF IInv, IdsInv, DownInv, FileInv, history
<1> QED
  BY <1>1, <1>2

LEMMA ManualFindsNoneStep ==
    ASSUME IInv, ManualFindsNone PROVE IInv'
<1>0. TypeOK /\ up /\ dirty /\ UNCHANGED <<now, up, due, current, manual, history>>
      /\ ManualLoads /\ ArmsIf(Idle, Fresh)
  BY DEF IInv, ManualFindsNone
<1>1. /\ mem' = Fresh /\ journal' = FreshKept /\ MemInv' /\ DiskInv' /\ disk' = mem'
      /\ disk' \in Lists /\ file' \in {"sound", "damaged", "missing"} /\ dirty' = FALSE
      /\ (file' # "sound" => disk' = NoJobs)
  BY <1>0, ManualLoadsKeeps DEF history
<1>2. Fresh \in Lists /\ FreshKept \in Notes
  BY <1>0, FreshIsSane DEF Sane
<1>3. TimerCovers' /\ timer' \in {"none", "armed", "running"} /\ wake' \in 0 .. MaxNow
      /\ unseen' \subseteq Jobs /\ (timer' = "running" <=> timer = "running")
  <2>1. CASE Idle
    BY <1>0, <1>1, <1>2, <2>1, ArmsCovers DEF ArmsIf, Idle
  <2>2. CASE ~Idle
    <3>1. UNCHANGED <<timer, wake>> /\ unseen' \in SUBSET Jobs
      BY <1>0, <2>2 DEF ArmsIf, TypeOK
    <3> QED
      BY <1>0, <2>2, <3>1 DEF TimerCovers, Idle, TypeOK
  <2> QED
    BY <2>1, <2>2
<1>4. TypeOK'
  BY <1>0, <1>1, <1>2, <1>3 DEF TypeOK, Lists, Notes, history
<1> QED
  BY <1>0, <1>1, <1>3, <1>4 DEF IInv, IdsInv, DownInv, FileInv, history

LEMMA ManualBeginsStep ==
    ASSUME IInv, NEW j \in Jobs, ManualBegins(j) PROVE IInv'
<1>0. /\ TypeOK /\ up /\ UNCHANGED <<now, up, timer, wake, due, current, history, unseen>>
      /\ ManualLoads /\ manual' = manual \cup {j} /\ j \notin System
  BY DEF IInv, ManualBegins
<1>1. /\ mem' = Fresh /\ journal' = FreshKept /\ MemInv' /\ DiskInv'
      /\ disk' \in Lists /\ file' \in {"sound", "damaged", "missing"} /\ dirty' = FALSE
      /\ (file' # "sound" => disk' = NoJobs)
  BY <1>0, ManualLoadsKeeps DEF history
<1>2. Fresh \in Lists /\ FreshKept \in Notes
  BY <1>0, FreshIsSane DEF Sane
<1>3. TypeOK'
  BY <1>0, <1>1, <1>2 DEF TypeOK, Lists, Notes, history
<1>4. ~Idle'
  BY <1>0 DEF Idle
<1> QED
  BY <1>0, <1>1, <1>3, <1>4 DEF IInv, IdsInv, DownInv, FileInv, TimerCovers, history

LEMMA ManualEndsStep ==
    ASSUME IInv, NEW j \in Jobs, NEW ok \in BOOLEAN, ManualEnds(j, ok) PROVE IInv'
<1> DEFINE m == AfterRun(j)
<1>0. /\ TypeOK /\ up /\ UNCHANGED <<now, up, due, current, history>> /\ j \in manual
      /\ mem' = m /\ disk' = (IF ok THEN m ELSE disk)
      /\ file' = (IF ok THEN "sound" ELSE file) /\ dirty' = ~ok /\ journal' = journal
      /\ manual' = manual \ {j} /\ ArmsIf(manual' = {} /\ timer # "running", m)
  BY DEF IInv, ManualEnds, Saves
<1>1. /\ m \in Lists /\ Known(m, journal) /\ Cleared(m, journal)
      /\ \A i \in Jobs : i # current => Later(m[i], i)
  BY <1>0, AfterRunIsSane
<1> HIDE DEF m
<1>2. MemInv'
  BY <1>0, <1>1 DEF MemInv, Sane, Known, Cleared, Ahead, Later, Absent, history, TypeOK, Notes
<1>3. DiskInv' /\ FileInv'
  <2>1. CASE ok
    BY <1>0, <1>1, <2>1 DEF DiskInv, FileInv, Known, Cleared, Absent, history
  <2>2. CASE ~ok
    BY <1>0, <2>2 DEF DiskInv, FileInv, Known, history, IInv
  <2> QED
    BY <2>1, <2>2
<1>4. TimerCovers' /\ timer' \in {"none", "armed", "running"} /\ wake' \in 0 .. MaxNow
      /\ unseen' \subseteq Jobs /\ (timer' = "running" <=> timer = "running")
  <2>1. CASE manual' = {} /\ timer # "running"
    BY <1>0, <1>1, <2>1, ArmsCovers DEF ArmsIf
  <2>2. CASE ~(manual' = {} /\ timer # "running")
    <3>1. UNCHANGED <<timer, wake>> /\ unseen' \in SUBSET Jobs
      BY <1>0, <2>2 DEF ArmsIf, TypeOK
    <3> QED
      BY <1>0, <2>2, <3>1 DEF TimerCovers, Idle, TypeOK
  <2> QED
    BY <2>1, <2>2
<1>5. TypeOK'
  BY <1>0, <1>1, <1>4 DEF TypeOK, Lists, Notes, history
<1> QED
  BY <1>0, <1>2, <1>3, <1>4, <1>5 DEF IInv, IdsInv, DownInv, history

LEMMA JournalAddStep ==
    ASSUME IInv, NEW j \in Jobs, JournalAdd(j) PROVE IInv'
<1>1. PICK w \in Whens[j] : journal' = [journal EXCEPT ![j] = Rescheduled(j, TRUE, w)]
  BY DEF JournalAdd
<1>2. /\ UNCHANGED <<now, disk, file, service, gone, started, unseen>>
      /\ j \notin ever /\ ever' = ever \cup {j} /\ TypeOK
  BY DEF JournalAdd, IInv
<1>3. Rescheduled(j, TRUE, w) \in Job
  BY <1>2, RescheduledIsAhead, WhensAreTimes DEF TypeOK
<1>4. journal' \in Notes /\ journal'[j] \in Job /\ \A i \in Jobs : i # j => journal'[i] = journal[i]
  BY <1>1, <1>2, <1>3 DEF TypeOK, Notes
<1>5. j \notin gone /\ gone \subseteq Jobs /\ started[j] = 0 /\ mem[j] = Gone /\ disk[j] = Gone
  BY <1>2, Constants DEF IInv, IdsInv, DiskInv, MemInv, DownInv, Sane, Known, TypeOK
<1>6. DiskInv'
  BY <1>2, <1>4, <1>5 DEF IInv, DiskInv, Known, Cleared, Absent, service
<1>7. MemInv'
  BY <1>2, <1>4, <1>5 DEF IInv, MemInv, Sane, Known, Cleared, Absent, Ahead, Later, service
<1>8. TypeOK'
  BY <1>2, <1>4 DEF TypeOK, service, Notes
<1> QED
  BY <1>2, <1>6, <1>7, <1>8
     DEF IInv, IdsInv, DownInv, FileInv, TimerCovers, service, Idle, Scheduled

LEMMA JournalDelStep ==
    ASSUME IInv, NEW j \in Jobs, JournalDel(j) PROVE IInv'
<1>1. /\ journal' = [journal EXCEPT ![j] = Gone] /\ gone' = gone \cup {j}
      /\ j \notin System /\ Merged(disk)[j] # Gone /\ TypeOK
      /\ UNCHANGED <<now, disk, file, service, ever, started, unseen>>
  BY DEF JournalDel, IInv
<1>2. journal' \in Notes /\ journal'[j] = Gone /\ \A i \in Jobs : i # j => journal'[i] = journal[i]
  BY <1>1 DEF TypeOK, Notes
<1>3. j \in ever /\ gone \subseteq Jobs
  BY <1>1, MergedTyped DEF IInv, DiskInv, Known, TypeOK, Lists
<1>4. DiskInv'
  BY <1>1, <1>2, <1>3 DEF IInv, DiskInv, Known, Cleared, Absent, service
<1>5. MemInv'
  BY <1>1, <1>2, <1>3 DEF IInv, MemInv, Sane, Known, Cleared, Absent, Ahead, Later, service
<1>6. TypeOK'
  BY <1>1, <1>2, <1>3 DEF TypeOK, service, Notes
<1> QED
  BY <1>1, <1>3, <1>4, <1>5, <1>6
     DEF IInv, IdsInv, DownInv, FileInv, TimerCovers, service, Idle, Scheduled

\* The other process writes the whole record of a job anew.
LEMMA RecordStep ==
    ASSUME IInv, NEW j \in Jobs, NEW record \in Job, JournalRecord(j, record) PROVE IInv'
<1>1. /\ journal' = [journal EXCEPT ![j] = record] /\ gone' = gone \ {j}
      /\ started' = [started EXCEPT ![j] = 0]
      /\ j \notin System /\ Merged(disk)[j] # Gone /\ TypeOK
      /\ UNCHANGED <<now, disk, file, service, ever, unseen>>
  BY DEF JournalRecord, IInv
<1>2. journal' \in Notes /\ journal'[j] \in Job /\ \A i \in Jobs : i # j => journal'[i] = journal[i]
  BY <1>1 DEF TypeOK, Notes
<1>3. j \in ever /\ gone' \subseteq gone /\ j \notin gone' /\ gone \subseteq Jobs
  BY <1>1, MergedTyped DEF IInv, DiskInv, Known, TypeOK, Lists
<1>4. /\ started' \in [Jobs -> 0 .. MaxNow] /\ started'[j] = 0
      /\ \A i \in Jobs : i # j => started'[i] = started[i]
  BY <1>1, Constants DEF TypeOK
<1>5. DiskInv'
  BY <1>1, <1>2, <1>3, <1>4 DEF IInv, DiskInv, Known, Cleared, Absent, service
<1>6. Ahead(mem) => Ahead(mem)'
  <2> SUFFICES ASSUME Ahead(mem), NEW i \in Jobs, i # current PROVE Later(mem[i], i)'
    BY <1>1 DEF Ahead, service
  <2>1. mem[i] # Gone => mem[i] \in Job
    BY <1>1 DEF TypeOK
  <2>2. mem[i] # Gone => mem[i].next \in Nat
    BY <2>1, Constants
  <2> QED
    BY <1>1, <1>4, <2>2 DEF Ahead, Later, service, Never
<1>7. MemInv'
  BY <1>1, <1>2, <1>3, <1>4, <1>6 DEF IInv, MemInv, Sane, Known, Cleared, Absent, service
<1>8. TypeOK'
  BY <1>1, <1>2, <1>3, <1>4 DEF TypeOK, service, Notes
<1>9. IdsInv'
  BY <1>1, <1>3, <1>4, Constants DEF IInv, IdsInv, service, TypeOK, Times
<1> QED
  BY <1>1, <1>5, <1>7, <1>8, <1>9
     DEF IInv, DownInv, FileInv, TimerCovers, service, Idle, Scheduled

LEMMA JournalRecordStep ==
    ASSUME IInv, NEW j \in Jobs,
           \/ \E on \in BOOLEAN : JournalEnable(j, on)
           \/ \E w \in Whens[j] : JournalUpdate(j, w)
    PROVE  IInv'
<1>0. TypeOK
  BY DEF IInv
<1>1. Merged(disk)[j] # Gone
  BY DEF JournalEnable, JournalUpdate, JournalRecord
<1>2. Merged(disk)[j] \in Job
  BY <1>0, <1>1, MergedTyped DEF TypeOK, Lists
<1>3. Merged(disk)[j].when \in Nat /\ Merged(disk)[j].on \in BOOLEAN
  BY <1>2 DEF Job
<1>4. \A on \in BOOLEAN, w \in Nat : Rescheduled(j, on, w) \in Job
  BY <1>0, RescheduledIsAhead DEF TypeOK
<1>5. ASSUME NEW on \in BOOLEAN, JournalEnable(j, on) PROVE IInv'
  BY <1>3, <1>4, <1>5, RecordStep DEF JournalEnable
<1>6. ASSUME NEW w \in Whens[j], JournalUpdate(j, w) PROVE IInv'
  <2>1. w \in Nat
    BY WhensAreTimes
  <2> QED
    BY <1>2, <1>3, <1>4, <1>6, <2>1, RecordStep DEF JournalUpdate
<1> QED
  BY <1>5, <1>6

\* The file alone changes, or the clock.
LEMMA FileStep ==
    ASSUME IInv, StartRefused \/ AgentFindsDamage \/ Damage PROVE IInv'
<1>1. UNCHANGED <<now, journal, service, history, unseen>> /\ file' \in {"missing", "damaged"}
      /\ disk' = NoJobs /\ TypeOK
  BY DEF StartRefused, AgentFindsDamage, Damage, IInv, FileInv
<1>2. \A j \in gone : j \in Jobs
  BY <1>1 DEF TypeOK
<1>3. DiskInv'
  BY <1>1, <1>2, Constants DEF IInv, DiskInv, Known, Cleared, Absent, service, history
<1>4. MemInv'
  BY <1>1 DEF IInv, MemInv, Sane, Known, Cleared, Absent, Ahead, Later, service, history
<1>5. TypeOK'
  BY <1>1, Constants DEF TypeOK, service, history, Lists
<1> QED
  BY <1>1, <1>3, <1>4, <1>5
     DEF IInv, IdsInv, DownInv, FileInv, TimerCovers, service, history, Idle, Scheduled

LEMMA ClockStep ==
    ASSUME IInv, Clock PROVE IInv'
<1>1. UNCHANGED <<storage, service, history, unseen>> /\ now' = now + 1 /\ TypeOK
      /\ now \in Nat /\ now' \in Times
  BY Constants DEF Clock, IInv, TypeOK, Times
<1>2. DiskInv' /\ MemInv' /\ FileInv' /\ DownInv'
  BY <1>1 DEF IInv, DiskInv, MemInv, FileInv, DownInv, Sane, Known, Cleared, Absent, Ahead, Later,
              storage, service, history, Idle
<1>3. TypeOK'
  BY <1>1 DEF TypeOK, storage, service, history
<1>4. IdsInv'
  BY <1>1 DEF IInv, IdsInv, TypeOK, history
<1>5. TimerCovers'
  <2>1. wake \in Nat
    BY <1>1, Constants DEF TypeOK
  <2> QED
    BY <1>1, <2>1 DEF IInv, TimerCovers, service, Idle, Scheduled
<1> QED
  BY <1>2, <1>3, <1>4, <1>5 DEF IInv

LEMMA StutterStep ==
    ASSUME IInv, UNCHANGED vars PROVE IInv'
  BY DEF IInv, TypeOK, IdsInv, DownInv, FileInv, MemInv, DiskInv, TimerCovers, Sane, Known, Cleared,
         Absent, Ahead, Later, Idle, Scheduled, vars, storage, service, history

LEMMA InitInv ==
    Init => IInv
<1> SUFFICES ASSUME Init PROVE IInv
  OBVIOUS
<1>1. TypeOK
  <2>1. now \in Times /\ disk \in Lists /\ mem \in Lists /\ journal \in Notes
    BY Constants DEF Init, Times
  <2>2. started \in [Jobs -> 0 .. MaxNow] /\ wake \in 0 .. MaxNow /\ ever \subseteq Jobs
    BY Constants DEF Init
  <2> QED
    BY <2>1, <2>2 DEF Init, TypeOK, Lists, Notes
<1>2. IdsInv /\ DownInv /\ FileInv /\ MemInv /\ TimerCovers
  BY Constants DEF Init, IdsInv, DownInv, FileInv, MemInv, TimerCovers
<1>3. DiskInv
  BY Constants DEF Init, DiskInv, Known, Cleared
<1> QED
  BY <1>1, <1>2, <1>3 DEF IInv

LEMMA NextInv ==
    IInv /\ [Next]_vars => IInv'
<1> SUFFICES ASSUME IInv, [Next]_vars PROVE IInv'
  OBVIOUS
<1>1. CASE Start \/ StartRefused \/ Stop \/ CrashInMerge \/ Look \/ LoadFails
  BY <1>1, StartStep, FileStep, HaltStep, LookStep, LoadFailsStep
<1>2. CASE Edit
  BY <1>2, AddStep, RemoveStep, ChangeStep DEF Edit
<1>3. CASE Tick
  BY <1>3, TickLoadFailsStep, TickBeginsStep, TickGoesOnStep, TickSavesStep, TickFindsNoneStep,
     TickDoneStep DEF Tick
<1>4. CASE Manual
  BY <1>4, ManualFailsStep, ManualFindsNoneStep, ManualBeginsStep, ManualEndsStep DEF Manual
<1>5. CASE Outside
  BY <1>5, JournalAddStep, JournalDelStep, JournalRecordStep, FileStep, ClockStep DEF Outside
<1>6. CASE UNCHANGED vars
  BY <1>6, StutterStep
<1> QED
  BY <1>1, <1>2, <1>3, <1>4, <1>5, <1>6 DEF Next

LEMMA RemovalFollows ==
    IInv => RemovalHolds
<1> SUFFICES ASSUME IInv, NEW j \in gone
             PROVE  (up => Merged(mem)[j] = Gone) /\ (~dirty => Merged(disk)[j] = Gone)
  BY DEF RemovalHolds
<1>1. j \in Jobs /\ mem \in Lists /\ disk \in Lists /\ TypeOK
  BY DEF IInv, TypeOK, Lists
<1>2. (up => Absent(mem, journal, j)) /\ (~dirty => Absent(disk, journal, j))
  BY DEF IInv, MemInv, DiskInv, Sane, Cleared
<1> QED
  BY <1>1, <1>2, MergedTyped, Constants DEF Absent

-----------------------------------------------------------------------------
(* The theorems.                                                            *)

\* The invariant holds in every reachable state.
THEOREM CronInvariant == Spec => []IInv
<1>1. Init => IInv
  BY InitInv
<1>2. IInv /\ [Next]_vars => IInv'
  BY NextInv
<1> QED
  BY <1>1, <1>2, PTL DEF Spec

\* A confirmed removal holds in memory and on disk, whatever is merged afterwards
\* (_merge_action, _load_store, _save_store).
THEOREM RemovalsHold == Spec => []RemovalHolds
<1>1. IInv => RemovalHolds
  BY RemovalFollows
<1> QED
  BY <1>1, CronInvariant, PTL

\* While nothing runs the timer is armed, and early enough (_arm_timer).
THEOREM TimerAlwaysCovers == Spec => []TimerCovers
<1>1. IInv => TimerCovers
  BY DEF IInv
<1> QED
  BY <1>1, CronInvariant, PTL

LEMMA ReplayStep ==
    ASSUME IInv, [Next]_vars, NEW j \in Jobs, current # j, current' = j
    PROVE  mem'[j].next > started[j]
<1>0. TypeOK /\ j # NoJob
  BY Constants DEF IInv
<1>1. CASE TickBegins
  <2>1. PICK c \in Jobs : Due(View, c) /\ Begins(View, c, {i \in Jobs : Due(View, i)} \ {c})
    BY <1>1 DEF TickBegins
  <2>2. c = j /\ up /\ mem' = View
    BY <1>0, <1>1, <2>1 DEF Begins, TickBegins, Awake, TypeOK, Loads
  <2>3. Later(View[j], j) /\ View \in Lists
    BY <2>2, ViewIsSane DEF Sane, Ahead
  <2>4. View[j] \in Job
    BY <2>1, <2>2, <2>3 DEF Due, Scheduled, Lists
  <2> QED
    BY <2>1, <2>2, <2>3, <2>4, Constants DEF Due, Scheduled, Later
<1>2. CASE TickGoesOn
  <2>1. up /\ current \in Jobs /\ mem' = AfterRun(current)
    BY <1>0, <1>2 DEF TickGoesOn, TypeOK
  <2>2. PICK c \in due : Due(mem', c) /\ Begins(mem', c, due \ {c})
    BY <1>2 DEF TickGoesOn
  <2>3. c = j
    BY <1>0, <2>2 DEF Begins, TypeOK
  <2>4. Later(mem'[j], j) /\ mem' \in Lists
    BY <2>1, AfterRunIsSane
  <2>5. mem'[j] \in Job
    BY <2>2, <2>3, <2>4 DEF Due, Scheduled, Lists
  <2> QED
    BY <2>2, <2>3, <2>4, <2>5, Constants DEF Due, Scheduled, Later
<1>3. CASE UNCHANGED current
  BY <1>3
<1>4. CASE Stop \/ CrashInMerge
  BY <1>0, <1>4 DEF Stop, CrashInMerge, Halted
<1>5. CASE TickLoadFails \/ \E ok \in BOOLEAN : TickSaves(ok) \/ TickFindsNone(ok) \/ TickDone(ok)
  BY <1>0, <1>5 DEF TickLoadFails, TickSaves, TickFindsNone, TickDone, TickEnds
<1>6. CASE Start \/ StartRefused \/ Look \/ LoadFails
  BY <1>3, <1>6 DEF Start, StartRefused, Look, LoadFails, service
<1>7. CASE Edit
  BY <1>3, <1>7 DEF Edit, AddJob, RemoveJob, EnableJob, UpdateJob, Edits
<1>8. CASE Manual
  BY <1>3, <1>8 DEF Manual, ManualSaveFails, ManualMergeFails, ManualFindsNone, ManualBegins,
                    ManualEnds
<1>9. CASE Outside
  BY <1>3, <1>9 DEF Outside, JournalAdd, JournalDel, JournalEnable, JournalUpdate,
                   JournalRecord, AgentFindsDamage, Damage, Clock, service
<1> QED
  BY <1>1, <1>2, <1>3, <1>4, <1>5, <1>6, <1>7, <1>8, <1>9 DEF Next, Tick, vars, service

\* The timer never starts an occurrence that it has started before (_on_timer with its dirty flag).
THEOREM NeverReplays == Spec => NoReplay
<1>1. IInv /\ [Next]_vars => [\A j \in Jobs : current # j /\ current' = j
                                                  => mem'[j].next > started[j]]_vars
  BY ReplayStep
<1> QED
  BY <1>1, CronInvariant, PTL DEF Spec, NoReplay

LEMMA LeaveStep ==
    ASSUME IInv, Next, up, up', NEW j \in Jobs, mem[j] # Gone, mem'[j] = Gone
    PROVE  Removed(j) \/ HasRun(j) \/ file = "missing"
<1>0. TypeOK
  BY DEF IInv
<1>1. CASE mem'[j] = View[j]
  BY <1>1, ViewIsSane DEF Removed
<1>2. CASE mem'[j] = Fresh[j]
  BY <1>2, FreshIsSane DEF Removed
<1>3. ASSUME NEW k \in Jobs, mem' = AfterRun(k), k \in manual \cup {current}
      PROVE  HasRun(j)
  BY <1>0, <1>3, AfterRunTyped DEF HasRun
<1>4. CASE mem'[j] = mem[j]
  BY <1>4
<1>5. CASE Start \/ StartRefused \/ Stop \/ CrashInMerge \/ Look \/ LoadFails
  BY <1>1, <1>4, <1>5 DEF Start, StartRefused, Stop, CrashInMerge, Look, LoadFails, Loads, Halted,
                          service
<1>6. CASE Edit
  <2> SUFFICES ASSUME NEW k \in Jobs, NEW ok \in BOOLEAN,
                      \/ AddJob(k, ok) \/ RemoveJob(k, ok)
                      \/ \E on \in BOOLEAN : EnableJob(k, on, ok)
                      \/ \E w \in Whens[k] : UpdateJob(k, w, ok)
               PROVE  Removed(j) \/ HasRun(j) \/ file = "missing"
    BY <1>6 DEF Edit
  <2>1. View \in Lists
    BY ViewIsSane DEF Sane
  <2>2. CASE RemoveJob(k, ok) /\ k = j
    BY <2>2 DEF Removed
  <2>3. CASE k # j
    <3>1. mem'[j] = View[j]
      BY <2>1, <2>3 DEF AddJob, RemoveJob, EnableJob, UpdateJob, Edits, LoadsAndSaves, Lists
    <3> QED
      BY <3>1, <1>1
  <2>4. CASE k = j /\ ~RemoveJob(k, ok)
    <3>1. PICK on \in BOOLEAN, w \in Nat : mem' = [View EXCEPT ![j] = Rescheduled(j, on, w)]
      <4>1. View[j] # Gone => View[j] \in Job
        BY <2>1 DEF Lists
      <4>2. View[j] # Gone => View[j].when \in Nat /\ View[j].on \in BOOLEAN
        BY <4>1 DEF Job
      <4>3. CASE AddJob(k, ok)
        <5>1. PICK w \in Whens[j] : Edits([View EXCEPT ![j] = Rescheduled(j, TRUE, w)], ok)
          BY <2>4, <4>3 DEF AddJob
        <5> QED
          BY <5>1, WhensAreTimes DEF Edits, LoadsAndSaves
      <4>4. ASSUME NEW on \in BOOLEAN, EnableJob(k, on, ok)
            PROVE  \E w \in Nat : mem' = [View EXCEPT ![j] = Rescheduled(j, on, w)]
        BY <2>4, <4>2, <4>4 DEF EnableJob, Edits, LoadsAndSaves
      <4>5. ASSUME NEW w \in Whens[k], UpdateJob(k, w, ok)
            PROVE  \E on \in BOOLEAN : mem' = [View EXCEPT ![j] = Rescheduled(j, on, w)]
        BY <2>4, <4>2, <4>5 DEF UpdateJob, Edits, LoadsAndSaves
      <4> QED
        BY <2>4, <4>3, <4>4, <4>5, WhensAreTimes
    <3>2. mem'[j] = Rescheduled(j, on, w)
      BY <2>1, <3>1 DEF Lists
    <3>3. Rescheduled(j, on, w) \in Job
      BY <1>0, RescheduledIsAhead DEF TypeOK
    <3> QED
      BY <3>2, <3>3, Constants
  <2> QED
    BY <2>2, <2>3, <2>4
<1>7. CASE Tick
  <2>1. CASE TickGoesOn \/ \E ok \in BOOLEAN : TickDone(ok)
    <3>1. current \in Jobs
      BY <1>0, <2>1 DEF TickGoesOn, TickDone, TypeOK
    <3> QED
      BY <1>3, <2>1, <3>1 DEF TickGoesOn, TickDone, Saves
  <2>2. CASE TickLoadFails \/ TickBegins \/ \E ok \in BOOLEAN : TickSaves(ok) \/ TickFindsNone(ok)
    BY <1>1, <1>4, <2>2 DEF TickLoadFails, TickBegins, TickSaves, TickFindsNone, Loads, Saves,
                            LoadsAndSaves
  <2> QED
    BY <1>7, <2>1, <2>2 DEF Tick
<1>8. CASE Manual
  <2>1. ASSUME NEW k \in Jobs, NEW ok \in BOOLEAN, ManualEnds(k, ok) PROVE HasRun(j)
    BY <1>3, <2>1 DEF ManualEnds, Saves
  <2>2. CASE ManualSaveFails
    BY <1>4, <2>2 DEF ManualSaveFails
  <2>3. CASE ManualMergeFails
    BY <1>2, <2>3 DEF ManualMergeFails
  <2>4. CASE ManualFindsNone \/ \E k \in Jobs : ManualBegins(k)
    <3>1. mem' = View \/ mem' = Fresh
      BY <2>4 DEF ManualFindsNone, ManualBegins, ManualLoads, Loads
    <3> QED
      BY <1>1, <1>2, <3>1
  <2> QED
    BY <1>8, <2>1, <2>2, <2>3, <2>4 DEF Manual
<1>9. CASE Outside
  BY <1>4, <1>9 DEF Outside, JournalAdd, JournalDel, JournalEnable, JournalUpdate,
                   JournalRecord, AgentFindsDamage, Damage, Clock, service
<1> QED
  BY <1>5, <1>6, <1>7, <1>8, <1>9 DEF Next

\* No job leaves the running gateway's list without one of the reasons (_load_store, remove_job,
\* _execute_job).
THEOREM NoJobVanishes == Spec => JobsLeaveForAReason
<1>1. IInv /\ [Next]_vars =>
        [up /\ up' => \A j \in Jobs : mem[j] # Gone /\ mem'[j] = Gone =>
            Removed(j) \/ HasRun(j) \/ file = "missing"]_vars
  BY LeaveStep
<1> QED
  BY <1>1, CronInvariant, PTL DEF Spec, JobsLeaveForAReason
=============================================================================

----------------------------- MODULE CronStore -----------------------------
(***************************************************************************)
(* The scheduler of the gateway (nanobot/cron/service.py): jobs.json on    *)
(* disk, the copy in memory, the journal in which other processes note     *)
(* what they add, rewrite and delete, the timer task and the manual runs.  *)
(*                                                                         *)
(* The gateway is one asyncio process: everything between two awaits is    *)
(* one step, and the only awaits are the timer's sleep and the callback    *)
(* that runs a job.  The files are shared with the command line agent,     *)
(* which appends to the journal between any two steps.                     *)
(***************************************************************************)
EXTENDS Integers

CONSTANTS
    Jobs,         \* job ids; an id is a fresh uuid, so a user job is added once
    System,       \* jobs that the gateway registers before it starts the service
    OneShot,      \* jobs with an "at" schedule; the others repeat
    DeleteAfter,  \* one-shot jobs that are removed once they have run
    Whens,        \* per job the times (one-shot) or intervals (repeated) it may be given
    MaxNow,       \* bound of the clock: what is due later is never due
    MaxSleep      \* longest sleep of the timer

VARIABLES
    now,      \* the clock
    disk,     \* the jobs of jobs.json, none if it is damaged or missing
    file,     \* whether jobs.json is sound, damaged or missing
    journal,  \* action.jsonl: the last action noted for each job
    up,       \* the gateway runs (CronService._running)
    mem,      \* CronService._store
    dirty,    \* _store_dirty: the last save failed
    timer,    \* the timer task: none, asleep or inside _on_timer
    wake,     \* when a sleeping timer wakes
    due,      \* candidates the running tick has not reached yet
    current,  \* the job whose callback the running tick awaits
    manual,   \* jobs whose callback a manual run awaits
    ever,     \* history: ids that have been given out
    gone,     \* history: jobs whose removal was confirmed and that no later line restores
    unseen,   \* history: jobs that came with the journal after the timer was armed
    started   \* history: the last occurrence of each job that the timer has started, forgotten
              \* when another process writes the whole record of the job anew

storage == <<disk, file, journal>>
service == <<up, mem, dirty, timer, wake, due, current, manual>>
history == <<ever, gone, started>>   \* without unseen, which goes with the timer
vars == <<now, storage, service, history, unseen>>

Never == 0            \* next_run_at_ms is None: the code treats 0 like it
Gone == [on |-> FALSE, when |-> 0, next |-> -1]
NoEdit == [on |-> FALSE, when |-> 0, next |-> -2]
NoJob == "no job"

ASSUME CronAssumption ==
    /\ MaxNow \in Nat \ {0} /\ MaxSleep \in Nat \ {0}
    /\ Whens \in [Jobs -> SUBSET (Nat \ {0})] /\ \A j \in System : Whens[j] # {}
    /\ OneShot \cup System \subseteq Jobs /\ NoJob \notin Jobs
    /\ DeleteAfter \subseteq OneShot /\ System \cap OneShot = {}

Times == 1..MaxNow
Job == [on : BOOLEAN, when : Nat, next : {Never} \cup Times]
NoJobs == [j \in Jobs |-> Gone]

Earlier(a, b) == IF a < b THEN a ELSE b

\* _compute_next_run: a one-shot in the past has no next run, an interval starts now.
NextRun(j, w) ==
    LET next == IF j \in OneShot THEN w ELSE now + w
    IN IF now < next /\ next <= MaxNow THEN next ELSE Never

Rescheduled(j, on, w) == [on |-> on, when |-> w, next |-> IF on THEN NextRun(j, w) ELSE Never]

Scheduled(m, j) == m[j] # Gone /\ m[j].on /\ m[j].next # Never
Due(m, j) == Scheduled(m, j) /\ m[j].next <= now

\* _active_executions counts the tick that runs and the manual runs.
Idle == manual = {} /\ timer # "running"

-----------------------------------------------------------------------------
(* Loading and saving.                                                      *)

Merged(m) == [j \in Jobs |-> IF journal[j] = NoEdit THEN m[j] ELSE journal[j]]
Pending == \E j \in Jobs : journal[j] # NoEdit

\* Fault: unsaved results do not keep the file from being read again.
ReloadsUnsaved == Idle

\* Fault: the jobs are read again while a callback holds one of their records.
ReloadsInUse == ~dirty

\* _load_store keeps the copy in memory while it is ahead of the file or in use.
Reloads == ~dirty /\ Idle

\* Fault: the journal is truncated but its actions are not applied.
ViewUnmerged == IF Reloads /\ file # "damaged" THEN disk ELSE mem

\* What a load leaves in memory; a damaged file is moved aside, unmerged.
View == IF Reloads /\ file # "damaged" THEN Merged(disk) ELSE mem
Merges == Reloads /\ file # "damaged" /\ Pending

\* A load that goes through: the merged jobs are in the file and the journal is empty.
Empty == [j \in Jobs |-> NoEdit]
LoadedDisk == IF Merges THEN View ELSE disk
LoadedFile == IF Merges THEN "sound"
              ELSE IF Reloads /\ file = "damaged" THEN "missing" ELSE file
Loads ==
    /\ mem' = View /\ disk' = LoadedDisk
    /\ journal' = IF Merges THEN Empty ELSE journal
    /\ file' = LoadedFile

\* The same followed by a change of the jobs and _save_store, which sets dirty until the
\* write has succeeded.  A file that is written is sound again.
LoadsAndSaves(m, ok) ==
    /\ mem' = m /\ disk' = IF ok THEN m ELSE LoadedDisk
    /\ journal' = IF Merges THEN Empty ELSE journal
    /\ file' = IF ok THEN "sound" ELSE LoadedFile
    /\ dirty' = ~ok

\* _save_store alone.
Saves(m, ok) ==
    /\ mem' = m /\ disk' = IF ok THEN m ELSE disk
    /\ file' = IF ok THEN "sound" ELSE file
    /\ dirty' = ~ok
    /\ UNCHANGED journal

\* Fault: the timer sleeps its full time whatever is due.
AlarmsLate(m) == {Earlier(now + MaxSleep, MaxNow)}

\* When the timer wakes: at the earliest next run, at most MaxSleep away and not in the past.
\* Beyond the bound of the clock it wakes at the bound.
Alarms(m) ==
    LET times == {m[j].next : j \in {i \in Jobs : Scheduled(m, i)}} \cup {now + MaxSleep, MaxNow}
    IN {t \in now .. MaxNow : /\ \A u \in times : t <= u \/ t = now
                              /\ t \in times \/ \E u \in times : u < now}

\* _arm_timer, which does nothing while a job is executed.
Arms(m) ==
    /\ timer' = "armed"
    /\ wake' \in Alarms(m)
    /\ unseen' = {}
ArmsIf(condition, m) ==
    IF condition THEN Arms(m)
    ELSE /\ UNCHANGED <<timer, wake>>
         /\ unseen' = unseen \cup IF Merges THEN {j \in Jobs : journal[j] # NoEdit} ELSE {}

-----------------------------------------------------------------------------
Init ==
    /\ now = 1
    /\ disk = NoJobs /\ file = "missing" /\ journal = Empty
    /\ up = FALSE /\ mem = NoJobs /\ dirty = FALSE
    /\ timer = "none" /\ wake = 0 /\ due = {} /\ current = NoJob /\ manual = {}
    /\ ever = System /\ gone = {} /\ unseen = {} /\ started = [j \in Jobs |-> 0]

\* The gateway starts: it registers its own jobs or removes those that are switched off, the
\* journal is merged, and every enabled job gets its next run from now on.
Schedules == {s \in [System -> UNION {Whens[j] : j \in System}] : \A j \in System : s[j] \in Whens[j]}
Registered(m, enabled, every) ==
    [j \in Jobs |-> IF j \in enabled THEN [on |-> TRUE, when |-> every[j], next |-> Never]
                   ELSE IF j \in System THEN Gone ELSE m[j]]
Recomputed(m) ==
    [j \in Jobs |-> IF m[j] # Gone /\ m[j].on THEN Rescheduled(j, TRUE, m[j].when) ELSE m[j]]

Start ==
    /\ ~up /\ file # "damaged"
    /\ \E enabled \in SUBSET System, every \in Schedules :
          LET m == Recomputed(Registered(Merged(disk), enabled, every)) IN
          /\ mem' = m /\ disk' = m
          /\ Arms(m)
    /\ up' = TRUE /\ file' = "sound"
    /\ journal' = Empty
    /\ UNCHANGED <<now, dirty, due, current, manual, history>>

\* Nothing runs over a damaged file: it is moved aside and the gateway does not start.
StartRefused ==
    /\ ~up /\ file = "damaged"
    /\ file' = "missing"
    /\ UNCHANGED <<now, disk, journal, service, history, unseen>>

\* The process ends, in the middle of a callback or not.
Halted ==
    /\ up' = FALSE /\ mem' = NoJobs /\ dirty' = FALSE
    /\ timer' = "none" /\ wake' = 0 /\ due' = {} /\ current' = NoJob /\ manual' = {}
    /\ unseen' = {}

\* Of the removals somebody was told of, those still hold that are on disk or noted.
Forgets(m) == gone' = {j \in gone : m[j] = Gone}

Stop ==
    /\ up /\ Halted
    /\ IF dirty THEN Forgets(Merged(disk)) ELSE UNCHANGED gone
    /\ UNCHANGED <<now, storage, ever, started>>

\* It dies inside _merge_action, between the truncation of the journal and the save.
CrashInMerge ==
    /\ up /\ Merges /\ Halted
    /\ journal' = Empty
    /\ Forgets(disk)
    /\ UNCHANGED <<now, disk, file, ever, started>>

-----------------------------------------------------------------------------
(* Calls from inside the gateway: the cron tool of a turn, the WebUI.       *)

\* list_jobs, get_job, status: they reload, and so they merge.  A manual run that does not
\* come to its callback also re-arms the timer.
Look ==
    /\ up
    /\ Loads
    /\ \E arm \in BOOLEAN : ArmsIf(arm /\ Idle, View)
    /\ UNCHANGED <<now, up, dirty, due, current, manual, history>>

\* Any call whose load merges and cannot save: it raises, and what it has read stays.
LoadFails ==
    /\ up /\ Merges
    /\ journal' = Empty
    /\ mem' = View /\ dirty' = TRUE
    /\ \E arm \in BOOLEAN : ArmsIf(arm, View)
    /\ UNCHANGED <<now, disk, file, up, due, current, manual, history>>

\* A change of the jobs in memory, saved and followed by _arm_timer if the save succeeds.
Edits(m, ok) ==
    /\ up /\ LoadsAndSaves(m, ok)
    /\ ArmsIf(ok /\ Idle, m)
    /\ UNCHANGED <<now, up, due, current, manual>>

AddJob(j, ok) ==
    /\ j \notin ever
    /\ \E w \in Whens[j] : Edits([View EXCEPT ![j] = Rescheduled(j, TRUE, w)], ok)
    /\ ever' = ever \cup {j}
    /\ UNCHANGED <<gone, started>>

\* A record that the other process wrote and that is not merged yet outlives the removal.
Outlives(j) == journal'[j] \in Job

RemoveJob(j, ok) ==
    /\ j \notin System /\ View[j] # Gone
    /\ Edits([View EXCEPT ![j] = Gone], ok)
    /\ gone' = IF ok /\ ~Outlives(j) THEN gone \cup {j} ELSE gone
    /\ UNCHANGED <<ever, started>>

EnableJob(j, on, ok) ==
    /\ j \notin System /\ View[j] # Gone
    /\ Edits([View EXCEPT ![j] = Rescheduled(j, on, View[j].when)], ok)
    /\ UNCHANGED history

\* update_job with another schedule; other fields do not touch what is modelled.
UpdateJob(j, w, ok) ==
    /\ j \notin System /\ View[j] # Gone /\ View[j].when # w
    /\ Edits([View EXCEPT ![j] = Rescheduled(j, View[j].on, w)], ok)
    /\ UNCHANGED history

-----------------------------------------------------------------------------
(* Executing jobs.                                                          *)

\* The end of _execute_job, whatever the callback's outcome.  The record of a job that was
\* removed meanwhile is no longer in the store.
AfterRun(j) ==
    IF mem[j] = Gone THEN mem
    ELSE [mem EXCEPT ![j] =
             IF j \in DeleteAfter THEN Gone
             ELSE IF j \in OneShot THEN [@ EXCEPT !.on = FALSE, !.next = Never]
             ELSE [@ EXCEPT !.next = NextRun(j, mem[j].when)]]

\* The timer starts the callback of one of its candidates, which is due by the jobs m.  A record
\* that still waits in the journal may carry the same occurrence.
Begins(m, c, rest) ==
    /\ timer' = "running" /\ current' = c /\ due' = rest
    /\ started' = [started EXCEPT ![c] = IF Outlives(c) THEN 0 ELSE m[c].next]
    /\ wake' = 0 /\ UNCHANGED unseen

\* Fault: a tick that fails to save does not re-arm the timer.
TickEndsUnarmed(m) ==
    /\ IF manual = {} /\ ~dirty' THEN Arms(m) ELSE timer' = "none" /\ wake' = 0 /\ UNCHANGED unseen
    /\ due' = {} /\ current' = NoJob
    /\ UNCHANGED started

\* _on_timer returns: finally re-arms the timer, unless a manual run goes on and will.
TickEnds(m) ==
    /\ IF manual = {} THEN Arms(m) ELSE timer' = "none" /\ wake' = 0 /\ UNCHANGED unseen
    /\ due' = {} /\ current' = NoJob
    /\ UNCHANGED started

\* The timer wakes.  Unsaved results are saved first, and nothing else happens then.
TickSaves(ok) ==
    /\ up /\ timer = "armed" /\ wake <= now /\ dirty
    /\ Saves(mem, ok)
    /\ TickEnds(mem)
    /\ UNCHANGED <<now, up, manual, ever, gone>>

Awake == up /\ timer = "armed" /\ wake <= now /\ ~dirty

\* The load of the tick raises: the tick is over.
TickLoadFails ==
    /\ Awake /\ Merges
    /\ journal' = Empty
    /\ mem' = View /\ dirty' = TRUE
    /\ TickEnds(View)
    /\ UNCHANGED <<now, disk, file, up, manual, ever, gone>>

TickFindsNone(ok) ==
    /\ Awake
    /\ \A j \in Jobs : ~Due(View, j)
    /\ LoadsAndSaves(View, ok)
    /\ TickEnds(View)
    /\ UNCHANGED <<now, up, manual, ever, gone>>

TickBegins ==
    /\ Awake
    /\ Loads
    /\ \E c \in Jobs :
          /\ Due(View, c)
          /\ Begins(View, c, {j \in Jobs : Due(View, j)} \ {c})
    /\ UNCHANGED <<now, up, dirty, manual, ever, gone>>

\* A callback ends.  Of the other candidates those run that are still due by now.
TickGoesOn ==
    /\ up /\ timer = "running"
    /\ mem' = AfterRun(current)
    /\ UNCHANGED <<now, storage, up, dirty, manual, ever, gone>>
    /\ \E c \in due : Due(mem', c) /\ Begins(mem', c, due \ {c})

TickDone(ok) ==
    /\ up /\ timer = "running"
    /\ \A c \in due : ~Due(AfterRun(current), c)
    /\ Saves(AfterRun(current), ok)
    /\ TickEnds(AfterRun(current))
    /\ UNCHANGED <<now, up, manual, ever, gone>>

\* run_job saves unsaved results before it loads the jobs.  When that save fails it raises.
ManualSaveFails ==
    /\ up /\ dirty
    /\ ArmsIf(Idle, mem)
    /\ UNCHANGED <<now, storage, up, mem, dirty, due, current, manual, history>>

\* What it finds after both, in memory and in the file.
Fresh == IF Reloads THEN View ELSE IF Idle THEN Merged(mem) ELSE mem

ManualLoads ==
    \/ ~dirty /\ Loads /\ UNCHANGED dirty
    \/ /\ dirty
       /\ mem' = Fresh /\ disk' = Fresh
       /\ journal' = IF Idle THEN Empty ELSE journal
       /\ file' = "sound" /\ dirty' = FALSE

\* The saved jobs are merged with the journal and that cannot be saved: it raises.
ManualMergeFails ==
    /\ up /\ dirty /\ Idle /\ Pending
    /\ mem' = Fresh /\ disk' = mem /\ journal' = Empty /\ file' = "sound"
    /\ Arms(Fresh)
    /\ UNCHANGED <<now, up, dirty, due, current, manual, history>>

\* The job is gone or disabled; without unsaved results this is Look.
ManualFindsNone ==
    /\ up /\ dirty
    /\ ManualLoads
    /\ ArmsIf(Idle, Fresh)
    /\ UNCHANGED <<now, up, due, current, manual, history>>

ManualBegins(j) ==
    /\ up /\ j \notin System \cup manual
    /\ Fresh[j] # Gone /\ Fresh[j].on
    /\ ManualLoads
    /\ manual' = manual \cup {j}
    /\ UNCHANGED <<now, up, timer, wake, due, current, history, unseen>>

ManualEnds(j, ok) ==
    /\ up /\ j \in manual
    /\ Saves(AfterRun(j), ok)
    /\ manual' = manual \ {j}
    /\ ArmsIf(manual' = {} /\ timer # "running", AfterRun(j))
    /\ UNCHANGED <<now, up, due, current, history>>

-----------------------------------------------------------------------------
(* The other process and the environment.                                   *)

\* A service that does not run (the command line agent) adds, removes or rewrites a job: a line in
\* the journal.  Its view of the jobs is the file with the journal.
JournalAdd(j) ==
    /\ j \notin ever
    /\ \E w \in Whens[j] : journal' = [journal EXCEPT ![j] = Rescheduled(j, TRUE, w)]
    /\ ever' = ever \cup {j} 
    /\ UNCHANGED <<now, disk, file, service, gone, started, unseen>>

JournalDel(j) ==
    /\ file # "damaged" /\ j \notin System /\ Merged(disk)[j] # Gone
    /\ journal' = [journal EXCEPT ![j] = Gone]
    /\ gone' = gone \cup {j}
    /\ UNCHANGED <<now, disk, file, service, ever, started, unseen>>

\* enable_job and update_job there: the line is the whole record of the job as that process read it,
\* changed.  The file may be behind the gateway: the record may carry an occurrence that has started
\* meanwhile, and it restores a job whose removal has not reached the file.
JournalRecord(j, record) ==
    /\ file # "damaged" /\ j \notin System /\ Merged(disk)[j] # Gone
    /\ journal' = [journal EXCEPT ![j] = record]
    /\ gone' = gone \ {j}
    /\ started' = [started EXCEPT ![j] = 0]
    /\ UNCHANGED <<now, disk, file, service, ever, unseen>>

JournalEnable(j, on) == JournalRecord(j, Rescheduled(j, on, Merged(disk)[j].when))

\* Without another schedule the record keeps its next run.
JournalUpdate(j, w) ==
    LET job == Merged(disk)[j]
    IN JournalRecord(j, IF job.when = w THEN job ELSE Rescheduled(j, job.on, w))

\* Any call of that agent that loads moves a damaged file aside.
AgentFindsDamage ==
    /\ file = "damaged"
    /\ file' = "missing"
    /\ UNCHANGED <<now, disk, journal, service, history, unseen>>

Damage ==
    /\ file = "sound"
    /\ file' = "damaged" /\ disk' = NoJobs
    /\ UNCHANGED <<now, journal, service, history, unseen>>

Clock ==
    /\ now < MaxNow
    /\ now' = now + 1
    /\ UNCHANGED <<storage, service, history, unseen>>

Edit ==
    \E j \in Jobs, ok \in BOOLEAN :
        \/ AddJob(j, ok) \/ RemoveJob(j, ok)
        \/ \E on \in BOOLEAN : EnableJob(j, on, ok)
        \/ \E w \in Whens[j] : UpdateJob(j, w, ok)

Tick ==
    \/ TickLoadFails \/ TickBegins \/ TickGoesOn
    \/ \E ok \in BOOLEAN : TickSaves(ok) \/ TickFindsNone(ok) \/ TickDone(ok)

Manual ==
    \/ ManualSaveFails \/ ManualMergeFails \/ ManualFindsNone
    \/ \E j \in Jobs : ManualBegins(j) \/ \E ok \in BOOLEAN : ManualEnds(j, ok)

Outside ==
    \/ \E j \in Jobs :
          \/ JournalAdd(j) \/ JournalDel(j)
          \/ \E on \in BOOLEAN : JournalEnable(j, on)
          \/ \E w \in Whens[j] : JournalUpdate(j, w)
    \/ AgentFindsDamage \/ Damage \/ Clock

Next == Start \/ StartRefused \/ Stop \/ CrashInMerge \/ Look \/ LoadFails \/ Edit \/ Tick
        \/ Manual \/ Outside

Spec == Init /\ [][Next]_vars

FairSpec ==
    /\ Spec
    /\ WF_vars(Clock)
    /\ SF_vars(TickSaves(TRUE)) /\ SF_vars(TickFindsNone(TRUE)) /\ SF_vars(TickBegins)
    /\ WF_vars(TickGoesOn) /\ WF_vars(TickDone(TRUE) \/ TickDone(FALSE))
    /\ \A j \in Jobs : WF_vars(ManualEnds(j, TRUE) \/ ManualEnds(j, FALSE))

-----------------------------------------------------------------------------
TypeOK ==
    /\ now \in Times
    /\ disk \in [Jobs -> Job \cup {Gone}] /\ mem \in [Jobs -> Job \cup {Gone}]
    /\ journal \in [Jobs -> Job \cup {Gone, NoEdit}]
    /\ file \in {"sound", "damaged", "missing"}
    /\ up \in BOOLEAN /\ dirty \in BOOLEAN
    /\ timer \in {"none", "armed", "running"} /\ wake \in 0 .. MaxNow
    /\ due \subseteq Jobs /\ current \in Jobs \cup {NoJob} /\ manual \subseteq Jobs \ System
    /\ ever \subseteq Jobs /\ gone \subseteq Jobs /\ unseen \subseteq Jobs
    /\ started \in [Jobs -> 0 .. MaxNow]
    /\ timer = "running" <=> current # NoJob

\* The timer never runs an occurrence twice, whatever saves fail, crash or come in between:
\* "Reloading the older on-disk snapshot here could make an already executed job due again and
\* repeat its side effect."  Only a record of the job that another process writes (enable_job,
\* update_job of a service that does not run) can bring an occurrence back.
NoReplay == [][\A j \in Jobs : current # j /\ current' = j => mem'[j].next > started[j]]_vars

\* While no job runs the gateway sleeps, and not beyond the next run of any job in memory, but for
\* jobs that a journal brought to a reader which does not re-arm: "Always re-arm the timer, even on
\* unexpected failures, so a single bad tick cannot silently stop all future jobs."
TimerCovers ==
    up /\ Idle =>
        /\ timer = "armed"
        /\ ~dirty => \A j \in Jobs \ unseen :
                        Scheduled(mem, j) => wake <= now \/ wake <= mem[j].next

\* A job whose removal was confirmed, by the gateway or by the other process, does not come back:
\* neither a run that still holds its record nor an older file or journal line restores it.  What can
\* take the confirmation back is a crash or stop with unsaved changes, and a whole record of the job
\* that another process wrote before the removal had reached the file: while a job runs the gateway
\* does not merge, so the removal is saved under a line that restores the job.
RemovalHolds ==
    \A j \in gone : /\ up => Merged(mem)[j] = Gone
                    /\ ~dirty => Merged(disk)[j] = Gone

\* While the gateway is up a job leaves its list only because somebody removed it or because it was
\* a one-shot that has run, or when jobs.json is missing as the list is loaded.
Removed(j) == journal[j] = Gone \/ \E ok \in BOOLEAN : RemoveJob(j, ok)
HasRun(j) == j \in DeleteAfter /\ j \in manual \cup {current}
JobsLeaveForAReason ==
    [][up /\ up' => \A j \in Jobs : mem[j] # Gone /\ mem'[j] = Gone =>
          Removed(j) \/ HasRun(j) \/ file = "missing"]_vars

\* "keep using the previous in-memory self._store if we already have one (so a transient corruption
\* does not drop live jobs)": a file that was damaged costs no live job.
DamageDropsNoJob ==
    [][up /\ up' => \A j \in Jobs : mem[j] # Gone /\ mem'[j] = Gone =>
          Removed(j) \/ HasRun(j)]_vars

\* The gateway never stays with a job due: it runs, or somebody takes it off the list.
DueRuns == []<>(\A j \in Jobs : ~Due(mem, j))
=============================================================================

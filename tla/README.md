# Familia in TLA+

Familia is an assistant for a family: one gateway process (a fork of nanobot, with the `familia`
package hooked into it) serves private chats of several people over Telegram, VK and a terminal,
and keeps what it learns of each person in memX, an HTTP service over Redis. This directory models
the parts of it where several actors touch the same state: the conditional store, the writer on top
of it, the consent of a second person for an outgoing message, the transcript of a chat with its
compaction, the hand-off of archived conversation to memory, the order in which messages become
turns, the scheduler, the delivery of what scheduled runs say, and the queue of local triggers.

All paths below are relative to `src/`; `familia/` stands for `familia/src/familia/` and `nanobot/`
for `nanobot/nanobot/`. `PROJECT.json` has the exact lines behind every definition.

Contents: [inventory](#inventory) · [plan](#plan) · [modules](#modules) · [runs](#runs) ·
[observations](#observations) · [fairness](#fairness) · [proofs](#proofs) · [limits](#limits)

## Inventory

How the parts interact: a channel adapter puts an inbound message on the bus; admission resolves
the sender to a principal or parks him as pending; the agent loop's one consumer makes it a task of
its session, a follow-up of the turn that runs there, or a command; the task takes the lock of the
principal's private session, appends the message, calls the model and its tools, and saves the
session file. Tools send messages to other people through the policy gate (which may park them for
approval; the buttons come back through the callback dispatcher) and write memory through the
ingestor, which talks to memX over HTTP. Timers compact idle chats and cap session files: both
archive transcript rows as facts in the owner's memory, which a Dream run later digests into the
owner's profile. The scheduler and the runner of local triggers submit automation turns to the
loop and wait for their result. What a turn says goes through the outbound bus to the channel
manager, which reports the result of each send to the observer of scheduled runs; that may publish
the message again on another route.

| component | state | operations | what is hard | what makes it correct | modules |
|---|---|---|---|---|---|
| memX conditional store (`memx/store.py`, `memx/main.py`) | one Redis key per value, one `private_index` key per principal, a version in each | `/get`, `/set`, `/delete` with `expected_ts` and an index operation | two keys under one optimistic transaction; versions from a wall clock; catalog limit under concurrency | value and catalog agree; no unseen overwrite; no version twice; no eviction; atomic | `MemxStore`, `AtomicCatalog` |
| Principal memory ingestor (`familia/principal_memory_ingestor.py`) | the locals of one `ingest()` call | read, conditional post, start over on conflict | lost replies while memX goes on; bounded retries; a profile version taken long before | a result never lies; what is replaced is what was read; one call is one write or none | `Ingestor`, `AtomicIngest` |
| Outbound policy gate and approval (`familia/policy/`) | parked messages with a lifetime | allow, deny, park and prompt approvers, release once | presses before all prompts are out; two approvers; policy that changes meanwhile; restart | at most one delivery, by a consent that holds when it is given; none after a refusal | `ApprovalFlow`, `Consent` |
| Questions (`familia/pending_asks.py`, `tools/ask.py`) and callback dispatcher (`familia/bus/callback_dispatcher.py`) | `PendingAsk` records, one watchdog each | register, start or replace the timer, take on an answer, expire | timeout against late answer; failed release; two phases of one timer | one outcome for the requester; no record without a timer; honest timeouts | `ApprovalFlow`, `Consent` |
| Session transcript, compaction, archive (`nanobot/session/manager.py`, `nanobot/agent/memory.py`, `autocompact.py`, `loop.py`, `command/builtin.py`, `cli/gateway_runtime.py`) | a live object, a JSONL file, the boundary `last_archived` | turn, delivery, idle compaction, file cap, `/new` | deliveries append without the lock while its holder awaits the archive; failed saves and rollbacks; crash between archive and save | hidden rows are archived; no row is lost; the scan ends | `SessionArchive` |
| Dream consolidation (`familia/nanobot_extension/runtime_services.py`, `familia/bootstrap.py`) | the owner's catalog and profile, locals of a run | archive a group, read a batch, rewrite the profile, delete the groups | scheduled run beside `/dream`; deletion after a partly failed turn; lost answers; full catalog; a group that cannot be digested | what was handed over stays until digested; profile details survive; every group is digested | `DreamRun` |
| Turns of the agent loop (`nanobot/agent/loop.py`, `automation_turns.py`, `command/builtin.py`) | tasks, session lock, injection queue, deferred turns, the futures of submitters | take a message, inject, defer, `/stop`, `/new`, end a turn | a cancellation that meets a task before, at or after the lock; the consumer itself waits; queues that outlive their turn | one turn at a time; messages are served; deferred turns are released; automations run alone and report | `TurnRouter`, `TurnService` |
| Cron service (`nanobot/cron/service.py`) | `jobs.json`, the list in memory, the journal of other processes, the timer task | add, remove, enable, update, list, tick, manual run, start, stop | reload during a run; failed saves; damaged files; two files that are written one after the other | no occurrence twice; a removal holds; no job vanishes; the timer covers what is due | `CronStore` |
| Channel manager (`nanobot/channels/manager.py`) | one task per send, the tail of each route, 256 slots | dispatch, send in order, retry, cancel with a channel, report | a task cancelled before it ran; retries; a channel replaced meanwhile | sends in order, each reported once, slots come back | `CronDelivery` |
| Cron delivery (`familia/nanobot_extension/cron.py`) | at most 256 run contexts, a lock | register, observe a delivery result, publish to the next route | results before the route is recorded; eviction; a publish under the lock | one route at a time, in order; none forgotten | `CronDelivery`, `Fallback` |
| Local triggers (`nanobot/triggers/local_store.py`, `local_runner.py`) | `triggers.json`, three directories of delivery files, a claimed batch | create, enable, delete, enqueue, claim, complete, retry, recover | kills between two writes; another process deletes while the runner awaits a turn | a queued delivery has a file; bounded turns; handled once; one place at a time | `LocalTriggers`, `TriggerQueue` |
| Gateway process (`nanobot/cli/gateway_runtime.py`) | process, leases of local clients, instance lock | start, shut down, reload | order of shutdown; kills | what survives is taken up | going down and up, in `LocalTriggers`, `CronStore`, `SessionArchive`, `ApprovalFlow` |
| Memory tools (`familia/tools/memory.py`, `dream_memory.py`) | none | `memory_set`, `memory_get`, `dream_memory_set` | a peer read joins four requests | writes go through the ingestor; a peer sees only what tags allow | partly, in `Ingestor` and `DreamRun` |
| Policy engine (`familia/policy/engine.py`) | rules, loaded at start | `evaluate` | first match, patterns with negation and roles | deny wins where it must | verdicts only, in `ApprovalFlow` |
| Principal memory access (`familia/acl/`) | graphs of people and topics in memX | read profile, catalog, facts, graphs, peers | unconditional rewrite of a whole graph | reads fail closed | not modelled |
| Pending principals (`familia/pending/store.py`) | a JSON file: entries, rejections | `record`, `approve`, `reject` | gateway and console are two processes, the lock is a thread lock; cap; cooldown | a rejected sender stays silent for the cooldown | not modelled |
| Principals, identity, roles (`familia/principals.py`, `session_identity.py`, `roles.py`) | registry file, dynamic grants in memX | resolve, reload, grant | grants are rewritten as a whole without `expected_ts` | a grant is not lost | not modelled |
| System jobs, heartbeat (`runtime_services.py`, `maintenance.py`) | files | heartbeat turn, clean-up of media and old session files | clean-up unlinks a session file whose live object stays cached | nothing newer than the retention is removed | Dream only |
| Session storage and migrations (`familia/session_storage.py`, `session_migration.py`, `memory_migration.py`) | marker files, plans, target files | plan, apply, replay | crash in the middle, repeated runs | a repeated run ends in the same files | not modelled |
| Recovery of turns, follow-ups of the web interface (`nanobot/webui/`, checkpoints in `loop.py`) | checkpoints, a journal of follow-ups, a transcript | save, resume, replay | a crash in a turn | no follow-up is lost | not modelled |
| Bootstrap, admission, prompt building (`familia/bootstrap.py`, `context.py`) | hooks | install, admit, build prompt | fail closed on every error | unknown senders reach no model | archive hook only |
| Providers, tools, VK, Telegram, web and terminal interfaces, admin console, model settings, audit log, scripts, memX pub/sub, auth and schemas | – | I/O and forms | – | – | not modelled |

## Plan

Modelled first is what the rest trusts: the store, then what writes to it, then what feeds the
writer; then the loop and what submits turns to it.

1. `AtomicCatalog`, `AtomicIngest`, `MemxStore`, `Ingestor`, `MemxStoreProofs`. Done.
2. `Consent`, `ApprovalFlow`, `ApprovalFlowProofs`. Done.
3. `SessionArchive`, `SessionArchiveProofs`. Done.
4. `DreamRun`, `DreamRunProofs`. Done.
5. `CronStore`, `Fallback` and `CronDelivery` with their proofs. Done. `CronDelivery` composes the observer with
   the channel manager, because its hazards are in what passes between the two.
6. `TurnService`, `TurnRouter`, `TriggerQueue`, `LocalTriggers` with their proofs. Done.
7. Left: `PeerRead` (a peer's read against the writer of `MemxStore` changing tags in between),
   `PolicyRules` (first match as an operator), recovery of turns after a crash, and a composition
   of `SessionArchive` and `DreamRun` over one archive.

Considered and left out: `PendingPrincipals`, role grants and graph rewrites are read-modify-write
cycles of whole documents without a lock or condition between the processes. That they lose updates
is plain from the source; a model would have no property that holds. Migrations are offline and run
by one process.

Theorems: every invariant and action property that a passing run checks is proved; what is left to
TLC is liveness.

## Modules

**`MemxStore`** – `set_value` and `delete_value` for one principal's namespace, one action per
Redis command: `Watch`, `GetValue`, `GetIndex`, the refusals `Conflict`, `CatalogFull`,
`NothingThere`, `VersionExhausted`, the choice of the new version `Prepare`, `Exec` (MULTI/EXEC),
`Retry` (WatchError), `Finish`. A worker is one request inside some memX process. The compose files
start one uvicorn process, in which these synchronous calls do not interleave; the WATCH
transactions are written for several processes on one Redis, and that is what is modelled. The
catalog is a function from fact to tags; versions are naturals up to `MaxVersion`, the order of the
finite floats, so `nextafter` is `+ 1` and the clock shows any member of `Clocks`, in any order.
**`AtomicCatalog`** is the promise: value and catalog change in one step, on conditions that the
present state meets.

**`Ingestor`** – `ingest()` on top of `MemxStore`: `Begin`, `Read`, `Post`, `Answered`,
`ConflictAgain`, `ConflictEnds`, `ProfileMoved`, `RequestFails`, `ReplyLost`; `ServerStep` is memX's
own progress, with or without a caller who still waits. **`AtomicIngest`** is what a caller may
think: a call reads, then writes at one instant at which the record it read is still there, or not
at all, and then hears of it, or of nothing. There are no requests, workers, versions in flight or
attempts in it; `Ingestor!Promise` maps a call to idle, open (`begun`, whatever memX is doing for
it), `written` or over (`Standing`).

**`ApprovalFlow`** – the tool call (`GateDenies`, `GateAllows`, `GateAsks`, `Prompt`,
`Undeliverable`, `Asked`, `SendNow`, `SendFails`, `Sent`), the single callback handler
(`PressApprove`, `PressReject`, `PressExpired`, `Answer`, `Deliver`, `DeliverFails`, `Delivered`,
`Approved`, `Rejected`, `Dropped`), `WatchdogFires`, `Tick`, `PolicyChanges`, `Restart`. A step is
the code between two awaits. A clock unit is at least the 30 seconds that bound `wait_s` from below;
a publish that takes as long is outside the model. The bootstrap no longer registers the question
tool (`familia/bootstrap.py:745`) but keeps its records and the handler of its buttons; the model
has the tool as the class implements it, and plain messages beside it. **`Consent`** is what the flow promises of a
message: its `fate`, how often it was delivered, and what its requester has heard. It knows the
policy and the people, and no token, prompt, timer or callback stage; `ApprovalFlow!Fate` reads the
fate off these. A message becomes `cleared` only by the ruling of the moment the tool calls the gate,
or by a person whom the rule names at the moment of the press.

**`SessionArchive`** – the live object and the file of one chat; `Deliver` appends and saves without
the lock, the jobs `turn`, `idle`, `cap` and `new` hold it across their awaits; every save and every
archive call can fail, `Crash` reloads the file. `Jobs` says which jobs take part, `CompactInTurn`
whether a turn may replace its own history by a summary, and `Opening` how many deliveries may come
before anything the user says. What a turn summarises is what `get_history` replays (`History`), not
all that is behind the boundary (`Visible`), which the other jobs archive. `over` is the flag of a
pending file cap: `MarkOverCap` sets it or takes it back without the lock, the scan passes over the
chat while it is set (`IdleStarts`), and the owner's `/compact` does not look at it (`CompactStarts`).

**`DreamRun`** – `ChatArchives` (`_archive_messages`), `OwnerStores` and `OwnerForgets`
(`memory_set`), and the runs: `ReadsArchive`, `ReadsProfile`, `TurnStarts`, `Rewrites`,
`StoresFact`, `ForgetsFact`, `TurnCompletes`, `Deletes`, `RunEnds`. An `ingest()` call is one step
here, which `Ingestor!CallsAreAtomic` justifies: it lands at most once and atomically, and its result may
be lost. The profile is the set of groups whose details it holds, and its version is the flag
`moved`: written since the run read it. The order in which groups are deleted is left open. That the
model repeats the details of the profile it was shown is assumed; the prompt asks for it.

**`TurnRouter`** – one session, because sessions share nothing but the bus and the consumer. The
consumer is `StartsTask`, `Injects`, `Defers`, `TakesCommand`, `StopReplies`, `NewWaits` and
`NewResets`; the tasks of `_dispatch` are `Begins`, `TurnStarts`, `Absorbs`, `TurnEnds`,
`StoppedTurnEnds`, `WaiterEnds`, and `NewCancels`, `NewGoesOn` for a `/new` that came while no turn
ran and is a turn itself. Such a `/new` drops itself from `_active_tasks`, so a later `/stop` does
not cancel it but takes its injection queue. A cancellation does one of three things, depending on
whether the task has asked for the lock, waits for it or runs (`Reached`); `spawned` also stands for
a task that awaits admission. `Others` are holders of the lock that are no turns: compaction, direct
calls. Messages of one kind are sent in a fixed order: they are alike until sent. `TurnService` is what
the loop promises to the messages of a session, without bus, tasks, lock and queues: turns come one at
a time, a user's message may be taken into the turn that runs, a command halts what it finds
(`Halts`) and is carried out when all of that has ended, and a turn of an automation reports.
`ServesInTurn` says that `TurnRouter` implements it; `Standing` maps a message's place to where it
stands, so that a follow-up or a deferred turn that goes back to the bus has not moved.

**`CronStore`** – the three representations of the job list (`disk`, `mem`, `journal`), the timer
task and manual runs. The edits `AddJob`, `RemoveJob`, `EnableJob`, `UpdateJob`; the tick
`TickLoadFails`, `TickFindsNone`, `TickBegins`, `TickSaves`, `TickGoesOn`, `TickDone`; manual runs
`ManualLoads`, `ManualFindsNone`, `ManualBegins`, `ManualEnds` and their failures; `Start`, `Stop`,
`Look` (a reader reloads and merges without arming the timer), `LoadFails`; outside the gateway
`JournalAdd`, `JournalDel`, `JournalEnable`, `JournalUpdate`, `Damage`, `Clock`, `CrashInMerge`. The
last two of the journal append the whole record of a job, as the other process read it from the file
and the journal, with its next run (`JournalRecord`). `Reloads`, `View` and `Merges` are
what `_load_store` and `_merge_action` make of the files: the list in memory stays when a save has
failed or a job runs. A record that waits in the journal outlives a removal by the gateway
(`Outlives`), and may carry an occurrence that has run. Any save may fail, and the file may be damaged at any time. A cron expression
is an interval; a next run past `MaxNow` is never due. One manual run per job is under way at a time.

**`CronDelivery`** – the bus and dispatcher (`Takes`, `GetsSlot`, `ChannelStopped`), the send tasks
(`TaskBegins`, `NextInLine`, `Attempts`, `Delivered`, `Rejected`, `Breaks`, `Leaves`) and the
observer (`Ignores`, `Finishes`, `FallsBack`, `Allowed`, `Refused`). A copy is a message on a route.
`asked` is the observer's lock: `_publish_next` awaits the policy under it, so a second report waits
and the result of the copy it publishes can come before the route is recorded. A fallback that
needs approval is parked and may be approved later (`Approved`). Stopping a channel cancels its
sends at whatever point they are, also in their report (`cut`). Familia's own guard never suspends,
but the interface lets it. **`Fallback`** is the promise to the recipient: a message is on one route
at a time, leaves it only after a refusal that is certain, and goes on to a later one; sends that are
cut off are `unknown` for good. There are no copies, slots, locks, contexts or channels in it;
`CronDelivery!Standing` reads off a message's copies how it stands.

**`LocalTriggers`** – `Create`, `Enable`, `Delete`, which the gateway runs for its users; `Enqueue` by
`nanobot trigger`, a process of its own; the gateway's runner
`Start`, `BeginRecovery`, `Recover`, `Recovered`, `Claim`, `Drop`, `Begin`, `End`, `Stall`, `Fail`,
`Shutdown`; and `Crash`. `Stall` is what a cancellation in `TurnRouter` does to the runner when the
turn has no lock yet: its future stays open, and the runner waits until the gateway goes down. A file lock makes an operation of the store one action. The actions whose
names end in `Cut` are that operation, killed or failing between two of its writes. Commands act in
the gateway only where the runner awaits. A delivery is its file name, and the counts in the files are
the attempts. A turn that fails after its trigger was deleted puts its file back in `inbox/`, where
it is later dropped as `trigger not found`; at the limit of attempts it stays in `failed/`.
`Shutdown` in a turn counts an attempt, as the code does. **`TriggerQueue`** is what a sender may
think: a delivery is queued, has a turn, is settled, given up or withdrawn, and a fault costs each
delivery of one batch an attempt at that moment. There are no files in it: `LocalTriggers!Fate` reads
a delivery's place off its copies, and `Attempts` counts at the fault what recovery writes down later.

`MC*.tla` give the constants their values (`TurnRouter` is run as it is, with model values).
Operators under a comment "Fault:" are the step beside them with one plausible mistake; no
specification uses them, `PROJECT.json` says which property catches each.

## Runs

Every run passes; type invariants and those invariants that only serve the proofs are proved below
and not run again.

| run | instance | properties | shows |
|---|---|---|---|
| `memx_store` | 2 workers, 2 facts, 1 catalog slot, a plain key, versions 0..2, a clock that shows any of them | `CatalogAgrees NoLostUpdate VersionsNeverReused ImplementsAtomicCatalog` | concurrent writers never make value and catalog disagree, overfill it, overwrite unseen or reuse a version; it implements `AtomicCatalog` |
| `ingest` | 2 callers with 2 calls each, 2 attempts, 2 workers, a clock that lags behind | `ResultsAreHonest ReplacesWhatWasRead CallsAreAtomic` | the result of a call is true of the store even if its request lands after the call returned; the composition implements `AtomicIngest` |
| `approvals` | a question and a plain message to a child, two approvers, one on a channel with a deny rule, TTL 2, wait 1 | `RefusedStaysRefused OneOutcome TimeoutIsHonest` | no delivery after a refusal, one honest outcome, under changing policy and restarts |
| `questions_end` | one question, fair | `QuestionEnds DeliversByConsent` | no question stays open; the flow of a message implements `Consent` |
| `session_archive` | all four jobs, 5 messages, cap 2 | `HiddenIsArchived MarkAtBoundary OnlyLateIsLost CapLosesNothing` | the boundary hides only archived rows; only rows that came in during an await can be lost, and never by the cap |
| `session_turns` | turns that compact, idle scan, file cap 2, up to 2 opening deliveries, 6 messages, fair | `UndisturbedTurn EventuallyArchived` | a turn nobody wrote beside hides only what it archived, save the rows ahead of the user's first; an idle chat ends up archived, unless its cap cannot be enforced |
| `dream` | two short groups and an unreadable one, 2 catalog slots, two runs, limit of 2 rows | `HandedOver DeletesAfterSaving ProfileKeepsDetails` | nothing handed over is lost, nothing is deleted before all is saved, no detail of the profile is overwritten |
| `dream_digests` | a short group, one that fits only alone, one that never fits, an unreadable one, 3 slots, one run, fair | `EventuallyDigested` | every readable group is digested unless one too long stands in its way or no run gets a batch done |
| `turn_router` | 2 user messages, 2 automation turns, a `/stop`, a `/new`, a compaction, an injection queue of 1, fair | `DeferredAreReleased ServesInTurn CommandsComeAfter EveryMessageServed AutomationsReport` | turns come one at a time as `TurnService` says, every message of a user is served or stopped, automation turns are released and report, commands end after what they cancel |
| `cron_store` | a one-shot job and a system job, clock to 4, sleep 2, fair | `TimerCovers RemovalHolds NoReplay JobsLeaveForAReason DueRuns` | no occurrence runs twice and removals hold unless another process writes the record anew, jobs leave only for a reason, nothing stays due |
| `cron_delivery` | 3 messages of one run, a second run, 3 routes, 2 slots, 2 attempts, 1 retained context, 1 stopped channel, fair | `FallsBackInOrder InOrder NoneForgotten EveryMessageEnds` | the whole implements `Fallback`; messages keep their order on a route, none is forgotten, all come to an end |
| `local_triggers` | 2 triggers (one channel not run), 3 deliveries, 2 attempts, batches of 2, 3 faults, fair | `NothingForgotten TurnsBounded EveryDeliveryEnds QueueKeepsFaith` | a queued delivery always has a file, none gets too many turns, all end unless the runner waits for a cancelled turn; the directories implement `TriggerQueue` |

Why the bounds are enough: every hazard needs two actors and one contended resource, and each
instance has both. One catalog slot for two facts makes every first write contend; two slots for
four names fill Dream's catalog. Versions up to 2 let a record be created, replaced and reach
the end of the range. Two attempts have a first, a last and a conflict in each. TTL 2 and wait 1
let a press fall before, at and after each deadline. With a cap of 2 and five messages the transcript
passes the cap, has a marker row, a user row on either side of the cut and a delivery before it. The
long group fills the limit of two rows by itself (fits, but never together with another), and the
huge one has three. Two opening deliveries are one more than `get_history` replays; with the user's
row, the reply and the next input they make a compacting turn, and a sixth message the turn's end. An
injection queue of one is full with the first follow-up, so the second gets a task; two automation
turns can be deferred one after the other. A clock to 4 has two occurrences of either job and a
sleep shorter than an interval. Two slots and three messages make one wait for a slot; one retained
context is pushed out by the second run; two fallbacks have a first and a last. Batches of two and
three deliveries leave one in `inbox/` while a batch is claimed, and three faults reach the limit of
two attempts and one more. `memx_store` runs a subset of the requests for the plain key and
`ingest` four of the possible calls: the two facts are interchangeable, so the other ones add
nothing. `ingest` keeps the clock at 0, so that every version comes from `nextafter`: `memx_store`
has the clock that jumps, and a caller only sees whether a version is the one it read. The
refinement of `Consent` is checked with one message, because the mapping is computed for every step;
two messages meet in the stores and the handler in `approvals`, and the proof is for any number. `MaxCalls`, `MaxVersion`, `MaxMessages`, `MaxNow`, `MaxStops` and `MaxFaults` are bounds of
the model, as are the finite sets of messages, jobs, groups and deliveries; the other constants are
limits of the code, made small.

Deadlock is not checked where the system may stop: `ingest` (calls used up), `approvals` and
`questions_end` (all sent and settled), the session and Dream runs (messages used up, nothing to
digest), `cron_delivery` (all messages delivered) and `local_triggers` (all settled and deleted).

## Observations

Places where the code does not do what a comment, a document or a test of the repository says. No
run states them; each can be seen by checking the named property in the configuration described.

- A transcript row can be lost. `compact_idle_session` restores a copy taken before its await when
  the archive or the save fails. A delivery appended meanwhile disappears, although the comment
  beside it says "Concurrent appends remain after the captured boundary."
  (`nanobot/agent/memory.py:1320`). The file cap takes its copy after the await and has no such loss
  (`CapLosesNothing`). See it: `NothingLost` as an invariant of `MCSessionArchive.cfg` with
  `Jobs = {"turn", "idle"}` and 4 messages.
- A turn can hide an unarchived row. A turn that compacted its history puts its checkpoint at the
  end of the list when it saves, not where the history ended when it was summarised; a delivery in
  between is behind "the latest committed Memory checkpoint" (`nanobot/session/manager.py:308`)
  without having been archived. See it: `HiddenIsArchived` with `CompactInTurn = TRUE` and
  `Jobs = {"turn"}`.
- A turn can hide rows it never archived although nobody writes beside it. The call that summarises
  the history is given what `get_history` replays: it starts at the user's first row, with one
  delivery before it (`nanobot/session/manager.py:372-385`). In a chat that cron has opened with two
  deliveries the first of them is not in it, and the checkpoint hides it all the same, although it
  "replaces its old prefix with the stored summary" (`:357`). See it: `UndisturbedTurn` without `LeftOut` in `MCSessionTurns.cfg`.
- A chat can stay too long for ever. While its file cap is pending the scan passes over it, and the
  cap does nothing as long as a turn counts as interrupted or no row of the user is left to cut at
  (`nanobot/agent/memory.py:1399`, `:1430`), so nothing of it is archived until the user writes again
  or types `/compact`. See it: `EventuallyArchived` without `CapStuck` in `MCSessionTurns.cfg`.
- `/new` can be refused for ever. `docs/chat-commands.md:7` of nanobot promises "Stop current task
  and start a new conversation". Right after a compaction the only row behind the boundary is the
  marker row: `/new` sees something to archive, the archiver finds nothing and returns None, and
  `/new` reports a failure, however often it is typed. See it: `NewStartsOver` under `InsistedSpec`
  with `Jobs = {"turn", "idle", "new"}` and 4 messages.
- A long group blocks Dream. A group of more than 20 rows never fits into a batch, and the loop stops
  at it: no later group is ever read. Nothing limits the rows of a group to 20. See it:
  `EventuallyDigested` without `[]TooLong(a)` in `MCDreamLive.cfg`.
- A batch nothing durable comes of blocks Dream. The prompt says "When there is nothing durable,
  finish without a tool call" (`familia/nanobot_extension/runtime_services.py:480`); such a run counts
  as unsaved and keeps its groups, and the next run reads the same ones again (`:627-634`). See it:
  `EventuallyDigested` without `KeptForLater` in the same configuration.
- A damaged `jobs.json` costs the live jobs at the second look. `_load_store` promises to "keep using
  the previous in-memory `self._store`" so that "a transient corruption does not drop live jobs"
  (`nanobot/cron/service.py:322`). The first reading moves the file aside and keeps the list; the
  next one finds no file and takes that for an empty list. See it: `DamageDropsNoJob` in
  `MCCronStore.cfg`. `JobsLeaveForAReason` states what does hold.
- A removed job can come back, and an occurrence can run twice. A service that does not run appends
  the whole record of a job to the journal when it enables or updates it, with the next run the file
  had (`nanobot/cron/service.py:816`, `:837`, `:874`). The gateway puts the merge off while a job
  runs; it can confirm a removal or start that occurrence meanwhile, and the merged line undoes
  either. The test at `nanobot/tests/cron/test_cron_service.py:782` has such a second service. In the
  program as it is built the other process is the agent of the command line, whose cron tool only
  adds, lists and removes. See it: `RemovalHolds` and `NoReplay` in `MCCronStore.cfg` with
  `Outlives(j) == FALSE`, that is, without the exceptions they name.
- A submitter can wait for ever. `submit` says "Submit an automation turn and wait for its session
  response" (`nanobot/agent/automation_turns.py:62`), and the test at
  `nanobot/tests/agent/test_runner_injections.py:1425` expects that a cancelled turn fails its
  submitter. A task that `/stop` or `/new` cancels before it ran, or while it waits for the session
  lock, settles no future. For a scheduled run that means its callback does not return, and the
  fairness of `CronStore` assumes that it does; the runner of local triggers stands still until the
  gateway is restarted (`LocalTriggers!Stall`). See it: `AutomationsSettle` in `MCTurnRouter.cfg`.
  `AutomationsReport` and `DeferredAreReleased` name exactly these cases as exceptions.

Smaller ones. The comment above `familia/tools/memory.py:929` that older catalog entries are evicted
first-in first-out does not describe memX, which refuses with `catalog_full` (`NoEviction`).
`familia/policy/approval.py:13-15` says the requester is notified of the outcome, but a denial at
the second check and a failed release tell the approver only; the question's timer tells the
requester later. `/new` clears the live object as it is after its await, so a row that arrived
meanwhile goes with it (`OnlyLateIsLost` allows exactly that). Presses from Telegram carry no
`correlation_id` (`nanobot/channels/telegram/runtime.py:2236-2285`); `Answer` models a press that
does. A one-shot job that fell due while the gateway was down gets no next run and stays enabled
(`nanobot/cron/service.py:506`): `DueRuns` is about jobs with a next run.

Of the migrations, which no module models: a crash between `apply_migration` and the rename leaves a
`sessions` directory in the workspace, where the core looks; a write after comparing is not atomic;
sessions that a clean-up or a user deleted come back from the archive at the next start; and a torn
marker file blocks every later start.

## Fairness

- `ApprovalFlow!FairSpec`: weak fairness of the clock, of started coroutines and of due timers, which
  is what the asyncio loop gives. Nobody has to press anything, and publishes end.
- `SessionArchive!ScannedSpec`: the scan runs on every tick of the loop and its job, idle compaction
  or the cap of a chat marked for it, gets the lock in turn (strong fairness, since other jobs take
  it in between); turns end; and a confirmed archive answer and a save that succeeds come again and
  again (strong fairness): a memory service or disk that fails for ever archives nothing. Nobody has
  to type `/compact`. `InsistedSpec` has
  instead the owner who types `/new` again until it works.
- `DreamRun!FairSpec`: the job is scheduled again and again and every run ends (weak fairness). Nothing
  is asked of memX or the model: a scheduled run that from some time on never gets to a deletion is an
  outcome that `EventuallyDigested` names (`KeptForLater`).
- `TurnRouter!FairSpec`: asyncio runs what is ready (weak fairness of the consumer and of each task),
  and every await of a turn, a compaction or a command ends. Nobody has to send anything, and no
  turn has to absorb its follow-ups.
- `CronStore!FairSpec`: the clock goes on and callbacks end (weak fairness). Ticks whose load or save
  fails are tried again at the next alarm, and now and then the disk works at that moment (strong
  fairness of `TickSaves(TRUE)`, `TickFindsNone(TRUE)`, `TickBegins`). The gateway need not start
  again after a crash: while it is down nothing in memory is due.
- `CronDelivery!FairSpec`: the dispatcher, the tasks and the observer of each message go on, attempts
  and questions to the policy end, and a channel that is being stopped stops. Nothing makes an agent
  answer, an approver press or a channel come back.
- `LocalTriggers!FairSpec`: the gateway is started again, its runner goes on, and a turn that was not
  cancelled before it had the lock ends. Nobody restarts a gateway whose runner has stalled, and
  `EveryDeliveryEnds` names that it may wait for ever. `MaxFaults` ends the faults; a gateway that is
  killed for ever handles nothing.

## Proofs

`tlapm` checks them for every value of the constants that the modules' assumptions allow.

- **`MemxStoreProofs`** (assumption `MemxConstants`). `CatalogAgrees` is not inductive: `Exec`
  writes a catalog read earlier. `IInv` adds that a transaction whose EXEC can still succeed has
  seen the present state of the keys it watches (`SnapshotFresh`), that a prepared write passed
  every test on what it saw (`PreparedChecked`), and that no fact is newer than the catalog
  (`FactsBelowCatalog`). `InductiveInvariant` has one lemma per action; from it follow
  `TypeCorrect`, `CatalogConsistent`, `CatalogBounded`, `ConditionalWrites` (`NoLostUpdate`),
  `FreshVersions` (`VersionsNeverReused`), `NothingIsEvicted` (`NoEviction`) and `Refinement`: each
  `Exec` maps to a step of `AtomicCatalog`, everything else to a stutter.
  The second half is about `Ingestor` (assumption `IngestorConstants`). `StoreStep` shows that every
  step of the composition is one of memX or none, so `IInv` holds beside the callers
  (`IngestorUsesStore`). `IngestInv` adds that a request names the version its call was decided on
  (`Carries`); that the record a call has read is the present one if its version is, because no
  version of a key comes back (`Based`); and that a call has one request in memX at a time, which has
  landed if memX answers so (`OneRequest`). It gives `HonestResults` (`ResultsAreHonest`),
  `WritesWhatWasRead` (`ReplacesWhatWasRead`) and `IngestTypesHold`. `AtomicIngestion`
  (`CallsAreAtomic`) is the refinement of `AtomicIngest`, one lemma per action: `ExecPromise` is
  where a call's write happens, in memX, perhaps after the caller has given up (the call is then
  already settled without an answer), and it needs `Based` to know that the record replaced is the
  one the call read; `SettlePromise` needs `OneRequest` to know that a call which reports a failure
  has no request left that could still land unseen.
- **`ApprovalFlowProofs`** (assumption `FlowAssumption`). `FlowInv` says for each message what the
  token, the handler, the record and the timer may be together. Its core is `TimerOutlastsToken`: a
  question's timer runs at least `Wait` longer than its token, so no timer can fire between a late
  approval and the restart of the timer. It gives `AtMostOneDelivery`, `RefusalsHold`,
  `SingleOutcome`, `NoQuestionLeaks` (`QuestionsAreTimed`) and `HonestTimeouts`. `ConsentHolds`
  (`DeliversByConsent`) is the refinement of `Consent`: `Standings` reads off the invariant which
  fates the stages of tool and handler can have, `FateMoves`, `Lapses`, `Hears` and `Stutters` are
  the four kinds of step a message can see, and each action is one of them. `FlowInv` had to say
  more for it: that a message in the handler's last stages was delivered and has no verdict yet
  (`OneRelease`), and that nothing was heard while a token or a release is open (`OneVoice`).
- **`SessionArchiveProofs`** (assumption `ArchiveAssumption`; the first part also that turns do not
  compact, which the second observation shows to be necessary). `BoundaryInv` says that the rows before a captured
  boundary stay where they were and are archived or in the batch, however much is appended, and that
  the rollback copy is as good as the live object. `TypeOK /\ BoundaryInv` is inductive, and gives
  `BoundaryIsArchived` (`HiddenIsArchived`) and `CapturedBoundaryHolds`. Which rows
  a step drops is not inductive either: `KeptInv` adds that a row that was saved and is in the live
  object is in the file or archived, that message numbers are not reused, and that the rollback copy
  of idle compaction and of `/new` lacks only rows that came in since. Each step then keeps
  `StepKeeps`: it drops a saved row only if it is archived, or came in during the await of one of
  these two jobs. It gives `RowsAreKept`, `OnlyLateDeliveriesAreLost` and `FileCapLosesNothing`.
  The last part lets turns compact. There rows may be hidden unarchived, so `TurnInv` is relative to
  what is hidden: file, live object and rollback copy hide the same rows (`SameHidden`), the rows
  before a captured boundary are hidden already or in the batch (`InBatch`), and a turn's input is
  the last row as long as nobody appended (`OwnInput`). What a turn is given is all that is visible but
  the rows ahead of the user's first (`HistoryOrAhead`), which stay the same until it ends
  (`LeftOutSame`). Each step then hides no unarchived row but those
  unless somebody appended beside it: `UndisturbedTurns`, and `SessionTypes` and `MarkerOnBoundary`
  (`MarkAtBoundary`) without the restriction.
- **`DreamRunProofs`** (assumption `DreamAssumption`). `DreamInv` adds to the two invariants what a
  run knows: what it deletes was in the prompt of a saved run, a write that did not land was not
  heard as landed, and a snapshot nobody wrote over is the profile. It gives `DreamTypes`,
  `NothingIsLostUndigested` (`HandedOver`), `SavedBeforeDeleted` and `ProfileIsKept`. `ArchiveIsLasting`
  (`ArchiveLasts`) is what ties it to `SessionArchive`, whose `archive` is what `DreamRun` calls
  `Accounted`: no step takes anything out of it, although Dream runs delete groups beside each other
  and the chat may not know that a group was stored (`LeavesDigested`).
- **`TurnRouterProofs`** (assumption `RouterAssumption`). `IInv` says that the queues agree with where
  each message is and hold it once (`Keeps`), that no task is active while the consumer executes a
  command, that none it cancelled is left once it has lined up for the lock, and that an injection
  queue belongs to a turn in the works. It gives `DeferredReleased`, `CommandsAfter` and
  `AutomationsAlone`: no automation turn even gets into an injection queue (`AutomationsRunAlone`,
  proved only; a run checks what senders see of it, in `ServesInTurn`).
  `RouterServesInTurn` is the refinement of `TurnService` (`ServesInTurn`). It needs `Locked` besides:
  who runs, cancels, resets or is being stopped holds the session lock, and whatever is executed
  inline is the command of the consumer. `Ended` says what the end of a task moves back to the bus,
  which `TurnService` does not see.
- **`CronStoreProofs`** (assumption `CronAssumption`). `RemovalHolds` and `NoReplay` need to know of
  both lists and the journal together what a reload may bring back: `IInv` says that the file is what
  a reload would have to find (`FileInv`), that the journal beside a list clears what was removed
  (`Cleared`), that no occurrence counts as started while a record of its job waits in the journal
  (`Known`), and that an occurrence that may still be started
  comes after the last one that was (`Ahead`). It gives `RemovalsHold`, `TimerAlwaysCovers`,
  `NeverReplays` and `NoJobVanishes`.
- **`CronDeliveryProofs`** (assumptions `DeliveryAssumption`, `RoutesDiffer`). For `ArrivesOnce`
  (`OneRoute`, which the refinement below implies and no run checks) the invariant says that
  while a copy is open no other copy of its message is, and none has arrived (`Alone`), and that what
  may have arrived is tried again or not reported refused (`ArrivedHold`). For `NoRunForgotten`
  (`NoneForgotten`), `Memory` says that the observer's context of a run agrees with its copies: while
  it waits for a route's report one copy is under way there and none on another route (`OneByOne`),
  and every route before its index has refused (`TriedSoFar`). `SendsInOrder` needs the
  numbering of the copies, and that of any two unfinished tasks of a route the younger waits, over a
  chain of predecessors, for the older. `DeliveryIsFallback` (`FallsBackInOrder`) is the refinement of
  `Fallback`. It needs `Trail`: of two copies of a message one is on a later route and the other has
  been refused (`InTurn`), one message of a run at most has left the route of its job (`OneSentOn`),
  and a context that waits points behind the route it waits for (`Contexts`, `Asked`). Since the
  observer's index only counts, that needs `RankGrows`: a greater rank among the candidates is a later
  alternative.
- **`LocalTriggersProofs`** (assumption `TriggersAssumption`). `IInv` says for each delivery that
  nothing is known of it before it is sent (`Fresh`), that a claimed delivery is in the runner's
  memory and in no other place than `processing/` (`Held`), and that each copy counts the turns begun
  and no more attempts than there were faults (`Counts`). It gives `TriggerTypes`, `TurnsAreBounded`
  and `SettledForGood` (`SettledStaysSettled`, which the next theorem implies and no run checks);
  `NothingForgotten` is inductive beside the types (`NothingIsForgotten`). `QueueIsFaithful`
  (`QueueKeepsFaith`) is the refinement of `TriggerQueue`. It needs `Copies`: a cut retry leaves the
  older copy exactly one attempt behind the newer, a failed delivery has no copy that could be claimed,
  and a claimed one has a file unless its trigger is deleted; and `OneBatch`, since a fault may hit one
  batch only. Recovery and claiming are stutters; `LosesOne` shows for each way a delivery can be
  interrupted that its files already say what the fault has cost.

Only model-checked: the liveness properties (`QuestionEnds`, `EventuallyArchived`,
`EventuallyDigested`, `EveryMessageServed`, `AutomationsReport`, `DueRuns`, `EveryMessageEnds`,
`EveryDeliveryEnds`), since the prover handles neither fairness nor ENABLED.

## Limits

- memX: JSON schemas, authentication, undecodable records (answered 409 before anything is written)
  and pub/sub are left out, as are principals other than the one modelled: their keys are disjoint.
- Ingestor: validation of arguments is the shape of `Call`.
- ApprovalFlow: presses by people who may not decide, and of unknown tokens, change no state and are
  no action. A publish does not span a clock unit.
- SessionArchive: rows of slash commands, checkpoints written while a turn's tools run, provider
  continuation state, several compactions in one turn and the text of summaries are left out. A
  group whose assistant rows only call tools, with empty content, is a group no Dream can read
  (outside `Sound` in `DreamRun`).
- DreamRun: one owner; the profile is written by Dream only.
- TurnRouter: one session. The limit on concurrent turns (off unless configured), refusals of
  admission, recovery admission, the journal of follow-ups, continuation of turns, `/compact` and
  the other commands, and a `submit` while the loop does not run are left out.
- SessionArchive also takes the reading of the history and the early save of the input as one step, and
  has the check of the file cap that the first scan makes of an old session (`_file_cap_checked`) only
  as part of `MarkOverCap`.
- CronStore: the other process reads the file and appends its line in one step, and works on nothing
  while the file is damaged. Validation of schedules, legacy and unbound jobs (disabled as they are loaded), run
  records and what the callback does are left out.
- CronDelivery: every route is on a channel of its own, so two identities on one channel are not
  covered. Left out are the limit on concurrent attempts, shutdown of all channels and reload of
  their settings, suppressed duplicates, progress and stream events with their coalescing, retries of
  restart notices, and validation of routes of messages that are no scheduled run's. A send that was
  cancelled before it began also counts as `unknown`.
- LocalTriggers: renaming, run records and history, damaged files (set aside as `.bad`), an
  unreadable `triggers.json`, two gateways on one workspace and a reload of channels (`Connected` is
  constant) are left out.
- The share of the repository that has a model is small: most of it is adapters, forms and user
  interface. Parts named as not modelled in the inventory have no module; their hazards are listed
  in `PROJECT.json` without a property.

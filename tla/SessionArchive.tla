--------------------------- MODULE SessionArchive ---------------------------
(***************************************************************************)
(* The transcript of one private chat and its way into the owner's memory  *)
(* (nanobot/session/manager.py, agent/memory.py, agent/loop.py,            *)
(* command/builtin.py, cli/gateway_runtime.py).                            *)
(*                                                                         *)
(* A chat has one live Session object shared by every task and one JSONL   *)
(* file replaced atomically.  Turns, idle compaction, the file cap and     *)
(* /new hold the session lock across their awaits.  A channel delivery     *)
(* (cron, the message tool) appends and saves WITHOUT the lock, between    *)
(* any two steps of the lock's holder.                                     *)
(*                                                                         *)
(* A message is a kind and a number; its text is left out.  `_command`     *)
(* rows (replies of slash commands) are never archived and are not         *)
(* modelled.                                                               *)
(***************************************************************************)
EXTENDS Naturals, Sequences, SequencesExt

CONSTANTS Jobs,          \* subset of {"turn", "idle", "cap", "new"}: who takes the lock
          CompactInTurn, \* BOOLEAN: may a turn replace its own history by a summary
          Cap,           \* SESSION_FILE_CAP_MAX_MESSAGES
          Opening,       \* bound: deliveries the chat may have had before anything else
          MaxMessages    \* bound: messages ever appended, those included

ASSUME ArchiveAssumption ==
    /\ Jobs \subseteq {"turn", "idle", "cap", "new"}
    /\ CompactInTurn \in BOOLEAN
    /\ Cap \in Nat \ {0} /\ MaxMessages \in Nat /\ Opening \in 0 .. MaxMessages

Mark == [kind |-> "mark", n |-> 0]     \* the hidden row of a summary checkpoint
Message == [kind : {"user", "reply", "delivery"}, n : 1 .. MaxMessages]

VARIABLES
    live,       \* the cached Session: msgs, mark (last_archived), pending (pending_user_turn), sum
                \* (it has a summary), over (_file_cap_pending)
    disk,       \* the session file
    archive,    \* messages in a committed archive fact of the owner
    holder,     \* who holds the session lock, "none" when it is free
    stage,      \* "idle", "running" (a turn), "asking" or "committed" (the archive call)
    boundary,   \* archive_end captured before the await
    batch,      \* the messages the archive call was given
    snapshot,   \* the rollback copy taken before the await
    checkpoint, \* where a turn's own summary goes: "none", "before" or "after" its input
    late,       \* messages appended since the holder took its snapshot (history)
    saved,      \* messages that were in the file at some time (history)
    sent        \* how many messages were appended (bounds the model)

vars == <<live, disk, archive, holder, stage, boundary, batch, snapshot, checkpoint,
          late, saved, sent>>
work == <<boundary, batch, snapshot, checkpoint>>

----------------------------------------------------------------------------
(* Sessions.                                                               *)

Fresh == [msgs |-> <<>>, mark |-> 0, pending |-> FALSE, sum |-> FALSE, over |-> FALSE]

Real(msgs) == {msgs[i] : i \in DOMAIN msgs} \ {Mark}
Hidden(s) == Real(SubSeq(s.msgs, 1, s.mark))
Visible(s) == Real(SubSeq(s.msgs, s.mark + 1, Len(s.msgs)))

\* get_history replays from the first row of the user's role, a marker included, and one delivery
\* just before it, which the user may be answering; without such a row it replays them all.
UserRole(s, i) == s.msgs[i].kind \in {"user", "mark"}
Replayed(s, i) ==
    \/ \E k \in s.mark + 1 .. i : UserRole(s, k)
    \/ i < Len(s.msgs) /\ s.msgs[i].kind = "delivery" /\ UserRole(s, i + 1)
    \/ \A k \in s.mark + 1 .. Len(s.msgs) : ~UserRole(s, k)
History(s) == {s.msgs[i] : i \in {i \in s.mark + 1 .. Len(s.msgs) : Replayed(s, i)}} \ {Mark}

AddMessage(s, kind) == [s EXCEPT !.msgs = Append(@, [kind |-> kind, n |-> sent + 1])]

\* Faults: the boundary is read again after the await, or is one row too far.
CommitCheckpointAtEnd(s, at) ==
    [s EXCEPT !.msgs = InsertAt(@, Len(@) + 1, Mark), !.mark = Len(s.msgs), !.sum = TRUE]
CommitCheckpointPast(s, at) ==
    [s EXCEPT !.msgs = InsertAt(@, at + 1, Mark), !.mark = at + 1, !.sum = TRUE]

\* commit_summary_checkpoint: the marker goes in at the captured boundary.
CommitCheckpoint(s, at) ==
    [s EXCEPT !.msgs = InsertAt(@, at + 1, Mark), !.mark = at, !.sum = TRUE]

Prune(s, end) == [s EXCEPT !.msgs = SubSeq(@, end + 1, Len(@)), !.mark = 0, !.over = FALSE]

Clear(s) == [s EXCEPT !.msgs = <<>>, !.mark = 0, !.sum = FALSE]

\* SessionManager.save: the file becomes the live object, or stays as it was.
Saves(s) == disk' = s /\ saved' = saved \cup Real(s.msgs)
CannotSave == UNCHANGED <<disk, saved>>

\* A chat in which cron may have spoken first.
Opened(k) == [Fresh EXCEPT !.msgs = [i \in 1 .. k |-> [kind |-> "delivery", n |-> i]]]

Init ==
    /\ \E k \in 0 .. Opening : live = Opened(k)
    /\ disk = live /\ archive = {}
    /\ holder = "none" /\ stage = "idle"
    /\ boundary = 0 /\ batch = {} /\ snapshot = Fresh /\ checkpoint = "none"
    /\ late = {} /\ saved = Real(live.msgs) /\ sent = Opening

Free == holder = "none"
Take(job) == job \in Jobs /\ Free /\ holder' = job
Release == holder' = "none" /\ stage' = "idle" /\ late' = {}
           /\ boundary' = 0 /\ batch' = {} /\ snapshot' = Fresh /\ checkpoint' = "none"

----------------------------------------------------------------------------
(* Deliveries and other saves that do not take the lock.                   *)

\* _deliver_to_channel: add and save in one step; a failed save leaves the row in the live object.
Deliver ==
    /\ sent < MaxMessages /\ sent' = sent + 1
    /\ LET s == AddMessage(live, "delivery") IN
        /\ live' = s
        /\ Saves(s) \/ CannotSave
        /\ late' = IF Free THEN {} ELSE late \cup {s.msgs[Len(s.msgs)]}
    /\ UNCHANGED <<archive, holder, stage, work>>

\* AutoCompact._enforce_file_cap writes the pending flag, or takes it back, before the lock is
\* taken: after a turn that leaves the chat too long, and on every scan while the flag is set.
CapChecked(s) == [s EXCEPT !.over = Len(s.msgs) > Cap]

MarkOverCap ==
    /\ "cap" \in Jobs /\ (Len(live.msgs) > Cap \/ live.over \/ disk.over)
    /\ live' = CapChecked(live)
    /\ Saves(CapChecked(live)) \/ CannotSave
    /\ UNCHANGED <<archive, holder, stage, work, late, sent>>

Crash ==
    /\ live' = disk
    /\ Release
    /\ UNCHANGED <<disk, archive, saved, sent>>

----------------------------------------------------------------------------
(* The archive call: one fact in the owner's memory, confirmed or not.     *)

Ask(end, msgs) == stage' = "asking" /\ boundary' = end /\ batch' = msgs

Commit ==
    /\ stage = "asking"
    /\ archive' = archive \cup batch
    /\ stage' = "committed"
    /\ UNCHANGED <<live, disk, holder, work, late, saved, sent>>

Unconfirmed == stage \in {"asking", "committed"}   \* fault: _commit_source is not consulted
Confirmed == stage = "committed"

----------------------------------------------------------------------------
(* A turn.                                                                 *)

\* restore_pending_interruption: an earlier turn that never ended gets a closing reply.
Restored(s) ==
    IF s.pending /\ s.msgs # <<>> /\ s.msgs[Len(s.msgs)].kind = "user"
    THEN [AddMessage(s, "reply") EXCEPT !.pending = FALSE]
    ELSE [s EXCEPT !.pending = FALSE]

TurnRestores ==
    /\ "turn" \in Jobs /\ Free /\ live.pending
    /\ sent < MaxMessages
    /\ sent' = sent + (Len(Restored(live).msgs) - Len(live.msgs))
    /\ live' = Restored(live)
    /\ Saves(Restored(live)) \/ CannotSave
    /\ UNCHANGED <<archive, holder, stage, work, late>>

\* _persist_user_message_early; a failed save ends the turn with the row left in the live object.
TurnStarts ==
    /\ "turn" \in Jobs /\ Free /\ ~live.pending
    /\ sent < MaxMessages /\ sent' = sent + 1
    /\ LET s == [AddMessage(live, "user") EXCEPT !.pending = TRUE] IN
        /\ live' = s
        /\ \/ /\ Saves(s) /\ holder' = "turn" /\ stage' = "running"
              /\ batch' = History(live) /\ boundary' = Len(s.msgs)
              /\ UNCHANGED <<snapshot, checkpoint>>
           \/ CannotSave /\ UNCHANGED <<holder, stage, work>>
    /\ UNCHANGED <<archive, late>>

\* The request does not fit: the accepted history, with or without the new input, becomes a summary.
Input == live.msgs[boundary]

\* Fault: the summary is used although the batch was not committed.
TurnCompactsUnarchived(where) ==
    /\ CompactInTurn /\ holder = "turn" /\ checkpoint = "none"
    /\ checkpoint' = where
    /\ UNCHANGED <<live, disk, archive, holder, stage, boundary, batch, snapshot, late, saved, sent>>

TurnCompacts(where) ==
    /\ CompactInTurn /\ holder = "turn" /\ checkpoint = "none"
    /\ where = "before" => batch # {}
    /\ archive' = archive \cup batch \cup (IF where = "after" THEN {Input} ELSE {})
    /\ checkpoint' = where
    /\ UNCHANGED <<live, disk, holder, stage, boundary, batch, snapshot, late, saved, sent>>

\* _save_turn: "before" counts one row back from the end, "after" takes the end as it is now.
TurnSaves ==
    LET s == CASE checkpoint = "none" -> live
               [] checkpoint = "before" -> CommitCheckpoint(live, Len(live.msgs) - 1)
               [] checkpoint = "after" -> CommitCheckpoint(live, Len(live.msgs))
    IN [AddMessage(s, "reply") EXCEPT !.pending = FALSE]

TurnEnds ==
    /\ holder = "turn" /\ sent < MaxMessages /\ sent' = sent + 1
    /\ live' = TurnSaves
    /\ Saves(TurnSaves)
    /\ Release
    /\ UNCHANGED archive

\* An error, a cancellation or a rejected save: the transcript is left as it was.
TurnFails ==
    /\ holder = "turn"
    /\ Release
    /\ UNCHANGED <<live, disk, archive, saved, sent>>

----------------------------------------------------------------------------
(* compact_idle_session.                                                   *)

HasNewButLast(s) == Cardinality(Visible(s)) > 1    \* fault: the last row is kept back
HasNew(s) == Visible(s) # {}

\* The owner's /compact.
CompactStarts ==
    /\ Take("idle")
    /\ live' = disk
    /\ HasNew(disk)
    /\ snapshot' = disk /\ late' = {}
    /\ Ask(Len(disk.msgs), Visible(disk))
    /\ UNCHANGED <<disk, archive, checkpoint, saved, sent>>

\* The idle scan: check_expired passes over a chat whose file cap is pending.
IdleStarts == ~disk.over /\ CompactStarts

IdleSummary == CommitCheckpoint(live, boundary)

IdleCommits ==
    /\ holder = "idle" /\ Confirmed
    /\ live' = IdleSummary /\ Saves(IdleSummary)
    /\ Release
    /\ UNCHANGED <<archive, sent>>

\* A failed save, an exception or a cancellation anywhere in the attempt.
IdleRollsBack ==
    /\ holder = "idle"
    /\ live' = snapshot
    /\ Release
    /\ UNCHANGED <<disk, archive, saved, sent>>

\* archive_session returned None.
IdleGivesUp ==
    /\ holder = "idle" /\ stage = "asking"
    /\ Release
    /\ UNCHANGED <<live, disk, archive, saved, sent>>

----------------------------------------------------------------------------
(* enforce_file_cap.                                                       *)

Excess(s) == Len(s.msgs) - Cap + 1
UserStarts(s) == {i \in 1 .. Len(s.msgs) - 1 : s.msgs[i + 1].kind = "user"}

\* Rows are counted from 0 as in the source.  The cut is the first user row past the excess, or
\* the last one before it; a delivery just before the cut stays with its answer.
Cuts(s) ==
    LET later == {i \in UserStarts(s) : i > Excess(s)}
        starts == {0} \cup UserStarts(s)
        chosen == IF later # {} THEN {i \in later : \A j \in later : i <= j}
                  ELSE {i \in starts : \A j \in starts : j <= i}
    IN {IF i > 0 /\ s.msgs[i].kind = "delivery" THEN i - 1 ELSE i : i \in chosen}

OverCap(s) == Len(s.msgs) > Cap /\ ~s.pending
Prefix(s, cut) == Real(SubSeq(s.msgs, s.mark + 1, cut))
NewCuts(s) == {cut \in Cuts(s) : OverCap(s) /\ cut > s.mark /\ Prefix(s, cut) # {}}
OldCut(s) == OverCap(s) /\ s.mark > 0 /\ s.sum /\ \A cut \in Cuts(s) : cut <= s.mark

\* Everything before the cut is archived already: no call, the old boundary is the cut.
CapPrunesNow ==
    /\ "cap" \in Jobs /\ Free /\ OldCut(disk)
    /\ \E s \in {Prune(disk, disk.mark), CapChecked(disk)} : live' = s /\ Saves(s)
    /\ UNCHANGED <<archive, holder, stage, work, late, sent>>

CapStarts ==
    /\ Take("cap")
    /\ live' = CapChecked(disk) /\ Saves(CapChecked(disk)) /\ late' = {}
    /\ \E cut \in NewCuts(disk) : Ask(cut, Prefix(disk, cut))
    /\ UNCHANGED <<archive, snapshot, checkpoint, sent>>

\* A job that finds nothing to do has still dropped the live object for the file.
IdleFindsNone ==
    /\ "idle" \in Jobs /\ Free /\ ~HasNew(disk) /\ live # disk
    /\ live' = disk
    /\ UNCHANGED <<disk, archive, holder, stage, work, late, saved, sent>>

\* Nothing to cut, or the flag cannot be saved.
CapFindsNone ==
    /\ "cap" \in Jobs /\ Free
    /\ live' = CapChecked(disk)
    /\ \/ ~OldCut(disk) /\ NewCuts(disk) = {} /\ Saves(CapChecked(disk))
       \/ disk # CapChecked(disk) /\ CannotSave
    /\ UNCHANGED <<archive, holder, stage, work, late, sent>>

CapSummary == Prune(CommitCheckpoint(live, boundary), boundary)

CapPrunes ==
    /\ holder = "cap" /\ Confirmed /\ ~live.pending
    /\ live' = CapSummary /\ Saves(CapSummary)
    /\ Release
    /\ UNCHANGED <<archive, sent>>

\* Fault: the rollback copy is the file as it was before the await.
CapRollsBackEarly ==
    /\ holder = "cap"
    /\ live' = [live EXCEPT !.msgs = SelectSeq(@, LAMBDA m : m \notin late)]
    /\ Release
    /\ UNCHANGED <<disk, archive, saved, sent>>

\* None, an exception, or a failed save: the snapshot is taken after the await and equals the live object.
CapGivesUp ==
    /\ holder = "cap"
    /\ Release
    /\ UNCHANGED <<live, disk, archive, saved, sent>>

----------------------------------------------------------------------------
(* /new.                                                                   *)

\* After a compaction nothing is visible: archive_session returns None and /new keeps the history.
NewStarts ==
    /\ Take("new")
    /\ live.mark < Len(live.msgs) /\ Visible(live) # {}
    /\ snapshot' = live /\ late' = {}
    /\ Ask(Len(live.msgs), Visible(live))
    /\ UNCHANGED <<live, disk, archive, checkpoint, saved, sent>>

\* Clears the live object as it is after the await.
NewClears ==
    /\ holder = "new" /\ Confirmed
    /\ live' = Clear(live) /\ Saves(Clear(live))
    /\ Release
    /\ UNCHANGED <<archive, sent>>

NewCannotSave ==
    /\ holder = "new" /\ Confirmed
    /\ live' = snapshot
    /\ Release
    /\ UNCHANGED <<disk, archive, saved, sent>>

NewKeepsHistory ==
    /\ holder = "new" /\ stage = "asking"
    /\ Release
    /\ UNCHANGED <<live, disk, archive, saved, sent>>

Turn == TurnRestores \/ TurnStarts \/ TurnEnds \/ TurnFails
            \/ \E where \in {"before", "after"} : TurnCompacts(where)
Idle == CompactStarts \/ IdleStarts \/ IdleFindsNone \/ IdleCommits \/ IdleRollsBack \/ IdleGivesUp
FileCap == CapFindsNone \/ MarkOverCap \/ CapPrunesNow \/ CapStarts \/ CapPrunes \/ CapGivesUp
New == NewStarts \/ NewClears \/ NewCannotSave \/ NewKeepsHistory

Next == Deliver \/ Crash \/ Commit \/ Turn \/ Idle \/ FileCap \/ New

Spec == Init /\ [][Next]_vars

\* The scan runs on every tick of the loop and its job gets the lock in turn; a confirmed answer and
\* a save that succeeds come again and again.
CapRuns == disk.over /\ (CapStarts \/ CapPrunesNow \/ CapFindsNone)
Scanned ==
    /\ SF_vars(IdleStarts) /\ SF_vars(IdleFindsNone) /\ SF_vars(CapRuns)
    /\ SF_vars(Commit) /\ SF_vars(IdleCommits) /\ SF_vars(CapPrunes)
    /\ WF_vars(TurnEnds \/ TurnFails)

\* The owner types /new again until it works; every await of a lock's holder ends.
Insisted ==
    /\ SF_vars(NewStarts) /\ SF_vars(Commit) /\ SF_vars(NewClears)
    /\ WF_vars(IdleCommits) /\ WF_vars(TurnEnds \/ TurnFails)

ScannedSpec == Spec /\ Scanned
InsistedSpec == Spec /\ Insisted

----------------------------------------------------------------------------
Sessions == [msgs : Seq(Message \cup {Mark}), mark : Nat, pending : BOOLEAN, sum : BOOLEAN,
             over : BOOLEAN]

\* Every variable has its type; a captured boundary only exists while the lock is held.
TypeOK ==
    /\ live \in Sessions /\ disk \in Sessions /\ snapshot \in Sessions
    /\ archive \subseteq Message /\ batch \subseteq Message
    /\ late \subseteq Message /\ saved \subseteq Message
    /\ holder \in Jobs \cup {"none"} /\ stage \in {"idle", "running", "asking", "committed"}
    /\ checkpoint \in {"none", "before", "after"}
    /\ boundary \in Nat /\ sent \in 0 .. MaxMessages
    /\ Free => stage = "idle" /\ boundary = 0 /\ late = {}

\* What the boundary hides from replay is in a committed archive fact, in the live object and in
\* the file: "If a write fails or remains unconfirmed, the compaction boundary does not move."
HiddenIsArchived == \A s \in {live, disk} : Hidden(s) \subseteq archive

\* The strengthening of HiddenIsArchived that every step keeps when turns do not compact: the
\* rollback copy is as good as the live object, and the rows before a captured boundary stay where
\* they were and are archived or in the batch, however much is appended during the await.
Covered(msgs, k, A) == \A i \in 1 .. k : msgs[i] \in A \cup {Mark}
Good(s, A) == s.mark <= Len(s.msgs) /\ Covered(s.msgs, s.mark, A)
BoundaryInv ==
    /\ Good(live, archive) /\ Good(disk, archive) /\ Good(snapshot, archive)
    /\ checkpoint = "none"
    /\ holder \in {"idle", "cap"} =>
        boundary <= Len(live.msgs) /\ Covered(live.msgs, boundary, archive \cup batch)
    /\ stage = "committed" => batch \subseteq archive

\* The boundary always sits on its marker row (or at the start), so replay resumes exactly there.
MarkAtBoundary ==
    \A s \in {live, disk} : s.mark > 0 => s.mark < Len(s.msgs) /\ s.msgs[s.mark + 1] = Mark

Kept == archive \cup Real(live.msgs)

\* A saved row leaves the transcript unarchived only if it came in while the lock's holder was
\* waiting for the archive: nothing that was there at the start is ever lost.
OnlyLateIsLost == [][(saved \cap Kept) \ Kept' \subseteq late]_vars

\* The file cap loses nothing, not even what came in during its await ("Snapshot after the await so
\* concurrent appends are part of the rollback state").
CapLosesNothing == [][holder = "cap" => saved \cap Kept \subseteq Kept']_vars

\* The strengthening behind the two: what was saved and is in the live object is in the file or
\* archived, a new row is none of the old ones, and a rollback copy lacks only what came in since.
Numbered(msgs) == \A m \in Real(msgs) : m.n <= sent
KeptInv ==
    /\ saved \cap Real(live.msgs) \subseteq archive \cup Real(disk.msgs)
    /\ Numbered(live.msgs) /\ Numbered(disk.msgs) /\ \A m \in saved : m.n <= sent
    /\ holder \in {"idle", "new"} =>
        /\ Real(snapshot.msgs) \subseteq Real(live.msgs)
        /\ Real(live.msgs) \subseteq Real(snapshot.msgs) \cup late
    /\ holder = "new" => Real(snapshot.msgs) \subseteq archive \cup batch

\* The rows ahead of the first one of the user, in a chat where the user has spoken.
Ahead(s) ==
    {s.msgs[i] : i \in {i \in s.mark + 1 .. Len(s.msgs) :
                           /\ \A k \in s.mark + 1 .. i : ~UserRole(s, k)
                           /\ \E k \in i + 1 .. Len(s.msgs) : UserRole(s, k)}}
Accepted == [live EXCEPT !.msgs = SubSeq(@, 1, boundary - 1)]
LeftOut == IF holder = "turn" THEN Ahead(Accepted) ELSE {}

\* A turn that nobody wrote beside hides nothing but what its summary call put in the archive and
\* the rows ahead of the first one of the user, of which the call is given one at most.
UndisturbedTurn ==
    [][late = {} => Hidden(live') \ archive' \subseteq (Hidden(live) \ archive) \cup LeftOut]_vars

\* A row that reached the file is in the archive, the file or the live object.
NothingLost == saved \subseteq archive \cup Real(disk.msgs) \cup Real(live.msgs)

\* The scan passes over a chat whose file cap is pending, and the cap is put off by a turn that was
\* interrupted or finds no row of the user to cut at.
CapStuck == disk.over /\ ~OldCut(disk) /\ NewCuts(disk) = {} /\ Len(disk.msgs) > Cap

\* Once nobody writes, nothing of an idle chat is left to replay, and all of it is in the archive
\* unless a turn has hidden rows behind a summary of its own; only a file cap that cannot be
\* enforced keeps the scan away.
EventuallyArchived ==
    /\ <>[](Visible(live) = {} \/ CapStuck)
    /\ [](checkpoint = "none") => <>[](Real(live.msgs) \subseteq archive \/ CapStuck)

\* "/new: Stop current task and start a new conversation".
NewStartsOver == (live.msgs # <<>>) ~> (live.msgs = <<>>)
=============================================================================

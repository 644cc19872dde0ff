----------------------- MODULE SessionArchiveProofs -------------------------
(***************************************************************************)
(* Proofs about the session transcript, for any cap, any number of         *)
(* messages and any set of jobs.  When turns do not compact their own      *)
(* history, what the boundary hides is archived, and a row is dropped only *)
(* as the properties allow.  Whether they do or not, the marker stays on   *)
(* the boundary, and no unarchived row is hidden unless somebody wrote     *)
(* beside the holder of the lock.                                          *)
(***************************************************************************)
EXTENDS SessionArchive, TLAPS

Rows == Message \cup {Mark}

\* Real(SubSeq(...)) is about the rows at the given positions.
LEMMA RealSub ==
    ASSUME NEW msgs \in Seq(Rows), NEW a \in Nat, NEW b \in Nat, a >= 1, b <= Len(msgs)
    PROVE  Real(SubSeq(msgs, a, b)) = {msgs[i] : i \in a .. b} \ {Mark}
<1> DEFINE t == SubSeq(msgs, a, b)
<1>1. /\ t \in Seq(Rows) /\ DOMAIN t = 1 .. Len(t)
      /\ Len(t) = IF a <= b THEN b - a + 1 ELSE 0
      /\ \A i \in 1 .. Len(t) : t[i] = msgs[a + i - 1]
  OBVIOUS
<1>2. ASSUME NEW i \in a .. b
      PROVE  i - a + 1 \in DOMAIN t /\ t[i - a + 1] = msgs[i]
  BY <1>1
<1>3. ASSUME NEW j \in DOMAIN t
      PROVE  a + j - 1 \in a .. b /\ t[j] = msgs[a + j - 1]
  BY <1>1
<1> HIDE DEF t
<1>4. ASSUME NEW x \in {t[i] : i \in DOMAIN t}
      PROVE  x \in {msgs[i] : i \in a .. b}
  BY <1>3
<1>5. ASSUME NEW x \in {msgs[i] : i \in a .. b}
      PROVE  x \in {t[i] : i \in DOMAIN t}
  BY <1>2
<1>6. {t[i] : i \in DOMAIN t} = {msgs[i] : i \in a .. b}
  BY <1>4, <1>5
<1> QED BY <1>6 DEF Real, t

\* A prefix of rows is hidden inside A exactly when it is covered by A.
LEMMA CoveredPrefix ==
    ASSUME NEW msgs \in Seq(Rows), NEW k \in Nat, k <= Len(msgs), NEW A
    PROVE  Real(SubSeq(msgs, 1, k)) \subseteq A <=> Covered(msgs, k, A)
<1>1. Real(SubSeq(msgs, 1, k)) = {msgs[i] : i \in 1 .. k} \ {Mark}
  BY RealSub
<1> QED BY <1>1 DEF Covered

\* Inserting the marker at a covered boundary keeps the rows before it.
LEMMA InsertKeepsPrefix ==
    ASSUME NEW msgs \in Seq(Rows), NEW k \in Nat, k <= Len(msgs)
    PROVE  /\ InsertAt(msgs, k + 1, Mark) \in Seq(Rows)
           /\ Len(InsertAt(msgs, k + 1, Mark)) = Len(msgs) + 1
           /\ \A i \in 1 .. k : InsertAt(msgs, k + 1, Mark)[i] = msgs[i]
<1>1. Mark \in Rows
  BY DEF Rows
<1>2. /\ SubSeq(msgs, 1, k) \in Seq(Rows) /\ Len(SubSeq(msgs, 1, k)) = k
      /\ \A i \in 1 .. k : SubSeq(msgs, 1, k)[i] = msgs[i]
  OBVIOUS
<1>3. /\ SubSeq(msgs, k + 1, Len(msgs)) \in Seq(Rows)
      /\ Len(SubSeq(msgs, k + 1, Len(msgs))) = Len(msgs) - k
  OBVIOUS
<1>4. (k + 1) - 1 = k
  OBVIOUS
<1>5. InsertAt(msgs, k + 1, Mark) =
        SubSeq(msgs, 1, k) \o <<Mark>> \o SubSeq(msgs, k + 1, Len(msgs))
  BY <1>4 DEF InsertAt
<1> DEFINE head == SubSeq(msgs, 1, k) \o <<Mark>>
<1>6. /\ head \in Seq(Rows) /\ Len(head) = k + 1
      /\ \A i \in 1 .. k : head[i] = msgs[i]
  BY <1>1, <1>2
<1>7. InsertAt(msgs, k + 1, Mark) = head \o SubSeq(msgs, k + 1, Len(msgs))
  BY <1>5
<1> DEFINE tail == SubSeq(msgs, k + 1, Len(msgs))
<1>8. tail \in Seq(Rows) /\ Len(tail) = Len(msgs) - k
  BY <1>3
<1>9. InsertAt(msgs, k + 1, Mark) = head \o tail
  BY <1>7
<1> HIDE DEF head, tail
<1>10. /\ head \o tail \in Seq(Rows) /\ Len(head \o tail) = Len(msgs) + 1
       /\ \A i \in 1 .. k : (head \o tail)[i] = head[i]
  BY <1>6, <1>8
<1> QED BY <1>6, <1>9, <1>10

----------------------------------------------------------------------------
(* What each change of a session keeps.                                    *)

\* A well-formed session and what its boundary covers.
Sound(s, A) == s \in Sessions /\ Good(s, A)

\* Appending a row changes no row that is there.
LEMMA AddIsSound ==
    ASSUME NEW s, NEW A, Sound(s, A), NEW kind \in {"user", "reply", "delivery"},
           sent \in 0 .. MaxMessages, sent < MaxMessages
    PROVE  /\ Sound(AddMessage(s, kind), A)
           /\ Len(AddMessage(s, kind).msgs) = Len(s.msgs) + 1
           /\ \A i \in 1 .. Len(s.msgs) : AddMessage(s, kind).msgs[i] = s.msgs[i]
           /\ AddMessage(s, kind).msgs[Len(s.msgs) + 1] \in Message
<1> DEFINE m == [kind |-> kind, n |-> sent + 1]
<1> DEFINE t == Append(s.msgs, m)
<1>1. s.msgs \in Seq(Rows) /\ s.mark \in Nat /\ s.mark <= Len(s.msgs)
  BY DEF Sound, Good, Sessions, Rows
<1>2. m \in Message /\ m \in Rows
  BY ArchiveAssumption DEF Message, Rows
<1>3. /\ t \in Seq(Rows) /\ Len(t) = Len(s.msgs) + 1
      /\ \A i \in 1 .. Len(s.msgs) : t[i] = s.msgs[i]
      /\ t[Len(s.msgs) + 1] = m
  BY <1>1, <1>2
<1>4. AddMessage(s, kind) = [s EXCEPT !.msgs = t]
  BY DEF AddMessage
<1> HIDE DEF t, m
<1>5. /\ AddMessage(s, kind) \in Sessions
      /\ AddMessage(s, kind).msgs = t /\ AddMessage(s, kind).mark = s.mark
  BY <1>3, <1>4 DEF Sound, Sessions, Rows
<1>6. Covered(t, s.mark, A)
  BY <1>1, <1>3 DEF Sound, Good, Covered
<1> QED BY <1>1, <1>2, <1>3, <1>5, <1>6 DEF Sound, Good

\* The boundary covers no less when the archive grows.
LEMMA SoundGrows ==
    ASSUME NEW s, NEW A, NEW B, Sound(s, A), A \subseteq B
    PROVE  Sound(s, B)
BY DEF Sound, Good, Covered

\* A checkpoint at a covered position is sound.
LEMMA CheckpointIsSound ==
    ASSUME NEW s, NEW A, Sound(s, A), NEW k \in Nat, k <= Len(s.msgs), Covered(s.msgs, k, A)
    PROVE  /\ Sound(CommitCheckpoint(s, k), A)
           /\ Len(CommitCheckpoint(s, k).msgs) = Len(s.msgs) + 1
<1> DEFINE t == InsertAt(s.msgs, k + 1, Mark)
<1>1. s.msgs \in Seq(Rows)
  BY DEF Sound, Sessions, Rows
<1>2. /\ t \in Seq(Rows) /\ Len(t) = Len(s.msgs) + 1 /\ Len(s.msgs) \in Nat
      /\ \A i \in 1 .. k : t[i] = s.msgs[i]
  BY <1>1, InsertKeepsPrefix
<1>3. CommitCheckpoint(s, k) = [s EXCEPT !.msgs = t, !.mark = k, !.sum = TRUE]
  BY DEF CommitCheckpoint
<1> HIDE DEF t
<1>4. /\ CommitCheckpoint(s, k) \in Sessions
      /\ CommitCheckpoint(s, k).msgs = t /\ CommitCheckpoint(s, k).mark = k
  BY <1>2, <1>3 DEF Sound, Sessions, Rows
<1>5. Covered(t, k, A)
  BY <1>2 DEF Covered
<1> QED BY <1>2, <1>4, <1>5 DEF Sound, Good

\* Pruning and clearing leave nothing hidden.
LEMMA PruneIsSound ==
    ASSUME NEW s, NEW A, s \in Sessions, NEW k \in Nat, k <= Len(s.msgs)
    PROVE  Sound(Prune(s, k), A)
<1> DEFINE t == SubSeq(s.msgs, k + 1, Len(s.msgs))
<1>1. s.msgs \in Seq(Rows)
  BY DEF Sessions, Rows
<1>2. t \in Seq(Rows) /\ Len(t) \in Nat
  BY <1>1
<1>3. Prune(s, k) = [s EXCEPT !.msgs = t, !.mark = 0, !.over = FALSE]
  BY DEF Prune
<1> HIDE DEF t
<1>4. Prune(s, k) =
        [msgs |-> t, mark |-> 0, pending |-> s.pending, sum |-> s.sum, over |-> FALSE]
  BY <1>3 DEF Sessions
<1>5. s.pending \in BOOLEAN /\ s.sum \in BOOLEAN
  BY DEF Sessions
<1>6. Prune(s, k) \in Sessions /\ Prune(s, k).msgs = t /\ Prune(s, k).mark = 0
  BY <1>2, <1>4, <1>5 DEF Sessions, Rows
<1> QED BY <1>2, <1>6 DEF Sound, Good, Covered

LEMMA ClearIsSound ==
    ASSUME NEW s \in Sessions, NEW A
    PROVE  Sound(Clear(s), A)
<1> DEFINE none == <<>>
<1>1. Clear(s) = [s EXCEPT !.msgs = none, !.mark = 0, !.sum = FALSE]
  BY DEF Clear
<1>2. none \in Seq(Rows) /\ Len(none) = 0
  OBVIOUS
<1> HIDE DEF none
<1>3. Clear(s) =
        [msgs |-> none, mark |-> 0, pending |-> s.pending, sum |-> FALSE, over |-> s.over]
  BY <1>1 DEF Sessions
<1>4. s.pending \in BOOLEAN /\ s.over \in BOOLEAN
  BY DEF Sessions
<1>5. Clear(s) \in Sessions /\ Clear(s).msgs = none /\ Clear(s).mark = 0
  BY <1>2, <1>3, <1>4 DEF Sessions, Rows
<1> QED BY <1>2, <1>5 DEF Sound, Good, Covered

\* The pending flag is no part of what the boundary covers.
LEMMA FlagIsSound ==
    ASSUME NEW s, NEW A, Sound(s, A), NEW flag \in BOOLEAN
    PROVE  Sound([s EXCEPT !.pending = flag], A)
<1>1. /\ [s EXCEPT !.pending = flag] \in Sessions
      /\ [s EXCEPT !.pending = flag].msgs = s.msgs
      /\ [s EXCEPT !.pending = flag].mark = s.mark
  BY DEF Sound, Sessions
<1> QED BY <1>1 DEF Sound, Good

\* Nor is the flag of the file cap.
LEMMA CapCheckedRows ==
    ASSUME NEW s \in Sessions
    PROVE  /\ CapChecked(s) \in Sessions
           /\ CapChecked(s).msgs = s.msgs /\ CapChecked(s).mark = s.mark
<1>1. (Len(s.msgs) > Cap) \in BOOLEAN
  OBVIOUS
<1> QED BY <1>1 DEF CapChecked, Sessions

LEMMA CapCheckedIsSound ==
    ASSUME NEW s, NEW A, Sound(s, A)
    PROVE  Sound(CapChecked(s), A)
BY CapCheckedRows DEF Sound, Good

\* The rows of a session are messages or markers.
LEMMA RealRows ==
    ASSUME NEW msgs \in Seq(Rows)
    PROVE  Real(msgs) \subseteq Message
BY DEF Real, Rows

LEMMA SliceRows ==
    ASSUME NEW msgs \in Seq(Rows), NEW a \in Nat, a >= 1, NEW b \in Nat, b <= Len(msgs)
    PROVE  Real(SubSeq(msgs, a, b)) \subseteq Message
<1>1. SubSeq(msgs, a, b) \in Seq(Rows)
  OBVIOUS
<1> QED BY <1>1, RealRows

\* Hidden rows and the batch cover every row before the end of the batch.
LEMMA BatchCovers ==
    ASSUME NEW s, NEW A, Sound(s, A), NEW k \in Nat, s.mark <= k, k <= Len(s.msgs)
    PROVE  Covered(s.msgs, k, A \cup Real(SubSeq(s.msgs, s.mark + 1, k)))
<1>1. s.msgs \in Seq(Rows) /\ s.mark \in Nat
  BY DEF Sound, Sessions, Rows
<1>2. Real(SubSeq(s.msgs, s.mark + 1, k)) = {s.msgs[i] : i \in s.mark + 1 .. k} \ {Mark}
  BY <1>1, RealSub
<1>3. ASSUME NEW i \in 1 .. k
      PROVE  s.msgs[i] \in (A \cup Real(SubSeq(s.msgs, s.mark + 1, k))) \cup {Mark}
  <2>1. CASE i <= s.mark
    BY <1>1, <2>1 DEF Sound, Good, Covered
  <2>2. CASE i > s.mark
    BY <1>1, <1>2, <2>2
  <2> QED BY <1>1, <2>1, <2>2
<1> QED BY <1>3 DEF Covered

----------------------------------------------------------------------------
(* The induction.                                                          *)

Inv == TypeOK /\ BoundaryInv

\* The invariant, session by session, in the form the steps use.
LEMMA InvParts ==
    Inv <=> /\ Sound(live, archive) /\ Sound(disk, archive) /\ Sound(snapshot, archive)
            /\ archive \subseteq Message /\ batch \subseteq Message
            /\ late \subseteq Message /\ saved \subseteq Message
            /\ holder \in Jobs \cup {"none"} /\ stage \in {"idle", "running", "asking", "committed"}
            /\ boundary \in Nat /\ sent \in 0 .. MaxMessages
            /\ Free => stage = "idle" /\ boundary = 0 /\ late = {}
            /\ checkpoint = "none"
            /\ holder \in {"idle", "cap"} =>
                boundary <= Len(live.msgs) /\ Covered(live.msgs, boundary, archive \cup batch)
            /\ stage = "committed" => batch \subseteq archive
BY DEF Inv, TypeOK, BoundaryInv, Sound

LEMMA FreshIsSound == ASSUME NEW A PROVE Sound(Fresh, A)
<1> DEFINE none == <<>>
<1>1. Fresh = [msgs |-> none, mark |-> 0, pending |-> FALSE, sum |-> FALSE, over |-> FALSE]
  BY DEF Fresh
<1>2. none \in Seq(Rows) /\ Len(none) = 0
  OBVIOUS
<1> HIDE DEF none
<1>3. Fresh \in Sessions /\ Fresh.msgs = none /\ Fresh.mark = 0
  BY <1>1, <1>2 DEF Sessions, Rows
<1> QED BY <1>2, <1>3 DEF Sound, Good, Covered

\* A chat starts with some deliveries, all of them in the file.
LEMMA OpenedRows ==
    ASSUME NEW k \in 0 .. Opening
    PROVE  /\ Opened(k) \in Sessions /\ Opened(k).mark = 0
           /\ Real(Opened(k).msgs) \subseteq [kind : {"delivery"}, n : 1 .. Opening]
           /\ \A i \in 1 .. Len(Opened(k).msgs) : Opened(k).msgs[i] # Mark
<1> DEFINE m == [i \in 1 .. k |-> [kind |-> "delivery", n |-> i]]
<1>1. k \in Nat /\ Opening \in Nat /\ MaxMessages \in Nat /\ Opening <= MaxMessages /\ k <= Opening
  BY ArchiveAssumption
<1>2. \A i \in 1 .. k : m[i] \in Message /\ m[i] \in [kind : {"delivery"}, n : 1 .. Opening]
  BY <1>1 DEF Message
<1>3. m \in Seq(Rows) /\ Len(m) = k /\ DOMAIN m = 1 .. k
  <2>1. m \in [1 .. k -> Rows]
    BY <1>2 DEF Rows
  <2> QED BY <1>1, <2>1
<1>4. Opened(k) = [Fresh EXCEPT !.msgs = m]
  BY Zenon DEF Opened
<1>5. \A i \in 1 .. k : m[i] # Mark
  BY <1>2 DEF Mark, Message
<1> HIDE DEF m
<1>6. Opened(k) \in Sessions /\ Opened(k).msgs = m /\ Opened(k).mark = 0
  <2> DEFINE none == <<>>
  <2>1. Fresh = [msgs |-> none, mark |-> 0, pending |-> FALSE, sum |-> FALSE, over |-> FALSE]
    BY DEF Fresh
  <2> HIDE DEF none
  <2>2. Opened(k) = [msgs |-> m, mark |-> 0, pending |-> FALSE, sum |-> FALSE, over |-> FALSE]
    BY <1>4, <2>1
  <2> QED BY <1>3, <2>2 DEF Sessions, Rows
<1> QED BY <1>2, <1>3, <1>5, <1>6 DEF Real

\* A save leaves a sound file and only adds rows to the history of the file.
LEMMA SaveIsSound ==
    ASSUME NEW s, NEW A, Sound(s, A), Saves(s), saved \subseteq Message
    PROVE  Sound(disk', A) /\ saved' \subseteq Message
<1>1. s.msgs \in Seq(Rows)
  BY DEF Sound, Sessions, Rows
<1>2. Real(s.msgs) \subseteq Message
  BY <1>1, RealRows
<1> QED BY <1>2 DEF Saves

\* Whoever lets go of the lock leaves the invariant to the two sessions.
LEMMA ReleaseKeeps ==
    ASSUME Release, Sound(live', archive'), Sound(disk', archive'),
           archive' \subseteq Message, saved' \subseteq Message, sent' \in 0 .. MaxMessages
    PROVE  Inv'
<1>1. Sound(snapshot', archive')
  BY FreshIsSound DEF Release
<1>2. /\ holder' = "none" /\ stage' = "idle" /\ late' = {} /\ boundary' = 0 /\ batch' = {}
      /\ checkpoint' = "none"
  BY DEF Release
<1>3. Free'
  BY <1>2 DEF Free
<1> QED BY <1>1, <1>2 DEF Inv, TypeOK, BoundaryInv, Sound, Free

LEMMA InitInv == Init => Inv
<1> SUFFICES ASSUME Init PROVE Inv
  OBVIOUS
<1>1. PICK k \in 0 .. Opening : live = Opened(k)
  BY DEF Init
<1>2. live \in Sessions /\ live.mark = 0 /\ disk = live /\ archive = {} /\ snapshot = Fresh
  BY <1>1, OpenedRows DEF Init
<1>3. Len(live.msgs) \in Nat /\ live.msgs \in Seq(Rows)
  BY <1>2 DEF Sessions, Rows
<1>4. /\ Sound(live, archive) /\ Sound(disk, archive) /\ Sound(snapshot, archive)
  <2>1. Covered(live.msgs, 0, archive)
    BY DEF Covered
  <2>2. Good(live, archive)
    BY <1>2, <1>3, <2>1 DEF Good
  <2>3. Sound(live, archive)
    BY <1>2, <2>2 DEF Sound
  <2> QED BY <1>2, <2>3, FreshIsSound
<1>5. sent \in 0 .. MaxMessages /\ saved \subseteq Message
  BY <1>3, RealRows, ArchiveAssumption DEF Init
<1> QED BY <1>4, <1>5, InvParts DEF Init, Free

\* A step that leaves the lock free and everything but the two sessions as it is.
LEMMA FreeStepKeeps ==
    ASSUME Inv, Free, Sound(live', archive), Sound(disk', archive), saved' \subseteq Message,
           UNCHANGED <<archive, holder, stage, boundary, batch, snapshot, checkpoint, late, sent>>
    PROVE  Inv'
<1>1. holder' = "none"
  BY DEF Free
<1> QED BY <1>1, InvParts DEF Inv, TypeOK, BoundaryInv, Sound, Free

\* A delivery is appended behind every captured boundary.
LEMMA DeliverKeeps == Inv /\ Deliver => Inv'
<1> SUFFICES ASSUME Inv, Deliver PROVE Inv'
  OBVIOUS
<1> DEFINE s == AddMessage(live, "delivery")
<1>1. /\ Sound(live, archive) /\ Sound(disk, archive) /\ Sound(snapshot, archive)
      /\ sent \in 0 .. MaxMessages /\ sent < MaxMessages /\ saved \subseteq Message
      /\ late \subseteq Message
  BY InvParts DEF Deliver
<1>2. /\ Sound(s, archive) /\ Len(s.msgs) = Len(live.msgs) + 1
      /\ \A i \in 1 .. Len(live.msgs) : s.msgs[i] = live.msgs[i]
      /\ s.msgs[Len(live.msgs) + 1] \in Message
  BY <1>1, AddIsSound
<1>3. /\ live' = s /\ (Saves(s) \/ CannotSave)
      /\ late' = IF Free THEN {} ELSE late \cup {s.msgs[Len(s.msgs)]}
      /\ sent' = sent + 1
      /\ UNCHANGED <<archive, holder, stage, boundary, batch, snapshot, checkpoint>>
  BY DEF Deliver, work
<1> HIDE DEF s
<1>4. Sound(disk', archive') /\ saved' \subseteq Message
  <2>1. CASE Saves(s)
    BY <1>1, <1>2, <1>3, <2>1, SaveIsSound
  <2>2. CASE CannotSave
    BY <1>1, <1>3, <2>2 DEF CannotSave
  <2> QED BY <1>3, <2>1, <2>2
<1>5. late' \subseteq Message
  BY <1>1, <1>2, <1>3
<1>6. Len(live.msgs) \in Nat
  BY <1>1 DEF Sound, Sessions
<1>7. holder' \in {"idle", "cap"} =>
        boundary' <= Len(live'.msgs) /\ Covered(live'.msgs, boundary', archive' \cup batch')
  <2> SUFFICES ASSUME holder \in {"idle", "cap"}
               PROVE  boundary <= Len(s.msgs) /\ Covered(s.msgs, boundary, archive \cup batch)
    BY <1>3
  <2>1. boundary <= Len(live.msgs) /\ Covered(live.msgs, boundary, archive \cup batch)
        /\ boundary \in Nat
    BY InvParts
  <2> QED BY <1>2, <1>6, <2>1 DEF Covered
<1>8. Sound(live', archive') /\ Sound(snapshot', archive')
  BY <1>1, <1>2, <1>3
<1>9. Free' => stage' = "idle" /\ boundary' = 0 /\ late' = {}
  BY <1>3, InvParts DEF Free
<1>10. sent' \in 0 .. MaxMessages
  BY <1>1, <1>3, ArchiveAssumption
<1>11. stage' = "committed" => batch' \subseteq archive'
  BY <1>3, InvParts
<1>12. /\ archive' \subseteq Message /\ batch' \subseteq Message
       /\ holder' \in Jobs \cup {"none"} /\ stage' \in {"idle", "running", "asking", "committed"}
       /\ boundary' \in Nat /\ checkpoint' = "none"
  BY <1>3, InvParts
<1> QED BY <1>4, <1>5, <1>7, <1>8, <1>9, <1>10, <1>11, <1>12
        DEF Inv, TypeOK, BoundaryInv, Sound

\* The flag of the file cap is set beside the holder of the lock, but no row moves.
LEMMA MarkOverCapKeeps == Inv /\ MarkOverCap => Inv'
<1> SUFFICES ASSUME Inv, MarkOverCap PROVE Inv'
  OBVIOUS
<1> DEFINE s == CapChecked(live)
<1>1. /\ live' = s /\ (Saves(s) \/ CannotSave)
      /\ UNCHANGED <<archive, holder, stage, boundary, batch, snapshot, checkpoint, late, sent>>
  BY DEF MarkOverCap, work
<1>2. Sound(live, archive) /\ Sound(disk, archive) /\ saved \subseteq Message
  BY InvParts
<1>3. Sound(s, archive) /\ s.msgs = live.msgs
  BY <1>2, CapCheckedIsSound, CapCheckedRows DEF Sound
<1> HIDE DEF s
<1>4. Sound(disk', archive') /\ saved' \subseteq Message
  <2>1. CASE Saves(s)
    BY <1>1, <1>2, <1>3, <2>1, SaveIsSound
  <2>2. CASE CannotSave
    BY <1>1, <1>2, <2>2 DEF CannotSave
  <2> QED BY <1>1, <2>1, <2>2
<1>5. Sound(live', archive') /\ live'.msgs = live.msgs
  BY <1>1, <1>3
<1> QED BY <1>1, <1>4, <1>5, InvParts DEF Inv, TypeOK, BoundaryInv, Sound, Free

LEMMA CrashKeeps == Inv /\ Crash => Inv'
<1> SUFFICES ASSUME Inv, Crash PROVE Inv'
  OBVIOUS
<1>1. Release /\ live' = disk /\ UNCHANGED <<disk, archive, saved, sent>>
  BY DEF Crash
<1>2. Sound(live', archive') /\ Sound(disk', archive')
  BY <1>1, InvParts
<1> QED BY <1>1, <1>2, InvParts, ReleaseKeeps

\* The confirmed batch joins the archive, and nothing else moves.
LEMMA CommitKeeps == Inv /\ Commit => Inv'
<1> SUFFICES ASSUME Inv, Commit PROVE Inv'
  OBVIOUS
<1>1. /\ archive' = archive \cup batch /\ stage' = "committed"
      /\ UNCHANGED <<live, disk, holder, boundary, batch, snapshot, checkpoint, late, saved, sent>>
      /\ stage = "asking"
  BY DEF Commit, work
<1>2. /\ Sound(live', archive') /\ Sound(disk', archive') /\ Sound(snapshot', archive')
  BY <1>1, InvParts, SoundGrows
<1>3. ~Free' /\ batch' \subseteq archive' /\ archive' \subseteq Message
  BY <1>1, InvParts DEF Free
<1>4. archive' \cup batch' = archive \cup batch
  BY <1>1
<1> QED BY <1>1, <1>2, <1>3, <1>4, InvParts DEF Inv, TypeOK, BoundaryInv, Sound

----------------------------------------------------------------------------
(* Turns.                                                                  *)

LEMMA TurnRestoresKeeps == Inv /\ TurnRestores => Inv'
<1> SUFFICES ASSUME Inv, TurnRestores PROVE Inv'
  OBVIOUS
<1> DEFINE s == Restored(live)
<1>1. /\ Sound(live, archive) /\ sent \in 0 .. MaxMessages /\ sent < MaxMessages /\ Free
      /\ saved \subseteq Message /\ Sound(disk, archive)
  BY InvParts DEF TurnRestores
<1>2. Sound(s, archive) /\ Len(s.msgs) - Len(live.msgs) \in {0, 1}
  <2> DEFINE r == AddMessage(live, "reply")
  <2>1. Sound(r, archive) /\ Len(r.msgs) = Len(live.msgs) + 1
    BY <1>1, AddIsSound
  <2>2. Len(live.msgs) \in Nat
    BY <1>1 DEF Sound, Sessions
  <2>3. /\ Sound([r EXCEPT !.pending = FALSE], archive)
        /\ [r EXCEPT !.pending = FALSE].msgs = r.msgs
    BY <2>1, FlagIsSound DEF Sound, Sessions
  <2>4. /\ Sound([live EXCEPT !.pending = FALSE], archive)
        /\ [live EXCEPT !.pending = FALSE].msgs = live.msgs
    BY <1>1, FlagIsSound DEF Sound, Sessions
  <2>5. s = [r EXCEPT !.pending = FALSE] \/ s = [live EXCEPT !.pending = FALSE]
    BY DEF Restored
  <2> HIDE DEF r, s
  <2>6. CASE s = [r EXCEPT !.pending = FALSE]
    <3>1. Sound(s, archive) /\ s.msgs = r.msgs
      BY <2>3, <2>6
    <3> QED BY <3>1, <2>1, <2>2
  <2>7. CASE s = [live EXCEPT !.pending = FALSE]
    <3>1. Sound(s, archive) /\ s.msgs = live.msgs
      BY <2>4, <2>7
    <3> QED BY <3>1, <2>2
  <2> QED BY <2>5, <2>6, <2>7
<1>3. /\ live' = s /\ (Saves(s) \/ CannotSave)
      /\ sent' = sent + (Len(s.msgs) - Len(live.msgs))
      /\ UNCHANGED <<archive, holder, stage, boundary, batch, snapshot, checkpoint, late>>
  BY DEF TurnRestores, work
<1> HIDE DEF s
<1>4. Sound(disk', archive') /\ saved' \subseteq Message
  <2>1. CASE Saves(s)
    BY <1>1, <1>2, <1>3, <2>1, SaveIsSound
  <2>2. CASE CannotSave
    BY <1>1, <1>3, <2>2 DEF CannotSave
  <2> QED BY <1>3, <2>1, <2>2
<1>5. sent' \in 0 .. MaxMessages
  BY <1>1, <1>2, <1>3, ArchiveAssumption
<1>6. Sound(live', archive') /\ Sound(snapshot', archive')
  BY <1>2, <1>3, InvParts
<1>7. holder' = "none"
  BY <1>1, <1>3 DEF Free
<1> QED BY <1>1, <1>3, <1>4, <1>5, <1>6, <1>7, InvParts
        DEF Inv, TypeOK, BoundaryInv, Sound, Free

\* What get_history replays is visible.
LEMMA HistoryRows ==
    ASSUME NEW s \in Sessions
    PROVE  History(s) \subseteq Message
<1>1. s.msgs \in Seq(Rows) /\ s.mark \in Nat
  BY DEF Sessions, Rows
<1>2. \A i \in s.mark + 1 .. Len(s.msgs) : s.msgs[i] \in Rows
  BY <1>1
<1> QED BY <1>2 DEF History, Rows

LEMMA TurnStartsKeeps == Inv /\ TurnStarts => Inv'
<1> SUFFICES ASSUME Inv, TurnStarts PROVE Inv'
  OBVIOUS
<1> DEFINE r == AddMessage(live, "user")
           s == [r EXCEPT !.pending = TRUE]
<1>1. /\ Sound(live, archive) /\ sent \in 0 .. MaxMessages /\ sent < MaxMessages /\ Free
      /\ saved \subseteq Message /\ Sound(disk, archive) /\ "turn" \in Jobs
  BY InvParts DEF TurnStarts
<1>2. Sound(r, archive)
  BY <1>1, AddIsSound
<1>3. Sound(s, archive)
  BY <1>2, FlagIsSound
<1>4. /\ live' = s /\ sent' = sent + 1 /\ UNCHANGED <<archive, late>>
      /\ \/ /\ Saves(s) /\ holder' = "turn" /\ stage' = "running"
            /\ batch' = History(live) /\ boundary' = Len(s.msgs)
            /\ UNCHANGED <<snapshot, checkpoint>>
         \/ /\ CannotSave
            /\ UNCHANGED <<holder, stage, boundary, batch, snapshot, checkpoint>>
  BY DEF TurnStarts, work
<1>5. History(live) \subseteq Message
  BY <1>1, HistoryRows DEF Visible, Sound, Good
<1>6. Len(s.msgs) \in Nat
  BY <1>3 DEF Sound, Sessions
<1> HIDE DEF r, s
<1>7. sent' \in 0 .. MaxMessages
  BY <1>1, <1>4, ArchiveAssumption
<1>8. Sound(live', archive') /\ Sound(snapshot', archive')
  BY <1>3, <1>4, InvParts
<1>9. CASE Saves(s) /\ holder' = "turn"
  <2>1. /\ stage' = "running" /\ batch' = History(live) /\ boundary' = Len(s.msgs)
        /\ UNCHANGED <<snapshot, checkpoint>>
    BY <1>1, <1>4, <1>9 DEF Free
  <2>2. Sound(disk', archive') /\ saved' \subseteq Message
    BY <1>1, <1>3, <1>4, <1>9, SaveIsSound
  <2> QED BY <1>1, <1>4, <1>5, <1>6, <1>7, <1>8, <1>9, <2>1, <2>2, InvParts
          DEF Inv, TypeOK, BoundaryInv, Sound, Free
<1>10. CASE /\ CannotSave
            /\ UNCHANGED <<holder, stage, boundary, batch, snapshot, checkpoint>>
  <2>1. Sound(disk', archive') /\ saved' \subseteq Message
    BY <1>1, <1>4, <1>10 DEF CannotSave
  <2>2. holder' = "none"
    BY <1>1, <1>10 DEF Free
  <2> QED BY <1>1, <1>4, <1>7, <1>8, <1>10, <2>1, <2>2, InvParts
          DEF Inv, TypeOK, BoundaryInv, Sound, Free
<1> QED BY <1>4, <1>9, <1>10

LEMMA TurnEndsKeeps == Inv /\ TurnEnds => Inv'
<1> SUFFICES ASSUME Inv, TurnEnds PROVE Inv'
  OBVIOUS
<1> DEFINE r == AddMessage(live, "reply")
           s == [r EXCEPT !.pending = FALSE]
<1>1. /\ Sound(live, archive) /\ sent \in 0 .. MaxMessages /\ sent < MaxMessages
      /\ saved \subseteq Message /\ checkpoint = "none"
  BY InvParts DEF TurnEnds
<1>2. Sound(s, archive)
  BY <1>1, AddIsSound, FlagIsSound
<1>3. TurnSaves = s
  BY <1>1 DEF TurnSaves
<1> HIDE DEF r, s
<1>4. live' = s /\ Saves(s) /\ Release /\ archive' = archive /\ sent' = sent + 1
  BY <1>3 DEF TurnEnds
<1>5. Sound(disk', archive') /\ saved' \subseteq Message
  BY <1>1, <1>2, <1>4, SaveIsSound
<1>6. sent' \in 0 .. MaxMessages
  BY <1>1, <1>4, ArchiveAssumption
<1> QED BY <1>2, <1>4, <1>5, <1>6, ReleaseKeeps, InvParts

\* Every way of letting go that leaves both sessions as they are.
LEMMA LetGoKeeps ==
    Inv /\ (TurnFails \/ IdleGivesUp \/ CapGivesUp \/ NewKeepsHistory) => Inv'
<1> SUFFICES ASSUME Inv, TurnFails \/ IdleGivesUp \/ CapGivesUp \/ NewKeepsHistory PROVE Inv'
  OBVIOUS
<1>1. Release /\ UNCHANGED <<live, disk, archive, saved, sent>>
  BY DEF TurnFails, IdleGivesUp, CapGivesUp, NewKeepsHistory
<1> QED BY <1>1, InvParts, ReleaseKeeps

----------------------------------------------------------------------------
(* Idle compaction, the file cap and /new.                                 *)

\* A call that starts: the two sessions, the batch and the captured boundary.
LEMMA AskKeeps ==
    ASSUME Inv, NEW end \in Nat, NEW rows, rows \subseteq Message, Ask(end, rows),
           NEW job \in Jobs, job # "none", holder' = job,
           Sound(live', archive), Sound(snapshot', archive),
           end <= Len(live'.msgs), Covered(live'.msgs, end, archive \cup rows),
           Sound(disk', archive), saved' \subseteq Message,
           late' = {}, UNCHANGED <<archive, checkpoint, sent>>
    PROVE  Inv'
<1>1. stage' = "asking" /\ boundary' = end /\ batch' = rows
  BY DEF Ask
<1>2. ~Free'
  BY DEF Free
<1> QED BY <1>1, <1>2, InvParts DEF Inv, TypeOK, BoundaryInv, Sound

LEMMA CompactStartsKeeps == Inv /\ CompactStarts => Inv'
<1> SUFFICES ASSUME Inv, CompactStarts PROVE Inv'
  OBVIOUS
<1> DEFINE end == Len(disk.msgs)
           rows == Visible(disk)
<1>1. /\ live' = disk /\ snapshot' = disk /\ late' = {} /\ holder' = "idle" /\ "idle" \in Jobs
      /\ Ask(end, rows) /\ UNCHANGED <<disk, archive, checkpoint, saved, sent>>
  BY DEF CompactStarts, Take
<1>2. Sound(disk, archive)
  BY InvParts
<1>3. end \in Nat /\ disk.mark <= end /\ disk.mark \in Nat /\ disk.msgs \in Seq(Rows)
  BY <1>2 DEF Sound, Good, Sessions, Rows
<1>4. rows \subseteq Message
  BY <1>3, SliceRows DEF Visible
<1>5. end <= Len(disk.msgs)
  BY <1>3
<1> HIDE DEF end, rows
<1>6. Covered(disk.msgs, end, archive \cup Real(SubSeq(disk.msgs, disk.mark + 1, end)))
  BY <1>2, <1>3, <1>5, BatchCovers
<1>7. rows = Real(SubSeq(disk.msgs, disk.mark + 1, end))
  BY DEF Visible, end, rows
<1>8. Covered(disk.msgs, end, archive \cup rows)
  BY <1>6, <1>7
<1>9. end <= Len(live'.msgs) /\ saved' \subseteq Message /\ disk' = disk
  BY <1>1, <1>5, InvParts
<1> QED BY <1>1, <1>2, <1>3, <1>4, <1>8, <1>9, AskKeeps

\* What was captured before the await still lies before the boundary, and is archived now.
LEMMA CapturedIsArchived ==
    ASSUME Inv, holder \in {"idle", "cap"}, Confirmed
    PROVE  /\ Sound(CommitCheckpoint(live, boundary), archive)
           /\ boundary \in Nat /\ boundary <= Len(live.msgs)
           /\ Len(CommitCheckpoint(live, boundary).msgs) = Len(live.msgs) + 1
<1>1. /\ boundary \in Nat /\ boundary <= Len(live.msgs) /\ batch \subseteq archive
      /\ Covered(live.msgs, boundary, archive \cup batch) /\ Sound(live, archive)
  BY InvParts DEF Confirmed
<1>2. archive \cup batch = archive
  BY <1>1
<1>3. Covered(live.msgs, boundary, archive)
  BY <1>1, <1>2
<1> QED BY <1>1, <1>3, CheckpointIsSound

LEMMA IdleCommitsKeeps == Inv /\ IdleCommits => Inv'
<1> SUFFICES ASSUME Inv, IdleCommits PROVE Inv'
  OBVIOUS
<1>1. /\ live' = IdleSummary /\ Saves(IdleSummary) /\ Release /\ UNCHANGED <<archive, sent>>
  BY DEF IdleCommits
<1>2. Sound(IdleSummary, archive)
  BY CapturedIsArchived DEF IdleCommits, IdleSummary
<1>3. Sound(disk', archive) /\ saved' \subseteq Message
  BY <1>1, <1>2, InvParts, SaveIsSound
<1> QED BY <1>1, <1>2, <1>3, InvParts, ReleaseKeeps

\* The rollback copy is sound, so is the object it is copied to.
LEMMA RollBackKeeps == Inv /\ (IdleRollsBack \/ NewCannotSave) => Inv'
<1> SUFFICES ASSUME Inv, IdleRollsBack \/ NewCannotSave PROVE Inv'
  OBVIOUS
<1>1. live' = snapshot /\ Release /\ UNCHANGED <<disk, archive, saved, sent>>
  BY DEF IdleRollsBack, NewCannotSave
<1> QED BY <1>1, InvParts, ReleaseKeeps

\* A cut never lies behind the end of the transcript.
LEMMA CutsInRange ==
    ASSUME NEW s \in Sessions
    PROVE  Cuts(s) \subseteq 0 .. Len(s.msgs)
<1>1. Len(s.msgs) \in Nat
  BY DEF Sessions
<1>2. {0} \cup UserStarts(s) \subseteq 0 .. Len(s.msgs)
  BY <1>1 DEF UserStarts
<1> SUFFICES ASSUME NEW c \in Cuts(s) PROVE c \in 0 .. Len(s.msgs)
  OBVIOUS
<1>3. PICK i \in {0} \cup UserStarts(s) :
        c = IF i > 0 /\ s.msgs[i].kind = "delivery" THEN i - 1 ELSE i
  BY DEF Cuts
<1> QED BY <1>1, <1>2, <1>3

LEMMA CapStartsKeeps == Inv /\ CapStarts => Inv'
<1> SUFFICES ASSUME Inv, CapStarts PROVE Inv'
  OBVIOUS
<1>1. /\ live' = CapChecked(disk) /\ Saves(CapChecked(disk)) /\ late' = {}
      /\ holder' = "cap" /\ "cap" \in Jobs
      /\ UNCHANGED <<archive, snapshot, checkpoint, sent>>
  BY DEF CapStarts, Take
<1>2. PICK cut \in NewCuts(disk) : Ask(cut, Prefix(disk, cut))
  BY DEF CapStarts
<1>3. Sound(disk, archive) /\ Sound(snapshot', archive)
  BY <1>1, InvParts
<1>4. Len(disk.msgs) \in Nat /\ disk.mark \in Nat /\ disk.msgs \in Seq(Rows) /\ disk \in Sessions
  BY <1>3 DEF Sound, Sessions, Rows
<1>5. cut \in Nat /\ cut <= Len(disk.msgs) /\ disk.mark <= cut
  BY <1>4, CutsInRange DEF NewCuts
<1>6. Prefix(disk, cut) \subseteq Message
  BY <1>4, <1>5, SliceRows DEF Prefix
<1>7. Covered(disk.msgs, cut, archive \cup Prefix(disk, cut))
  BY <1>3, <1>5, BatchCovers DEF Prefix
<1>8. Sound(live', archive) /\ live'.msgs = disk.msgs
  BY <1>1, <1>3, <1>4, CapCheckedIsSound, CapCheckedRows
<1>9. /\ cut <= Len(live'.msgs) /\ Covered(live'.msgs, cut, archive \cup Prefix(disk, cut))
      /\ Sound(live', archive)
  BY <1>5, <1>7, <1>8
<1>10. Sound(disk', archive) /\ saved' \subseteq Message
  BY <1>1, <1>8, InvParts, SaveIsSound
<1> QED BY <1>1, <1>2, <1>3, <1>5, <1>6, <1>9, <1>10, AskKeeps

LEMMA CapPrunesKeeps == Inv /\ CapPrunes => Inv'
<1> SUFFICES ASSUME Inv, CapPrunes PROVE Inv'
  OBVIOUS
<1> DEFINE c == CommitCheckpoint(live, boundary)
<1>1. /\ live' = CapSummary /\ Saves(CapSummary) /\ Release /\ UNCHANGED <<archive, sent>>
  BY DEF CapPrunes
<1>2. /\ Sound(c, archive) /\ boundary \in Nat /\ boundary <= Len(live.msgs)
      /\ Len(c.msgs) = Len(live.msgs) + 1
  BY CapturedIsArchived DEF CapPrunes
<1>3. Len(live.msgs) \in Nat
  BY InvParts DEF Sound, Sessions
<1>4. CapSummary = Prune(c, boundary)
  BY DEF CapSummary
<1> HIDE DEF c
<1>5. c \in Sessions
  BY <1>2 DEF Sound
<1>6. boundary <= Len(c.msgs)
  BY <1>2, <1>3
<1>7. Sound(CapSummary, archive)
  BY <1>2, <1>4, <1>5, <1>6, PruneIsSound
<1>8. Sound(disk', archive) /\ saved' \subseteq Message
  BY <1>1, <1>7, InvParts, SaveIsSound
<1> QED BY <1>1, <1>7, <1>8, InvParts, ReleaseKeeps

LEMMA CapPrunesNowKeeps == Inv /\ CapPrunesNow => Inv'
<1> SUFFICES ASSUME Inv, CapPrunesNow PROVE Inv'
  OBVIOUS
<1>1. PICK s \in {Prune(disk, disk.mark), CapChecked(disk)} : live' = s /\ Saves(s)
  BY DEF CapPrunesNow
<1>2. Sound(disk, archive) /\ saved \subseteq Message
  BY InvParts
<1>3. Sound(Prune(disk, disk.mark), archive)
  BY <1>2, PruneIsSound DEF Sound, Good, Sessions
<1>4. Sound(s, archive)
  BY <1>2, <1>3, CapCheckedIsSound
<1>5. Sound(disk', archive) /\ saved' \subseteq Message
  BY <1>1, <1>2, <1>4, SaveIsSound
<1> QED BY <1>1, <1>4, <1>5, FreeStepKeeps DEF CapPrunesNow, work

LEMMA IdleFindsNoneKeeps == Inv /\ IdleFindsNone => Inv'
<1> SUFFICES ASSUME Inv, IdleFindsNone PROVE Inv'
  OBVIOUS
<1>1. live' = disk /\ disk' = disk /\ saved' = saved
  BY DEF IdleFindsNone
<1> QED BY <1>1, InvParts, FreeStepKeeps DEF IdleFindsNone, work

LEMMA CapFindsNoneKeeps == Inv /\ CapFindsNone => Inv'
<1> SUFFICES ASSUME Inv, CapFindsNone PROVE Inv'
  OBVIOUS
<1>1. live' = CapChecked(disk) /\ (Saves(CapChecked(disk)) \/ CannotSave)
  BY DEF CapFindsNone
<1>2. Sound(disk, archive) /\ saved \subseteq Message
  BY InvParts
<1>3. Sound(CapChecked(disk), archive)
  BY <1>2, CapCheckedIsSound
<1>4. Sound(disk', archive) /\ saved' \subseteq Message
  <2>1. CASE Saves(CapChecked(disk))
    BY <1>2, <1>3, <2>1, SaveIsSound
  <2>2. CASE CannotSave
    BY <1>2, <2>2 DEF CannotSave
  <2> QED BY <1>1, <2>1, <2>2
<1> QED BY <1>1, <1>3, <1>4, FreeStepKeeps DEF CapFindsNone, work

LEMMA NewStartsKeeps == Inv /\ NewStarts => Inv'
<1> SUFFICES ASSUME Inv, NewStarts PROVE Inv'
  OBVIOUS
<1> DEFINE end == Len(live.msgs)
           rows == Visible(live)
<1>1. /\ snapshot' = live /\ late' = {} /\ holder' = "new" /\ "new" \in Jobs /\ live' = live
      /\ Ask(end, rows) /\ UNCHANGED <<disk, archive, checkpoint, saved, sent>>
  BY DEF NewStarts, Take
<1>2. Sound(live, archive)
  BY InvParts
<1>3. end \in Nat /\ live.mark <= end /\ live.mark \in Nat /\ live.msgs \in Seq(Rows)
  BY <1>2 DEF Sound, Good, Sessions, Rows
<1>4. rows \subseteq Message
  BY <1>3, SliceRows DEF Visible
<1>5. end <= Len(live.msgs)
  BY <1>3
<1> HIDE DEF end, rows
<1>6. Covered(live.msgs, end, archive \cup Real(SubSeq(live.msgs, live.mark + 1, end)))
  BY <1>2, <1>3, <1>5, BatchCovers
<1>7. rows = Real(SubSeq(live.msgs, live.mark + 1, end))
  BY DEF Visible, end, rows
<1>8. Covered(live.msgs, end, archive \cup rows)
  BY <1>6, <1>7
<1>9. end <= Len(live'.msgs)
  BY <1>1, <1>5
<1>10. /\ Sound(live', archive) /\ Sound(snapshot', archive)
      /\ Covered(live'.msgs, end, archive \cup rows)
      /\ Sound(disk', archive) /\ saved' \subseteq Message
  BY <1>1, <1>2, <1>8, InvParts
<1> QED BY <1>1, <1>3, <1>4, <1>9, <1>10, AskKeeps

LEMMA NewClearsKeeps == Inv /\ NewClears => Inv'
<1> SUFFICES ASSUME Inv, NewClears PROVE Inv'
  OBVIOUS
<1>1. live' = Clear(live) /\ Saves(Clear(live)) /\ Release /\ UNCHANGED <<archive, sent>>
  BY DEF NewClears
<1>2. live \in Sessions
  BY InvParts DEF Sound
<1>3. Sound(Clear(live), archive)
  BY <1>2, ClearIsSound
<1>4. Sound(disk', archive) /\ saved' \subseteq Message
  BY <1>1, <1>3, InvParts, SaveIsSound
<1> QED BY <1>1, <1>3, <1>4, InvParts, ReleaseKeeps

----------------------------------------------------------------------------
(* The theorems.                                                           *)

\* Without compaction inside a turn, every step keeps the invariant.
LEMMA NextInv == ~CompactInTurn /\ Inv /\ [Next]_vars => Inv'
<1> SUFFICES ASSUME ~CompactInTurn, Inv, [Next]_vars PROVE Inv'
  OBVIOUS
<1>1. CASE Turn
  <2>1. \A where \in {"before", "after"} : ~TurnCompacts(where)
    BY DEF TurnCompacts
  <2> QED BY <1>1, <2>1, TurnRestoresKeeps, TurnStartsKeeps, TurnEndsKeeps, LetGoKeeps DEF Turn
<1>2. CASE Idle
  BY <1>2, CompactStartsKeeps, IdleFindsNoneKeeps, IdleCommitsKeeps, RollBackKeeps, LetGoKeeps
     DEF Idle, IdleStarts
<1>3. CASE FileCap
  BY <1>3, CapFindsNoneKeeps, MarkOverCapKeeps, CapPrunesNowKeeps, CapStartsKeeps, CapPrunesKeeps,
     LetGoKeeps DEF FileCap
<1>4. CASE New
  BY <1>4, NewStartsKeeps, NewClearsKeeps, RollBackKeeps, LetGoKeeps DEF New
<1>5. CASE UNCHANGED vars
  BY <1>5 DEF vars, Inv, TypeOK, BoundaryInv, Free
<1> QED BY <1>1, <1>2, <1>3, <1>4, <1>5, DeliverKeeps, CrashKeeps, CommitKeeps DEF Next

\* What the boundary hides is exactly what it covers.
LEMMA InvHidden == Inv => HiddenIsArchived
<1> SUFFICES ASSUME Inv, NEW s \in {live, disk} PROVE Hidden(s) \subseteq archive
  BY DEF HiddenIsArchived
<1>1. Sound(s, archive)
  BY InvParts
<1>2. /\ s.msgs \in Seq(Rows) /\ s.mark \in Nat /\ s.mark <= Len(s.msgs)
      /\ Covered(s.msgs, s.mark, archive)
  BY <1>1 DEF Sound, Good, Sessions, Rows
<1> QED BY <1>2, CoveredPrefix DEF Hidden

\* compact_idle_session, enforce_file_cap and /new move the boundary only over messages that a
\* committed archive fact holds, whatever is delivered, fails or crashes meanwhile.
THEOREM BoundaryIsArchived == ~CompactInTurn => (Spec => []HiddenIsArchived)
<1> SUFFICES ASSUME ~CompactInTurn PROVE Spec => []HiddenIsArchived
  OBVIOUS
<1> QED BY InitInv, NextInv, InvHidden, PTL DEF Spec

\* The rows before a boundary captured by compact_idle_session or enforce_file_cap stay where they
\* were and are archived or in the batch until the marker is placed, however much is delivered.
THEOREM CapturedBoundaryHolds == ~CompactInTurn => (Spec => []BoundaryInv)
<1> SUFFICES ASSUME ~CompactInTurn PROVE Spec => []BoundaryInv
  OBVIOUS
<1>1. Inv => BoundaryInv
  BY DEF Inv
<1> QED BY InitInv, NextInv, <1>1, PTL DEF Spec

-----------------------------------------------------------------------------
(* Which rows a step drops is seen only in the step: an invariant about    *)
(* the rows that are kept, and then each step.                             *)


\* A row added at the end is the only new one.
LEMMA RealAppend ==
    ASSUME NEW msgs \in Seq(Rows), NEW m \in Message
    PROVE  Real(Append(msgs, m)) = Real(msgs) \cup {m}
<1> DEFINE t == Append(msgs, m)
<1>1. m # Mark
  BY DEF Mark, Message
<1>2. /\ DOMAIN t = 1 .. Len(msgs) + 1 /\ DOMAIN msgs = 1 .. Len(msgs) /\ Len(msgs) \in Nat
      /\ \A i \in 1 .. Len(msgs) : t[i] = msgs[i]
      /\ t[Len(msgs) + 1] = m
  BY DEF Rows
<1> HIDE DEF t
<1>3. ASSUME NEW x \in Real(t)
      PROVE  x \in Real(msgs) \cup {m}
  <2>1. PICK i \in 1 .. Len(msgs) + 1 : x = t[i] /\ x # Mark
    BY <1>2 DEF Real
  <2>2. CASE i = Len(msgs) + 1
    BY <1>2, <2>1, <2>2
  <2>3. CASE i \in 1 .. Len(msgs)
    BY <1>2, <2>1, <2>3 DEF Real
  <2> QED BY <1>2, <2>1, <2>2, <2>3
<1>4. ASSUME NEW x \in Real(msgs)
      PROVE  x \in Real(t)
  <2>1. PICK i \in 1 .. Len(msgs) : x = msgs[i] /\ x # Mark
    BY <1>2 DEF Real
  <2>2. i \in 1 .. Len(msgs) + 1 /\ t[i] = x
    BY <1>2, <2>1
  <2> QED BY <1>2, <2>1, <2>2 DEF Real
<1>5. m \in Real(t)
  <2>1. Len(msgs) + 1 \in 1 .. Len(msgs) + 1
    BY <1>2
  <2> QED BY <1>1, <1>2, <2>1 DEF Real
<1>6. Real(t) = Real(msgs) \cup {m}
  BY <1>3, <1>4, <1>5
<1> QED BY <1>6 DEF t

\* Cutting a transcript in two parts loses no row.
LEMMA RealSplit ==
    ASSUME NEW msgs \in Seq(Rows), NEW k \in Nat, k <= Len(msgs)
    PROVE  Real(msgs) = Real(SubSeq(msgs, 1, k)) \cup Real(SubSeq(msgs, k + 1, Len(msgs)))
<1>1. Len(msgs) \in Nat /\ DOMAIN msgs = 1 .. Len(msgs)
  OBVIOUS
<1>2. Real(SubSeq(msgs, 1, k)) = {msgs[i] : i \in 1 .. k} \ {Mark}
  BY RealSub
<1>3. Real(SubSeq(msgs, k + 1, Len(msgs))) = {msgs[i] : i \in k + 1 .. Len(msgs)} \ {Mark}
  BY <1>1, RealSub
<1>4. 1 .. Len(msgs) = (1 .. k) \cup (k + 1 .. Len(msgs))
  BY <1>1
<1> QED BY <1>1, <1>2, <1>3, <1>4 DEF Real

\* The marker is no row of the conversation.
LEMMA RealInsert ==
    ASSUME NEW msgs \in Seq(Rows), NEW k \in Nat, k <= Len(msgs)
    PROVE  Real(InsertAt(msgs, k + 1, Mark)) = Real(msgs)
<1> DEFINE head == SubSeq(msgs, 1, k)
           tail == SubSeq(msgs, k + 1, Len(msgs))
           t == head \o <<Mark>> \o tail
<1>1. (k + 1) - 1 = k
  OBVIOUS
<1>2. InsertAt(msgs, k + 1, Mark) = t
  BY <1>1 DEF InsertAt
<1>3. Mark \in Rows /\ head \in Seq(Rows) /\ tail \in Seq(Rows) /\ Len(head) = k
  BY DEF Rows
<1>4. Real(msgs) = Real(head) \cup Real(tail)
  BY RealSplit
<1> HIDE DEF head, tail
<1> DEFINE u == head \o <<Mark>>
<1>5. /\ u \in Seq(Rows) /\ Len(u) = k + 1 /\ u[k + 1] = Mark
      /\ \A i \in 1 .. k : u[i] = head[i]
  BY <1>3
<1>6. t = u \o tail
  OBVIOUS
<1> HIDE DEF u, t
<1>7. /\ t \in Seq(Rows) /\ DOMAIN t = 1 .. Len(u) + Len(tail) /\ Len(tail) \in Nat
      /\ \A i \in 1 .. Len(u) : t[i] = u[i]
  <2>1. u \in Seq(Rows) /\ tail \in Seq(Rows)
    BY <1>3, <1>5
  <2>2. u \o tail \in Seq(Rows) /\ Len(u \o tail) = Len(u) + Len(tail)
    BY <2>1
  <2>3. \A i \in 1 .. Len(u) : (u \o tail)[i] = u[i]
    BY <2>1
  <2> QED BY <1>6, <2>1, <2>2, <2>3
<1>8. \A i \in 1 .. Len(tail) : t[Len(u) + i] = tail[i] /\ Len(u) + i \in DOMAIN t
  <2> SUFFICES ASSUME NEW i \in 1 .. Len(tail)
               PROVE  t[Len(u) + i] = tail[i] /\ Len(u) + i \in DOMAIN t
    OBVIOUS
  <2>1. Len(u) + i \in 1 .. Len(u) + Len(tail) /\ Len(u) \in Nat
    BY <1>5, <1>7
  <2>2. u \in Seq(Rows) /\ tail \in Seq(Rows)
    BY <1>3, <1>5
  <2>3. (u \o tail)[Len(u) + i] = tail[i]
    BY <2>1, <2>2
  <2> QED BY <1>6, <1>7, <2>1, <2>3
<1>9. ASSUME NEW x \in Real(t)
      PROVE  x \in Real(head) \cup Real(tail)
  <2>1. PICK i \in DOMAIN t : x = t[i] /\ x # Mark
    BY DEF Real
  <2>2. CASE i \in 1 .. k
    <3>1. i \in DOMAIN head /\ x = head[i]
      BY <1>3, <1>5, <1>7, <2>1, <2>2
    <3> QED BY <2>1, <3>1 DEF Real
  <2>3. CASE i = k + 1
    BY <1>5, <1>7, <2>1, <2>3
  <2>4. CASE i \in k + 2 .. Len(u) + Len(tail)
    <3>1. i - Len(u) \in 1 .. Len(tail) /\ Len(u) + (i - Len(u)) = i
      BY <1>5, <1>7, <2>4
    <3>2. i - Len(u) \in DOMAIN tail /\ x = tail[i - Len(u)]
      BY <1>3, <1>8, <2>1, <3>1
    <3> QED BY <2>1, <3>2 DEF Real
  <2> QED BY <1>5, <1>7, <2>1, <2>2, <2>3, <2>4
<1>10. ASSUME NEW x \in Real(head) \cup Real(tail)
       PROVE  x \in Real(t)
  <2>1. CASE x \in Real(head)
    <3>1. PICK i \in DOMAIN head : x = head[i] /\ x # Mark
      BY <2>1 DEF Real
    <3>2. i \in DOMAIN t /\ t[i] = x
      BY <1>3, <1>5, <1>7, <3>1
    <3> QED BY <3>1, <3>2 DEF Real
  <2>2. CASE x \in Real(tail)
    <3>1. PICK i \in DOMAIN tail : x = tail[i] /\ x # Mark
      BY <2>2 DEF Real
    <3>2. Len(u) + i \in DOMAIN t /\ t[Len(u) + i] = x
      BY <1>3, <1>8, <3>1
    <3> QED BY <3>1, <3>2 DEF Real
  <2> QED BY <2>1, <2>2
<1> QED BY <1>2, <1>4, <1>9, <1>10

----------------------------------------------------------------------------
(* The two halves of KeptInv, and what a step has to show.                 *)

\* The live object, the file and the rows that were ever saved.
FileInv ==
    /\ saved \cap Real(live.msgs) \subseteq archive \cup Real(disk.msgs)
    /\ Numbered(live.msgs) /\ Numbered(disk.msgs) /\ \A m \in saved : m.n <= sent

\* The rollback copy of the job that holds the lock.
JobInv ==
    /\ holder \in {"idle", "new"} =>
        /\ Real(snapshot.msgs) \subseteq Real(live.msgs)
        /\ Real(live.msgs) \subseteq Real(snapshot.msgs) \cup late
    /\ holder = "new" => Real(snapshot.msgs) \subseteq archive \cup batch

LEMMA KeptParts == KeptInv <=> FileInv /\ JobInv
BY DEF KeptInv, FileInv, JobInv

\* The same for the state a step leads to.
LEMMA KeptNext == ASSUME FileInv', JobInv' PROVE KeptInv'
BY DEF KeptInv, FileInv, JobInv

All == Inv /\ KeptInv

\* A job with a rollback copy may drop what came in during its await, no other step drops a row.
MayDrop == IF holder \in {"idle", "new"} THEN late ELSE {}
StepKeeps ==
    /\ archive \subseteq archive'
    /\ saved \cap Real(live.msgs) \subseteq archive' \cup Real(live'.msgs) \cup MayDrop

\* What every state offers to the lemmas below.
LEMMA Given ==
    ASSUME All
    PROVE  /\ live \in Sessions /\ disk \in Sessions /\ snapshot \in Sessions
           /\ live.msgs \in Seq(Rows) /\ disk.msgs \in Seq(Rows) /\ snapshot.msgs \in Seq(Rows)
           /\ saved \subseteq Message /\ archive \subseteq Message /\ sent \in 0 .. MaxMessages
           /\ sent \in Nat /\ FileInv /\ JobInv
           /\ Real(live.msgs) \subseteq Message /\ Real(disk.msgs) \subseteq Message
<1>1. /\ live \in Sessions /\ disk \in Sessions /\ snapshot \in Sessions
      /\ saved \subseteq Message /\ archive \subseteq Message /\ sent \in 0 .. MaxMessages
      /\ FileInv /\ JobInv
  BY InvParts, KeptParts DEF All, Sound
<1>2. live.msgs \in Seq(Rows) /\ disk.msgs \in Seq(Rows) /\ snapshot.msgs \in Seq(Rows)
  BY <1>1 DEF Sessions, Rows
<1> QED BY <1>1, <1>2, RealRows, ArchiveAssumption

\* A save makes the file the live object.
LEMMA SavedFile ==
    ASSUME All, NEW s, live' = s, Saves(s), archive \subseteq archive',
           sent' \in Nat, sent <= sent', \A m \in Real(s.msgs) : m.n <= sent'
    PROVE  FileInv'
<1>1. disk' = s /\ saved' = saved \cup Real(s.msgs)
  BY DEF Saves
<1>2. ASSUME NEW m \in saved
      PROVE  m.n <= sent'
  <2>1. m.n \in Nat /\ m.n <= sent /\ sent \in Nat
    BY Given DEF FileInv, Message
  <2> QED BY <2>1
<1> QED BY <1>1, <1>2 DEF FileInv, Numbered

\* Without a save the live object may go back to the file or gain a new row.
LEMMA SameFile ==
    ASSUME All, UNCHANGED <<disk, saved>>, archive \subseteq archive', sent' \in Nat, sent <= sent',
           \A m \in Real(live'.msgs) : \/ m \in Real(live.msgs) \cup Real(disk.msgs)
                                       \/ m.n = sent + 1 /\ m.n <= sent'
    PROVE  FileInv'
<1>1. /\ FileInv /\ sent \in Nat /\ saved \subseteq Message
      /\ Real(live.msgs) \subseteq Message /\ Real(disk.msgs) \subseteq Message
  BY Given
<1>2. \A m \in Message : m.n \in Nat
  BY DEF Message
<1>3. ASSUME NEW m \in saved, m \in Real(live'.msgs)
      PROVE  m \in archive' \cup Real(disk.msgs)
  <2>1. m.n <= sent /\ m.n \in Nat
    BY <1>1, <1>2 DEF FileInv
  <2>2. m \in Real(live.msgs) \cup Real(disk.msgs)
    BY <1>1, <1>3, <2>1
  <2> QED BY <1>1, <1>3, <2>2 DEF FileInv
<1>4. ASSUME NEW m \in saved \cup Real(disk.msgs) \cup Real(live.msgs)
      PROVE  m.n <= sent'
  <2>1. m.n <= sent /\ m.n \in Nat
    BY <1>1, <1>2 DEF FileInv, Numbered
  <2> QED BY <1>1, <2>1
<1>5. ASSUME NEW m \in Real(live'.msgs)
      PROVE  m.n <= sent'
  BY <1>4, <1>5
<1> QED BY <1>3, <1>4, <1>5 DEF FileInv, Numbered

\* A row added to the live object, saved or not.
LEMMA RowAdded ==
    ASSUME All, NEW kind \in {"user", "reply", "delivery"}, sent < MaxMessages,
           NEW s, s.msgs = AddMessage(live, kind).msgs, live' = s, Saves(s) \/ CannotSave,
           archive' = archive, sent' = sent + 1
    PROVE  /\ FileInv' /\ StepKeeps
           /\ Real(s.msgs) = Real(live.msgs) \cup {s.msgs[Len(s.msgs)]}
<1> DEFINE m == [kind |-> kind, n |-> sent + 1]
<1>1. /\ live \in Sessions /\ live.msgs \in Seq(Rows) /\ sent \in Nat /\ sent \in 0 .. MaxMessages
      /\ FileInv /\ saved \subseteq Message /\ Real(live.msgs) \subseteq Message
  BY Given
<1>2. m \in Message /\ m.n = sent + 1
  BY <1>1, ArchiveAssumption DEF Message
<1>3. s.msgs = Append(live.msgs, m)
  BY <1>1 DEF AddMessage, Sessions
<1> HIDE DEF m
<1>4. Real(s.msgs) = Real(live.msgs) \cup {m}
  BY <1>1, <1>2, <1>3, RealAppend
<1>5. s.msgs[Len(s.msgs)] = m
  BY <1>1, <1>2, <1>3 DEF Rows
<1>6. \A x \in Real(live.msgs) : x.n \in Nat /\ x.n <= sent
  BY <1>1 DEF FileInv, Numbered, Message
<1>7. \A x \in Real(s.msgs) : x.n <= sent'
  BY <1>1, <1>2, <1>4, <1>6
<1>8. FileInv'
  <2>1. CASE Saves(s)
    BY <1>1, <1>7, <2>1, SavedFile
  <2>2. CASE CannotSave
    BY <1>1, <1>2, <1>4, <2>2, SameFile DEF CannotSave
  <2> QED BY <2>1, <2>2
<1> QED BY <1>4, <1>5, <1>8 DEF StepKeeps

----------------------------------------------------------------------------
(* One lemma per kind of step.                                             *)

LEMMA DeliverRows == All /\ Deliver => KeptInv' /\ StepKeeps
<1> SUFFICES ASSUME All, Deliver PROVE KeptInv' /\ StepKeeps
  OBVIOUS
<1> DEFINE s == AddMessage(live, "delivery")
<1>1. /\ sent < MaxMessages /\ sent' = sent + 1 /\ live' = s /\ (Saves(s) \/ CannotSave)
      /\ late' = IF Free THEN {} ELSE late \cup {s.msgs[Len(s.msgs)]}
      /\ UNCHANGED <<archive, holder, stage, boundary, batch, snapshot, checkpoint>>
  BY DEF Deliver, work
<1> HIDE DEF s
<1>2. /\ FileInv' /\ StepKeeps
      /\ Real(s.msgs) = Real(live.msgs) \cup {s.msgs[Len(s.msgs)]}
  <2>1. s.msgs = AddMessage(live, "delivery").msgs
    BY DEF s
  <2> QED BY <1>1, <2>1, RowAdded
<1>3. JobInv'
  <2>1. JobInv
    BY Given
  <2>2. holder \in {"idle", "new"} => late' = late \cup {s.msgs[Len(s.msgs)]}
    BY <1>1 DEF Free
  <2> QED BY <1>1, <1>2, <2>1, <2>2 DEF JobInv
<1> QED BY <1>2, <1>3, KeptNext

\* A step that frees the lock leaves nothing to say about a rollback copy.
LEMMA FreeJob == ASSUME holder' \notin {"idle", "new"} PROVE JobInv'
BY DEF JobInv

\* The live object is dropped for the file: whatever it had saved is there.
LEMMA BackToFile ==
    ASSUME All, live' = disk, UNCHANGED <<disk, archive, saved, sent>>
    PROVE  FileInv' /\ StepKeeps
<1>1. FileInv /\ sent \in Nat
  BY Given
<1>2. FileInv'
  BY <1>1, SameFile
<1> QED BY <1>1, <1>2 DEF StepKeeps, FileInv

\* The same when the file gets a new flag on the way, saved or not.
LEMMA FlaggedFile ==
    ASSUME All, NEW s, s.msgs = disk.msgs, live' = s, Saves(s) \/ CannotSave,
           UNCHANGED <<archive, sent>>
    PROVE  FileInv' /\ StepKeeps
<1>1. FileInv /\ sent \in Nat
  BY Given
<1>2. FileInv'
  <2>1. CASE Saves(s)
    <3>1. \A m \in Real(s.msgs) : m.n <= sent'
      BY <1>1 DEF FileInv, Numbered
    <3> QED BY <1>1, <2>1, <3>1, SavedFile
  <2>2. CASE CannotSave
    BY <1>1, <2>2, SameFile DEF CannotSave
  <2> QED BY <2>1, <2>2
<1> QED BY <1>1, <1>2 DEF StepKeeps, FileInv

\* Nothing is written and nothing dropped.
LEMMA NothingMoves ==
    ASSUME All, UNCHANGED <<live, disk, saved, sent>>, archive \subseteq archive'
    PROVE  FileInv' /\ StepKeeps
<1>1. sent \in Nat
  BY Given
<1>2. FileInv'
  BY <1>1, SameFile
<1> QED BY <1>2 DEF StepKeeps

\* The job lets go and both sessions stay, or the archive call goes on.
LEMMA QuietRows ==
    ASSUME All, TurnFails \/ IdleGivesUp \/ CapGivesUp \/ NewKeepsHistory
    PROVE  KeptInv' /\ StepKeeps
<1>1. UNCHANGED <<live, disk, archive, saved, sent>> /\ holder' = "none"
  BY DEF TurnFails, IdleGivesUp, CapGivesUp, NewKeepsHistory, Release
<1> QED BY <1>1, NothingMoves, FreeJob, KeptNext

LEMMA CommitRows == ASSUME All, Commit PROVE KeptInv' /\ StepKeeps
<1>1. /\ UNCHANGED <<live, disk, holder, boundary, batch, snapshot, checkpoint, late, saved, sent>>
      /\ archive' = archive \cup batch
  BY DEF Commit, work
<1>2. JobInv
  BY Given
<1>3. JobInv'
  BY <1>1, <1>2 DEF JobInv
<1> QED BY <1>1, <1>3, NothingMoves, KeptNext

\* A crash, or a compaction that starts from the file and finds nothing to do.
LEMMA FileRows == ASSUME All, Crash \/ IdleFindsNone PROVE KeptInv' /\ StepKeeps
<1>1. live' = disk /\ UNCHANGED <<disk, archive, saved, sent>>
  BY DEF Crash, IdleFindsNone
<1>2. holder' \notin {"idle", "new"}
  BY DEF Crash, IdleFindsNone, Release, Free
<1> QED BY <1>1, <1>2, BackToFile, FreeJob, KeptNext

\* The file cap starts from the file as well, with its flag brought up to date.
LEMMA CapRows == ASSUME All, CapStarts \/ CapFindsNone PROVE KeptInv' /\ StepKeeps
<1>1. /\ live' = CapChecked(disk) /\ (Saves(CapChecked(disk)) \/ CannotSave)
      /\ UNCHANGED <<archive, sent>>
  BY DEF CapStarts, CapFindsNone
<1>2. holder' \notin {"idle", "new"}
  BY DEF CapStarts, CapFindsNone, Free, Take
<1>3. CapChecked(disk).msgs = disk.msgs
  BY Given, CapCheckedRows
<1> QED BY <1>1, <1>2, <1>3, FlaggedFile, FreeJob, KeptNext

LEMMA CompactStartsRows == ASSUME All, CompactStarts PROVE KeptInv' /\ StepKeeps
<1>1. /\ live' = disk /\ snapshot' = disk /\ holder' = "idle"
      /\ UNCHANGED <<disk, archive, saved, sent>>
  BY DEF CompactStarts, Take
<1>2. JobInv'
  BY <1>1 DEF JobInv
<1> QED BY <1>1, <1>2, BackToFile, KeptNext

LEMMA NewStartsRows == ASSUME All, NewStarts PROVE KeptInv' /\ StepKeeps
<1>1. /\ snapshot' = live /\ batch' = Visible(live) /\ holder' = "new"
      /\ UNCHANGED <<live, disk, archive, saved, sent>>
  BY DEF NewStarts, Take, Ask
<1>2. Sound(live, archive)
  BY InvParts DEF All
<1>3. live.msgs \in Seq(Rows) /\ live.mark \in Nat /\ live.mark <= Len(live.msgs)
  BY <1>2 DEF Sound, Good, Sessions, Rows
<1>4. Real(live.msgs) = Hidden(live) \cup Visible(live)
  BY <1>3, RealSplit DEF Hidden, Visible
<1>5. Hidden(live) \subseteq archive
  BY <1>2, <1>3, CoveredPrefix DEF Hidden, Sound, Good
<1>6. JobInv'
  BY <1>1, <1>4, <1>5 DEF JobInv
<1> QED BY <1>1, <1>6, NothingMoves, KeptNext

\* The flag of the file cap is no row.
LEMMA MarkOverCapRows == ASSUME All, MarkOverCap PROVE KeptInv' /\ StepKeeps
<1> DEFINE s == CapChecked(live)
<1>1. /\ live' = s /\ (Saves(s) \/ CannotSave)
      /\ UNCHANGED <<archive, holder, boundary, batch, snapshot, checkpoint, late, sent>>
  BY DEF MarkOverCap, work
<1>2. FileInv /\ JobInv /\ sent \in Nat
  BY Given
<1>3. s.msgs = live.msgs
  BY Given, CapCheckedRows
<1> HIDE DEF s
<1>4. FileInv'
  <2>1. CASE Saves(s)
    <3>1. \A m \in Real(s.msgs) : m.n <= sent'
      BY <1>1, <1>2, <1>3 DEF FileInv, Numbered
    <3> QED BY <1>1, <1>2, <2>1, <3>1, SavedFile
  <2>2. CASE CannotSave
    BY <1>1, <1>2, <1>3, <2>2, SameFile DEF CannotSave
  <2> QED BY <1>1, <2>1, <2>2
<1>5. JobInv'
  BY <1>1, <1>2, <1>3 DEF JobInv
<1>6. StepKeeps
  BY <1>1, <1>3 DEF StepKeeps
<1> QED BY <1>4, <1>5, <1>6, KeptNext

\* A job with the lock puts a new live object in place and saves it.
LEMMA SavedRows ==
    ASSUME All, NEW s, live' = s, Saves(s), UNCHANGED <<archive, sent>>, holder' = "none",
           Real(s.msgs) \subseteq Real(live.msgs) \cup Real(disk.msgs),
           saved \cap Real(live.msgs) \subseteq archive \cup Real(s.msgs) \cup MayDrop
    PROVE  KeptInv' /\ StepKeeps
<1>1. FileInv /\ sent \in Nat
  BY Given
<1>2. \A m \in Real(s.msgs) : m.n <= sent'
  BY <1>1 DEF FileInv, Numbered
<1>3. FileInv'
  BY <1>1, <1>2, SavedFile
<1>4. JobInv'
  BY FreeJob
<1> QED BY <1>3, <1>4, KeptNext DEF StepKeeps

\* The rows of a checkpoint are the rows it was made of.
LEMMA CheckpointRows ==
    ASSUME NEW s \in Sessions, NEW k \in Nat, k <= Len(s.msgs)
    PROVE  Real(CommitCheckpoint(s, k).msgs) = Real(s.msgs)
<1>1. s.msgs \in Seq(Rows)
  BY DEF Sessions, Rows
<1>2. CommitCheckpoint(s, k).msgs = InsertAt(s.msgs, k + 1, Mark)
  BY DEF CommitCheckpoint, Sessions
<1> QED BY <1>1, <1>2, RealInsert

\* Pruning a session drops only rows before the cut.
LEMMA PruneRows ==
    ASSUME NEW s, NEW A, Sound(s, A), NEW k \in Nat, k <= Len(s.msgs), Covered(s.msgs, k, A)
    PROVE  /\ Real(Prune(s, k).msgs) \subseteq Real(s.msgs)
           /\ Real(s.msgs) \subseteq A \cup Real(Prune(s, k).msgs)
<1>1. s \in Sessions /\ s.msgs \in Seq(Rows)
  BY DEF Sound, Sessions, Rows
<1>2. Prune(s, k).msgs = SubSeq(s.msgs, k + 1, Len(s.msgs))
  BY <1>1 DEF Prune, Sessions
<1>3. Real(SubSeq(s.msgs, 1, k)) \subseteq A
  BY <1>1, CoveredPrefix
<1> QED BY <1>1, <1>2, <1>3, RealSplit

LEMMA IdleCommitsRows == ASSUME All, IdleCommits PROVE KeptInv' /\ StepKeeps
<1>1. /\ live' = IdleSummary /\ Saves(IdleSummary) /\ UNCHANGED <<archive, sent>>
      /\ holder' = "none"
  BY DEF IdleCommits, Release
<1>2. boundary \in Nat /\ boundary <= Len(live.msgs)
  BY CapturedIsArchived DEF All, IdleCommits
<1>3. Real(IdleSummary.msgs) = Real(live.msgs)
  BY <1>2, Given, CheckpointRows DEF IdleSummary
<1> HIDE DEF IdleSummary
<1> QED BY <1>1, <1>3, SavedRows

LEMMA CapPrunesRows == ASSUME All, CapPrunes PROVE KeptInv' /\ StepKeeps
<1> DEFINE c == CommitCheckpoint(live, boundary)
<1>1. /\ live' = CapSummary /\ Saves(CapSummary) /\ UNCHANGED <<archive, sent>>
      /\ holder' = "none"
  BY DEF CapPrunes, Release
<1>2. /\ Sound(c, archive) /\ boundary \in Nat /\ boundary <= Len(live.msgs)
      /\ Len(c.msgs) = Len(live.msgs) + 1
  BY CapturedIsArchived DEF All, CapPrunes
<1>3. Real(c.msgs) = Real(live.msgs)
  BY <1>2, Given, CheckpointRows
<1>4. c.mark = boundary
  BY Given DEF CommitCheckpoint, Sessions
<1>5. CapSummary = Prune(c, boundary)
  BY DEF CapSummary
<1> HIDE DEF c
<1>6. Covered(c.msgs, boundary, archive) /\ boundary <= Len(c.msgs)
  BY <1>2, <1>4 DEF Sound, Good
<1>7. /\ Real(CapSummary.msgs) \subseteq Real(live.msgs)
      /\ Real(live.msgs) \subseteq archive \cup Real(CapSummary.msgs)
  BY <1>2, <1>3, <1>5, <1>6, PruneRows
<1> QED BY <1>1, <1>7, SavedRows

LEMMA CapPrunesNowRows == ASSUME All, CapPrunesNow PROVE KeptInv' /\ StepKeeps
<1>1. PICK s \in {Prune(disk, disk.mark), CapChecked(disk)} : live' = s /\ Saves(s)
  BY DEF CapPrunesNow
<1>2. holder' = "none" /\ UNCHANGED <<archive, sent>>
  BY DEF CapPrunesNow, Free
<1>3. Sound(disk, archive) /\ FileInv
  BY Given, InvParts DEF All
<1>4. /\ Real(s.msgs) \subseteq Real(disk.msgs)
      /\ Real(disk.msgs) \subseteq archive \cup Real(s.msgs)
  <2>1. CASE s = Prune(disk, disk.mark)
    BY <1>3, <2>1, PruneRows DEF Sound, Good, Sessions
  <2>2. CASE s = CapChecked(disk)
    BY <2>2, Given, CapCheckedRows
  <2> QED BY <1>1, <2>1, <2>2
<1>5. saved \cap Real(live.msgs) \subseteq archive \cup Real(s.msgs) \cup MayDrop
  BY <1>3, <1>4 DEF FileInv
<1> QED BY <1>1, <1>2, <1>4, <1>5, SavedRows

LEMMA NewClearsRows == ASSUME All, NewClears PROVE KeptInv' /\ StepKeeps
<1>1. /\ live' = Clear(live) /\ Saves(Clear(live)) /\ UNCHANGED <<archive, sent>>
      /\ holder' = "none" /\ holder = "new" /\ stage = "committed"
  BY DEF NewClears, Release, Confirmed
<1>2. Clear(live).msgs = <<>>
  BY Given DEF Clear, Sessions
<1>3. Real(Clear(live).msgs) = {}
  BY <1>2 DEF Real
<1>4. JobInv /\ batch \subseteq archive
  BY <1>1, Given, InvParts DEF All
<1>5. Real(live.msgs) \subseteq archive \cup MayDrop
  BY <1>1, <1>4 DEF JobInv, MayDrop
<1> QED BY <1>1, <1>3, <1>5, SavedRows

\* The rollback copy lacks only what came in since.
LEMMA RollBackRows == ASSUME All, IdleRollsBack \/ NewCannotSave PROVE KeptInv' /\ StepKeeps
<1>1. /\ live' = snapshot /\ UNCHANGED <<disk, archive, saved, sent>>
      /\ holder' = "none" /\ holder \in {"idle", "new"}
  BY DEF IdleRollsBack, NewCannotSave, Release
<1>2. JobInv /\ sent \in Nat
  BY Given
<1>3. FileInv'
  BY <1>1, <1>2, SameFile DEF JobInv
<1>4. StepKeeps
  BY <1>1, <1>2 DEF StepKeeps, JobInv, MayDrop
<1> QED BY <1>1, <1>3, <1>4, FreeJob, KeptNext

LEMMA TurnStartsRows == ASSUME All, TurnStarts PROVE KeptInv' /\ StepKeeps
<1> DEFINE s == [AddMessage(live, "user") EXCEPT !.pending = TRUE]
<1>1. /\ sent < MaxMessages /\ sent' = sent + 1 /\ live' = s /\ archive' = archive
      /\ Saves(s) \/ CannotSave
      /\ holder' \in {"turn", "none"}
  BY DEF TurnStarts, Free
<1>2. s.msgs = AddMessage(live, "user").msgs
  BY Given DEF AddMessage, Sessions
<1> HIDE DEF s
<1>3. FileInv' /\ StepKeeps
  BY <1>1, <1>2, RowAdded
<1> QED BY <1>1, <1>3, FreeJob, KeptNext

LEMMA TurnEndsRows == ASSUME All, TurnEnds PROVE KeptInv' /\ StepKeeps
<1> DEFINE s == [AddMessage(live, "reply") EXCEPT !.pending = FALSE]
<1>1. checkpoint = "none"
  BY InvParts DEF All
<1>2. TurnSaves = s
  BY <1>1 DEF TurnSaves
<1>3. /\ sent < MaxMessages /\ sent' = sent + 1 /\ live' = s /\ archive' = archive
      /\ Saves(s) /\ holder' = "none"
  BY <1>2 DEF TurnEnds, Release
<1>4. s.msgs = AddMessage(live, "reply").msgs
  BY Given DEF AddMessage, Sessions
<1> HIDE DEF s
<1>5. FileInv' /\ StepKeeps
  BY <1>3, <1>4, RowAdded
<1> QED BY <1>3, <1>5, FreeJob, KeptNext

LEMMA TurnRestoresRows == ASSUME All, TurnRestores PROVE KeptInv' /\ StepKeeps
<1> DEFINE s == Restored(live)
           r == [AddMessage(live, "reply") EXCEPT !.pending = FALSE]
           q == [live EXCEPT !.pending = FALSE]
<1>1. /\ sent < MaxMessages /\ sent' = sent + (Len(s.msgs) - Len(live.msgs))
      /\ live' = s /\ archive' = archive /\ holder' = "none"
      /\ Saves(s) \/ CannotSave
  BY DEF TurnRestores, Free
<1>2. /\ live \in Sessions /\ live.msgs \in Seq(Rows) /\ sent \in Nat /\ FileInv
      /\ Len(live.msgs) \in Nat
  BY Given
<1>3. s = r \/ s = q
  BY DEF Restored
<1>4. r.msgs = AddMessage(live, "reply").msgs /\ q.msgs = live.msgs
  BY <1>2 DEF AddMessage, Sessions
<1>5. Len(AddMessage(live, "reply").msgs) = Len(live.msgs) + 1
  BY <1>2 DEF AddMessage, Sessions
<1> HIDE DEF s, r, q
<1>6. CASE s = r
  <2>1. s.msgs = AddMessage(live, "reply").msgs
    BY <1>4, <1>6
  <2>2. Len(s.msgs) = Len(live.msgs) + 1
    BY <1>5, <2>1
  <2>3. sent' = sent + 1
    BY <1>1, <1>2, <2>2
  <2>4. FileInv' /\ StepKeeps
    BY <1>1, <2>1, <2>3, RowAdded
  <2> QED BY <1>1, <2>4, FreeJob, KeptNext
<1>7. CASE s = q
  <2>1. sent' = sent /\ s.msgs = live.msgs
    BY <1>1, <1>2, <1>4, <1>7
  <2>2. \A m \in Real(s.msgs) : m.n <= sent'
    BY <1>2, <2>1 DEF FileInv, Numbered
  <2>3. FileInv'
    <3>1. CASE Saves(s)
      BY <1>1, <1>2, <2>1, <2>2, <3>1, SavedFile
    <3>2. CASE CannotSave
      BY <1>1, <1>2, <2>1, <3>2, SameFile DEF CannotSave
    <3> QED BY <1>1, <3>1, <3>2
  <2>4. StepKeeps
    BY <1>1, <2>1 DEF StepKeeps
  <2> QED BY <1>1, <2>3, <2>4, FreeJob, KeptNext
<1> QED BY <1>3, <1>6, <1>7

----------------------------------------------------------------------------
(* The theorems.                                                           *)

LEMMA InitKept == Init => KeptInv
<1> SUFFICES ASSUME Init PROVE KeptInv
  OBVIOUS
<1>1. PICK k \in 0 .. Opening : live = Opened(k)
  BY DEF Init
<1>2. \A m \in Real(live.msgs) : m.n <= Opening
  BY <1>1, OpenedRows, ArchiveAssumption
<1> QED BY <1>2 DEF Init, KeptInv, Numbered

\* Without compaction inside a turn, no step drops a row it may not drop.
LEMMA NextKept == ~CompactInTurn /\ All /\ [Next]_vars => KeptInv' /\ StepKeeps
<1> SUFFICES ASSUME ~CompactInTurn, All, [Next]_vars PROVE KeptInv' /\ StepKeeps
  OBVIOUS
<1>1. CASE Turn
  <2>1. \A where \in {"before", "after"} : ~TurnCompacts(where)
    BY DEF TurnCompacts
  <2> QED BY <1>1, <2>1, TurnRestoresRows, TurnStartsRows, TurnEndsRows, QuietRows DEF Turn
<1>2. CASE Idle
  BY <1>2, CompactStartsRows, FileRows, IdleCommitsRows, RollBackRows, QuietRows
     DEF Idle, IdleStarts
<1>3. CASE FileCap
  BY <1>3, CapRows, MarkOverCapRows, CapPrunesNowRows, CapPrunesRows, QuietRows DEF FileCap
<1>4. CASE New
  BY <1>4, NewStartsRows, NewClearsRows, RollBackRows, QuietRows DEF New
<1>5. CASE UNCHANGED vars
  BY <1>5 DEF vars, All, KeptInv, Numbered, StepKeeps
<1> QED BY <1>1, <1>2, <1>3, <1>4, <1>5, DeliverRows, FileRows, CommitRows DEF Next

\* A step that keeps what it may not drop loses only what came in late.
LEMMA KeepsEnough ==
    ASSUME All, StepKeeps
    PROVE  saved \cap Kept \subseteq Kept' \cup MayDrop
BY DEF StepKeeps, Kept

\* compact_idle_session, enforce_file_cap, /new, a turn or a crash drops no message that was in the
\* file and unarchived when the lock was taken; only what was delivered during the await can go.
THEOREM OnlyLateDeliveriesAreLost == ~CompactInTurn => (Spec => OnlyLateIsLost)
<1> SUFFICES ASSUME ~CompactInTurn PROVE Spec => OnlyLateIsLost
  OBVIOUS
<1>1. Init => All
  BY InitInv, InitKept DEF All
<1>2. All /\ [Next]_vars => All'
  BY NextInv, NextKept DEF All
<1>3. All /\ [Next]_vars => [(saved \cap Kept) \ Kept' \subseteq late]_vars
  <2> SUFFICES ASSUME All, [Next]_vars PROVE (saved \cap Kept) \ Kept' \subseteq late
    OBVIOUS
  <2>1. saved \cap Kept \subseteq Kept' \cup MayDrop
    BY NextKept, KeepsEnough
  <2> QED BY <2>1 DEF MayDrop
<1> QED BY <1>1, <1>2, <1>3, PTL DEF Spec, OnlyLateIsLost

\* enforce_file_cap drops nothing that was ever saved, not even what was delivered during its own
\* await.
THEOREM FileCapLosesNothing == ~CompactInTurn => (Spec => CapLosesNothing)
<1> SUFFICES ASSUME ~CompactInTurn PROVE Spec => CapLosesNothing
  OBVIOUS
<1>1. Init => All
  BY InitInv, InitKept DEF All
<1>2. All /\ [Next]_vars => All'
  BY NextInv, NextKept DEF All
<1>3. All /\ [Next]_vars => [holder = "cap" => saved \cap Kept \subseteq Kept']_vars
  <2> SUFFICES ASSUME All, [Next]_vars, holder = "cap" PROVE saved \cap Kept \subseteq Kept'
    OBVIOUS
  <2>1. saved \cap Kept \subseteq Kept' \cup MayDrop
    BY NextKept, KeepsEnough
  <2> QED BY <2>1 DEF MayDrop
<1> QED BY <1>1, <1>2, <1>3, PTL DEF Spec, CapLosesNothing

\* What a delivery, a failed save or a reload may leave apart: a row that was ever saved and is in
\* the live object is in the file or archived, and a rollback copy lacks only late rows.
THEOREM RowsAreKept == ~CompactInTurn => (Spec => []KeptInv)
<1> SUFFICES ASSUME ~CompactInTurn PROVE Spec => []KeptInv
  OBVIOUS
<1>1. Init => All
  BY InitInv, InitKept DEF All
<1>2. All /\ [Next]_vars => All'
  BY NextInv, NextKept DEF All
<1>3. All => KeptInv
  BY DEF All
<1> QED BY <1>1, <1>2, <1>3, PTL DEF Spec

----------------------------------------------------------------------------
(* Turns that compact their own history.                                   *)

Plain(s) == Sound(s, Message)

\* The boundary hides the same rows in the live object, the file and a rollback copy; what was
\* captured is hidden already or in the batch; and while nobody writes beside a turn its input is
\* the last row, and archived if the turn's summary comes after it.
Shape ==
    /\ Plain(live) /\ Plain(disk) /\ Plain(snapshot)
    /\ holder \in {"idle", "cap"} => boundary <= Len(live.msgs)
    /\ holder = "turn" => boundary \in 1 .. Len(live.msgs) /\ live.msgs[boundary] \in Message
SameHidden ==
    /\ Hidden(disk) = Hidden(live)
    /\ holder \in {"idle", "new"} => Hidden(snapshot) = Hidden(live)
InBatch ==
    /\ holder \in {"idle", "cap"} => Covered(live.msgs, boundary, Hidden(live) \cup batch)
    /\ stage = "committed" => batch \subseteq archive
OwnInput ==
    /\ checkpoint # "none" => holder = "turn" /\ batch \subseteq archive
    /\ holder = "turn" /\ late = {} =>
        /\ boundary = Len(live.msgs)
        /\ Covered(live.msgs, boundary - 1, Hidden(live) \cup batch \cup LeftOut)
        /\ checkpoint = "after" => live.msgs[boundary] \in archive
TurnInv == TypeOK /\ Shape /\ SameHidden /\ InBatch /\ OwnInput

HidesOwn == late = {} => Hidden(live') \ archive' \subseteq (Hidden(live) \ archive) \cup LeftOut

LEMMA PlainRows ==
    ASSUME NEW s, Plain(s)
    PROVE  /\ s \in Sessions /\ s.msgs \in Seq(Rows) /\ Len(s.msgs) \in Nat
           /\ s.mark \in Nat /\ s.mark <= Len(s.msgs)
           /\ Hidden(s) = {s.msgs[i] : i \in 1 .. s.mark} \ {Mark}
<1>1. /\ s \in Sessions /\ s.msgs \in Seq(Rows) /\ Len(s.msgs) \in Nat
      /\ s.mark \in Nat /\ s.mark <= Len(s.msgs)
  BY DEF Plain, Sound, Good, Sessions, Rows
<1> QED BY <1>1, RealSub DEF Hidden

\* A session with more rows behind the old ones hides the same.
LEMMA LongerHidesSame ==
    ASSUME NEW s, Plain(s), NEW t, Plain(t), t.mark = s.mark,
           \A i \in 1 .. Len(s.msgs) : t.msgs[i] = s.msgs[i]
    PROVE  Hidden(t) = Hidden(s)
<1>1. 1 .. s.mark \subseteq 1 .. Len(s.msgs)
  BY PlainRows
<1>2. {t.msgs[i] : i \in 1 .. s.mark} = {s.msgs[i] : i \in 1 .. s.mark}
  BY <1>1
<1> QED BY <1>2, PlainRows

\* t is the live object with one more row, or none.
Longer(t) ==
    /\ Plain(t) /\ Hidden(t) = Hidden(live) /\ Len(t.msgs) - Len(live.msgs) \in {0, 1}
    /\ \A i \in 1 .. Len(live.msgs) : t.msgs[i] = live.msgs[i]

LEMMA AddedRow ==
    ASSUME Plain(live), NEW kind \in {"user", "reply", "delivery"}, NEW flag \in BOOLEAN,
           sent \in 0 .. MaxMessages, sent < MaxMessages,
           NEW t, t \in {AddMessage(live, kind), [AddMessage(live, kind) EXCEPT !.pending = flag]}
    PROVE  /\ Longer(t) /\ Len(t.msgs) = Len(live.msgs) + 1
           /\ t.msgs[Len(live.msgs) + 1] \in Message
<1> DEFINE r == AddMessage(live, kind)
<1>1. /\ Plain(r) /\ Len(r.msgs) = Len(live.msgs) + 1
      /\ \A i \in 1 .. Len(live.msgs) : r.msgs[i] = live.msgs[i]
      /\ r.msgs[Len(live.msgs) + 1] \in Message
  BY AddIsSound DEF Plain
<1>2. r.mark = live.mark
  BY PlainRows DEF AddMessage, Sessions
<1> HIDE DEF r
<1>3. Plain(t) /\ t.msgs = r.msgs /\ t.mark = live.mark
  BY <1>1, <1>2, FlagIsSound DEF Plain, Sound, Sessions, r
<1>4. Hidden(t) = Hidden(live)
  BY <1>1, <1>3, LongerHidesSame
<1> QED BY <1>1, <1>3, <1>4, PlainRows DEF Longer

LEMMA FlaggedRow ==
    ASSUME Plain(live), NEW flag \in BOOLEAN
    PROVE  Longer([live EXCEPT !.pending = flag])
<1> DEFINE t == [live EXCEPT !.pending = flag]
<1>1. Plain(t) /\ t.msgs = live.msgs /\ t.mark = live.mark
  BY FlagIsSound DEF Plain, Sound, Sessions
<1> HIDE DEF t
<1>2. Hidden(t) = Hidden(live)
  BY <1>1, LongerHidesSame
<1> QED BY <1>1, <1>2, PlainRows DEF Longer, t

\* A checkpoint hides the rows before it, pruning and clearing hide none.
LEMMA CheckpointHides ==
    ASSUME NEW s, Plain(s), NEW k \in Nat, k <= Len(s.msgs)
    PROVE  /\ Plain(CommitCheckpoint(s, k))
           /\ Len(CommitCheckpoint(s, k).msgs) = Len(s.msgs) + 1
           /\ Hidden(CommitCheckpoint(s, k)) = {s.msgs[i] : i \in 1 .. k} \ {Mark}
<1> DEFINE t == InsertAt(s.msgs, k + 1, Mark)
           c == CommitCheckpoint(s, k)
<1>1. s.msgs \in Seq(Rows) /\ s \in Sessions
  BY PlainRows
<1>2. Covered(s.msgs, k, Message)
  BY <1>1 DEF Covered, Rows
<1>3. Plain(c) /\ Len(c.msgs) = Len(s.msgs) + 1
  BY <1>2, CheckpointIsSound DEF Plain
<1>4. c.msgs = t /\ c.mark = k
  BY <1>1 DEF CommitCheckpoint, Sessions
<1>5. \A i \in 1 .. k : t[i] = s.msgs[i]
  BY <1>1, InsertKeepsPrefix
<1> HIDE DEF t, c
<1>6. {c.msgs[i] : i \in 1 .. c.mark} = {s.msgs[i] : i \in 1 .. k}
  BY <1>4, <1>5
<1>7. Hidden(c) = {s.msgs[i] : i \in 1 .. k} \ {Mark}
  BY <1>3, <1>6, PlainRows
<1> QED BY <1>3, <1>7 DEF c

LEMMA NoneHidden == ASSUME NEW s, Plain(s), s.mark = 0 PROVE Hidden(s) = {}
BY PlainRows

LEMMA PrunedHides ==
    ASSUME NEW s, Plain(s), NEW k \in Nat, k <= Len(s.msgs)
    PROVE  Plain(Prune(s, k)) /\ Hidden(Prune(s, k)) = {}
<1>1. s \in Sessions
  BY PlainRows
<1>2. Plain(Prune(s, k))
  BY <1>1, PruneIsSound DEF Plain
<1>3. Prune(s, k).mark = 0
  BY <1>1 DEF Prune, Sessions
<1> QED BY <1>2, <1>3, NoneHidden

LEMMA ClearedHides == ASSUME NEW s, Plain(s) PROVE Plain(Clear(s)) /\ Hidden(Clear(s)) = {}
<1>1. s \in Sessions
  BY PlainRows
<1>2. Plain(Clear(s))
  BY <1>1, ClearIsSound DEF Plain
<1>3. Clear(s).mark = 0
  BY <1>1 DEF Clear, Sessions
<1> QED BY <1>2, <1>3, NoneHidden

\* The flag of the file cap hides nothing and moves no row.
LEMMA CapCheckedHides ==
    ASSUME NEW s, Plain(s)
    PROVE  /\ Plain(CapChecked(s)) /\ Hidden(CapChecked(s)) = Hidden(s)
           /\ CapChecked(s).msgs = s.msgs /\ CapChecked(s).mark = s.mark
<1>1. /\ Plain(CapChecked(s)) /\ CapChecked(s).msgs = s.msgs /\ CapChecked(s).mark = s.mark
  BY PlainRows, CapCheckedIsSound, CapCheckedRows DEF Plain
<1> QED BY <1>1 DEF Hidden

\* What get_history leaves out of the visible rows is ahead of the first row of the user.
LEMMA HistoryOrAhead ==
    ASSUME NEW s, Plain(s)
    PROVE  Visible(s) \subseteq History(s) \cup Ahead(s)
<1>1. s.msgs \in Seq(Rows) /\ s.mark \in Nat /\ Len(s.msgs) \in Nat
  BY PlainRows
<1>2. s.mark + 1 \in Nat /\ s.mark + 1 >= 1 /\ Len(s.msgs) <= Len(s.msgs)
  BY <1>1
<1>3. Visible(s) = {s.msgs[i] : i \in s.mark + 1 .. Len(s.msgs)} \ {Mark}
  BY <1>1, <1>2, RealSub DEF Visible
<1> SUFFICES ASSUME NEW i \in s.mark + 1 .. Len(s.msgs), s.msgs[i] # Mark,
                    s.msgs[i] \notin History(s)
             PROVE  s.msgs[i] \in Ahead(s)
  BY <1>3
<1>4. ~Replayed(s, i)
  BY DEF History
<1>5. /\ \A k \in s.mark + 1 .. i : ~UserRole(s, k)
      /\ \E k \in s.mark + 1 .. Len(s.msgs) : UserRole(s, k)
  BY <1>4 DEF Replayed
<1>6. \E k \in i + 1 .. Len(s.msgs) : UserRole(s, k)
  <2>1. PICK k \in s.mark + 1 .. Len(s.msgs) : UserRole(s, k)
    BY <1>5
  <2>2. k \notin s.mark + 1 .. i
    BY <1>5, <2>1
  <2>3. k \in i + 1 .. Len(s.msgs)
    BY <1>1, <2>2
  <2> QED BY <2>1, <2>3
<1> QED BY <1>5, <1>6 DEF Ahead

\* What is ahead depends on the rows and the boundary alone.
LEMMA AheadSame ==
    ASSUME NEW s, NEW t, s.msgs = t.msgs, s.mark = t.mark
    PROVE  Ahead(s) = Ahead(t)
BY DEF Ahead, UserRole

LEMMA LeftOutSame ==
    ASSUME Plain(live), Plain(live'), live'.msgs = live.msgs, live'.mark = live.mark,
           UNCHANGED <<holder, boundary>>
    PROVE  LeftOut' = LeftOut
<1> DEFINE rows == SubSeq(live.msgs, 1, boundary - 1)
<1>1. Accepted.msgs = rows /\ Accepted.mark = live.mark
  <2>1. live \in Sessions
    BY PlainRows
  <2> QED BY <2>1 DEF Accepted, Sessions
<1>2. Accepted' = [live' EXCEPT !.msgs = SubSeq(live'.msgs, 1, boundary' - 1)]
  BY DEF Accepted
<1>3. live' \in Sessions
  BY PlainRows
<1>4. (Accepted').msgs = rows /\ (Accepted').mark = live.mark
  BY <1>2, <1>3 DEF Sessions
<1>5. Ahead(Accepted') = Ahead(Accepted)
  BY <1>1, <1>4, AheadSame
<1>6. LeftOut' = IF holder' = "turn" THEN Ahead(Accepted') ELSE {}
  BY DEF LeftOut
<1> QED BY <1>5, <1>6 DEF LeftOut

\* Right after a turn has put its input down, its accepted history is the transcript before it.
LEMMA LeftOutAtStart ==
    ASSUME Plain(live), Plain(live'), NEW m \in Message, live'.msgs = Append(live.msgs, m),
           live'.mark = live.mark, holder' = "turn", boundary' = Len(live'.msgs)
    PROVE  LeftOut' = Ahead(live)
<1>1. Accepted' = [live' EXCEPT !.msgs = SubSeq(live'.msgs, 1, boundary' - 1)]
  BY DEF Accepted
<1>2. live' \in Sessions /\ live.msgs \in Seq(Rows) /\ m \in Rows
  BY PlainRows DEF Rows
<1>3. SubSeq(live'.msgs, 1, boundary' - 1) = live.msgs
  <2>1. boundary' - 1 = Len(live.msgs)
    BY <1>2
  <2> QED BY <1>2, <2>1
<1>4. (Accepted').msgs = live.msgs /\ (Accepted').mark = live.mark
  BY <1>1, <1>2, <1>3 DEF Sessions
<1>5. Ahead(Accepted') = Ahead(live)
  BY <1>4, AheadSame
<1> QED BY <1>5 DEF LeftOut

----------------------------------------------------------------------------
(* The steps.                                                              *)

LEMMA TurnGiven ==
    ASSUME TurnInv
    PROVE  /\ Plain(live) /\ Plain(disk) /\ Plain(snapshot)
           /\ archive \subseteq Message /\ batch \subseteq Message
           /\ late \subseteq Message /\ saved \subseteq Message
           /\ holder \in Jobs \cup {"none"} /\ stage \in {"idle", "running", "asking", "committed"}
           /\ checkpoint \in {"none", "before", "after"}
           /\ boundary \in Nat /\ sent \in 0 .. MaxMessages
           /\ Free => stage = "idle" /\ boundary = 0 /\ late = {}
BY DEF TurnInv, TypeOK, Shape

\* The types of the next state, from those of its parts.
LEMMA TypesNext ==
    ASSUME Plain(live'), Plain(disk'), Plain(snapshot'),
           archive' \subseteq Message, batch' \subseteq Message,
           late' \subseteq Message, saved' \subseteq Message,
           holder' \in Jobs \cup {"none"}, stage' \in {"idle", "running", "asking", "committed"},
           checkpoint' \in {"none", "before", "after"},
           boundary' \in Nat, sent' \in 0 .. MaxMessages,
           holder' = "none" => stage' = "idle" /\ boundary' = 0 /\ late' = {}
    PROVE  TypeOK'
BY DEF TypeOK, Free, Plain, Sound

LEMMA LettingGo ==
    ASSUME Release, Plain(live'), Plain(disk'), Hidden(disk') = Hidden(live'),
           archive' \subseteq Message, saved' \subseteq Message, sent' \in 0 .. MaxMessages
    PROVE  TurnInv'
<1>1. /\ holder' = "none" /\ stage' = "idle" /\ late' = {} /\ boundary' = 0 /\ batch' = {}
      /\ checkpoint' = "none" /\ Plain(snapshot')
  BY FreshIsSound DEF Release, Plain
<1>2. TypeOK'
  BY <1>1, TypesNext
<1> QED BY <1>1, <1>2 DEF TurnInv, Shape, SameHidden, InBatch, OwnInput

\* A save leaves a well-formed file.
LEMMA SavedPlain ==
    ASSUME NEW s, Plain(s), Saves(s), saved \subseteq Message
    PROVE  Plain(disk') /\ disk' = s /\ saved' \subseteq Message
BY SaveIsSound DEF Plain, Saves

LEMMA TurnInit == Init => TurnInv
<1> SUFFICES ASSUME Init PROVE TurnInv
  OBVIOUS
<1>1. Plain(live) /\ Plain(Fresh) /\ saved \subseteq Message /\ sent \in 0 .. MaxMessages
  <2>1. PICK k \in 0 .. Opening : live = Opened(k)
    BY DEF Init
  <2>2. live \in Sessions /\ live.mark = 0
    BY <2>1, OpenedRows
  <2>3. Len(live.msgs) \in Nat /\ live.msgs \in Seq(Rows)
    BY <2>2 DEF Sessions, Rows
  <2>4. Plain(live) /\ Plain(Fresh)
    BY <2>2, <2>3, FreshIsSound DEF Plain, Sound, Good, Covered
  <2> QED BY <2>3, <2>4, RealRows, ArchiveAssumption DEF Init
<1>2. /\ disk = live /\ snapshot = Fresh /\ holder = "none" /\ stage = "idle"
      /\ boundary = 0 /\ batch = {} /\ archive = {} /\ late = {} /\ checkpoint = "none"
  BY DEF Init
<1>3. TypeOK
  BY <1>1, <1>2 DEF TypeOK, Free, Plain, Sound
<1> QED BY <1>1, <1>2, <1>3 DEF TurnInv, Shape, SameHidden, InBatch, OwnInput

\* Appending keeps every captured prefix; beside a turn it is late.
LEMMA TurnDeliver == ASSUME TurnInv, Deliver PROVE TurnInv' /\ HidesOwn
<1> DEFINE s == AddMessage(live, "delivery")
<1>1. /\ sent < MaxMessages /\ sent' = sent + 1 /\ live' = s /\ (Saves(s) \/ CannotSave)
      /\ late' = IF Free THEN {} ELSE late \cup {s.msgs[Len(s.msgs)]}
      /\ UNCHANGED <<archive, holder, stage, boundary, batch, snapshot, checkpoint>>
  BY DEF Deliver, work
<1>2. /\ Longer(s) /\ Len(s.msgs) = Len(live.msgs) + 1 /\ s.msgs[Len(live.msgs) + 1] \in Message
      /\ Len(live.msgs) \in Nat
  BY <1>1, TurnGiven, AddedRow, PlainRows
<1> HIDE DEF s
<1>3. /\ Plain(s) /\ Hidden(s) = Hidden(live) /\ s.msgs[Len(s.msgs)] \in Message
      /\ \A i \in 1 .. Len(live.msgs) : s.msgs[i] = live.msgs[i]
  BY <1>2 DEF Longer
<1>4. disk' \in {disk, s} /\ saved' \subseteq Message
  BY <1>1, <1>3, TurnGiven, SavedPlain DEF CannotSave
<1>5. /\ Plain(disk') /\ Hidden(disk') = Hidden(live)
  BY <1>3, <1>4, TurnGiven DEF TurnInv, SameHidden
<1>6. sent' \in 0 .. MaxMessages
  BY <1>1, TurnGiven, ArchiveAssumption
<1>7. TypeOK'
  <2>1. late' \subseteq Message /\ (holder' = "none" => late' = {})
    BY <1>1, <1>3, TurnGiven DEF Free
  <2> QED BY <1>1, <1>3, <1>4, <1>5, <1>6, <2>1, TurnGiven, TypesNext DEF Free
<1>8. Shape'
  BY <1>1, <1>2, <1>3, <1>5, TurnGiven DEF TurnInv, Shape
<1>9. SameHidden'
  BY <1>1, <1>3, <1>5 DEF TurnInv, SameHidden
<1>10. InBatch'
  <2>1. ASSUME holder \in {"idle", "cap"}
        PROVE  Covered(s.msgs, boundary, Hidden(live) \cup batch)
    BY <1>2, <1>3, <2>1, TurnGiven DEF TurnInv, InBatch, Shape, Covered
  <2> QED BY <1>1, <1>3, <2>1 DEF TurnInv, InBatch
<1>11. OwnInput'
  <2>1. holder' = "turn" => late' # {}
    BY <1>1 DEF Free
  <2> QED BY <1>1, <2>1 DEF TurnInv, OwnInput
<1>12. HidesOwn
  BY <1>1, <1>3 DEF HidesOwn
<1> QED BY <1>7, <1>8, <1>9, <1>10, <1>11, <1>12 DEF TurnInv

LEMMA TurnMarkOverCap == ASSUME TurnInv, MarkOverCap PROVE TurnInv' /\ HidesOwn
<1> DEFINE s == CapChecked(live)
<1>1. /\ live' = s /\ (Saves(s) \/ CannotSave)
      /\ UNCHANGED <<archive, holder, stage, boundary, batch, snapshot, checkpoint, late, sent>>
  BY DEF MarkOverCap, work
<1>2. Plain(s) /\ Hidden(s) = Hidden(live) /\ s.msgs = live.msgs /\ s.mark = live.mark
  BY TurnGiven, CapCheckedHides
<1> HIDE DEF s
<1>3. disk' \in {disk, s} /\ saved' \subseteq Message
  BY <1>1, <1>2, TurnGiven, SavedPlain DEF CannotSave
<1>4. Plain(disk') /\ Hidden(disk') = Hidden(live)
  BY <1>2, <1>3, TurnGiven DEF TurnInv, SameHidden
<1>5. TypeOK'
  BY <1>1, <1>2, <1>3, <1>4, TurnGiven, TypesNext DEF Free
<1>6. LeftOut' = LeftOut
  BY <1>1, <1>2, TurnGiven, LeftOutSame
<1>7. Shape' /\ SameHidden' /\ InBatch'
  BY <1>1, <1>2, <1>4, TurnGiven DEF TurnInv, Shape, SameHidden, InBatch
<1>8. OwnInput'
  BY <1>1, <1>2, <1>6 DEF TurnInv, OwnInput
<1>9. HidesOwn
  BY <1>1, <1>2 DEF HidesOwn
<1> QED BY <1>5, <1>7, <1>8, <1>9 DEF TurnInv

LEMMA TurnCommit == ASSUME TurnInv, Commit PROVE TurnInv' /\ HidesOwn
<1>1. /\ archive' = archive \cup batch /\ stage' = "committed" /\ stage = "asking"
      /\ UNCHANGED <<live, disk, holder, boundary, batch, snapshot, checkpoint, late, saved, sent>>
  BY DEF Commit, work
<1>2. holder # "none" /\ archive' \subseteq Message
  BY <1>1, TurnGiven DEF Free
<1>3. TypeOK'
  BY <1>1, <1>2, TurnGiven, TypesNext
<1>4. HidesOwn
  BY <1>1 DEF HidesOwn
<1>5. LeftOut' = LeftOut
  BY <1>1, TurnGiven, LeftOutSame
<1>6. OwnInput'
  BY <1>1, <1>5 DEF TurnInv, OwnInput
<1> QED BY <1>1, <1>3, <1>4, <1>6, TurnGiven DEF TurnInv, Shape, SameHidden, InBatch

\* Steps that go back to what there is: the file, the rollback copy, the live object.
LEMMA TurnGoesBack ==
    ASSUME TurnInv,
           \/ Crash \/ TurnFails \/ IdleRollsBack \/ IdleGivesUp \/ CapGivesUp
           \/ NewCannotSave \/ NewKeepsHistory
    PROVE  TurnInv' /\ HidesOwn
<1>1. /\ Release /\ UNCHANGED <<disk, archive, saved, sent>>
      /\ \/ live' = live \/ live' = disk
         \/ live' = snapshot /\ holder \in {"idle", "new"}
  BY DEF Crash, TurnFails, IdleRollsBack, IdleGivesUp, CapGivesUp, NewCannotSave, NewKeepsHistory
<1>2. Plain(live') /\ Hidden(live') = Hidden(live) /\ Hidden(disk) = Hidden(live)
  BY <1>1, TurnGiven DEF TurnInv, SameHidden
<1>3. HidesOwn
  BY <1>1, <1>2 DEF HidesOwn
<1> QED BY <1>1, <1>2, <1>3, TurnGiven, LettingGo

\* Steps taken while nobody holds the lock.
LEMMA StaysFree ==
    ASSUME TurnInv, Free, Plain(live'), Plain(disk'), Hidden(disk') = Hidden(live'),
           UNCHANGED <<archive, holder, stage, boundary, batch, snapshot, checkpoint, late>>,
           saved' \subseteq Message, sent' \in 0 .. MaxMessages
    PROVE  TurnInv'
<1>1. TypeOK'
  BY TurnGiven, TypesNext DEF Free
<1>2. holder' = "none" /\ stage' = "idle" /\ checkpoint' = "none"
  BY TurnGiven DEF Free, TurnInv, OwnInput
<1> QED BY <1>1, <1>2, TurnGiven DEF TurnInv, Shape, SameHidden, InBatch, OwnInput

LEMMA TurnFindsNone ==
    ASSUME TurnInv, IdleFindsNone \/ CapFindsNone
    PROVE  TurnInv' /\ HidesOwn
<1>1. /\ Free /\ UNCHANGED sent
      /\ UNCHANGED <<archive, holder, stage, boundary, batch, snapshot, checkpoint, late>>
      /\ \/ live' = disk /\ CannotSave
         \/ live' = CapChecked(disk) /\ (Saves(CapChecked(disk)) \/ CannotSave)
  BY DEF IdleFindsNone, CapFindsNone, CannotSave, work
<1>2. Hidden(disk) = Hidden(live) /\ Plain(disk)
  BY TurnGiven DEF TurnInv, SameHidden
<1>3. Plain(CapChecked(disk)) /\ Hidden(CapChecked(disk)) = Hidden(live)
  BY <1>2, CapCheckedHides
<1>4. /\ Plain(live') /\ Hidden(live') = Hidden(live) /\ disk' \in {disk, CapChecked(disk)}
      /\ saved' \subseteq Message
  BY <1>1, <1>2, <1>3, TurnGiven, SavedPlain DEF CannotSave
<1>5. Plain(disk') /\ Hidden(disk') = Hidden(live')
  BY <1>2, <1>3, <1>4
<1> QED BY <1>1, <1>4, <1>5, TurnGiven, StaysFree DEF HidesOwn

LEMMA TurnPrunesNow == ASSUME TurnInv, CapPrunesNow PROVE TurnInv' /\ HidesOwn
<1>1. PICK s \in {Prune(disk, disk.mark), CapChecked(disk)} : live' = s /\ Saves(s)
  BY DEF CapPrunesNow
<1>2. /\ Free /\ UNCHANGED sent
      /\ UNCHANGED <<archive, holder, stage, boundary, batch, snapshot, checkpoint, late>>
  BY DEF CapPrunesNow, work
<1>3. Plain(s) /\ Hidden(s) \subseteq Hidden(live)
  <2>1. Hidden(disk) = Hidden(live)
    BY DEF TurnInv, SameHidden
  <2>2. Plain(Prune(disk, disk.mark)) /\ Hidden(Prune(disk, disk.mark)) = {}
    BY TurnGiven, PlainRows, PrunedHides
  <2> QED BY <1>1, <2>1, <2>2, TurnGiven, CapCheckedHides
<1>4. disk' = s /\ saved' \subseteq Message
  BY <1>1, <1>3, TurnGiven, SavedPlain
<1> QED BY <1>1, <1>2, <1>3, <1>4, TurnGiven, StaysFree DEF HidesOwn

LEMMA RestoredLonger ==
    ASSUME TurnInv, sent < MaxMessages
    PROVE  Longer(Restored(live))
<1>1. /\ Longer([AddMessage(live, "reply") EXCEPT !.pending = FALSE])
      /\ Longer([live EXCEPT !.pending = FALSE])
  BY TurnGiven, AddedRow, FlaggedRow
<1> QED BY <1>1 DEF Restored

LEMMA TurnRestoring == ASSUME TurnInv, TurnRestores PROVE TurnInv' /\ HidesOwn
<1> DEFINE s == Restored(live)
<1>1. /\ Free /\ sent < MaxMessages /\ sent' = sent + (Len(s.msgs) - Len(live.msgs))
      /\ live' = s /\ (Saves(s) \/ CannotSave)
      /\ UNCHANGED <<archive, holder, stage, boundary, batch, snapshot, checkpoint, late>>
  BY DEF TurnRestores, work
<1>2. Longer(s)
  BY <1>1, RestoredLonger
<1> HIDE DEF s
<1>3. Plain(s) /\ Hidden(s) = Hidden(live) /\ Len(s.msgs) - Len(live.msgs) \in {0, 1}
  BY <1>2 DEF Longer
<1>4. disk' \in {disk, s} /\ saved' \subseteq Message
  BY <1>1, <1>3, TurnGiven, SavedPlain DEF CannotSave
<1>5. Plain(disk') /\ Hidden(disk') = Hidden(live')
  BY <1>1, <1>3, <1>4, TurnGiven DEF TurnInv, SameHidden
<1>6. sent' \in 0 .. MaxMessages
  <2>1. PICK d \in {0, 1} : sent' = sent + d
    BY <1>1, <1>3
  <2>2. sent \in 0 .. MaxMessages /\ sent < MaxMessages /\ MaxMessages \in Nat
    BY <1>1, TurnGiven, ArchiveAssumption
  <2> QED BY <2>1, <2>2
<1> QED BY <1>1, <1>3, <1>4, <1>5, <1>6, StaysFree DEF HidesOwn

\* What was hidden and what was visible make up the rows that are there when a turn or job starts.
LEMMA AllRowsCovered ==
    ASSUME NEW s, Plain(s), NEW k \in Nat, s.mark <= k, k <= Len(s.msgs)
    PROVE  /\ Covered(s.msgs, k, Hidden(s) \cup Real(SubSeq(s.msgs, s.mark + 1, k)))
           /\ Real(SubSeq(s.msgs, s.mark + 1, k)) \subseteq Message
<1>1. s.msgs \in Seq(Rows) /\ s.mark \in Nat
  BY PlainRows
<1>2. Covered(s.msgs, s.mark, Hidden(s))
  BY PlainRows DEF Covered
<1>3. Sound(s, Hidden(s))
  BY <1>2, PlainRows DEF Sound, Good
<1>4. Real(SubSeq(s.msgs, s.mark + 1, k)) \subseteq Message
  <2>1. s.mark + 1 \in Nat /\ s.mark + 1 >= 1
    BY <1>1
  <2> QED BY <1>1, <2>1, SliceRows
<1> QED BY <1>3, <1>4, BatchCovers

\* What is visible is everything behind the boundary.
LEMMA VisibleCovered ==
    ASSUME NEW s, Plain(s)
    PROVE  /\ Len(s.msgs) \in Nat
           /\ Covered(s.msgs, Len(s.msgs), Hidden(s) \cup Visible(s))
           /\ Visible(s) \subseteq Message
<1> DEFINE k == Len(s.msgs)
<1>1. k \in Nat /\ s.mark <= k /\ k <= Len(s.msgs)
  BY PlainRows
<1> HIDE DEF k
<1>2. /\ Covered(s.msgs, k, Hidden(s) \cup Real(SubSeq(s.msgs, s.mark + 1, k)))
      /\ Real(SubSeq(s.msgs, s.mark + 1, k)) \subseteq Message
  BY <1>1, AllRowsCovered
<1> QED BY <1>1, <1>2 DEF Visible, k

LEMMA TurnStarting == ASSUME TurnInv, TurnStarts PROVE TurnInv' /\ HidesOwn
<1> DEFINE s == [AddMessage(live, "user") EXCEPT !.pending = TRUE]
<1>1. /\ Free /\ sent < MaxMessages /\ sent' = sent + 1 /\ live' = s /\ "turn" \in Jobs
      /\ UNCHANGED <<archive, late>>
      /\ \/ /\ Saves(s) /\ holder' = "turn" /\ stage' = "running"
            /\ batch' = History(live) /\ boundary' = Len(s.msgs)
            /\ UNCHANGED <<snapshot, checkpoint>>
         \/ /\ CannotSave
            /\ UNCHANGED <<holder, stage, boundary, batch, snapshot, checkpoint>>
  BY DEF TurnStarts, work
<1>2. /\ Longer(s) /\ Len(s.msgs) = Len(live.msgs) + 1 /\ s.msgs[Len(live.msgs) + 1] \in Message
      /\ Len(live.msgs) \in Nat
  BY <1>1, TurnGiven, AddedRow, PlainRows
<1>3. /\ Plain(s) /\ Hidden(s) = Hidden(live) /\ Hidden(disk) = Hidden(live)
      /\ \A i \in 1 .. Len(live.msgs) : s.msgs[i] = live.msgs[i]
  BY <1>2 DEF Longer, TurnInv, SameHidden
<1>4. /\ sent' \in 0 .. MaxMessages
      /\ stage = "idle" /\ late = {} /\ checkpoint = "none" /\ holder = "none"
  BY <1>1, TurnGiven, ArchiveAssumption DEF Free, TurnInv, OwnInput
<1>7. /\ [kind |-> "user", n |-> sent + 1] \in Message
      /\ s.msgs = Append(live.msgs, [kind |-> "user", n |-> sent + 1]) /\ s.mark = live.mark
  BY <1>1, TurnGiven, PlainRows, ArchiveAssumption DEF AddMessage, Sessions, Message
<1> HIDE DEF s
<1>5. CASE CannotSave /\ UNCHANGED <<holder, stage, boundary, batch, snapshot, checkpoint>>
  BY <1>1, <1>3, <1>4, <1>5, TurnGiven, StaysFree DEF CannotSave, HidesOwn
<1>6. CASE /\ Saves(s) /\ holder' = "turn" /\ stage' = "running"
           /\ batch' = History(live) /\ boundary' = Len(s.msgs)
           /\ UNCHANGED <<snapshot, checkpoint>>
  <2>1. disk' = s /\ saved' \subseteq Message
    BY <1>3, <1>6, TurnGiven, SavedPlain
  <2>2. /\ Covered(live.msgs, Len(live.msgs), Hidden(live) \cup Visible(live))
        /\ Visible(live) \subseteq History(live) \cup Ahead(live)
        /\ batch' \subseteq Message
    BY <1>6, TurnGiven, PlainRows, VisibleCovered, HistoryOrAhead, HistoryRows
  <2>3. LeftOut' = Ahead(live)
    BY <1>1, <1>3, <1>6, <1>7, TurnGiven, LeftOutAtStart
  <2>10. Covered(s.msgs, Len(live.msgs), Hidden(s) \cup batch' \cup LeftOut')
    BY <1>3, <1>6, <2>2, <2>3 DEF Covered
  <2>4. /\ boundary' = Len(live.msgs) + 1 /\ boundary' - 1 = Len(live.msgs) /\ boundary' \in Nat
        /\ boundary' \in 1 .. Len(s.msgs)
    BY <1>2, <1>6
  <2>5. TypeOK'
    BY <1>1, <1>3, <1>4, <1>6, <2>1, <2>2, <2>4, TurnGiven, TypesNext
  <2>6. Shape'
    BY <1>1, <1>2, <1>3, <1>6, <2>1, <2>4, TurnGiven DEF Shape
  <2>7. SameHidden' /\ InBatch'
    BY <1>1, <1>6, <2>1 DEF SameHidden, InBatch
  <2>8. OwnInput'
    BY <1>1, <1>4, <1>6, <2>4, <2>10 DEF OwnInput
  <2>9. HidesOwn
    BY <1>1, <1>3 DEF HidesOwn
  <2> QED BY <2>5, <2>6, <2>7, <2>8, <2>9 DEF TurnInv
<1> QED BY <1>1, <1>5, <1>6

\* The summary call archives the batch, and the input when the summary is to follow it.
LEMMA TurnCompacting ==
    ASSUME TurnInv, NEW where \in {"before", "after"}, TurnCompacts(where)
    PROVE  TurnInv' /\ HidesOwn
<1>1. /\ holder = "turn" /\ checkpoint' = where
      /\ archive' = archive \cup batch \cup (IF where = "after" THEN {live.msgs[boundary]} ELSE {})
      /\ UNCHANGED <<live, disk, holder, stage, boundary, batch, snapshot, late, saved, sent>>
  BY DEF TurnCompacts, Input
<1>2. live.msgs[boundary] \in Message
  BY <1>1 DEF TurnInv, Shape
<1>3. archive' \subseteq Message /\ archive \subseteq archive' /\ batch \subseteq archive'
  BY <1>1, <1>2, TurnGiven
<1>4. TypeOK'
  BY <1>1, <1>3, TurnGiven, TypesNext
<1>5. LeftOut' = LeftOut
  BY <1>1, TurnGiven, LeftOutSame
<1>6. OwnInput'
  BY <1>1, <1>3, <1>5 DEF TurnInv, OwnInput
<1>7. HidesOwn
  BY <1>1, <1>3 DEF HidesOwn
<1> QED BY <1>1, <1>3, <1>4, <1>6, <1>7 DEF TurnInv, Shape, SameHidden, InBatch

\* Rows that are hidden already, in the batch, or the archived input.
LEMMA CoveredHides ==
    ASSUME Plain(live), NEW k \in Nat, k <= Len(live.msgs), NEW A,
           Covered(live.msgs, k, Hidden(live) \cup A)
    PROVE  /\ Plain(CommitCheckpoint(live, k))
           /\ Len(CommitCheckpoint(live, k).msgs) = Len(live.msgs) + 1
           /\ Hidden(CommitCheckpoint(live, k)) \subseteq Hidden(live) \cup A
BY CheckpointHides DEF Covered

LEMMA TurnSummary ==
    ASSUME TurnInv, holder = "turn", checkpoint # "none", sent < MaxMessages,
           NEW k, k = IF checkpoint = "before" THEN Len(live.msgs) - 1 ELSE Len(live.msgs)
    PROVE  /\ k \in Nat /\ k <= Len(live.msgs)
           /\ late = {} =>
                Hidden(CommitCheckpoint(live, k)) \subseteq Hidden(live) \cup archive \cup LeftOut
<1>1. /\ boundary \in 1 .. Len(live.msgs) /\ Len(live.msgs) \in Nat /\ boundary \in Nat
      /\ batch \subseteq archive
  BY TurnGiven, PlainRows DEF TurnInv, Shape, OwnInput
<1>2. k \in Nat /\ k <= Len(live.msgs)
  BY <1>1
<1>3. ASSUME late = {}
      PROVE  Covered(live.msgs, k, Hidden(live) \cup (archive \cup LeftOut))
  <2>1. /\ boundary = Len(live.msgs)
        /\ Covered(live.msgs, boundary - 1, Hidden(live) \cup batch \cup LeftOut)
        /\ checkpoint = "after" => live.msgs[boundary] \in archive
    BY <1>3 DEF TurnInv, OwnInput
  <2>2. CASE checkpoint = "before"
    BY <1>1, <2>1, <2>2 DEF Covered
  <2>3. CASE checkpoint = "after"
    <3>1. k = boundary
      BY <2>1, <2>3
    <3> SUFFICES ASSUME NEW i \in 1 .. k
                 PROVE  live.msgs[i] \in (Hidden(live) \cup (archive \cup LeftOut)) \cup {Mark}
      BY DEF Covered
    <3>2. CASE i = boundary
      BY <2>1, <2>3, <3>2
    <3>3. CASE i # boundary
      <4>1. i \in 1 .. boundary - 1
        BY <1>1, <3>1, <3>3
      <4> QED BY <1>1, <2>1, <4>1 DEF Covered
    <3> QED BY <3>2, <3>3
  <2> QED BY <2>2, <2>3, TurnGiven
<1> QED BY <1>2, <1>3, TurnGiven, CoveredHides

\* The reply goes behind the summary and is not hidden.
LEMMA ReplyHidesNoMore ==
    ASSUME NEW s, Plain(s), sent \in 0 .. MaxMessages, sent < MaxMessages
    PROVE  /\ Plain([AddMessage(s, "reply") EXCEPT !.pending = FALSE])
           /\ Hidden([AddMessage(s, "reply") EXCEPT !.pending = FALSE]) = Hidden(s)
<1> DEFINE r == AddMessage(s, "reply")
           t == [r EXCEPT !.pending = FALSE]
<1>1. /\ Plain(r) /\ \A i \in 1 .. Len(s.msgs) : r.msgs[i] = s.msgs[i]
  BY AddIsSound DEF Plain
<1>2. r.mark = s.mark
  BY PlainRows DEF AddMessage, Sessions
<1> HIDE DEF r
<1>3. Plain(t) /\ t.msgs = r.msgs /\ t.mark = s.mark
  BY <1>1, <1>2, FlagIsSound DEF Plain, Sound, Sessions
<1> HIDE DEF t
<1>4. Hidden(t) = Hidden(s)
  BY <1>1, <1>3, LongerHidesSame
<1> QED BY <1>3, <1>4 DEF t, r

LEMMA TurnEnding == ASSUME TurnInv, TurnEnds PROVE TurnInv' /\ HidesOwn
<1> DEFINE k == IF checkpoint = "before" THEN Len(live.msgs) - 1 ELSE Len(live.msgs)
           s == IF checkpoint = "none" THEN live ELSE CommitCheckpoint(live, k)
           t == [AddMessage(s, "reply") EXCEPT !.pending = FALSE]
<1>1. /\ holder = "turn" /\ sent < MaxMessages /\ sent' = sent + 1
      /\ live' = TurnSaves /\ Saves(TurnSaves) /\ Release /\ archive' = archive
  BY DEF TurnEnds
<1>2. TurnSaves = t
  BY TurnGiven DEF TurnSaves
<1>3. Plain(s) /\ (late = {} => Hidden(s) \subseteq Hidden(live) \cup archive \cup LeftOut)
  <2>1. CASE checkpoint = "none"
    BY <2>1, TurnGiven
  <2>2. CASE checkpoint # "none"
    <3>1. /\ k \in Nat /\ k <= Len(live.msgs)
          /\ late = {} =>
               Hidden(CommitCheckpoint(live, k)) \subseteq Hidden(live) \cup archive \cup LeftOut
      BY <1>1, <2>2, TurnSummary
    <3>2. Plain(CommitCheckpoint(live, k))
      BY <3>1, TurnGiven, CheckpointHides
    <3> QED BY <2>2, <3>1, <3>2
  <2> QED BY <2>1, <2>2
<1> HIDE DEF s
<1>4. Plain(t) /\ Hidden(t) = Hidden(s)
  BY <1>1, <1>3, TurnGiven, ReplyHidesNoMore
<1> HIDE DEF t
<1>5. disk' = t /\ live' = t /\ saved' \subseteq Message
  BY <1>1, <1>2, <1>4, TurnGiven, SavedPlain
<1>6. sent' \in 0 .. MaxMessages
  BY <1>1, TurnGiven, ArchiveAssumption
<1>7. HidesOwn
  BY <1>1, <1>3, <1>4, <1>5 DEF HidesOwn
<1> QED BY <1>1, <1>4, <1>5, <1>6, <1>7, TurnGiven, LettingGo

\* A call that starts: its batch and the rows hidden already are all there is before its boundary.
LEMMA TurnAsks ==
    ASSUME TurnInv, NEW end \in Nat, NEW rows, rows \subseteq Message, Ask(end, rows),
           NEW job \in Jobs, job \in {"idle", "cap", "new"}, holder' = job, holder = "none",
           NEW s \in {live, disk, CapChecked(disk)}, live' = s, end <= Len(s.msgs),
           Covered(s.msgs, end, Hidden(s) \cup rows),
           UNCHANGED <<disk, saved>> \/ Saves(s),
           snapshot' = s \/ (job = "cap" /\ snapshot' = snapshot),
           late' = {}, UNCHANGED <<archive, checkpoint, sent>>
    PROVE  TurnInv' /\ HidesOwn
<1>1. stage' = "asking" /\ boundary' = end /\ batch' = rows
  BY DEF Ask
<1>2. /\ Plain(live') /\ Hidden(live') = Hidden(live)
      /\ Plain(disk') /\ Hidden(disk') = Hidden(live) /\ saved' \subseteq Message
  <2>1. Hidden(disk) = Hidden(live) /\ Plain(disk) /\ Plain(live) /\ saved \subseteq Message
    BY TurnGiven DEF TurnInv, SameHidden
  <2>2. Plain(s) /\ Hidden(s) = Hidden(live)
    BY <2>1, CapCheckedHides
  <2>3. disk' \in {disk, s} /\ saved' \subseteq Message
    BY <2>1, <2>2, SavedPlain
  <2> QED BY <2>1, <2>2, <2>3
<1>3. Plain(snapshot') /\ (job # "cap" => Hidden(snapshot') = Hidden(live'))
  BY <1>2, TurnGiven
<1>4. TypeOK'
  BY <1>1, <1>2, <1>3, TurnGiven, TypesNext
<1>5. Shape' /\ SameHidden' /\ InBatch'
  BY <1>1, <1>2, <1>3, TurnGiven DEF Shape, SameHidden, InBatch
<1>6. OwnInput' /\ HidesOwn
  BY <1>2 DEF TurnInv, OwnInput, HidesOwn
<1> QED BY <1>4, <1>5, <1>6 DEF TurnInv

LEMMA TurnAskIdle == ASSUME TurnInv, CompactStarts PROVE TurnInv' /\ HidesOwn
<1> DEFINE end == Len(disk.msgs)
           rows == Visible(disk)
<1>1. /\ live' = disk /\ snapshot' = disk /\ late' = {} /\ holder' = "idle" /\ "idle" \in Jobs
      /\ Ask(end, rows) /\ UNCHANGED <<disk, archive, checkpoint, saved, sent>> /\ holder = "none"
  BY DEF CompactStarts, Take, Free
<1>2. /\ end \in Nat /\ Covered(disk.msgs, end, Hidden(disk) \cup rows)
      /\ rows \subseteq Message /\ end = Len(disk.msgs)
  BY TurnGiven, VisibleCovered
<1> HIDE DEF end, rows
<1>3. end <= Len(disk.msgs) /\ "idle" \in {"idle", "cap", "new"}
  BY <1>2
<1> QED BY <1>1, <1>2, <1>3, TurnAsks

LEMMA TurnAskNew == ASSUME TurnInv, NewStarts PROVE TurnInv' /\ HidesOwn
<1> DEFINE end == Len(live.msgs)
           rows == Visible(live)
<1>1. /\ live' = live /\ snapshot' = live /\ late' = {} /\ holder' = "new" /\ "new" \in Jobs
      /\ Ask(end, rows) /\ UNCHANGED <<disk, archive, checkpoint, saved, sent>> /\ holder = "none"
  BY DEF NewStarts, Take, Free
<1>2. /\ end \in Nat /\ Covered(live.msgs, end, Hidden(live) \cup rows)
      /\ rows \subseteq Message /\ end = Len(live.msgs)
  BY TurnGiven, VisibleCovered
<1> HIDE DEF end, rows
<1>3. end <= Len(live.msgs) /\ "new" \in {"idle", "cap", "new"}
  BY <1>2
<1> QED BY <1>1, <1>2, <1>3, TurnAsks

LEMMA TurnAskCap == ASSUME TurnInv, CapStarts PROVE TurnInv' /\ HidesOwn
<1> DEFINE s == CapChecked(disk)
<1>1. /\ live' = s /\ Saves(s) /\ snapshot' = snapshot /\ late' = {}
      /\ holder' = "cap" /\ "cap" \in Jobs
      /\ UNCHANGED <<archive, checkpoint, sent>> /\ holder = "none"
  BY DEF CapStarts, Take, Free
<1>2. PICK cut \in NewCuts(disk) : Ask(cut, Prefix(disk, cut))
  BY DEF CapStarts
<1>3. cut \in Nat /\ cut <= Len(disk.msgs) /\ disk.mark <= cut
  BY TurnGiven, PlainRows, CutsInRange DEF NewCuts
<1>4. /\ Covered(disk.msgs, cut, Hidden(disk) \cup Prefix(disk, cut))
      /\ Prefix(disk, cut) \subseteq Message
  BY <1>3, TurnGiven, AllRowsCovered DEF Prefix
<1>5. /\ cut <= Len(s.msgs) /\ Covered(s.msgs, cut, Hidden(s) \cup Prefix(disk, cut))
      /\ s \in {live, disk, CapChecked(disk)} /\ "cap" \in {"idle", "cap", "new"}
  BY <1>3, <1>4, TurnGiven, CapCheckedHides
<1> HIDE DEF s
<1> QED BY <1>1, <1>2, <1>3, <1>4, <1>5, TurnAsks

\* A confirmed call hides its batch, which is archived, or drops what it hides.
LEMMA TurnJobEnds ==
    ASSUME TurnInv, IdleCommits \/ CapPrunes \/ NewClears
    PROVE  TurnInv' /\ HidesOwn
<1>1. Release /\ UNCHANGED <<archive, sent>> /\ stage = "committed" /\ batch \subseteq archive
  BY DEF IdleCommits, CapPrunes, NewClears, Confirmed, TurnInv, InBatch
<1>2. ASSUME holder \in {"idle", "cap"}
      PROVE  /\ boundary \in Nat /\ boundary <= Len(live.msgs) /\ Len(live.msgs) \in Nat
             /\ Plain(CommitCheckpoint(live, boundary))
             /\ Len(CommitCheckpoint(live, boundary).msgs) = Len(live.msgs) + 1
             /\ Hidden(CommitCheckpoint(live, boundary)) \subseteq Hidden(live) \cup archive
  <2>1. boundary <= Len(live.msgs) /\ Covered(live.msgs, boundary, Hidden(live) \cup batch)
    BY <1>2 DEF TurnInv, Shape, InBatch
  <2> QED BY <1>1, <2>1, TurnGiven, PlainRows, CoveredHides
<1>3. PICK s : /\ live' = s /\ Saves(s) /\ Plain(s)
               /\ Hidden(s) \subseteq Hidden(live) \cup archive
  <2>1. CASE IdleCommits
    BY <1>2, <2>1 DEF IdleCommits, IdleSummary
  <2>2. CASE CapPrunes
    <3> DEFINE c == CommitCheckpoint(live, boundary)
    <3>1. live' = Prune(c, boundary) /\ Saves(Prune(c, boundary)) /\ holder = "cap"
      BY <2>2 DEF CapPrunes, CapSummary
    <3>2. Plain(c) /\ boundary \in Nat /\ boundary <= Len(c.msgs)
      BY <1>2, <3>1
    <3> HIDE DEF c
    <3> QED BY <3>1, <3>2, PrunedHides
  <2>3. CASE NewClears
    BY <2>3, TurnGiven, ClearedHides DEF NewClears
  <2> QED BY <2>1, <2>2, <2>3
<1>4. disk' = s /\ saved' \subseteq Message
  BY <1>3, TurnGiven, SavedPlain
<1>5. HidesOwn
  BY <1>1, <1>3 DEF HidesOwn
<1> QED BY <1>1, <1>3, <1>4, <1>5, TurnGiven, LettingGo

\* Every step keeps the invariant and hides nothing unarchived unless somebody wrote beside.
LEMMA TurnNext == TurnInv /\ [Next]_vars => TurnInv' /\ HidesOwn
<1> SUFFICES ASSUME TurnInv, [Next]_vars PROVE TurnInv' /\ HidesOwn
  OBVIOUS
<1>1. CASE Turn
  BY <1>1, TurnRestoring, TurnStarting, TurnCompacting, TurnEnding, TurnGoesBack DEF Turn
<1>2. CASE Idle
  BY <1>2, TurnAskIdle, TurnFindsNone, TurnJobEnds, TurnGoesBack DEF Idle, IdleStarts
<1>3. CASE FileCap
  BY <1>3, TurnFindsNone, TurnMarkOverCap, TurnPrunesNow, TurnAskCap, TurnJobEnds, TurnGoesBack
     DEF FileCap
<1>4. CASE New
  BY <1>4, TurnAskNew, TurnJobEnds, TurnGoesBack DEF New
<1>5. CASE UNCHANGED vars
  <2>1. UNCHANGED <<live, disk, archive, holder, stage, boundary, batch, snapshot, checkpoint,
                    late, saved, sent>>
    BY <1>5 DEF vars
  <2>2. LeftOut' = LeftOut
    BY <2>1, TurnGiven, LeftOutSame
  <2> QED BY <2>1, <2>2 DEF TurnInv, TypeOK, Free, Shape, SameHidden, InBatch, OwnInput, HidesOwn
<1> QED BY <1>1, <1>2, <1>3, <1>4, <1>5, TurnDeliver, TurnCommit, TurnGoesBack DEF Next

----------------------------------------------------------------------------
(* The marker row and the boundary.                                        *)

Marked(s) == s.mark > 0 => s.mark < Len(s.msgs) /\ s.msgs[s.mark + 1] = Mark
AllMarked == Marked(live) /\ Marked(disk) /\ Marked(snapshot)

\* A row added at the end moves no marker, a checkpoint brings its own.
LEMMA AddMarked ==
    ASSUME NEW s, NEW kind \in {"user", "reply", "delivery"}, NEW q,
           s \in Sessions, Marked(s), sent \in Nat, sent < MaxMessages,
           q.msgs = AddMessage(s, kind).msgs, q.mark = s.mark
    PROVE  Marked(q)
<1> DEFINE m == [kind |-> kind, n |-> sent + 1]
<1>1. s.msgs \in Seq(Rows) /\ s.mark \in Nat
  BY DEF Sessions, Rows
<1>2. m \in Rows
  BY ArchiveAssumption DEF Rows, Message
<1>3. q.msgs = Append(s.msgs, m)
  BY DEF AddMessage, Sessions
<1> HIDE DEF m
<1>4. Len(q.msgs) = Len(s.msgs) + 1 /\ \A i \in 1 .. Len(s.msgs) : q.msgs[i] = s.msgs[i]
  BY <1>1, <1>2, <1>3
<1> QED BY <1>1, <1>4 DEF Marked

LEMMA CheckpointMarked ==
    ASSUME NEW s \in Sessions, NEW k \in Nat, k <= Len(s.msgs)
    PROVE  Marked(CommitCheckpoint(s, k))
<1> DEFINE c == CommitCheckpoint(s, k)
           t == InsertAt(s.msgs, k + 1, Mark)
           head == SubSeq(s.msgs, 1, k) \o <<Mark>>
           tail == SubSeq(s.msgs, k + 1, Len(s.msgs))
<1>1. s.msgs \in Seq(Rows) /\ Mark \in Rows
  BY DEF Sessions, Rows
<1>2. c.msgs = t /\ c.mark = k
  BY DEF CommitCheckpoint, Sessions
<1>3. Len(t) = Len(s.msgs) + 1
  BY <1>1, InsertKeepsPrefix
<1>4. head \in Seq(Rows) /\ Len(head) = k + 1 /\ head[k + 1] = Mark /\ tail \in Seq(Rows)
  BY <1>1
<1>5. t = head \o tail
  <2>1. (k + 1) - 1 = k
    OBVIOUS
  <2> QED BY <2>1 DEF InsertAt
<1> HIDE DEF head, tail, t
<1>6. t[k + 1] = Mark
  <2>1. (head \o tail)[k + 1] = head[k + 1]
    BY <1>4
  <2> QED BY <1>4, <1>5, <2>1
<1> QED BY <1>1, <1>2, <1>3, <1>6 DEF Marked

LEMMA CapCheckedMarked ==
    ASSUME NEW s \in Sessions, Marked(s)
    PROVE  Marked(CapChecked(s))
BY CapCheckedRows DEF Marked

\* What a step has to show about the marker: where the file and the rollback copy come from.
LEMMA MarkedStep ==
    ASSUME AllMarked, Marked(live'), disk' \in {disk, live'},
           snapshot' \in {snapshot, live, disk, Fresh}
    PROVE  AllMarked'
BY DEF AllMarked, Marked, Fresh

\* Every step that lets go of the lock, or is taken while it is free, has its copies from there.
LEMMA Copies ==
    ASSUME [Next]_vars
    PROVE  disk' \in {disk, live'} /\ snapshot' \in {snapshot, live, disk, Fresh}
<1>1. CASE Turn
  BY <1>1 DEF Turn, TurnRestores, TurnStarts, TurnEnds, TurnFails, TurnCompacts, Saves, CannotSave,
     Release, work
<1>2. CASE Idle
  BY <1>2 DEF Idle, IdleStarts, CompactStarts, IdleFindsNone, IdleCommits, IdleRollsBack, IdleGivesUp,
     Saves, Release, work
<1>3. CASE FileCap
  BY <1>3 DEF FileCap, CapFindsNone, MarkOverCap, CapPrunesNow, CapStarts, CapPrunes, CapGivesUp,
     Saves, CannotSave, Release, work
<1>4. CASE New
  BY <1>4 DEF New, NewStarts, NewClears, NewCannotSave, NewKeepsHistory, Saves, Release
<1>5. CASE Deliver \/ Crash \/ Commit \/ UNCHANGED vars
  BY <1>5 DEF Deliver, Crash, Commit, Saves, CannotSave, Release, work, vars
<1> QED BY <1>1, <1>2, <1>3, <1>4, <1>5 DEF Next

\* A turn appends to the live object, or leaves it alone.
LEMMA TurnMarked ==
    ASSUME TurnInv, AllMarked, TurnRestores \/ TurnStarts \/ TurnEnds \/ TurnFails
    PROVE  Marked(live')
<1>1. live \in Sessions /\ Marked(live) /\ sent \in Nat
  BY TurnGiven, PlainRows DEF AllMarked
<1>2. CASE TurnFails
  BY <1>1, <1>2 DEF TurnFails
<1>3. CASE TurnRestores
  <2> DEFINE s == [AddMessage(live, "reply") EXCEPT !.pending = FALSE]
             q == [live EXCEPT !.pending = FALSE]
  <2>1. live' = s \/ live' = q
    BY <1>3 DEF TurnRestores, Restored
  <2>2. s.msgs = AddMessage(live, "reply").msgs /\ s.mark = live.mark
    BY <1>1 DEF AddMessage, Sessions
  <2>3. Marked(s)
    BY <1>1, <1>3, <2>2, AddMarked DEF TurnRestores
  <2>4. Marked(q)
    BY <1>1 DEF Marked, Sessions
  <2> QED BY <2>1, <2>3, <2>4
<1>4. CASE TurnStarts
  <2> DEFINE s == [AddMessage(live, "user") EXCEPT !.pending = TRUE]
  <2>1. live' = s /\ sent < MaxMessages
    BY <1>4 DEF TurnStarts
  <2>2. s.msgs = AddMessage(live, "user").msgs /\ s.mark = live.mark
    BY <1>1 DEF AddMessage, Sessions
  <2> QED BY <1>1, <2>1, <2>2, AddMarked
<1>5. CASE TurnEnds
  <2> DEFINE k == IF checkpoint = "before" THEN Len(live.msgs) - 1 ELSE Len(live.msgs)
             s == IF checkpoint = "none" THEN live ELSE CommitCheckpoint(live, k)
             t == [AddMessage(s, "reply") EXCEPT !.pending = FALSE]
  <2>1. live' = t /\ sent < MaxMessages
    BY <1>5, TurnGiven DEF TurnEnds, TurnSaves
  <2>2. s \in Sessions /\ Marked(s)
    <3>1. CASE checkpoint = "none"
      BY <1>1, <3>1
    <3>2. CASE checkpoint # "none"
      <4>1. k \in Nat /\ k <= Len(live.msgs)
        BY <1>5, <3>2, TurnSummary DEF TurnEnds
      <4>2. Plain(CommitCheckpoint(live, k))
        BY <4>1, TurnGiven, CheckpointHides
      <4> QED BY <1>1, <3>2, <4>1, <4>2, PlainRows, CheckpointMarked
    <3> QED BY <3>1, <3>2
  <2> HIDE DEF s
  <2>3. t.msgs = AddMessage(s, "reply").msgs /\ t.mark = s.mark
    BY <2>2 DEF AddMessage, Sessions
  <2> HIDE DEF t
  <2>4. Marked(t)
    BY <1>1, <2>1, <2>2, <2>3, AddMarked
  <2> QED BY <2>1, <2>4
<1> QED BY <1>2, <1>3, <1>4, <1>5

\* Idle compaction puts its marker at the boundary; the file cap and /new leave none.
LEMMA JobMarked ==
    ASSUME TurnInv, AllMarked, IdleCommits \/ CapPrunes \/ CapPrunesNow \/ NewClears
    PROVE  Marked(live')
<1>1. live \in Sessions /\ disk \in Sessions /\ Marked(disk)
  BY TurnGiven, PlainRows DEF AllMarked
<1>2. CASE IdleCommits
  <2>1. live' = CommitCheckpoint(live, boundary)
    BY <1>2 DEF IdleCommits, IdleSummary
  <2>2. boundary \in Nat /\ boundary <= Len(live.msgs)
    BY <1>2, TurnGiven DEF IdleCommits, TurnInv, Shape
  <2> QED BY <1>1, <2>1, <2>2, CheckpointMarked
<1>3. CASE CapPrunes
  <2>1. live'.mark = 0
    BY <1>1, <1>3 DEF CapPrunes, CapSummary, Prune, CommitCheckpoint, Sessions
  <2> QED BY <2>1 DEF Marked
<1>4. CASE CapPrunesNow
  <2>1. live' = CapChecked(disk) \/ live'.mark = 0
    BY <1>1, <1>4 DEF CapPrunesNow, Prune, Sessions
  <2> QED BY <1>1, <2>1, CapCheckedMarked DEF Marked
<1>5. CASE NewClears
  <2>1. live'.mark = 0
    BY <1>1, <1>5 DEF NewClears, Clear, Sessions
  <2> QED BY <2>1 DEF Marked
<1> QED BY <1>2, <1>3, <1>4, <1>5

\* A delivery appends; every other step goes back to the file or to the rollback copy, or stays.
LEMMA NextMarked == TurnInv /\ AllMarked /\ [Next]_vars => AllMarked'
<1> SUFFICES ASSUME TurnInv, AllMarked, [Next]_vars PROVE Marked(live')
  BY Copies, MarkedStep
<1>1. CASE Turn
  <2>1. ASSUME NEW where \in {"before", "after"}, TurnCompacts(where) PROVE Marked(live')
    BY <2>1 DEF TurnCompacts, AllMarked
  <2> QED BY <1>1, <2>1, TurnMarked DEF Turn
<1>2. CASE Idle
  <2>1. CASE IdleCommits
    BY <2>1, JobMarked
  <2>2. CASE CompactStarts \/ IdleFindsNone \/ IdleRollsBack \/ IdleGivesUp
    BY <2>2 DEF CompactStarts, IdleFindsNone, IdleRollsBack, IdleGivesUp, AllMarked
  <2> QED BY <1>2, <2>1, <2>2 DEF Idle, IdleStarts
<1>3. CASE FileCap
  <2>1. CASE CapPrunes \/ CapPrunesNow
    BY <2>1, JobMarked
  <2>2. CASE CapFindsNone \/ MarkOverCap \/ CapStarts
    <3>1. live' \in {CapChecked(disk), CapChecked(live)}
      BY <2>2 DEF CapFindsNone, MarkOverCap, CapStarts
    <3>2. live \in Sessions /\ disk \in Sessions /\ Marked(live) /\ Marked(disk)
      BY TurnGiven, PlainRows DEF AllMarked
    <3> QED BY <3>1, <3>2, CapCheckedMarked
  <2>3. CASE CapGivesUp
    BY <2>3 DEF CapGivesUp, AllMarked
  <2> QED BY <1>3, <2>1, <2>2, <2>3 DEF FileCap
<1>4. CASE New
  <2>1. CASE NewClears
    BY <2>1, JobMarked
  <2>2. CASE NewStarts \/ NewCannotSave \/ NewKeepsHistory
    BY <2>2 DEF NewStarts, NewCannotSave, NewKeepsHistory, AllMarked
  <2> QED BY <1>4, <2>1, <2>2 DEF New
<1>5. CASE Deliver
  <2>1. live' = AddMessage(live, "delivery") /\ sent < MaxMessages
    BY <1>5 DEF Deliver
  <2>2. live \in Sessions /\ Marked(live) /\ sent \in Nat
    BY TurnGiven, PlainRows DEF AllMarked
  <2>3. AddMessage(live, "delivery").mark = live.mark
    BY <2>2 DEF AddMessage, Sessions
  <2> QED BY <2>1, <2>2, <2>3, AddMarked
<1>6. CASE Crash \/ Commit \/ UNCHANGED vars
  BY <1>6 DEF Crash, Commit, vars, AllMarked
<1> QED BY <1>1, <1>2, <1>3, <1>4, <1>5, <1>6 DEF Next

----------------------------------------------------------------------------
(* The theorems about turns that may compact.                              *)

\* The state of the chat is well typed, and a free lock leaves no half-done job behind, whether or
\* not turns compact.
THEOREM SessionTypes == Spec => []TypeOK
<1>1. TurnInv => TypeOK
  BY DEF TurnInv
<1> QED BY TurnInit, TurnNext, <1>1, PTL DEF Spec

\* A turn's own summary, idle compaction, the file cap and /new hide no unarchived row behind the
\* boundary as long as nobody appended beside the lock's holder, with or without turns that compact.
THEOREM UndisturbedTurns == Spec => UndisturbedTurn
<1>1. TurnInv /\ [Next]_vars =>
        [late = {} =>
            Hidden(live') \ archive' \subseteq (Hidden(live) \ archive) \cup LeftOut]_vars
  BY TurnNext DEF HidesOwn
<1> QED BY TurnInit, TurnNext, <1>1, PTL DEF Spec, UndisturbedTurn

\* commit_summary_checkpoint puts the marker on the boundary and nothing that follows, a delivery, a
\* prune, a rollback or a crash, parts the two: replay resumes exactly at the marker.
THEOREM MarkerOnBoundary == Spec => []MarkAtBoundary
<1>1. Init => TurnInv /\ AllMarked
  BY TurnInit, OpenedRows DEF Init, AllMarked, Marked, Fresh
<1>2. TurnInv /\ AllMarked /\ [Next]_vars => (TurnInv /\ AllMarked)'
  BY TurnNext, NextMarked
<1>3. TurnInv /\ AllMarked => MarkAtBoundary
  BY DEF AllMarked, Marked, MarkAtBoundary
<1> QED BY <1>1, <1>2, <1>3, PTL DEF Spec
=============================================================================

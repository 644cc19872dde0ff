------------------------------ MODULE DreamRun ------------------------------
(***************************************************************************)
(* The hand-off of archived conversation from a chat to its owner's        *)
(* memory (familia/nanobot_extension/runtime_services.py: run_dream and    *)
(* its helpers; familia/bootstrap.py: _archive_messages).                  *)
(*                                                                         *)
(* An archive fact holds one group of transcript rows under an id that is  *)
(* a hash of the rows, so storing the same rows again is storing the same  *)
(* fact.  A Dream run reads whole groups in catalog order, gives them to   *)
(* the model with the current profile, and deletes them once every write   *)
(* the model asked for is in memX.  The scheduled job and the /dream       *)
(* command may run for the same owner at once.                             *)
(*                                                                         *)
(* One ingest() call is one step that lands or not, with a result that may *)
(* be lost: Ingestor shows that nothing more can happen, MemxStore that it *)
(* is atomic.                                                              *)
(***************************************************************************)
EXTENDS Naturals, Sequences, SequencesExt, FiniteSetsExt

CONSTANTS
    Archives,   \* groups of rows a chat hands over
    Sound,      \* those _read_archive_batch accepts (roles, actors, contents)
    Rows,       \* how many rows each group has
    MaxRows,    \* _DREAM_MAX_ENTRIES
    Facts,      \* the owner's other facts
    MaxEntries, \* how many names the catalog holds
    Runs,       \* Dream runs of this owner: the scheduled job, the command
    Scheduled   \* the run that comes again and again

ASSUME DreamAssumption ==
    /\ Sound \subseteq Archives
    /\ Rows \in [Archives -> Nat \ {0}]
    /\ MaxRows \in Nat /\ MaxEntries \in Nat
    /\ Facts \cap Archives = {}
    /\ Scheduled \in Runs

Names == Archives \cup Facts

VARIABLES
    catalog,    \* the owner's private_index: names in the order of their last write
    hidden,     \* groups whose archiving was confirmed: the chat no longer shows them
    profile,    \* the groups whose details the profile holds
    phase,      \* where each run is
    batch,      \* the groups it read, later those it has yet to delete
    basis,      \* the profile it showed to the model
    moved,      \* whether the profile was written since it was read
    results,    \* what the model's writes came to
    missing,    \* history: a write the model of this run asked for did not land
    digested    \* history: groups that were in the prompt of a saved run

run == <<phase, batch, basis, moved, results, missing>>
vars == <<catalog, hidden, profile, run, digested>>

----------------------------------------------------------------------------
(* The catalog, as set_value and delete_value keep it.                     *)

Place(cat, n) == CHOOSE i \in DOMAIN cat : cat[i] = n
Without(cat, n) == IF n \in Range(cat) THEN RemoveAt(cat, Place(cat, n)) ELSE cat

Put(cat, n) == Append(Without(cat, n), n)
Room(n) == n \in Range(catalog) \/ Len(catalog) < MaxEntries

\* The sound groups up to place i, and their rows.
UpTo(cat, i) == {cat[j] : j \in 1 .. i} \cap Sound
Weight(groups) == MapThenSumSet(LAMBDA a : Rows[a], groups)

\* Fault: a group that cannot be read ends the batch.
BatchUpToUnsound(cat) ==
    {cat[i] : i \in {j \in DOMAIN cat :
                        /\ Weight(UpTo(cat, j)) <= MaxRows
                        /\ \A k \in 1 .. j : cat[k] \in Sound \cup Facts}} \cap Sound

\* Whole groups from the front, up to the first that does not fit; what is not a
\* sound group is passed over.
Batch(cat) == {cat[i] : i \in {j \in DOMAIN cat : Weight(UpTo(cat, j)) <= MaxRows}} \cap Sound

Init ==
    /\ catalog = <<>> /\ hidden = {} /\ profile = {} /\ digested = {}
    /\ phase = [r \in Runs |-> "idle"]
    /\ batch = [r \in Runs |-> {}]
    /\ basis = [r \in Runs |-> {}]
    /\ moved = [r \in Runs |-> FALSE]
    /\ results = [r \in Runs |-> {}]
    /\ missing = [r \in Runs |-> FALSE]

----------------------------------------------------------------------------
(* Writers beside Dream.                                                   *)

\* _archive_messages stores a group the chat still shows; the chat hides it when the
\* answer arrives and the session is saved, and stores it again otherwise.
ChatArchives(a) ==
    /\ a \notin hidden /\ Room(a)
    /\ catalog' = Put(catalog, a)
    /\ hidden' \in {hidden, hidden \cup {a}}
    /\ UNCHANGED <<profile, run, digested>>

\* memory_set with and without a value.
OwnerStores(f) ==
    /\ Room(f)
    /\ catalog' = Put(catalog, f)
    /\ UNCHANGED <<hidden, profile, run, digested>>

OwnerForgets(f) ==
    /\ f \in Range(catalog)
    /\ catalog' = Without(catalog, f)
    /\ UNCHANGED <<hidden, profile, run, digested>>

----------------------------------------------------------------------------
(* A run.                                                                  *)

ResetRun(r) ==
    /\ phase' = [phase EXCEPT ![r] = "idle"]
    /\ batch' = [batch EXCEPT ![r] = {}]
    /\ basis' = [basis EXCEPT ![r] = {}]
    /\ moved' = [moved EXCEPT ![r] = FALSE]
    /\ results' = [results EXCEPT ![r] = {}]
    /\ missing' = [missing EXCEPT ![r] = FALSE]

\* _read_archive_batch: one synchronous pass, no other coroutine runs meanwhile.
ReadsArchive(r) ==
    /\ phase[r] = "idle" /\ Batch(catalog) # {}
    /\ phase' = [phase EXCEPT ![r] = "read"]
    /\ batch' = [batch EXCEPT ![r] = Batch(catalog)]
    /\ UNCHANGED <<catalog, hidden, profile, basis, moved, results, missing, digested>>

\* get_profile_snapshot, awaited.
ReadsProfile(r) ==
    /\ phase[r] = "read"
    /\ phase' = [phase EXCEPT ![r] = "waiting"]
    /\ basis' = [basis EXCEPT ![r] = profile]
    /\ moved' = [moved EXCEPT ![r] = FALSE]
    /\ UNCHANGED <<catalog, hidden, profile, batch, results, missing, digested>>

\* process_direct holds the lock of the owner's chat for the whole turn.
TurnStarts(r) ==
    /\ phase[r] = "waiting" /\ \A s \in Runs : phase[s] # "dreaming"
    /\ phase' = [phase EXCEPT ![r] = "dreaming"]
    /\ UNCHANGED <<catalog, hidden, profile, batch, basis, moved, results, missing, digested>>

\* The result of one dream_memory_set call.  Only an answered success counts as landed.
Answered(r, done) ==
    \E heard \in {done, FALSE} :
        /\ results' = [results EXCEPT ![r] = @ \cup {IF heard THEN "landed" ELSE "failed"}]
        /\ missing' = [missing EXCEPT ![r] = @ \/ ~done]

\* Fault: the version is read again when the profile is written.
UnmovedAtWrite(r) == TRUE

\* expected_version is the version of the profile the model was shown: a second
\* rewrite in the same run is a conflict as well.
Unmoved(r) == ~moved[r]

\* The prompt asks for "a complete replacement that preserves every current detail".
Rewrites(r) ==
    /\ phase[r] = "dreaming"
    /\ \/ /\ Unmoved(r)
          /\ profile' = basis[r] \cup batch[r]
          /\ moved' = [s \in Runs |-> TRUE]
          /\ Answered(r, TRUE)
       \/ UNCHANGED <<profile, moved>> /\ Answered(r, FALSE)
    /\ UNCHANGED <<catalog, hidden, phase, batch, basis, digested>>

StoresFact(r, f) ==
    /\ phase[r] = "dreaming"
    /\ \/ Room(f) /\ catalog' = Put(catalog, f) /\ Answered(r, TRUE)
       \/ UNCHANGED catalog /\ Answered(r, FALSE)
    /\ UNCHANGED <<hidden, profile, phase, batch, basis, moved, digested>>

ForgetsFact(r, f) ==
    /\ phase[r] = "dreaming"
    /\ \/ catalog' = Without(catalog, f) /\ Answered(r, TRUE)
       \/ UNCHANGED catalog /\ Answered(r, FALSE)
    /\ UNCHANGED <<hidden, profile, phase, batch, basis, moved, digested>>

\* Faults: one landed write is enough; the archive is read again after the turn.
SavedInPart(r) == "landed" \in results[r]
ConsumedNow(r) == Batch(catalog)

Saved(r) == results[r] = {"landed"}
Consumed(r) == batch[r]

TurnCompletes(r) ==
    /\ phase[r] = "dreaming" /\ Saved(r)
    /\ phase' = [phase EXCEPT ![r] = "deleting"]
    /\ batch' = [batch EXCEPT ![r] = Consumed(r)]
    /\ digested' = digested \cup batch[r]
    /\ UNCHANGED <<catalog, hidden, profile, basis, moved, results, missing>>

\* _delete_archive_facts: one after the other, each answered "deleted:" or "absent:".
Deletes(r, a) ==
    /\ phase[r] = "deleting" /\ a \in batch[r]
    /\ catalog' = Without(catalog, a)
    /\ batch' = [batch EXCEPT ![r] = @ \ {a}]
    /\ UNCHANGED <<hidden, profile, phase, basis, moved, results, missing, digested>>

\* A turn that did not complete, nothing durable written, a deletion without a good
\* answer (it may have happened), an exception, a restart of the gateway, or the end.
RunEnds(r) ==
    /\ phase[r] # "idle"
    /\ ResetRun(r)
    /\ \/ UNCHANGED catalog
       \/ phase[r] = "deleting" /\ \E a \in batch[r] : catalog' = Without(catalog, a)
    /\ UNCHANGED <<hidden, profile, digested>>

RunStep(r) ==
    \/ ReadsArchive(r) \/ ReadsProfile(r) \/ TurnStarts(r) \/ Rewrites(r)
    \/ TurnCompletes(r) \/ RunEnds(r)
    \/ \E f \in Facts : StoresFact(r, f) \/ ForgetsFact(r, f)
    \/ \E a \in Archives : Deletes(r, a)

Next ==
    \/ \E a \in Archives : ChatArchives(a)
    \/ \E f \in Facts : OwnerStores(f) \/ OwnerForgets(f)
    \/ \E r \in Runs : RunStep(r)

Spec == Init /\ [][Next]_vars

\* The job is scheduled again and again, and every run ends.
FairSpec ==
    /\ Spec
    /\ WF_vars(ReadsArchive(Scheduled)) /\ \A r \in Runs : WF_vars(RunEnds(r))

----------------------------------------------------------------------------
\* A list of names without repetition, within the limit.
Listing(cat) ==
    /\ cat \in Seq(Names) /\ Len(cat) <= MaxEntries
    /\ \A i, j \in DOMAIN cat : cat[i] = cat[j] => i = j

\* The catalog lists a name once and keeps within its limit; an idle run holds nothing.
TypeOK ==
    /\ Listing(catalog)
    /\ hidden \subseteq Archives /\ profile \subseteq Archives /\ digested \subseteq Archives
    /\ phase \in [Runs -> {"idle", "read", "waiting", "dreaming", "deleting"}]
    /\ batch \in [Runs -> SUBSET Archives] /\ basis \in [Runs -> SUBSET Archives]
    /\ moved \in [Runs -> BOOLEAN] /\ missing \in [Runs -> BOOLEAN]
    /\ results \in [Runs -> SUBSET {"landed", "failed"}]
    /\ \A r \in Runs : phase[r] = "idle" => batch[r] = {} /\ results[r] = {}

\* What the chat no longer shows is in an archive fact until a run that was shown it has saved
\* what it wanted to keep: whatever two runs, the chat and failing deletions do to the catalog.
HandedOver == hidden \subseteq Range(catalog) \cup digested

\* The same for every group that was ever stored, also if the chat never learned of it and still
\* shows the rows: it stays until a saved run was shown it.  This is what SessionArchive takes for
\* granted of its archive, which only grows.
Accounted == (Range(catalog) \cap Archives) \cup digested
ArchiveLasts == [][Accounted \subseteq Accounted']_vars

\* A run deletes archives only when everything its model asked to store is in memX ("A successful
\* tool result is the only durable write").
DeletesAfterSaving ==
    \A r \in Runs : phase[r] = "deleting" => ~missing[r] /\ batch[r] \subseteq digested

\* Rewriting the whole profile from a snapshot loses no detail another run has written since.
ProfileKeepsDetails == [][profile \subseteq profile']_vars

\* A group with more rows than a prompt takes stands before a, or is a.
TooLong(a) ==
    \E i \in DOMAIN catalog :
        /\ catalog[i] \in Sound /\ Rows[catalog[i]] > MaxRows
        /\ \A j \in DOMAIN catalog : catalog[j] = a => i <= j

\* The scheduled run reads batch after batch, but from some time on it deletes none: the model
\* finds nothing worth a write and "the archive will be kept for a later run", or a write fails.
KeptForLater ==
    /\ []<>(phase[Scheduled] = "read")
    /\ <>[][\A a \in Archives : ~Deletes(Scheduled, a)]_vars

\* Every sound group a chat has handed over is digested, unless the scheduled run gets no group
\* done at all or one that is too long stands in the way: groups that cannot be read, groups that
\* are stored again, other facts, a /dream beside it and failing runs do not starve it.
EventuallyDigested ==
    KeptForLater \/ \A a \in Sound : a \in hidden ~> (a \in digested \/ []TooLong(a))

\* What every step keeps, for the proofs: a run that deletes was shown what it deletes and heard
\* of no failure, a write that did not land was not heard as landed, and a snapshot nobody wrote
\* over is the profile.
RunInv(r) ==
    /\ phase[r] = "deleting" => batch[r] \subseteq digested /\ "failed" \notin results[r]
    /\ missing[r] => "failed" \in results[r]
    /\ phase[r] \in {"waiting", "dreaming"} /\ ~moved[r] => basis[r] = profile

DreamInv == TypeOK /\ HandedOver /\ \A r \in Runs : RunInv(r)
=============================================================================

------------------------------ MODULE MemxStore ------------------------------
(***************************************************************************)
(* The conditional writer of memX: memx/store.py (set_value, delete_value) *)
(* behind memx/main.py (/set, /delete), for one principal's private        *)
(* namespace.                                                              *)
(*                                                                         *)
(* A write is an optimistic Redis transaction: WATCH the value key (and    *)
(* the private_index key when the write carries an index operation), GET   *)
(* them, decide, MULTI/EXEC.  Each of those Redis commands is one action,  *)
(* because other writers of the same Redis run between them.  A "worker"   *)
(* is one request being executed by some memX process.                     *)
(*                                                                         *)
(* Abstractions: a value is an opaque member of Values; the tags its codec *)
(* envelope carries are TagOf[value].  The catalog is a partial function   *)
(* from fact to tags (the code keeps a list, whose order no property       *)
(* distinguishes).  A version is a natural number: the finite floats in    *)
(* order, MaxVersion being the largest, so math.nextafter is "+ 1".        *)
(***************************************************************************)
EXTENDS Integers, FiniteSets

CONSTANTS
    Facts,        \* fact ids: keys private:<actor>:memory:<fact_id>
    Profile,      \* a key without catalog entry: private:<actor>:value:user_profile
    Values,       \* payloads
    Tags,         \* topic tag lists
    TagOf,        \* the tags inside a payload's codec envelope
    Workers,      \* requests that memX can execute at the same time
    MaxEntries,   \* index_update.max_entries (256 in the code)
    MaxVersion,   \* the largest finite version
    Clocks,       \* what the wall clock can show
    Requests,     \* the requests clients send
    NoValue,      \* no record under a key
    NoEntry       \* no catalog entry under a name

Keys == Facts \cup {Profile}
Versions == 0..MaxVersion
NoVersion == -1          \* record is None / expected_ts = null
Unset == -2              \* _EXPECTED_TS_UNSET: an unconditional write

Absent == [val |-> NoValue, ts |-> NoVersion]
Record == [val : Values, ts : Versions] \cup {Absent}

\* What /set and /delete accept: every memory key carries the canonical index
\* operation and no other key does, so the request need not mention it.
SetRequest == [op : {"set"}, key : Keys, val : Values,
               expected : Versions \cup {NoVersion, Unset}]
DeleteRequest == [op : {"delete"}, key : Keys, val : {NoValue},
                  expected : Versions \cup {NoVersion, Unset}]
Request == SetRequest \cup DeleteRequest
NoRequest == [op |-> "none", key |-> Profile, val |-> NoValue, expected |-> Unset]

ASSUME MemxConstants ==
    /\ Profile \notin Facts
    /\ TagOf \in [Values -> Tags]
    /\ NoValue \notin Values
    /\ NoEntry \notin Tags
    /\ MaxEntries \in Nat \ {0}
    /\ MaxVersion \in Nat
    /\ Clocks \subseteq Versions
    /\ IsFiniteSet(Facts)
    /\ Requests \subseteq Request

Status == {"none", "committed", "deleted", "absent", "conflict",
           "catalog_full", "server_error"}

VARIABLES
    store,      \* Redis: the record under each value key
    catalog,    \* Redis: the private_index, fact -> tags
    catalogTs,  \* Redis: the version of the private_index record
    pc,         \* where each worker is in set_value / delete_value
    req,        \* the request it executes
    seenTs,     \* current_ts
    seenCat,    \* entries
    seenCatTs,  \* index_ts
    dirty,      \* a watched key changed since WATCH: EXEC will fail
    newTs,      \* version chosen for the write
    reply       \* the status of the MutationResult

redis == <<store, catalog, catalogTs>>
vars == <<store, catalog, catalogTs, pc, req, seenTs, seenCat, seenCatTs,
          dirty, newTs, reply>>

EmptyCatalog == [f \in Facts |-> NoEntry]
Listed(cat) == {f \in Facts : cat[f] # NoEntry}
Indexed(r) == r.key \in Facts

-----------------------------------------------------------------------------
Init ==
    /\ store = [k \in Keys |-> Absent]
    /\ catalog = EmptyCatalog
    /\ catalogTs = NoVersion
    /\ pc = [w \in Workers |-> "idle"]
    /\ req = [w \in Workers |-> NoRequest]
    /\ seenTs = [w \in Workers |-> NoVersion]
    /\ seenCat = [w \in Workers |-> EmptyCatalog]
    /\ seenCatTs = [w \in Workers |-> NoVersion]
    /\ dirty = [w \in Workers |-> FALSE]
    /\ newTs = [w \in Workers |-> NoVersion]
    /\ reply = [w \in Workers |-> "none"]

\* A /set or /delete request reaches a memX process.
Submit(w, r) ==
    /\ pc[w] = "idle"
    /\ pc' = [pc EXCEPT ![w] = "watch"]
    /\ req' = [req EXCEPT ![w] = r]
    /\ UNCHANGED <<redis, seenTs, seenCat, seenCatTs, dirty, newTs, reply>>

Watch(w) ==
    /\ pc[w] = "watch"
    /\ pc' = [pc EXCEPT ![w] = "get"]
    /\ UNCHANGED <<redis, req, seenTs, seenCat, seenCatTs, dirty, newTs, reply>>

GetValue(w) ==
    /\ pc[w] = "get"
    /\ seenTs' = [seenTs EXCEPT ![w] = store[req[w].key].ts]
    /\ pc' = [pc EXCEPT ![w] = IF Indexed(req[w]) THEN "index" ELSE "decide"]
    /\ UNCHANGED <<redis, req, seenCat, seenCatTs, dirty, newTs, reply>>

GetIndex(w) ==
    /\ pc[w] = "index"
    /\ seenCat' = [seenCat EXCEPT ![w] = catalog]
    /\ seenCatTs' = [seenCatTs EXCEPT ![w] = catalogTs]
    /\ pc' = [pc EXCEPT ![w] = "decide"]
    /\ UNCHANGED <<redis, req, seenTs, dirty, newTs, reply>>

\* What the transaction read and chose is local to one turn of the loop.
Forget(w) ==
    /\ seenTs' = [seenTs EXCEPT ![w] = NoVersion]
    /\ seenCat' = [seenCat EXCEPT ![w] = EmptyCatalog]
    /\ seenCatTs' = [seenCatTs EXCEPT ![w] = NoVersion]
    /\ newTs' = [newTs EXCEPT ![w] = NoVersion]

\* Answer the request with status s, writing nothing (UNWATCH, return).
Refuse(w, s) ==
    /\ pc' = [pc EXCEPT ![w] = "done"]
    /\ reply' = [reply EXCEPT ![w] = s]
    /\ dirty' = [dirty EXCEPT ![w] = FALSE]
    /\ Forget(w)
    /\ UNCHANGED <<redis, req>>

\* Fault: "must be absent" (null) treated like "unconditional".
VersionMatchesNullIsUnset(w) == req[w].expected \in {Unset, NoVersion, seenTs[w]}

VersionMatches(w) == req[w].expected \in {Unset, seenTs[w]}
NameListed(w) == Indexed(req[w]) /\ seenCat[w][req[w].key] # NoEntry
\* Fault: the capacity test forgets that a name already listed needs no room.
NoRoomForListedEither(w) ==
    Indexed(req[w]) /\ Cardinality(Listed(seenCat[w])) >= MaxEntries

NoRoom(w) ==
    /\ Indexed(req[w])
    /\ ~NameListed(w)
    /\ Cardinality(Listed(seenCat[w])) >= MaxEntries
NothingToDelete(w) == seenTs[w] = NoVersion /\ ~NameListed(w)

\* Fault: the new version is chosen without regard to the index's version.
LatestOfValueOnly(w) == seenTs[w]

\* The latest version the transaction has read: max(current_ts, index_ts).
Latest(w) ==
    IF Indexed(req[w]) /\ seenCatTs[w] > seenTs[w] THEN seenCatTs[w] ELSE seenTs[w]

\* _next_version: the clock when it is ahead of what is stored, otherwise the
\* smallest version above it.  The clock may stand still or step back.
NextVersion(now, latest) == IF now > latest THEN now ELSE latest + 1

\* Fault: a delete leaves the catalog entry behind.
WritesIndexOnSet(w) == Indexed(req[w]) /\ req[w].op = "set"

\* A delete of an uncatalogued record writes no index and needs no version.
WritesIndex(w) == Indexed(req[w]) /\ (req[w].op = "delete" => NameListed(w))
NeedsVersion(w) == req[w].op = "set" \/ WritesIndex(w)

Conflict(w) ==
    /\ pc[w] = "decide"
    /\ ~VersionMatches(w)
    /\ Refuse(w, "conflict")

CatalogFull(w) ==
    /\ pc[w] = "decide"
    /\ VersionMatches(w)
    /\ req[w].op = "set"
    /\ NoRoom(w)
    /\ Refuse(w, "catalog_full")

NothingThere(w) ==
    /\ pc[w] = "decide"
    /\ VersionMatches(w)
    /\ req[w].op = "delete"
    /\ NothingToDelete(w)
    /\ Refuse(w, "absent")

\* The request will be written, if no watched key changes before EXEC.
Accepted(w) ==
    /\ pc[w] = "decide"
    /\ VersionMatches(w)
    /\ IF req[w].op = "set" THEN ~NoRoom(w) ELSE ~NothingToDelete(w)

\* VersionGenerationError: the stored version is the largest finite float.
VersionExhausted(w) ==
    /\ Accepted(w)
    /\ NeedsVersion(w)
    /\ Latest(w) = MaxVersion
    /\ Refuse(w, "server_error")

Prepare(w, now) ==
    /\ Accepted(w)
    /\ NeedsVersion(w) => NextVersion(now, Latest(w)) \in Versions
    /\ newTs' = [newTs EXCEPT ![w] = IF NeedsVersion(w)
                                     THEN NextVersion(now, Latest(w))
                                     ELSE NoVersion]
    /\ pc' = [pc EXCEPT ![w] = "exec"]
    /\ UNCHANGED <<redis, req, seenTs, seenCat, seenCatTs, dirty, reply>>

\* WatchError: start the transaction over.
Retry(w) ==
    /\ pc[w] = "exec"
    /\ dirty[w]
    /\ pc' = [pc EXCEPT ![w] = "watch"]
    /\ dirty' = [dirty EXCEPT ![w] = FALSE]
    /\ Forget(w)
    /\ UNCHANGED <<redis, req, reply>>

\* EXEC touches the value key and, when the index is written, the index key:
\* every other transaction that watches one of them will fail.
Watching(v) == pc[v] \in {"get", "index", "decide", "exec"}
\* Fault: only the value key is watched.
TouchedByValueKey(w) ==
    {v \in Workers \ {w} : Watching(v) /\ req[v].key = req[w].key}

TouchedBy(w) ==
    {v \in Workers \ {w} :
        /\ Watching(v)
        /\ \/ req[v].key = req[w].key
           \/ Indexed(req[v]) /\ WritesIndex(w)}

Exec(w) ==
    /\ pc[w] = "exec"
    /\ ~dirty[w]
    /\ LET k == req[w].key
           isSet == req[w].op = "set"
       IN /\ store' = [store EXCEPT ![k] =
                          IF isSet THEN [val |-> req[w].val, ts |-> newTs[w]]
                                   ELSE Absent]
          /\ IF WritesIndex(w)
             THEN /\ catalog' = [seenCat[w] EXCEPT ![k] =
                                    IF isSet THEN TagOf[req[w].val] ELSE NoEntry]
                  /\ catalogTs' = newTs[w]
             ELSE UNCHANGED <<catalog, catalogTs>>
          /\ reply' = [reply EXCEPT ![w] = IF isSet THEN "committed" ELSE "deleted"]
    /\ dirty' = [v \in Workers |-> dirty[v] \/ v \in TouchedBy(w)]
    /\ pc' = [pc EXCEPT ![w] = "done"]
    /\ Forget(w)
    /\ UNCHANGED req

\* The response leaves memX (delivered or lost) and the request is over.
Finish(w) ==
    /\ pc[w] = "done"
    /\ pc' = [pc EXCEPT ![w] = "idle"]
    /\ req' = [req EXCEPT ![w] = NoRequest]
    /\ reply' = [reply EXCEPT ![w] = "none"]
    /\ UNCHANGED <<redis, seenTs, seenCat, seenCatTs, dirty, newTs>>

\* One memX worker's own progress.
WorkerStep(w) ==
    \/ Watch(w) \/ GetValue(w) \/ GetIndex(w)
    \/ Conflict(w) \/ CatalogFull(w) \/ NothingThere(w) \/ VersionExhausted(w)
    \/ \E now \in Clocks : Prepare(w, now)
    \/ Retry(w) \/ Exec(w)

Next ==
    \E w \in Workers :
        \/ \E r \in Requests : Submit(w, r)
        \/ WorkerStep(w)
        \/ Finish(w)

Spec == Init /\ [][Next]_vars
-----------------------------------------------------------------------------
(***************************************************************************)
(* Properties                                                              *)
(***************************************************************************)

\* Every variable holds a value of the kind set_value and delete_value keep in
\* it; a prepared write carries a usable version.
TypeOK ==
    /\ store \in [Keys -> Record]
    /\ catalog \in [Facts -> Tags \cup {NoEntry}]
    /\ catalogTs \in Versions \cup {NoVersion}
    /\ pc \in [Workers -> {"idle", "watch", "get", "index", "decide", "exec", "done"}]
    /\ req \in [Workers -> Request \cup {NoRequest}]
    /\ seenTs \in [Workers -> Versions \cup {NoVersion}]
    /\ seenCat \in [Workers -> [Facts -> Tags \cup {NoEntry}]]
    /\ seenCatTs \in [Workers -> Versions \cup {NoVersion}]
    /\ dirty \in [Workers -> BOOLEAN]
    /\ newTs \in [Workers -> Versions \cup {NoVersion}]
    /\ reply \in [Workers -> Status]

\* A fact is stored exactly when the catalog lists it, and the catalog's tags
\* are the ones inside the stored record (a peer read compares the two and
\* denies on a mismatch): whatever concurrent set_value and delete_value calls
\* interleave, the two Redis keys never disagree.
CatalogAgrees ==
    \A f \in Facts :
        catalog[f] = IF store[f] = Absent THEN NoEntry ELSE TagOf[store[f].val]

\* Concurrent first writes of different facts never overfill the catalog: the
\* size set_value checked is still the size when its EXEC succeeds.
WithinCapacity == Cardinality(Listed(catalog)) <= MaxEntries

\* A conditional write replaces the version it named, and nothing else: no
\* committed write of another writer is overwritten unseen by a set or delete
\* that carries expected_ts.
NoLostUpdate ==
    [][\A k \in Keys : store'[k] # store[k] =>
          \E w \in Workers :
              /\ pc[w] = "exec" /\ pc'[w] = "done"
              /\ req[w].key = k
              /\ req[w].expected \in {Unset, store[k].ts}]_redis

\* A version once given to a catalogued fact is never given again, even after
\* the fact was deleted and with a clock that steps back: every new version is
\* above the catalog's, which never decreases.  This is what makes comparing
\* expected_ts safe against delete-and-recreate (ABA).
VersionsNeverReused ==
    [][/\ catalogTs' >= catalogTs
       /\ \A f \in Facts :
              store'[f] \notin {store[f], Absent} =>
                  store'[f].ts > catalogTs /\ store'[f].ts <= catalogTs']_redis

\* A full catalog evicts nothing: an entry leaves the catalog only by a delete
\* of that very fact.
NoEviction ==
    [][\A f \in Facts :
          catalog[f] # NoEntry /\ catalog'[f] = NoEntry =>
              \E w \in Workers :
                  pc[w] = "exec" /\ pc'[w] = "done"
                  /\ req[w].key = f /\ req[w].op = "delete"]_redis

\* The three variables of the abstract catalog are this module's own; the rest of
\* its state (what each worker has read, watches and has prepared) is hidden.
Atomic == INSTANCE AtomicCatalog WITH
              store <- store, catalog <- catalog, catalogTs <- catalogTs

\* Every run of the WATCH / MULTI / EXEC transactions is a run of indivisible
\* conditional operations on the value and the catalog together.
ImplementsAtomicCatalog == Atomic!Spec

(***************************************************************************)
(* The inductive invariant behind them (MemxStoreProofs).                  *)
(***************************************************************************)

\* A transaction whose EXEC can still succeed has seen the present state of the
\* keys it watches: this is what WATCH buys.
SnapshotFresh(w) ==
    ~dirty[w] =>
        /\ pc[w] \in {"index", "decide", "exec"} => seenTs[w] = store[req[w].key].ts
        /\ pc[w] \in {"decide", "exec"} /\ Indexed(req[w]) =>
              seenCat[w] = catalog /\ seenCatTs[w] = catalogTs

\* A prepared write passed every test on what its transaction has seen.
PreparedChecked(w) ==
    pc[w] = "exec" =>
        /\ VersionMatches(w)
        /\ IF req[w].op = "set" THEN ~NoRoom(w) ELSE ~NothingToDelete(w)
        /\ NeedsVersion(w) => newTs[w] \in Versions /\ newTs[w] > Latest(w)

\* The index's version bounds the version of every fact.
FactsBelowCatalog == \A f \in Facts : store[f].ts <= catalogTs

\* What holds of each worker.
WorkerInv(w) ==
    /\ pc[w] # "idle" => req[w] \in Request
    /\ SnapshotFresh(w)
    /\ PreparedChecked(w)

IInv ==
    /\ TypeOK
    /\ \A w \in Workers : WorkerInv(w)
    /\ FactsBelowCatalog
    /\ CatalogAgrees
    /\ WithinCapacity
=============================================================================

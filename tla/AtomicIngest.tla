----------------------------- MODULE AtomicIngest -----------------------------
(***************************************************************************)
(* What ingest() promises its callers.  A call writes at most once and     *)
(* atomically, over exactly the record it was decided on, or learns a      *)
(* reason not to write that was true at one instant of the call.  A call   *)
(* that ends in "error" may leave its write behind; even then the write    *)
(* lands over nothing but what the call had read.  There are no workers,   *)
(* transactions, stale reads or counted attempts here (Ingestor has them). *)
(***************************************************************************)
EXTENDS AtomicCatalog

CONSTANTS Clients, Calls, Slots, NoCall, NoSlot

VARIABLES
    call,       \* the call each client makes
    basis,      \* the record it was decided on
    slot,       \* the write it waits for
    result,     \* how its last call ended
    write       \* the writes that were sent off and are not over

promised == <<store, catalog, catalogTs, call, basis, slot, result, write>>
NoWrite == [op |-> "none", key |-> Profile, val |-> NoValue, basis |-> Absent,
            standing |-> "none"]

IngestInit ==
    /\ Init
    /\ call = [c \in Clients |-> NoCall]
    /\ basis = [c \in Clients |-> Absent]
    /\ slot = [c \in Clients |-> NoSlot]
    /\ result = [c \in Clients |-> "none"]
    /\ write = [s \in Slots |-> NoWrite]

\* A profile is decided on the version shown to the model before the call.
Begin(c, o) ==
    /\ call[c] = NoCall
    /\ call' = [call EXCEPT ![c] = o]
    /\ basis' = [basis EXCEPT ![c] = IF o.kind = "profile" THEN store[Profile] ELSE Absent]
    /\ result' = [result EXCEPT ![c] = "none"]
    /\ UNCHANGED <<store, catalog, catalogTs, slot, write>>

Deciding(c) == call[c] # NoCall /\ slot[c] = NoSlot

Look(c) ==
    /\ Deciding(c)
    /\ call[c].kind # "profile"
    /\ basis' = [basis EXCEPT ![c] = store[call[c].key]]
    /\ UNCHANGED <<store, catalog, catalogTs, call, slot, result, write>>

Send(c, s) ==
    /\ Deciding(c)
    /\ write[s] = NoWrite
    /\ slot' = [slot EXCEPT ![c] = s]
    /\ write' = [write EXCEPT ![s] =
                    [op |-> IF call[c].kind = "delete" THEN "delete" ELSE "set",
                     key |-> call[c].key, val |-> call[c].val, basis |-> basis[c],
                     standing |-> "open"]]
    /\ UNCHANGED <<store, catalog, catalogTs, call, basis, result>>

-----------------------------------------------------------------------------
Becomes(s, r) ==
    /\ write[s].standing = "open"
    /\ write' = [write EXCEPT ![s].standing = r]
    /\ UNCHANGED <<call, basis, slot, result>>

\* The whole effect of a call, in one step, on the record it was decided on.
Land(s) ==
    LET k == write[s].key IN
    /\ store[k] = write[s].basis
    /\ \/ /\ write[s].op = "set"
          /\ \E ver \in Versions :
                IF k \in Facts THEN PutFact(k, write[s].val, ver)
                               ELSE PutPlain(write[s].val, ver)
          /\ Becomes(s, "committed")
       \/ /\ write[s].op = "delete"
          /\ \E ver \in Versions : RemoveFact(k, ver)
          /\ Becomes(s, "deleted")

\* A reason not to write holds at this instant.
Reason(s, r) ==
    LET k == write[s].key IN
    \/ r = "conflict" /\ store[k].ts # write[s].basis.ts
    \/ r = "absent" /\ write[s].op = "delete" /\ store[k] = Absent
    \/ /\ r = "catalog_full" /\ write[s].op = "set"
       /\ k \in Facts \ Listed /\ Cardinality(Listed) >= MaxEntries

Learn(s, r) ==
    /\ Reason(s, r)
    /\ Becomes(s, r)
    /\ UNCHANGED <<store, catalog, catalogTs>>

Break(s) ==
    /\ Becomes(s, "server_error")
    /\ UNCHANGED <<store, catalog, catalogTs>>

-----------------------------------------------------------------------------
Return(c, r) ==
    /\ call' = [call EXCEPT ![c] = NoCall]
    /\ basis' = [basis EXCEPT ![c] = Absent]
    /\ slot' = [slot EXCEPT ![c] = NoSlot]
    /\ result' = [result EXCEPT ![c] = r]
    /\ UNCHANGED <<store, catalog, catalogTs>>

Over(s) == write' = [write EXCEPT ![s] = NoWrite]

Answer(c, s) ==
    /\ slot[c] = s
    /\ write[s].standing \notin {"open", "conflict"}
    /\ Over(s)
    /\ Return(c, IF write[s].standing = "server_error" THEN "error" ELSE write[s].standing)

\* The record has moved: decide again, or say so.
Again(c, s) ==
    /\ slot[c] = s
    /\ write[s].standing = "conflict"
    /\ call[c].kind # "profile"
    /\ Over(s)
    /\ slot' = [slot EXCEPT ![c] = NoSlot]
    /\ UNCHANGED <<store, catalog, catalogTs, call, basis, result>>

Outdated(c, s) ==
    /\ slot[c] = s
    /\ write[s].standing = "conflict"
    /\ Over(s)
    /\ Return(c, IF call[c].kind = "profile" THEN "profile_conflict" ELSE "retryable_failure")

ProfileMoved(c) ==
    /\ Deciding(c)
    /\ call[c].kind = "profile"
    /\ store[Profile].ts # basis[c].ts
    /\ Return(c, "profile_conflict")
    /\ UNCHANGED write

\* The outcome is not known to the caller, and a write it sent may still land.
Fail(c) ==
    /\ call[c] # NoCall
    /\ Return(c, "error")
    /\ UNCHANGED write

\* Nobody waits for the write, and it cannot land any more.
Expire(s) ==
    /\ \A c \in Clients : slot[c] # s
    /\ write[s].standing # "open"
    /\ Over(s)
    /\ UNCHANGED <<store, catalog, catalogTs, call, basis, slot, result>>

IngestNext ==
    \/ \E c \in Clients :
          \/ \E o \in Calls : Begin(c, o)
          \/ Look(c) \/ ProfileMoved(c) \/ Fail(c)
          \/ \E s \in Slots : Send(c, s) \/ Answer(c, s) \/ Again(c, s) \/ Outdated(c, s)
    \/ \E s \in Slots :
          \/ Land(s) \/ Break(s) \/ Expire(s)
          \/ \E r \in {"conflict", "absent", "catalog_full"} : Learn(s, r)

IngestSpec == IngestInit /\ [][IngestNext]_promised
=============================================================================

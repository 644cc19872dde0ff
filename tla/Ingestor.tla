------------------------------ MODULE Ingestor ------------------------------
(***************************************************************************)
(* PrincipalMemoryIngestor.ingest (familia/principal_memory_ingestor.py):  *)
(* the one conditional writer of Familia, on top of the memX transactions  *)
(* of MemxStore.  A call reads the record over HTTP, posts a set or delete *)
(* that names the version it read, and starts over on a conflict, at most  *)
(* MaxAttempts times.  Any request can fail and any reply can be lost      *)
(* (httpx errors, the 5 s timeout) while memX goes on executing it.        *)
(*                                                                         *)
(* A "client" is one coroutine that makes calls one after another: the     *)
(* chat turn's memory_set, the archive handler, the Dream turn.  A profile *)
(* call carries the version of the snapshot run_dream took before its      *)
(* analysis (expected_version).                                            *)
(***************************************************************************)
EXTENDS MemxStore

CONSTANTS
    Clients,
    Calls,          \* the operations clients ask for
    MaxAttempts,    \* _MAX_CAS_ATTEMPTS (3 in the code)
    MaxCalls        \* bound on the calls of one client

Call == [kind : {"memory"}, key : Facts, val : Values]
        \cup [kind : {"delete"}, key : Facts, val : {NoValue}]
        \cup [kind : {"profile"}, key : {Profile}, val : Values]
NoCall == [kind |-> "none", key |-> Profile, val |-> NoValue]
NoWorker == "none"

ASSUME IngestorConstants ==
    /\ Calls \subseteq Call
    /\ MaxAttempts \in Nat \ {0}
    /\ MaxCalls \in Nat
    /\ NoWorker \notin Workers \cup Clients
    /\ {r \in Request : r.expected # Unset} \subseteq Requests

VARIABLES
    phase,      \* where each client is in ingest()
    call,       \* the operation it executes
    basis,      \* the record the write is based on: read in this attempt, or
                \* (profile) the snapshot taken before the analysis
    attempt,    \* _attempt, from 1
    worker,     \* the memX worker its POST reached
    result,     \* the status of the last finished call
    calls,      \* calls begun (bounds the model)
    origin,     \* history: the call behind each worker's request, with its basis
    landed      \* history: EXECs of the latest call, also after it returned

history == <<origin, landed>>
clientVars == <<phase, call, basis, attempt, worker, result, calls, history>>
allVars == <<vars, clientVars>>

Written == {"committed", "deleted"}
Unwritten == {"absent", "profile_conflict", "catalog_full", "retryable_failure"}
Results == {"none", "error"} \cup Written \cup Unwritten

NoOrigin == [client |-> NoWorker, no |-> 0, basis |-> Absent]

IInit ==
    /\ Init
    /\ phase = [c \in Clients |-> "idle"]
    /\ call = [c \in Clients |-> NoCall]
    /\ basis = [c \in Clients |-> Absent]
    /\ attempt = [c \in Clients |-> 0]
    /\ worker = [c \in Clients |-> NoWorker]
    /\ result = [c \in Clients |-> "none"]
    /\ calls = [c \in Clients |-> 0]
    /\ origin = [w \in Workers |-> NoOrigin]
    /\ landed = [c \in Clients |-> 0]

\* Dream reads the profile and its version when the run starts.
Begin(c, o) ==
    /\ phase[c] = "idle"
    /\ calls[c] < MaxCalls
    /\ phase' = [phase EXCEPT ![c] = "read"]
    /\ call' = [call EXCEPT ![c] = o]
    /\ basis' = [basis EXCEPT ![c] = IF o.kind = "profile" THEN store[Profile] ELSE Absent]
    /\ attempt' = [attempt EXCEPT ![c] = 1]
    /\ result' = [result EXCEPT ![c] = "none"]
    /\ calls' = [calls EXCEPT ![c] = @ + 1]
    /\ landed' = [landed EXCEPT ![c] = 0]
    /\ UNCHANGED <<vars, worker, origin>>

\* ingest() returns r.
Return(c, r) ==
    /\ phase' = [phase EXCEPT ![c] = "idle"]
    /\ call' = [call EXCEPT ![c] = NoCall]
    /\ basis' = [basis EXCEPT ![c] = Absent]
    /\ attempt' = [attempt EXCEPT ![c] = 0]
    /\ worker' = [worker EXCEPT ![c] = NoWorker]
    /\ result' = [result EXCEPT ![c] = r]
    /\ UNCHANGED <<calls, landed>>

\* The worker is done with its request: the response was read or dropped.
Release(w) ==
    /\ Finish(w)
    /\ origin' = [origin EXCEPT ![w] = NoOrigin]

\* GET /get: the current record (one Redis command in memX).
Read(c) ==
    /\ phase[c] = "read"
    /\ IF call[c].kind = "profile"
       THEN /\ store[Profile].ts = basis[c].ts
            /\ UNCHANGED basis
       ELSE basis' = [basis EXCEPT ![c] = store[call[c].key]]
    /\ phase' = [phase EXCEPT ![c] = "post"]
    /\ UNCHANGED <<vars, call, attempt, worker, result, calls, history>>

ProfileMoved(c) ==
    /\ phase[c] = "read"
    /\ call[c].kind = "profile"
    /\ store[Profile].ts # basis[c].ts
    /\ Return(c, "profile_conflict")
    /\ UNCHANGED <<vars, origin>>

\* Fault: a profile is written over whatever version is current at the POST.
RequestAtCurrentProfile(c) ==
    [op |-> IF call[c].kind = "delete" THEN "delete" ELSE "set",
     key |-> call[c].key, val |-> call[c].val, expected |-> store[call[c].key].ts]

RequestOf(c) ==
    [op |-> IF call[c].kind = "delete" THEN "delete" ELSE "set",
     key |-> call[c].key, val |-> call[c].val, expected |-> basis[c].ts]

\* POST /set or /delete with expected_ts.
Post(c, w) ==
    /\ phase[c] = "post"
    /\ Submit(w, RequestOf(c))
    /\ phase' = [phase EXCEPT ![c] = "wait"]
    /\ worker' = [worker EXCEPT ![c] = w]
    /\ origin' = [origin EXCEPT ![w] =
                     [client |-> c, no |-> calls[c], basis |-> basis[c]]]
    /\ UNCHANGED <<call, basis, attempt, result, calls, landed>>

\* The GET or the POST fails before memX executes anything.
RequestFails(c) ==
    /\ phase[c] \in {"read", "post"}
    /\ Return(c, "error")
    /\ UNCHANGED <<vars, origin>>

\* Fault: a lost reply is reported as a failed commit.
ReplyLostReportedUnwritten(c) ==
    /\ phase[c] = "wait"
    /\ Return(c, "retryable_failure")
    /\ UNCHANGED <<vars, origin>>

\* The POST times out or its reply is lost; memX is not told and goes on.
ReplyLost(c) ==
    /\ phase[c] = "wait"
    /\ Return(c, "error")
    /\ UNCHANGED <<vars, origin>>

Verdict(status) == IF status = "server_error" THEN "error" ELSE status

\* A reply other than a conflict ends the call.
Answered(c) ==
    /\ phase[c] = "wait"
    /\ Release(worker[c])
    /\ reply[worker[c]] # "conflict"
    /\ Return(c, Verdict(reply[worker[c]]))

\* A conflict: read again, unless the profile may not be re-read or the
\* attempts are used up.
ConflictAgain(c) ==
    /\ phase[c] = "wait"
    /\ Release(worker[c])
    /\ reply[worker[c]] = "conflict"
    /\ call[c].kind # "profile"
    /\ attempt[c] < MaxAttempts
    /\ phase' = [phase EXCEPT ![c] = "read"]
    /\ attempt' = [attempt EXCEPT ![c] = @ + 1]
    /\ worker' = [worker EXCEPT ![c] = NoWorker]
    /\ UNCHANGED <<call, basis, result, calls, landed>>

ConflictEnds(c) ==
    /\ phase[c] = "wait"
    /\ Release(worker[c])
    /\ reply[worker[c]] = "conflict"
    /\ \/ call[c].kind = "profile" /\ Return(c, "profile_conflict")
       \/ call[c].kind # "profile" /\ attempt[c] = MaxAttempts
          /\ Return(c, "retryable_failure")

\* This step is the EXEC of w's transaction.
Commits(w) == pc[w] = "exec" /\ pc'[w] = "done"

\* memX progress on a request, with or without a client still waiting.
ServerStep(w) ==
    /\ WorkerStep(w)
    /\ landed' = [c \in Clients |->
                    IF /\ Commits(w)
                       /\ origin[w].client = c
                       /\ origin[w].no = calls[c]
                    THEN landed[c] + 1 ELSE landed[c]]
    /\ UNCHANGED <<phase, call, basis, attempt, worker, result, calls, origin>>

\* The response of a request nobody waits for any more.
DropReply(w) ==
    /\ \A c \in Clients : worker[c] # w
    /\ Release(w)
    /\ UNCHANGED <<phase, call, basis, attempt, worker, result, calls, landed>>

ClientStep(c) ==
    \/ Read(c) \/ ProfileMoved(c)
    \/ \E w \in Workers : Post(c, w)
    \/ RequestFails(c) \/ ReplyLost(c)
    \/ Answered(c) \/ ConflictAgain(c) \/ ConflictEnds(c)

INext ==
    \/ \E c \in Clients :
          \/ \E o \in Calls : Begin(c, o)
          \/ ClientStep(c)
    \/ \E w \in Workers : ServerStep(w) \/ DropReply(w)

ISpec == IInit /\ [][INext]_allVars

-----------------------------------------------------------------------------
(***************************************************************************)
(* Properties                                                              *)
(***************************************************************************)

\* The local variables of ingest() and the histories have their kinds.
IngestTypeOK ==
    /\ phase \in [Clients -> {"idle", "read", "post", "wait"}]
    /\ call \in [Clients -> Calls \cup {NoCall}]
    /\ basis \in [Clients -> Record]
    /\ attempt \in [Clients -> 0..MaxAttempts]
    /\ worker \in [Clients -> Workers \cup {NoWorker}]
    /\ result \in [Clients -> Results]
    /\ calls \in [Clients -> 0..MaxCalls]
    /\ \A c \in Clients : landed[c] \in Nat

\* Whatever a call writes, sooner or later, replaces exactly the record the
\* call was decided on - the same value, not merely an equal version: for a
\* fact the one read in this attempt, for a Dream's profile the one shown to
\* the model.  It holds for a write memX commits after the client gave up,
\* and when the fact was deleted and stored again in between.
ReplacesWhatWasRead ==
    [][\A w \in Workers :
          Commits(w) => store[req[w].key] = origin[w].basis]_allVars

\* The result tells the truth about the store.  A call lands at most once;
\* "committed:" and "deleted:" mean it landed; "absent:", "profile_conflict:",
\* "catalog_full:" and "retryable_failure:" mean it has not and never will,
\* not even from a request still inside memX.  Only "error:" leaves it open.
ResultsAreHonest ==
    \A c \in Clients :
        /\ landed[c] <= 1
        /\ result[c] \in Written => landed[c] = 1
        /\ result[c] \in Unwritten =>
              /\ landed[c] = 0
              /\ \A w \in Workers : ~(origin[w].client = c /\ origin[w].no = calls[c])
\* How the write in worker w stands: what memX will do with it, as soon as
\* what it has read settles that.
Standing(w) ==
    IF pc[w] = "done" THEN reply[w]
    ELSE IF pc[w] \in {"index", "decide"} /\ ~VersionMatches(w) THEN "conflict"
    ELSE IF pc[w] = "decide" /\ req[w].op = "set" /\ NoRoom(w) THEN "catalog_full"
    ELSE IF pc[w] = "decide" /\ req[w].op = "delete" /\ NothingToDelete(w) THEN "absent"
    ELSE "open"

WriteOf(w) ==
    IF pc[w] = "idle"
    THEN [op |-> "none", key |-> Profile, val |-> NoValue, basis |-> Absent, standing |-> "none"]
    ELSE [op |-> req[w].op, key |-> req[w].key, val |-> req[w].val,
          basis |-> origin[w].basis, standing |-> Standing(w)]

Promise == INSTANCE AtomicIngest WITH
    Slots <- Workers, NoSlot <- NoWorker, slot <- worker,
    write <- [w \in Workers |-> WriteOf(w)]

\* A call of ingest() is atomic for every caller: through stale reads, WATCH
\* errors, retries, timeouts and lost replies it either writes once, in one
\* step, over the very record it was decided on, or returns a reason that was
\* true of the store at one instant of the call ("absent:": the fact was not
\* there, "catalog_full:": no room for its name, "profile_conflict:" and
\* "retryable_failure:": somebody else wrote); a write left behind by "error:"
\* lands by the same rule or never.
CallsAreAtomic == Promise!IngestSpec
=============================================================================

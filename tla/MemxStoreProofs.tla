--------------------------- MODULE MemxStoreProofs ---------------------------
(***************************************************************************)
(* Proofs about MemxStore, for every set of facts, values and workers,     *)
(* every capacity and every range of versions, and then about Ingestor,    *)
(* which writes through it, for every set of clients and calls and every   *)
(* number of attempts.                                                     *)
(***************************************************************************)
EXTENDS Ingestor, FiniteSetTheorems, TLAPS

USE MemxConstants

\* The version of a record, absent or not.
LEMMA RecordVersion ==
    ASSUME NEW r \in Record
    PROVE  r.ts \in Versions \cup {NoVersion}
BY DEF Record, Absent

\* What a request carries.
LEMMA RequestFields ==
    ASSUME NEW r \in Request \cup {NoRequest}
    PROVE  /\ r.key \in Keys
           /\ r.expected \in Versions \cup {NoVersion, Unset}
           /\ r \in Request /\ r.op = "set" => r.val \in Values
           /\ r \in Request => r.op \in {"set", "delete"}
BY DEF Request, SetRequest, DeleteRequest, NoRequest, Keys

\* A version chosen by _next_version is above everything it was given.
LEMMA NextVersionAbove ==
    ASSUME NEW now \in Versions, NEW latest \in Versions \cup {NoVersion}
    PROVE  NextVersion(now, latest) \in Nat /\ NextVersion(now, latest) > latest
BY DEF NextVersion, Versions, NoVersion

LEMMA ForgetType ==
    ASSUME TypeOK, NEW w \in Workers, Forget(w)
    PROVE  /\ seenTs' \in [Workers -> Versions \cup {NoVersion}]
           /\ seenCat' \in [Workers -> [Facts -> Tags \cup {NoEntry}]]
           /\ seenCatTs' \in [Workers -> Versions \cup {NoVersion}]
           /\ newTs' \in [Workers -> Versions \cup {NoVersion}]
BY DEF TypeOK, Forget, EmptyCatalog

\* The Redis contents after EXEC are records and entries again.
LEMMA ExecRedisType ==
    ASSUME IInv, NEW w \in Workers, Exec(w)
    PROVE  /\ store' \in [Keys -> Record]
           /\ catalog' \in [Facts -> Tags \cup {NoEntry}]
           /\ catalogTs' \in Versions \cup {NoVersion}
<1>1. /\ req[w] \in Request /\ req[w].key \in Keys
      /\ req[w].op = "set" => req[w].val \in Values
  BY RequestFields DEF IInv, WorkerInv, TypeOK, Exec
<1>2. req[w].op = "set" => newTs[w] \in Versions
  BY DEF IInv, WorkerInv, PreparedChecked, NeedsVersion, Exec
<1>3. store' \in [Keys -> Record]
  <2>1. CASE req[w].op = "set"
    <3>1. [val |-> req[w].val, ts |-> newTs[w]] \in Record
      BY <1>1, <1>2, <2>1 DEF Record
    <3>2. store' = [store EXCEPT ![req[w].key] = [val |-> req[w].val, ts |-> newTs[w]]]
      BY <2>1 DEF Exec
    <3>. QED  BY <3>1, <3>2 DEF IInv, TypeOK
  <2>2. CASE req[w].op # "set"
    <3>1. store' = [store EXCEPT ![req[w].key] = Absent]
      BY <2>2 DEF Exec
    <3>. QED  BY <3>1 DEF IInv, TypeOK, Record
  <2>. QED  BY <2>1, <2>2
<1>4. /\ catalog' \in [Facts -> Tags \cup {NoEntry}]
      /\ catalogTs' \in Versions \cup {NoVersion}
  <2>1. CASE WritesIndex(w)
    <3>1. newTs[w] \in Versions
      BY <2>1 DEF IInv, WorkerInv, PreparedChecked, NeedsVersion, Exec
    <3>2. (IF req[w].op = "set" THEN TagOf[req[w].val] ELSE NoEntry) \in Tags \cup {NoEntry}
      BY <1>1
    <3>3. seenCat[w] \in [Facts -> Tags \cup {NoEntry}]
      BY DEF IInv, TypeOK
    <3>. QED  BY <2>1, <3>1, <3>2, <3>3 DEF Exec
  <2>2. CASE ~WritesIndex(w)
    BY <2>2 DEF Exec, IInv, TypeOK
  <2>. QED  BY <2>1, <2>2
<1>. QED  BY <1>3, <1>4

LEMMA StepType ==
    ASSUME IInv, Next
    PROVE  TypeOK'
<1> USE DEF TypeOK, redis, IInv
<1>1. ASSUME NEW w \in Workers, NEW r \in Requests, Submit(w, r)  PROVE TypeOK'
  BY <1>1 DEF Submit
<1>2. ASSUME NEW w \in Workers, Watch(w)  PROVE TypeOK'
  BY <1>2 DEF Watch
<1>3. ASSUME NEW w \in Workers, GetValue(w)  PROVE TypeOK'
  <2>1. store[req[w].key].ts \in Versions \cup {NoVersion}
    BY RequestFields, RecordVersion
  <2>. QED  BY <1>3, <2>1 DEF GetValue
<1>4. ASSUME NEW w \in Workers, GetIndex(w)  PROVE TypeOK'
  BY <1>4 DEF GetIndex
<1>5. ASSUME NEW w \in Workers, NEW s \in Status, Refuse(w, s)  PROVE TypeOK'
  BY <1>5, ForgetType DEF Refuse
<1>6. ASSUME NEW w \in Workers, NEW now \in Clocks, Prepare(w, now)  PROVE TypeOK'
  BY <1>6 DEF Prepare
<1>7. ASSUME NEW w \in Workers, Retry(w)  PROVE TypeOK'
  BY <1>7, ForgetType DEF Retry
<1>8. ASSUME NEW w \in Workers, Exec(w)  PROVE TypeOK'
  <2>1. /\ pc' \in [Workers -> {"idle", "watch", "get", "index", "decide", "exec", "done"}]
        /\ dirty' \in [Workers -> BOOLEAN]
        /\ reply' \in [Workers -> Status]
        /\ req' = req
    BY <1>8 DEF Exec, Status
  <2>. QED  BY <1>8, <2>1, ForgetType, ExecRedisType DEF Exec
<1>9. ASSUME NEW w \in Workers, Finish(w)  PROVE TypeOK'
  BY <1>9 DEF Finish, Status
<1>. QED
  BY <1>1, <1>2, <1>3, <1>4, <1>5, <1>6, <1>7, <1>8, <1>9
     DEF Next, WorkerStep, Conflict, CatalogFull, NothingThere, VersionExhausted, Status

-----------------------------------------------------------------------------
(***************************************************************************)
(* Steps that leave Redis alone: only the worker that moves needs a look.  *)
(***************************************************************************)

\* A worker none of whose variables change keeps its part, while Redis does.
LEMMA OtherWorkerKept ==
    ASSUME IInv, NEW v \in Workers,
           pc'[v] = pc[v], req'[v] = req[v], seenTs'[v] = seenTs[v],
           seenCat'[v] = seenCat[v], seenCatTs'[v] = seenCatTs[v],
           newTs'[v] = newTs[v], dirty'[v] = dirty[v], UNCHANGED redis
    PROVE  WorkerInv(v)'
BY DEF IInv, WorkerInv, SnapshotFresh, PreparedChecked, VersionMatches, NoRoom,
       NothingToDelete, NameListed, NeedsVersion, WritesIndex, Latest, Indexed,
       Listed, redis

LEMMA QuietStep ==
    ASSUME IInv, NEW w \in Workers, UNCHANGED redis,
           \/ \E r \in Requests : Submit(w, r)
           \/ Watch(w) \/ GetValue(w) \/ GetIndex(w)
           \/ pc[w] = "decide" /\ \E s \in Status : Refuse(w, s)
           \/ \E now \in Clocks : Prepare(w, now)
           \/ Retry(w)
           \/ Finish(w)
    PROVE  \A v \in Workers : WorkerInv(v)'
<1> USE DEF redis
<1>1. ASSUME NEW v \in Workers, v # w  PROVE WorkerInv(v)'
  <2>1. /\ pc'[v] = pc[v] /\ req'[v] = req[v] /\ seenTs'[v] = seenTs[v]
        /\ seenCat'[v] = seenCat[v] /\ seenCatTs'[v] = seenCatTs[v]
        /\ newTs'[v] = newTs[v] /\ dirty'[v] = dirty[v]
    BY <1>1 DEF IInv, TypeOK, Submit, Watch, GetValue, GetIndex, Refuse, Prepare,
                Retry, Finish, Forget
  <2>. QED  BY <2>1, OtherWorkerKept
<1>2. WorkerInv(w)'
  <2> USE DEF WorkerInv, SnapshotFresh, PreparedChecked
  <2>1. ASSUME NEW r \in Requests, Submit(w, r)  PROVE WorkerInv(w)'
    BY <2>1 DEF Submit, IInv, TypeOK
  <2>2. CASE Watch(w)
    BY <2>2 DEF Watch, IInv, TypeOK
  <2>3. CASE GetValue(w)
    BY <2>3 DEF GetValue, IInv, TypeOK, Indexed
  <2>4. CASE GetIndex(w)
    BY <2>4 DEF GetIndex, IInv, TypeOK, Indexed
  <2>5. ASSUME NEW s \in Status, pc[w] = "decide", Refuse(w, s)  PROVE WorkerInv(w)'
    BY <2>5 DEF Refuse, IInv, TypeOK
  <2>6. ASSUME NEW now \in Clocks, Prepare(w, now)  PROVE WorkerInv(w)'
    <3>1. Latest(w) \in Versions \cup {NoVersion}
      BY DEF IInv, TypeOK, Latest
    <3>2. /\ pc'[w] = "exec" /\ pc[w] = "decide"
          /\ req' = req /\ seenTs' = seenTs /\ seenCat' = seenCat
          /\ seenCatTs' = seenCatTs /\ dirty' = dirty
          /\ NeedsVersion(w) => newTs'[w] = NextVersion(now, Latest(w))
                                /\ NextVersion(now, Latest(w)) \in Versions
      BY <2>6 DEF Prepare, Accepted, IInv, TypeOK
    <3>3. NeedsVersion(w) => newTs'[w] \in Versions /\ newTs'[w] > Latest(w)
      BY <3>1, <3>2, NextVersionAbove
    <3>4. SnapshotFresh(w)'
      BY <3>2 DEF IInv, WorkerInv, Indexed
    <3>5. PreparedChecked(w)'
      BY <2>6, <3>2, <3>3
         DEF Prepare, Accepted, VersionMatches, NoRoom, NothingToDelete, NameListed,
             NeedsVersion, WritesIndex, Latest, Indexed, Listed
    <3>. QED  BY <3>2, <3>4, <3>5 DEF IInv, WorkerInv
  <2>7. CASE Retry(w)
    BY <2>7 DEF Retry, IInv, TypeOK
  <2>8. CASE Finish(w)
    BY <2>8 DEF Finish, IInv, TypeOK
  <2>. QED  BY <2>1, <2>2, <2>3, <2>4, <2>5, <2>6, <2>7, <2>8
<1>. QED  BY <1>1, <1>2

-----------------------------------------------------------------------------
(***************************************************************************)
(* EXEC.                                                                   *)
(***************************************************************************)

\* What a successful EXEC does, in terms of the present state: the snapshot it
\* decided on is the state it writes.
LEMMA ExecEffect ==
    ASSUME IInv, NEW w \in Workers, Exec(w), NEW k, k = req[w].key
    PROVE  /\ req[w] \in Request /\ k \in Keys
           /\ req[w].expected \in {Unset, store[k].ts}
           /\ req[w].op = "set" =>
                /\ req[w].val \in Values /\ newTs[w] \in Versions
                /\ newTs[w] > store[k].ts
                /\ store' = [store EXCEPT ![k] = [val |-> req[w].val, ts |-> newTs[w]]]
           /\ req[w].op = "delete" => store' = [store EXCEPT ![k] = Absent]
           /\ req[w].op \in {"set", "delete"}
           /\ k = Profile => UNCHANGED <<catalog, catalogTs>>
           /\ k \in Facts =>
                /\ newTs[w] \in Versions /\ newTs[w] > catalogTs /\ catalogTs' = newTs[w]
                /\ req[w].op = "set" =>
                     /\ catalog[k] # NoEntry \/ Cardinality(Listed(catalog)) < MaxEntries
                     /\ catalog' = [catalog EXCEPT ![k] = TagOf[req[w].val]]
                /\ req[w].op = "delete" =>
                     /\ catalog[k] # NoEntry
                     /\ catalog' = [catalog EXCEPT ![k] = NoEntry]
<1>1. pc[w] = "exec" /\ ~dirty[w]
  BY DEF Exec
<1>2. /\ req[w] \in Request /\ k \in Keys
      /\ req[w].op \in {"set", "delete"}
      /\ req[w].op = "set" => req[w].val \in Values
  BY <1>1, RequestFields DEF IInv, WorkerInv, TypeOK
<1>3. /\ seenTs[w] = store[k].ts
      /\ k \in Facts => seenCat[w] = catalog /\ seenCatTs[w] = catalogTs
  BY <1>1 DEF IInv, WorkerInv, SnapshotFresh, Indexed
<1>4. /\ store[k].ts \in Versions \cup {NoVersion}
      /\ catalogTs \in Versions \cup {NoVersion}
  BY <1>2, RecordVersion DEF IInv, TypeOK
<1>5. k \in Facts => store[k].ts <= catalogTs
  BY DEF IInv, FactsBelowCatalog
<1>6. k \in Facts => (catalog[k] # NoEntry <=> store[k] # Absent)
  BY <1>2 DEF IInv, TypeOK, CatalogAgrees, Record
<1>7. /\ req[w].expected \in {Unset, store[k].ts}
      /\ NeedsVersion(w) => newTs[w] \in Versions /\ newTs[w] > Latest(w)
      /\ IF req[w].op = "set" THEN ~NoRoom(w) ELSE ~NothingToDelete(w)
  BY <1>1, <1>3 DEF IInv, WorkerInv, PreparedChecked, VersionMatches
<1>8. CASE k = Profile
  <2>1. ~WritesIndex(w)
    BY <1>8 DEF WritesIndex, Indexed
  <2>2. Latest(w) = store[k].ts
    BY <1>8, <1>3 DEF Latest, Indexed
  <2>. QED  BY <1>2, <1>7, <1>8, <2>1, <2>2 DEF Exec, NeedsVersion
<1>9. CASE k \in Facts
  <2>1. Latest(w) = catalogTs
    BY <1>3, <1>4, <1>5, <1>9 DEF Latest, Indexed, Versions, NoVersion
  <2>2. store[k] # Absent => store[k].ts # NoVersion
    <3>1. store[k] \in Record
      BY <1>2 DEF IInv, TypeOK
    <3>. QED  BY <3>1 DEF Record, Absent, Versions, NoVersion
  <2>3. req[w].op = "delete" => NameListed(w) /\ catalog[k] # NoEntry
    BY <1>3, <1>6, <1>7, <1>9, <2>2
       DEF NothingToDelete, NameListed, Indexed, Absent
  <2>4. WritesIndex(w) /\ NeedsVersion(w)
    BY <1>2, <1>9, <2>3 DEF WritesIndex, NeedsVersion, Indexed
  <2>5. /\ newTs[w] \in Versions /\ newTs[w] > catalogTs /\ catalogTs' = newTs[w]
        /\ newTs[w] > store[k].ts
    <3>1. catalogTs' = newTs[w]
      BY <2>4 DEF Exec
    <3>2. newTs[w] \in Versions /\ newTs[w] > catalogTs
      BY <1>7, <2>1, <2>4
    <3>. QED  BY <1>4, <1>5, <1>9, <3>1, <3>2 DEF Versions, NoVersion
  <2>6. req[w].op = "set" => catalog[k] # NoEntry \/ Cardinality(Listed(catalog)) < MaxEntries
    <3>1. Cardinality(Listed(catalog)) \in Nat
      BY FS_Subset, FS_CardinalityType DEF Listed
    <3>. QED  BY <1>3, <1>7, <1>9, <3>1 DEF NoRoom, NameListed, Indexed
  <2>. QED  BY <1>2, <1>3, <1>7, <1>9, <2>3, <2>4, <2>5, <2>6 DEF Exec
<1>. QED  BY <1>2, <1>8, <1>9 DEF Keys

\* EXEC keeps the invariant of every worker: whoever watched a key it wrote is
\* dirty, and whoever did not still sees what he saw.
LEMMA ExecWorkers ==
    ASSUME IInv, NEW w \in Workers, Exec(w), NEW v \in Workers
    PROVE  WorkerInv(v)'
<1>1. CASE v = w
  BY <1>1, ExecEffect
     DEF Exec, IInv, TypeOK, WorkerInv, SnapshotFresh, PreparedChecked
<1>2. CASE v # w
  <2>1. /\ pc'[v] = pc[v] /\ req'[v] = req[v] /\ seenTs'[v] = seenTs[v]
        /\ seenCat'[v] = seenCat[v] /\ seenCatTs'[v] = seenCatTs[v]
        /\ newTs'[v] = newTs[v]
        /\ dirty'[v] = (dirty[v] \/ v \in TouchedBy(w))
    BY <1>2 DEF Exec, Forget, IInv, TypeOK
  <2>2. PreparedChecked(v)'
    BY <2>1, ZenonT(60) DEF IInv, WorkerInv, PreparedChecked, VersionMatches, NoRoom, NothingToDelete,
                NameListed, NeedsVersion, WritesIndex, Latest, Indexed, Listed
  <2>3. SnapshotFresh(v)'
    <3>1. SUFFICES ASSUME ~dirty'[v], pc[v] \in {"index", "decide", "exec"}
                   PROVE  /\ seenTs[v] = store'[req[v].key].ts
                          /\ pc[v] \in {"decide", "exec"} /\ Indexed(req[v]) =>
                                seenCat[v] = catalog' /\ seenCatTs[v] = catalogTs'
      BY <2>1 DEF SnapshotFresh, Indexed
    <3>2. ~dirty[v] /\ v \notin TouchedBy(w) /\ Watching(v)
      BY <2>1, <3>1 DEF IInv, TypeOK, Watching
    <3>3. req[v].key # req[w].key /\ ~(Indexed(req[v]) /\ WritesIndex(w))
      BY <1>2, <3>2 DEF TouchedBy
    <3>4. store'[req[v].key] = store[req[v].key]
      <4>1. req[v].key \in Keys /\ store \in [Keys -> Record]
        BY RequestFields DEF IInv, TypeOK
      <4>. QED  BY <3>3, <4>1, ExecEffect
    <3>5. Indexed(req[v]) => catalog' = catalog /\ catalogTs' = catalogTs
      BY <3>3 DEF Exec
    <3>. QED  BY <3>1, <3>2, <3>4, <3>5 DEF IInv, WorkerInv, SnapshotFresh
  <2>. QED  BY <2>1, <2>2, <2>3 DEF IInv, WorkerInv
<1>. QED  BY <1>1, <1>2

LEMMA ExecRedis ==
    ASSUME IInv, NEW w \in Workers, Exec(w)
    PROVE  FactsBelowCatalog' /\ CatalogAgrees' /\ WithinCapacity'
<1> DEFINE k == req[w].key
<1> HIDE DEF k
<1>0. k = req[w].key
  BY DEF k
<1>1. store \in [Keys -> Record] /\ catalog \in [Facts -> Tags \cup {NoEntry}]
  BY DEF IInv, TypeOK
<1>2. catalogTs \in Versions \cup {NoVersion}
      /\ \A f \in Facts : store[f].ts \in Versions \cup {NoVersion}
  BY <1>1, RecordVersion DEF IInv, TypeOK, Keys
<1>3. ASSUME k = Profile  PROVE FactsBelowCatalog' /\ CatalogAgrees' /\ WithinCapacity'
  <2>1. /\ catalog' = catalog /\ catalogTs' = catalogTs
        /\ \A f \in Facts : store'[f] = store[f]
    <3>1. k \in Keys /\ catalog' = catalog /\ catalogTs' = catalogTs
      BY <1>0, <1>3, ExecEffect
    <3>2. \E r : store' = [store EXCEPT ![k] = r]
      BY <1>0, ExecEffect
    <3>. QED  BY <1>1, <1>3, <3>1, <3>2 DEF Keys
  <2>. QED  BY <2>1 DEF IInv, FactsBelowCatalog, CatalogAgrees, WithinCapacity, Listed, Absent
<1>4. ASSUME k \in Facts  PROVE FactsBelowCatalog' /\ CatalogAgrees' /\ WithinCapacity'
  <2>1. /\ newTs[w] \in Versions /\ newTs[w] > catalogTs /\ catalogTs' = newTs[w]
        /\ req[w].op \in {"set", "delete"}
    BY <1>0, <1>4, ExecEffect
  <2>2. \A f \in Facts : f # k => store'[f] = store[f] /\ catalog'[f] = catalog[f]
    BY <1>0, <1>1, <1>4, ExecEffect DEF Keys
  <2>3. /\ req[w].op = "set" =>
              /\ store'[k] = [val |-> req[w].val, ts |-> newTs[w]]
              /\ catalog'[k] = TagOf[req[w].val] /\ req[w].val \in Values
        /\ req[w].op = "delete" => store'[k] = Absent /\ catalog'[k] = NoEntry
    BY <1>0, <1>1, <1>4, ExecEffect DEF Keys
  <2>4. FactsBelowCatalog'
    <3> SUFFICES ASSUME NEW f \in Facts  PROVE store'[f].ts <= catalogTs'
      BY DEF FactsBelowCatalog
    <3>1. CASE f # k
      BY <3>1, <1>2, <2>1, <2>2 DEF IInv, FactsBelowCatalog, Versions, NoVersion
    <3>2. CASE f = k
      BY <3>2, <2>1, <2>3 DEF Absent, Versions, NoVersion
    <3>. QED  BY <3>1, <3>2
  <2>5. CatalogAgrees'
    <3> SUFFICES ASSUME NEW f \in Facts
                 PROVE  catalog'[f] = IF store'[f] = Absent THEN NoEntry
                                                            ELSE TagOf[store'[f].val]
      BY DEF CatalogAgrees, Absent
    <3>1. CASE f # k
      BY <3>1, <2>2 DEF IInv, CatalogAgrees
    <3>2. CASE f = k
      BY <3>2, <2>1, <2>3 DEF Absent
    <3>. QED  BY <3>1, <3>2
  <2>6. WithinCapacity'
    <3>1. IsFiniteSet(Listed(catalog)) /\ Cardinality(Listed(catalog)) \in Nat
      BY FS_Subset, FS_CardinalityType DEF Listed
    <3>2. Cardinality(Listed(catalog)) <= MaxEntries
      BY DEF IInv, WithinCapacity
    <3>3. CASE req[w].op = "set" /\ catalog[k] = NoEntry
      <4>1. Listed(catalog') = Listed(catalog) \cup {k} /\ k \notin Listed(catalog)
        BY <1>1, <1>4, <2>2, <2>3, <3>3 DEF Listed
      <4>2. Cardinality(Listed(catalog')) = Cardinality(Listed(catalog)) + 1
        BY <3>1, <4>1, FS_AddElement
      <4>3. Cardinality(Listed(catalog)) < MaxEntries
        BY <1>0, <1>4, <3>3, ExecEffect
      <4>. QED  BY <3>1, <4>2, <4>3 DEF WithinCapacity, Listed
    <3>4. CASE ~(req[w].op = "set" /\ catalog[k] = NoEntry)
      <4>1. Listed(catalog') \subseteq Listed(catalog)
        BY <1>4, <2>1, <2>2, <2>3, <3>4 DEF Listed
      <4>2. Cardinality(Listed(catalog')) \in Nat
            /\ Cardinality(Listed(catalog')) <= Cardinality(Listed(catalog))
        BY <3>1, <4>1, FS_Subset, FS_CardinalityType
      <4>. QED  BY <3>1, <3>2, <4>2 DEF WithinCapacity, Listed
    <3>. QED  BY <3>3, <3>4
  <2>. QED  BY <2>4, <2>5, <2>6
<1>. QED  BY <1>0, <1>3, <1>4, ExecEffect DEF Keys

-----------------------------------------------------------------------------
(***************************************************************************)
(* The theorems.                                                           *)
(***************************************************************************)

LEMMA InitInv == Init => IInv
<1> SUFFICES ASSUME Init PROVE IInv
  OBVIOUS
<1>1. TypeOK
  BY DEF Init, TypeOK, Record, EmptyCatalog, Status
<1>2. \A w \in Workers : WorkerInv(w)
  BY DEF Init, WorkerInv, SnapshotFresh, PreparedChecked
<1>3. FactsBelowCatalog /\ CatalogAgrees
  BY DEF Init, FactsBelowCatalog, CatalogAgrees, EmptyCatalog, Keys, Absent, NoVersion
<1>4. WithinCapacity
  <2>1. Listed(catalog) = {}
    BY DEF Init, Listed, EmptyCatalog
  <2>. QED  BY <2>1, FS_EmptySet DEF WithinCapacity
<1>. QED  BY <1>1, <1>2, <1>3, <1>4 DEF IInv

\* A step either is an EXEC or leaves Redis as it is.
LEMMA StepCases ==
    ASSUME IInv, Next
    PROVE  \E w \in Workers :
              \/ Exec(w)
              \/ /\ UNCHANGED redis
                 /\ \/ \E r \in Requests : Submit(w, r)
                    \/ Watch(w) \/ GetValue(w) \/ GetIndex(w)
                    \/ pc[w] = "decide" /\ \E s \in Status : Refuse(w, s)
                    \/ \E now \in Clocks : Prepare(w, now)
                    \/ Retry(w)
                    \/ Finish(w)
BY DEF Next, WorkerStep, Submit, Watch, GetValue, GetIndex, Conflict, CatalogFull,
       NothingThere, VersionExhausted, Accepted, Refuse, Prepare, Retry, Finish,
       Status, redis

LEMMA NextInv == IInv /\ [Next]_vars => IInv'
<1>1. ASSUME IInv, Next PROVE IInv'
  <2>1. TypeOK'
    BY <1>1, StepType
  <2>2. PICK w \in Workers :
              \/ Exec(w)
              \/ /\ UNCHANGED redis
                 /\ \/ \E r \in Requests : Submit(w, r)
                    \/ Watch(w) \/ GetValue(w) \/ GetIndex(w)
                    \/ pc[w] = "decide" /\ \E s \in Status : Refuse(w, s)
                    \/ \E now \in Clocks : Prepare(w, now)
                    \/ Retry(w)
                    \/ Finish(w)
    BY <1>1, StepCases
  <2>3. CASE Exec(w)
    BY <1>1, <2>1, <2>3, ExecWorkers, ExecRedis DEF IInv
  <2>4. CASE ~Exec(w)
    <3>1. \A v \in Workers : WorkerInv(v)'
      BY <1>1, <2>2, <2>4, QuietStep
    <3>2. FactsBelowCatalog' /\ CatalogAgrees' /\ WithinCapacity'
      BY <1>1, <2>2, <2>4
         DEF IInv, redis, FactsBelowCatalog, CatalogAgrees, WithinCapacity, Listed, Absent
    <3>. QED  BY <2>1, <3>1, <3>2 DEF IInv
  <2>. QED  BY <2>3, <2>4
<1>2. ASSUME IInv, UNCHANGED vars PROVE IInv'
  <2>1. TypeOK'
    BY <1>2 DEF IInv, TypeOK, vars
  <2>2. \A v \in Workers : WorkerInv(v)'
    BY <1>2, OtherWorkerKept DEF vars, redis
  <2>3. FactsBelowCatalog' /\ CatalogAgrees' /\ WithinCapacity'
    BY <1>2 DEF vars, IInv, FactsBelowCatalog, CatalogAgrees, WithinCapacity, Listed, Absent
  <2>. QED  BY <2>1, <2>2, <2>3 DEF IInv
<1>. QED  BY <1>1, <1>2

\* The inductive invariant holds in every reachable state of memX.
THEOREM InductiveInvariant == Spec => []IInv
BY InitInv, NextInv, PTL DEF Spec

\* Every variable of set_value and delete_value keeps its kind; in particular
\* every prepared version is a finite one.
THEOREM TypeCorrect == Spec => []TypeOK
<1>1. IInv => TypeOK
  BY DEF IInv
<1>. QED  BY <1>1, InductiveInvariant, PTL

\* The value keys and the private_index never disagree, for any number of
\* concurrent writers of any number of facts.
THEOREM CatalogConsistent == Spec => []CatalogAgrees
<1>1. IInv => CatalogAgrees
  BY DEF IInv
<1>. QED  BY <1>1, InductiveInvariant, PTL

\* The catalog never holds more names than max_entries.
THEOREM CatalogBounded == Spec => []WithinCapacity
<1>1. IInv => WithinCapacity
  BY DEF IInv
<1>. QED  BY <1>1, InductiveInvariant, PTL

\* A write that carries expected_ts replaces that very version.
THEOREM ConditionalWrites == Spec => NoLostUpdate
<1> DEFINE A == \A k \in Keys : store'[k] # store[k] =>
                   \E w \in Workers : /\ pc[w] = "exec" /\ pc'[w] = "done"
                                      /\ req[w].key = k
                                      /\ req[w].expected \in {Unset, store[k].ts}
<1>1. ASSUME IInv, [Next]_vars  PROVE [A]_redis
  <2>1. CASE UNCHANGED vars
    BY <2>1 DEF vars, redis
  <2>2. CASE Next /\ ~UNCHANGED redis
    <3>1. PICK w \in Workers : Exec(w)
      BY <1>1, <2>2, StepCases
    <3>2. pc[w] = "exec" /\ pc'[w] = "done"
      BY <1>1, <3>1 DEF Exec, IInv, TypeOK
    <3>3. \A k \in Keys : store'[k] # store[k] => k = req[w].key
      BY <1>1, <3>1, ExecEffect DEF IInv, TypeOK
    <3>4. req[w].expected \in {Unset, store[req[w].key].ts}
      BY <1>1, <3>1, ExecEffect
    <3>. QED  BY <3>2, <3>3, <3>4
  <2>. QED  BY <1>1, <2>1, <2>2
<1>. QED  BY <1>1, InductiveInvariant, PTL DEF Spec, NoLostUpdate

\* A fact never gets a version that any fact of the namespace had before.
THEOREM FreshVersions == Spec => VersionsNeverReused
<1> DEFINE A == /\ catalogTs' >= catalogTs
                /\ \A f \in Facts : store'[f] \notin {store[f], Absent} =>
                       store'[f].ts > catalogTs /\ store'[f].ts <= catalogTs'
<1>1. ASSUME IInv, [Next]_vars  PROVE [A]_redis
  <2>1. CASE UNCHANGED vars
    BY <2>1 DEF vars, redis
  <2>2. CASE Next /\ ~UNCHANGED redis
    <3>1. PICK w \in Workers : Exec(w)
      BY <1>1, <2>2, StepCases
    <3>2. PICK k : k = req[w].key
      OBVIOUS
    <3>3. store \in [Keys -> Record] /\ catalogTs \in Versions \cup {NoVersion}
      BY <1>1 DEF IInv, TypeOK
    <3>4. CASE k = Profile
      <4>1. catalogTs' = catalogTs /\ \A f \in Facts : store'[f] = store[f]
        <5>1. k \in Keys /\ catalogTs' = catalogTs
          BY <1>1, <3>1, <3>2, <3>4, ExecEffect
        <5>2. \E r : store' = [store EXCEPT ![k] = r]
          BY <1>1, <3>1, <3>2, ExecEffect
        <5>. QED  BY <3>3, <3>4, <5>1, <5>2 DEF Keys
      <4>. QED  BY <3>3, <4>1 DEF Versions, NoVersion
    <3>5. CASE k \in Facts
      <4>1. newTs[w] \in Versions /\ newTs[w] > catalogTs /\ catalogTs' = newTs[w]
        BY <1>1, <3>1, <3>2, <3>5, ExecEffect
      <4>2. \A f \in Facts : store'[f] \in {store[f], Absent, [val |-> req[w].val, ts |-> newTs[w]]}
        BY <1>1, <3>1, <3>2, <3>3, <3>5, ExecEffect DEF Keys
      <4>. QED  BY <3>3, <4>1, <4>2 DEF Versions, NoVersion
    <3>. QED  BY <1>1, <3>1, <3>2, <3>4, <3>5, ExecEffect DEF Keys
  <2>. QED  BY <1>1, <2>1, <2>2
<1>. QED  BY <1>1, InductiveInvariant, PTL DEF Spec, VersionsNeverReused

\* A fact leaves the catalog only by a delete of that fact: no store of another
\* one, however full the catalog and however stale its first read, evicts it.
THEOREM NothingIsEvicted == Spec => NoEviction
<1> DEFINE A == \A f \in Facts : catalog[f] # NoEntry /\ catalog'[f] = NoEntry =>
                   \E w \in Workers : pc[w] = "exec" /\ pc'[w] = "done"
                                      /\ req[w].key = f /\ req[w].op = "delete"
<1>1. ASSUME IInv, [Next]_vars  PROVE [A]_redis
  <2>1. CASE UNCHANGED vars
    BY <2>1 DEF vars, redis
  <2>2. CASE Next /\ ~UNCHANGED redis
    <3>1. PICK w \in Workers : Exec(w)
      BY <1>1, <2>2, StepCases
    <3>2. pc[w] = "exec" /\ pc'[w] = "done"
      BY <1>1, <3>1 DEF Exec, IInv, TypeOK
    <3>3. req[w].key \in Keys /\ req[w].op \in {"set", "delete"}
      BY <1>1, <3>1, ExecEffect
    <3> SUFFICES ASSUME NEW f \in Facts, catalog[f] # NoEntry, catalog'[f] = NoEntry
                 PROVE  req[w].key = f /\ req[w].op = "delete"
      BY <3>2
    <3>4. CASE req[w].key = Profile
      <4>1. UNCHANGED catalog
        BY <1>1, <3>1, <3>3, <3>4, ExecEffect
      <4>. QED  BY <4>1
    <3>5. CASE req[w].key \in Facts /\ req[w].op = "set"
      <4>1. req[w].val \in Values /\ catalog' = [catalog EXCEPT ![req[w].key] = TagOf[req[w].val]]
        BY <1>1, <3>1, <3>5, ExecEffect
      <4>2. TagOf[req[w].val] # NoEntry
        BY <4>1, MemxConstants
      <4>. QED  BY <1>1, <3>5, <4>1, <4>2 DEF IInv, TypeOK
    <3>6. CASE req[w].key \in Facts /\ req[w].op = "delete"
      <4>1. catalog' = [catalog EXCEPT ![req[w].key] = NoEntry]
        BY <1>1, <3>1, <3>6, ExecEffect
      <4>. QED  BY <1>1, <3>6, <4>1 DEF IInv, TypeOK
    <3>. QED  BY <3>3, <3>4, <3>5, <3>6 DEF Keys
  <2>. QED  BY <1>1, <2>1, <2>2
<1>. QED  BY <1>1, InductiveInvariant, PTL DEF Spec, NoEviction

\* An EXEC is one indivisible operation of AtomicCatalog.
LEMMA ExecIsAtomic ==
    ASSUME IInv, NEW w \in Workers, Exec(w)
    PROVE  Atomic!Next
<1> USE DEF Atomic!Keys, Atomic!Versions, Atomic!NoVersion, Atomic!Absent,
            Keys, Versions, NoVersion, Absent
<1>1. PICK k : k = req[w].key
  OBVIOUS
<1>2. store \in [Keys -> Record] /\ catalogTs \in Versions \cup {NoVersion}
  BY DEF IInv, TypeOK
<1>3. k \in Keys /\ req[w].op \in {"set", "delete"}
  BY <1>1, ExecEffect
<1>4. CASE k \in Facts /\ req[w].op = "set"
  <2>1. /\ req[w].val \in Values /\ newTs[w] \in Versions
        /\ newTs[w] > catalogTs /\ catalogTs' = newTs[w]
        /\ store' = [store EXCEPT ![k] = [val |-> req[w].val, ts |-> newTs[w]]]
        /\ catalog[k] # NoEntry \/ Cardinality(Listed(catalog)) < MaxEntries
        /\ catalog' = [catalog EXCEPT ![k] = TagOf[req[w].val]]
    BY <1>1, <1>4, ExecEffect
  <2>2. Atomic!PutFact(k, req[w].val, newTs[w])
    <3>1. Atomic!Listed = Listed(catalog)
      BY DEF Atomic!Listed, Listed
    <3>2. Atomic!Cardinality(Listed(catalog)) = Cardinality(Listed(catalog))
      BY Zenon DEF Atomic!Cardinality, Cardinality
    <3>3. k \in Atomic!Listed \/ Atomic!Cardinality(Atomic!Listed) < MaxEntries
      BY <1>4, <2>1, <3>1, <3>2 DEF Listed
    <3>. QED  BY <2>1, <3>3 DEF Atomic!PutFact
  <2>. QED  BY <1>4, <2>1, <2>2 DEF Atomic!Next
<1>5. CASE k \in Facts /\ req[w].op = "delete"
  <2>1. /\ newTs[w] \in Versions /\ newTs[w] > catalogTs /\ catalogTs' = newTs[w]
        /\ store' = [store EXCEPT ![k] = Absent]
        /\ catalog[k] # NoEntry
        /\ catalog' = [catalog EXCEPT ![k] = NoEntry]
    BY <1>1, <1>5, ExecEffect
  <2>2. Atomic!RemoveFact(k, newTs[w])
    BY <1>5, <2>1 DEF Atomic!RemoveFact, Atomic!Listed
  <2>. QED  BY <1>5, <2>1, <2>2 DEF Atomic!Next
<1>6. CASE k = Profile /\ req[w].op = "set"
  <2>1. /\ req[w].val \in Values /\ newTs[w] \in Versions /\ newTs[w] > store[k].ts
        /\ store' = [store EXCEPT ![k] = [val |-> req[w].val, ts |-> newTs[w]]]
        /\ UNCHANGED <<catalog, catalogTs>>
    BY <1>1, <1>6, ExecEffect
  <2>2. Atomic!PutPlain(req[w].val, newTs[w])
    BY <1>6, <2>1 DEF Atomic!PutPlain
  <2>. QED  BY <2>1, <2>2 DEF Atomic!Next
<1>7. CASE k = Profile /\ req[w].op = "delete"
  <2>1. store' = [store EXCEPT ![k] = Absent] /\ UNCHANGED <<catalog, catalogTs>>
    <3>1. req[w].op = "delete" /\ k \in Keys
      BY <1>1, <1>7, ExecEffect
    <3>2. store' = [store EXCEPT ![k] = Absent]
      BY <1>1, <3>1, ExecEffect
    <3>3. UNCHANGED <<catalog, catalogTs>>
      BY <1>1, <1>7, ExecEffect
    <3>. QED  BY <3>2, <3>3
  <2>2. CASE store[Profile] = Absent
    <3>1. FALSE
      <4>1. pc[w] = "exec" /\ ~dirty[w] /\ WorkerInv(w)
        BY DEF Exec, IInv
      <4>2. seenTs[w] = NoVersion
        BY <1>1, <1>7, <2>2, <4>1 DEF WorkerInv, SnapshotFresh
      <4>3. ~NameListed(w)
        BY <1>1, <1>7 DEF NameListed, Indexed
      <4>. QED  BY <1>7, <4>1, <4>2, <4>3 DEF WorkerInv, PreparedChecked, NothingToDelete
    <3>. QED  BY <3>1
  <2>3. CASE store[Profile] # Absent
    BY <1>7, <2>1, <2>3 DEF Atomic!RemovePlain, Atomic!Next
  <2>. QED  BY <2>2, <2>3
<1>. QED  BY <1>3, <1>4, <1>5, <1>6, <1>7

\* The WATCH / MULTI / EXEC transactions of any number of memX workers implement
\* indivisible operations on the value and the catalog.
THEOREM Refinement == Spec => ImplementsAtomicCatalog
<1>1. Init => Atomic!Init
  BY DEF Init, Atomic!Init, Atomic!Keys, Keys, Atomic!Absent, Absent,
         Atomic!NoVersion, NoVersion, EmptyCatalog
<1>2. ASSUME IInv, [Next]_vars  PROVE [Atomic!Next]_<<store, catalog, catalogTs>>
  <2>1. CASE UNCHANGED vars
    BY <2>1 DEF vars
  <2>2. CASE Next
    BY <1>2, <2>2, StepCases, ExecIsAtomic DEF redis
  <2>. QED  BY <1>2, <2>1, <2>2
<1>. QED  BY <1>1, <1>2, InductiveInvariant, PTL DEF Spec, ImplementsAtomicCatalog, Atomic!Spec

-----------------------------------------------------------------------------
(***************************************************************************)
(* Ingestor.  What a call has read is current if its version still is, a   *)
(* request names the version its call was decided on, and a call has one   *)
(* request in memX at a time.                                              *)
(***************************************************************************)
\* No version that k ever had is above this one.
Newest(k) == IF k \in Facts THEN catalogTs ELSE store[k].ts

\* b was read under k: if its version is still the present one, so is its value.
Based(k, b) == b.ts <= Newest(k) /\ (store[k].ts = b.ts => store[k] = b)

\* w executes the latest call of c.
Executes(w, c) == origin[w].client = c /\ origin[w].no = calls[c]

Origins == [Workers -> [client : Clients \cup {NoWorker}, no : 0..MaxCalls, basis : Record]]

IngestTypes ==
    /\ IngestTypeOK
    /\ landed \in [Clients -> 0..1]
    /\ origin \in Origins

\* A request names the version its call was decided on, and only facts are deleted.
Carries(w) ==
    /\ pc[w] = "idle" <=> origin[w] = NoOrigin
    /\ pc[w] # "idle" =>
        /\ req[w].expected = origin[w].basis.ts
        /\ Based(req[w].key, origin[w].basis)
        /\ req[w].op = "delete" => req[w].key \in Facts
        /\ \E c \in Clients : origin[w].client = c /\ origin[w].no \in 1..calls[c]
    /\ pc[w] = "done" <=> reply[w] # "none"

\* What is known of a call that is under way, and of one that is over.
Calling(c) ==
    phase[c] # "idle" =>
        /\ call[c] \in Calls /\ result[c] = "none" /\ calls[c] > 0
        /\ Based(call[c].key, basis[c])
        /\ IF phase[c] = "wait" THEN worker[c] \in Workers /\ Executes(worker[c], c)
           ELSE landed[c] = 0 /\ \A w \in Workers : ~Executes(w, c)
Called(c) ==
    /\ phase[c] # "wait" <=> worker[c] = NoWorker
    /\ result[c] \in Written => landed[c] = 1
    /\ result[c] \in Unwritten => landed[c] = 0 /\ \A w \in Workers : ~Executes(w, c)

\* A call has one request in memX at a time, and has landed if memX says so.
OneRequest(c) ==
    \A w \in Workers : Executes(w, c) =>
        /\ \A v \in Workers : Executes(v, c) => v = w
        /\ landed[c] = 1 <=> reply[w] \in Written

IngestInv ==
    /\ IngestTypes
    /\ \A w \in Workers : Carries(w)
    /\ \A c \in Clients : Calling(c) /\ Called(c) /\ OneRequest(c)

-----------------------------------------------------------------------------
(***************************************************************************)
(* What the steps of ingest() leave alone.                                 *)
(***************************************************************************)

LEMMA CallFields ==
    ASSUME NEW o \in Calls \cup {NoCall}
    PROVE  /\ o.key \in Keys
           /\ o \in Calls => /\ o.kind \in {"memory", "delete", "profile"}
                             /\ o.kind = "delete" => o.key \in Facts /\ o.val = NoValue
                             /\ o.kind # "delete" => o.val \in Values
                             /\ o.kind = "profile" => o.key = Profile
BY IngestorConstants DEF Call, NoCall, Keys

LEMMA RequestAccepted ==
    ASSUME IngestTypes, NEW c \in Clients, call[c] \in Calls
    PROVE  RequestOf(c) \in Requests
<1>1. basis[c].ts \in Versions \cup {NoVersion}
  BY RecordVersion DEF IngestTypes, IngestTypeOK
<1>2. RequestOf(c) \in Request
  BY <1>1, CallFields DEF RequestOf, Request, SetRequest, DeleteRequest
<1>3. RequestOf(c).expected # Unset
  BY <1>1 DEF RequestOf, Unset, Versions, NoVersion
<1> QED BY <1>2, <1>3, IngestorConstants

\* What memX does in a step is one of its own steps.
LEMMA StoreStep ==
    ASSUME IngestInv, [INext]_allVars
    PROVE  [Next]_vars
<1>1. ASSUME NEW c \in Clients, phase[c] = "wait"  PROVE worker[c] \in Workers
  BY <1>1 DEF IngestInv, Calling
<1>2. ASSUME NEW c \in Clients, ClientStep(c)  PROVE [Next]_vars
  <2>1. CASE Read(c) \/ ProfileMoved(c) \/ RequestFails(c) \/ ReplyLost(c)
    BY <2>1 DEF Read, ProfileMoved, RequestFails, ReplyLost
  <2>2. ASSUME NEW w \in Workers, Post(c, w)  PROVE Next
    <3>1. RequestOf(c) \in Requests
      BY <2>2, RequestAccepted DEF Post, IngestInv, Calling
    <3> QED BY <2>2, <3>1 DEF Post, Next
  <2>3. CASE Answered(c) \/ ConflictAgain(c) \/ ConflictEnds(c)
    BY <1>1, <2>3 DEF Answered, ConflictAgain, ConflictEnds, Release, Next
  <2> QED BY <1>2, <2>1, <2>2, <2>3 DEF ClientStep
<1>3. ASSUME NEW w \in Workers, ServerStep(w) \/ DropReply(w)  PROVE Next
  BY <1>3 DEF ServerStep, DropReply, Release, Next
<1>4. ASSUME NEW c \in Clients, NEW o \in Calls, Begin(c, o)  PROVE UNCHANGED vars
  BY <1>4 DEF Begin
<1>5. UNCHANGED allVars => UNCHANGED vars
  BY DEF allVars
<1> QED BY <1>2, <1>3, <1>4, <1>5 DEF INext

LEMMA ClientKept ==
    ASSUME IngestInv, NEW d \in Clients,
           phase'[d] = phase[d], call'[d] = call[d], basis'[d] = basis[d],
           worker'[d] = worker[d], result'[d] = result[d], calls'[d] = calls[d],
           landed'[d] = landed[d],
           \A w \in Workers : Executes(w, d)' => Executes(w, d) /\ reply'[w] = reply[w],
           phase[d] = "wait" => Executes(worker[d], d)',
           Based(call[d].key, basis[d]) => Based(call[d].key, basis[d])'
    PROVE  Calling(d)' /\ Called(d)' /\ OneRequest(d)'
<1>1. Calling(d)'
  BY DEF IngestInv, Calling, Based, Newest
<1>2. Called(d)'
  BY DEF IngestInv, Called
<1>3. OneRequest(d)'
  BY DEF IngestInv, OneRequest
<1> QED BY <1>1, <1>2, <1>3

LEMMA CarrierKept ==
    ASSUME IngestInv, NEW w \in Workers,
           (pc'[w] = "idle") <=> (pc[w] = "idle"), req'[w] = req[w], origin'[w] = origin[w],
           \A c \in Clients : calls'[c] \in Nat /\ calls[c] \in Nat /\ calls'[c] >= calls[c],
           Based(req[w].key, origin[w].basis) => Based(req[w].key, origin[w].basis)',
           (pc'[w] = "done") <=> (reply'[w] # "none")
    PROVE  Carries(w)'
  BY DEF IngestInv, Carries, Based, Newest

\* Without an EXEC everything stays as recent as it is.
LEMMA BasedWithout ==
    ASSUME UNCHANGED redis
    PROVE  \A k, b : Based(k, b) => Based(k, b)'
  BY DEF Based, Newest, redis

\* An EXEC gives a version above every one that its key had, or none.
LEMMA BasedOver ==
    ASSUME IInv, NEW w \in Workers, Exec(w), req[w].op = "delete" => req[w].key \in Facts,
           NEW k \in Keys, NEW b \in Record, Based(k, b)
    PROVE  Based(k, b)'
<1>1. PICK j : j = req[w].key
  OBVIOUS
<1>2. /\ j \in Keys /\ store \in [Keys -> Record]
      /\ catalogTs \in Versions \cup {NoVersion} /\ b.ts \in Versions \cup {NoVersion}
      /\ \A i \in Keys : store[i].ts \in Versions \cup {NoVersion}
      /\ \A f \in Facts : store[f].ts <= catalogTs
  BY <1>1, ExecEffect, RecordVersion DEF IInv, TypeOK, FactsBelowCatalog
<1>3. catalogTs' >= catalogTs /\ catalogTs' \in Versions \cup {NoVersion}
  BY <1>1, <1>2, ExecEffect DEF Keys, Versions, NoVersion
<1>4. CASE k # j
  <2>1. store'[k] = store[k]
    BY <1>1, <1>2, <1>4, ExecEffect
  <2> QED BY <1>2, <1>3, <2>1 DEF Based, Newest, Versions, NoVersion
<1>5. CASE k = j /\ req[w].op = "delete"
  <2>1. store'[k] = Absent /\ k \in Facts
    BY <1>1, <1>2, <1>5, ExecEffect
  <2>2. b.ts = NoVersion => b = Absent
    BY DEF Record, Versions, NoVersion, Absent
  <2> QED BY <1>2, <1>3, <2>1, <2>2 DEF Based, Newest, Versions, NoVersion, Absent
<1>6. CASE k = j /\ req[w].op = "set"
  <2>1. /\ newTs[w] \in Versions /\ newTs[w] > store[k].ts
        /\ store'[k] = [val |-> req[w].val, ts |-> newTs[w]]
        /\ k \in Facts => newTs[w] > catalogTs /\ catalogTs' = newTs[w]
    BY <1>1, <1>2, <1>6, ExecEffect
  <2>2. newTs[w] > Newest(k) /\ Newest(k)' = newTs[w] /\ Newest(k) \in Int
    BY <1>2, <2>1 DEF Newest, Versions, NoVersion
  <2> QED BY <1>2, <2>1, <2>2 DEF Based, Versions, NoVersion
<1> QED BY <1>1, <1>4, <1>5, <1>6, ExecEffect

-----------------------------------------------------------------------------
(***************************************************************************)
(* Every step keeps the invariant.                                         *)
(***************************************************************************)

LEMMA IngestInit == IInit => IngestInv
<1> SUFFICES ASSUME IInit PROVE IngestInv
  OBVIOUS
<1>1. IngestTypes
  BY IngestorConstants DEF IInit, IngestTypes, IngestTypeOK, Origins, NoOrigin, Record, Results
<1>2. \A w \in Workers : Carries(w)
  BY DEF IInit, Init, Carries
<1>3. \A c \in Clients : Calling(c) /\ Called(c) /\ OneRequest(c)
  BY IngestorConstants
     DEF IInit, Calling, Called, OneRequest, Executes, NoOrigin, Written, Unwritten
<1> QED BY <1>1, <1>2, <1>3 DEF IngestInv

\* The steps of a client that reach no worker.
Quiet(c) ==
    \/ \E o \in Calls : Begin(c, o)
    \/ Read(c) \/ ProfileMoved(c) \/ RequestFails(c) \/ ReplyLost(c)

LEMMA QuietTypes ==
    ASSUME IInv, IngestInv, NEW c \in Clients, Quiet(c)
    PROVE  IngestTypes'
<1> USE DEF IngestInv, IngestTypes, IngestTypeOK, history
<1>1. \A k \in Keys : store[k] \in Record
  BY DEF IInv, TypeOK
<1>2. ASSUME NEW o \in Calls, Begin(c, o)  PROVE IngestTypes'
  <2>1. calls[c] + 1 \in 0..MaxCalls /\ 1 \in 0..MaxAttempts
    BY <1>2, IngestorConstants DEF Begin
  <2>2. (IF o.kind = "profile" THEN store[Profile] ELSE Absent) \in Record
    BY <1>1 DEF Keys, Record
  <2> QED BY <1>2, <2>1, <2>2 DEF Begin, Results
<1>3. CASE Read(c)
  <2>1. store[call[c].key] \in Record
    BY <1>1, CallFields
  <2> QED BY <1>3, <2>1 DEF Read
<1>4. ASSUME NEW r \in Results, Return(c, r), UNCHANGED origin  PROVE IngestTypes'
  BY <1>4, IngestorConstants DEF Return, Record
<1> QED BY <1>2, <1>3, <1>4 DEF Quiet, ProfileMoved, RequestFails, ReplyLost, Results, Unwritten

LEMMA QuietOthers ==
    ASSUME IngestInv, NEW c \in Clients, Quiet(c)
    PROVE  /\ UNCHANGED <<vars, origin>>
           /\ calls'[c] >= calls[c]
           /\ \A d \in Clients \ {c} :
                 /\ phase'[d] = phase[d] /\ call'[d] = call[d] /\ basis'[d] = basis[d]
                 /\ worker'[d] = worker[d] /\ result'[d] = result[d] /\ calls'[d] = calls[d]
                 /\ landed'[d] = landed[d]
<1> USE DEF IngestInv, IngestTypes, IngestTypeOK, history
<1>1. ASSUME NEW o \in Calls, Begin(c, o)
      PROVE  UNCHANGED <<vars, origin>> /\ calls' = [calls EXCEPT ![c] = @ + 1]
  BY <1>1 DEF Begin
<1>2. CASE Read(c)
  BY <1>2 DEF Read
<1>3. ASSUME NEW r, Return(c, r)  PROVE calls' = calls /\ landed' = landed
  BY <1>3 DEF Return
<1> QED BY <1>1, <1>2, <1>3 DEF Quiet, Begin, Read, ProfileMoved, RequestFails, ReplyLost, Return

\* An absent record is older than any.
LEMMA AbsentBased ==
    ASSUME IInv, NEW k \in Keys
    PROVE  Based(k, Absent) /\ Based(k, store[k])
<1>1. store[k] \in Record /\ store[k].ts \in Versions \cup {NoVersion}
  BY RecordVersion DEF IInv, TypeOK
<1>2. /\ catalogTs \in Versions \cup {NoVersion}
      /\ k \in Facts => store[k].ts <= catalogTs
  BY DEF IInv, TypeOK, FactsBelowCatalog
<1>3. store[k].ts = NoVersion => store[k] = Absent
  BY <1>1 DEF Record, Versions, NoVersion
<1> QED BY <1>1, <1>2, <1>3 DEF Based, Newest, Absent, Versions, NoVersion

LEMMA QuietKeeps ==
    ASSUME IInv, IngestInv, NEW c \in Clients, Quiet(c)
    PROVE  IngestInv'
<1>1. /\ UNCHANGED vars /\ origin' = origin
      /\ UNCHANGED redis /\ pc' = pc /\ req' = req /\ reply' = reply
  BY QuietOthers DEF vars, redis
<1>2. IngestTypes' /\ IngestTypes
  BY QuietTypes DEF IngestInv
<1>3. \A d \in Clients : calls[d] \in Nat /\ calls'[d] \in Nat /\ calls'[d] >= calls[d]
  BY <1>2, QuietOthers, IngestorConstants DEF IngestTypes, IngestTypeOK
<1>4. \A w \in Workers : Carries(w)'
  BY <1>1, <1>3, CarrierKept, BasedWithout DEF IngestInv, Carries
<1>5. ASSUME NEW d \in Clients, d # c  PROVE Calling(d)' /\ Called(d)' /\ OneRequest(d)'
  <2>1. \A w \in Workers : Executes(w, d)' <=> Executes(w, d)
    BY <1>1, <1>5, QuietOthers DEF Executes
  <2>2. phase[d] = "wait" => worker[d] \in Workers /\ Executes(worker[d], d)
    BY DEF IngestInv, Calling
  <2>3. phase[d] = "wait" => Executes(worker[d], d)'
    BY <1>1, <1>5, <2>2, QuietOthers DEF Executes
  <2> QED BY <1>1, <1>5, <2>1, <2>3, QuietOthers, ClientKept, BasedWithout
<1>6. Calling(c)' /\ Called(c)' /\ OneRequest(c)'
  <2> USE <1>2 DEF IngestTypes, IngestTypeOK
  <2>1. \A w \in Workers : calls[c] > 0 \/ ~Executes(w, c)
    <3> SUFFICES ASSUME NEW w \in Workers, Executes(w, c)  PROVE calls[c] > 0
      OBVIOUS
    <3>1. origin[w] # NoOrigin
      BY IngestorConstants DEF Executes, NoOrigin
    <3>2. PICK d \in Clients : origin[w].client = d /\ origin[w].no \in 1..calls[d]
      BY <3>1 DEF IngestInv, Carries
    <3> QED BY <3>2 DEF Executes
  <2>2. ASSUME NEW o \in Calls, Begin(c, o)
        PROVE  Calling(c)' /\ Called(c)' /\ OneRequest(c)'
    <3>1. /\ phase'[c] = "read" /\ call'[c] = o /\ result'[c] = "none" /\ landed'[c] = 0
          /\ calls'[c] = calls[c] + 1 /\ worker'[c] = worker[c] /\ phase[c] = "idle"
          /\ basis'[c] = IF o.kind = "profile" THEN store[Profile] ELSE Absent
      BY <2>2 DEF Begin
    <3>2. \A w \in Workers : ~Executes(w, c)'
      <4> SUFFICES ASSUME NEW w \in Workers, Executes(w, c)'  PROVE FALSE
        OBVIOUS
      <4>1. origin[w].client = c /\ origin[w].no = calls[c] + 1
        BY <1>1, <3>1 DEF Executes
      <4>2. origin[w] # NoOrigin
        BY <4>1, IngestorConstants DEF NoOrigin
      <4>3. origin[w].no \in 1..calls[c]
        BY <4>1, <4>2 DEF IngestInv, Carries
      <4> QED BY <4>1, <4>3, IngestorConstants
    <3>3. Based(call[c].key, basis[c])'
      <4>1. o.key \in Keys /\ (o.kind = "profile" => o.key = Profile)
        BY CallFields
      <4>2. PICK b : b = IF o.kind = "profile" THEN store[Profile] ELSE Absent
        OBVIOUS
      <4>3. Based(o.key, b)'
        BY <1>1, <4>1, <4>2, AbsentBased, BasedWithout
      <4> QED BY <3>1, <4>2, <4>3 DEF Based, Newest
    <3>4. calls'[c] > 0
      BY <3>1, IngestorConstants
    <3>5. worker'[c] = NoWorker
      BY <3>1 DEF IngestInv, Called
    <3> QED BY <3>1, <3>2, <3>3, <3>4, <3>5 DEF Calling, Called, OneRequest, Written, Unwritten
  <2>3. CASE Read(c)
    <3>1. /\ phase[c] = "read" /\ phase'[c] = "post" /\ call' = call /\ result' = result
          /\ landed' = landed /\ calls' = calls /\ worker' = worker
      BY <2>3 DEF Read, history
    <3>2. PICK b \in {basis[c], store[call[c].key]} : basis'[c] = b
      BY <2>3 DEF Read
    <3>3. Based(call[c].key, basis[c])'
      <4>1. Based(call[c].key, b)
        BY <3>1, <3>2, CallFields, AbsentBased DEF IngestInv, Calling
      <4>2. Based(call[c].key, basis[c])' <=> Based(call[c].key, b)
        BY <1>1, <3>1, <3>2 DEF Based, Newest, redis
      <4> QED BY <4>1, <4>2
    <3>4. \A w \in Workers : Executes(w, c)' <=> Executes(w, c)
      BY <1>1, <3>1 DEF Executes
    <3>5. Calling(c) /\ Called(c) /\ OneRequest(c)
      BY DEF IngestInv
    <3> QED BY <1>1, <3>1, <3>3, <3>4, <3>5 DEF Calling, Called, OneRequest
  <2>4. CASE ProfileMoved(c) \/ RequestFails(c) \/ ReplyLost(c)
    <3>1. /\ phase'[c] = "idle" /\ worker'[c] = NoWorker /\ landed' = landed /\ calls' = calls
          /\ result'[c] = "error" \/ (result'[c] \in Unwritten /\ phase[c] = "read")
      BY <2>4 DEF ProfileMoved, RequestFails, ReplyLost, Return, Unwritten
    <3>2. \A w \in Workers : Executes(w, c)' <=> Executes(w, c)
      BY <1>1, <3>1 DEF Executes
    <3>3. phase[c] = "read" => landed[c] = 0 /\ \A w \in Workers : ~Executes(w, c)
      BY DEF IngestInv, Calling
    <3>4. OneRequest(c)
      BY DEF IngestInv
    <3> QED BY <1>1, <3>1, <3>2, <3>3, <3>4 DEF Calling, Called, OneRequest, Written, Unwritten
  <2> QED BY <2>2, <2>3, <2>4 DEF Quiet
<1> QED BY <1>2, <1>4, <1>5, <1>6 DEF IngestInv

LEMMA PostKeeps ==
    ASSUME IInv, IngestInv, NEW c \in Clients, NEW w \in Workers, Post(c, w)
    PROVE  IngestInv'
<1> USE DEF IngestTypes, IngestTypeOK
<1>1. IngestTypes /\ IngestTypes'
  <2>1. [client |-> c, no |-> calls[c], basis |-> basis[c]] \in
            [client : Clients \cup {NoWorker}, no : 0..MaxCalls, basis : Record]
    BY DEF IngestInv
  <2> QED BY <2>1 DEF IngestInv, Post, Origins
<1>2. /\ phase[c] = "post" /\ pc[w] = "idle" /\ UNCHANGED redis /\ reply' = reply
      /\ \A v \in Workers \ {w} : pc'[v] = pc[v] /\ req'[v] = req[v] /\ origin'[v] = origin[v]
      /\ pc'[w] = "watch" /\ req'[w] = RequestOf(c)
      /\ origin'[w] = [client |-> c, no |-> calls[c], basis |-> basis[c]]
      /\ \A d \in Clients \ {c} : phase'[d] = phase[d] /\ worker'[d] = worker[d]
      /\ phase'[c] = "wait" /\ worker'[c] = w
      /\ UNCHANGED <<call, basis, attempt, result, calls, landed>>
  BY <1>1 DEF Post, Submit, IInv, TypeOK, Origins, redis
<1>3. /\ call[c] \in Calls /\ result[c] = "none" /\ calls[c] > 0 /\ landed[c] = 0
      /\ Based(call[c].key, basis[c]) /\ \A v \in Workers : ~Executes(v, c)
  BY <1>2 DEF IngestInv, Calling
<1>4. \A d \in Clients : calls[d] \in Nat
  BY <1>1, IngestorConstants
<1>5. reply[w] = "none"
  BY <1>2 DEF IngestInv, Carries
<1>6. ASSUME NEW v \in Workers, v # w  PROVE Carries(v)'
  <2>1. (pc[v] = "done") <=> (reply[v] # "none")
    BY DEF IngestInv, Carries
  <2> QED BY <1>2, <1>4, <1>6, <2>1, CarrierKept, BasedWithout
<1>7. Carries(w)'
  <2>1. /\ RequestOf(c).expected = basis[c].ts /\ RequestOf(c).key = call[c].key
        /\ RequestOf(c).op = "delete" => call[c].key \in Facts
    BY <1>3, CallFields DEF RequestOf
  <2>2. Based(call[c].key, basis[c])'
    BY <1>2, <1>3, BasedWithout DEF Based, Newest, redis
  <2>3. Based(req[w].key, origin[w].basis)'
    BY <1>2, <2>1, <2>2 DEF Based, Newest
  <2>4. origin'[w] # NoOrigin
    BY <1>2, IngestorConstants DEF NoOrigin
  <2>5. calls[c] \in 1..calls[c]
    BY <1>3, <1>4
  <2> QED BY <1>2, <1>5, <2>1, <2>3, <2>4, <2>5 DEF Carries
<1>8. ASSUME NEW d \in Clients, d # c  PROVE Calling(d)' /\ Called(d)' /\ OneRequest(d)'
  <2>1. \A v \in Workers : Executes(v, d)' => Executes(v, d)
    BY <1>2, <1>8 DEF Executes
  <2>2. phase[d] = "wait" => Executes(worker[d], d)'
    <3> SUFFICES ASSUME phase[d] = "wait"  PROVE Executes(worker[d], d)'
      OBVIOUS
    <3>1. worker[d] \in Workers /\ Executes(worker[d], d)
      BY DEF IngestInv, Calling
    <3>2. worker[d] # w
      <4>1. origin[worker[d]] # NoOrigin
        BY <3>1, IngestorConstants DEF Executes, NoOrigin
      <4> QED BY <1>2, <3>1, <4>1 DEF IngestInv, Carries
    <3> QED BY <1>2, <1>8, <3>1, <3>2 DEF Executes
  <2> QED BY <1>2, <1>8, <2>1, <2>2, ClientKept, BasedWithout
<1>9. Calling(c)' /\ Called(c)' /\ OneRequest(c)'
  <2>1. \A v \in Workers : Executes(v, c)' <=> v = w
    BY <1>2, <1>3 DEF Executes
  <2>2. Based(call[c].key, basis[c])'
    BY <1>2, <1>3, BasedWithout DEF Based, Newest, redis
  <2>3. w # NoWorker
    BY IngestorConstants
  <2> QED BY <1>2, <1>3, <1>5, <2>1, <2>2, <2>3
          DEF Calling, Called, OneRequest, Written, Unwritten
<1> QED BY <1>1, <1>6, <1>7, <1>8, <1>9 DEF IngestInv

LEMMA OriginForgotten ==
    ASSUME IngestInv, NEW w \in Workers
    PROVE  [origin EXCEPT ![w] = NoOrigin] \in Origins
<1>1. NoOrigin \in [client : Clients \cup {NoWorker}, no : 0..MaxCalls, basis : Record]
  BY IngestorConstants DEF NoOrigin, Record
<1> QED BY <1>1 DEF IngestInv, IngestTypes, Origins

\* Steps that take a worker's answer: only its client, if any, changes.
LEMMA ReleaseFacts ==
    ASSUME IInv, IngestInv, NEW w \in Workers, Release(w)
    PROVE  /\ pc[w] = "done" /\ reply[w] # "none" /\ UNCHANGED redis
           /\ origin' = [origin EXCEPT ![w] = NoOrigin] /\ origin'[w] = NoOrigin
           /\ pc'[w] = "idle" /\ reply'[w] = "none"
           /\ \A v \in Workers \ {w} : /\ pc'[v] = pc[v] /\ req'[v] = req[v]
                                       /\ reply'[v] = reply[v] /\ origin'[v] = origin[v]
           /\ \A d \in Clients : ~(origin'[w].client = d)
<1>1. origin' = [origin EXCEPT ![w] = NoOrigin] /\ w \in DOMAIN origin
  BY DEF Release, IngestInv, IngestTypes, Origins
<1>2. pc[w] = "done" /\ reply[w] # "none"
  BY DEF Release, Finish, IngestInv, Carries
<1>3. \A d \in Clients : NoOrigin.client # d
  BY IngestorConstants DEF NoOrigin
<1> QED BY <1>1, <1>2, <1>3 DEF Release, Finish, IInv, TypeOK, redis

LEMMA ReleaseCarriers ==
    ASSUME IInv, IngestInv, NEW w \in Workers, Release(w), calls' = calls
    PROVE  \A v \in Workers : Carries(v)'
<1>1. \A d \in Clients : calls[d] \in Nat
  BY IngestorConstants DEF IngestInv, IngestTypes, IngestTypeOK
<1>2. ASSUME NEW v \in Workers, v # w  PROVE Carries(v)'
  <2>1. (pc[v] = "done") <=> (reply[v] # "none")
    BY DEF IngestInv, Carries
  <2> QED BY <1>1, <1>2, <2>1, ReleaseFacts, CarrierKept, BasedWithout
<1>3. Carries(w)'
  BY ReleaseFacts DEF Carries
<1> QED BY <1>2, <1>3

LEMMA ReleaseOthers ==
    ASSUME IInv, IngestInv, NEW w \in Workers, Release(w), NEW d \in Clients,
           phase'[d] = phase[d], call'[d] = call[d], basis'[d] = basis[d],
           worker'[d] = worker[d], result'[d] = result[d], calls'[d] = calls[d],
           landed'[d] = landed[d], worker[d] # w
    PROVE  Calling(d)' /\ Called(d)' /\ OneRequest(d)'
<1>1. \A v \in Workers : Executes(v, d)' => Executes(v, d) /\ reply'[v] = reply[v]
  BY ReleaseFacts DEF Executes
<1>2. phase[d] = "wait" => Executes(worker[d], d)'
  <2>1. phase[d] = "wait" => worker[d] \in Workers /\ Executes(worker[d], d)
    BY DEF IngestInv, Calling
  <2> QED BY <2>1, ReleaseFacts DEF Executes
<1> QED BY <1>1, <1>2, ReleaseFacts, ClientKept, BasedWithout

\* The three ways in which a client takes the answer of its worker.
LEMMA AnswerKeeps ==
    ASSUME IInv, IngestInv, NEW c \in Clients,
           Answered(c) \/ ConflictAgain(c) \/ ConflictEnds(c)
    PROVE  IngestInv'
<1> USE DEF IngestTypes, IngestTypeOK
<1> DEFINE w == worker[c]
<1>1. /\ phase[c] = "wait" /\ Release(w) /\ w \in Workers /\ Executes(w, c)
      /\ calls' = calls /\ landed' = landed
  <2>1. phase[c] = "wait" /\ Release(w)
    BY DEF Answered, ConflictAgain, ConflictEnds
  <2> QED BY <2>1 DEF Answered, ConflictAgain, ConflictEnds, Return, IngestInv, Calling
<1> HIDE DEF w
<1>2. /\ reply[w] \in Status \ {"none"}
      /\ call[c] \in Calls /\ result[c] = "none" /\ calls[c] > 0
      /\ Based(call[c].key, basis[c])
      /\ \A v \in Workers : Executes(v, c) => v = w
      /\ landed[c] = 1 <=> reply[w] \in Written
      /\ landed[c] \in 0..1
  BY <1>1, ReleaseFacts DEF IngestInv, Calling, OneRequest, IInv, TypeOK, w
<1>3. \A v \in Workers : ~Executes(v, c)'
  BY <1>1, <1>2, ReleaseFacts DEF Executes
<1>4. /\ worker'[c] = NoWorker
      /\ \A d \in Clients \ {c} :
            /\ phase'[d] = phase[d] /\ call'[d] = call[d] /\ basis'[d] = basis[d]
            /\ worker'[d] = worker[d] /\ result'[d] = result[d]
      /\ \/ /\ phase'[c] = "read" /\ reply[w] = "conflict"
            /\ call' = call /\ basis' = basis /\ result' = result
         \/ /\ phase'[c] = "idle"
            /\ \/ result'[c] \in {"profile_conflict", "retryable_failure"} /\ reply[w] = "conflict"
               \/ result'[c] = Verdict(reply[w]) /\ reply[w] # "conflict"
  BY DEF IngestInv, Answered, ConflictAgain, ConflictEnds, Return, w
<1>5. IngestTypes'
  <2>1. \A r \in Results : Return(c, r) => IngestTypes' \/ origin' # [origin EXCEPT ![w] = NoOrigin]
    <3>1. [origin EXCEPT ![w] = NoOrigin] \in Origins
      BY <1>1, OriginForgotten
    <3> QED BY <3>1, IngestorConstants DEF IngestInv, Return, Record
  <2>2. Verdict(reply[w]) \in Results \/ reply[w] = "conflict"
    BY <1>2 DEF Verdict, Results, Written, Unwritten, Status
  <2>3. "profile_conflict" \in Results /\ "retryable_failure" \in Results
    BY DEF Results, Unwritten
  <2>4. origin' = [origin EXCEPT ![w] = NoOrigin]
    BY <1>1, ReleaseFacts
  <2>5. CASE Answered(c) \/ ConflictEnds(c)
    BY <2>1, <2>2, <2>3, <2>4, <2>5 DEF Answered, ConflictEnds, w
  <2>6. CASE ConflictAgain(c)
    <3>1. attempt[c] + 1 \in 0..MaxAttempts
      BY <2>6, IngestorConstants DEF IngestInv, ConflictAgain
    <3>2. [origin EXCEPT ![w] = NoOrigin] \in Origins
      BY <1>1, OriginForgotten
    <3> QED BY <2>4, <2>6, <3>1, <3>2 DEF IngestInv, ConflictAgain
  <2> QED BY <2>5, <2>6
<1>6. \A v \in Workers : Carries(v)'
  BY <1>1, ReleaseCarriers
<1>7. ASSUME NEW d \in Clients, d # c  PROVE Calling(d)' /\ Called(d)' /\ OneRequest(d)'
  <2>1. worker[d] # w
    <3> SUFFICES ASSUME worker[d] = w  PROVE FALSE
      OBVIOUS
    <3>1. phase[d] = "wait"
      BY <1>1, IngestorConstants DEF IngestInv, Called
    <3>2. Executes(w, d)
      BY <3>1 DEF IngestInv, Calling
    <3> QED BY <1>1, <1>7, <3>2 DEF Executes
  <2> QED BY <1>1, <1>4, <1>7, <2>1, ReleaseOthers
<1>8. Calling(c)' /\ Called(c)' /\ OneRequest(c)'
  <2>1. Based(call[c].key, basis[c]) /\ call' = call /\ basis' = basis => Based(call[c].key, basis[c])'
    BY <1>1, ReleaseFacts, BasedWithout DEF Based, Newest, redis
  <2>2. reply[w] = "conflict" => landed[c] = 0
    BY <1>2 DEF Written
  <2>3. Verdict(reply[w]) \in Written => landed[c] = 1
    BY <1>2 DEF Verdict, Written
  <2>4. Verdict(reply[w]) \in Unwritten => landed[c] = 0
    BY <1>2 DEF Verdict, Written, Unwritten
  <2> QED BY <1>1, <1>2, <1>3, <1>4, <2>1, <2>2, <2>3, <2>4
          DEF Calling, Called, OneRequest, Written, Unwritten
<1> QED BY <1>5, <1>6, <1>7, <1>8 DEF IngestInv

LEMMA DropKeeps ==
    ASSUME IInv, IngestInv, NEW w \in Workers, DropReply(w)
    PROVE  IngestInv'
<1>1. Release(w) /\ UNCHANGED <<phase, call, basis, attempt, worker, result, calls, landed>>
      /\ \A d \in Clients : worker[d] # w
  BY DEF DropReply
<1>2. IngestTypes'
  <2>1. [origin EXCEPT ![w] = NoOrigin] \in Origins
    BY OriginForgotten
  <2> QED BY <1>1, <2>1, ReleaseFacts DEF IngestInv, IngestTypes, IngestTypeOK
<1>3. \A v \in Workers : Carries(v)'
  BY <1>1, ReleaseCarriers
<1>4. \A d \in Clients : Calling(d)' /\ Called(d)' /\ OneRequest(d)'
  BY <1>1, ReleaseOthers
<1> QED BY <1>2, <1>3, <1>4 DEF IngestInv

\* What memX's own progress does to its worker and to the others.
LEMMA WorkerFacts ==
    ASSUME IInv, NEW w \in Workers, WorkerStep(w), pc[w] # "done" => reply[w] = "none"
    PROVE  /\ pc[w] \notin {"idle", "done"} /\ pc'[w] # "idle" /\ req' = req
           /\ \A v \in Workers \ {w} : pc'[v] = pc[v] /\ reply'[v] = reply[v]
           /\ pc'[w] = "done" <=> reply'[w] # "none"
           /\ Exec(w) \/ UNCHANGED redis
           /\ Commits(w) <=> reply'[w] \in Written
           /\ Commits(w) => Exec(w)
<1> USE DEF IInv, TypeOK, Commits, Written, redis
<1>1. CASE Watch(w)
  BY <1>1 DEF Watch
<1>2. CASE GetValue(w)
  BY <1>2 DEF GetValue
<1>3. CASE GetIndex(w)
  BY <1>3 DEF GetIndex
<1>4. ASSUME NEW s \in {"conflict", "catalog_full", "absent", "server_error"},
             pc[w] = "decide", Refuse(w, s)
      PROVE  /\ pc'[w] = "done" /\ req' = req /\ reply'[w] = s /\ UNCHANGED redis
             /\ \A v \in Workers \ {w} : pc'[v] = pc[v] /\ reply'[v] = reply[v]
  BY <1>4 DEF Refuse
<1>5. ASSUME NEW now \in Clocks, Prepare(w, now)
      PROVE  /\ pc[w] = "decide" /\ pc'[w] = "exec" /\ req' = req /\ reply' = reply
             /\ UNCHANGED redis
             /\ \A v \in Workers \ {w} : pc'[v] = pc[v]
  BY <1>5 DEF Prepare, Accepted
<1>6. CASE Retry(w)
  BY <1>6 DEF Retry
<1>7. CASE Exec(w)
  <2>1. /\ pc[w] = "exec" /\ pc'[w] = "done" /\ req' = req
        /\ reply'[w] \in {"committed", "deleted"}
        /\ \A v \in Workers \ {w} : pc'[v] = pc[v] /\ reply'[v] = reply[v]
    BY <1>7 DEF Exec
  <2> QED BY <1>7, <2>1
<1>8. CASE Conflict(w) \/ CatalogFull(w) \/ NothingThere(w) \/ VersionExhausted(w)
  <2>1. PICK s \in {"conflict", "catalog_full", "absent", "server_error"} :
            pc[w] = "decide" /\ Refuse(w, s)
    BY <1>8 DEF Conflict, CatalogFull, NothingThere, VersionExhausted, Accepted
  <2> QED BY <1>4, <2>1
<1>9. ASSUME NEW now \in Clocks, Prepare(w, now)
      PROVE  ~Commits(w) /\ reply'[w] = "none"
  BY <1>5, <1>9
<1>10. CASE \E now \in Clocks : Prepare(w, now)
  BY <1>5, <1>9, <1>10
<1> QED BY <1>1, <1>2, <1>3, <1>6, <1>7, <1>8, <1>10 DEF WorkerStep

LEMMA ServerKeeps ==
    ASSUME IInv, IngestInv, NEW w \in Workers, ServerStep(w)
    PROVE  IngestInv'
<1>1. /\ WorkerStep(w) /\ UNCHANGED <<phase, call, basis, attempt, worker, result, calls, origin>>
      /\ \A d \in Clients :
            landed'[d] = IF Commits(w) /\ Executes(w, d) THEN landed[d] + 1 ELSE landed[d]
      /\ landed' \in [Clients -> {landed'[d] : d \in Clients}]
  BY DEF ServerStep, Executes
<1>2. pc[w] # "done" => reply[w] = "none"
  BY DEF IngestInv, Carries
<1>3. /\ pc[w] \notin {"idle", "done"} /\ pc'[w] # "idle" /\ req' = req /\ reply[w] = "none"
      /\ \A v \in Workers \ {w} : pc'[v] = pc[v] /\ reply'[v] = reply[v]
      /\ pc'[w] = "done" <=> reply'[w] # "none"
      /\ Exec(w) \/ UNCHANGED redis
      /\ Commits(w) <=> reply'[w] \in Written
  BY <1>1, <1>2, WorkerFacts
<1>4. \A d \in Clients : landed[d] \in 0..1 /\ calls[d] \in Nat
  BY IngestorConstants DEF IngestInv, IngestTypes, IngestTypeOK
<1>5. ASSUME NEW d \in Clients, Executes(w, d)  PROVE landed[d] = 0
  BY <1>3, <1>4, <1>5 DEF IngestInv, OneRequest, Written
<1>6. IngestTypes'
  <2>1. \A d \in Clients : landed'[d] \in 0..1
    BY <1>1, <1>4, <1>5
  <2> QED BY <1>1, <2>1 DEF IngestInv, IngestTypes, IngestTypeOK
<1>7. req[w].op = "delete" => req[w].key \in Facts
  BY <1>3 DEF IngestInv, Carries
<1>8. \A k \in Keys, b \in Record : Based(k, b) => Based(k, b)'
  BY <1>3, <1>7, BasedOver, BasedWithout
<1>9. ASSUME NEW v \in Workers  PROVE Carries(v)'
  <2>1. req[v].key \in Keys /\ origin[v].basis \in Record
    BY RequestFields DEF IInv, TypeOK, IngestInv, IngestTypes, Origins
  <2>2. Based(req[v].key, origin[v].basis) => Based(req[v].key, origin[v].basis)'
    BY <1>1, <1>3, <1>8, <2>1 DEF Based, Newest
  <2>3. (pc[v] = "done") <=> (reply[v] # "none")
    BY DEF IngestInv, Carries
  <2> QED BY <1>1, <1>3, <1>4, <2>2, <2>3, CarrierKept
<1>10. ASSUME NEW d \in Clients  PROVE Calling(d)' /\ Called(d)' /\ OneRequest(d)'
  <2>1. call[d].key \in Keys /\ basis[d] \in Record
    BY CallFields DEF IngestInv, IngestTypes, IngestTypeOK
  <2>2. Based(call[d].key, basis[d]) => Based(call[d].key, basis[d])'
    BY <1>1, <1>8, <2>1 DEF Based, Newest
  <2>3. \A v \in Workers : Executes(v, d)' <=> Executes(v, d)
    BY <1>1 DEF Executes
  <2>4. phase[d] = "wait" => worker[d] \in Workers /\ Executes(worker[d], d)
    BY DEF IngestInv, Calling
  <2>5. phase[d] = "wait" => Executes(worker[d], d)'
    BY <1>1, <2>4 DEF Executes
  <2>6. CASE ~Executes(w, d)
    <3>1. landed'[d] = landed[d]
      BY <1>1, <2>6
    <3>2. \A v \in Workers : Executes(v, d)' => Executes(v, d) /\ reply'[v] = reply[v]
      BY <1>3, <2>3, <2>6
    <3> QED BY <1>1, <2>2, <2>5, <3>1, <3>2, ClientKept
  <2>7. CASE Executes(w, d)
    <3>1. landed[d] = 0 /\ landed'[d] = IF Commits(w) THEN 1 ELSE 0
      BY <1>1, <1>5, <2>7
    <3>2. phase[d] \in {"idle", "wait"} /\ result[d] \notin Written \cup Unwritten
      BY <2>7, <3>1 DEF IngestInv, IngestTypes, IngestTypeOK, Calling, Called, OneRequest
    <3>3. Calling(d)'
      BY <1>1, <2>2, <2>5, <3>2 DEF IngestInv, Calling
    <3>4. Called(d)'
      BY <1>1, <3>2 DEF IngestInv, Called
    <3>5. \A v \in Workers : Executes(v, d) => v = w
      BY <2>7 DEF IngestInv, OneRequest
    <3>6. OneRequest(d)'
      BY <1>3, <2>3, <3>1, <3>5 DEF OneRequest
    <3> QED BY <3>3, <3>4, <3>6
  <2> QED BY <2>6, <2>7
<1> QED BY <1>6, <1>9, <1>10 DEF IngestInv

\* Only a worker's own EXEC takes its request from "exec" to "done".
LEMMA OnlyOwnExec ==
    ASSUME IInv, IngestInv, INext, NEW w \in Workers, Commits(w)
    PROVE  Exec(w)
<1>1. pc[w] = "exec" /\ pc'[w] = "done" /\ reply[w] = "none"
  BY DEF Commits, IngestInv, Carries
<1>2. ASSUME NEW c \in Clients, Quiet(c)  PROVE FALSE
  BY <1>1, <1>2, QuietOthers DEF vars
<1>3. ASSUME NEW c \in Clients, NEW v \in Workers, Post(c, v)  PROVE FALSE
  BY <1>1, <1>3 DEF Post, Submit, IInv, TypeOK
<1>4. ASSUME NEW v \in Workers, Release(v)  PROVE FALSE
  BY <1>1, <1>4, ReleaseFacts
<1>5. ASSUME NEW c \in Clients, Answered(c) \/ ConflictAgain(c) \/ ConflictEnds(c)  PROVE FALSE
  <2>1. worker[c] \in Workers
    BY <1>5 DEF Answered, ConflictAgain, ConflictEnds, IngestInv, Calling
  <2> QED BY <1>4, <1>5, <2>1 DEF Answered, ConflictAgain, ConflictEnds
<1>6. ASSUME NEW v \in Workers, ServerStep(v)  PROVE Exec(w)
  <2>1. WorkerStep(v) /\ (pc[v] # "done" => reply[v] = "none")
    BY <1>6 DEF ServerStep, IngestInv, Carries
  <2>2. v = w
    BY <1>1, <2>1, WorkerFacts
  <2> QED BY <2>1, <2>2, WorkerFacts
<1>7. ASSUME NEW c \in Clients, ClientStep(c)  PROVE FALSE
  BY <1>2, <1>3, <1>5, <1>7 DEF ClientStep, Quiet
<1>8. ASSUME NEW c \in Clients, NEW o \in Calls, Begin(c, o)  PROVE FALSE
  BY <1>2, <1>8 DEF Quiet
<1>9. ASSUME NEW v \in Workers, DropReply(v)  PROVE FALSE
  BY <1>4, <1>9 DEF DropReply
<1> QED BY <1>6, <1>7, <1>8, <1>9 DEF INext

LEMMA IngestStep ==
    ASSUME IInv, IngestInv, [INext]_allVars
    PROVE  IInv' /\ IngestInv'
<1>1. IInv'
  BY StoreStep, NextInv
<1>2. CASE INext
  <2>1. ASSUME NEW c \in Clients, NEW o \in Calls, Begin(c, o)  PROVE Quiet(c)
    BY <2>1 DEF Quiet
  <2>2. ASSUME NEW c \in Clients, ClientStep(c)
        PROVE  \/ Quiet(c) \/ \E w \in Workers : Post(c, w)
               \/ Answered(c) \/ ConflictAgain(c) \/ ConflictEnds(c)
    BY <2>2 DEF ClientStep, Quiet
  <2>3. ASSUME NEW c \in Clients, ClientStep(c)  PROVE IngestInv'
    BY <2>2, <2>3, QuietKeeps, PostKeeps, AnswerKeeps
  <2>4. ASSUME NEW c \in Clients, NEW o \in Calls, Begin(c, o)  PROVE IngestInv'
    BY <2>1, <2>4, QuietKeeps
  <2>5. ASSUME NEW w \in Workers, ServerStep(w) \/ DropReply(w)  PROVE IngestInv'
    BY <2>5, ServerKeeps, DropKeeps
  <2> QED BY <1>1, <1>2, <2>3, <2>4, <2>5 DEF INext
<1>3. CASE UNCHANGED allVars
  <2>1. UNCHANGED redis
    BY <1>3 DEF allVars, vars, redis
  <2>2. \A v \in Workers : Carries(v)'
    <3> SUFFICES ASSUME NEW v \in Workers  PROVE Carries(v)'
      OBVIOUS
    <3>1. \A d \in Clients : calls[d] \in Nat
      BY IngestorConstants DEF IngestInv, IngestTypes, IngestTypeOK
    <3>2. (pc[v] = "done") <=> (reply[v] # "none")
      BY DEF IngestInv, Carries
    <3> QED BY <1>3, <2>1, <3>1, <3>2, CarrierKept, BasedWithout
            DEF allVars, vars, clientVars, history
  <2>3. \A d \in Clients : Calling(d)' /\ Called(d)' /\ OneRequest(d)'
    <3> SUFFICES ASSUME NEW d \in Clients  PROVE Calling(d)' /\ Called(d)' /\ OneRequest(d)'
      OBVIOUS
    <3>1. \A v \in Workers : Executes(v, d)' <=> Executes(v, d)
      BY <1>3 DEF allVars, clientVars, history, Executes
    <3>2. phase[d] = "wait" => Executes(worker[d], d)'
      BY <1>3, <3>1 DEF IngestInv, Calling, allVars, clientVars
    <3> QED BY <1>3, <2>1, <3>1, <3>2, ClientKept, BasedWithout
            DEF allVars, vars, clientVars, history
  <2>4. IngestTypes'
    BY <1>3 DEF IngestInv, IngestTypes, IngestTypeOK, allVars, clientVars, history
  <2> QED BY <1>1, <2>2, <2>3, <2>4 DEF IngestInv
<1> QED BY <1>1, <1>2, <1>3

-----------------------------------------------------------------------------
(***************************************************************************)
(* The theorems about ingest().                                            *)
(***************************************************************************)

\* The invariant behind them holds in every reachable state.
THEOREM IngestInductive == ISpec => [](IInv /\ IngestInv)
<1>1. IInit => IInv /\ IngestInv
  BY InitInv, IngestInit DEF IInit
<1> QED BY <1>1, IngestStep, PTL DEF ISpec

\* The local variables of ingest() keep their kinds; the attempts stay within their bound.
THEOREM IngestTypesHold == ISpec => []IngestTypeOK
<1>1. IngestInv => IngestTypeOK
  BY DEF IngestInv, IngestTypes
<1> QED BY <1>1, IngestInductive, PTL

\* memX under any number of ingest() calls is memX under some requests: what is proved of the
\* store holds beside the ingestor.
THEOREM IngestorUsesStore == ISpec => Spec
<1>1. IInit => Init
  BY DEF IInit
<1> QED BY <1>1, StoreStep, IngestInductive, PTL DEF ISpec, Spec

\* A result is true of the store, also of what a request still does after the call returned.
THEOREM HonestResults == ISpec => []ResultsAreHonest
<1>1. IngestInv => ResultsAreHonest
  BY DEF IngestInv, IngestTypes, Called, Executes, ResultsAreHonest
<1> QED BY <1>1, IngestInductive, PTL

\* A write replaces the record its call was decided on, whatever happened since.
THEOREM WritesWhatWasRead == ISpec => ReplacesWhatWasRead
<1> DEFINE A == \A w \in Workers : Commits(w) => store[req[w].key] = origin[w].basis
<1>1. ASSUME IInv, IngestInv, [INext]_allVars  PROVE [A]_allVars
  <2>1. CASE UNCHANGED allVars
    BY <2>1
  <2>2. CASE INext
    <3> SUFFICES ASSUME NEW w \in Workers, Commits(w)
                 PROVE  store[req[w].key] = origin[w].basis
      BY DEF A
    <3>1. Exec(w)
      BY <1>1, <2>2, OnlyOwnExec
    <3>2. req[w].expected \in {Unset, store[req[w].key].ts}
      BY <1>1, <3>1, ExecEffect
    <3>3. /\ req[w].expected = origin[w].basis.ts
          /\ Based(req[w].key, origin[w].basis)
          /\ origin[w].basis \in Record
      BY <1>1, <3>1 DEF Exec, IngestInv, Carries, IngestTypes, Origins
    <3>4. origin[w].basis.ts # Unset
      BY <3>3, RecordVersion DEF Unset, Versions, NoVersion
    <3> QED BY <3>2, <3>3, <3>4 DEF Based
  <2> QED BY <1>1, <2>1, <2>2
<1> QED BY <1>1, IngestInductive, PTL DEF ISpec, ReplacesWhatWasRead
-----------------------------------------------------------------------------
(***************************************************************************)
(* Ingestor implements AtomicIngest: every step of a client or a worker is *)
(* one step of the promise, or none.                                       *)
(***************************************************************************)
IdleCalls == \A c \in Clients : phase[c] = "idle" => call[c] = NoCall

LEMMA IdleStep ==
    ASSUME IngestInv, IdleCalls, [INext]_allVars
    PROVE  IdleCalls'
<1> USE DEF IngestInv, IngestTypes, IngestTypeOK, IdleCalls
<1>1. ASSUME NEW c \in Clients, NEW o \in Calls, Begin(c, o)  PROVE IdleCalls'
  BY <1>1 DEF Begin
<1>2. ASSUME NEW c \in Clients, NEW r, Return(c, r)  PROVE IdleCalls'
  BY <1>2 DEF Return
<1>3. ASSUME NEW c \in Clients, ClientStep(c)  PROVE IdleCalls'
  <2>1. CASE Read(c) \/ ConflictAgain(c) \/ \E w \in Workers : Post(c, w)
    BY <2>1 DEF Read, ConflictAgain, Post
  <2> QED BY <1>2, <1>3, <2>1
          DEF ClientStep, ProfileMoved, RequestFails, ReplyLost, Answered, ConflictEnds
<1>4. ASSUME NEW w \in Workers, ServerStep(w) \/ DropReply(w)  PROVE IdleCalls'
  BY <1>4 DEF ServerStep, DropReply
<1>5. CASE UNCHANGED allVars
  BY <1>5 DEF allVars, clientVars
<1> QED BY <1>1, <1>3, <1>4, <1>5 DEF INext

LEMMA CallUnderWay ==
    ASSUME IngestInv, NEW c \in Clients, phase[c] # "idle"
    PROVE  call[c] \in Calls /\ call[c] # NoCall
BY IngestorConstants DEF IngestInv, Calling, Call, NoCall

\* A write stands as it did when its worker has read nothing and is as far as it was.
LEMMA WriteKept ==
    ASSUME NEW v, pc'[v] = pc[v], req'[v] = req[v], seenTs'[v] = seenTs[v],
           seenCat'[v] = seenCat[v], reply'[v] = reply[v], origin'[v] = origin[v]
    PROVE  WriteOf(v)' = WriteOf(v)
BY DEF WriteOf, Standing, VersionMatches, NoRoom, NameListed, NothingToDelete, Indexed

LEMMA AllWritesKept ==
    ASSUME UNCHANGED <<vars, origin>>
    PROVE  [w \in Workers |-> WriteOf(w)]' = [w \in Workers |-> WriteOf(w)]
<1>1. ASSUME NEW v \in Workers  PROVE WriteOf(v)' = WriteOf(v)
  BY WriteKept DEF vars
<1> QED BY <1>1

\* The effect of ending a call, as AtomicIngest has it.
LEMMA PromisedReturn ==
    ASSUME NEW c \in Clients, NEW r, Return(c, r), UNCHANGED redis
    PROVE  Promise!Return(c, r)
BY DEF Return, Promise!Return, Promise!Absent, Absent, Promise!NoVersion, NoVersion, redis

LEMMA QuietPromise ==
    ASSUME IInv, IngestInv, IdleCalls, NEW c \in Clients, Quiet(c)
    PROVE  [Promise!IngestNext]_(Promise!promised)
<1> DEFINE W == [w \in Workers |-> WriteOf(w)]
<1>1. UNCHANGED <<vars, origin>> /\ W' = W
  <2>1. UNCHANGED <<vars, origin>>
    BY DEF Quiet, Begin, Read, ProfileMoved, RequestFails, ReplyLost, history
  <2> QED BY <2>1, AllWritesKept
<1>2. UNCHANGED <<store, catalog, catalogTs>>
  BY <1>1 DEF vars
<1>3. ASSUME NEW o \in Calls, Begin(c, o)  PROVE Promise!Begin(c, o)
  BY <1>1, <1>2, <1>3
     DEF Begin, IdleCalls, Promise!Begin, Promise!Absent, Absent, Promise!NoVersion, NoVersion
<1>4. ASSUME phase[c] # "idle"  PROVE call[c] # NoCall
  BY <1>4, CallUnderWay
<1>5. CASE Read(c)
  <2>1. phase[c] = "read" /\ worker[c] = NoWorker /\ call[c] # NoCall
    BY <1>4, <1>5 DEF Read, IngestInv, Called
  <2>2. CASE call[c].kind = "profile"
    BY <1>1, <1>2, <1>5, <2>2 DEF Read, Promise!promised
  <2>3. CASE call[c].kind # "profile"
    <3>1. Promise!Look(c)
      BY <1>1, <1>2, <1>5, <2>1, <2>3 DEF Read, Promise!Look, Promise!Deciding
    <3> QED BY <3>1 DEF Promise!IngestNext
  <2> QED BY <2>2, <2>3
<1>6. CASE ProfileMoved(c)
  <2>1. phase[c] = "read" /\ worker[c] = NoWorker /\ call[c] # NoCall
    BY <1>4, <1>6 DEF ProfileMoved, IngestInv, Called
  <2>2. Promise!Return(c, "profile_conflict")
    BY <1>1, <1>6, PromisedReturn DEF ProfileMoved, vars, redis
  <2>3. Promise!ProfileMoved(c)
    BY <1>1, <1>6, <2>1, <2>2 DEF ProfileMoved, Promise!ProfileMoved, Promise!Deciding
  <2> QED BY <2>3 DEF Promise!IngestNext
<1>7. CASE RequestFails(c) \/ ReplyLost(c)
  <2>1. call[c] # NoCall
    BY <1>4, <1>7 DEF RequestFails, ReplyLost
  <2>2. Promise!Return(c, "error")
    BY <1>1, <1>7, PromisedReturn DEF RequestFails, ReplyLost, vars, redis
  <2>3. Promise!Fail(c)
    BY <1>1, <2>1, <2>2 DEF Promise!Fail
  <2> QED BY <2>3 DEF Promise!IngestNext
<1> QED BY <1>3, <1>5, <1>6, <1>7 DEF Quiet, Promise!IngestNext

LEMMA PostPromise ==
    ASSUME IInv, IngestInv, NEW c \in Clients, NEW w \in Workers, Post(c, w)
    PROVE  Promise!Send(c, w)
<1> DEFINE W == [v \in Workers |-> WriteOf(v)]
<1>1. /\ phase[c] = "post" /\ pc[w] = "idle" /\ worker[c] = NoWorker /\ call[c] # NoCall
      /\ call[c] \in Calls
  BY CallUnderWay DEF Post, Submit, IngestInv, Called
<1>2. /\ pc'[w] = "watch" /\ req'[w] = RequestOf(c) /\ origin'[w].basis = basis[c]
      /\ worker' = [worker EXCEPT ![c] = w]
      /\ UNCHANGED <<store, catalog, catalogTs, call, basis, result>>
  BY DEF Post, Submit, IInv, TypeOK, IngestInv, IngestTypes, Origins, redis
<1>3. ASSUME NEW v \in Workers, v # w  PROVE WriteOf(v)' = WriteOf(v)
  BY <1>3, WriteKept DEF Post, Submit, IInv, TypeOK, IngestInv, IngestTypes, Origins
<1>4. WriteOf(w) = Promise!NoWrite
  BY <1>1 DEF WriteOf, Promise!NoWrite, Promise!Absent, Absent, Promise!NoVersion, NoVersion
<1>5. WriteOf(w)' = [op |-> IF call[c].kind = "delete" THEN "delete" ELSE "set",
                     key |-> call[c].key, val |-> call[c].val, basis |-> basis[c],
                     standing |-> "open"]
  BY <1>2 DEF WriteOf, Standing, RequestOf
<1>6. W' = [W EXCEPT ![w] =
               [op |-> IF call[c].kind = "delete" THEN "delete" ELSE "set",
                key |-> call[c].key, val |-> call[c].val, basis |-> basis[c],
                standing |-> "open"]]
  BY <1>3, <1>5
<1> QED BY <1>1, <1>2, <1>4, <1>6 DEF Promise!Send, Promise!Deciding

LEMMA OverPromise ==
    ASSUME IInv, IngestInv, NEW w \in Workers, Release(w)
    PROVE  /\ WriteOf(w).standing = reply[w] /\ reply[w] # "open"
           /\ Promise!Over(w) /\ UNCHANGED redis
<1> DEFINE W == [v \in Workers |-> WriteOf(v)]
<1>1. pc[w] = "done" /\ pc'[w] = "idle" /\ UNCHANGED redis
  BY DEF Release, Finish, IInv, TypeOK
<1>2. WriteOf(w).standing = reply[w] /\ reply[w] # "open"
  BY <1>1 DEF WriteOf, Standing, IInv, TypeOK, Status
<1>3. ASSUME NEW v \in Workers, v # w  PROVE WriteOf(v)' = WriteOf(v)
  BY <1>3, WriteKept DEF Release, Finish, IInv, TypeOK, IngestInv, IngestTypes, Origins
<1>4. WriteOf(w)' = Promise!NoWrite
  BY <1>1 DEF WriteOf, Promise!NoWrite, Promise!Absent, Absent, Promise!NoVersion, NoVersion
<1>5. W' = [W EXCEPT ![w] = Promise!NoWrite]
  BY <1>3, <1>4
<1> QED BY <1>1, <1>2, <1>5 DEF Promise!Over

LEMMA AnswerPromise ==
    ASSUME IInv, IngestInv, NEW c \in Clients,
           Answered(c) \/ ConflictAgain(c) \/ ConflictEnds(c)
    PROVE  Promise!IngestNext
<1> DEFINE W == [v \in Workers |-> WriteOf(v)]
<1>1. /\ phase[c] = "wait" /\ Release(worker[c]) /\ worker[c] \in Workers
      /\ call[c] # NoCall
  BY CallUnderWay DEF Answered, ConflictAgain, ConflictEnds, IngestInv, Calling
<1>2. PICK w \in Workers : w = worker[c]
  BY <1>1
<1>3. /\ W[w].standing = reply[w] /\ reply[w] # "open"
      /\ Promise!Over(w) /\ UNCHANGED <<store, catalog, catalogTs>> /\ UNCHANGED redis
  BY <1>1, <1>2, OverPromise DEF redis
<1>4. CASE Answered(c)
  <2>1. Promise!Return(c, IF reply[w] = "server_error" THEN "error" ELSE reply[w])
    BY <1>2, <1>3, <1>4, PromisedReturn DEF Answered, Verdict
  <2>2. Promise!Answer(c, w)
    BY <1>2, <1>3, <1>4, <2>1 DEF Answered, Promise!Answer
  <2> QED BY <2>2 DEF Promise!IngestNext
<1>5. CASE ConflictAgain(c)
  <2>1. Promise!Again(c, w)
    BY <1>2, <1>3, <1>5 DEF ConflictAgain, Promise!Again
  <2> QED BY <2>1 DEF Promise!IngestNext
<1>6. CASE ConflictEnds(c)
  <2>1. Promise!Return(c, IF call[c].kind = "profile" THEN "profile_conflict"
                                                      ELSE "retryable_failure")
    BY <1>3, <1>6, PromisedReturn DEF ConflictEnds
  <2>2. Promise!Outdated(c, w)
    BY <1>2, <1>3, <1>6, <2>1 DEF ConflictEnds, Promise!Outdated
  <2> QED BY <2>2 DEF Promise!IngestNext
<1> QED BY <1>4, <1>5, <1>6

LEMMA DropPromise ==
    ASSUME IInv, IngestInv, NEW w \in Workers, DropReply(w)
    PROVE  Promise!Expire(w)
<1>1. /\ WriteOf(w).standing # "open"
      /\ Promise!Over(w) /\ UNCHANGED <<store, catalog, catalogTs>>
  BY OverPromise DEF DropReply, redis
<1> QED BY <1>1 DEF DropReply, Promise!Expire
\* Of the other writes a worker's step changes nothing.
LEMMA OtherWritesKept ==
    ASSUME IInv, NEW w \in Workers, ServerStep(w), NEW v \in Workers, v # w
    PROVE  WriteOf(v)' = WriteOf(v)
<1>1. origin' = origin
  BY DEF ServerStep
<1>2. WorkerStep(w)
  BY DEF ServerStep
<1>3. /\ pc'[v] = pc[v] /\ req'[v] = req[v] /\ seenTs'[v] = seenTs[v]
      /\ seenCat'[v] = seenCat[v] /\ reply'[v] = reply[v]
  BY <1>2 DEF WorkerStep, Watch, GetValue, GetIndex, Conflict, CatalogFull, NothingThere,
              VersionExhausted, Accepted, Refuse, Prepare, Retry, Exec, Forget, IInv, TypeOK
<1> QED BY <1>1, <1>3, WriteKept

\* What a step of w does to its own write is all that it does to the promise's client side.
LEMMA StandingMoves ==
    ASSUME IInv, NEW w \in Workers, ServerStep(w), pc[w] # "idle", pc'[w] # "idle",
           req'[w] = req[w], NEW r, Standing(w)' = r, UNCHANGED redis
    PROVE  /\ r = Standing(w) => UNCHANGED Promise!promised
           /\ Standing(w) = "open" =>
                Promise!Becomes(w, r) /\ UNCHANGED <<store, catalog, catalogTs>>
<1> DEFINE W == [v \in Workers |-> WriteOf(v)]
<1>1. UNCHANGED <<call, basis, worker, result, origin, store, catalog, catalogTs>>
  BY DEF ServerStep, redis
<1>2. W' = [W EXCEPT ![w].standing = r]
  <2>1. WriteOf(w)' = [WriteOf(w) EXCEPT !.standing = r]
    BY <1>1 DEF WriteOf
  <2> QED BY <2>1, OtherWritesKept
<1>3. W[w].standing = Standing(w)
  BY DEF WriteOf
<1>4. ASSUME r = Standing(w)  PROVE W' = W
  <2>1. WriteOf(w)' = WriteOf(w)
    BY <1>1, <1>4 DEF WriteOf
  <2> QED BY <2>1, OtherWritesKept
<1> QED BY <1>1, <1>2, <1>3, <1>4 DEF Promise!promised, Promise!Becomes

\* The redis-quiet steps of a worker, in the terms of how its write stands.
LEMMA ReadPromise ==
    ASSUME IInv, IngestInv, NEW w \in Workers, ServerStep(w), GetValue(w) \/ GetIndex(w)
    PROVE  [Promise!IngestNext]_(Promise!promised)
<1> USE DEF Promise!Absent, Absent, Promise!NoVersion, NoVersion
<1>1. /\ pc[w] \in {"get", "index"} /\ pc'[w] \in {"index", "decide"}
      /\ req' = req /\ UNCHANGED redis /\ reply' = reply
      /\ UNCHANGED <<store, catalog, catalogTs, call, basis, worker, result, origin>>
  BY DEF GetValue, GetIndex, ServerStep, IInv, TypeOK, redis
<1>2. /\ req[w].expected = origin[w].basis.ts /\ origin[w].basis \in Record
      /\ req[w].expected # Unset
      /\ req[w].op = "delete" => req[w].key \in Facts
      /\ req[w].key \in Keys /\ req[w] \in Request
  <2>1. origin[w].basis \in Record /\ req[w].expected = origin[w].basis.ts
    BY <1>1 DEF IngestInv, Carries, IngestTypes, Origins
  <2>2. origin[w].basis.ts # Unset
    BY <2>1, RecordVersion DEF Unset, Versions
  <2>3. req[w] \in Request
    BY <1>1 DEF IInv, WorkerInv
  <2> QED BY <1>1, <2>1, <2>2, <2>3, RequestFields DEF IngestInv, Carries, IInv, TypeOK
<1>3. /\ WriteOf(w).key = req[w].key /\ WriteOf(w).op = req[w].op
      /\ WriteOf(w).basis = origin[w].basis /\ WriteOf(w).standing = Standing(w)
  BY <1>1 DEF WriteOf
<1>4. \A r : r = Standing(w)' =>
         /\ r = Standing(w) => UNCHANGED Promise!promised
         /\ Standing(w) = "open" => Promise!Becomes(w, r)
  BY <1>1, StandingMoves
<1>5. ASSUME NEW r \in {"conflict", "absent", "catalog_full"},
             r = Standing(w)', Standing(w) = "open", Promise!Reason(w, r)
      PROVE  Promise!IngestNext
  <2>1. Promise!Learn(w, r)
    BY <1>1, <1>4, <1>5 DEF Promise!Learn
  <2> QED BY <2>1 DEF Promise!IngestNext
<1>6. CASE GetValue(w)
  <2>1. /\ pc[w] = "get" /\ Standing(w) = "open" /\ seenTs'[w] = store[req[w].key].ts
        /\ pc'[w] = IF Indexed(req[w]) THEN "index" ELSE "decide"
    BY <1>6 DEF GetValue, Standing, IInv, TypeOK
  <2>2. CASE req[w].expected # store[req[w].key].ts
    <3>1. Standing(w)' = "conflict"
      BY <1>1, <1>2, <2>1, <2>2 DEF Standing, VersionMatches
    <3>2. Promise!Reason(w, "conflict")
      BY <1>2, <1>3, <2>2 DEF Promise!Reason
    <3> QED BY <1>5, <2>1, <3>1, <3>2
  <2>3. CASE req[w].expected = store[req[w].key].ts
    <3>1. VersionMatches(w)'
      BY <1>1, <2>1, <2>3 DEF VersionMatches
    <3>2. pc'[w] = "decide" => ~NoRoom(w)' /\ req[w].op # "delete"
      BY <1>1, <1>2, <2>1 DEF NoRoom, Indexed
    <3>3. Standing(w)' = "open"
      BY <1>1, <2>1, <3>1, <3>2 DEF Standing
    <3> QED BY <1>4, <2>1, <3>3
  <2> QED BY <2>2, <2>3
<1>7. CASE GetIndex(w)
  <2>1. /\ pc[w] = "index" /\ pc'[w] = "decide" /\ seenCat'[w] = catalog
        /\ seenTs' = seenTs
    BY <1>7 DEF GetIndex, IInv, TypeOK
  <2>2. VersionMatches(w)' <=> VersionMatches(w)
    BY <1>1, <2>1 DEF VersionMatches
  <2>3. CASE ~VersionMatches(w)
    <3>1. Standing(w) = "conflict" /\ Standing(w)' = "conflict"
      BY <1>1, <2>1, <2>2, <2>3 DEF Standing
    <3> QED BY <1>4, <3>1
  <2>4. ASSUME VersionMatches(w), req[w].op = "set", NoRoom(w)'
        PROVE  Promise!IngestNext
    <3>1. Standing(w) = "open" /\ Standing(w)' = "catalog_full"
      BY <1>1, <2>1, <2>2, <2>4 DEF Standing
    <3>2. /\ catalog[req[w].key] = NoEntry /\ req[w].key \in Facts
          /\ Cardinality(Listed(catalog)) >= MaxEntries
      BY <1>1, <2>1, <2>4 DEF NoRoom, NameListed, Indexed
    <3>3. /\ Promise!Listed = Listed(catalog)
          /\ Promise!Cardinality(Listed(catalog)) = Cardinality(Listed(catalog))
      <4>1. Promise!Listed = Listed(catalog)
        BY DEF Promise!Listed, Listed
      <4>2. Promise!Cardinality(Listed(catalog)) = Cardinality(Listed(catalog))
        BY Zenon DEF Promise!Cardinality, Cardinality
      <4> QED BY <4>1, <4>2
    <3>4. req[w].key \in Facts \ Promise!Listed /\ Promise!Cardinality(Promise!Listed) >= MaxEntries
      BY <3>2, <3>3 DEF Listed
    <3>5. Promise!Reason(w, "catalog_full")
      BY <1>3, <2>4, <3>4 DEF Promise!Reason
    <3> QED BY <1>5, <3>1, <3>5
  <2>5. ASSUME VersionMatches(w), req[w].op = "delete", NothingToDelete(w)'
        PROVE  Promise!IngestNext
    <3>1. Standing(w) = "open" /\ Standing(w)' = "absent"
      BY <1>1, <2>1, <2>2, <2>5 DEF Standing
    <3>2. catalog[req[w].key] = NoEntry /\ req[w].key \in Facts
      BY <1>1, <1>2, <2>1, <2>5 DEF NothingToDelete, NameListed, Indexed
    <3>3. store[req[w].key] = Absent
      <4>1. store[req[w].key] \in Record
        BY <1>2 DEF IInv, TypeOK
      <4>2. store[req[w].key] # Absent => catalog[req[w].key] # NoEntry
        BY <3>2, <4>1, MemxConstants DEF IInv, CatalogAgrees, Record
      <4> QED BY <3>2, <4>2
    <3>4. Promise!Reason(w, "absent")
      BY <1>3, <2>5, <3>3 DEF Promise!Reason
    <3> QED BY <1>5, <3>1, <3>4
  <2>6. ASSUME VersionMatches(w), ~(req[w].op = "set" /\ NoRoom(w)'),
               ~(req[w].op = "delete" /\ NothingToDelete(w)')
        PROVE  UNCHANGED Promise!promised
    <3>1. Standing(w) = "open" /\ Standing(w)' = "open"
      BY <1>1, <2>1, <2>2, <2>6 DEF Standing
    <3> QED BY <1>4, <3>1
  <2> QED BY <2>3, <2>4, <2>5, <2>6
<1> QED BY <1>6, <1>7

\* The steps that settle a request without EXEC, and the ones that only go on.
LEMMA SettlePromise ==
    ASSUME IInv, IngestInv, NEW w \in Workers, ServerStep(w),
           \/ Watch(w) \/ Retry(w) \/ \E now \in Clocks : Prepare(w, now)
           \/ Conflict(w) \/ CatalogFull(w) \/ NothingThere(w) \/ VersionExhausted(w)
    PROVE  [Promise!IngestNext]_(Promise!promised)
<1>1. /\ pc[w] \notin {"idle", "done"} /\ pc'[w] # "idle" /\ req' = req /\ UNCHANGED redis
  BY DEF Watch, Retry, Prepare, Conflict, CatalogFull, NothingThere, VersionExhausted,
         Accepted, Refuse, IInv, TypeOK
<1>2. \A r : r = Standing(w)' =>
         /\ r = Standing(w) => UNCHANGED Promise!promised
         /\ Standing(w) = "open" =>
              Promise!Becomes(w, r) /\ UNCHANGED <<store, catalog, catalogTs>>
  BY <1>1, StandingMoves
<1>3. ASSUME NEW s, Refuse(w, s)  PROVE Standing(w)' = s
  BY <1>3 DEF Refuse, Standing, IInv, TypeOK
<1>4. CASE Watch(w) \/ Retry(w) \/ \E now \in Clocks : Prepare(w, now)
  <2>1. Standing(w) = "open" /\ Standing(w)' = "open"
    BY <1>4 DEF Watch, Retry, Prepare, Accepted, Standing, IInv, TypeOK
  <2> QED BY <1>2, <2>1
<1>5. CASE Conflict(w) \/ CatalogFull(w) \/ NothingThere(w)
  <2>1. PICK s : s = Standing(w) /\ Refuse(w, s)
    BY <1>5 DEF Conflict, CatalogFull, NothingThere, Standing
  <2> QED BY <1>2, <1>3, <2>1
<1>6. CASE VersionExhausted(w)
  <2>1. Standing(w) = "open" /\ Refuse(w, "server_error")
    BY <1>6 DEF VersionExhausted, Accepted, Standing
  <2>2. Promise!Break(w)
    BY <1>2, <1>3, <2>1 DEF Promise!Break
  <2> QED BY <2>2 DEF Promise!IngestNext
<1> QED BY <1>4, <1>5, <1>6
\* An EXEC is the whole effect of its call, over the record the call was decided on.
LEMMA ExecPromise ==
    ASSUME IInv, IngestInv, NEW w \in Workers, ServerStep(w), Exec(w)
    PROVE  Promise!Land(w)
<1> USE DEF Promise!Keys, Promise!Versions, Promise!NoVersion, Promise!Absent,
            Keys, Versions, NoVersion, Absent
<1> DEFINE W == [v \in Workers |-> WriteOf(v)]
           done == IF req[w].op = "set" THEN "committed" ELSE "deleted"
<1>1. PICK k : k = req[w].key
  OBVIOUS
<1>2. /\ pc[w] = "exec" /\ pc'[w] = "done" /\ req' = req /\ reply'[w] = done
      /\ UNCHANGED <<call, basis, worker, result, origin>>
  BY DEF Exec, ServerStep, IInv, TypeOK
<1>3. /\ W[w].key = k /\ W[w].op = req[w].op /\ W[w].val = req[w].val
      /\ W[w].basis = origin[w].basis /\ W[w].standing = "open"
  BY <1>1, <1>2 DEF WriteOf, Standing
<1>4. WriteOf(w)' = [WriteOf(w) EXCEPT !.standing = done]
  BY <1>2 DEF WriteOf, Standing
<1>5. W' = [W EXCEPT ![w].standing = done]
  BY <1>4, OtherWritesKept
<1>6. Promise!Becomes(w, done)
  BY <1>2, <1>3, <1>5 DEF Promise!Becomes
<1>7. store[k] = origin[w].basis
  <2>1. req[w].expected \in {Unset, store[k].ts}
    BY <1>1, ExecEffect
  <2>2. /\ req[w].expected = origin[w].basis.ts /\ Based(k, origin[w].basis)
        /\ origin[w].basis \in Record
    BY <1>1, <1>2 DEF IngestInv, Carries, IngestTypes, Origins
  <2>3. origin[w].basis.ts # Unset
    BY <2>2, RecordVersion DEF Unset
  <2> QED BY <2>1, <2>2, <2>3 DEF Based
<1>8. k \in Keys /\ req[w].op \in {"set", "delete"} /\ (req[w].op = "delete" => k \in Facts)
  BY <1>1, <1>2, ExecEffect DEF IngestInv, Carries
<1>9. Promise!Listed = Listed(catalog)
  BY DEF Promise!Listed, Listed
<1>10. CASE k \in Facts /\ req[w].op = "set"
  <2>1. /\ req[w].val \in Values /\ newTs[w] \in Versions
        /\ newTs[w] > catalogTs /\ catalogTs' = newTs[w]
        /\ store' = [store EXCEPT ![k] = [val |-> req[w].val, ts |-> newTs[w]]]
        /\ catalog[k] # NoEntry \/ Cardinality(Listed(catalog)) < MaxEntries
        /\ catalog' = [catalog EXCEPT ![k] = TagOf[req[w].val]]
    BY <1>1, <1>10, ExecEffect
  <2>2. Promise!Cardinality(Listed(catalog)) = Cardinality(Listed(catalog))
    BY Zenon DEF Promise!Cardinality, Cardinality
  <2>3. k \in Promise!Listed \/ Promise!Cardinality(Promise!Listed) < MaxEntries
    BY <1>9, <1>10, <2>1, <2>2 DEF Listed
  <2>4. Promise!PutFact(k, W[w].val, newTs[w])
    BY <1>3, <2>1, <2>3 DEF Promise!PutFact
  <2> QED BY <1>3, <1>6, <1>7, <1>10, <2>1, <2>4 DEF Promise!Land
<1>11. CASE k = Profile /\ req[w].op = "set"
  <2>1. /\ req[w].val \in Values /\ newTs[w] \in Versions /\ newTs[w] > store[k].ts
        /\ store' = [store EXCEPT ![k] = [val |-> req[w].val, ts |-> newTs[w]]]
        /\ UNCHANGED <<catalog, catalogTs>>
    BY <1>1, <1>11, ExecEffect
  <2>2. Promise!PutPlain(W[w].val, newTs[w]) /\ k \notin Facts
    BY <1>3, <1>11, <2>1, MemxConstants DEF Promise!PutPlain
  <2> QED BY <1>3, <1>6, <1>7, <1>11, <2>1, <2>2 DEF Promise!Land
<1>12. CASE k \in Facts /\ req[w].op = "delete"
  <2>1. /\ newTs[w] \in Versions /\ newTs[w] > catalogTs /\ catalogTs' = newTs[w]
        /\ store' = [store EXCEPT ![k] = Absent]
        /\ catalog[k] # NoEntry
        /\ catalog' = [catalog EXCEPT ![k] = NoEntry]
    BY <1>1, <1>12, ExecEffect
  <2>2. Promise!RemoveFact(k, newTs[w])
    BY <1>12, <2>1 DEF Promise!RemoveFact, Promise!Listed
  <2> QED BY <1>3, <1>6, <1>7, <1>12, <2>1, <2>2 DEF Promise!Land
<1> QED BY <1>8, <1>10, <1>11, <1>12

\* Through WATCH, stale reads, retries, timeouts and lost replies, ingest() is one atomic
\* operation for its caller: written once over what it was decided on, or refused for a
\* reason that was true during the call.
THEOREM AtomicIngestion == ISpec => CallsAreAtomic
<1>1. IInit => IdleCalls /\ Promise!IngestInit
  <2> USE DEF Promise!Keys, Promise!Versions, Promise!NoVersion, Promise!Absent,
              Keys, Versions, NoVersion, Absent, EmptyCatalog
  <2>1. IInit => IdleCalls
    BY DEF IInit, IdleCalls
  <2>2. IInit => Promise!Init
    BY DEF IInit, Init, Promise!Init
  <2>3. ASSUME IInit, NEW w \in Workers  PROVE WriteOf(w) = Promise!NoWrite
    BY <2>3 DEF IInit, Init, WriteOf, Promise!NoWrite
  <2>4. IInit => [w \in Workers |-> WriteOf(w)] = [w \in Workers |-> Promise!NoWrite]
    BY <2>3
  <2> QED BY <2>1, <2>2, <2>4 DEF IInit, Promise!IngestInit
<1>2. ASSUME IInv, IngestInv, IdleCalls, [INext]_allVars
      PROVE  [Promise!IngestNext]_(Promise!promised)
  <2>1. ASSUME NEW c \in Clients, NEW o \in Calls, Begin(c, o)
        PROVE  [Promise!IngestNext]_(Promise!promised)
    BY <1>2, <2>1, QuietPromise DEF Quiet
  <2>2. ASSUME NEW c \in Clients, ClientStep(c)
        PROVE  [Promise!IngestNext]_(Promise!promised)
    <3>1. CASE \E w \in Workers : Post(c, w)
      BY <1>2, <3>1, PostPromise DEF Promise!IngestNext
    <3>2. CASE Answered(c) \/ ConflictAgain(c) \/ ConflictEnds(c)
      BY <1>2, <3>2, AnswerPromise
    <3> QED BY <1>2, <2>2, <3>1, <3>2, QuietPromise DEF ClientStep, Quiet
  <2>3. ASSUME NEW w \in Workers, ServerStep(w)
        PROVE  [Promise!IngestNext]_(Promise!promised)
    <3>1. CASE Exec(w)
      BY <1>2, <2>3, <3>1, ExecPromise DEF Promise!IngestNext
    <3>2. WorkerStep(w)
      BY <2>3 DEF ServerStep
    <3> QED BY <1>2, <2>3, <3>1, <3>2, ReadPromise, SettlePromise DEF WorkerStep
  <2>4. ASSUME NEW w \in Workers, DropReply(w)
        PROVE  [Promise!IngestNext]_(Promise!promised)
    BY <1>2, <2>4, DropPromise DEF Promise!IngestNext
  <2>5. CASE UNCHANGED allVars
    <3>1. [w \in Workers |-> WriteOf(w)]' = [w \in Workers |-> WriteOf(w)]
      BY <2>5, AllWritesKept DEF allVars, clientVars, history
    <3> QED BY <2>5, <3>1 DEF allVars, vars, clientVars, Promise!promised
  <2> QED BY <1>2, <2>1, <2>2, <2>3, <2>4, <2>5 DEF INext
<1>3. ISpec => []IdleCalls
  BY <1>1, IdleStep, IngestInductive, PTL DEF ISpec
<1> QED BY <1>1, <1>2, <1>3, IngestInductive, PTL DEF ISpec, CallsAreAtomic, Promise!IngestSpec
=============================================================================

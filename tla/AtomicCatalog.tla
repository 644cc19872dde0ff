---------------------------- MODULE AtomicCatalog ----------------------------
(***************************************************************************)
(* What memX promises of one principal's private namespace: a value and    *)
(* its catalog entry change together, in one indivisible step, and a fact  *)
(* is catalogued exactly while it is stored.  Nothing here knows of WATCH, *)
(* EXEC, stale reads or retries (MemxStore does).                          *)
(***************************************************************************)
EXTENDS Integers, FiniteSets

CONSTANTS Facts, Profile, Values, Tags, TagOf, MaxEntries, MaxVersion,
          NoValue, NoEntry

VARIABLES store, catalog, catalogTs

Keys == Facts \cup {Profile}
Versions == 0..MaxVersion
NoVersion == -1
Absent == [val |-> NoValue, ts |-> NoVersion]
Listed == {f \in Facts : catalog[f] # NoEntry}

Init ==
    /\ store = [k \in Keys |-> Absent]
    /\ catalog = [f \in Facts |-> NoEntry]
    /\ catalogTs = NoVersion

\* Store a fact: only with room for its name, at a version above every version
\* the namespace has given to a fact.
PutFact(f, v, ver) ==
    /\ f \in Listed \/ Cardinality(Listed) < MaxEntries
    /\ ver > catalogTs
    /\ store' = [store EXCEPT ![f] = [val |-> v, ts |-> ver]]
    /\ catalog' = [catalog EXCEPT ![f] = TagOf[v]]
    /\ catalogTs' = ver

RemoveFact(f, ver) ==
    /\ f \in Listed
    /\ ver > catalogTs
    /\ store' = [store EXCEPT ![f] = Absent]
    /\ catalog' = [catalog EXCEPT ![f] = NoEntry]
    /\ catalogTs' = ver

\* A key without catalog entry: its versions grow while the record lives.
PutPlain(v, ver) ==
    /\ ver > store[Profile].ts
    /\ store' = [store EXCEPT ![Profile] = [val |-> v, ts |-> ver]]
    /\ UNCHANGED <<catalog, catalogTs>>

RemovePlain ==
    /\ store[Profile] # Absent
    /\ store' = [store EXCEPT ![Profile] = Absent]
    /\ UNCHANGED <<catalog, catalogTs>>

Next ==
    \/ \E ver \in Versions :
          \/ \E f \in Facts, v \in Values : PutFact(f, v, ver)
          \/ \E f \in Facts : RemoveFact(f, ver)
          \/ \E v \in Values : PutPlain(v, ver)
    \/ RemovePlain

Spec == Init /\ [][Next]_<<store, catalog, catalogTs>>
=============================================================================

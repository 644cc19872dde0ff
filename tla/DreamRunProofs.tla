--------------------------- MODULE DreamRunProofs ---------------------------
(***************************************************************************)
(* DreamInv is inductive, and what follows from it.                        *)
(***************************************************************************)
EXTENDS DreamRun, TLAPS

(* The catalog.                                                            *)

\* No name but the removed one leaves a catalog, and none enters it.
LEMMA WithoutKeepsOthers ==
    ASSUME NEW S, NEW cat \in Seq(S), NEW n,
           \A i, j \in DOMAIN cat : cat[i] = cat[j] => i = j
    PROVE  /\ Without(cat, n) \in Seq(S)
           /\ Range(Without(cat, n)) = Range(cat) \ {n}
           /\ \A i, j \in DOMAIN Without(cat, n) :
                  Without(cat, n)[i] = Without(cat, n)[j] => i = j
           /\ Len(Without(cat, n)) = IF n \in Range(cat) THEN Len(cat) - 1 ELSE Len(cat)
<1>1. CASE n \notin Range(cat)
  <2>1. Without(cat, n) = cat
    BY <1>1 DEF Without
  <2> QED
    BY <1>1, <2>1
<1>2. CASE n \in Range(cat)
  <2>1. PICK p \in DOMAIN cat : p = Place(cat, n) /\ cat[p] = n
    BY <1>2 DEF Place, Range
  <2> DEFINE w == RemoveAt(cat, p)
  <2>2. p \in 1 .. Len(cat) /\ Len(cat) \in Nat /\ DOMAIN cat = 1 .. Len(cat)
    BY <2>1
  <2> DEFINE u == SubSeq(cat, 1, p - 1)
             v == SubSeq(cat, p + 1, Len(cat))
  <2>3. u \in Seq(S) /\ Len(u) = p - 1 /\ \A i \in 1 .. p - 1 : u[i] = cat[i]
    BY <2>2
  <2>4. v \in Seq(S) /\ Len(v) = Len(cat) - p /\ \A i \in 1 .. Len(cat) - p : v[i] = cat[i + p]
    BY <2>2
  <2>5. /\ w \in Seq(S) /\ Len(w) = Len(cat) - 1
        /\ \A i \in 1 .. p - 1 : w[i] = cat[i]
        /\ \A i \in p .. Len(cat) - 1 : w[i] = cat[i + 1]
    <3>1. w = u \o v
      BY DEF RemoveAt
    <3> HIDE DEF u, v, w
    <3>2. w \in Seq(S) /\ Len(w) = Len(u) + Len(v)
      BY <3>1, <2>3, <2>4
    <3>3. Len(u) = p - 1 /\ Len(v) = Len(cat) - p
      BY <2>3, <2>4
    <3>4. \A i \in 1 .. Len(u) + Len(v) : w[i] = IF i <= Len(u) THEN u[i] ELSE v[i - Len(u)]
      <4>1. u \in Seq(S) /\ v \in Seq(S)
        BY <2>3, <2>4
      <4>2. \A i \in 1 .. Len(u) + Len(v) :
               (u \o v)[i] = IF i <= Len(u) THEN u[i] ELSE v[i - Len(u)]
        BY <4>1
      <4> QED
        BY <3>1, <4>2
    <3>5. ASSUME NEW i \in p .. Len(cat) - 1
          PROVE  w[i] = cat[i + 1]
      <4>1. /\ i \in Int /\ i \in 1 .. Len(u) + Len(v) /\ ~ (i <= Len(u))
            /\ i - Len(u) = i - (p - 1) /\ i - (p - 1) \in 1 .. Len(cat) - p
            /\ i - (p - 1) + p = i + 1
        BY <2>2, <3>3
      <4>2. w[i] = v[i - (p - 1)]
        BY <3>4, <4>1
      <4>3. v[i - (p - 1)] = cat[i - (p - 1) + p]
        BY <2>4, <4>1
      <4> QED
        BY <4>1, <4>2, <4>3
    <3>6. ASSUME NEW i \in 1 .. p - 1
          PROVE  w[i] = cat[i]
      <4>1. i \in 1 .. Len(u) + Len(v) /\ i <= Len(u)
        BY <2>2, <3>3
      <4>2. w[i] = u[i]
        BY <3>4, <4>1
      <4> QED
        BY <4>2, <2>3
    <3>7. Len(w) = Len(cat) - 1
      BY <3>2, <3>3, <2>2
    <3> QED
      BY <3>2, <3>5, <3>6, <3>7
  <2> HIDE DEF w
  <2>6. DOMAIN w = 1 .. Len(cat) - 1
    BY <2>5
  <2>7. Range(w) \subseteq Range(cat) \ {n}
    <3> SUFFICES ASSUME NEW i \in 1 .. Len(cat) - 1
                 PROVE  w[i] \in Range(cat) \ {n}
      BY <2>6 DEF Range
    <3>1. CASE i < p
      BY <3>1, <2>1, <2>2, <2>5 DEF Range
    <3>2. CASE i >= p
      BY <3>2, <2>1, <2>2, <2>5 DEF Range
    <3> QED
      BY <3>1, <3>2, <2>2
  <2>8. Range(cat) \ {n} \subseteq Range(w)
    <3> SUFFICES ASSUME NEW i \in DOMAIN cat, cat[i] # n
                 PROVE  cat[i] \in Range(w)
      BY DEF Range
    <3>1. i # p /\ i \in 1 .. Len(cat)
      BY <2>1, <2>2
    <3>2. CASE i < p
      <4>1. i \in DOMAIN w /\ w[i] = cat[i]
        BY <3>1, <3>2, <2>2, <2>5, <2>6
      <4> QED
        BY <4>1 DEF Range
    <3>3. CASE i > p
      <4>1. i - 1 \in DOMAIN w /\ w[i - 1] = cat[i]
        BY <3>1, <3>3, <2>2, <2>5, <2>6
      <4> QED
        BY <4>1 DEF Range
    <3> QED
      BY <3>1, <3>2, <3>3, <2>2
  <2>9. \A i, j \in DOMAIN w : w[i] = w[j] => i = j
    <3> SUFFICES ASSUME NEW i \in 1 .. Len(cat) - 1, NEW j \in 1 .. Len(cat) - 1, w[i] = w[j]
                 PROVE  i = j
      BY <2>6
    <3>1. \A k \in 1 .. Len(cat) - 1 :
            \/ k < p /\ k \in DOMAIN cat /\ w[k] = cat[k]
            \/ k >= p /\ k + 1 \in DOMAIN cat /\ w[k] = cat[k + 1]
      <4> SUFFICES ASSUME NEW k \in 1 .. Len(cat) - 1
                   PROVE  \/ k < p /\ k \in DOMAIN cat /\ w[k] = cat[k]
                          \/ k >= p /\ k + 1 \in DOMAIN cat /\ w[k] = cat[k + 1]
        OBVIOUS
      <4>1. CASE k < p
        BY <4>1, <2>2, <2>5
      <4>2. CASE k >= p
        BY <4>2, <2>2, <2>5
      <4> QED
        BY <4>1, <4>2, <2>2
    <3> QED
      BY <3>1, <2>2
  <2>10. Without(cat, n) = w
    BY <1>2, <2>1 DEF Without, w
  <2> QED
    BY <1>2, <2>5, <2>7, <2>8, <2>9, <2>10
<1> QED
  BY <1>1, <1>2

\* Storing a name keeps every other name, and takes a slot only if the name is new.
LEMMA PutKeepsNames ==
    ASSUME NEW S, NEW cat \in Seq(S), NEW n \in S,
           \A i, j \in DOMAIN cat : cat[i] = cat[j] => i = j
    PROVE  /\ Put(cat, n) \in Seq(S)
           /\ Range(Put(cat, n)) = Range(cat) \cup {n}
           /\ \A i, j \in DOMAIN Put(cat, n) : Put(cat, n)[i] = Put(cat, n)[j] => i = j
           /\ Len(Put(cat, n)) = IF n \in Range(cat) THEN Len(cat) ELSE Len(cat) + 1
<1> DEFINE w == Without(cat, n)
           q == Append(w, n)
<1>1. /\ w \in Seq(S) /\ Range(w) = Range(cat) \ {n}
      /\ \A i, j \in DOMAIN w : w[i] = w[j] => i = j
      /\ Len(w) = IF n \in Range(cat) THEN Len(cat) - 1 ELSE Len(cat)
  BY WithoutKeepsOthers
<1>2. Put(cat, n) = q
  BY DEF Put
<1> HIDE DEF w
<1>3. /\ q \in Seq(S) /\ Len(q) = Len(w) + 1 /\ q[Len(w) + 1] = n
      /\ \A i \in 1 .. Len(w) : q[i] = w[i]
  BY <1>1
<1> HIDE DEF q
<1>4. DOMAIN w = 1 .. Len(w) /\ DOMAIN q = 1 .. Len(w) + 1 /\ Len(w) \in Nat /\ Len(cat) \in Nat
  BY <1>1, <1>3
<1>5. Range(q) = Range(w) \cup {n}
  <2>1. Range(q) \subseteq Range(w) \cup {n}
    BY <1>3, <1>4 DEF Range
  <2>2. \A i \in DOMAIN w : w[i] \in Range(q)
    BY <1>3, <1>4 DEF Range
  <2>3. n \in Range(q)
    BY <1>3, <1>4 DEF Range
  <2> QED
    BY <2>1, <2>2, <2>3 DEF Range
<1>6. \A i \in DOMAIN w : w[i] # n
  BY <1>1 DEF Range
<1>7. \A i, j \in DOMAIN q : q[i] = q[j] => i = j
  BY <1>1, <1>3, <1>4, <1>6, SMTT(60)
<1> QED
  BY <1>1, <1>2, <1>3, <1>4, <1>5, <1>7

\* The two lemmas for the owner's catalog.
LEMMA ListingWithout ==
    ASSUME Listing(catalog), NEW n
    PROVE  Listing(Without(catalog, n)) /\ Range(Without(catalog, n)) = Range(catalog) \ {n}
<1>1. Len(catalog) \in Nat /\ MaxEntries \in Nat
  BY DreamAssumption DEF Listing
<1>2. /\ Without(catalog, n) \in Seq(Names)
      /\ Range(Without(catalog, n)) = Range(catalog) \ {n}
      /\ \A i, j \in DOMAIN Without(catalog, n) :
             Without(catalog, n)[i] = Without(catalog, n)[j] => i = j
      /\ Len(Without(catalog, n)) \in {Len(catalog) - 1, Len(catalog)}
  BY WithoutKeepsOthers DEF Listing
<1> QED
  BY <1>1, <1>2 DEF Listing

LEMMA ListingPut ==
    ASSUME Listing(catalog), NEW n \in Names, Room(n)
    PROVE  Listing(Put(catalog, n)) /\ Range(Put(catalog, n)) = Range(catalog) \cup {n}
<1>1. Len(catalog) \in Nat /\ MaxEntries \in Nat
  BY DreamAssumption DEF Listing
<1>2. /\ Put(catalog, n) \in Seq(Names)
      /\ Range(Put(catalog, n)) = Range(catalog) \cup {n}
      /\ \A i, j \in DOMAIN Put(catalog, n) : Put(catalog, n)[i] = Put(catalog, n)[j] => i = j
      /\ Len(Put(catalog, n)) = IF n \in Range(catalog) THEN Len(catalog) ELSE Len(catalog) + 1
  BY PutKeepsNames DEF Listing
<1>3. Len(Put(catalog, n)) <= MaxEntries
  BY <1>1, <1>2 DEF Room, Listing
<1> QED
  BY <1>2, <1>3 DEF Listing

----------------------------------------------------------------------------
(* The invariant: one step per action.                                     *)

LEMMA InvInit == Init => DreamInv
<1> SUFFICES ASSUME Init PROVE DreamInv
  OBVIOUS
<1>1. Listing(catalog)
  BY DreamAssumption DEF Init, Listing
<1> QED
  BY <1>1 DEF Init, DreamInv, TypeOK, HandedOver, RunInv

\* Writers beside Dream change the catalog only, and keep the archives in it.
LEMMA InvOthers ==
    ASSUME DreamInv,
           \/ \E a \in Archives : ChatArchives(a)
           \/ \E f \in Facts : OwnerStores(f) \/ OwnerForgets(f)
    PROVE  DreamInv'
<1>1. ASSUME NEW a \in Archives, ChatArchives(a) PROVE DreamInv'
  <2>1. Listing(catalog') /\ Range(catalog') = Range(catalog) \cup {a}
    BY <1>1, ListingPut DEF ChatArchives, DreamInv, TypeOK, Names
  <2> QED
    BY <1>1, <2>1 DEF ChatArchives, DreamInv, TypeOK, HandedOver, RunInv, Listing, run
<1>2. ASSUME NEW f \in Facts, OwnerStores(f) PROVE DreamInv'
  <2>1. Listing(catalog') /\ Range(catalog') = Range(catalog) \cup {f}
    BY <1>2, ListingPut DEF OwnerStores, DreamInv, TypeOK, Names
  <2> QED
    BY <1>2, <2>1 DEF OwnerStores, DreamInv, TypeOK, HandedOver, RunInv, Listing, run
<1>3. ASSUME NEW f \in Facts, OwnerForgets(f) PROVE DreamInv'
  <2>1. Listing(catalog') /\ Range(catalog') = Range(catalog) \ {f}
    BY <1>3, ListingWithout DEF OwnerForgets, DreamInv, TypeOK
  <2>2. f \notin Archives
    BY DreamAssumption
  <2> QED
    BY <1>3, <2>1, <2>2 DEF OwnerForgets, DreamInv, TypeOK, HandedOver, RunInv, Listing, run
<1> QED
  BY <1>1, <1>2, <1>3

\* A run reads and waits without touching what is stored.
LEMMA InvReads ==
    ASSUME DreamInv, NEW r \in Runs, ReadsArchive(r) \/ ReadsProfile(r) \/ TurnStarts(r)
    PROVE  DreamInv'
<1>1. Batch(catalog) \subseteq Archives
  BY DreamAssumption DEF Batch
<1>2. CASE ReadsArchive(r)
  BY <1>1, <1>2 DEF ReadsArchive, DreamInv, TypeOK, HandedOver, RunInv, Listing
<1>3. CASE ReadsProfile(r)
  BY <1>3 DEF ReadsProfile, DreamInv, TypeOK, HandedOver, RunInv, Listing
<1>4. CASE TurnStarts(r)
  BY <1>4 DEF TurnStarts, DreamInv, TypeOK, HandedOver, RunInv, Listing
<1> QED
  BY <1>2, <1>3, <1>4

\* What a call's result adds, in every run.
LEMMA AnsweredHonestly ==
    ASSUME DreamInv, NEW r \in Runs, NEW done \in BOOLEAN, Answered(r, done)
    PROVE  /\ results' \in [Runs -> SUBSET {"landed", "failed"}]
           /\ missing' \in [Runs -> BOOLEAN]
           /\ \A s \in Runs : missing'[s] => "failed" \in results'[s]
           /\ \A s \in Runs \ {r} : results'[s] = results[s]
<1>1. PICK heard \in {done, FALSE} :
        /\ results' = [results EXCEPT ![r] = @ \cup {IF heard THEN "landed" ELSE "failed"}]
        /\ missing' = [missing EXCEPT ![r] = @ \/ ~done]
  BY DEF Answered
<1>2. heard => done
  BY <1>1
<1>3. results' \in [Runs -> SUBSET {"landed", "failed"}] /\ missing' \in [Runs -> BOOLEAN]
  BY <1>1 DEF DreamInv, TypeOK
<1>4. \A s \in Runs : missing'[s] => "failed" \in results'[s]
  <2> SUFFICES ASSUME NEW s \in Runs, missing'[s] PROVE "failed" \in results'[s]
    OBVIOUS
  <2>1. CASE s # r
    BY <1>1, <2>1 DEF DreamInv, TypeOK, RunInv
  <2>2. CASE s = r /\ done
    BY <1>1, <2>2 DEF DreamInv, TypeOK, RunInv
  <2>3. CASE s = r /\ ~done
    BY <1>1, <1>2, <2>3 DEF DreamInv, TypeOK
  <2> QED
    BY <2>1, <2>2, <2>3
<1>5. \A s \in Runs \ {r} : results'[s] = results[s]
  BY <1>1 DEF DreamInv, TypeOK
<1> QED
  BY <1>3, <1>4, <1>5

\* The model's writes: the profile, a fact, the removal of a fact.
LEMMA InvWrites ==
    ASSUME DreamInv, NEW r \in Runs,
           Rewrites(r) \/ \E f \in Facts : StoresFact(r, f) \/ ForgetsFact(r, f)
    PROVE  DreamInv'
<1>1. CASE Rewrites(r)
  <2>1. PICK done \in BOOLEAN : Answered(r, done)
    BY <1>1 DEF Rewrites
  <2>2. /\ results' \in [Runs -> SUBSET {"landed", "failed"}] /\ missing' \in [Runs -> BOOLEAN]
        /\ \A s \in Runs : missing'[s] => "failed" \in results'[s]
        /\ \A s \in Runs \ {r} : results'[s] = results[s]
    BY <2>1, AnsweredHonestly
  <2>3. profile' \subseteq Archives /\ moved' \in [Runs -> BOOLEAN]
    BY <1>1 DEF Rewrites, DreamInv, TypeOK
  <2>4. \A s \in Runs : ~moved'[s] => profile' = profile /\ ~moved[s]
    BY <1>1 DEF Rewrites
  <2> QED
    BY <1>1, <2>2, <2>3, <2>4 DEF Rewrites, DreamInv, TypeOK, HandedOver, RunInv, Listing
<1>2. ASSUME NEW f \in Facts, StoresFact(r, f) PROVE DreamInv'
  <2>1. PICK done \in BOOLEAN : Answered(r, done)
    BY <1>2 DEF StoresFact
  <2>2. /\ results' \in [Runs -> SUBSET {"landed", "failed"}] /\ missing' \in [Runs -> BOOLEAN]
        /\ \A s \in Runs : missing'[s] => "failed" \in results'[s]
        /\ \A s \in Runs \ {r} : results'[s] = results[s]
    BY <2>1, AnsweredHonestly
  <2>3. Listing(catalog') /\ Range(catalog) \subseteq Range(catalog')
    BY <1>2, ListingPut DEF StoresFact, DreamInv, TypeOK, Names
  <2> QED
    BY <1>2, <2>2, <2>3 DEF StoresFact, DreamInv, TypeOK, HandedOver, RunInv, Listing
<1>3. ASSUME NEW f \in Facts, ForgetsFact(r, f) PROVE DreamInv'
  <2>1. PICK done \in BOOLEAN : Answered(r, done)
    BY <1>3 DEF ForgetsFact
  <2>2. /\ results' \in [Runs -> SUBSET {"landed", "failed"}] /\ missing' \in [Runs -> BOOLEAN]
        /\ \A s \in Runs : missing'[s] => "failed" \in results'[s]
        /\ \A s \in Runs \ {r} : results'[s] = results[s]
    BY <2>1, AnsweredHonestly
  <2>3. Listing(catalog') /\ Range(catalog) \ {f} \subseteq Range(catalog')
    BY <1>3, ListingWithout, ZenonT(60) DEF ForgetsFact, DreamInv, TypeOK
  <2>4. f \notin Archives
    BY DreamAssumption
  <2> QED
    BY <1>3, <2>2, <2>3, <2>4 DEF ForgetsFact, DreamInv, TypeOK, HandedOver, RunInv, Listing
<1> QED
  BY <1>1, <1>2, <1>3

\* The verdict: what is about to be deleted is digested from now on.
LEMMA InvCompletes ==
    ASSUME DreamInv, NEW r \in Runs, TurnCompletes(r)
    PROVE  DreamInv'
  BY DEF TurnCompletes, Saved, Consumed, DreamInv, TypeOK, HandedOver, RunInv, Listing

\* The end of a run: only digested archives leave the catalog.
LEMMA InvDeletes ==
    ASSUME DreamInv, NEW r \in Runs, RunEnds(r) \/ \E a \in Archives : Deletes(r, a)
    PROVE  DreamInv'
<1>1. ASSUME NEW a \in Archives, Deletes(r, a) PROVE DreamInv'
  <2>1. Listing(catalog') /\ Range(catalog') = Range(catalog) \ {a}
    BY <1>1, ListingWithout DEF Deletes, DreamInv, TypeOK
  <2>2. a \in digested
    BY <1>1 DEF Deletes, DreamInv, RunInv
  <2> QED
    BY <1>1, <2>1, <2>2 DEF Deletes, DreamInv, TypeOK, HandedOver, RunInv, Listing
<1>2. CASE RunEnds(r)
  <2>1. Listing(catalog') /\ Range(catalog) \subseteq Range(catalog') \cup digested
    <3>1. CASE UNCHANGED catalog
      BY <3>1 DEF DreamInv, TypeOK
    <3>2. ASSUME NEW a \in batch[r], phase[r] = "deleting", catalog' = Without(catalog, a)
          PROVE  Listing(catalog') /\ Range(catalog) \subseteq Range(catalog') \cup digested
      <4>1. Listing(catalog') /\ Range(catalog') = Range(catalog) \ {a}
        BY <3>2, ListingWithout DEF DreamInv, TypeOK
      <4>2. a \in digested
        BY <3>2 DEF DreamInv, RunInv
      <4> QED
        BY <4>1, <4>2
    <3> QED
      BY <1>2, <3>1, <3>2 DEF RunEnds
  <2> QED
    BY <1>2, <2>1 DEF RunEnds, ResetRun, DreamInv, TypeOK, HandedOver, RunInv, Listing
<1> QED
  BY <1>1, <1>2

LEMMA InvStep == DreamInv /\ [Next]_vars => DreamInv'
<1> SUFFICES ASSUME DreamInv, [Next]_vars PROVE DreamInv'
  OBVIOUS
<1>1. CASE UNCHANGED vars
  BY <1>1 DEF vars, run, DreamInv, TypeOK, HandedOver, RunInv, Listing
<1>2. ASSUME NEW r \in Runs, RunStep(r) PROVE DreamInv'
  BY <1>2, InvReads, InvWrites, InvCompletes, InvDeletes DEF RunStep
<1> QED
  BY <1>1, <1>2, InvOthers DEF Next

\* DreamInv holds of every reachable state.
THEOREM DreamInvariant == Spec => []DreamInv
<1> QED
  BY InvInit, InvStep, PTL DEF Spec

\* TypeOK, for every set of groups, limit and number of runs: the catalog never lists a name twice
\* and never grows past its limit, and a run that is over leaves nothing behind.
THEOREM DreamTypes == Spec => []TypeOK
<1>1. DreamInv => TypeOK
  BY DEF DreamInv
<1> QED
  BY <1>1, DreamInvariant, PTL

\* HandedOver: nothing a chat has stopped showing is gone before a saved Dream has read it.
THEOREM NothingIsLostUndigested == Spec => []HandedOver
<1>1. DreamInv => HandedOver
  BY DEF DreamInv
<1> QED
  BY <1>1, DreamInvariant, PTL

\* What a step may take out of the catalog: a fact, or a group that was digested.
LEMMA LeavesDigested ==
    ASSUME DreamInv, Next
    PROVE  Range(catalog) \cap Archives \subseteq Range(catalog') \cup digested
<1> USE DEF DreamInv, TypeOK
<1>1. ASSUME NEW n \in Names, Room(n), catalog' = Put(catalog, n)
      PROVE  Range(catalog) \subseteq Range(catalog')
  BY <1>1, ListingPut
<1>2. ASSUME NEW n, n \notin Archives \/ n \in digested, catalog' = Without(catalog, n)
      PROVE  Range(catalog) \cap Archives \subseteq Range(catalog') \cup digested
  BY <1>2, ListingWithout
<1>3. ASSUME NEW a \in Archives, ChatArchives(a) PROVE Range(catalog) \subseteq Range(catalog')
  BY <1>1, <1>3 DEF ChatArchives, Names
<1>4. ASSUME NEW f \in Facts, OwnerStores(f) \/ \E r \in Runs : StoresFact(r, f)
      PROVE  Range(catalog) \subseteq Range(catalog')
  BY <1>1, <1>4 DEF OwnerStores, StoresFact, Names
<1>5. ASSUME NEW f \in Facts, OwnerForgets(f) \/ \E r \in Runs : ForgetsFact(r, f)
      PROVE  Range(catalog) \cap Archives \subseteq Range(catalog') \cup digested
  <2>1. f \notin Archives
    BY DreamAssumption
  <2> QED
    BY <1>2, <1>5, <2>1 DEF OwnerForgets, ForgetsFact
<1>6. ASSUME NEW r \in Runs, RunEnds(r) \/ \E a \in Archives : Deletes(r, a)
      PROVE  Range(catalog) \cap Archives \subseteq Range(catalog') \cup digested
  <2>1. \A a \in batch[r] : phase[r] = "deleting" => a \in digested
    BY DEF RunInv
  <2> QED
    BY <1>2, <1>6, <2>1 DEF RunEnds, Deletes
<1>7. ASSUME NEW r \in Runs,
             \/ ReadsArchive(r) \/ ReadsProfile(r) \/ TurnStarts(r)
             \/ Rewrites(r) \/ TurnCompletes(r)
      PROVE  catalog' = catalog
  BY <1>7 DEF ReadsArchive, ReadsProfile, TurnStarts, Rewrites, TurnCompletes
<1> QED
  BY <1>3, <1>4, <1>5, <1>6, <1>7, Zenon DEF Next, RunStep

\* Only a saved run adds to what is digested, and nothing is taken out of it.
LEMMA DigestedGrows == ASSUME Next PROVE digested \subseteq digested'
BY DEF Next, RunStep, ChatArchives, OwnerStores, OwnerForgets, ReadsArchive, ReadsProfile, TurnStarts,
       Rewrites, StoresFact, ForgetsFact, TurnCompletes, Deletes, RunEnds

\* ArchiveLasts: the archive that SessionArchive writes to only grows, although Dream runs delete
\* from it, beside each other and beside the chat.
THEOREM ArchiveIsLasting == Spec => ArchiveLasts
<1>1. DreamInv /\ [Next]_vars => [Accounted \subseteq Accounted']_vars
  BY LeavesDigested, DigestedGrows DEF Accounted
<1> QED
  BY <1>1, DreamInvariant, PTL DEF Spec, ArchiveLasts

\* DeletesAfterSaving: archives are deleted only when every write the model asked for has landed.
THEOREM SavedBeforeDeleted == Spec => []DeletesAfterSaving
<1>1. DreamInv => DeletesAfterSaving
  BY DEF DreamInv, RunInv, DeletesAfterSaving
<1> QED
  BY <1>1, DreamInvariant, PTL

\* ProfileKeepsDetails: no rewrite of the profile drops what another run has put there.
THEOREM ProfileIsKept == Spec => ProfileKeepsDetails
<1>1. DreamInv /\ [Next]_vars => [profile \subseteq profile']_vars
  <2> SUFFICES ASSUME DreamInv, Next PROVE profile \subseteq profile'
    BY DEF vars
  <2>1. ASSUME NEW r \in Runs, Rewrites(r) PROVE profile \subseteq profile'
    BY <2>1 DEF Rewrites, Unmoved, DreamInv, RunInv
  <2>2. CASE UNCHANGED profile
    BY <2>2
  <2>3. \/ UNCHANGED profile \/ \E r \in Runs : Rewrites(r)
    BY DEF Next, RunStep, ChatArchives, OwnerStores, OwnerForgets, ReadsArchive, ReadsProfile,
           TurnStarts, StoresFact, ForgetsFact, TurnCompletes, Deletes, RunEnds
  <2> QED
    BY <2>1, <2>2, <2>3
<1> QED
  BY <1>1, DreamInvariant, PTL DEF Spec, ProfileKeepsDetails
=============================================================================

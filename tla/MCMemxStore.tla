----------------------------- MODULE MCMemxStore -----------------------------
(* Small instances of MemxStore. *)
EXTENDS MemxStore, TLC

CONSTANTS f1, f2, v1, v2, noTag, topic

MCTagOf == v1 :> noTag @@ v2 :> topic

\* Conditional writes and deletes of facts ("the fact must be absent", "the record
\* must be at version 0 or 1") and unconditional ones, beside a few of the key
\* without catalog entry.
SomeRequests ==
    {r \in Request :
        IF r.key = Profile
        THEN r.val \in {v1, NoValue} /\ r.expected \in {NoVersion, 0}
        ELSE r.expected \in {NoVersion, Unset} \cup 0..(MaxVersion - 1)}

Symmetry == Permutations(Facts) \cup Permutations(Workers)
=============================================================================

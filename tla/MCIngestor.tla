----------------------------- MODULE MCIngestor -----------------------------
(* Small instances of Ingestor. *)
EXTENDS Ingestor, TLC

CONSTANTS f1, f2, v1, v2, noTag, topic

MCTagOf == v1 :> noTag @@ v2 :> topic

\* Conditional requests only: ingest always sends expected_ts.
ConditionalRequests == {r \in Request : r.expected # Unset}

\* A fact stored and deleted, a second one that competes for the same catalog slot,
\* and a Dream's rewrite of the profile.
SomeCalls == {[kind |-> "memory", key |-> f1, val |-> v1],
              [kind |-> "delete", key |-> f1, val |-> NoValue],
              [kind |-> "memory", key |-> f2, val |-> v2],
              [kind |-> "profile", key |-> Profile, val |-> v1]}

Symmetry == Permutations(Clients) \cup Permutations(Workers)
=============================================================================

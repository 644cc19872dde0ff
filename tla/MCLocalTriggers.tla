--------------------------- MODULE MCLocalTriggers ---------------------------
(* Three deliveries for two triggers, the second on a channel that the     *)
(* gateway may not run.                                                    *)
EXTENDS LocalTriggers

MCTriggerOf == [d \in Deliveries |-> IF d = 2 THEN "b" ELSE "a"]
=============================================================================

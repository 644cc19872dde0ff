----------------------------- MODULE MCDreamRun -----------------------------
(* Values for the runs of DreamRun: two short groups, a long one, one that no  *)
(* run can read and one that is too long, with a limit of two rows.            *)
EXTENDS DreamRun

CONSTANTS short, brief, long, garbled, huge

MCRows == [a \in Archives |-> CASE a = long -> 2 [] a = huge -> 3 [] OTHER -> 1]
=============================================================================

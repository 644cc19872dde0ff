-------------------------- MODULE MCSessionArchive --------------------------
(* Values for the runs of SessionArchive: which operations take the lock.    *)
EXTENDS SessionArchive

AllJobs == {"turn", "idle", "cap", "new"}
=============================================================================

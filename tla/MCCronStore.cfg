\* Saves that fail, crashes, damage, the other process, manual runs.
SPECIFICATION FairSpec
CONSTANTS
    Jobs = {"once", "dream"}
    System = {"dream"}
    OneShot = {"once"}
    DeleteAfter = {"once"}
    Whens <- Intervals
    MaxNow = 4
    MaxSleep = 2
INVARIANTS TimerCovers RemovalHolds
PROPERTIES NoReplay JobsLeaveForAReason DueRuns

\* Turns that compact their own history, the file cap and the idle scan, with fairness.
SPECIFICATION ScannedSpec
CONSTANTS
    Jobs = {"turn", "idle", "cap"}
    CompactInTurn = TRUE
    Cap = 2
    Opening = 2
    MaxMessages = 6
PROPERTIES UndisturbedTurn EventuallyArchived
CHECK_DEADLOCK FALSE

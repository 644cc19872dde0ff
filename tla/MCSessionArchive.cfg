\* Every job, every failure, deliveries at any time.
SPECIFICATION Spec
CONSTANTS
    Jobs <- AllJobs
    CompactInTurn = FALSE
    Cap = 2
    Opening = 0
    MaxMessages = 5
INVARIANTS HiddenIsArchived MarkAtBoundary
PROPERTIES OnlyLateIsLost CapLosesNothing
CHECK_DEADLOCK FALSE

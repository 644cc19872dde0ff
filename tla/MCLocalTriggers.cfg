SPECIFICATION FairSpec
CONSTANTS
    Triggers = {"a", "b"}
    Deliveries = {1, 2, 3}
    TriggerOf <- MCTriggerOf
    Connected = {"a"}
    MaxAttempts = 2
    BatchSize = 2
    Gone = Gone
    MaxFaults = 3
INVARIANTS NothingForgotten TurnsBounded
CHECK_DEADLOCK FALSE
PROPERTIES EveryDeliveryEnds QueueKeepsFaith

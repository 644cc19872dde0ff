CONSTANTS
    telegram = telegram
    vk = vk
    web = web
    Nothing = Nothing
    Msgs = {1, 2, 3}
    Runs = {1, 2}
    RunOf <- OneRun
    Origin = telegram
    Alternatives <- OtherRoutes
    Slots = 2
    MaxTries = 2
    Keep = 1
    MaxStops = 1
SPECIFICATION FairSpec
INVARIANTS InOrder NoneForgotten
PROPERTIES EveryMessageEnds FallsBackInOrder
CHECK_DEADLOCK FALSE

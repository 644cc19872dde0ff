\* Follow-ups, two automation turns, a /stop, a /new and a compaction of one session.
SPECIFICATION FairSpec
CONSTANTS
    Users = {u1, u2}
    Autos = {a1, a2}
    Stops = {stop}
    News = {new}
    Others = {compaction}
    Cap = 1
INVARIANTS DeferredAreReleased
PROPERTIES ServesInTurn CommandsComeAfter EveryMessageServed AutomationsReport

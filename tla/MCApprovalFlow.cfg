\* A question and a plain message share the stores.
SPECIFICATION Spec
CONSTANTS
    owner = owner
    child = child
    question = question
    message = message
    NoTimer = NoTimer
    Sends <- MCSends
    Asks = {question}
    People <- MCPeople
    Approvers = {owner, child}
    Elsewhere = {owner}
    Target <- MCTarget
    TTL = 2
    Wait = 1
INVARIANTS RefusedStaysRefused OneOutcome
PROPERTY TimeoutIsHonest
CHECK_DEADLOCK FALSE

\* One question under fair scheduling.
SPECIFICATION FairSpec
CONSTANTS
    owner = owner
    child = child
    question = question
    message = message
    NoTimer = NoTimer
    Sends = {question}
    Asks = {question}
    People <- MCPeople
    Approvers = {owner, child}
    Elsewhere = {owner}
    Target <- MCTargetOne
    TTL = 2
    Wait = 1
PROPERTIES QuestionEnds DeliversByConsent
CHECK_DEADLOCK FALSE

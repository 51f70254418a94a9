SPECIFICATION ProviderSpec
CONSTANTS
    Requests = {r1, r2}
    Task = Task
    Policies <- MCPolicies
    NegPolicies <- MCNegPolicies
    MaxAge = 1
    PROVIDER_FETCH_TIMEOUT = 1
    COOLDOWN = 1
    MaxTime = 2
    MaxAnswers = 2
    MaxDrops = 1
    NoVal = NoVal
INVARIANTS AnswersCurrent AsksOnlyWhenNeeded
PROPERTIES RequestsEnd
CHECK_DEADLOCK FALSE

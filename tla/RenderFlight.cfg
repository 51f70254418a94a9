SPECIFICATION FairSpec
CONSTANTS
    NoVal = NoVal
    Callers = {c1, c2}
    Keys = {k1}
    Grants <- SomeGrants
    Cacheable = {TRUE, FALSE}
    Wildcard = "*"
INVARIANTS FlightsSound HitsCovered
PROPERTIES KeepsFlightContract FollowerWoken

SPECIFICATION Spec
CONSTANTS
    Callers = {c1, c2}
    Registries = {r1, r2}
    Valid <- MCDocuments
    MAX_CONCURRENT_REGISTRY_LOADS = 1
    MaxTurns = 2
    NoVal = NoVal
INVARIANTS RegistriesAdvance FlightsLed
PROPERTIES CallsEnd
CHECK_DEADLOCK FALSE

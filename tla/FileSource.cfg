SPECIFICATION Spec
CONSTANTS
    Requests = {r1, r2}
    Modes = {"cached"}
    RegularPermits = 1
    LowPermits = 1
    BodyPermits = 1
    RetryWindow = 2
    MaxTurns = 2
    NoVal = NoVal
INVARIANTS NobodyStranded GuardsExact PatientErrors
PROPERTIES RequestsEnd
CHECK_DEADLOCK FALSE

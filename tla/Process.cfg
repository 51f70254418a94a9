SPECIFICATION ProcessSpec
CONSTANTS
    c1 = c1
    c2 = c2
    Callers <- MCCallers
    MaxTurns = 3
    NoVal = NoVal
    Slots = {s1}
    MaxThreads = 4
    UsizeModulus = 8
    HttpRequests = {r1, r2, r3}
    Limit = 2
INVARIANTS NobodyStranded ViewsCurrent OrphansBudgeted AvailabilityExact DrainExact ClosesDrained
PROPERTIES CallsEnd SlotRecovers ShutdownEnds

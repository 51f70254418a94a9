SPECIFICATION MCSpec
CONSTANTS
    NoVal = NoVal
    w1 = w1
    w2 = w2
    StaticKeys = {"static"}
    Workers <- MCWorkers
    Requests <- MCRequests
    RenderPermits = 1
    NativePermits = 1
    source_cache_capacity = 2
INVARIANT FailuresKeepRecordsEqual

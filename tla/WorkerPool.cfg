SPECIFICATION MCSpec
CONSTANTS
    NoVal = NoVal
    p1 = p1
    p2 = p2
    s1 = s1
    t1 = t1
    t2 = t2
    t3 = t3
    t4 = t4
    t5 = t5
    Tasks <- MCTasks
    Profiles = {p1, p2}
    Sources = {s1}
    Requests <- MCRequests
    ShapeOf <- MCShapeOf
    NumWorkers = 2
    queue_capacity = 2
    bl_capacity = 1
    AffinityCap = 1
INVARIANTS AdmissionExact PredictionsSound OrderedPredictionHolds CompleteShutdownIsDrained
PROPERTIES PoolSettles
CHECK_DEADLOCK FALSE

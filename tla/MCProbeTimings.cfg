SPECIFICATION Spec
CONSTANTS
    t1 = t1
    t2 = t2
    Threads <- MCThreads
    Ids <- MCIds
    Expected <- MCExpected
    None = None
    MaxActivations = 3
    MaxTime = 4
SYMMETRY Interchangeable
CHECK_DEADLOCK FALSE
INVARIANTS
    SamplesTrue
    CompleteTraceVerdicts

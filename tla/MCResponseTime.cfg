SPECIFICATION Spec
CONSTANTS
    Threads = {1, 2, 3}
    Isrs = {9}
    Workloads <- MCWorkloads
    Undeclared = Undeclared
    NoThread = NoThread
    Pending = Pending
    Diverged = Diverged
    MaxU64 = 15
    MaxPending = 2
    MaxAge = 8
INVARIANTS
    TypeOK
    LeastFixedPoint
    RejectsOnlyDivergence
    ResponseBounded

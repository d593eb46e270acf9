SPECIFICATION Spec
CONSTANTS
    Threads = {1, 2, 3, 4}
    MaxProcs = 3
    Tasks <- MCTasks
    None = None
    Unknown = Unknown
    Unit = 6
INVARIANTS
    UnallocatedFitsNowhere
    FirstFitInOrder
    PacksTightly
    MilpDominates
PROPERTY
    Implements

SPECIFICATION Spec
CONSTANTS
    Threads = {1, 2}
    Isrs = {9}
    Workloads <- WithinCapacity
    Undeclared = Undeclared
    NoThread = NoThread
    Pending = Pending
    Diverged = Diverged
    MaxU64 = 63
    MaxPending = 3
    MaxAge = 16
INVARIANT AcceptedMeetDeadlines

SPECIFICATION LockFairSpec
CONSTANTS
    Procs = {p1, p2, p3}
    MaxOrphans = 2
INVARIANTS
    LockOwned
PROPERTIES
    ImplementsMutex
    WaiterAnswered

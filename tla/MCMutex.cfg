CONSTANTS
    idle = idle
    a = a
    b = b
    c = c
    Threads <- MCThreads
    Idle = idle
    NoThread = NoThread
    Levels = 3
    Priority <- MCPriority
    MaxThreads = 4
    Terminable <- MCSleeping
    l = l
    Locks <- MCLocks
    Signals = {s}
    NoMutex = NoMutex
    PeeksAtWaiters = FALSE
SPECIFICATION MCFairSpec
INVARIANTS
    WaitersAreBlocked
    OneOwner
PROPERTIES
    ArrivalOrder
    ImplementsPriorityLock
    GivenLockReturns

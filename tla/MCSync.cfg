CONSTANTS
    idle = idle
    a = a
    c = c
    Threads <- MCThreads
    Idle = idle
    NoThread = NoThread
    Levels = 3
    Priority <- MCPriority
    MaxThreads = 3
    Terminable <- MCSleeping
    Locks = {}
    Signals = {l, s}
    NoMutex = NoMutex
    PeeksAtWaiters = FALSE
    Inner = l
    MaxNest = 2
    SemaMutex = s
    MaxValue = 2
SPECIFICATION MCSpec
INVARIANTS
    WaitersHaveHolder
    FirstUnitArrives
PROPERTIES
    ImplementsReentrantLock

CONSTANTS
    idle = idle
    a = a
    b = b
    c = c
    Threads <- MCThreads
    Idle = idle
    NoThread = NoThread
    Levels = 3
    Priority <- MCPriority
    MaxThreads = 3
    Terminable <- MCSleeping
    l = l
    Locks <- MCLocks
    Signals = {s}
    NoMutex = NoMutex
    PeeksAtWaiters = TRUE
SPECIFICATION MCSpec
INVARIANT
    LockBlocks

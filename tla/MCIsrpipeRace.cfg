CONSTANTS
    idle = idle
    a = a
    b = b
    Threads <- MCThreads
    Idle = idle
    NoThread = NoThread
    Levels = 3
    Priority <- MCPriority
    MaxThreads = 3
    Terminable <- MCSleeping
    Locks = {}
    Signals = {m}
    NoMutex = NoMutex
    PeeksAtWaiters = FALSE
    Reader = a
    PipeMutex = m
    BufSize = 2
    UnsignedRange = 8
    MaxRead = 2
    NumBytes = 4
    CountsFirst = TRUE
SPECIFICATION MCSpec
INVARIANT
    BytesInOrder

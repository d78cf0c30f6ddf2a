CONSTANTS
    idle = idle
    a = a
    b = b
    c = c
    Threads <- MCThreads
    Idle = idle
    NoThread = NoThread
    Levels = 3
    Priority <- MCPriority
    MaxThreads = 4
    Terminable <- MCSleeping
SPECIFICATION FairSpec
INVARIANTS
    TypeOK
    RunqueueConsistent
    ExecutingIsHead
    OnlyActiveRuns
    PriorityHonoured
    PidsIdentifyThreads
PROPERTIES
    FirstIsDispatched
    OnlyYieldReorders

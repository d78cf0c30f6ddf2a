CONSTANTS
    idle = idle
    a = a
    b = b
    e1 = e1
    e2 = e2
    Threads <- MCThreads
    Idle = idle
    NoThread = NoThread
    Levels = 3
    Priority <- MCPriority
    MaxThreads = 3
    Terminable <- MCSleeping
    FlagBits = {0, 1}
    NoWait = NoWait
    AllEvents = {e1, e2}
    Target <- MCTarget
    EventFlag = 0
    NoEvent = NoEvent
SPECIFICATION MCFairSpec
INVARIANTS
    EventsTypeOK
    BlockedUnsatisfied
    PassedSatisfied
    LinkedIsSomewhere
    NoEventOverlooked
PROPERTIES
    FlagsAreKept
    EventIsTaken

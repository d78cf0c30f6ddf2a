CONSTANTS
    idle = idle
    a = a
    b = b
    c = c
    Threads <- MCThreads
    Idle = idle
    NoThread = NoThread
    Levels = 3
    Priority <- MCPriority
    MaxThreads = 4
    Terminable <- MCSleeping
    Owners <- MCOwners
    QueueSize = 1
    Isr = Isr
    NoMsg = NoMsg
    MaxSends = 2
SPECIFICATION MCFairSpec
INVARIANTS
    MsgTypeOK
    SendersAreBlocked
    CallsReturnDone
    ClientsAwaitReply
    DeliveredInOrder
PROPERTY
    CallReturns

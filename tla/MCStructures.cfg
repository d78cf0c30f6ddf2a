CONSTANTS
    x = x
    y = y
    Nodes = {n1, n2, n3, n4}
    Null = Null
    Items = {x, y, z}
    None = None
    CountRange = 8
    Size = 2
    Bytes = {x, y}
    Unknown = Unknown
    Capacity = 3
    RemovesToEnd = FALSE
    Letters = {x, y}
    CommandSets <- MCCommandSets
    UserTexts <- MCUserTexts
    RxBufferSize = 6
    TxBufferSize = 5
    MaxLineLength = 5
    MaxArgs = 2
SPECIFICATION MCSpec
INVARIANTS
    RingIsClosed
PROPERTIES
    ImplementsDeque
    ImplementsFifo
    ImplementsByteQueue
    ImplementsConsole

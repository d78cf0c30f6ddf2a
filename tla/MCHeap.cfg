CONSTANTS
    MemorySize = 52
    AlignSize = 4
    Requests = {1, 5, 40}
    NoPtr = NoPtr
SPECIFICATION HeapSpec
INVARIANT
    HeapConsistent
PROPERTY
    ImplementsAllocator

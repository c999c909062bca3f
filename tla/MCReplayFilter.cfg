CONSTANTS
    BlockBits = 2
    RingBlocks = 4
    Limit = 17
    Counters <- MCCounters
SPECIFICATION Spec
INVARIANTS
    TypeOK
    RingExact
PROPERTIES
    ImplementsWindow

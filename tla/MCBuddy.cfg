CONSTANTS
    MAX_ORDER = 3
    PAGE_SIZE = 4
    Regions <- MCRegions
SPECIFICATION Spec
INVARIANTS
    TypeOK
    NoOverlap
    Conservation
    BlocksValid
    StatsExact
    Coalesced
PROPERTIES
    FailsOnlyWhenExhausted
    ImplementsPageAllocator
    CallsReturn

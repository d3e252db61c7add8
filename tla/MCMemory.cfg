CONSTANTS
    MAX_ORDER = 3
    PAGE_SIZE = 2
    Regions = {}
    RANGE_COUNT = 4
    UsizeMax = 50
    Layouts <- MCLayouts
    Sizes <- MCSizes
    Addresses <- MCAddresses
    MaxWrites = 4
SPECIFICATION MemorySpec
INVARIANTS
    Separated
    ExactCover
    NoPanicWhileRoomy
    BlockedStaysBlocked
    InsideTree
    OnlyLastPagesMissing
    OrderFits
CHECK_DEADLOCK FALSE

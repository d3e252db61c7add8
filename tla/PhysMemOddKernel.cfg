CONSTANTS
    MAX_ORDER = 3
    PAGE_SIZE = 2
    Regions = {}
    RANGE_COUNT = 4
    UsizeMax = 50
    Layouts <- OddLayouts
    Sizes <- MCSizes
    Addresses <- MCAddresses
    MaxWrites = 0
SPECIFICATION MemorySpec
INVARIANT BlockedStaysBlocked
CHECK_DEADLOCK FALSE

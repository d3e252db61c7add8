CONSTANTS
    LEVELS = 4
    FANOUT = 2
    PhysPages = {2, 3, 4, 5, 6}
    Root = 1
    MapRequests <- MCMapRequests
    AllocRequests <- PairRequests
SPECIFICATION Spec
INVARIANT NoStaleAccess

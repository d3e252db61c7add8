CONSTANTS
    Harts = {h1, h2, h3}
    UsizeMax = 5
    Users = {u1, u2, u3, u4}
SPECIFICATION LocksSpec
INVARIANTS
    TypeOK
    MutualExclusion
    TicketInv
    RwTypeOK
    Exclusion
    WordInv
PROPERTIES
    ImplementsFairLock
    StarvationFree
    NoDeadlock
    ReaderWaitsForWriterOnly
CHECK_DEADLOCK FALSE

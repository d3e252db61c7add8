CONSTANTS
    BLOCKS = 8
    SUBTABLE_CAP = 2
    IRQS = 2
    Harts = {0, 1}
    NDEV = 64
    Sources = {1, 64}
    UART = 1
    MESSAGE <- MCMessage
    CALLS = 3
    EVENTS = 2
SPECIFICATION Spec
INVARIANTS
    RegistersRestored
    NoStrayAccess
    EnableExact
    SentAsWritten
PROPERTIES
    Finishes
    Served
CHECK_DEADLOCK FALSE

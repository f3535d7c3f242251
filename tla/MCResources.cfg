SPECIFICATION ResourcesSpec
CONSTANTS
    PTRS = 2
    Callers = {c1, c2}
    MaxCalls = 3
    Adds <- MCAdds
    Changes <- MCChanges
    Dels <- MCDels
    Probes = {5, 8}
    Force4k = TRUE
    LargeLevels = {"pd", "pdpt"}
    NONE = NONE
    A = A
    B = B
    SIZE = 9
    MARGIN = 8
    BURST = 2
    Uses <- MCUses
    MaxOps = 2
    NULL = NULL
    IOC_MAX_REQUESTS = 3
    MaxUart = 1
    MaxPeriodic = 1
    MaxRequests = 2
    Races = {}
    NOREQ = NOREQ
INVARIANTS MemoryInv VuartInv IocInv
PROPERTY Served
CHECK_DEADLOCK FALSE
